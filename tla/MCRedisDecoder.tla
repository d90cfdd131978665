---------------------------- MODULE MCRedisDecoder ----------------------------
(***************************************************************************)
(* Instances for TLC of what a connection reads and writes: RedisDecoder,  *)
(* RedisEncoder, and the order of the answers.  The models share no state, *)
(* so a behaviour uses one.                                                *)
(***************************************************************************)
EXTENDS RedisDecoder, RedisEncoder, OrderedRedisMessageAdapter

CONSTANTS ok, err, async

\* One string; an empty string, whose bytes are noise if misread; two requests;
\* strings made of the bytes of the protocol.
Short == <<<<<<"x">>>>>>
Empty == <<<<<<>>, <<"x">>>>>>
Two == <<<<<<"X">>>>, <<<<>>>>>>
Nasty == <<<<<<CR, LF, "*">>>>, <<<<"$", CR>>>>>>

\* One command, with one argument or none.
MCTable == <<"x">> :> [minArgs |-> 0, maxArgs |-> 1]

MCPipelines == {<<>>, Short, Empty, Two, Nasty}
MCEdited == {Short, Empty}

\* Every type of value, and replies that contain the bytes of others.
MCReplies ==
  {Value("kInteger", n) : n \in {-1, 0, 2}}
    \cup {Value(t, s) : t \in {"kError", "kSimpleString", "kBulkString"},
                        s \in {<<>>, <<"x">>, <<CR, LF>>, <<"x", CR, LF>>}}
    \cup {Value("kArray", a) : a \in {<<>>, <<Value("kInteger", 0)>>, <<Value("kNullString", <<>>)>>}}
    \cup {Value("kBulkStringArray", a) : a \in {<<<<>>>>, <<<<CR>>, <<LF>>>>}}
    \cup {Value("kNullString", <<>>)}

-----------------------------------------------------------------------------
VARIABLE model  \* the one a behaviour uses

\* Nothing arrives at the decoder in a behaviour of another model.
MCInit ==
  /\ model \in {"decoder", "encoder", "adapter"}
  /\ Init /\ EncoderInit /\ AdapterInit
  /\ model # "decoder" => requests = <<>>

MCNext ==
  /\ UNCHANGED model
  /\ \/ model = "decoder" /\ Next /\ UNCHANGED <<replies, adapterVars>>
     \/ model = "encoder" /\ EncoderNext /\ UNCHANGED <<vars, adapterVars>>
     \/ model = "adapter" /\ AdapterNext /\ UNCHANGED <<vars, replies>>

\* No command is running in a behaviour that does not use the adapter, so the
\* fairness of its commands demands nothing there.
MCSpec == MCInit /\ [][MCNext]_<<model, vars, replies, adapterVars>> /\ Fairness
=============================================================================
