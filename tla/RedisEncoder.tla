---------------------------- MODULE RedisEncoder ----------------------------
(* codec::RedisEncoder: replies are encoded and written one by one. *)
EXTENDS RedisValue

CONSTANT
  Replies,    \* values that commands reply with
  MaxReplies  \* bound: replies on the connection

VARIABLE replies  \* the values written

EncoderInit == replies = <<>>

Encode(v) ==
  /\ Len(replies) < MaxReplies
  /\ replies' = Append(replies, v)

EncoderNext == \E v \in Replies : Encode(v)

\* A client that reads replies one after the other knows where each one ends:
\* no reply begins with another one, whatever CR and LF the texts contain.
RepliesFramed ==
  \A v, w \in ToSet(replies) :
    IsPrefix(EncodeValue(v), EncodeValue(w)) => EncodeValue(v) = EncodeValue(w)
=============================================================================
