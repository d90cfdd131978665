---------------------------- MODULE RedisDecoder ----------------------------
(***************************************************************************)
(* codec::RedisDecoder under wangle's ByteToMessageDecoder.  The bytes of  *)
(* a connection arrive in chunks, in a chain of buffers whose borders fall *)
(* anywhere; decode is called until it asks for more bytes.  It keeps no   *)
(* state between calls but the chain.                                      *)
(*                                                                         *)
(* The client sends an encoded pipeline of requests, one byte of which may *)
(* be missing, changed or added.  The wording of errors is abstracted.     *)
(* What the decoder passes on goes to RedisHandler::read.                  *)
(***************************************************************************)
EXTENDS RedisHandler

CONSTANTS
  Pipelines,   \* sequences of requests; a request is a sequence of strings
  Edited,      \* those of them that are also sent with an edit
  ChunkSizes,  \* numbers of bytes that arrive together
  MaxBuffers   \* bound: buffers of the chain when a new one is added

ASSUME DecoderAssumption ==
  /\ Edited \subseteq Pipelines
  /\ ChunkSizes \subseteq Nat \ {0} /\ MaxBuffers \in Nat \ {0}

\* The bytes that an edit may put in a stream, and all bytes of a stream.
Bytes == {"*", "$", "-", "x", CR, LF} \cup ToSet(Digits)
Characters == Bytes \cup {"X"}

kMinBytesNeeded == 2

\* Messages passed on: a request, or a protocol error.
Request(strings) == Value("kBulkStringArray", strings)
Error(e) == Value("kError", e)

VARIABLES
  requests,  \* what the client wants to send
  stream,    \* the bytes it sends
  sent,      \* number of bytes that have arrived
  chain,     \* the IOBufQueue: buffers, none of them empty
  passedOn,  \* messages passed on by the decoder
  needed     \* `needed` of the last call of decode, 0 before the first one

vars == <<requests, stream, sent, chain, passedOn, needed>>
-----------------------------------------------------------------------------
(* What clients send: requests encoded one behind the other. *)

EncodeAll(pipeline) ==
  FlattenSeq([i \in DOMAIN pipeline |-> EncodeValue(Request(pipeline[i]))])

\* The streams one byte away from s.
Edits(s) ==
  {RemoveAt(s, i) : i \in DOMAIN s}
    \cup {ReplaceAt(s, i, b) : i \in DOMAIN s, b \in Bytes}
    \cup {InsertAt(s, i, b) : i \in 1..(Len(s) + 1), b \in Bytes}
-----------------------------------------------------------------------------
(* Cursors.  A cursor is what remains of the chain. *)

Drop(s, n) == SubSeq(s, n + 1, Len(s))

\* IOBufQueue::trimStart, and Cursor::skip.
RECURSIVE TrimStart(_, _)
TrimStart(c, n) ==
  IF n = 0 THEN c
  ELSE IF n >= Len(c[1]) THEN TrimStart(Tail(c), n - Len(c[1]))
  ELSE <<Drop(c[1], n)>> \o Tail(c)

StartsWithCrLf(s) == Len(s) >= 2 /\ s[1] = CR /\ s[2] = LF

\* Length of the \r\n pairs at the start of one buffer.
RECURSIVE Pairs(_)
Pairs(s) == IF StartsWithCrLf(s) THEN 2 + Pairs(Drop(s, 2)) ELSE 0

\* Variant for a mutation test: stop where a buffer ends within a pair.
RECURSIVE SkipNoiseOneBuffer(_)
SkipNoiseOneBuffer(c) ==
  IF c = <<>> \/ Len(c[1]) < 2 THEN c
  ELSE LET i == Pairs(c[1])
       IN  IF i + 1 < Len(c[1]) THEN TrimStart(c, i) ELSE SkipNoiseOneBuffer(TrimStart(c, i))

\* A buffer with less than two bytes left is read through a temporary cursor,
\* which continues in the next one.
RECURSIVE SkipNoise(_)
SkipNoise(c) ==
  LET all == FlattenSeq(c)
  IN  IF Len(all) < 2 THEN c
      ELSE IF Len(c[1]) < 2
      THEN IF StartsWithCrLf(all) THEN SkipNoise(TrimStart(c, 2)) ELSE c
      ELSE LET i == Pairs(c[1])
           IN  IF i + 1 < Len(c[1]) THEN TrimStart(c, i) ELSE SkipNoise(TrimStart(c, i))
-----------------------------------------------------------------------------
(* folly::to<int64_t>: white space around, a sign, at least one digit. *)

Strip(s) ==
  LET solid == {i \in DOMAIN s : s[i] # LF}
  IN  IF solid = {} THEN <<>> ELSE SubSeq(s, Min(solid), Max(solid))

Magnitude(s) == IF s # <<>> /\ s[1] = "-" THEN Tail(s) ELSE s

IsInteger(s) ==
  LET m == Magnitude(Strip(s)) IN m # <<>> /\ ToSet(m) \subseteq ToSet(Digits)

ToInteger(s) ==
  LET m == Magnitude(Strip(s))
      value == FoldLeft(LAMBDA acc, d : 10 * acc + (CHOOSE i \in DOMAIN Digits : Digits[i] = d) - 1, 0, m)
  IN  IF Strip(s)[1] = "-" THEN -value ELSE value
-----------------------------------------------------------------------------
(* decode.  A result is a message and the number of bytes it took, or the  *)
(* number of bytes that are needed.                                        *)

More(n) == [state |-> "more", needed |-> n]
Invalid(used) == [state |-> "invalid", used |-> used]
Valid(n, used) == [state |-> "valid", value |-> n, used |-> used]

\* The type indicator and a number in the bytes b, the first CR of which is b[cr].
ParseLength(type, b, cr) ==
  IF cr = 0 THEN More(2)
  ELSE IF cr = Len(b) THEN More(1)
  ELSE IF b[cr + 1] = LF /\ cr > 2 /\ b[1] = type /\ IsInteger(SubSeq(b, 2, cr - 1))
  THEN Valid(ToInteger(SubSeq(b, 2, cr - 1)), cr + 1)
  ELSE Invalid(cr + 1)

FirstCr(b) == SelectInSeq(b, LAMBDA x : x = CR)

\* readLength on the bytes b.
ReadLength(type, b) ==
  IF Len(b) < kMinBytesNeeded THEN More(kMinBytesNeeded - Len(b))
  ELSE ParseLength(type, b, FirstCr(b))

DecodedMessage(val, used) == [state |-> "message", val |-> val, used |-> used]
BulkString(s, used) == [state |-> "string", val |-> s, used |-> used]

\* Variant for a mutation test: do not read the \r\n behind a string.
ReadBodyShort(b, body, past) ==
  IF Len(b) < past THEN More(past - Len(b)) ELSE BulkString(SubSeq(b, body + 1, past), past)

\* The bytes of a string, behind the first `body` and up to `past`, and its \r\n.
ReadBody(b, body, past) ==
  IF Len(b) < past + 2 THEN More(past + 2 - Len(b))
  ELSE IF b[past + 1] # CR THEN DecodedMessage(Error("crlf"), past + 1)
  ELSE IF b[past + 2] # LF THEN DecodedMessage(Error("crlf"), past + 2)
  ELSE BulkString(SubSeq(b, body + 1, past), past + 2)

\* A string whose length, read behind the first `at` bytes, is `length`.
ReadString(b, at, length) ==
  IF length.state = "more" THEN length
  ELSE IF length.state = "invalid" \/ length.value < 0
  THEN DecodedMessage(Error("bulk string length"), at + length.used)
  ELSE ReadBody(b, at + length.used, at + length.used + length.value)

\* The loop over the n bulk strings of the request b, at bytes of which are read.
RECURSIVE ReadStrings(_, _, _, _)
ReadStrings(b, at, strings, n) ==
  LET next == ReadString(b, at, ReadLength("$", Drop(b, at)))
  IN  IF Len(strings) = n THEN DecodedMessage(Request(strings), at)
      ELSE IF next.state # "string" THEN next
      ELSE ReadStrings(b, next.used, Append(strings, next.val), n)

\* Variant for a mutation test: an empty array is a request.
DecodeRequestEmpty(b, length) ==
  IF length.state = "more" THEN length
  ELSE IF length.state = "invalid" \/ length.value < 0
  THEN DecodedMessage(Error("array length"), length.used)
  ELSE ReadStrings(b, length.used, <<>>, length.value)

\* decode behind the noise, on the bytes b that begin with the array length.
DecodeRequest(b, length) ==
  IF length.state = "more" THEN length
  ELSE IF length.state = "invalid" \/ length.value <= 0
  THEN DecodedMessage(Error("array length"), length.used)
  ELSE ReadStrings(b, length.used, <<>>, length.value)

\* A message is trimmed off the chain, an incomplete one stays.
Consume(c, result) ==
  [result |-> result,
   chain  |-> IF result.state = "more" THEN c ELSE TrimStart(c, result.used)]

DecodeBytes(c, b) ==
  IF b = <<>> THEN Consume(c, More(kMinBytesNeeded))
  ELSE Consume(c, DecodeRequest(b, ReadLength("*", b)))

DecodeTrimmed(c) == DecodeBytes(c, FlattenSeq(c))

\* One call of decode on the chain c, and what it leaves of the chain.
Decode(c) ==
  IF Len(FlattenSeq(c)) < kMinBytesNeeded
  THEN Consume(c, More(kMinBytesNeeded - Len(FlattenSeq(c))))
  ELSE DecodeTrimmed(SkipNoise(c))

\* ByteToMessageDecoder::read: decode until more bytes are needed.
RECURSIVE DecodeAll(_, _)
DecodeAll(c, messages) ==
  LET step == Decode(c)
  IN  IF step.result.state = "more"
      THEN [passedOn |-> messages, chain |-> step.chain, needed |-> step.result.needed]
      ELSE DecodeAll(step.chain, Append(messages, step.result.val))
-----------------------------------------------------------------------------
Init ==
  /\ requests \in Pipelines
  /\ stream \in {EncodeAll(requests)}
                  \cup (IF requests \in Edited THEN Edits(EncodeAll(requests)) ELSE {})
  /\ sent = 0
  /\ chain = <<>>
  /\ passedOn = <<>>
  /\ needed = 0

\* n bytes have arrived, and d is what can be decoded and what is left.
Arrive(n, d) ==
  /\ sent' = sent + n
  /\ chain' = d.chain /\ passedOn' = d.passedOn /\ needed' = d.needed
  /\ UNCHANGED <<requests, stream>>

Chunk(n) == SubSeq(stream, sent + 1, sent + n)

\* The chunk is read into a new buffer, or behind the last bytes of the chain.
NewBuffer(n) ==
  /\ sent + n <= Len(stream) /\ Len(chain) < MaxBuffers
  /\ Arrive(n, DecodeAll(Append(chain, Chunk(n)), passedOn))

SameBuffer(n) ==
  /\ sent + n <= Len(stream) /\ chain # <<>>
  /\ Arrive(n, DecodeAll(Append(Front(chain), Last(chain) \o Chunk(n)), passedOn))

Next == \E n \in ChunkSizes : NewBuffer(n) \/ SameBuffer(n)

Spec == Init /\ [][Next]_vars
-----------------------------------------------------------------------------
\* Type correctness: a chain has no empty buffer, messages are well formed.
TypeOK ==
  /\ requests \in Pipelines
  /\ stream \in Seq(Characters)
  /\ sent \in 0..Len(stream)
  /\ chain \in Seq(Seq(Characters) \ {<<>>})
  /\ passedOn \in Seq([type: {"kError"}, data: {"array length", "bulk string length", "crlf"}]
                  \cup [type: {"kBulkStringArray"}, data: Seq(Seq(Characters))])
  /\ needed \in Nat

\* However the bytes were cut into chunks and buffers, the messages and the
\* bytes left are those of a connection that delivers them in one piece.
ChunkIndependent ==
  LET whole == DecodeAll(<<SubSeq(stream, 1, sent)>>, <<>>)
  IN  sent > 0 => passedOn = whole.passedOn /\ FlattenSeq(chain) = FlattenSeq(whole.chain)

\* An encoded pipeline is decoded to its requests, each as soon as its last
\* byte is there.
RoundTrip ==
  stream = EncodeAll(requests) =>
    LET complete == {k \in DOMAIN requests : Len(EncodeAll(SubSeq(requests, 1, k))) <= sent}
    IN  passedOn = [i \in complete |-> Request(requests[i])]

\* The number of bytes decode asks for is never too large: fewer bytes than
\* that never complete a message.
NeededIsNeeded == [][sent' - sent < needed => passedOn' = passedOn]_vars

\* Every message that the decoder passes on is answered: read() returns without
\* a reply only for an empty array, which would leave the answers to all later
\* requests waiting in OrderedRedisMessageAdapter.
EveryMessageAnswered == \A i \in DOMAIN passedOn : Dispatch(passedOn[i]).reply # "nothing"
=============================================================================
