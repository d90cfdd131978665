----------------------------- MODULE Serializer -----------------------------
(***************************************************************************)
(* serializer::Archive and the serializers of its types: values are        *)
(* written, the bytes perhaps cut short, and the values read one by one.   *)
(* A vector has elements of ElementSize bytes that are copied as they are. *)
(* int32_t is left out: it is written with eight bytes and read with four. *)
(***************************************************************************)
EXTENDS Integers, SequencesExt

CONSTANTS
  Radix,        \* number of values of a byte: 256
  ElementSize,  \* sizeof(T) of a vector's elements
  Archives      \* sequences of typed values that are written and read back

uint16Max == Radix * Radix - 1

SizeOf(type) == CASE type = "uint8_t" -> 1 [] type = "uint16_t" -> 2 [] OTHER -> 8

\* n bytes of an integer, the most significant first; negative ones wrap.
RECURSIVE BigEndian(_, _)
BigEndian(v, n) == IF n = 0 THEN <<>> ELSE Append(BigEndian(v \div Radix, n - 1), v % Radix)

\* load_big_endian, where the first byte carries the sign if there is one.
RECURSIVE LoadUnsigned(_)
LoadUnsigned(b) ==
  IF b = <<>> THEN 0 ELSE LoadUnsigned(SubSeq(b, 1, Len(b) - 1)) * Radix + b[Len(b)]

RECURSIVE LoadSigned(_)
LoadSigned(b) ==
  IF Len(b) = 1 THEN IF 2 * b[1] >= Radix THEN b[1] - Radix ELSE b[1]
  ELSE LoadSigned(SubSeq(b, 1, Len(b) - 1)) * Radix + b[Len(b)]

\* Serializer<T>::serialize; strings and vectors have their length in front.
Serialize(x) ==
  CASE x.type = "string" -> BigEndian(Len(x.val), SizeOf("uint16_t")) \o x.val
    [] x.type = "vector" -> BigEndian(Len(x.val), SizeOf("uint16_t")) \o FlattenSeq(x.val)
    [] OTHER -> BigEndian(x.val, SizeOf(x.type))

\* put, for one value after the other.
SerializeAll(xs) == FlattenSeq([i \in DOMAIN xs |-> Serialize(xs[i])])

\* CHECK_LE in serialize.
CanSerialize(x) == x.type \in {"string", "vector"} => Len(x.val) <= uint16Max

\* Variant for a mutation test: a failed read does not fail the next one.
ConsumeBytesForgets(a, n) ==
  IF Len(a.data) >= n
  THEN [data    |-> SubSeq(a.data, n + 1, Len(a.data)), success |-> TRUE,
        bytes   |-> SubSeq(a.data, 1, n)]
  ELSE [data |-> a.data, success |-> FALSE, bytes |-> <<>>]

\* consume: n bytes, or nullptr and a failure that lasts.
ConsumeBytes(a, n) ==
  IF a.success /\ Len(a.data) >= n
  THEN [data    |-> SubSeq(a.data, n + 1, Len(a.data)), success |-> TRUE,
        bytes   |-> SubSeq(a.data, 1, n)]
  ELSE [data |-> a.data, success |-> FALSE, bytes |-> <<>>]

\* The number in the bytes that consume returned, 0 if it failed.
Load(type, bytes) ==
  IF bytes = <<>> THEN 0
  ELSE IF type = "int64_t" THEN LoadSigned(bytes) ELSE LoadUnsigned(bytes)

\* Serializer<T>::deserialize: the archive behind the value, and the value.
Result(a, val) == [data |-> a.data, success |-> a.success, val |-> val]

DeserializeString(length) ==
  LET body == ConsumeBytes(length, Load("uint16_t", length.bytes)) IN Result(body, body.bytes)

Elements(bytes) ==
  [i \in 1..(Len(bytes) \div ElementSize) |->
    SubSeq(bytes, (i - 1) * ElementSize + 1, i * ElementSize)]

DeserializeVector(length) ==
  LET body == ConsumeBytes(length, ElementSize * Load("uint16_t", length.bytes))
  IN  Result(body, Elements(body.bytes))

DeserializeNumber(type, c) == Result(c, Load(type, c.bytes))

Deserialize(type, a) ==
  CASE type = "string" -> DeserializeString(ConsumeBytes(a, SizeOf("uint16_t")))
    [] type = "vector" -> DeserializeVector(ConsumeBytes(a, SizeOf("uint16_t")))
    [] OTHER -> DeserializeNumber(type, ConsumeBytes(a, SizeOf(type)))

-----------------------------------------------------------------------------
VARIABLE archive  \* xs: the values written; cut: the number of bytes kept;
                  \* data and success: data_ and success_; vals: the values read

ArchiveInit == archive = [xs |-> <<>>, cut |-> 0, data |-> <<>>, success |-> TRUE, vals |-> <<>>]

\* put of every value, and an archive to read them from.
OpenArchive(xs, cut) ==
  /\ archive.xs = <<>>
  /\ \A i \in DOMAIN xs : CanSerialize(xs[i])
  /\ archive' = [xs |-> xs, cut |-> cut, data |-> SubSeq(SerializeAll(xs), 1, cut),
                 success |-> TRUE, vals |-> <<>>]

\* The next value is got, with the result of deserialize.
Got(result) ==
  archive' = [archive EXCEPT !.data = result.data, !.success = result.success,
                             !.vals = Append(@, result.val)]

Get ==
  /\ Len(archive.vals) < Len(archive.xs)
  /\ Got(Deserialize(archive.xs[Len(archive.vals) + 1].type,
                     [data |-> archive.data, success |-> archive.success]))

ArchiveNext ==
  \/ \E xs \in Archives : \E cut \in 0..Len(SerializeAll(xs)) : OpenArchive(xs, cut)
  \/ Get

\* Have the bytes of the first n values been kept?
Kept(n) == Len(SerializeAll(SubSeq(archive.xs, 1, n))) <= archive.cut

\* Values that are written and read again are the same.  If the bytes are cut
\* short, success() tells so from the first value that is incomplete, whatever
\* is read behind it, and the values in front of it are still right.
ArchiveFaithful ==
  /\ archive.success <=> Kept(Len(archive.vals))
  /\ \A i \in DOMAIN archive.vals : Kept(i) => archive.vals[i] = archive.xs[i].val
=============================================================================
