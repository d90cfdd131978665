---------------------------- MODULE KeyEncoding ----------------------------
(***************************************************************************)
(* What database keys are made of: strings that                            *)
(* DatabaseManager::escapeKeyStr has escaped, and binary ids.  Strings are *)
(* sequences of byte values.                                               *)
(***************************************************************************)
EXTENDS Serializer, FiniteSets

CONSTANTS
  DbKeys,  \* keys: two strings and an id, which is not negative
  MaxKeys  \* bound: keys in the database

Percent == 37
Tilde == 126

\* hexValues[v]
HexDigit(v) == IF v < 10 THEN 48 + v ELSE 55 + v

\* Variant for a mutation test: leave % alone.
MustEscapeNotPercent(v) == v < 33 \/ v > 125

MustEscape(v) == v < 33 \/ v > 125 \/ v = 37

EscapeKeyStr(str) ==
  FlattenSeq([i \in DOMAIN str |->
    IF MustEscape(str[i]) THEN <<Percent, HexDigit(str[i] \div 16), HexDigit(str[i] % 16)>>
    ELSE <<str[i]>>])

\* SmyteId::asBinary
AsBinary(id) == BigEndian(id, SizeOf("int64_t"))

\* A key: the strings, each with a ~ behind it, and the id.
EncodeKey(k) ==
  EscapeKeyStr(k.parts[1]) \o <<Tilde>> \o EscapeKeyStr(k.parts[2]) \o <<Tilde>> \o AsBinary(k.id)

VARIABLE keys  \* the keys in the database

KeysInit == keys = {}

Put(k) ==
  /\ Cardinality(keys) < MaxKeys
  /\ keys' = keys \cup {k}

KeysNext == \E k \in DbKeys : Put(k)

\* The order of keys in the database: by the first byte that differs.
Precedes(a, b) ==
  \E i \in DOMAIN a \cap DOMAIN b : a[i] < b[i] /\ \A j \in 1..(i - 1) : a[j] = b[j]

\* escapeKeyStr "also escapes ~": escaped strings are printable and have no ~
\* in them, and different keys stay different.  Binary ids are "sorted in
\* numerical order", as asBinary says.
KeysFaithful ==
  \A k, l \in keys :
    /\ \A i \in 1..2 : ToSet(EscapeKeyStr(k.parts[i])) \subseteq 33..125
    /\ EncodeKey(k) = EncodeKey(l) => k = l
    /\ k.parts = l.parts /\ k.id < l.id => Precedes(EncodeKey(k), EncodeKey(l))
=============================================================================
