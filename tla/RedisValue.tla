----------------------------- MODULE RedisValue -----------------------------
(***************************************************************************)
(* codec::RedisValue: the values that requests and replies are made of,    *)
(* and their encoding.  A string is a sequence of one-character strings.   *)
(* Numbers and lengths have one digit; kAsyncResult is never encoded.      *)
(***************************************************************************)
EXTENDS Integers, SequencesExt

CR == "\r"
LF == "\n"
CrLf == <<CR, LF>>
Digits == <<"0", "1", "2", "3">>

\* A value and its type; the data of kNullString is not used.
Value(type, data) == [type |-> type, data |-> data]

kTypeIndicators ==
  [kInteger |-> ":", kError |-> "-", kSimpleString |-> "+", kBulkString |-> "$",
   kArray |-> "*", kBulkStringArray |-> "*", kNullString |-> "$"]

ToDigits(n) == IF n < 0 THEN <<"-", Digits[1 - n]>> ELSE <<Digits[n + 1]>>

\* Variant for a mutation test: write the text of an error as it is.
EscapeNothing(s) == s

\* Errors and simple strings end at the first CR, so CR and LF are escaped.
EscapeCrLf(s) ==
  FlattenSeq([i \in DOMAIN s |-> CASE s[i] = CR -> <<"\\", "r">>
                                   [] s[i] = LF -> <<"\\", "n">>
                                   [] OTHER -> <<s[i]>>])

EncodeString(s) == <<"$">> \o ToDigits(Len(s)) \o CrLf \o s \o CrLf

\* RedisValue::encode
RECURSIVE EncodeValue(_)
EncodeValue(v) ==
  <<kTypeIndicators[v.type]>> \o
    CASE v.type = "kInteger" -> ToDigits(v.data) \o CrLf
      [] v.type \in {"kError", "kSimpleString"} -> EscapeCrLf(v.data) \o CrLf
      [] v.type = "kBulkString" -> ToDigits(Len(v.data)) \o CrLf \o v.data \o CrLf
      [] v.type = "kArray" ->
           ToDigits(Len(v.data)) \o CrLf
             \o FlattenSeq([i \in DOMAIN v.data |-> EncodeValue(v.data[i])])
      [] v.type = "kBulkStringArray" ->
           ToDigits(Len(v.data)) \o CrLf
             \o FlattenSeq([i \in DOMAIN v.data |-> EncodeString(v.data[i])])
      [] v.type = "kNullString" -> <<"-", "1">> \o CrLf
=============================================================================
