------------------------------ MODULE KeyCodec ------------------------------
(***************************************************************************)
(* Values of SQL, the two orders the code keeps on them, and the encoding  *)
(* of values into keys that has to carry one of the orders into the order  *)
(* of bytes (types/value.go, keycodec/value.go, keycodec/keys.go).         *)
(*                                                                         *)
(* A byte has twice SignBit values instead of twice 128, and every number  *)
(* of fixed width is one byte: an identifier, an INT, and a FLOAT made of  *)
(* a sign bit and a magnitude whose two largest values are infinity and    *)
(* not-a-number.  The tags and prefixes are renumbered to fit; their order *)
(* is the code's.                                                          *)
(***************************************************************************)
EXTENDS Integers, Sequences

CONSTANTS SignBit,     \* bound: the highest bit of a byte, and of a number
          TextByte,    \* bound: the bytes that occur in a TEXT
          TextLen      \* bound: the length of a TEXT

Base     == 2 * SignBit
LastByte == Base - 1           \* 0xFF
Byte     == 0 .. LastByte

\* Tags ascend as the kinds do; the bytes around a NUL in a TEXT.
Tag     == [NULL |-> 0, BOOL |-> 1, INT |-> 2, FLOAT |-> 3, TEXT |-> 4]
EscByte == 0
EscTerm == 1
EscLit  == LastByte

ASSUME ByteAssumption == SignBit \in Nat /\ Tag.TEXT < LastByte
ASSUME TextAssumption == TextByte \subseteq Byte /\ TextLen \in Nat

-----------------------------------------------------------------------------
(***************************************************************************)
(* Values.  A BOOL is 0 or 1, a FLOAT its bits, a TEXT its bytes.          *)
(***************************************************************************)
Value(kind, v) == [kind |-> kind, v |-> v]
Null           == Value("NULL", 0)

ValuesOf(kind) ==
  {Value(kind, v) : v \in
     CASE kind = "BOOL"  -> 0 .. 1
       [] kind = "INT"   -> -SignBit .. SignBit - 1
       [] kind = "FLOAT" -> Byte
       [] kind = "TEXT"  -> UNION {[1 .. n -> TextByte] : n \in 0 .. TextLen}}

Negative(bits)  == bits >= SignBit
Magnitude(bits) == bits % SignBit
IsNaN(bits)     == Magnitude(bits) = SignBit - 1
Number(bits)    == IF Negative(bits) THEN -Magnitude(bits) ELSE Magnitude(bits)
LargestFinite   == SignBit - 3

\* AsFloat: the float nearest to an integer.
Widen(a) ==
  LET Nearest(n) == IF n > LargestFinite THEN LargestFinite ELSE n
  IN  IF a.kind # "INT" THEN a
      ELSE Value("FLOAT", IF a.v < 0 THEN SignBit + Nearest(-a.v) ELSE Nearest(a.v))

FloatBefore(x, y) == ~IsNaN(x) /\ (IsNaN(y) \/ Number(x) < Number(y))

\* strings.Compare and bytes.Compare.
BytesBefore(s, t) ==
  \/ Len(s) < Len(t) /\ s = SubSeq(t, 1, Len(s))
  \/ \E i \in DOMAIN s \cap DOMAIN t : s[i] < t[i] /\ \A j \in 1 .. i - 1 : s[j] = t[j]

\* types.Order: by kind, then by value, NaN after every number.
Before(a, b) ==
  \/ Tag[a.kind] < Tag[b.kind]
  \/ /\ a.kind = b.kind
     /\ CASE a.kind \in {"NULL", "BOOL", "INT"} -> a.v < b.v
          [] a.kind = "FLOAT" -> FloatBefore(a.v, b.v)
          [] a.kind = "TEXT"  -> BytesBefore(a.v, b.v)

\* types.Equal: the order has neither of the two in front of the other.
Equal(a, b) == ~Before(a, b) /\ ~Before(b, a)

Numeric(a) == a.kind \in {"INT", "FLOAT"}

\* types.Compare, on values that can be compared: two integers as integers,
\* an integer and a float as floats.
Less(a, b) == IF Numeric(a) /\ a.kind # b.kind THEN Before(Widen(a), Widen(b)) ELSE Before(a, b)

-----------------------------------------------------------------------------
(***************************************************************************)
(* Keys.                                                                   *)
(***************************************************************************)
Escaped(s) ==
  LET out[i \in 0 .. Len(s)] ==
        IF i = 0 THEN <<>>
        ELSE out[i - 1] \o IF s[i] = EscByte THEN <<EscByte, EscLit>> ELSE <<s[i]>>
  IN  out[Len(s)]

\* Broken variants of Encode, not part of the specification: integers keep
\* their sign bit, and a TEXT its zero bytes.
EncodePlainSign(a) ==
  <<Tag[a.kind]>> \o
    CASE a.kind = "NULL"  -> <<>>
      [] a.kind = "BOOL"  -> <<a.v>>
      [] a.kind = "INT"   -> <<a.v % Base>>
      [] a.kind = "FLOAT" -> <<IF Negative(a.v) THEN LastByte - a.v ELSE a.v + SignBit>>
      [] a.kind = "TEXT"  -> Escaped(a.v) \o <<EscByte, EscTerm>>

EncodeUnescaped(a) ==
  <<Tag[a.kind]>> \o
    CASE a.kind = "NULL"  -> <<>>
      [] a.kind = "BOOL"  -> <<a.v>>
      [] a.kind = "INT"   -> <<(a.v + SignBit) % Base>>
      [] a.kind = "FLOAT" -> <<IF Negative(a.v) THEN LastByte - a.v ELSE a.v + SignBit>>
      [] a.kind = "TEXT"  -> a.v \o <<EscByte, EscTerm>>

\* Two's complement with the sign bit flipped; the bits of a negative float
\* all flipped, the sign bit of another one set.
Encode(a) ==
  <<Tag[a.kind]>> \o
    CASE a.kind = "NULL"  -> <<>>
      [] a.kind = "BOOL"  -> <<a.v>>
      [] a.kind = "INT"   -> <<(a.v + SignBit) % Base>>
      [] a.kind = "FLOAT" -> <<IF Negative(a.v) THEN LastByte - a.v ELSE a.v + SignBit>>
      [] a.kind = "TEXT"  -> Escaped(a.v) \o <<EscByte, EscTerm>>

\* Decode: the value at the front of some bytes, and the bytes behind it.
Corrupt == [value |-> Null, rest |-> <<>>, ok |-> FALSE]

DecodeText(body) ==
  LET Put(byte, tail) == IF tail.ok THEN [tail EXCEPT !.value.v = <<byte>> \o @] ELSE tail
      from[i \in 1 .. Len(body) + 1] ==
        IF i > Len(body) THEN Corrupt
        ELSE IF body[i] # EscByte THEN Put(body[i], from[i + 1])
        ELSE IF i = Len(body) THEN Corrupt
        ELSE IF body[i + 1] = EscTerm
             THEN [value |-> Value("TEXT", <<>>), rest |-> SubSeq(body, i + 2, Len(body)), ok |-> TRUE]
        ELSE IF body[i + 1] = EscLit THEN Put(EscByte, from[i + 2])
        ELSE Corrupt
  IN  from[1]

Decode(bytes) ==
  LET tag    == Head(bytes)
      body   == Tail(bytes)
      One(a) == [value |-> a, rest |-> Tail(body), ok |-> TRUE]
  IN  IF bytes = <<>> THEN Corrupt
      ELSE IF tag = Tag.NULL THEN [value |-> Null, rest |-> body, ok |-> TRUE]
      ELSE IF tag = Tag.TEXT THEN DecodeText(body)
      ELSE IF body = <<>> \/ tag \notin {Tag.BOOL, Tag.INT, Tag.FLOAT} THEN Corrupt
      ELSE CASE tag = Tag.BOOL  -> One(Value("BOOL", IF Head(body) = 0 THEN 0 ELSE 1))
             [] tag = Tag.INT   -> One(Value("INT", Head(body) - SignBit))
             [] tag = Tag.FLOAT -> One(Value("FLOAT", IF Head(body) >= SignBit THEN Head(body) - SignBit
                                                      ELSE LastByte - Head(body)))

PrefixData  == 2
PrefixIndex == 3

DataPrefix(t)         == <<PrefixData, t>>
IndexPrefix(t, i)     == <<PrefixIndex, t, i>>
RowKey(t, pk)         == DataPrefix(t) \o Encode(pk)
IndexKey(t, i, a, pk) == IndexPrefix(t, i) \o Encode(a) \o Encode(pk)

\* The indexed value and the primary key of an index entry.
IndexEntry(key) ==
  LET first  == Decode(SubSeq(key, 4, Len(key)))
      second == Decode(first.rest)
  IN  IF first.ok /\ second.ok /\ second.rest = <<>> THEN <<first.value, second.value>>
      ELSE <<>>

\* The least key behind every key that begins with prefix; there is none
\* behind a prefix of LastBytes, and the empty sequence says so.
PrefixEnd(prefix) ==
  LET live == {i \in DOMAIN prefix : prefix[i] # LastByte}
      last == CHOOSE i \in live : \A j \in live : j <= i
  IN  IF live = {} THEN <<>> ELSE SubSeq(prefix, 1, last - 1) \o <<prefix[last] + 1>>

=============================================================================
