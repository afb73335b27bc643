--------------------------- MODULE KeyCodec_proof ---------------------------
(***************************************************************************)
(* Proofs about the encoding of values into keys: keys are in the order of *)
(* the values they encode.  The lemmas about TEXT are by induction over    *)
(* sequences of bytes of every length.                                     *)
(***************************************************************************)
EXTENDS KeyCodec, WellFoundedInduction, TLAPS

-----------------------------------------------------------------------------
(***************************************************************************)
(* Induction, for a set in the place of a predicate.                       *)
(***************************************************************************)
LEMMA LeastNatural ==
  ASSUME NEW T \in SUBSET Nat, T # {}
  PROVE  \E x \in T : \A y \in T : x <= y
<1>1. PICK x \in T : \A y \in T : ~(<<y, x>> \in OpToRel(<, Nat))
  BY NatLessThanWellFounded, WFMin
<1>2. \A y \in T : ~(y < x)
  BY <1>1 DEF OpToRel
<1> QED
  BY <1>2

LEMMA NaturalInduction ==
  ASSUME NEW T, 0 \in T, \A n \in Nat : n \in T => n + 1 \in T
  PROVE  \A n \in Nat : n \in T
<1> DEFINE Bad == {n \in Nat : n \notin T}
<1>1. ASSUME Bad # {} PROVE FALSE
  <2>1. PICK n \in Bad : \A m \in Bad : n <= m
    BY <1>1, LeastNatural
  <2>2. n \in Nat /\ n # 0
    OBVIOUS
  <2>3. n - 1 \in Nat /\ n - 1 \notin Bad
    BY <2>1, <2>2
  <2>4. (n - 1) + 1 \in T
    BY <2>3
  <2> QED
    BY <2>2, <2>4
<1> QED
  BY <1>1

Bytes == Seq(Byte)

LEMMA BytesInduction ==
  ASSUME NEW T, <<>> \in T, \A s \in Bytes, b \in Byte : s \in T => Append(s, b) \in T
  PROVE  \A s \in Bytes : s \in T
<1> DEFINE Lengths == {n \in Nat : \A s \in Bytes : Len(s) = n => s \in T}
<1>1. 0 \in Lengths
  BY DEF Bytes
<1>2. ASSUME NEW n \in Nat, n \in Lengths PROVE n + 1 \in Lengths
  <2> SUFFICES ASSUME NEW s \in Bytes, Len(s) = n + 1 PROVE s \in T
    OBVIOUS
  <2> DEFINE front == [i \in 1 .. n |-> s[i]]
  <2>1. front \in Bytes /\ Len(front) = n /\ s[n + 1] \in Byte
    BY DEF Bytes
  <2>2. s = Append(front, s[n + 1])
    BY <2>1 DEF Bytes
  <2> QED
    BY <1>2, <2>1, <2>2
<1>3. \A n \in Nat : n \in Lengths
  <2> HIDE DEF Lengths
  <2> QED
    BY <1>1, <1>2, NaturalInduction
<1> QED
  BY <1>3 DEF Bytes

LEMMA ByteRange ==
  /\ SignBit \in Nat /\ SignBit >= 3
  /\ LastByte = 2 * SignBit - 1 /\ LastByte \in Nat /\ LastByte >= 5
  /\ Base = 2 * SignBit
  /\ \A b : b \in Byte <=> b \in Nat /\ b <= LastByte
BY ByteAssumption DEF Byte, LastByte, Base, Tag

-----------------------------------------------------------------------------
(***************************************************************************)
(* The order of bytes.                                                     *)
(***************************************************************************)
\* s is in front of t, and not because it is a prefix of t.
Splits(s, t) ==
  \E i \in DOMAIN s \cap DOMAIN t : s[i] < t[i] /\ \A j \in 1 .. i - 1 : s[j] = t[j]

LEMMA SplitsBefore ==
  ASSUME NEW s, NEW t, Splits(s, t)
  PROVE  BytesBefore(s, t)
BY DEF Splits, BytesBefore

LEMMA Concatenation ==
  ASSUME NEW s \in Bytes, NEW t \in Bytes
  PROVE  /\ s \o t \in Bytes
         /\ Len(s \o t) = Len(s) + Len(t)
         /\ \A i \in 1 .. Len(s) : (s \o t)[i] = s[i]
         /\ \A i \in 1 .. Len(t) : (s \o t)[Len(s) + i] = t[i]
         /\ s \o <<>> = s /\ <<>> \o s = s
BY DEF Bytes

LEMMA SameBytes ==
  ASSUME NEW s \in Bytes, NEW t \in Bytes, Len(s) = Len(t), \A i \in 1 .. Len(s) : s[i] = t[i]
  PROVE  s = t
BY DEF Bytes

LEMMA Associative == \A s, t, u \in Bytes : (s \o t) \o u = s \o (t \o u)
BY DEF Bytes

\* Concatenation as an operator the provers take as it is.
Cat(s, t) == s \o t

LEMMA CatFacts ==
  /\ <<>> \in Bytes
  /\ \A s, t \in Bytes : Cat(s, t) \in Bytes
  /\ \A s \in Bytes : Cat(s, <<>>) = s /\ Cat(<<>>, s) = s
  /\ \A s, t, u \in Bytes : Cat(Cat(s, t), u) = Cat(s, Cat(t, u))
<1>1. <<>> \in Bytes
  BY DEF Bytes
<1>2. ASSUME NEW s \in Bytes, NEW t \in Bytes, NEW u \in Bytes
      PROVE  /\ Cat(s, t) \in Bytes /\ Cat(s, <<>>) = s /\ Cat(<<>>, s) = s
             /\ Cat(Cat(s, t), u) = Cat(s, Cat(t, u))
  <2>1. Cat(s, t) \in Bytes
    BY DEF Cat, Bytes
  <2>2. Cat(s, <<>>) = s /\ Cat(<<>>, s) = s
    BY DEF Cat, Bytes
  <2>3. Cat(Cat(s, t), u) = Cat(s, Cat(t, u))
    BY DEF Cat, Bytes
  <2> QED
    BY <2>1, <2>2, <2>3
<1> QED
  BY <1>1, <1>2

\* What stands before two sequences, or behind them, leaves their order.
LEMMA SplitsInside ==
  ASSUME NEW p \in Bytes, NEW s \in Bytes, NEW t \in Bytes, NEW x \in Bytes, NEW y \in Bytes,
         Splits(s, t)
  PROVE  Splits(Cat(p, Cat(s, x)), Cat(p, Cat(t, y)))
<1> PICK i \in DOMAIN s \cap DOMAIN t : s[i] < t[i] /\ \A j \in 1 .. i - 1 : s[j] = t[j]
  BY DEF Splits
<1>1. i \in 1 .. Len(s) /\ i \in 1 .. Len(t)
  BY DEF Bytes
<1> DEFINE u == s \o x
           w == t \o y
<1>2. /\ u \in Bytes /\ Len(u) >= Len(s) /\ \A j \in 1 .. Len(s) : u[j] = s[j]
      /\ w \in Bytes /\ Len(w) >= Len(t) /\ \A j \in 1 .. Len(t) : w[j] = t[j]
  <2>1. Len(x) \in Nat /\ Len(y) \in Nat /\ Len(s) \in Nat /\ Len(t) \in Nat
    BY DEF Bytes
  <2> QED
    BY <2>1, Concatenation
<1>3. u[i] < w[i] /\ \A j \in 1 .. i - 1 : u[j] = w[j]
  BY <1>1, <1>2
<1>4. i \in 1 .. Len(u) /\ i \in 1 .. Len(w)
  BY <1>1, <1>2 DEF Bytes
<1> HIDE DEF u, w
<1> DEFINE f == p \o u
           g == p \o w
           k == Len(p) + i
<1>5. /\ f \in Bytes /\ Len(f) = Len(p) + Len(u)
      /\ g \in Bytes /\ Len(g) = Len(p) + Len(w)
      /\ \A j \in 1 .. Len(p) : f[j] = p[j] /\ g[j] = p[j]
      /\ \A j \in 1 .. Len(u) : f[Len(p) + j] = u[j]
      /\ \A j \in 1 .. Len(w) : g[Len(p) + j] = w[j]
  BY <1>2, Concatenation
<1>6. Len(p) \in Nat /\ Len(u) \in Nat /\ Len(w) \in Nat
  BY <1>2 DEF Bytes
<1>7. k \in DOMAIN f \cap DOMAIN g
  BY <1>4, <1>5, <1>6 DEF Bytes
<1>8. f[k] < g[k]
  BY <1>3, <1>4, <1>5
<1>9. ASSUME NEW j \in 1 .. k - 1 PROVE f[j] = g[j]
  <2>1. CASE j <= Len(p)
    BY <2>1, <1>5, <1>6
  <2>2. CASE j > Len(p)
    <3>1. j - Len(p) \in 1 .. i - 1 /\ j = Len(p) + (j - Len(p))
      BY <2>2, <1>4, <1>6
    <3>2. j - Len(p) \in 1 .. Len(u) /\ j - Len(p) \in 1 .. Len(w)
      BY <3>1, <1>4, <1>6
    <3> QED
      BY <3>1, <3>2, <1>3, <1>5
  <2> QED
    BY <2>1, <2>2, <1>4, <1>6
<1>10. Splits(f, g)
  BY <1>7, <1>8, <1>9 DEF Splits
<1> QED
  BY <1>10 DEF Cat, f, g, u, w

-----------------------------------------------------------------------------
(***************************************************************************)
(* The escape of a TEXT.                                                   *)
(***************************************************************************)
Unit(b) == IF b = EscByte THEN <<EscByte, EscLit>> ELSE <<b>>

LEMMA UnitType ==
  ASSUME NEW b \in Byte
  PROVE  /\ Unit(b) \in Bytes
         /\ b = 0 => Len(Unit(b)) = 2 /\ Unit(b)[1] = 0 /\ Unit(b)[2] = LastByte
         /\ b # 0 => Len(Unit(b)) = 1 /\ Unit(b)[1] = b
<1>1. LastByte \in Byte /\ 0 \in Byte
  BY ByteRange
<1> QED
  BY <1>1 DEF Unit, EscByte, EscLit, Bytes

\* What the escape puts out for the first i bytes of s.
Escapes(f, s) == f = [i \in 0 .. Len(s) |-> IF i = 0 THEN <<>> ELSE f[i - 1] \o Unit(s[i])]

LEMMA EscapesAt ==
  ASSUME NEW s \in Bytes, NEW f, Escapes(f, s)
  PROVE  f[0] = <<>> /\ \A i \in 1 .. Len(s) : f[i] = f[i - 1] \o Unit(s[i])
BY DEF Escapes, Bytes

\* The recursive function of the definition exists.
LEMMA EscapesExist == \A s \in Bytes : \E f : Escapes(f, s)
<1> DEFINE T == {s \in Bytes : \E f : Escapes(f, s)}
<1>1. <<>> \in T
  <2>1. Escapes([i \in 0 .. 0 |-> <<>>], <<>>)
    BY DEF Escapes
  <2> QED
    BY <2>1 DEF Bytes
<1>2. ASSUME NEW s \in Bytes, NEW b \in Byte, s \in T PROVE Append(s, b) \in T
  <2> DEFINE t == Append(s, b)
             n == Len(s)
  <2>1. t \in Bytes /\ Len(t) = n + 1 /\ n \in Nat /\ t[n + 1] = b /\ \A i \in 1 .. n : t[i] = s[i]
    BY DEF Bytes
  <2> PICK f : Escapes(f, s)
    BY <1>2
  <2> HIDE DEF t, n
  <2> DEFINE g == [i \in 0 .. n + 1 |-> IF i = n + 1 THEN f[n] \o Unit(b) ELSE f[i]]
  <2>a. n \in Nat /\ n + 1 \in 0 .. n + 1 /\ n \in 0 .. n + 1 /\ (n + 1) - 1 = n /\ n # n + 1
    BY <2>1
  <2>b. f[0] = <<>> /\ \A i \in 1 .. n : f[i] = f[i - 1] \o Unit(s[i])
    BY EscapesAt DEF n
  <2>2. \A i \in 0 .. n : g[i] = f[i]
    BY <2>a
  <2>3. g[n + 1] = f[n] \o Unit(b)
    BY <2>a
  <2> HIDE DEF g
  <2>4. \A i \in 0 .. n + 1 : g[i] = IF i = 0 THEN <<>> ELSE g[i - 1] \o Unit(t[i])
    <3>1. ASSUME NEW i \in 1 .. n PROVE g[i] = g[i - 1] \o Unit(t[i])
      <4>1. i \in 0 .. n /\ i - 1 \in 0 .. n
        BY <2>a
      <4> QED
        BY <4>1, <2>1, <2>2, <2>b
    <3>2. g[0] = <<>>
      BY <2>a, <2>b, <2>2
    <3>3. g[n + 1] = g[(n + 1) - 1] \o Unit(t[n + 1])
      <4>1. n \in 0 .. n
        BY <2>a
      <4> QED
        BY <4>1, <2>1, <2>2, <2>3, <2>a
    <3>4. \A i \in 0 .. n + 1 : i = 0 \/ i \in 1 .. n \/ i = n + 1
      BY <2>a
    <3>5. \A i \in 1 .. n + 1 : i # 0
      BY <2>a
    <3>6. n + 1 \in 1 .. n + 1 /\ \A i \in 1 .. n : i \in 1 .. n + 1
      BY <2>a
    <3> QED
      BY <3>1, <3>2, <3>3, <3>4, <3>5, <3>6
  <2>5. g = [i \in 0 .. Len(t) |-> IF i = 0 THEN <<>> ELSE g[i - 1] \o Unit(t[i])]
    BY <2>1, <2>4 DEF g
  <2>6. Escapes(g, t)
    BY <2>5 DEF Escapes
  <2> QED
    BY <2>1, <2>6 DEF t
<1> HIDE DEF T
<1>3. \A s \in Bytes : s \in T
  BY <1>1, <1>2, BytesInduction
<1> QED
  BY <1>3 DEF T

LEMMA EscapedIs ==
  ASSUME NEW s \in Bytes
  PROVE  \E f : Escapes(f, s) /\ Escaped(s) = f[Len(s)]
<1> DEFINE out[i \in 0 .. Len(s)] ==
             IF i = 0 THEN <<>>
             ELSE out[i - 1] \o IF s[i] = EscByte THEN <<EscByte, EscLit>> ELSE <<s[i]>>
<1>1. out = CHOOSE g : g = [i \in 0 .. Len(s) |-> IF i = 0 THEN <<>>
               ELSE g[i - 1] \o IF s[i] = EscByte THEN <<EscByte, EscLit>> ELSE <<s[i]>>]
  OBVIOUS
<1>2. \E g : g = [i \in 0 .. Len(s) |-> IF i = 0 THEN <<>>
               ELSE g[i - 1] \o IF s[i] = EscByte THEN <<EscByte, EscLit>> ELSE <<s[i]>>]
  BY EscapesExist DEF Escapes, Unit
<1>3. Escaped(s) = out[Len(s)]
  BY DEF Escaped
<1>4. out = [i \in 0 .. Len(s) |-> IF i = 0 THEN <<>>
               ELSE out[i - 1] \o IF s[i] = EscByte THEN <<EscByte, EscLit>> ELSE <<s[i]>>]
  BY <1>1, <1>2
<1> HIDE DEF out
<1>5. Escapes(out, s)
  BY <1>4 DEF Escapes, Unit
<1> QED
  BY <1>3, <1>5

\* The escape of a text is that of its bytes one after another.
LEMMA EscapedAppend ==
  /\ Escaped(<<>>) = <<>>
  /\ \A s \in Bytes, b \in Byte : Escaped(Append(s, b)) = Escaped(s) \o Unit(b)
<1>1. Escaped(<<>>) = <<>>
  <2>1. <<>> \in Bytes /\ Len(<<>>) = 0
    BY DEF Bytes
  <2> QED
    BY <2>1, EscapedIs, EscapesAt
<1>2. ASSUME NEW s \in Bytes, NEW b \in Byte
      PROVE  Escaped(Append(s, b)) = Escaped(s) \o Unit(b)
  <2> DEFINE t == Append(s, b)
             n == Len(s)
  <2>1. t \in Bytes /\ Len(t) = n + 1 /\ n \in Nat /\ t[n + 1] = b /\ \A i \in 1 .. n : t[i] = s[i]
    BY DEF Bytes
  <2> PICK f : Escapes(f, s) /\ Escaped(s) = f[n]
    BY EscapedIs
  <2> HIDE DEF t
  <2> PICK g : Escapes(g, t) /\ Escaped(t) = g[Len(t)]
    BY <2>1, EscapedIs
  <2>2. f[0] = <<>> /\ \A i \in 1 .. n : f[i] = f[i - 1] \o Unit(s[i])
    BY EscapesAt
  <2>3. g[0] = <<>> /\ \A i \in 1 .. n + 1 : g[i] = g[i - 1] \o Unit(t[i])
    BY <2>1, EscapesAt
  <2> HIDE DEF n
  <2> DEFINE Same == {i \in Nat : i <= n => f[i] = g[i]}
  <2>4. 0 \in Same
    BY <2>2, <2>3
  <2>5. ASSUME NEW i \in Nat, i \in Same PROVE i + 1 \in Same
    <3> SUFFICES ASSUME i + 1 <= n PROVE f[i + 1] = g[i + 1]
      OBVIOUS
    <3>1. i + 1 \in 1 .. n /\ i + 1 \in 1 .. n + 1 /\ (i + 1) - 1 = i /\ f[i] = g[i]
      BY <2>1, <2>5
    <3> QED
      BY <3>1, <2>1, <2>2, <2>3
  <2> HIDE DEF Same
  <2>6. n \in Same
    BY <2>1, <2>4, <2>5, NaturalInduction
  <2>7. f[n] = g[n]
    BY <2>1, <2>6 DEF Same
  <2>8. g[n + 1] = g[n] \o Unit(b)
    <3>1. n + 1 \in 1 .. n + 1 /\ (n + 1) - 1 = n
      BY <2>1
    <3> QED
      BY <3>1, <2>1, <2>3
  <2> QED
    BY <2>1, <2>7, <2>8 DEF t
<1> QED
  BY <1>1, <1>2

LEMMA EscapedType == \A s \in Bytes : Escaped(s) \in Bytes
<1> DEFINE T == {s \in Bytes : Escaped(s) \in Bytes}
<1>0. <<>> \in Bytes /\ \A s \in Bytes, b \in Byte : Append(s, b) \in Bytes
  BY DEF Bytes
<1>1. <<>> \in T
  BY <1>0, EscapedAppend
<1>2. ASSUME NEW s \in Bytes, NEW b \in Byte, s \in T PROVE Append(s, b) \in T
  BY <1>0, <1>2, EscapedAppend, UnitType, Concatenation
<1> HIDE DEF T
<1>3. \A s \in Bytes : s \in T
  BY <1>1, <1>2, BytesInduction
<1> QED
  BY <1>3 DEF T

LEMMA EscapedConcat ==
  ASSUME NEW s \in Bytes
  PROVE  \A t \in Bytes : Escaped(s \o t) = Escaped(s) \o Escaped(t)
<1> DEFINE T == {t \in Bytes : Escaped(s \o t) = Escaped(s) \o Escaped(t)}
<1>1. <<>> \in T
  BY EscapedAppend, EscapedType, Concatenation DEF Bytes
<1>2. ASSUME NEW t \in Bytes, NEW b \in Byte, t \in T PROVE Append(t, b) \in T
  <2>1. s \o Append(t, b) = Append(s \o t, b) /\ s \o t \in Bytes /\ Append(t, b) \in Bytes
    BY DEF Bytes
  <2>2. Escaped(s \o Append(t, b)) = (Escaped(s) \o Escaped(t)) \o Unit(b)
    BY <1>2, <2>1, EscapedAppend
  <2>3. (Escaped(s) \o Escaped(t)) \o Unit(b) = Escaped(s) \o (Escaped(t) \o Unit(b))
    BY EscapedType, UnitType, Associative
  <2> QED
    BY <2>1, <2>2, <2>3, EscapedAppend
<1> HIDE DEF T
<1>3. \A t \in Bytes : t \in T
  BY <1>1, <1>2, BytesInduction
<1> QED
  BY <1>3 DEF T

EscapeEnd == <<EscByte, EscTerm>>

LEMMA EscapeEndType ==
  EscapeEnd \in Bytes /\ Len(EscapeEnd) = 2 /\ EscapeEnd[1] = 0 /\ EscapeEnd[2] = 1
<1>1. 0 \in Byte /\ 1 \in Byte
  BY ByteRange
<1> QED
  BY <1>1 DEF EscapeEnd, EscByte, EscTerm, Bytes

LEMMA UnitsSplit ==
  ASSUME NEW b \in Byte, NEW c \in Byte
  PROVE  /\ b < c => Splits(Unit(b), Unit(c))
         /\ Splits(EscapeEnd, Unit(c))
<1>1. /\ Unit(b) \in Bytes /\ Unit(c) \in Bytes /\ EscapeEnd \in Bytes
      /\ Len(Unit(b)) \in {1, 2} /\ Len(Unit(c)) \in {1, 2} /\ Len(EscapeEnd) = 2
  BY UnitType, EscapeEndType
<1>2. /\ 1 \in DOMAIN Unit(b) /\ 1 \in DOMAIN Unit(c) /\ 1 \in DOMAIN EscapeEnd
      /\ 2 \in DOMAIN EscapeEnd /\ (c = 0 => 2 \in DOMAIN Unit(c))
  BY <1>1, UnitType DEF Bytes
<1>3. Unit(b)[1] = b /\ Unit(c)[1] = c /\ (c = 0 => Unit(c)[2] = LastByte)
  BY UnitType
<1>4. ASSUME b < c PROVE Splits(Unit(b), Unit(c))
  BY <1>2, <1>3, <1>4 DEF Splits
<1>5. ASSUME c # 0 PROVE Splits(EscapeEnd, Unit(c))
  <2>1. EscapeEnd[1] < Unit(c)[1]
    BY <1>3, <1>5, EscapeEndType, ByteRange
  <2> QED
    BY <2>1, <1>2 DEF Splits
<1>6. ASSUME c = 0 PROVE Splits(EscapeEnd, Unit(c))
  <2>1. EscapeEnd[2] < Unit(c)[2] /\ EscapeEnd[1] = Unit(c)[1]
    BY <1>3, <1>6, EscapeEndType, ByteRange
  <2>2. \A j \in 1 .. 2 - 1 : j = 1
    OBVIOUS
  <2> QED
    BY <2>1, <2>2, <1>2, <1>6 DEF Splits
<1> QED
  BY <1>4, <1>5, <1>6

\* A sequence of bytes around one of its bytes.
LEMMA AroundByte ==
  ASSUME NEW s \in Bytes, NEW i \in 1 .. Len(s)
  PROVE  /\ SubSeq(s, 1, i - 1) \in Bytes /\ Len(SubSeq(s, 1, i - 1)) = i - 1
         /\ \A j \in 1 .. i - 1 : SubSeq(s, 1, i - 1)[j] = s[j]
         /\ <<s[i]>> \in Bytes /\ s[i] \in Byte
         /\ SubSeq(s, i + 1, Len(s)) \in Bytes
         /\ s = Cat(SubSeq(s, 1, i - 1), Cat(<<s[i]>>, SubSeq(s, i + 1, Len(s))))
<1>1. Len(s) \in Nat /\ i \in Nat /\ i >= 1 /\ i <= Len(s) /\ s[i] \in Byte
  BY DEF Bytes
<1> DEFINE p == SubSeq(s, 1, i - 1)
           m == <<s[i]>>
           r == SubSeq(s, i + 1, Len(s))
           u == m \o r
           w == p \o u
<1>2. p \in Bytes /\ Len(p) = i - 1 /\ \A j \in 1 .. i - 1 : p[j] = s[j]
  BY <1>1 DEF Bytes
<1>3. r \in Bytes /\ Len(r) = Len(s) - i /\ \A j \in 1 .. Len(s) - i : r[j] = s[i + j]
  BY <1>1 DEF Bytes
<1>4. m \in Bytes /\ Len(m) = 1 /\ m[1] = s[i] /\ 1 \in 1 .. Len(m)
  BY <1>1 DEF Bytes
<1> HIDE DEF p, m, r
<1>5. u \in Bytes /\ Len(u) = 1 + Len(r) /\ u[1] = s[i] /\ \A j \in 1 .. Len(r) : u[1 + j] = r[j]
  <2>1. /\ u \in Bytes /\ Len(u) = Len(m) + Len(r)
        /\ \A j \in 1 .. Len(m) : u[j] = m[j]
        /\ \A j \in 1 .. Len(r) : u[Len(m) + j] = r[j]
    BY <1>3, <1>4, Concatenation, Zenon
  <2> QED
    BY <1>4, <2>1, Zenon
<1> HIDE DEF u
<1>6. w \in Bytes /\ Len(w) = Len(p) + Len(u) /\ (\A j \in 1 .. Len(p) : w[j] = p[j])
      /\ \A j \in 1 .. Len(u) : w[Len(p) + j] = u[j]
  BY <1>2, <1>5, Concatenation
<1> HIDE DEF w
<1>7. Len(p) = i - 1 /\ Len(r) = Len(s) - i /\ Len(w) = Len(s)
  BY <1>1, <1>2, <1>3, <1>5, <1>6
<1>8. ASSUME NEW j \in 1 .. Len(s) PROVE w[j] = s[j]
  <2>1. CASE j < i
    <3>1. j \in 1 .. i - 1
      BY <2>1, <1>1
    <3> QED
      BY <3>1, <1>2, <1>6, <1>7
  <2>2. CASE j = i
    <3>1. 1 \in 1 .. Len(u) /\ j = Len(p) + 1
      BY <2>2, <1>1, <1>5, <1>7
    <3> QED
      BY <3>1, <2>2, <1>5, <1>6
  <2>3. CASE j > i
    <3>1. /\ j - i \in 1 .. Len(r) /\ j - i \in 1 .. Len(s) - i /\ 1 + (j - i) \in 1 .. Len(u)
          /\ j = Len(p) + (1 + (j - i)) /\ i + (j - i) = j
      BY <2>3, <1>1, <1>5, <1>7
    <3>2. w[j] = u[1 + (j - i)]
      BY <3>1, <1>6
    <3>3. u[1 + (j - i)] = r[j - i] /\ r[j - i] = s[j]
      BY <3>1, <1>3, <1>5
    <3> QED
      BY <3>2, <3>3
  <2> QED
    BY <2>1, <2>2, <2>3, <1>1
<1>9. s = w
  BY <1>6, <1>7, <1>8, SameBytes
<1> QED
  BY <1>1, <1>2, <1>3, <1>4, <1>9 DEF Cat, p, m, r, u, w

LEMMA EscapedCat ==
  /\ \A b \in Byte : <<b>> \in Bytes /\ Escaped(<<b>>) = Unit(b) /\ Unit(b) \in Bytes
  /\ \A s, t \in Bytes : Escaped(Cat(s, t)) = Cat(Escaped(s), Escaped(t))
  /\ \A s \in Bytes : Escaped(s) \in Bytes
<1>1. ASSUME NEW b \in Byte PROVE <<b>> \in Bytes /\ Escaped(<<b>>) = Unit(b)
  <2>1. <<b>> \in Bytes /\ <<b>> = Append(<<>>, b) /\ <<>> \in Bytes
    BY DEF Bytes
  <2> QED
    BY <2>1, EscapedAppend, UnitType, Concatenation
<1>2. \A s, t \in Bytes : Escaped(Cat(s, t)) = Cat(Escaped(s), Escaped(t))
  BY EscapedConcat DEF Cat
<1> QED
  BY <1>1, <1>2, EscapedType, UnitType

LEMMA EscapedAround ==
  ASSUME NEW p \in Bytes, NEW b \in Byte, NEW r \in Bytes, NEW e \in Bytes
  PROVE  Cat(Escaped(Cat(p, Cat(<<b>>, r))), e) = Cat(Escaped(p), Cat(Unit(b), Cat(Escaped(r), e)))
<1>1. <<b>> \in Bytes /\ Escaped(<<b>>) = Unit(b) /\ Unit(b) \in Bytes
  BY EscapedCat
<1>2. Escaped(Cat(p, Cat(<<b>>, r))) = Cat(Escaped(p), Cat(Unit(b), Escaped(r)))
  BY <1>1, EscapedCat, CatFacts
<1>3. Escaped(p) \in Bytes /\ Escaped(r) \in Bytes
  BY EscapedCat
<1> DEFINE x == Escaped(p)
           y == Unit(b)
           z == Escaped(r)
<1>4. x \in Bytes /\ y \in Bytes /\ z \in Bytes /\ e \in Bytes
  BY <1>1, <1>3
<1> HIDE DEF x, y, z
<1>5. Cat(Cat(x, Cat(y, z)), e) = Cat(x, Cat(y, Cat(z, e)))
  BY <1>4, CatFacts
<1> QED
  BY <1>2, <1>5 DEF x, y, z

\* The escape keeps the order of texts, also where one is a prefix of the
\* other and whatever follows it in the key.
LEMMA EscapedInOrder ==
  ASSUME NEW s \in Bytes, NEW t \in Bytes, BytesBefore(s, t)
  PROVE  Splits(Cat(Escaped(s), EscapeEnd), Cat(Escaped(t), EscapeEnd))
<1>1. CASE Len(s) < Len(t) /\ s = SubSeq(t, 1, Len(s))
  <2> DEFINE i == Len(s) + 1
             r == SubSeq(t, i + 1, Len(t))
  <2>1. i \in 1 .. Len(t) /\ i - 1 = Len(s)
    BY <1>1 DEF Bytes
  <2>2. t[i] \in Byte /\ r \in Bytes /\ t = Cat(s, Cat(<<t[i]>>, r))
    BY <1>1, <2>1, AroundByte
  <2> HIDE DEF i, r
  <2>3. Cat(Escaped(t), EscapeEnd) = Cat(Escaped(s), Cat(Unit(t[i]), Cat(Escaped(r), EscapeEnd)))
    BY <2>2, EscapedAround, EscapeEndType
  <2>4. Cat(Escaped(s), EscapeEnd) = Cat(Escaped(s), Cat(EscapeEnd, <<>>))
    BY EscapeEndType, CatFacts
  <2>5. Cat(Escaped(r), EscapeEnd) \in Bytes /\ Escaped(s) \in Bytes /\ Unit(t[i]) \in Bytes
    BY <2>2, EscapedCat, EscapeEndType, CatFacts
  <2>6. Splits(EscapeEnd, Unit(t[i])) /\ EscapeEnd \in Bytes /\ <<>> \in Bytes
    BY <2>2, UnitsSplit, EscapeEndType, CatFacts
  <2> QED
    BY <2>3, <2>4, <2>5, <2>6, SplitsInside
<1>2. CASE \E i \in DOMAIN s \cap DOMAIN t : s[i] < t[i] /\ \A j \in 1 .. i - 1 : s[j] = t[j]
  <2> PICK i \in DOMAIN s \cap DOMAIN t : s[i] < t[i] /\ \A j \in 1 .. i - 1 : s[j] = t[j]
    BY <1>2
  <2> DEFINE p == SubSeq(s, 1, i - 1)
             q == SubSeq(t, 1, i - 1)
             x == SubSeq(s, i + 1, Len(s))
             y == SubSeq(t, i + 1, Len(t))
  <2>1. i \in 1 .. Len(s) /\ i \in 1 .. Len(t)
    BY DEF Bytes
  <2>2. /\ p \in Bytes /\ Len(p) = i - 1 /\ \A j \in 1 .. i - 1 : p[j] = s[j]
        /\ s[i] \in Byte /\ x \in Bytes /\ s = Cat(p, Cat(<<s[i]>>, x))
    BY <2>1, AroundByte
  <2>3. /\ q \in Bytes /\ Len(q) = i - 1 /\ \A j \in 1 .. i - 1 : q[j] = t[j]
        /\ t[i] \in Byte /\ y \in Bytes /\ t = Cat(q, Cat(<<t[i]>>, y))
    BY <2>1, AroundByte
  <2> HIDE DEF p, q, x, y
  <2>4. p = q
    <3>1. \A j \in 1 .. Len(p) : p[j] = q[j]
      BY <2>2, <2>3
    <3> QED
      BY <3>1, <2>2, <2>3, SameBytes
  <2>5. Cat(Escaped(s), EscapeEnd) = Cat(Escaped(p), Cat(Unit(s[i]), Cat(Escaped(x), EscapeEnd)))
    BY <2>2, EscapedAround, EscapeEndType
  <2>6. Cat(Escaped(t), EscapeEnd) = Cat(Escaped(p), Cat(Unit(t[i]), Cat(Escaped(y), EscapeEnd)))
    BY <2>3, <2>4, EscapedAround, EscapeEndType
  <2>7. /\ Cat(Escaped(x), EscapeEnd) \in Bytes /\ Cat(Escaped(y), EscapeEnd) \in Bytes
        /\ Escaped(p) \in Bytes /\ Unit(s[i]) \in Bytes /\ Unit(t[i]) \in Bytes
    BY <2>2, <2>3, EscapedCat, EscapeEndType, CatFacts
  <2>8. Splits(Unit(s[i]), Unit(t[i]))
    BY <2>2, <2>3, UnitsSplit
  <2> QED
    BY <2>5, <2>6, <2>7, <2>8, SplitsInside
<1> QED
  BY <1>1, <1>2 DEF BytesBefore

-----------------------------------------------------------------------------
(***************************************************************************)
(* Values.                                                                 *)
(***************************************************************************)
IsValue(a) ==
  \/ a = Null
  \/ \E v \in 0 .. 1 : a = Value("BOOL", v)
  \/ \E v \in -SignBit .. SignBit - 1 : a = Value("INT", v)
  \/ \E v \in Byte : a = Value("FLOAT", v)
  \/ \E v \in Bytes : a = Value("TEXT", v)

LEMMA ValuesAreValues ==
  ASSUME NEW kind \in {"BOOL", "INT", "FLOAT", "TEXT"}, NEW a \in ValuesOf(kind)
  PROVE  IsValue(a) /\ a.kind = kind
<1>1. a.kind = kind
  BY DEF ValuesOf, Value
<1>2. CASE kind = "BOOL"
  <2>1. \E v \in 0 .. 1 : a = Value("BOOL", v)
    BY <1>2 DEF ValuesOf
  <2> QED
    BY <1>1, <2>1 DEF IsValue
<1>3. CASE kind = "INT"
  <2>1. \E v \in -SignBit .. SignBit - 1 : a = Value("INT", v)
    BY <1>3 DEF ValuesOf
  <2> QED
    BY <1>1, <2>1 DEF IsValue
<1>4. CASE kind = "FLOAT"
  <2>1. \E v \in Byte : a = Value("FLOAT", v)
    BY <1>4 DEF ValuesOf
  <2> QED
    BY <1>1, <2>1 DEF IsValue
<1>5. CASE kind = "TEXT"
  <2>1. PICK n \in 0 .. TextLen : \E v \in [1 .. n -> TextByte] : a = Value("TEXT", v)
    BY <1>5 DEF ValuesOf
  <2>2. PICK v \in [1 .. n -> TextByte] : a = Value("TEXT", v)
    BY <2>1
  <2>3. v \in Bytes
    BY TextAssumption DEF Bytes
  <2> QED
    BY <1>1, <2>2, <2>3 DEF IsValue
<1> QED
  BY <1>1, <1>2, <1>3, <1>4, <1>5

LEMMA TwoBytes ==
  ASSUME NEW x \in Byte, NEW y \in Byte
  PROVE  <<x>> \o <<y>> = <<x, y>> /\ <<x, y>> \in Bytes /\ <<x>> \in Bytes
<1>1. /\ <<x>> \in Bytes /\ <<y>> \in Bytes /\ <<x, y>> \in Bytes
      /\ Len(<<x>>) = 1 /\ Len(<<y>>) = 1 /\ Len(<<x, y>>) = 2
      /\ <<x>>[1] = x /\ <<y>>[1] = y /\ <<x, y>>[1] = x /\ <<x, y>>[2] = y
  BY DEF Bytes
<1> DEFINE p == <<x>>
           q == <<y>>
           r == <<x, y>>
<1> HIDE DEF p, q, r
<1>2. /\ p \in Bytes /\ q \in Bytes /\ r \in Bytes
      /\ Len(p) = 1 /\ Len(q) = 1 /\ Len(r) = 2
      /\ p[1] = x /\ q[1] = y /\ r[1] = x /\ r[2] = y
  BY <1>1 DEF p, q, r
<1> DEFINE w == p \o q
<1>3. /\ w \in Bytes /\ Len(w) = Len(p) + Len(q)
      /\ \A i \in 1 .. Len(p) : w[i] = p[i]
      /\ \A i \in 1 .. Len(q) : w[Len(p) + i] = q[i]
  BY <1>2, Concatenation
<1> HIDE DEF w
<1>4. 1 \in 1 .. Len(p) /\ 1 \in 1 .. Len(q) /\ Len(p) + 1 = 2 /\ Len(w) = 2
  BY <1>2, <1>3
<1>5. w[1] = r[1] /\ w[2] = r[2]
  BY <1>2, <1>3, <1>4
<1>6. \A i \in 1 .. Len(w) : w[i] = r[i]
  BY <1>4, <1>5
<1>7. w = r
  BY <1>2, <1>3, <1>4, <1>6, SameBytes
<1> QED
  BY <1>1, <1>7 DEF p, q, r, w

LEMMA SmallBytes == 0 \in Byte /\ 1 \in Byte /\ 2 \in Byte /\ 3 \in Byte /\ 4 \in Byte /\ 5 \in Byte
BY ByteRange

LEMMA Modulo ==
  ASSUME NEW m \in Nat, m > 0, NEW n \in 0 .. 2 * m - 1
  PROVE  n % m = IF n < m THEN n ELSE n - m
OBVIOUS

LEMMA SmallModulo ==
  ASSUME NEW m \in Nat, NEW n \in 0 .. m - 1
  PROVE  n % m = n
OBVIOUS

LEMMA FloatParts ==
  ASSUME NEW x \in Byte
  PROVE  /\ x \in Nat /\ x <= 2 * SignBit - 1
         /\ x < SignBit => Magnitude(x) = x /\ Number(x) = x
         /\ x >= SignBit => Magnitude(x) = x - SignBit /\ Number(x) = SignBit - x
         /\ IsNaN(x) <=> x = SignBit - 1 \/ x = LastByte
<1>1. x \in 0 .. 2 * SignBit - 1 /\ x \in Nat /\ SignBit \in Nat /\ SignBit > 0
  BY ByteRange
<1>2. Magnitude(x) = IF x < SignBit THEN x ELSE x - SignBit
  BY <1>1, Modulo DEF Magnitude
<1> QED
  BY <1>1, <1>2, ByteRange DEF Number, Negative, IsNaN

\* The byte a number is written as.
NumberByte(a) == IF a.kind = "INT" THEN a.v + SignBit
                 ELSE IF Negative(a.v) THEN LastByte - a.v ELSE a.v + SignBit

LEMMA Encodings ==
  ASSUME NEW a, IsValue(a)
  PROVE  /\ a = Null => Encode(a) = <<0>>
         /\ a.kind = "BOOL" => a.v \in {0, 1} /\ Encode(a) = <<1, a.v>>
         /\ a.kind \in {"INT", "FLOAT"} => NumberByte(a) \in Byte
         /\ a.kind = "INT" => a.v \in -SignBit .. SignBit - 1 /\ Encode(a) = <<2, NumberByte(a)>>
         /\ a.kind = "FLOAT" => a.v \in Byte /\ Encode(a) = <<3, NumberByte(a)>>
         /\ a.kind = "TEXT" => a.v \in Bytes /\ Encode(a) = Cat(<<4>>, Cat(Escaped(a.v), EscapeEnd))
         /\ a.kind \in {"NULL", "BOOL", "INT", "FLOAT", "TEXT"} /\ (a.kind = "NULL" <=> a = Null)
<1>1. CASE a = Null
  <2>1. a = [kind |-> "NULL", v |-> 0]
    BY <1>1 DEF Null, Value
  <2>2. Encode(a) = <<0>>
    BY <2>1 DEF Encode, Tag
  <2> QED
    BY <1>1, <2>1, <2>2
<1>2. ASSUME NEW v \in 0 .. 1, a = Value("BOOL", v)
      PROVE  a.kind = "BOOL" /\ a.v \in {0, 1} /\ Encode(a) = <<1, a.v>>
  <2>1. a.kind = "BOOL" /\ a.v = v /\ v \in {0, 1}
    BY <1>2 DEF Value
  <2>2. Encode(a) = <<1>> \o <<a.v>>
    BY <2>1 DEF Encode, Tag
  <2> QED
    BY <2>1, <2>2, SmallBytes, TwoBytes
<1>3. ASSUME NEW v \in -SignBit .. SignBit - 1, a = Value("INT", v)
      PROVE  /\ a.kind = "INT" /\ a.v \in -SignBit .. SignBit - 1 /\ Encode(a) = <<2, NumberByte(a)>>
             /\ NumberByte(a) \in Byte
  <2>1. a.kind = "INT" /\ a.v = v
    BY <1>3 DEF Value
  <2>2. v + SignBit \in 0 .. Base - 1 /\ Base \in Nat
    BY ByteRange
  <2>3. (a.v + SignBit) % Base = a.v + SignBit /\ a.v + SignBit \in Byte
    BY <2>1, <2>2, SmallModulo, ByteRange
  <2>4. Encode(a) = <<2>> \o <<a.v + SignBit>>
    BY <2>1, <2>3 DEF Encode, Tag
  <2>5. NumberByte(a) = a.v + SignBit
    BY <2>1 DEF NumberByte
  <2>6. Encode(a) = <<2, NumberByte(a)>>
    BY <2>3, <2>4, <2>5, SmallBytes, TwoBytes
  <2> QED
    BY <2>1, <2>3, <2>5, <2>6
<1>4. ASSUME NEW v \in Byte, a = Value("FLOAT", v)
      PROVE  /\ a.kind = "FLOAT" /\ a.v \in Byte /\ Encode(a) = <<3, NumberByte(a)>>
             /\ NumberByte(a) \in Byte
  <2>1. a.kind = "FLOAT" /\ a.v = v
    BY <1>4 DEF Value
  <2>2. NumberByte(a) = IF Negative(a.v) THEN LastByte - a.v ELSE a.v + SignBit
    BY <2>1 DEF NumberByte
  <2>3. NumberByte(a) \in Byte
    BY <2>1, <2>2, ByteRange DEF Negative
  <2>4. Encode(a) = <<3>> \o <<NumberByte(a)>>
    BY <2>1, <2>2 DEF Encode, Tag
  <2>5. Encode(a) = <<3, NumberByte(a)>>
    BY <2>3, <2>4, SmallBytes, TwoBytes
  <2> QED
    BY <2>1, <2>3, <2>5
<1>5. ASSUME NEW v \in Bytes, a = Value("TEXT", v)
      PROVE  /\ a.kind = "TEXT" /\ a.v \in Bytes
             /\ Encode(a) = Cat(<<4>>, Cat(Escaped(a.v), EscapeEnd))
  BY <1>5 DEF Encode, Tag, Value, Cat, EscapeEnd
<1> QED
  BY <1>1, <1>2, <1>3, <1>4, <1>5 DEF IsValue, Null, Value

LEMMA EncodeType ==
  ASSUME NEW a, IsValue(a)
  PROVE  /\ Encode(a) \in Bytes
         /\ Len(Encode(a)) >= 1
         /\ Encode(a)[1] = Tag[a.kind]
         /\ Tag[a.kind] \in 0 .. 4
<1>1. CASE a = Null
  <2>1. <<0>> \in Bytes /\ Len(<<0>>) = 1 /\ <<0>>[1] = 0
    BY SmallBytes DEF Bytes
  <2> QED
    BY <1>1, <2>1, Encodings DEF Tag, Null, Value
<1>2. CASE a.kind = "BOOL"
  <2>1. a.v \in Byte /\ Encode(a) = <<1, a.v>>
    BY <1>2, Encodings, SmallBytes
  <2>2. <<1, a.v>> \in Bytes /\ Len(<<1, a.v>>) = 2 /\ <<1, a.v>>[1] = 1
    BY <2>1, SmallBytes, TwoBytes
  <2> QED
    BY <1>2, <2>1, <2>2 DEF Tag
<1>3. CASE a.kind = "INT"
  <2>1. NumberByte(a) \in Byte /\ Encode(a) = <<2, NumberByte(a)>>
    BY <1>3, Encodings
  <2>2. <<2, NumberByte(a)>> \in Bytes /\ Len(<<2, NumberByte(a)>>) = 2 /\ <<2, NumberByte(a)>>[1] = 2
    BY <2>1, SmallBytes, TwoBytes
  <2> QED
    BY <1>3, <2>1, <2>2 DEF Tag
<1>4. CASE a.kind = "FLOAT"
  <2>1. NumberByte(a) \in Byte /\ Encode(a) = <<3, NumberByte(a)>>
    BY <1>4, Encodings
  <2>2. <<3, NumberByte(a)>> \in Bytes /\ Len(<<3, NumberByte(a)>>) = 2 /\ <<3, NumberByte(a)>>[1] = 3
    BY <2>1, SmallBytes, TwoBytes
  <2> QED
    BY <1>4, <2>1, <2>2 DEF Tag
<1>5. CASE a.kind = "TEXT"
  <2>1. a.v \in Bytes /\ Encode(a) = Cat(<<4>>, Cat(Escaped(a.v), EscapeEnd))
    BY <1>5, Encodings
  <2> DEFINE x == Cat(Escaped(a.v), EscapeEnd)
             t == <<4>>
  <2>2. x \in Bytes
    BY <2>1, EscapedCat, EscapeEndType, CatFacts
  <2>3. t \in Bytes /\ Len(t) = 1 /\ t[1] = 4
    BY SmallBytes DEF Bytes
  <2> HIDE DEF x, t
  <2>4. Cat(t, x) \in Bytes /\ Len(Cat(t, x)) = 1 + Len(x) /\ Cat(t, x)[1] = 4 /\ Len(x) \in Nat
    <3>1. 1 \in 1 .. Len(t)
      BY <2>3
    <3>2. Len(x) \in Nat
      BY <2>2 DEF Bytes
    <3>3. t \o x \in Bytes /\ Len(t \o x) = Len(t) + Len(x) /\ \A i \in 1 .. Len(t) : (t \o x)[i] = t[i]
      BY <2>2, <2>3, Concatenation
    <3>4. Len(t \o x) = 1 + Len(x)
      BY <3>3, <2>3
    <3>5. (t \o x)[1] = 4
      BY <3>1, <3>3, <2>3
    <3> QED
      BY <3>2, <3>3, <3>4, <3>5 DEF Cat
  <2>5. Encode(a) = Cat(t, x)
    BY <2>1 DEF t, x
  <2>6. Tag[a.kind] = 4 /\ 4 \in 0 .. 4
    BY <1>5 DEF Tag
  <2>7. Encode(a) \in Bytes /\ Encode(a)[1] = 4
    BY <2>4, <2>5
  <2>8. Len(Encode(a)) = 1 + Len(x)
    BY <2>4, <2>5
  <2>9. Len(Encode(a)) >= 1
    <3> HIDE DEF Encode
    <3> QED
      BY <2>4, <2>8
  <2> QED
    BY <2>6, <2>7, <2>9
<1> QED
  BY <1>1, <1>2, <1>3, <1>4, <1>5, Encodings

LEMMA SecondByte ==
  ASSUME NEW t \in Byte, NEW x \in Byte, NEW y \in Byte, x < y
  PROVE  Splits(<<t, x>>, <<t, y>>)
<1> DEFINE p == <<t, x>>
           q == <<t, y>>
<1>1. 2 \in DOMAIN p \cap DOMAIN q /\ p[2] = x /\ q[2] = y /\ p[1] = q[1]
  OBVIOUS
<1> HIDE DEF p, q
<1>2. \A j \in 1 .. 2 - 1 : j = 1
  OBVIOUS
<1>3. Splits(p, q)
  BY <1>1, <1>2 DEF Splits
<1> QED
  BY <1>3 DEF p, q

\* The float whose key is the least one although it comes after every number.
NegativeNaN == Value("FLOAT", LastByte)

LEMMA FloatsInOrder ==
  ASSUME NEW x \in Byte, NEW y \in Byte, FloatBefore(x, y), y # LastByte
  PROVE  (IF Negative(x) THEN LastByte - x ELSE x + SignBit)
            < (IF Negative(y) THEN LastByte - y ELSE y + SignBit)
<1>1. /\ x \in Nat /\ x <= 2 * SignBit - 1
      /\ x < SignBit => Number(x) = x
      /\ x >= SignBit => Number(x) = SignBit - x
      /\ IsNaN(x) <=> x = SignBit - 1 \/ x = LastByte
  BY FloatParts
<1>2. /\ y \in Nat /\ y <= 2 * SignBit - 1
      /\ y < SignBit => Number(y) = y
      /\ y >= SignBit => Number(y) = SignBit - y
      /\ IsNaN(y) <=> y = SignBit - 1 \/ y = LastByte
  BY FloatParts
<1>3. ~IsNaN(x) /\ (IsNaN(y) \/ Number(x) < Number(y))
  BY DEF FloatBefore
<1> QED
  BY <1>1, <1>2, <1>3, ByteRange DEF Negative

\* The order of values is that of their encodings, whatever follows them in
\* a key, except that a NaN with its sign bit set has the least encoding.
LEMMA EncodeInOrder ==
  ASSUME NEW a, NEW b, IsValue(a), IsValue(b), Before(a, b), b # NegativeNaN
  PROVE  Splits(Encode(a), Encode(b))
<1>0. a.kind \in {"NULL", "BOOL", "INT", "FLOAT", "TEXT"} /\ b.kind \in {"NULL", "BOOL", "INT", "FLOAT", "TEXT"}
  BY Encodings
<1>1. CASE Tag[a.kind] < Tag[b.kind]
  <2>1. 1 \in DOMAIN Encode(a) \cap DOMAIN Encode(b) /\ Encode(a)[1] < Encode(b)[1]
    BY <1>1, EncodeType DEF Bytes
  <2>2. \A j \in 1 .. 1 - 1 : FALSE
    OBVIOUS
  <2> QED
    BY <2>1, <2>2 DEF Splits
<1>2. CASE a.kind = b.kind /\ a.kind = "NULL"
  <2>1. a = Null /\ b = Null
    BY <1>2, Encodings
  <2>2. a.v = 0 /\ b.v = 0
    BY <2>1 DEF Null, Value
  <2>3. a.v < b.v
    BY <1>2 DEF Before, Tag
  <2> QED
    BY <2>2, <2>3
<1>3. CASE a.kind = b.kind /\ a.kind = "BOOL"
  <2>1. a.v < b.v
    BY <1>3 DEF Before, Tag
  <2>2. a.v \in Byte /\ b.v \in Byte /\ Encode(a) = <<1, a.v>> /\ Encode(b) = <<1, b.v>>
    BY <1>3, Encodings, SmallBytes
  <2> QED
    BY <2>1, <2>2, SmallBytes, SecondByte
<1>4. CASE a.kind = b.kind /\ a.kind = "INT"
  <2>1. a.v < b.v
    BY <1>4 DEF Before, Tag
  <2>2. /\ NumberByte(a) \in Byte /\ Encode(a) = <<2, NumberByte(a)>>
        /\ NumberByte(b) \in Byte /\ Encode(b) = <<2, NumberByte(b)>>
        /\ a.v \in -SignBit .. SignBit - 1 /\ b.v \in -SignBit .. SignBit - 1
    BY <1>4, Encodings
  <2>3. NumberByte(a) < NumberByte(b)
    BY <1>4, <2>1, <2>2, ByteRange DEF NumberByte
  <2> QED
    BY <2>2, <2>3, SmallBytes, SecondByte
<1>5. CASE a.kind = b.kind /\ a.kind = "FLOAT"
  <2>1. FloatBefore(a.v, b.v)
    BY <1>5 DEF Before, Tag
  <2>2. /\ NumberByte(a) \in Byte /\ Encode(a) = <<3, NumberByte(a)>> /\ a.v \in Byte
        /\ NumberByte(b) \in Byte /\ Encode(b) = <<3, NumberByte(b)>> /\ b.v \in Byte
    BY <1>5, Encodings
  <2>3. b.v # LastByte
    <3>1. b = Value("FLOAT", b.v)
      BY <1>5 DEF IsValue, Null, Value
    <3> QED
      BY <3>1 DEF NegativeNaN
  <2>4. NumberByte(a) < NumberByte(b)
    BY <1>5, <2>1, <2>2, <2>3, FloatsInOrder DEF NumberByte
  <2> QED
    BY <2>2, <2>4, SmallBytes, SecondByte
<1>6. CASE a.kind = b.kind /\ a.kind = "TEXT"
  <2>1. BytesBefore(a.v, b.v)
    BY <1>6 DEF Before, Tag
  <2> DEFINE x == Cat(Escaped(a.v), EscapeEnd)
             y == Cat(Escaped(b.v), EscapeEnd)
             t == <<4>>
  <2>2. a.v \in Bytes /\ b.v \in Bytes /\ Encode(a) = Cat(t, x) /\ Encode(b) = Cat(t, y)
    BY <1>6, Encodings
  <2>3. x \in Bytes /\ y \in Bytes /\ t \in Bytes /\ <<>> \in Bytes
    BY <2>2, SmallBytes, TwoBytes, EscapedCat, EscapeEndType, CatFacts
  <2>4. Splits(x, y)
    BY <2>1, <2>2, EscapedInOrder
  <2> HIDE DEF x, y, t
  <2>5. Splits(Cat(t, Cat(x, <<>>)), Cat(t, Cat(y, <<>>)))
    BY <2>3, <2>4, SplitsInside
  <2> QED
    BY <2>2, <2>3, <2>5, CatFacts
<1>7. Tag[a.kind] < Tag[b.kind] \/ a.kind = b.kind
  BY DEF Before
<1> QED
  BY <1>0, <1>1, <1>2, <1>3, <1>4, <1>5, <1>6, <1>7

-----------------------------------------------------------------------------
(***************************************************************************)
(* Prefixes, and the keys that begin with them.                            *)
(***************************************************************************)
\* What follows two sequences leaves their order.
LEMMA SplitsFront ==
  ASSUME NEW s \in Bytes, NEW t \in Bytes, NEW x \in Bytes, NEW y \in Bytes, Splits(s, t)
  PROVE  Splits(Cat(s, x), Cat(t, y))
<1>1. Splits(Cat(<<>>, Cat(s, x)), Cat(<<>>, Cat(t, y)))
  BY SplitsInside, CatFacts
<1>2. Cat(s, x) \in Bytes /\ Cat(t, y) \in Bytes
  BY CatFacts
<1>3. Cat(<<>>, Cat(s, x)) = Cat(s, x) /\ Cat(<<>>, Cat(t, y)) = Cat(t, y)
  BY <1>2, CatFacts
<1> QED
  BY <1>1, <1>3

\* A key that is not in front of some key with a prefix is not in front of
\* the prefix either.
LEMMA NotBefore ==
  ASSUME NEW key \in Bytes, NEW p \in Bytes, NEW u \in Bytes, ~BytesBefore(key, Cat(p, u))
  PROVE  ~Splits(key, p)
<1>1. ASSUME Splits(key, p) PROVE FALSE
  <2>1. Splits(Cat(key, <<>>), Cat(p, u))
    BY <1>1, SplitsFront, CatFacts
  <2>2. Cat(key, <<>>) = key
    BY CatFacts
  <2> QED
    BY <2>1, <2>2, SplitsBefore
<1> QED
  BY <1>1

\* A key in front of some key with a prefix is not behind the prefix.
LEMMA NotBehind ==
  ASSUME NEW key \in Bytes, NEW p \in Bytes, NEW u \in Bytes, BytesBefore(key, Cat(p, u))
  PROVE  ~Splits(p, key)
<1> SUFFICES ASSUME Splits(p, key) PROVE FALSE
  OBVIOUS
<1> PICK i \in DOMAIN p \cap DOMAIN key : p[i] < key[i] /\ \A j \in 1 .. i - 1 : p[j] = key[j]
  BY DEF Splits
<1> DEFINE e == p \o u
<1>1. /\ e \in Bytes /\ Len(e) = Len(p) + Len(u)
      /\ \A j \in 1 .. Len(p) : e[j] = p[j]
  BY Concatenation
<1>2. BytesBefore(key, e)
  BY DEF Cat
<1> HIDE DEF e
<1>3. /\ i \in Nat /\ i >= 1 /\ i <= Len(p) /\ i <= Len(key)
      /\ Len(p) \in Nat /\ Len(key) \in Nat /\ Len(e) \in Nat /\ Len(u) \in Nat
      /\ p[i] \in Nat /\ key[i] \in Nat
  BY <1>1, ByteRange DEF Bytes
<1>4. CASE Len(key) < Len(e) /\ key = SubSeq(e, 1, Len(key))
  <2>1. key[i] = e[i]
    BY <1>1, <1>3, <1>4 DEF Bytes
  <2> QED
    BY <1>1, <1>3, <2>1
<1>5. CASE Splits(key, e)
  <2> PICK k \in DOMAIN key \cap DOMAIN e : key[k] < e[k] /\ \A j \in 1 .. k - 1 : key[j] = e[j]
    BY <1>5 DEF Splits
  <2>1. k \in Nat /\ k >= 1
    BY <1>1 DEF Bytes
  <2>2. e[i] = p[i]
    BY <1>1, <1>3
  <2>3. CASE k < i
    <3>1. p[k] = key[k] /\ e[k] = p[k] /\ k \in 1 .. Len(p)
      BY <2>1, <2>3, <1>1, <1>3
    <3>2. key[k] \in Nat
      BY <2>1, <1>1, ByteRange DEF Bytes
    <3> QED
      BY <3>1, <3>2
  <2>4. CASE k = i
    BY <2>2, <2>4, <1>3
  <2>5. CASE k > i
    <3>1. key[i] = e[i]
      BY <2>1, <2>5, <1>3
    <3> QED
      BY <3>1, <2>2, <1>3
  <2> QED
    BY <2>1, <2>3, <2>4, <2>5, <1>3
<1> QED
  BY <1>2, <1>4, <1>5 DEF BytesBefore, Splits

\* A key neither behind a prefix nor in front of it begins with it.
LEMMA BeginsWith ==
  ASSUME NEW key \in Bytes, NEW p \in Bytes, Len(p) <= Len(key), ~Splits(p, key), ~Splits(key, p)
  PROVE  SubSeq(key, 1, Len(p)) = p
<1>0. /\ Len(p) \in Nat /\ Len(key) \in Nat
      /\ \A i \in 1 .. Len(p) : i \in DOMAIN p /\ i \in DOMAIN key /\ p[i] \in Nat /\ key[i] \in Nat
  BY ByteRange DEF Bytes
<1> DEFINE Apart == {i \in Nat : i \in 1 .. Len(p) /\ key[i] # p[i]}
<1>1. ASSUME Apart # {} PROVE FALSE
  <2>1. PICK i \in Apart : \A j \in Apart : i <= j
    BY <1>1, LeastNatural
  <2>2. i \in Nat /\ i \in 1 .. Len(p) /\ key[i] # p[i]
    OBVIOUS
  <2>3. \A j \in 1 .. i - 1 : j \notin Apart /\ j \in Nat /\ j \in 1 .. Len(p)
    BY <2>1, <2>2, <1>0
  <2>4. \A j \in 1 .. i - 1 : key[j] = p[j]
    BY <2>3
  <2> HIDE DEF Apart
  <2>5. key[i] < p[i] \/ p[i] < key[i]
    BY <2>2, <1>0
  <2> QED
    BY <2>2, <2>4, <2>5, <1>0 DEF Splits
<1>2. \A i \in 1 .. Len(p) : key[i] = p[i]
  BY <1>1, <1>0
<1> HIDE DEF Apart
<1> DEFINE f == SubSeq(key, 1, Len(p))
<1>3. f \in Bytes /\ Len(f) = Len(p) /\ \A i \in 1 .. Len(p) : f[i] = key[i]
  BY <1>0 DEF Bytes
<1> HIDE DEF f
<1>4. f = p
  BY <1>2, <1>3, SameBytes
<1> QED
  BY <1>4 DEF f

\* The bytes of PrefixEnd, by the last byte of the prefix that can grow.
LEMMA PrefixEndIs ==
  ASSUME NEW p \in Bytes, NEW i \in 1 .. Len(p), p[i] # LastByte
  PROVE  \E k \in i .. Len(p) :
            /\ p[k] + 1 \in Byte
            /\ \A j \in k + 1 .. Len(p) : p[j] = LastByte
            /\ PrefixEnd(p) = Cat(SubSeq(p, 1, k - 1), <<p[k] + 1>>)
<1> DEFINE live == {j \in DOMAIN p : p[j] # LastByte}
           Behind == {n \in Nat : \E j \in live : n = Len(p) - j}
<1>0. /\ Len(p) \in Nat /\ DOMAIN p = 1 .. Len(p) /\ \A j \in 1 .. Len(p) : p[j] \in Byte
  BY DEF Bytes
<1>1. Behind # {}
  <2>1. i \in live /\ Len(p) - i \in Nat
    BY <1>0
  <2> QED
    BY <2>1
<1>2. PICK n \in Behind : \A m \in Behind : n <= m
  BY <1>1, LeastNatural
<1>3. PICK k \in live : n = Len(p) - k
  OBVIOUS
<1>4. \A j \in live : j <= k
  <2> SUFFICES ASSUME NEW j \in live PROVE j <= k
    OBVIOUS
  <2>1. Len(p) - j \in Behind /\ j \in Nat /\ k \in Nat
    BY <1>0
  <2>2. n <= Len(p) - j
    BY <2>1, <1>2
  <2> QED
    BY <2>1, <2>2, <1>3, <1>0
<1>5. \A l \in live : (\A j \in live : j <= l) => l = k
  <2> SUFFICES ASSUME NEW l \in live, \A j \in live : j <= l PROVE l = k
    OBVIOUS
  <2>1. l <= k /\ k <= l /\ l \in Nat /\ k \in Nat
    BY <1>0, <1>4
  <2> QED
    BY <2>1
<1>6. (CHOOSE l \in live : \A j \in live : j <= l) = k
  BY <1>4, <1>5
<1>7. live # {}
  BY <1>3
<1>8. PrefixEnd(p) = Cat(SubSeq(p, 1, k - 1), <<p[k] + 1>>)
  BY <1>6, <1>7 DEF PrefixEnd, Cat
<1>9. p[k] + 1 \in Byte
  <2>1. k \in 1 .. Len(p) /\ p[k] # LastByte
    BY <1>0
  <2>2. p[k] \in Byte
    BY <1>0, <2>1
  <2>3. \A b \in Byte : b # LastByte => b + 1 \in Byte
    BY ByteRange
  <2> QED
    BY <2>1, <2>2, <2>3
<1>10. k \in i .. Len(p)
  <2>1. i \in live /\ k \in 1 .. Len(p) /\ i \in 1 .. Len(p)
    BY <1>0
  <2>2. i <= k
    BY <2>1, <1>4
  <2> QED
    BY <2>1, <2>2
<1>11. ASSUME NEW j \in k + 1 .. Len(p) PROVE p[j] = LastByte
  <2>1. j \in 1 .. Len(p) /\ ~(j <= k)
    BY <1>0, <1>10
  <2>2. j \notin live
    BY <2>1, <1>4
  <2> QED
    BY <2>1, <2>2, <1>0
<1> HIDE DEF live, Behind
<1> QED
  BY <1>8, <1>9, <1>10, <1>11

\* The end of a longer key that still begins with the prefix does too.
LEMMA PrefixEndInside ==
  ASSUME NEW p \in Bytes, NEW e \in Bytes, Len(e) >= 1, e[1] < LastByte
  PROVE  \E u \in Bytes : PrefixEnd(Cat(p, e)) = Cat(p, u)
<1> DEFINE w == p \o e
           i == Len(p) + 1
<1>1. /\ w \in Bytes /\ Len(w) = Len(p) + Len(e) /\ Len(p) \in Nat /\ Len(e) \in Nat
      /\ \A j \in 1 .. Len(p) : w[j] = p[j]
      /\ \A j \in 1 .. Len(e) : w[Len(p) + j] = e[j]
  BY Concatenation DEF Bytes
<1> HIDE DEF w
<1>2. i \in 1 .. Len(w) /\ 1 \in 1 .. Len(e)
  BY <1>1
<1>3. w[i] # LastByte
  <2>1. w[i] = e[1]
    BY <1>1, <1>2
  <2>2. e[1] \in Nat /\ LastByte \in Nat
    BY <1>2, ByteRange DEF Bytes
  <2> QED
    BY <2>1, <2>2
<1> HIDE DEF i
<1>4. PICK k \in i .. Len(w) : /\ w[k] + 1 \in Byte
                               /\ PrefixEnd(w) = Cat(SubSeq(w, 1, k - 1), <<w[k] + 1>>)
  BY <1>1, <1>2, <1>3, PrefixEndIs
<1>5. k \in Nat /\ k >= Len(p) + 1 /\ k <= Len(w)
  BY <1>1 DEF i
<1> DEFINE f == SubSeq(w, 1, k - 1)
           g == SubSeq(w, Len(p) + 1, k - 1)
           b == <<w[k] + 1>>
<1>6. /\ f \in Bytes /\ Len(f) = k - 1 /\ \A j \in 1 .. k - 1 : f[j] = w[j]
      /\ g \in Bytes /\ Len(g) = k - 1 - Len(p) /\ \A j \in 1 .. k - 1 - Len(p) : g[j] = w[Len(p) + j]
  BY <1>1, <1>5 DEF Bytes
<1>7. b \in Bytes
  BY <1>4 DEF Bytes
<1> HIDE DEF f, g, b
<1> DEFINE h == p \o g
<1>8. /\ h \in Bytes /\ Len(h) = Len(p) + Len(g)
      /\ \A j \in 1 .. Len(p) : h[j] = p[j]
      /\ \A j \in 1 .. Len(g) : h[Len(p) + j] = g[j]
  BY <1>6, Concatenation
<1> HIDE DEF h
<1>9. Len(h) = k - 1
  BY <1>1, <1>5, <1>6, <1>8
<1>10. ASSUME NEW j \in 1 .. k - 1 PROVE f[j] = h[j]
  <2>1. CASE j <= Len(p)
    BY <2>1, <1>1, <1>5, <1>6, <1>8
  <2>2. CASE j > Len(p)
    <3> DEFINE m == j - Len(p)
    <3>1. m \in 1 .. k - 1 - Len(p) /\ j = Len(p) + m
      BY <2>2, <1>1, <1>5
    <3> HIDE DEF m
    <3>2. h[Len(p) + m] = g[m] /\ g[m] = w[Len(p) + m]
      BY <3>1, <1>6, <1>8
    <3> QED
      BY <3>1, <3>2, <1>6
  <2> QED
    BY <2>1, <2>2, <1>1, <1>5
<1>11. f = h
  BY <1>6, <1>8, <1>9, <1>10, SameBytes
<1>12. PrefixEnd(Cat(p, e)) = Cat(Cat(p, g), b)
  BY <1>4, <1>11 DEF f, h, b, w, Cat
<1>13. Cat(Cat(p, g), b) = Cat(p, Cat(g, b)) /\ Cat(g, b) \in Bytes
  BY <1>6, <1>7, CatFacts
<1> QED
  BY <1>12, <1>13

\* A key in front of the end of a prefix is not behind the prefix.
LEMMA NotBehindEnd ==
  ASSUME NEW key \in Bytes, NEW p \in Bytes, NEW i \in 1 .. Len(p), p[i] # LastByte,
         BytesBefore(key, PrefixEnd(p))
  PROVE  ~Splits(p, key)
<1> SUFFICES ASSUME Splits(p, key) PROVE FALSE
  OBVIOUS
<1>1. PICK k \in i .. Len(p) : /\ p[k] + 1 \in Byte
                               /\ \A j \in k + 1 .. Len(p) : p[j] = LastByte
                               /\ PrefixEnd(p) = Cat(SubSeq(p, 1, k - 1), <<p[k] + 1>>)
  BY PrefixEndIs
<1>2. PICK m \in DOMAIN p \cap DOMAIN key : p[m] < key[m] /\ \A j \in 1 .. m - 1 : p[j] = key[j]
  BY DEF Splits
<1>3. /\ Len(p) \in Nat /\ Len(key) \in Nat /\ k \in Nat /\ m \in Nat
      /\ m >= 1 /\ m <= Len(p) /\ m <= Len(key) /\ k >= 1 /\ k <= Len(p)
      /\ \A j \in 1 .. Len(p) : p[j] \in Nat
      /\ \A j \in 1 .. Len(key) : key[j] \in Nat /\ key[j] <= LastByte
  <2>1. /\ Len(p) \in Nat /\ Len(key) \in Nat /\ DOMAIN p = 1 .. Len(p) /\ DOMAIN key = 1 .. Len(key)
        /\ \A j \in 1 .. Len(p) : p[j] \in Byte
        /\ \A j \in 1 .. Len(key) : key[j] \in Byte
    BY DEF Bytes
  <2>2. k \in Nat /\ k >= 1 /\ k <= Len(p)
    BY <2>1
  <2>3. m \in Nat /\ m >= 1 /\ m <= Len(p) /\ m <= Len(key)
    BY <2>1
  <2> QED
    BY <2>1, <2>2, <2>3, ByteRange
<1>4. m <= k
  <2> SUFFICES ASSUME m > k PROVE FALSE
    BY <1>3
  <2>1. p[m] = LastByte
    BY <1>1, <1>3
  <2> QED
    BY <2>1, <1>2, <1>3, ByteRange
<1> DEFINE f == SubSeq(p, 1, k - 1)
           b == <<p[k] + 1>>
<1>5. /\ f \in Bytes /\ Len(f) = k - 1 /\ \A j \in 1 .. k - 1 : f[j] = p[j]
      /\ b \in Bytes /\ Len(b) = 1 /\ b[1] = p[k] + 1
  BY <1>1, <1>3 DEF Bytes
<1> HIDE DEF f, b
<1> DEFINE e == f \o b
<1>6. /\ e \in Bytes /\ Len(e) = Len(f) + Len(b)
      /\ \A j \in 1 .. Len(f) : e[j] = f[j]
      /\ \A j \in 1 .. Len(b) : e[Len(f) + j] = b[j]
  BY <1>5, Concatenation
<1>7. BytesBefore(key, e)
  BY <1>1 DEF Cat, f, b
<1> HIDE DEF e
<1>8. Len(e) = k /\ e[k] = p[k] + 1 /\ \A j \in 1 .. k - 1 : e[j] = p[j]
  <2>1. Len(e) = k
    BY <1>3, <1>5, <1>6
  <2>2. ASSUME NEW j \in 1 .. k - 1 PROVE e[j] = p[j]
    BY <1>5, <1>6
  <2>3. 1 \in 1 .. Len(b) /\ Len(f) + 1 = k
    BY <1>3, <1>5
  <2>4. e[k] = b[1]
    BY <2>3, <1>6
  <2> QED
    BY <2>1, <2>2, <2>4, <1>5
<1>9. CASE Len(key) < Len(e) /\ key = SubSeq(e, 1, Len(key))
  <2>1. m < k /\ key[m] = e[m]
    BY <1>3, <1>6, <1>8, <1>9 DEF Bytes
  <2>2. e[m] = p[m]
    BY <2>1, <1>3, <1>8
  <2> QED
    BY <2>1, <2>2, <1>2, <1>3
<1>10. CASE Splits(key, e)
  <2> PICK l \in DOMAIN key \cap DOMAIN e : key[l] < e[l] /\ \A j \in 1 .. l - 1 : key[j] = e[j]
    BY <1>10 DEF Splits
  <2>1. l \in Nat /\ l >= 1 /\ l <= k
    BY <1>6, <1>8 DEF Bytes
  <2>2. CASE l < m
    <3>1. p[l] = key[l] /\ e[l] = p[l] /\ key[l] \in Nat
      BY <2>1, <2>2, <1>2, <1>3, <1>4, <1>8
    <3> QED
      BY <3>1
  <2>3. CASE l = m
    <3>1. e[m] = p[m] \/ e[m] = p[m] + 1
      BY <1>3, <1>4, <1>8
    <3>2. p[m] \in Nat /\ key[m] \in Nat /\ p[m] < key[m] /\ key[m] < e[m]
      BY <2>3, <1>2, <1>3
    <3> QED
      BY <3>1, <3>2
  <2>4. CASE m < l
    <3>1. key[m] = e[m] /\ e[m] = p[m] /\ key[m] \in Nat
      BY <2>1, <2>4, <1>3, <1>4, <1>8
    <3> QED
      BY <3>1, <1>2
  <2> QED
    BY <2>1, <2>2, <2>3, <2>4, <1>3
<1> QED
  BY <1>7, <1>9, <1>10 DEF BytesBefore, Splits

-----------------------------------------------------------------------------
(***************************************************************************)
(* The order of bytes is total, and that of the values of one kind a       *)
(* strict weak order, with NULL in front of them all.                      *)
(***************************************************************************)
LEMMA FirstDifference ==
  ASSUME NEW s \in Bytes, NEW t \in Bytes, NEW n \in Nat, n <= Len(s), n <= Len(t),
         \E i \in 1 .. n : s[i] # t[i]
  PROVE  Splits(s, t) \/ Splits(t, s)
<1>0. /\ Len(s) \in Nat /\ Len(t) \in Nat /\ DOMAIN s = 1 .. Len(s) /\ DOMAIN t = 1 .. Len(t)
      /\ \A i \in 1 .. n : s[i] \in Nat /\ t[i] \in Nat
  BY ByteRange DEF Bytes
<1> DEFINE Apart == {i \in Nat : i \in 1 .. n /\ s[i] # t[i]}
<1>1. PICK i \in Apart : \A j \in Apart : i <= j
  <2>1. Apart # {}
    OBVIOUS
  <2> QED
    BY <2>1, LeastNatural
<1>2. i \in 1 .. n /\ s[i] # t[i]
  OBVIOUS
<1>3. \A j \in 1 .. i - 1 : s[j] = t[j]
  <2>1. \A j \in 1 .. i - 1 : j \notin Apart /\ j \in Nat /\ j \in 1 .. n
    BY <1>1, <1>2
  <2> QED
    BY <2>1
<1> HIDE DEF Apart
<1>4. s[i] < t[i] \/ t[i] < s[i]
  BY <1>0, <1>2
<1>5. i \in DOMAIN s \cap DOMAIN t
  BY <1>0, <1>2
<1> QED
  BY <1>3, <1>4, <1>5 DEF Splits

LEMMA BytesTotal ==
  ASSUME NEW s \in Bytes, NEW t \in Bytes
  PROVE  s = t \/ BytesBefore(s, t) \/ BytesBefore(t, s)
<1>0. Len(s) \in Nat /\ Len(t) \in Nat
  BY DEF Bytes
<1>1. CASE \E n \in Nat : n <= Len(s) /\ n <= Len(t) /\ \E i \in 1 .. n : s[i] # t[i]
  BY <1>1, FirstDifference, SplitsBefore
<1>2. CASE \A n \in Nat : n <= Len(s) /\ n <= Len(t) => \A i \in 1 .. n : s[i] = t[i]
  <2>1. CASE Len(s) = Len(t)
    BY <1>0, <1>2, <2>1, SameBytes
  <2>2. CASE Len(s) < Len(t)
    <3> DEFINE f == SubSeq(t, 1, Len(s))
    <3>1. f \in Bytes /\ Len(f) = Len(s) /\ \A i \in 1 .. Len(s) : f[i] = t[i]
      BY <1>0, <2>2 DEF Bytes
    <3> HIDE DEF f
    <3>2. \A i \in 1 .. Len(s) : s[i] = f[i]
      BY <1>0, <1>2, <2>2, <3>1
    <3>3. s = f
      BY <3>1, <3>2, SameBytes
    <3> QED
      BY <2>2, <3>3 DEF BytesBefore, f
  <2>3. CASE Len(t) < Len(s)
    <3> DEFINE f == SubSeq(s, 1, Len(t))
    <3>1. f \in Bytes /\ Len(f) = Len(t) /\ \A i \in 1 .. Len(t) : f[i] = s[i]
      BY <1>0, <2>3 DEF Bytes
    <3> HIDE DEF f
    <3>2. \A i \in 1 .. Len(t) : t[i] = f[i]
      BY <1>0, <1>2, <2>3, <3>1
    <3>3. t = f
      BY <3>1, <3>2, SameBytes
    <3> QED
      BY <2>3, <3>3 DEF BytesBefore, f
  <2> QED
    BY <1>0, <2>1, <2>2, <2>3
<1> QED
  BY <1>1, <1>2

\* s is a proper prefix of t.
Shortens(s, t) == Len(s) < Len(t) /\ \A i \in 1 .. Len(s) : s[i] = t[i]

LEMMA BeforeIs ==
  ASSUME NEW s \in Bytes, NEW t \in Bytes
  PROVE  BytesBefore(s, t) <=> Shortens(s, t) \/ Splits(s, t)
<1>0. Len(s) \in Nat /\ Len(t) \in Nat
  BY DEF Bytes
<1>1. ASSUME Len(s) < Len(t) PROVE s = SubSeq(t, 1, Len(s)) <=> \A i \in 1 .. Len(s) : s[i] = t[i]
  <2> DEFINE f == SubSeq(t, 1, Len(s))
  <2>1. f \in Bytes /\ Len(f) = Len(s) /\ \A i \in 1 .. Len(s) : f[i] = t[i]
    BY <1>0, <1>1 DEF Bytes
  <2> HIDE DEF f
  <2>2. s = f <=> \A i \in 1 .. Len(s) : s[i] = f[i]
    BY <2>1, SameBytes
  <2>3. (\A i \in 1 .. Len(s) : s[i] = f[i]) <=> \A i \in 1 .. Len(s) : s[i] = t[i]
    BY <2>1
  <2> QED
    BY <2>2, <2>3 DEF f
<1> QED
  BY <1>1 DEF BytesBefore, Shortens, Splits

LEMMA BytesTransitive ==
  ASSUME NEW s \in Bytes, NEW t \in Bytes, NEW u \in Bytes, BytesBefore(s, t), BytesBefore(t, u)
  PROVE  BytesBefore(s, u)
<1>0. /\ Len(s) \in Nat /\ Len(t) \in Nat /\ Len(u) \in Nat
      /\ DOMAIN s = 1 .. Len(s) /\ DOMAIN t = 1 .. Len(t) /\ DOMAIN u = 1 .. Len(u)
      /\ \A i \in 1 .. Len(s) : s[i] \in Nat
      /\ \A i \in 1 .. Len(t) : t[i] \in Nat
      /\ \A i \in 1 .. Len(u) : u[i] \in Nat
  BY ByteRange DEF Bytes
<1>1. (Shortens(s, t) \/ Splits(s, t)) /\ (Shortens(t, u) \/ Splits(t, u))
  BY BeforeIs
<1>2. CASE Shortens(s, t) /\ Shortens(t, u)
  <2>1. Shortens(s, u)
    BY <1>0, <1>2 DEF Shortens
  <2> QED
    BY <2>1, BeforeIs
<1>3. CASE Shortens(s, t) /\ Splits(t, u)
  <2>1. PICK i \in 1 .. Len(t) : i \in 1 .. Len(u) /\ t[i] < u[i] /\ \A j \in 1 .. i - 1 : t[j] = u[j]
    BY <1>0, <1>3 DEF Splits
  <2>2. CASE i <= Len(s)
    <3>1. i \in 1 .. Len(s) /\ s[i] = t[i] /\ \A j \in 1 .. i - 1 : s[j] = u[j]
      BY <1>0, <1>3, <2>1, <2>2 DEF Shortens
    <3>2. i \in DOMAIN s \cap DOMAIN u /\ s[i] < u[i]
      BY <1>0, <2>1, <3>1
    <3>3. Splits(s, u)
      BY <3>1, <3>2 DEF Splits
    <3> QED
      BY <3>3, BeforeIs
  <2>3. CASE Len(s) < i
    <3>1. Len(s) < Len(u) /\ \A j \in 1 .. Len(s) : s[j] = u[j]
      BY <1>0, <1>3, <2>1, <2>3 DEF Shortens
    <3> QED
      BY <3>1, BeforeIs DEF Shortens
  <2> QED
    BY <1>0, <2>1, <2>2, <2>3
<1>4. CASE Splits(s, t) /\ Shortens(t, u)
  <2>1. PICK i \in 1 .. Len(s) : i \in 1 .. Len(t) /\ s[i] < t[i] /\ \A j \in 1 .. i - 1 : s[j] = t[j]
    BY <1>0, <1>4 DEF Splits
  <2>2. i \in 1 .. Len(u) /\ t[i] = u[i] /\ \A j \in 1 .. i - 1 : s[j] = u[j]
    BY <1>0, <1>4, <2>1 DEF Shortens
  <2>3. i \in DOMAIN s \cap DOMAIN u /\ s[i] < u[i]
    BY <1>0, <2>1, <2>2
  <2>4. Splits(s, u)
    BY <2>2, <2>3 DEF Splits
  <2> QED
    BY <2>4, BeforeIs
<1>5. CASE Splits(s, t) /\ Splits(t, u)
  <2>1. PICK i \in 1 .. Len(s) : i \in 1 .. Len(t) /\ s[i] < t[i] /\ \A j \in 1 .. i - 1 : s[j] = t[j]
    BY <1>0, <1>5 DEF Splits
  <2>2. PICK k \in 1 .. Len(t) : k \in 1 .. Len(u) /\ t[k] < u[k] /\ \A j \in 1 .. k - 1 : t[j] = u[j]
    BY <1>0, <1>5 DEF Splits
  <2>3. \E m \in DOMAIN s \cap DOMAIN u : s[m] < u[m] /\ \A j \in 1 .. m - 1 : s[j] = u[j]
    <3>1. CASE i < k
      <4>1. t[i] = u[i] /\ i \in DOMAIN s \cap DOMAIN u
        BY <1>0, <2>1, <2>2, <3>1
      <4>2. \A j \in 1 .. i - 1 : s[j] = u[j]
        BY <1>0, <2>1, <2>2, <3>1
      <4> QED
        BY <2>1, <4>1, <4>2
    <3>2. CASE k <= i
      <4>1. k \in DOMAIN s \cap DOMAIN u
        BY <1>0, <2>1, <2>2, <3>2
      <4>2. \A j \in 1 .. k - 1 : s[j] = u[j]
        BY <1>0, <2>1, <2>2, <3>2
      <4>3. s[k] = t[k] \/ (k = i /\ s[k] < t[k])
        BY <1>0, <2>1, <2>2, <3>2
      <4>4. s[k] \in Nat /\ t[k] \in Nat /\ u[k] \in Nat
        BY <1>0, <2>2, <4>1
      <4>5. s[k] < u[k]
        BY <2>2, <4>3, <4>4
      <4> QED
        BY <4>1, <4>2, <4>5
    <3> QED
      BY <1>0, <3>1, <3>2
  <2> QED
    BY <2>3, BeforeIs DEF Splits
<1> QED
  BY <1>1, <1>2, <1>3, <1>4, <1>5

LEMMA BytesIrreflexive == \A s \in Bytes : ~BytesBefore(s, s)
<1> SUFFICES ASSUME NEW s \in Bytes, BytesBefore(s, s) PROVE FALSE
  OBVIOUS
<1>1. Len(s) \in Nat /\ \A i \in DOMAIN s : s[i] \in Nat
  BY ByteRange DEF Bytes
<1> QED
  BY <1>1 DEF BytesBefore

LEMMA BytesWeakOrder ==
  ASSUME NEW s \in Bytes, NEW t \in Bytes, NEW u \in Bytes
  PROVE  /\ BytesBefore(s, t) => ~BytesBefore(t, s)
         /\ BytesBefore(s, u) => BytesBefore(s, t) \/ BytesBefore(t, u)
<1>1. BytesBefore(s, t) => ~BytesBefore(t, s)
  BY BytesTransitive, BytesIrreflexive
<1>2. ASSUME BytesBefore(s, u) PROVE BytesBefore(s, t) \/ BytesBefore(t, u)
  <2>1. CASE t = s
    BY <1>2, <2>1
  <2>2. CASE BytesBefore(t, s)
    BY <1>2, <2>2, BytesTransitive
  <2> QED
    BY <2>1, <2>2, BytesTotal
<1> QED
  BY <1>1, <1>2

\* The place of a number of a kind among those of its kind.
Rank(a) == IF a.kind # "FLOAT" THEN a.v ELSE IF IsNaN(a.v) THEN SignBit ELSE Number(a.v)

LEMMA RankOrders ==
  ASSUME NEW kind \in {"BOOL", "INT", "FLOAT"}, NEW a \in ValuesOf(kind), NEW b \in ValuesOf(kind)
  PROVE  Rank(a) \in Int /\ Rank(b) \in Int /\ (Before(a, b) <=> Rank(a) < Rank(b))
<1>1. a.kind = kind /\ b.kind = kind /\ IsValue(a) /\ IsValue(b)
  BY ValuesAreValues
<1>2. CASE kind = "FLOAT"
  <2>1. a.v \in Byte /\ b.v \in Byte
    BY <1>1, <1>2, Encodings
  <2> DEFINE x == a.v
             y == b.v
  <2>2. Before(a, b) <=> FloatBefore(x, y)
    BY <1>1, <1>2 DEF Before, Tag
  <2>3. Rank(a) = (IF IsNaN(x) THEN SignBit ELSE Number(x)) /\ Rank(b) = (IF IsNaN(y) THEN SignBit ELSE Number(y))
    BY <1>1, <1>2 DEF Rank
  <2> HIDE DEF x, y
  <2>4. x \in Byte /\ y \in Byte
    BY <2>1 DEF x, y
  <2>5. /\ x \in Nat /\ x <= 2 * SignBit - 1
        /\ x < SignBit => Number(x) = x
        /\ x >= SignBit => Number(x) = SignBit - x
        /\ IsNaN(x) <=> x = SignBit - 1 \/ x = LastByte
    BY <2>4, FloatParts
  <2>6. /\ y \in Nat /\ y <= 2 * SignBit - 1
        /\ y < SignBit => Number(y) = y
        /\ y >= SignBit => Number(y) = SignBit - y
        /\ IsNaN(y) <=> y = SignBit - 1 \/ y = LastByte
    BY <2>4, FloatParts
  <2>7. Number(x) \in Int /\ (~IsNaN(x) => Number(x) < SignBit)
    BY <2>5, ByteRange
  <2>8. Number(y) \in Int /\ (~IsNaN(y) => Number(y) < SignBit)
    BY <2>6, ByteRange
  <2>9. SignBit \in Int
    BY ByteRange
  <2>10. FloatBefore(x, y) <=> ~IsNaN(x) /\ (IsNaN(y) \/ Number(x) < Number(y))
    BY DEF FloatBefore
  <2> QED
    BY <2>2, <2>3, <2>7, <2>8, <2>9, <2>10
<1>3. CASE kind \in {"BOOL", "INT"}
  <2>1. a.v \in Int /\ b.v \in Int
    BY <1>1, <1>3, Encodings, ByteRange
  <2>2. Before(a, b) <=> a.v < b.v
    <3>1. a.kind = kind /\ b.kind = kind /\ Tag[kind] \in Int
      BY <1>1, <1>3 DEF Tag
    <3>2. ~(Tag[a.kind] < Tag[b.kind])
      BY <3>1
    <3>3. a.kind = b.kind /\ a.kind \in {"NULL", "BOOL", "INT"}
      BY <1>3, <3>1
    <3> QED
      BY <3>2, <3>3 DEF Before
  <2> QED
    BY <1>1, <1>3, <2>1, <2>2 DEF Rank
<1> QED
  BY <1>2, <1>3

LEMMA NullIsFirst ==
  ASSUME NEW kind \in {"BOOL", "INT", "FLOAT", "TEXT"}, NEW a \in ValuesOf(kind)
  PROVE  Before(Null, a) /\ ~Before(a, Null) /\ ~Before(Null, Null) /\ a # Null
<1>1. a.kind = kind
  BY ValuesAreValues
<1>2. Null.kind = "NULL" /\ Null.v = 0
  BY DEF Null, Value
<1> HIDE DEF Null
<1>3. Tag["NULL"] = 0 /\ Tag[kind] \in {1, 2, 3, 4} /\ kind # "NULL"
  BY DEF Tag
<1>4. Before(Null, a)
  BY <1>1, <1>2, <1>3 DEF Before
<1>5. ~Before(a, Null)
  <2>1. ~(Tag[a.kind] < Tag[Null.kind]) /\ a.kind # Null.kind
    BY <1>1, <1>2, <1>3
  <2> QED
    BY <2>1 DEF Before
<1>6. ~Before(Null, Null)
  <2>1. ~(Tag[Null.kind] < Tag[Null.kind]) /\ ~(Null.v < Null.v) /\ Null.kind \in {"NULL", "BOOL", "INT"}
    BY <1>2, <1>3
  <2> QED
    BY <2>1 DEF Before
<1> QED
  BY <1>1, <1>2, <1>3, <1>4, <1>5, <1>6

LEMMA KindWeakOrder ==
  ASSUME NEW kind \in {"BOOL", "INT", "FLOAT", "TEXT"}, NEW a \in ValuesOf(kind),
         NEW b \in ValuesOf(kind), NEW c \in ValuesOf(kind)
  PROVE  /\ Before(a, b) => ~Before(b, a)
         /\ Before(a, c) => Before(a, b) \/ Before(b, c)
<1>1. CASE kind = "TEXT"
  <2>1. /\ a.kind = "TEXT" /\ b.kind = "TEXT" /\ c.kind = "TEXT"
        /\ IsValue(a) /\ IsValue(b) /\ IsValue(c)
    BY <1>1, ValuesAreValues
  <2>2. a.v \in Bytes /\ b.v \in Bytes /\ c.v \in Bytes
    BY <2>1, Encodings
  <2>3. \A x, y : x.kind = "TEXT" /\ y.kind = "TEXT" => (Before(x, y) <=> BytesBefore(x.v, y.v))
    BY DEF Before, Tag
  <2> QED
    BY <2>1, <2>2, <2>3, BytesWeakOrder
<1>2. CASE kind # "TEXT"
  <2>1. /\ Before(a, b) <=> Rank(a) < Rank(b)
        /\ Before(b, a) <=> Rank(b) < Rank(a)
        /\ Before(a, c) <=> Rank(a) < Rank(c)
        /\ Before(b, c) <=> Rank(b) < Rank(c)
        /\ Rank(a) \in Int /\ Rank(b) \in Int /\ Rank(c) \in Int
    BY <1>2, RankOrders
  <2> QED
    BY <2>1
<1> QED
  BY <1>1, <1>2

\* types.Order on a column (types/value.go:236-290).
LEMMA WeakOrder ==
  ASSUME NEW kind \in {"BOOL", "INT", "FLOAT", "TEXT"}, NEW a \in ValuesOf(kind) \cup {Null},
         NEW b \in ValuesOf(kind) \cup {Null}, NEW c \in ValuesOf(kind) \cup {Null}
  PROVE  /\ Before(a, b) => ~Before(b, a)
         /\ Before(a, c) => Before(a, b) \/ Before(b, c)
<1>1. \A x \in ValuesOf(kind) : Before(Null, x) /\ ~Before(x, Null)
  BY NullIsFirst
<1>2. ~Before(Null, Null)
  <2>1. Value("BOOL", 0) \in ValuesOf("BOOL")
    BY DEF ValuesOf
  <2> QED
    BY <2>1, NullIsFirst
<1> HIDE DEF Null
<1>3. Before(a, b) => ~Before(b, a)
  <2>1. CASE a = Null \/ b = Null
    BY <1>1, <1>2, <2>1
  <2>2. CASE a # Null /\ b # Null
    BY <2>2, KindWeakOrder
  <2> QED
    BY <2>1, <2>2
<1>4. Before(a, c) => Before(a, b) \/ Before(b, c)
  <2>1. CASE a = Null \/ b = Null \/ c = Null
    BY <1>1, <1>2, <2>1
  <2>2. CASE a # Null /\ b # Null /\ c # Null
    BY <2>2, KindWeakOrder
  <2> QED
    BY <2>1, <2>2
<1> QED
  BY <1>3, <1>4

-----------------------------------------------------------------------------
(***************************************************************************)
(* A key against the ends of a range.                                      *)
(***************************************************************************)
LEMMA CatBytes ==
  ASSUME NEW p \in Bytes, NEW x \in Bytes
  PROVE  /\ Cat(p, x) \in Bytes /\ Len(Cat(p, x)) = Len(p) + Len(x)
         /\ Len(p) \in Nat /\ Len(x) \in Nat
         /\ \A j \in 1 .. Len(p) : Cat(p, x)[j] = p[j]
<1>1. Len(p) \in Nat /\ Len(x) \in Nat
  BY DEF Bytes
<1> QED
  BY <1>1, Concatenation DEF Cat

\* A key that begins with a prefix, or is in front of it, is in front of the
\* end of the prefix.
LEMMA BeforeEnd ==
  ASSUME NEW key \in Bytes, NEW p \in Bytes, NEW i \in 1 .. Len(p), p[i] # LastByte,
         (Len(p) <= Len(key) /\ \A j \in 1 .. Len(p) : key[j] = p[j]) \/ Splits(key, p)
  PROVE  BytesBefore(key, PrefixEnd(p))
<1>1. PICK k \in i .. Len(p) : /\ p[k] + 1 \in Byte
                               /\ PrefixEnd(p) = Cat(SubSeq(p, 1, k - 1), <<p[k] + 1>>)
  BY PrefixEndIs
<1>2. /\ Len(p) \in Nat /\ Len(key) \in Nat /\ k \in Nat /\ k >= 1 /\ k <= Len(p)
      /\ DOMAIN p = 1 .. Len(p) /\ DOMAIN key = 1 .. Len(key)
      /\ \A j \in 1 .. Len(p) : p[j] \in Nat
      /\ \A j \in 1 .. Len(key) : key[j] \in Nat
  BY <1>1, ByteRange DEF Bytes
<1> DEFINE f == SubSeq(p, 1, k - 1)
           b == <<p[k] + 1>>
<1>3. /\ f \in Bytes /\ Len(f) = k - 1 /\ \A j \in 1 .. k - 1 : f[j] = p[j]
      /\ b \in Bytes /\ Len(b) = 1 /\ b[1] = p[k] + 1
  BY <1>1, <1>2 DEF Bytes
<1>4. PrefixEnd(p) = Cat(f, b)
  BY <1>1
<1> HIDE DEF f, b
<1> DEFINE e == f \o b
<1>5. /\ e \in Bytes /\ Len(e) = Len(f) + Len(b)
      /\ \A j \in 1 .. Len(f) : e[j] = f[j]
      /\ \A j \in 1 .. Len(b) : e[Len(f) + j] = b[j]
  BY <1>3, Concatenation
<1>6. PrefixEnd(p) = e
  BY <1>4 DEF Cat
<1> HIDE DEF e
<1>7. Len(e) = k /\ e[k] = p[k] + 1 /\ \A j \in 1 .. k - 1 : e[j] = p[j]
  <2>1. Len(e) = k
    BY <1>2, <1>3, <1>5
  <2>2. ASSUME NEW j \in 1 .. k - 1 PROVE e[j] = p[j]
    BY <1>3, <1>5
  <2>3. 1 \in 1 .. Len(b) /\ Len(f) + 1 = k
    BY <1>2, <1>3
  <2>4. e[k] = b[1]
    BY <2>3, <1>5
  <2> QED
    BY <2>1, <2>2, <2>4, <1>3
<1>8. DOMAIN e = 1 .. k
  <2>1. DOMAIN e = 1 .. Len(e)
    BY <1>5 DEF Bytes
  <2> QED
    BY <2>1, <1>7
<1>9. Splits(key, e)
  <2>1. CASE Len(p) <= Len(key) /\ \A j \in 1 .. Len(p) : key[j] = p[j]
    <3>1. k \in DOMAIN key \cap DOMAIN e /\ key[k] < e[k]
      BY <1>2, <1>7, <1>8, <2>1
    <3>2. \A j \in 1 .. k - 1 : key[j] = e[j]
      BY <1>2, <1>7, <2>1
    <3> QED
      BY <3>1, <3>2 DEF Splits
  <2>2. CASE Splits(key, p)
    <3>1. PICK m \in 1 .. Len(key) : m \in 1 .. Len(p) /\ key[m] < p[m] /\ \A j \in 1 .. m - 1 : key[j] = p[j]
      BY <1>2, <2>2 DEF Splits
    <3>2. CASE m < k
      <4>1. m \in DOMAIN key \cap DOMAIN e /\ key[m] < e[m]
        BY <1>2, <1>7, <1>8, <3>1, <3>2
      <4>2. \A j \in 1 .. m - 1 : key[j] = e[j]
        BY <1>2, <1>7, <3>1, <3>2
      <4> QED
        BY <4>1, <4>2 DEF Splits
    <3>3. CASE k <= m
      <4>1. key[k] <= p[k] /\ k \in 1 .. Len(key)
        BY <1>2, <3>1, <3>3
      <4>2. k \in DOMAIN key \cap DOMAIN e /\ key[k] < e[k]
        BY <1>2, <1>7, <1>8, <4>1
      <4>3. \A j \in 1 .. k - 1 : key[j] = e[j]
        BY <1>2, <1>7, <3>1, <3>3
      <4> QED
        BY <4>2, <4>3 DEF Splits
    <3> QED
      BY <1>2, <3>1, <3>2, <3>3
  <2> QED
    BY <2>1, <2>2
<1> QED
  BY <1>6, <1>9, SplitsBefore

\* What follows a prefix is not in front of it, and is in front of its end.
LEMMA ExtensionOf ==
  ASSUME NEW p \in Bytes, NEW x \in Bytes
  PROVE  /\ ~BytesBefore(Cat(p, x), p)
         /\ (\E i \in 1 .. Len(p) : p[i] # LastByte) => BytesBefore(Cat(p, x), PrefixEnd(p))
<1> DEFINE key == Cat(p, x)
<1>1. /\ key \in Bytes /\ Len(key) = Len(p) + Len(x) /\ Len(p) \in Nat /\ Len(x) \in Nat
      /\ \A j \in 1 .. Len(p) : key[j] = p[j]
      /\ \A j \in 1 .. Len(p) : p[j] \in Nat
      /\ DOMAIN p = 1 .. Len(p)
  <2>1. DOMAIN p = 1 .. Len(p) /\ \A j \in 1 .. Len(p) : p[j] \in Byte
    BY DEF Bytes
  <2>2. \A j \in 1 .. Len(p) : p[j] \in Nat
    BY <2>1, ByteRange
  <2> QED
    BY <2>1, <2>2, CatBytes
<1> HIDE DEF key
<1>2. Len(p) <= Len(key) /\ ~Shortens(key, p)
  BY <1>1 DEF Shortens
<1>3. ~Splits(key, p)
  BY <1>1 DEF Splits
<1>4. ~BytesBefore(key, p)
  BY <1>1, <1>2, <1>3, BeforeIs
<1>5. ASSUME NEW i \in 1 .. Len(p), p[i] # LastByte PROVE BytesBefore(key, PrefixEnd(p))
  BY <1>1, <1>2, <1>5, BeforeEnd
<1> QED
  BY <1>4, <1>5 DEF key

\* Values of a kind other than FLOAT that are equal are the same.
LEMMA TiedIsSame ==
  ASSUME NEW kind \in {"BOOL", "INT", "TEXT"},
         NEW v \in ValuesOf(kind) \cup {Null}, NEW b \in ValuesOf(kind) \cup {Null},
         Equal(v, b)
  PROVE  v = b
<1>1. ~Before(v, b) /\ ~Before(b, v)
  BY DEF Equal
<1>2. (v = Null /\ b = Null) \/ (v \in ValuesOf(kind) /\ b \in ValuesOf(kind))
  BY <1>1, NullIsFirst
<1>3. ASSUME v \in ValuesOf(kind), b \in ValuesOf(kind) PROVE v = b
  <2>1. v.kind = kind /\ b.kind = kind /\ IsValue(v) /\ IsValue(b)
    BY <1>3, ValuesAreValues DEF IsValue
  <2>2. v.v = b.v
    <3>1. CASE kind = "TEXT"
      <4>1. v.v \in Bytes /\ b.v \in Bytes
        BY <2>1, <1>3, <3>1, Encodings
      <4>2. ~BytesBefore(v.v, b.v) /\ ~BytesBefore(b.v, v.v)
        BY <1>1, <2>1, <3>1 DEF Before, Tag
      <4> QED
        BY <4>1, <4>2, BytesTotal
    <3>2. CASE kind \in {"BOOL", "INT"}
      <4>1. /\ Rank(v) \in Int /\ Rank(b) \in Int
            /\ Before(v, b) <=> Rank(v) < Rank(b)
            /\ Before(b, v) <=> Rank(b) < Rank(v)
        BY <1>3, <3>2, RankOrders
      <4>2. Rank(v) = v.v /\ Rank(b) = b.v
        BY <2>1, <3>2 DEF Rank
      <4> QED
        BY <1>1, <4>1, <4>2
    <3> QED
      BY <3>1, <3>2
  <2>3. v = Value(kind, v.v) /\ b = Value(kind, b.v)
    BY <1>3 DEF ValuesOf, Value
  <2> QED
    BY <2>2, <2>3
<1> QED
  BY <1>2, <1>3

LEMMA ValueAgainstBound ==
  ASSUME NEW kind \in {"BOOL", "INT", "FLOAT", "TEXT"},
         NEW v \in ValuesOf(kind) \cup {Null}, NEW b \in ValuesOf(kind),
         v # NegativeNaN, b # NegativeNaN
  PROVE  /\ IsValue(v) /\ IsValue(b)
         /\ Before(v, b) => Splits(Encode(v), Encode(b))
         /\ Before(b, v) => Splits(Encode(b), Encode(v))
<1>1. IsValue(v) /\ IsValue(b)
  BY ValuesAreValues DEF IsValue
<1> QED
  BY <1>1, EncodeInOrder

\* A key lies before a bound, or before what begins with it, as its value does,
\* unless the two are equal and encoded apart.
LEMMA KeyAgainstBound ==
  ASSUME NEW kind \in {"BOOL", "INT", "FLOAT", "TEXT"},
         NEW v \in ValuesOf(kind) \cup {Null}, NEW b \in ValuesOf(kind),
         v # NegativeNaN, b # NegativeNaN, Equal(v, b) => v = b,
         NEW p \in Bytes, NEW rest \in Bytes
  PROVE  /\ BytesBefore(Cat(p, Cat(Encode(v), rest)), Cat(p, Encode(b))) <=> Before(v, b)
         /\ BytesBefore(Cat(p, Cat(Encode(v), rest)), PrefixEnd(Cat(p, Encode(b)))) <=> ~Before(b, v)
<1>1. /\ IsValue(v) /\ IsValue(b)
      /\ Before(v, b) => Splits(Encode(v), Encode(b))
      /\ Before(b, v) => Splits(Encode(b), Encode(v))
      /\ ~Before(v, b) /\ ~Before(b, v) => v = b
  BY ValueAgainstBound DEF Equal
<1>2. Before(v, b) => ~Before(b, v)
  BY WeakOrder
<1> DEFINE d == Encode(v)
           e == Encode(b)
<1>3. d \in Bytes /\ e \in Bytes /\ Len(e) >= 1 /\ e[1] \in 0 .. 4
  BY <1>1, EncodeType
<1>4. /\ Before(v, b) => Splits(d, e)
      /\ Before(b, v) => Splits(e, d)
      /\ ~Before(v, b) /\ ~Before(b, v) => d = e
  BY <1>1
<1> HIDE DEF d, e
<1> DEFINE w == Cat(p, e)
           key == Cat(p, Cat(d, rest))
<1>5. w \in Bytes /\ key \in Bytes
  BY <1>3, CatFacts
<1>6. \E i \in 1 .. Len(w) : w[i] # LastByte
  <2> DEFINE z == p \o e
             i == Len(p) + 1
  <2>1. /\ Len(z) = Len(p) + Len(e) /\ Len(p) \in Nat /\ Len(e) \in Nat
        /\ \A j \in 1 .. Len(e) : z[Len(p) + j] = e[j]
    BY <1>3, Concatenation DEF Bytes
  <2> HIDE DEF z
  <2>2. i \in 1 .. Len(z) /\ 1 \in 1 .. Len(e)
    BY <1>3, <2>1
  <2>3. z[i] = e[1]
    BY <2>1, <2>2
  <2>4. e[1] # LastByte
    BY <1>3, ByteRange
  <2>5. w = z
    BY DEF z, Cat
  <2> HIDE DEF w, i
  <2> QED
    BY <2>2, <2>3, <2>4, <2>5
<1>7. CASE Before(v, b)
  <2>1. Splits(Cat(p, Cat(d, rest)), Cat(p, Cat(e, <<>>)))
    BY <1>3, <1>4, <1>7, SplitsInside, CatFacts
  <2>2. Cat(e, <<>>) = e
    BY <1>3, CatFacts
  <2>3. Splits(key, w)
    BY <2>1, <2>2
  <2> HIDE DEF w, key
  <2>4. BytesBefore(key, w)
    BY <2>3, SplitsBefore
  <2>5. BytesBefore(key, PrefixEnd(w))
    BY <1>5, <1>6, <2>3, BeforeEnd
  <2> QED
    BY <1>2, <1>7, <2>4, <2>5 DEF w, key, d, e
<1>8. CASE Before(b, v)
  <2>1. Splits(Cat(p, Cat(e, <<>>)), Cat(p, Cat(d, rest)))
    BY <1>3, <1>4, <1>8, SplitsInside, CatFacts
  <2>2. Cat(e, <<>>) = e
    BY <1>3, CatFacts
  <2>3. Splits(w, key)
    BY <2>1, <2>2
  <2> HIDE DEF w, key
  <2>4. ~BytesBefore(key, w)
    <3>1. BytesBefore(w, key)
      BY <2>3, SplitsBefore
    <3> QED
      BY <1>5, <3>1, BytesWeakOrder
  <2>5. ~BytesBefore(key, PrefixEnd(w))
    BY <1>5, <1>6, <2>3, NotBehindEnd
  <2> QED
    BY <1>2, <1>8, <2>4, <2>5 DEF w, key, d, e
<1>9. CASE ~Before(v, b) /\ ~Before(b, v)
  <2>1. key = Cat(w, rest)
    BY <1>3, <1>4, <1>9, CatFacts
  <2> HIDE DEF w, key
  <2>2. ~BytesBefore(key, w) /\ BytesBefore(key, PrefixEnd(w))
    BY <1>5, <1>6, <2>1, ExtensionOf
  <2> QED
    BY <1>9, <2>2 DEF w, key, d, e
<1> QED
  BY <1>7, <1>8, <1>9

-----------------------------------------------------------------------------
(***************************************************************************)
(* Decoding.                                                               *)
(***************************************************************************)
InFront(byte, tail) == IF tail.ok THEN [tail EXCEPT !.value.v = <<byte>> \o @] ELSE tail

\* What reading a TEXT from byte i on comes to, if f says what reading it
\* from a later byte on does.
ReadStep(f, body, i) ==
  IF i > Len(body) THEN Corrupt
  ELSE IF body[i] # EscByte THEN InFront(body[i], f[i + 1])
  ELSE IF i = Len(body) THEN Corrupt
  ELSE IF body[i + 1] = EscTerm
       THEN [value |-> Value("TEXT", <<>>), rest |-> SubSeq(body, i + 2, Len(body)), ok |-> TRUE]
  ELSE IF body[i + 1] = EscLit THEN InFront(EscByte, f[i + 2])
  ELSE Corrupt

Reads(f, body) == f = [i \in 1 .. Len(body) + 1 |-> ReadStep(f, body, i)]

LEMMA StepLooksAhead ==
  ASSUME NEW body \in Bytes, NEW f, NEW g, NEW i \in 1 .. Len(body) + 1,
         \A j \in 1 .. Len(body) + 1 : j > i => f[j] = g[j]
  PROVE  ReadStep(f, body, i) = ReadStep(g, body, i)
<1>1. Len(body) \in Nat
  BY DEF Bytes
<1> DEFINE n == Len(body)
<1>2. n \in Nat /\ i \in 1 .. n + 1 /\ \A j \in 1 .. n + 1 : j > i => f[j] = g[j]
  BY <1>1
<1> HIDE DEF n
<1>3. ~(i > n) => f[i + 1] = g[i + 1]
  <2> SUFFICES ASSUME ~(i > n) PROVE i + 1 \in 1 .. n + 1 /\ i + 1 > i
    BY <1>2
  <2> QED
    BY <1>2
<1>4. ~(i > n) /\ i # n => f[i + 2] = g[i + 2]
  <2> SUFFICES ASSUME ~(i > n), i # n PROVE i + 2 \in 1 .. n + 1 /\ i + 2 > i
    BY <1>2
  <2> QED
    BY <1>2
<1> QED
  BY <1>3, <1>4 DEF ReadStep, n

\* The recursive function of the definition exists.
LEMMA ReadsExist == \A body \in Bytes : \E f : Reads(f, body)
<1> SUFFICES ASSUME NEW body \in Bytes PROVE \E f : Reads(f, body)
  OBVIOUS
<1> DEFINE n == Len(body)
           Fits(f, k) == /\ f = [i \in 1 .. n + 1 |-> f[i]]
                         /\ \A i \in 1 .. n + 1 : i > n + 1 - k => f[i] = ReadStep(f, body, i)
           T == {k \in Nat : \E f : Fits(f, k)}
<1>0. n \in Nat
  BY DEF Bytes
<1>1. 0 \in T
  <2> DEFINE f == [i \in 1 .. n + 1 |-> Corrupt]
  <2> HIDE DEF n
  <2>1. Fits(f, 0)
    <3>1. \A i \in 1 .. n + 1 : ~(i > n + 1 - 0)
      BY <1>0
    <3> QED
      BY <3>1
  <2> QED
    BY <2>1
<1>2. ASSUME NEW k \in Nat, k \in T PROVE k + 1 \in T
  <2> PICK f : Fits(f, k)
    BY <1>2
  <2> DEFINE m == n + 1 - k
  <2>1. m \in Int /\ n + 1 - (k + 1) = m - 1
    BY <1>0
  <2>2. CASE m < 1
    <3>1. \A i \in 1 .. n + 1 : i > n + 1 - k
      BY <1>0, <2>2
    <3>2. Fits(f, k + 1)
      BY <3>1
    <3> QED
      BY <3>2
  <2>3. CASE m >= 1
    <3> DEFINE g == [i \in 1 .. n + 1 |-> IF i = m THEN ReadStep(f, body, m) ELSE f[i]]
    <3>1. m \in 1 .. n + 1 /\ \A i \in 1 .. n + 1 : (i > n + 1 - (k + 1) <=> i = m \/ i > m) /\ (i > m => i # m)
      <4> HIDE DEF m
      <4>1. m <= n + 1
        BY <1>0 DEF m
      <4> QED
        BY <1>0, <2>1, <2>3, <4>1
    <3>2. g = [i \in 1 .. n + 1 |-> g[i]] /\ g[m] = ReadStep(f, body, m)
          /\ \A i \in 1 .. n + 1 : i # m => g[i] = f[i]
      <4> HIDE DEF m, n
      <4> QED
        BY <3>1
    <3>3. \A i \in 1 .. n + 1 : i > m => f[i] = ReadStep(f, body, i)
      OBVIOUS
    <3> HIDE DEF g, m
    <3>4. \A i \in 1 .. n + 1 : i > m => g[i] = f[i]
      BY <3>1, <3>2
    <3>5. ASSUME NEW i \in 1 .. n + 1, i = m \/ i > m PROVE ReadStep(g, body, i) = ReadStep(f, body, i)
      <4>1. \A j \in 1 .. n + 1 : j > i => j > m
        BY <1>0, <2>1, <3>5
      <4> QED
        BY <3>4, <4>1, StepLooksAhead
    <3>6. \A i \in 1 .. n + 1 : i = m \/ i > m => g[i] = ReadStep(g, body, i)
      BY <3>1, <3>2, <3>3, <3>4, <3>5
    <3>7. Fits(g, k + 1)
      BY <3>1, <3>2, <3>6
    <3> QED
      BY <3>7
  <2> QED
    BY <2>1, <2>2, <2>3
<1>3. n + 1 \in T
  <2>1. \A k \in Nat : k \in T
    <3> HIDE DEF T
    <3> QED
      BY <1>1, <1>2, NaturalInduction
  <2> HIDE DEF T
  <2> QED
    BY <1>0, <2>1
<1>4. PICK f : Fits(f, n + 1)
  BY <1>3
<1>5. \A i \in 1 .. n + 1 : i > n + 1 - (n + 1)
  BY <1>0
<1> QED
  BY <1>4, <1>5 DEF Reads

LEMMA DecodeTextIs ==
  ASSUME NEW body \in Bytes
  PROVE  \E f : Reads(f, body) /\ DecodeText(body) = f[1]
<1> DEFINE from[i \in 1 .. Len(body) + 1] ==
             IF i > Len(body) THEN Corrupt
             ELSE IF body[i] # EscByte THEN InFront(body[i], from[i + 1])
             ELSE IF i = Len(body) THEN Corrupt
             ELSE IF body[i + 1] = EscTerm
                  THEN [value |-> Value("TEXT", <<>>), rest |-> SubSeq(body, i + 2, Len(body)), ok |-> TRUE]
             ELSE IF body[i + 1] = EscLit THEN InFront(EscByte, from[i + 2])
             ELSE Corrupt
<1>1. from = CHOOSE g : g = [i \in 1 .. Len(body) + 1 |->
             IF i > Len(body) THEN Corrupt
             ELSE IF body[i] # EscByte THEN InFront(body[i], g[i + 1])
             ELSE IF i = Len(body) THEN Corrupt
             ELSE IF body[i + 1] = EscTerm
                  THEN [value |-> Value("TEXT", <<>>), rest |-> SubSeq(body, i + 2, Len(body)), ok |-> TRUE]
             ELSE IF body[i + 1] = EscLit THEN InFront(EscByte, g[i + 2])
             ELSE Corrupt]
  OBVIOUS
<1>2. \E g : g = [i \in 1 .. Len(body) + 1 |->
             IF i > Len(body) THEN Corrupt
             ELSE IF body[i] # EscByte THEN InFront(body[i], g[i + 1])
             ELSE IF i = Len(body) THEN Corrupt
             ELSE IF body[i + 1] = EscTerm
                  THEN [value |-> Value("TEXT", <<>>), rest |-> SubSeq(body, i + 2, Len(body)), ok |-> TRUE]
             ELSE IF body[i + 1] = EscLit THEN InFront(EscByte, g[i + 2])
             ELSE Corrupt]
  BY ReadsExist DEF Reads, ReadStep
<1>3. DecodeText(body) = from[1]
  BY DEF DecodeText, InFront
<1>4. from = [i \in 1 .. Len(body) + 1 |->
             IF i > Len(body) THEN Corrupt
             ELSE IF body[i] # EscByte THEN InFront(body[i], from[i + 1])
             ELSE IF i = Len(body) THEN Corrupt
             ELSE IF body[i + 1] = EscTerm
                  THEN [value |-> Value("TEXT", <<>>), rest |-> SubSeq(body, i + 2, Len(body)), ok |-> TRUE]
             ELSE IF body[i + 1] = EscLit THEN InFront(EscByte, from[i + 2])
             ELSE Corrupt]
  BY <1>1, <1>2
<1> HIDE DEF from
<1>5. Reads(from, body)
  BY <1>4 DEF Reads, ReadStep
<1> QED
  BY <1>3, <1>5

LEMMA TailOfCat ==
  ASSUME NEW p \in Bytes, NEW x \in Bytes
  PROVE  SubSeq(Cat(p, x), Len(p) + 1, Len(Cat(p, x))) = x
<1> DEFINE w == p \o x
           t == SubSeq(w, Len(p) + 1, Len(w))
<1>1. /\ w \in Bytes /\ Len(w) = Len(p) + Len(x) /\ Len(p) \in Nat /\ Len(x) \in Nat
      /\ \A i \in 1 .. Len(x) : w[Len(p) + i] = x[i]
  BY Concatenation DEF Bytes
<1> HIDE DEF w
<1>2. Len(t) = Len(x) /\ t \in Bytes /\ \A i \in 1 .. Len(x) : t[i] = w[Len(p) + i]
  <2>1. Len(t) = Len(x)
    BY <1>1
  <2>2. t \in Bytes
    BY <1>1 DEF Bytes
  <2>3. \A i \in 1 .. Len(x) : t[i] = w[Len(p) + i]
    <3> SUFFICES ASSUME NEW i \in 1 .. Len(x) PROVE t[i] = w[Len(p) + i]
      OBVIOUS
    <3>1. Len(p) + 1 + i - 1 = Len(p) + i
      BY <1>1
    <3> QED
      BY <1>1, <2>1, <3>1 DEF Bytes
  <2> QED
    BY <2>1, <2>2, <2>3
<1> HIDE DEF t
<1>3. t = x
  BY <1>1, <1>2, SameBytes
<1> QED
  BY <1>3 DEF t, w, Cat

\* The bytes of the second of two sequences.
LEMMA InsideCat ==
  ASSUME NEW p \in Bytes, NEW x \in Bytes
  PROVE  /\ Cat(p, x) \in Bytes /\ Len(Cat(p, x)) = Len(p) + Len(x)
         /\ Len(p) \in Nat /\ Len(x) \in Nat
         /\ \A i \in 1 .. Len(p) : Cat(p, x)[i] = p[i]
         /\ \A i \in 1 .. Len(x) : Cat(p, x)[Len(p) + i] = x[i]
<1>1. Len(p) \in Nat /\ Len(x) \in Nat
  BY DEF Bytes
<1> QED
  BY <1>1, Concatenation DEF Cat

\* Reading at the end of the escape of a text.
LEMMA ReadEnd ==
  ASSUME NEW p \in Bytes, NEW rest \in Bytes, NEW f,
         Reads(f, Cat(p, Cat(EscapeEnd, rest)))
  PROVE  f[Len(p) + 1] = [value |-> Value("TEXT", <<>>), rest |-> rest, ok |-> TRUE]
<1> DEFINE e == Cat(EscapeEnd, rest)
           body == Cat(p, e)
           i == Len(p) + 1
<1>0. EscapeEnd \in Bytes /\ Len(EscapeEnd) = 2
  BY EscapeEndType
<1>1. /\ e \in Bytes /\ Len(e) = 2 + Len(rest) /\ Len(rest) \in Nat /\ e[1] = 0 /\ e[2] = 1
      /\ body = Cat(Cat(p, EscapeEnd), rest)
  <2>1. /\ e \in Bytes /\ Len(e) = 2 + Len(rest) /\ Len(rest) \in Nat
        /\ \A j \in 1 .. 2 : e[j] = EscapeEnd[j]
    <3>1. /\ e \in Bytes /\ Len(e) = Len(EscapeEnd) + Len(rest) /\ Len(rest) \in Nat
          /\ \A j \in 1 .. Len(EscapeEnd) : e[j] = EscapeEnd[j]
      BY <1>0, InsideCat
    <3> HIDE DEF e
    <3> QED
      BY <1>0, <3>1
  <2>2. body = Cat(Cat(p, EscapeEnd), rest)
    BY EscapeEndType, CatFacts
  <2> HIDE DEF e
  <2> QED
    BY <2>1, <2>2, EscapeEndType
<1>2. Len(Cat(p, EscapeEnd)) = Len(p) + 2 /\ Cat(p, EscapeEnd) \in Bytes
  <2>1. Len(Cat(p, EscapeEnd)) = Len(p) + Len(EscapeEnd) /\ Cat(p, EscapeEnd) \in Bytes
    BY <1>0, InsideCat
  <2> QED
    BY <1>0, <2>1
<1> HIDE DEF e
<1>3. /\ body \in Bytes /\ Len(body) = Len(p) + Len(e) /\ Len(p) \in Nat
      /\ \A j \in 1 .. Len(e) : body[Len(p) + j] = e[j]
  BY <1>1, InsideCat
<1>4. SubSeq(body, Len(p) + 3, Len(body)) = rest
  <2>1. SubSeq(Cat(Cat(p, EscapeEnd), rest), Len(Cat(p, EscapeEnd)) + 1, Len(Cat(Cat(p, EscapeEnd), rest))) = rest
    BY <1>2, TailOfCat
  <2>2. Len(Cat(p, EscapeEnd)) + 1 = Len(p) + 3
    BY <1>2, <1>3
  <2> QED
    BY <1>1, <2>1, <2>2
<1> HIDE DEF body
<1>5. /\ i \in 1 .. Len(body) + 1 /\ ~(i > Len(body)) /\ i # Len(body)
      /\ i + 1 = Len(p) + 2 /\ i + 2 = Len(p) + 3 /\ 1 \in 1 .. Len(e) /\ 2 \in 1 .. Len(e)
  BY <1>1, <1>3
<1>6. body[i] = 0 /\ body[i + 1] = 1
  BY <1>1, <1>3, <1>5
<1>7. f[i] = ReadStep(f, body, i)
  BY <1>5 DEF Reads, body, e
<1> QED
  BY <1>4, <1>5, <1>6, <1>7 DEF ReadStep, EscByte, EscTerm

\* Reading one escaped byte.
LEMMA ReadUnit ==
  ASSUME NEW p \in Bytes, NEW b \in Byte, NEW x \in Bytes, Len(x) >= 1, NEW f,
         Reads(f, Cat(p, Cat(Unit(b), x)))
  PROVE  f[Len(p) + 1] = InFront(b, f[Len(Cat(p, Unit(b))) + 1])
<1> DEFINE e == Cat(Unit(b), x)
           body == Cat(p, e)
           i == Len(p) + 1
           u == Len(Unit(b))
<1>1. /\ Unit(b) \in Bytes
      /\ (b = 0 /\ u = 2 /\ Unit(b)[1] = 0 /\ Unit(b)[2] = LastByte) \/ (b # 0 /\ u = 1 /\ Unit(b)[1] = b)
  BY UnitType
<1>2. /\ e \in Bytes /\ Len(e) = u + Len(x) /\ Len(x) \in Nat
      /\ \A j \in 1 .. u : e[j] = Unit(b)[j]
  BY <1>1, InsideCat
<1>3. Len(Cat(p, Unit(b))) = Len(p) + u /\ Len(p) \in Nat
  BY <1>1, InsideCat
<1> HIDE DEF e, u
<1>4. /\ body \in Bytes /\ Len(body) = Len(p) + Len(e)
      /\ \A j \in 1 .. Len(e) : body[Len(p) + j] = e[j]
  BY <1>2, InsideCat
<1> HIDE DEF body
<1>5. i \in 1 .. Len(body) + 1 /\ ~(i > Len(body)) /\ (b = 0 => i # Len(body))
  BY <1>1, <1>2, <1>3, <1>4
<1>6. f[i] = ReadStep(f, body, i)
  BY <1>5 DEF Reads, body, e
<1>7. CASE b = 0
  <2>1. /\ u = 2 /\ 1 \in 1 .. Len(e) /\ 2 \in 1 .. Len(e) /\ i + 1 = Len(p) + 2 /\ i + 2 = Len(p) + u + 1
        /\ 1 \in 1 .. u /\ 2 \in 1 .. u
    BY <1>1, <1>2, <1>3, <1>7
  <2>2. body[i] = 0 /\ body[i + 1] = LastByte
    BY <1>1, <1>2, <1>4, <1>7, <2>1
  <2>3. LastByte # 1
    BY ByteRange
  <2> QED
    BY <1>3, <1>5, <1>6, <1>7, <2>1, <2>2, <2>3 DEF ReadStep, EscByte, EscTerm, EscLit
<1>8. CASE b # 0
  <2>1. u = 1 /\ 1 \in 1 .. Len(e) /\ 1 \in 1 .. u /\ i + 1 = Len(p) + u + 1
    BY <1>1, <1>2, <1>3, <1>8
  <2>2. body[i] = b
    BY <1>1, <1>2, <1>4, <1>8, <2>1
  <2> QED
    BY <1>3, <1>5, <1>6, <1>8, <2>1, <2>2 DEF ReadStep, EscByte
<1> QED
  BY <1>7, <1>8

\* What was escaped is read back, up to the end of the escape and no further.
LEMMA ReadBack ==
  ASSUME NEW rest \in Bytes
  PROVE  \A s \in Bytes : \A p \in Bytes : \A f :
            Reads(f, Cat(p, Cat(Escaped(s), Cat(EscapeEnd, rest))))
              => f[Len(p) + 1] = [value |-> Value("TEXT", s), rest |-> rest, ok |-> TRUE]
<1> DEFINE x == Cat(EscapeEnd, rest)
           Good(s) == \A p \in Bytes : \A f :
                         Reads(f, Cat(p, Cat(Escaped(s), x)))
                           => f[Len(p) + 1] = [value |-> Value("TEXT", s), rest |-> rest, ok |-> TRUE]
           T == {n \in Nat : \A s \in Bytes : Len(s) = n => Good(s)}
<1>0. x \in Bytes /\ Len(x) >= 1
  <2>1. EscapeEnd \in Bytes /\ Len(EscapeEnd) = 2
    BY EscapeEndType
  <2>2. x \in Bytes /\ Len(x) = Len(EscapeEnd) + Len(rest) /\ Len(rest) \in Nat
    BY <2>1, InsideCat
  <2> HIDE DEF x
  <2> QED
    BY <2>1, <2>2
<1>1. 0 \in T
  <2> SUFFICES ASSUME NEW s \in Bytes, Len(s) = 0 PROVE Good(s)
    OBVIOUS
  <2>1. s = <<>>
    BY DEF Bytes
  <2>2. Escaped(s) = <<>>
    BY <2>1, EscapedAppend
  <2>3. Cat(Escaped(s), x) = x
    BY <1>0, <2>2, CatFacts
  <2> SUFFICES ASSUME NEW p \in Bytes, NEW f, Reads(f, Cat(p, x))
               PROVE  f[Len(p) + 1] = [value |-> Value("TEXT", <<>>), rest |-> rest, ok |-> TRUE]
    BY <2>1, <2>3
  <2> QED
    BY ReadEnd
<1>2. ASSUME NEW n \in Nat, n \in T PROVE n + 1 \in T
  <2> SUFFICES ASSUME NEW s \in Bytes, Len(s) = n + 1, NEW p \in Bytes, NEW f,
                      Reads(f, Cat(p, Cat(Escaped(s), x)))
               PROVE  f[Len(p) + 1] = [value |-> Value("TEXT", s), rest |-> rest, ok |-> TRUE]
    OBVIOUS
  <2> DEFINE b == s[1]
             r == SubSeq(s, 2, Len(s))
             y == Cat(Escaped(r), x)
             q == Cat(p, Unit(b))
  <2>1. b \in Byte /\ r \in Bytes /\ s = Cat(<<b>>, r) /\ Len(r) = n /\ s = <<b>> \o r
    <3>1. 1 \in 1 .. Len(s)
      OBVIOUS
    <3>2. b \in Byte /\ r \in Bytes /\ Len(r) = n
      BY <3>1 DEF Bytes
    <3>3. s = Cat(SubSeq(s, 1, 1 - 1), Cat(<<b>>, SubSeq(s, 1 + 1, Len(s)))) /\ <<b>> \in Bytes
      BY <3>1, AroundByte
    <3>4. SubSeq(s, 1, 1 - 1) = <<>> /\ 1 + 1 = 2
      BY DEF Bytes
    <3> HIDE DEF b
    <3>5. s = Cat(<<b>>, r)
      <4>1. Cat(<<b>>, r) \in Bytes
        BY <3>2, <3>3, CatFacts
      <4> HIDE DEF r
      <4>2. s = Cat(<<>>, Cat(<<b>>, r))
        BY <3>3, <3>4 DEF r
      <4> QED
        BY <4>1, <4>2, CatFacts
    <3> QED
      BY <3>2, <3>5 DEF Cat
  <2> HIDE DEF b, r
  <2>2. Escaped(s) = Cat(Unit(b), Escaped(r)) /\ Unit(b) \in Bytes /\ Escaped(r) \in Bytes
    <3>1. <<b>> \in Bytes /\ Escaped(<<b>>) = Unit(b) /\ Unit(b) \in Bytes /\ Escaped(r) \in Bytes
      BY <2>1, EscapedCat
    <3>2. Escaped(Cat(<<b>>, r)) = Cat(Escaped(<<b>>), Escaped(r))
      BY <2>1, <3>1, EscapedCat
    <3> QED
      BY <2>1, <3>1, <3>2
  <2>3. /\ Cat(Escaped(s), x) = Cat(Unit(b), y) /\ y \in Bytes /\ q \in Bytes
        /\ Cat(p, Cat(Unit(b), y)) = Cat(q, y)
    <3> DEFINE u == Unit(b)
               e == Escaped(r)
    <3> HIDE DEF u, e, x
    <3>1. u \in Bytes /\ e \in Bytes /\ x \in Bytes
      BY <1>0, <2>2 DEF u, e
    <3>2. Cat(Cat(u, e), x) = Cat(u, Cat(e, x)) /\ Cat(e, x) \in Bytes /\ Cat(p, u) \in Bytes
      BY <3>1, CatFacts
    <3>3. Cat(p, Cat(u, Cat(e, x))) = Cat(Cat(p, u), Cat(e, x))
      BY <3>1, <3>2, CatFacts
    <3> QED
      BY <2>2, <3>2, <3>3 DEF u, e
  <2>4. Len(y) >= 1
    <3>1. Len(y) = Len(Escaped(r)) + Len(x) /\ Len(Escaped(r)) \in Nat /\ Len(x) \in Nat
      BY <1>0, <2>2, InsideCat
    <3> HIDE DEF x, y
    <3> QED
      BY <1>0, <3>1
  <2>5. f[Len(p) + 1] = InFront(b, f[Len(q) + 1])
    <3> HIDE DEF x, y
    <3>1. Reads(f, Cat(p, Cat(Unit(b), y)))
      BY <2>3
    <3> QED
      BY <2>1, <2>3, <2>4, <3>1, ReadUnit
  <2>6. f[Len(q) + 1] = [value |-> Value("TEXT", r), rest |-> rest, ok |-> TRUE]
    <3>1. Reads(f, Cat(q, y))
      BY <2>3
    <3>2. Good(r)
      BY <1>2, <2>1
    <3> HIDE DEF x, q
    <3> QED
      BY <2>3, <3>1, <3>2
  <2>7. InFront(b, [value |-> Value("TEXT", r), rest |-> rest, ok |-> TRUE])
          = [value |-> Value("TEXT", <<b>> \o r), rest |-> rest, ok |-> TRUE]
    BY DEF InFront, Value
  <2> QED
    BY <2>1, <2>5, <2>6, <2>7
<1>3. \A n \in Nat : n \in T
  <2> HIDE DEF T
  <2> QED
    BY <1>1, <1>2, NaturalInduction
<1> SUFFICES ASSUME NEW s \in Bytes PROVE Good(s)
  OBVIOUS
<1>4. Len(s) \in Nat
  BY DEF Bytes
<1> HIDE DEF Good
<1> QED
  BY <1>3, <1>4

LEMMA FrontByte ==
  ASSUME NEW t \in Byte, NEW x \in Bytes
  PROVE  Cat(<<t>>, x) # <<>> /\ Head(Cat(<<t>>, x)) = t /\ Tail(Cat(<<t>>, x)) = x
<1> DEFINE p == <<t>>
           w == Cat(p, x)
<1>1. p \in Bytes /\ Len(p) = 1 /\ p[1] = t
  BY DEF Bytes
<1> HIDE DEF p
<1>2. /\ w \in Bytes /\ Len(w) = 1 + Len(x) /\ Len(x) \in Nat
      /\ \A i \in 1 .. 1 : w[i] = p[i]
  <2>1. /\ w \in Bytes /\ Len(w) = Len(p) + Len(x) /\ Len(x) \in Nat
        /\ \A i \in 1 .. Len(p) : w[i] = p[i]
    BY <1>1, InsideCat
  <2> HIDE DEF w
  <2> QED
    BY <1>1, <2>1
<1>3. SubSeq(w, 1 + 1, Len(w)) = x
  BY <1>1, TailOfCat
<1> HIDE DEF w
<1>4. w # <<>> /\ Head(w) = w[1] /\ w[1] = p[1]
  BY <1>2 DEF Bytes
<1>5. Tail(w) = SubSeq(w, 2, Len(w))
  BY <1>2, <1>4 DEF Bytes
<1> QED
  BY <1>1, <1>3, <1>4, <1>5 DEF w, p

LEMMA TwoFront ==
  ASSUME NEW t \in Byte, NEW y \in Byte, NEW x \in Bytes
  PROVE  Cat(<<t, y>>, x) = Cat(<<t>>, Cat(<<y>>, x)) /\ Cat(<<y>>, x) \in Bytes
<1>1. Cat(<<t>>, <<y>>) = <<t, y>> /\ <<t>> \in Bytes /\ <<y>> \in Bytes
  BY TwoBytes DEF Cat
<1> DEFINE p == <<t>>
           q == <<y>>
<1> HIDE DEF p, q
<1>2. p \in Bytes /\ q \in Bytes
  BY <1>1 DEF p, q
<1>3. Cat(Cat(p, q), x) = Cat(p, Cat(q, x)) /\ Cat(q, x) \in Bytes
  BY <1>2, CatFacts
<1> QED
  BY <1>1, <1>3 DEF p, q

LEMMA DecodeCases ==
  ASSUME NEW bytes, bytes # <<>>, NEW body, body = Tail(bytes)
  PROVE  /\ Head(bytes) = 0 => Decode(bytes) = [value |-> Null, rest |-> body, ok |-> TRUE]
         /\ Head(bytes) = 4 => Decode(bytes) = DecodeText(body)
         /\ Head(bytes) = 1 /\ body # <<>> =>
               Decode(bytes) = [value |-> Value("BOOL", IF Head(body) = 0 THEN 0 ELSE 1), rest |-> Tail(body), ok |-> TRUE]
         /\ Head(bytes) = 2 /\ body # <<>> =>
               Decode(bytes) = [value |-> Value("INT", Head(body) - SignBit), rest |-> Tail(body), ok |-> TRUE]
         /\ Head(bytes) = 3 /\ body # <<>> =>
               Decode(bytes) = [value |-> Value("FLOAT", IF Head(body) >= SignBit THEN Head(body) - SignBit
                                                         ELSE LastByte - Head(body)), rest |-> Tail(body), ok |-> TRUE]
<1> DEFINE a(x) == Value("BOOL", IF Head(x) = 0 THEN 0 ELSE 1)
           b(x) == Value("INT", Head(x) - SignBit)
           c(x) == Value("FLOAT", IF Head(x) >= SignBit THEN Head(x) - SignBit ELSE LastByte - Head(x))
           One(v) == [value |-> v, rest |-> Tail(Tail(bytes)), ok |-> TRUE]
<1>1. Decode(bytes) =
        IF bytes = <<>> THEN Corrupt
        ELSE IF Head(bytes) = Tag.NULL THEN [value |-> Null, rest |-> Tail(bytes), ok |-> TRUE]
        ELSE IF Head(bytes) = Tag.TEXT THEN DecodeText(Tail(bytes))
        ELSE IF Tail(bytes) = <<>> \/ Head(bytes) \notin {Tag.BOOL, Tag.INT, Tag.FLOAT} THEN Corrupt
        ELSE CASE Head(bytes) = Tag.BOOL  -> One(a(Tail(bytes)))
               [] Head(bytes) = Tag.INT   -> One(b(Tail(bytes)))
               [] Head(bytes) = Tag.FLOAT -> One(c(Tail(bytes)))
  BY DEF Decode
<1>2. Tag.NULL = 0 /\ Tag.BOOL = 1 /\ Tag.INT = 2 /\ Tag.FLOAT = 3 /\ Tag.TEXT = 4
  BY DEF Tag
<1> HIDE DEF a, b, c
<1>3. /\ Head(bytes) = 0 => Decode(bytes) = [value |-> Null, rest |-> body, ok |-> TRUE]
      /\ Head(bytes) = 4 => Decode(bytes) = DecodeText(body)
  BY <1>1, <1>2
<1>4. body # <<>> =>
        /\ Head(bytes) = 1 => Decode(bytes) = One(a(body))
        /\ Head(bytes) = 2 => Decode(bytes) = One(b(body))
        /\ Head(bytes) = 3 => Decode(bytes) = One(c(body))
  BY <1>1, <1>2
<1> QED
  BY <1>3, <1>4 DEF a, b, c

\* Decoding gives back the value encoded and the bytes behind it, for every
\* value.
LEMMA DecodeInverts ==
  ASSUME NEW a, IsValue(a), NEW rest \in Bytes
  PROVE  Decode(Cat(Encode(a), rest)) = [value |-> a, rest |-> rest, ok |-> TRUE]
<1> DEFINE bytes == Cat(Encode(a), rest)
<1>0. Tag.NULL = 0 /\ Tag.BOOL = 1 /\ Tag.INT = 2 /\ Tag.FLOAT = 3 /\ Tag.TEXT = 4
  BY DEF Tag
<1>1. CASE a = Null
  <2>1. bytes = Cat(<<0>>, rest)
    BY <1>1, Encodings
  <2>2. bytes # <<>> /\ Head(bytes) = 0 /\ Tail(bytes) = rest
    BY <2>1, SmallBytes, FrontByte
  <2> HIDE DEF bytes
  <2>3. Decode(bytes) = [value |-> Null, rest |-> rest, ok |-> TRUE]
    BY <2>2, DecodeCases
  <2> QED
    BY <1>1, <2>3 DEF bytes
<1>2. ASSUME NEW t \in {1, 2, 3}, NEW y \in Byte, Encode(a) = <<t, y>>
      PROVE  /\ t = 1 => Decode(bytes) = [value |-> Value("BOOL", IF y = 0 THEN 0 ELSE 1), rest |-> rest, ok |-> TRUE]
             /\ t = 2 => Decode(bytes) = [value |-> Value("INT", y - SignBit), rest |-> rest, ok |-> TRUE]
             /\ t = 3 => Decode(bytes) = [value |-> Value("FLOAT", IF y >= SignBit THEN y - SignBit ELSE LastByte - y),
                                          rest |-> rest, ok |-> TRUE]
  <2> DEFINE body == Cat(<<y>>, rest)
  <2>1. t \in Byte
    BY SmallBytes
  <2>2. bytes = Cat(<<t>>, body) /\ body \in Bytes
    BY <1>2, <2>1, TwoFront
  <2>3. body # <<>> /\ Head(body) = y /\ Tail(body) = rest
    BY FrontByte
  <2> HIDE DEF bytes, body
  <2>4. bytes # <<>> /\ Head(bytes) = t /\ Tail(bytes) = body
    BY <2>1, <2>2, FrontByte
  <2>5. ASSUME t = 1 PROVE Decode(bytes) = [value |-> Value("BOOL", IF y = 0 THEN 0 ELSE 1), rest |-> rest, ok |-> TRUE]
    BY <2>3, <2>4, <2>5, DecodeCases
  <2>6. ASSUME t = 2 PROVE Decode(bytes) = [value |-> Value("INT", y - SignBit), rest |-> rest, ok |-> TRUE]
    BY <2>3, <2>4, <2>6, DecodeCases
  <2>7. ASSUME t = 3
        PROVE  Decode(bytes) = [value |-> Value("FLOAT", IF y >= SignBit THEN y - SignBit ELSE LastByte - y),
                                rest |-> rest, ok |-> TRUE]
    BY <2>3, <2>4, <2>7, DecodeCases
  <2> QED
    BY <2>5, <2>6, <2>7
<1>3. ASSUME NEW v \in 0 .. 1, a = Value("BOOL", v) PROVE Decode(bytes) = [value |-> a, rest |-> rest, ok |-> TRUE]
  <2>1. a.kind = "BOOL" /\ a.v = v
    BY <1>3 DEF Value
  <2>2. Encode(a) = <<1, v>> /\ v \in Byte
    BY <2>1, Encodings, SmallBytes
  <2>3. (IF v = 0 THEN 0 ELSE 1) = v
    OBVIOUS
  <2> HIDE DEF bytes
  <2> QED
    BY <1>2, <1>3, <2>2, <2>3
<1>4. ASSUME NEW v \in -SignBit .. SignBit - 1, a = Value("INT", v)
      PROVE  Decode(bytes) = [value |-> a, rest |-> rest, ok |-> TRUE]
  <2>1. a.kind = "INT" /\ a.v = v
    BY <1>4 DEF Value
  <2>2. Encode(a) = <<2, NumberByte(a)>> /\ NumberByte(a) \in Byte /\ NumberByte(a) = v + SignBit
    BY <2>1, Encodings DEF NumberByte
  <2>3. (v + SignBit) - SignBit = v
    BY ByteRange
  <2> HIDE DEF bytes
  <2> QED
    BY <1>2, <1>4, <2>2, <2>3
<1>5. ASSUME NEW v \in Byte, a = Value("FLOAT", v)
      PROVE  Decode(bytes) = [value |-> a, rest |-> rest, ok |-> TRUE]
  <2>1. a.kind = "FLOAT" /\ a.v = v
    BY <1>5 DEF Value
  <2> DEFINE y == NumberByte(a)
  <2>2. Encode(a) = <<3, y>> /\ y \in Byte /\ y = IF v >= SignBit THEN LastByte - v ELSE v + SignBit
    BY <2>1, Encodings DEF NumberByte, Negative
  <2> HIDE DEF bytes, y
  <2>3. (IF y >= SignBit THEN y - SignBit ELSE LastByte - y) = v
    BY <2>2, ByteRange
  <2> QED
    BY <1>2, <1>5, <2>2, <2>3
<1>6. ASSUME NEW s \in Bytes, a = Value("TEXT", s)
      PROVE  Decode(bytes) = [value |-> a, rest |-> rest, ok |-> TRUE]
  <2>1. a.kind = "TEXT" /\ a.v = s
    BY <1>6 DEF Value
  <2> DEFINE x == Escaped(s)
             body == Cat(x, Cat(EscapeEnd, rest))
             four == <<4>>
  <2>2. Encode(a) = Cat(four, Cat(x, EscapeEnd)) /\ x \in Bytes /\ EscapeEnd \in Bytes /\ four \in Bytes /\ 4 \in Byte
    BY <2>1, Encodings, EscapedType, EscapeEndType, EscapedCat, SmallBytes
  <2>3. bytes = Cat(four, body) /\ body \in Bytes
    <3> HIDE DEF x, four
    <3>1. Cat(Cat(four, Cat(x, EscapeEnd)), rest) = Cat(four, Cat(Cat(x, EscapeEnd), rest))
      BY <2>2, CatFacts
    <3>2. Cat(Cat(x, EscapeEnd), rest) = body /\ body \in Bytes
      BY <2>2, CatFacts
    <3> QED
      BY <2>2, <3>1, <3>2
  <2> HIDE DEF bytes, body
  <2>4. bytes # <<>> /\ Head(bytes) = 4 /\ Tail(bytes) = body
    BY <2>2, <2>3, FrontByte
  <2>5. Decode(bytes) = DecodeText(body)
    BY <2>4, DecodeCases
  <2>6. PICK f : Reads(f, body) /\ DecodeText(body) = f[1]
    BY <2>3, DecodeTextIs
  <2>7. Cat(<<>>, body) = body /\ <<>> \in Bytes /\ Len(<<>>) + 1 = 1
    BY <2>3, CatFacts
  <2>8. Reads(f, Cat(<<>>, Cat(Escaped(s), Cat(EscapeEnd, rest))))
    BY <2>6, <2>7 DEF body
  <2>9. f[Len(<<>>) + 1] = [value |-> Value("TEXT", s), rest |-> rest, ok |-> TRUE]
    BY <2>7, <2>8, ReadBack
  <2> QED
    BY <1>6, <2>5, <2>6, <2>7, <2>9
<1> QED
  BY <1>1, <1>3, <1>4, <1>5, <1>6 DEF IsValue
=============================================================================
