---------------------------- MODULE Query_proof ----------------------------
(***************************************************************************)
(* Proofs about a SELECT above its scan: a Sort with a limit keeps the     *)
(* items that come first, groups hold the aggregates of their rows, and    *)
(* the client gets the rows the statement asks for, in whatever order rows *)
(* arrive and however many there are.                                      *)
(*                                                                         *)
(* The parts below are about data first: sums, orders, what is arranged,   *)
(* encoded and told apart.  Then come the rows between two operators, and  *)
(* last the steps of a statement.                                          *)
(***************************************************************************)
EXTENDS Query, KeyCodec_proof, FiniteSetTheorems

-----------------------------------------------------------------------------
(***************************************************************************)
(* Sums over finite sets, in any order.                                    *)
(***************************************************************************)
Total(rows, S) == MapThenSumSet(LAMBDA i : rows[i].b.v, S)

\* The element a sum begins with, and what a sum is made of.
Pick(s)      == CHOOSE x \in s : TRUE
Addend(rows, i) == rows[i].b.v
SumAt(f, rows, s) == f[s] = IF s = {} THEN 0 ELSE Addend(rows, Pick(s)) + f[s \ {Pick(s)}]

LEMMA PickIs == ASSUME NEW s, s # {} PROVE Pick(s) \in s
BY DEF Pick

\* The number of elements of a set, and of its subsets.
LEMMA Without ==
  ASSUME NEW s, IsFiniteSet(s), NEW x \in s
  PROVE  /\ IsFiniteSet(s \ {x})
         /\ Cardinality(s) \in Nat \ {0}
         /\ Cardinality(s \ {x}) = Cardinality(s) - 1
<1>1. IsFiniteSet(s \ {x}) /\ Cardinality(s \ {x}) = Cardinality(s) - 1
  BY FS_RemoveElement
<1>2. Cardinality(s) \in Nat /\ Cardinality(s \ {x}) \in Nat
  BY <1>1, FS_CardinalityType
<1> QED
  BY <1>1, <1>2

LEMMA PartsAreFinite ==
  ASSUME NEW S, IsFiniteSet(S), NEW s \in SUBSET S
  PROVE  IsFiniteSet(s) /\ Cardinality(s) \in Nat /\ Cardinality(s) <= Cardinality(S)
BY FS_Subset, FS_CardinalityType

\* There is a function that recurses so, on the subsets of a finite set.
LEMMA SumsExist ==
  ASSUME NEW rows, NEW S, IsFiniteSet(S)
  PROVE  \E f : /\ f = [s \in SUBSET S |-> f[s]]
                /\ \A s \in SUBSET S : SumAt(f, rows, s)
<1> DEFINE Size(n) == {s \in SUBSET S : Cardinality(s) <= n}
           T == {n \in Nat : \E f : \A s \in Size(n) : SumAt(f, rows, s)}
<1>1. \A s \in SUBSET S : IsFiniteSet(s) /\ Cardinality(s) \in Nat
  BY PartsAreFinite
<1>2. \A s \in SUBSET S : s # {} => /\ Pick(s) \in s /\ s \ {Pick(s)} \in SUBSET S
                                    /\ Cardinality(s) # 0
                                    /\ Cardinality(s \ {Pick(s)}) = Cardinality(s) - 1
  BY <1>1, PickIs, Without
<1>3. 0 \in T
  <2>1. ASSUME NEW s \in Size(0) PROVE s = {}
    <3>1. Cardinality(s) = 0
      BY <1>1
    <3> QED
      BY <1>2, <3>1
  <2> DEFINE f == [s \in {{}} |-> 0]
  <2>2. \A s \in Size(0) : SumAt(f, rows, s)
    BY <2>1 DEF SumAt
  <2> HIDE DEF f
  <2> QED
    BY <2>2
<1>4. ASSUME NEW n \in Nat, n \in T PROVE n + 1 \in T
  <2> PICK f : \A s \in Size(n) : SumAt(f, rows, s)
    BY <1>4
  <2> DEFINE g == [s \in SUBSET S |-> IF Cardinality(s) <= n THEN f[s] ELSE Addend(rows, Pick(s)) + f[s \ {Pick(s)}]]
  <2>1. \A s \in Size(n) : g[s] = f[s]
    OBVIOUS
  <2>2. \A s \in SUBSET S : ~(Cardinality(s) <= n) => g[s] = Addend(rows, Pick(s)) + f[s \ {Pick(s)}]
    OBVIOUS
  <2> HIDE DEF g
  <2> SUFFICES ASSUME NEW s \in Size(n + 1) PROVE SumAt(g, rows, s)
    <3>1. n + 1 \in Nat
      OBVIOUS
    <3> QED
      BY <3>1
  <2>3. CASE s = {}
    <3>1. s \in Size(n)
      BY <2>3, FS_EmptySet
    <3> QED
      BY <3>1, <2>1, <2>3 DEF SumAt
  <2>4. CASE s # {}
    <3>1. s \ {Pick(s)} \in SUBSET S /\ Cardinality(s \ {Pick(s)}) <= n
      BY <1>1, <1>2, <2>4
    <3>2. s \ {Pick(s)} \in Size(n)
      BY <3>1
    <3>3. CASE Cardinality(s) <= n
      <4>1. s \in Size(n)
        BY <3>3
      <4> HIDE DEF Size
      <4> QED
        BY <4>1, <2>1, <3>2, <2>4 DEF SumAt
    <3>4. CASE ~(Cardinality(s) <= n)
      <4>1. g[s] = Addend(rows, Pick(s)) + f[s \ {Pick(s)}]
        BY <2>2, <3>4
      <4>2. g[s \ {Pick(s)}] = f[s \ {Pick(s)}]
        BY <2>1, <3>2
      <4> QED
        BY <4>1, <4>2, <2>4 DEF SumAt
    <3> QED
      BY <3>3, <3>4
  <2> QED
    BY <2>3, <2>4
<1>5. \A n \in Nat : n \in T
  <2> HIDE DEF T
  <2> QED
    BY <1>3, <1>4, NaturalInduction
<1>6. Cardinality(S) \in Nat /\ \A s \in SUBSET S : s \in Size(Cardinality(S))
  BY FS_CardinalityType, PartsAreFinite
<1> PICK f : \A s \in SUBSET S : SumAt(f, rows, s)
  BY <1>5, <1>6
<1> DEFINE g == [s \in SUBSET S |-> f[s]]
<1>7. \A s \in SUBSET S : g[s] = f[s]
  OBVIOUS
<1>8. g = [s \in SUBSET S |-> g[s]]
  OBVIOUS
<1> HIDE DEF g
<1>9. \A s \in SUBSET S : SumAt(g, rows, s)
  BY <1>7, <1>2 DEF SumAt
<1> QED
  BY <1>8, <1>9

LEMMA TotalIs ==
  ASSUME NEW rows, NEW S, IsFiniteSet(S)
  PROVE  \E f : Total(rows, S) = f[S] /\ \A s \in SUBSET S : SumAt(f, rows, s)
<1> DEFINE iter == CHOOSE iter : iter = [s \in SUBSET S |->
             IF s = {} THEN 0 ELSE rows[CHOOSE x \in s : TRUE].b.v + iter[s \ {CHOOSE x \in s : TRUE}]]
<1>1. Total(rows, S) = iter[S]
  BY DEF Total, MapThenSumSet, MapThenFoldSet
<1>2. PICK f : f = [s \in SUBSET S |-> f[s]] /\ \A s \in SUBSET S : SumAt(f, rows, s)
  BY SumsExist
<1>3. f = [s \in SUBSET S |-> IF s = {} THEN 0 ELSE rows[CHOOSE x \in s : TRUE].b.v + f[s \ {CHOOSE x \in s : TRUE}]]
  BY <1>2 DEF SumAt, Pick, Addend
<1>4. iter = [s \in SUBSET S |-> IF s = {} THEN 0 ELSE rows[CHOOSE x \in s : TRUE].b.v + iter[s \ {CHOOSE x \in s : TRUE}]]
  BY <1>3
<1> HIDE DEF iter
<1>5. \A s \in SUBSET S : SumAt(iter, rows, s)
  BY <1>4 DEF SumAt, Pick, Addend
<1> QED
  BY <1>1, <1>5

\* A sum does not depend on where it begins.
LEMMA SumStep ==
  ASSUME NEW rows, NEW S, IsFiniteSet(S), NEW f,
         \A s \in SUBSET S : SumAt(f, rows, s),
         \A i \in S : Addend(rows, i) \in Int
  PROVE  \A s \in SUBSET S : /\ f[s] \in Int
                             /\ \A x \in s : f[s] = Addend(rows, x) + f[s \ {x}]
<1> DEFINE Good(s) == /\ f[s] \in Int
                      /\ \A x \in s : f[s] = Addend(rows, x) + f[s \ {x}]
           T == {n \in Nat : \A s \in SUBSET S : Cardinality(s) <= n => Good(s)}
<1>1. \A s \in SUBSET S : Cardinality(s) \in Nat
  BY PartsAreFinite
<1>2. ASSUME NEW s \in SUBSET S, NEW x \in s
      PROVE  /\ s \ {x} \in SUBSET S
             /\ Cardinality(s) # 0
             /\ Cardinality(s \ {x}) = Cardinality(s) - 1
  BY PartsAreFinite, Without
<1>3. Good({})
  BY DEF SumAt
<1>4. 0 \in T
  <2>1. ASSUME NEW s \in SUBSET S, Cardinality(s) <= 0 PROVE s = {}
    <3>1. Cardinality(s) = 0
      BY <1>1, <2>1
    <3> QED
      BY <1>2, <3>1
  <2> HIDE DEF Good
  <2> QED
    BY <1>3, <2>1
<1>5. ASSUME NEW n \in Nat, n \in T PROVE n + 1 \in T
  <2> SUFFICES ASSUME NEW s \in SUBSET S, Cardinality(s) <= n + 1 PROVE Good(s)
    <3>1. n + 1 \in Nat
      OBVIOUS
    <3> HIDE DEF Good
    <3> QED
      BY <3>1
  <2>1. CASE s = {}
    BY <2>1, <1>3
  <2>2. CASE s # {}
    <3> DEFINE c == Pick(s)
    <3>1. c \in s
      BY <2>2, PickIs
    <3>2. f[s] = Addend(rows, c) + f[s \ {c}]
      BY <2>2 DEF SumAt
    <3> HIDE DEF c
    <3>3. \A x \in s : s \ {x} \in SUBSET S /\ Good(s \ {x})
      <4> SUFFICES ASSUME NEW x \in s PROVE s \ {x} \in SUBSET S /\ Good(s \ {x})
        OBVIOUS
      <4>1. s \ {x} \in SUBSET S /\ Cardinality(s \ {x}) <= n
        BY <1>1, <1>2
      <4> HIDE DEF Good
      <4> QED
        BY <4>1, <1>5
    <3>4. f[s] \in Int
      <4>1. f[s \ {c}] \in Int
        BY <3>1, <3>3
      <4>2. Addend(rows, c) \in Int
        BY <3>1
      <4> QED
        BY <4>1, <4>2, <3>2
    <3>5. ASSUME NEW x \in s PROVE f[s] = Addend(rows, x) + f[s \ {x}]
      <4>1. CASE x = c
        BY <4>1, <3>2
      <4>2. CASE x # c
        <5>1. (s \ {c}) \ {x} = (s \ {x}) \ {c} /\ x \in s \ {c} /\ c \in s \ {x}
          BY <4>2, <3>1
        <5> DEFINE both == (s \ {x}) \ {c}
        <5>2. f[s \ {c}] = Addend(rows, x) + f[both]
          BY <5>1, <3>1, <3>3
        <5>3. f[s \ {x}] = Addend(rows, c) + f[both]
          BY <5>1, <3>3
        <5>4. f[both] \in Int
          <6>1. s \ {x} \in SUBSET S /\ Cardinality(s \ {x}) <= n /\ Cardinality(s \ {x}) \in Nat
            BY <1>1, <1>2
          <6>a. both \in SUBSET S /\ Cardinality(both) = Cardinality(s \ {x}) - 1
            BY <6>1, <1>2, <5>1
          <6>b. Cardinality(both) <= n
            BY <6>1, <6>a
          <6> HIDE DEF both, Good
          <6>2. Good(both)
            BY <6>a, <6>b, <1>5
          <6> QED
            BY <6>2 DEF Good
        <5>5. Addend(rows, x) \in Int /\ Addend(rows, c) \in Int
          BY <3>1
        <5> HIDE DEF both
        <5> QED
          BY <3>2, <5>2, <5>3, <5>4, <5>5
      <4> QED
        BY <4>1, <4>2
    <3> QED
      BY <3>4, <3>5
  <2> QED
    BY <2>1, <2>2
<1>6. \A n \in Nat : n \in T
  <2> HIDE DEF T
  <2> QED
    BY <1>4, <1>5, NaturalInduction
<1>7. ASSUME NEW s \in SUBSET S PROVE Good(s)
  <2>1. Cardinality(s) \in Nat /\ Cardinality(s) \in T
    BY <1>1, <1>6
  <2> HIDE DEF Good
  <2> QED
    BY <2>1
<1> QED
  BY <1>7

\* Two such functions agree where both are defined.
LEMMA SumsAgree ==
  ASSUME NEW rows, NEW S, IsFiniteSet(S), NEW f, NEW g,
         \A s \in SUBSET S : SumAt(f, rows, s) /\ SumAt(g, rows, s)
  PROVE  f[S] = g[S]
<1> DEFINE T == {n \in Nat : \A s \in SUBSET S : Cardinality(s) = n => f[s] = g[s]}
<1>1. \A s \in SUBSET S : Cardinality(s) \in Nat /\ IsFiniteSet(s)
  BY PartsAreFinite
<1>2. 0 \in T
  <2>1. ASSUME NEW s \in SUBSET S, Cardinality(s) = 0 PROVE s = {}
    BY <1>1, <2>1, FS_EmptySet
  <2>2. f[{}] = g[{}]
    BY DEF SumAt
  <2> QED
    BY <2>1, <2>2
<1>3. ASSUME NEW n \in Nat, n \in T PROVE n + 1 \in T
  <2> SUFFICES ASSUME NEW s \in SUBSET S, Cardinality(s) = n + 1 PROVE f[s] = g[s]
    <3>1. n + 1 \in Nat
      OBVIOUS
    <3> QED
      BY <3>1
  <2>1. s # {}
    BY FS_EmptySet
  <2>2. Pick(s) \in s
    BY <2>1, PickIs
  <2>3. s \ {Pick(s)} \in SUBSET S /\ Cardinality(s \ {Pick(s)}) = n
    <3>1. IsFiniteSet(s)
      BY <1>1
    <3>2. Cardinality(s \ {Pick(s)}) = Cardinality(s) - 1
      BY <3>1, <2>2, Without
    <3> QED
      BY <3>2
  <2>4. f[s \ {Pick(s)}] = g[s \ {Pick(s)}]
    BY <1>3, <2>3
  <2> QED
    BY <2>1, <2>4 DEF SumAt
<1>4. \A n \in Nat : n \in T
  <2> HIDE DEF T
  <2> QED
    BY <1>2, <1>3, NaturalInduction
<1> QED
  BY <1>1, <1>4

\* What one more position adds to a sum (FiniteSetsExt, MapThenSumSet).
LEMMA TotalGrows ==
  ASSUME NEW rows, NEW S, IsFiniteSet(S), NEW n, n \notin S,
         \A i \in S \cup {n} : rows[i].b.v \in Int
  PROVE  /\ Total(rows, S) \in Int
         /\ Total(rows, S \cup {n}) = Total(rows, S) + rows[n].b.v
<1> DEFINE U == S \cup {n}
<1>1. IsFiniteSet(U) /\ S \in SUBSET U /\ n \in U /\ U \ {n} = S /\ U \in SUBSET U
  BY FS_AddElement
<1>2. \A i \in U : Addend(rows, i) \in Int
  BY DEF Addend
<1>3. PICK f : Total(rows, S) = f[S] /\ \A s \in SUBSET S : SumAt(f, rows, s)
  BY TotalIs
<1> HIDE DEF U
<1>4. PICK g : Total(rows, U) = g[U] /\ \A s \in SUBSET U : SumAt(g, rows, s)
  BY <1>1, TotalIs
<1>5. \A s \in SUBSET S : SumAt(g, rows, s)
  BY <1>1, <1>4
<1>6. f[S] = g[S]
  BY <1>3, <1>5, SumsAgree
<1>7. g[U] = Addend(rows, n) + g[U \ {n}] /\ g[S] \in Int
  <2>1. \A s \in SUBSET U : /\ g[s] \in Int
                            /\ \A x \in s : g[s] = Addend(rows, x) + g[s \ {x}]
    BY <1>1, <1>2, <1>4, SumStep
  <2> QED
    BY <1>1, <2>1
<1>8. Addend(rows, n) = rows[n].b.v /\ rows[n].b.v \in Int
  BY <1>1, <1>2 DEF Addend
<1>9. Total(rows, U) = rows[n].b.v + f[S] /\ f[S] \in Int
  BY <1>1, <1>4, <1>6, <1>7, <1>8
<1> QED
  BY <1>3, <1>8, <1>9 DEF U

LEMMA TotalOfNone == ASSUME NEW rows PROVE Total(rows, {}) = 0
<1>1. PICK f : Total(rows, {}) = f[{}] /\ SumAt(f, rows, {})
  BY TotalIs, FS_EmptySet
<1> QED
  BY <1>1 DEF SumAt

-----------------------------------------------------------------------------
(***************************************************************************)
(* Sums that wrap.                                                         *)
(***************************************************************************)
LEMMA Remainder ==
  ASSUME NEW b \in Nat, b > 0, NEW q \in Int, NEW r \in 0 .. b - 1
  PROVE  (q * b + r) % b = r
OBVIOUS

LEMMA Quotient ==
  ASSUME NEW a \in Int, NEW b \in Nat, b > 0
  PROVE  a = b * (a \div b) + (a % b) /\ a % b \in 0 .. b - 1 /\ a \div b \in Int
OBVIOUS

\* Numbers that differ by a multiple leave the same remainder.
LEMMA SameRemainder ==
  ASSUME NEW a \in Int, NEW b \in Nat, b > 0, NEW k \in Int
  PROVE  (k * b + a) % b = a % b
<1> DEFINE q == a \div b
           r == a % b
<1>1. a = b * q + r /\ r \in 0 .. b - 1 /\ q \in Int
  BY Quotient
<1> HIDE DEF q, r
<1>2. k * b + a = (k + q) * b + r /\ k + q \in Int
  BY <1>1
<1>3. ((k + q) * b + r) % b = r
  BY <1>1, <1>2, Remainder
<1> QED
  BY <1>2, <1>3 DEF r

LEMMA WrapFacts ==
  /\ \A n \in Int : Wrap(n) \in -SignBit .. SignBit - 1
  /\ \A n \in -SignBit .. SignBit - 1 : Wrap(n) = n
  /\ \A n, m \in Int : Wrap(Wrap(n) + m) = Wrap(n + m)
<1>1. SignBit \in Nat /\ Base \in Nat /\ Base = 2 * SignBit /\ Base > 0
  BY ByteRange
<1>2. ASSUME NEW n \in Int PROVE Wrap(n) \in -SignBit .. SignBit - 1 /\ \E q \in Int : Wrap(n) = n + q * Base
  <2> DEFINE a == n + SignBit
             q == a \div Base
             r == a % Base
  <2>1. a \in Int /\ Wrap(n) = r - SignBit
    BY <1>1 DEF Wrap
  <2>2. a = Base * q + r /\ r \in 0 .. Base - 1 /\ q \in Int
    BY <2>1, <1>1, Quotient
  <2> HIDE DEF q, r
  <2>3. r - SignBit \in -SignBit .. SignBit - 1
    BY <1>1, <2>2
  <2>4. r - SignBit = n + (-q) * Base /\ -q \in Int
    BY <1>1, <2>2
  <2> QED
    BY <2>1, <2>3, <2>4
<1>3. ASSUME NEW n \in -SignBit .. SignBit - 1 PROVE Wrap(n) = n
  <2>1. n + SignBit \in 0 .. Base - 1 /\ n \in Int
    BY <1>1
  <2>2. (n + SignBit) % Base = n + SignBit
    BY <1>1, <2>1, SmallModulo
  <2> QED
    BY <1>1, <2>1, <2>2 DEF Wrap
<1>4. ASSUME NEW n \in Int, NEW m \in Int PROVE Wrap(Wrap(n) + m) = Wrap(n + m)
  <2>1. PICK q \in Int : Wrap(n) = n + q * Base
    BY <1>2
  <2> DEFINE a == n + m + SignBit
  <2>2. a \in Int /\ (Wrap(n) + m) + SignBit = q * Base + a
    BY <2>1, <1>1
  <2> HIDE DEF a
  <2>3. (q * Base + a) % Base = a % Base
    BY <2>2, <1>1, SameRemainder
  <2>4. Wrap(n + m) = (a % Base) - SignBit
    BY DEF Wrap, a
  <2>5. Wrap(Wrap(n) + m) = (((Wrap(n) + m) + SignBit) % Base) - SignBit
    BY DEF Wrap
  <2> QED
    BY <2>2, <2>3, <2>4, <2>5
<1> QED
  BY <1>2, <1>3, <1>4

-----------------------------------------------------------------------------
(***************************************************************************)
(* Summaries.                                                              *)
(***************************************************************************)
Present(rows, P) == {i \in P : rows[i].b # Null}
Values(rows, P)  == {rows[i].b : i \in Present(rows, P)}
LeastOf(S)       == CHOOSE x \in S : \A y \in S : ~Before(y, x)
MostOf(S)        == CHOOSE x \in S : \A y \in S : ~Before(x, y)

LEMMA SummaryIs ==
  ASSUME NEW rows, NEW P
  PROVE  Summary(rows, P) =
           [rows  |-> Cardinality(P),
            count |-> Cardinality(Present(rows, P)),
            sum   |-> IF Present(rows, P) = {} THEN Null
                      ELSE Value("INT", Wrap(Total(rows, Present(rows, P)))),
            min   |-> IF Present(rows, P) = {} THEN Null ELSE LeastOf(Values(rows, P)),
            max   |-> IF Present(rows, P) = {} THEN Null ELSE MostOf(Values(rows, P))]
BY DEF Summary, Present, Values, LeastOf, MostOf, Total

LEMMA Integers ==
  /\ \A v : v \in ValuesOf("INT") <=> v = Value("INT", v.v) /\ v.v \in -SignBit .. SignBit - 1
  /\ \A n \in -SignBit .. SignBit - 1 : Value("INT", n) \in ValuesOf("INT") /\ Value("INT", n).v = n
  /\ \A v, w \in ValuesOf("INT") : /\ Before(v, w) <=> v.v < w.v
                                   /\ v.v = w.v => v = w
  /\ Null \notin ValuesOf("INT")
<1>1. ValuesOf("INT") = {Value("INT", n) : n \in -SignBit .. SignBit - 1}
  BY DEF ValuesOf
<1>2. \A n : Value("INT", n).v = n /\ Value("INT", n).kind = "INT"
  BY DEF Value
<1>3. ASSUME NEW v \in ValuesOf("INT"), NEW w \in ValuesOf("INT") PROVE Before(v, w) <=> v.v < w.v
  <2>1. v.kind = "INT" /\ w.kind = "INT" /\ Tag["INT"] = 2
    BY <1>1, <1>2 DEF Tag
  <2> QED
    BY <2>1 DEF Before
<1>4. Null.kind = "NULL"
  BY DEF Null, Value
<1> QED
  BY <1>1, <1>2, <1>3, <1>4

\* There are a least and a greatest of some integers, and one of each.
LEMMA ExtremesExist ==
  ASSUME NEW S, S \subseteq ValuesOf("INT"), S # {}
  PROVE  /\ LeastOf(S) \in S /\ \A y \in S : ~Before(y, LeastOf(S))
         /\ MostOf(S) \in S /\ \A y \in S : ~Before(MostOf(S), y)
<1>0. SignBit \in Nat
  BY ByteRange
<1>1. \A v \in S : v.v \in Int /\ v.v + SignBit \in Nat /\ SignBit - v.v \in Nat
  BY <1>0, Integers
<1>2. \E x \in S : \A y \in S : ~Before(y, x)
  <2> DEFINE N == {v.v + SignBit : v \in S}
  <2>1. N \in SUBSET Nat /\ N # {}
    BY <1>1
  <2>2. PICK n \in N : \A m \in N : n <= m
    <3> HIDE DEF N
    <3> QED
      BY <2>1, LeastNatural
  <2>3. PICK x \in S : n = x.v + SignBit
    OBVIOUS
  <2>4. ASSUME NEW y \in S PROVE ~Before(y, x)
    <3>1. x.v + SignBit <= y.v + SignBit
      BY <2>2, <2>3
    <3>2. ~(y.v < x.v)
      BY <3>1, <1>0, <1>1
    <3> QED
      BY <3>2, Integers
  <2> QED
    BY <2>4
<1>3. \E x \in S : \A y \in S : ~Before(x, y)
  <2> DEFINE N == {SignBit - v.v : v \in S}
  <2>1. N \in SUBSET Nat /\ N # {}
    BY <1>1
  <2>2. PICK n \in N : \A m \in N : n <= m
    <3> HIDE DEF N
    <3> QED
      BY <2>1, LeastNatural
  <2>3. PICK x \in S : n = SignBit - x.v
    OBVIOUS
  <2>4. ASSUME NEW y \in S PROVE ~Before(x, y)
    <3>1. SignBit - x.v <= SignBit - y.v
      BY <2>2, <2>3
    <3>2. ~(x.v < y.v)
      BY <3>1, <1>0, <1>1
    <3> QED
      BY <3>2, Integers
  <2> QED
    BY <2>4
<1> QED
  BY <1>2, <1>3 DEF LeastOf, MostOf

LEMMA OneExtreme ==
  ASSUME NEW S, S \subseteq ValuesOf("INT"), NEW x \in S
  PROVE  /\ (\A y \in S : ~Before(y, x)) => LeastOf(S) = x
         /\ (\A y \in S : ~Before(x, y)) => MostOf(S) = x
<1>1. /\ LeastOf(S) \in S /\ \A y \in S : ~Before(y, LeastOf(S))
      /\ MostOf(S) \in S /\ \A y \in S : ~Before(MostOf(S), y)
  BY ExtremesExist
<1>2. \A v, w \in S : ~Before(v, w) /\ ~Before(w, v) => v = w
  <2> SUFFICES ASSUME NEW v \in S, NEW w \in S, ~Before(v, w), ~Before(w, v) PROVE v = w
    OBVIOUS
  <2>1. v.v \in Int /\ w.v \in Int
    BY Integers
  <2>2. ~(v.v < w.v) /\ ~(w.v < v.v)
    BY Integers
  <2>3. v.v = w.v
    BY <2>1, <2>2
  <2> QED
    BY <2>3, Integers
<1> QED
  BY <1>1, <1>2

LEMMA ExtremesGrow ==
  ASSUME NEW S, S \subseteq ValuesOf("INT"), NEW v \in ValuesOf("INT")
  PROVE  /\ LeastOf(S \cup {v}) = IF S = {} \/ Before(v, LeastOf(S)) THEN v ELSE LeastOf(S)
         /\ MostOf(S \cup {v}) = IF S = {} \/ Before(MostOf(S), v) THEN v ELSE MostOf(S)
<1> DEFINE U == S \cup {v}
<1>1. U \subseteq ValuesOf("INT") /\ v \in U /\ \A x \in S : x \in U
  OBVIOUS
<1>2. \A x \in U : x \in S \/ x = v
  OBVIOUS
<1>3. \A x, y \in ValuesOf("INT") : Before(x, y) <=> x.v < y.v
  BY Integers
<1>4. \A x \in ValuesOf("INT") : x.v \in Int
  BY Integers
<1>5. CASE S = {}
  <2>1. ~Before(v, v)
    BY <1>3, <1>4
  <2>2. LeastOf(U) = v /\ MostOf(U) = v
    BY <1>5, <2>1, <1>1, <1>2, OneExtreme
  <2> QED
    BY <1>5, <2>2
<1>6. CASE S # {}
  <2> DEFINE lo == LeastOf(S)
             hi == MostOf(S)
  <2>1. lo \in S /\ hi \in S /\ \A y \in S : ~(y.v < lo.v) /\ ~(hi.v < y.v)
    BY <1>6, <1>3, ExtremesExist
  <2> HIDE DEF lo, hi, U
  <2>2. ASSUME Before(v, lo) PROVE LeastOf(U) = v
    <3>1. v.v < lo.v
      BY <2>2, <2>1, <1>3
    <3>2. \A y \in U : ~(y.v < v.v)
      BY <3>1, <2>1, <1>1, <1>2, <1>4
    <3> QED
      BY <3>2, <1>1, <1>3, OneExtreme
  <2>3. ASSUME ~Before(v, lo) PROVE LeastOf(U) = lo
    <3>1. ~(v.v < lo.v)
      BY <2>3, <2>1, <1>3
    <3>2. \A y \in U : ~(y.v < lo.v)
      BY <3>1, <2>1, <1>2
    <3> QED
      BY <3>2, <2>1, <1>1, <1>3, OneExtreme
  <2>4. ASSUME Before(hi, v) PROVE MostOf(U) = v
    <3>1. hi.v < v.v
      BY <2>4, <2>1, <1>3
    <3>2. \A y \in U : ~(v.v < y.v)
      BY <3>1, <2>1, <1>1, <1>2, <1>4
    <3> QED
      BY <3>2, <1>1, <1>3, OneExtreme
  <2>5. ASSUME ~Before(hi, v) PROVE MostOf(U) = hi
    <3>1. ~(hi.v < v.v)
      BY <2>5, <2>1, <1>3
    <3>2. \A y \in U : ~(hi.v < y.v)
      BY <3>1, <2>1, <1>2
    <3> QED
      BY <3>2, <2>1, <1>1, <1>3, OneExtreme
  <2> QED
    BY <1>6, <2>2, <2>3, <2>4, <2>5 DEF lo, hi, U
<1> QED
  BY <1>5, <1>6

\* One more row changes a summary as the accumulators add it.
LEMMA SummaryAdds ==
  ASSUME NEW rows, NEW P, IsFiniteSet(P), NEW n, n \notin P,
         \A i \in P \cup {n} : rows[i].b \in ValuesOf("INT") \cup {Null}
  PROVE  Summary(rows, P \cup {n}) = Add(Summary(rows, P), rows[n].b)
<1> DEFINE v == rows[n].b
           U == P \cup {n}
           A == Present(rows, P)
           acc == Summary(rows, P)
<1>1. IsFiniteSet(A) /\ n \notin A /\ IsFiniteSet(U)
  BY FS_Subset, FS_AddElement DEF Present
<1>2. Cardinality(U) = Cardinality(P) + 1
  BY FS_AddElement
<1>3. \A i \in A : rows[i].b \in ValuesOf("INT")
  BY DEF Present
<1>4. acc = [rows  |-> Cardinality(P),
             count |-> Cardinality(A),
             sum   |-> IF A = {} THEN Null ELSE Value("INT", Wrap(Total(rows, A))),
             min   |-> IF A = {} THEN Null ELSE LeastOf(Values(rows, P)),
             max   |-> IF A = {} THEN Null ELSE MostOf(Values(rows, P))]
  BY SummaryIs
<1>5. CASE v = Null
  <2>1. Present(rows, U) = A
    BY <1>5 DEF Present
  <2>2. Values(rows, U) = Values(rows, P)
    BY <2>1 DEF Values
  <2>3. Summary(rows, U) =
          [rows  |-> Cardinality(P) + 1,
           count |-> Cardinality(A),
           sum   |-> IF A = {} THEN Null ELSE Value("INT", Wrap(Total(rows, A))),
           min   |-> IF A = {} THEN Null ELSE LeastOf(Values(rows, P)),
           max   |-> IF A = {} THEN Null ELSE MostOf(Values(rows, P))]
    <3> HIDE DEF U, A
    <3> QED
      BY SummaryIs, <2>1, <2>2, <1>2
  <2>4. Add(acc, v) = [acc EXCEPT !.rows = @ + 1]
    BY <1>5 DEF Add
  <2> HIDE DEF A, U, acc, v
  <2> QED
    BY <2>3, <2>4, <1>4 DEF U, acc, v
<1>6. CASE v # Null
  <2>1. v \in ValuesOf("INT")
    BY <1>6
  <2>2. Present(rows, U) = A \cup {n}
    BY <1>6 DEF Present
  <2>3. Values(rows, U) = Values(rows, P) \cup {v}
    BY <2>2 DEF Values
  <2>4. Values(rows, P) \subseteq ValuesOf("INT") /\ (Values(rows, P) = {} <=> A = {})
    BY <1>3 DEF Values
  <2>5. Cardinality(A \cup {n}) = Cardinality(A) + 1
    BY <1>1, FS_AddElement
  <2>6. Total(rows, A) \in Int /\ Total(rows, A \cup {n}) = Total(rows, A) + v.v
    <3>1. \A i \in A \cup {n} : rows[i].b.v \in Int
      BY <1>3, <2>1, Integers
    <3> HIDE DEF A
    <3> QED
      BY <3>1, <1>1, TotalGrows
  <2> DEFINE B == A \cup {n}
             W == Values(rows, P)
  <2>7. Summary(rows, U) =
          [rows  |-> Cardinality(P) + 1,
           count |-> Cardinality(A) + 1,
           sum   |-> Value("INT", Wrap(Total(rows, A) + v.v)),
           min   |-> LeastOf(W \cup {v}),
           max   |-> MostOf(W \cup {v})]
    <3>1. B # {} /\ B = Present(rows, U)
      BY <2>2
    <3> HIDE DEF U, A, B, W
    <3> QED
      BY SummaryIs, <3>1, <2>3, <2>5, <2>6, <1>2 DEF W, B
  <2>8. CASE A = {}
    <3>1. acc = [rows |-> Cardinality(P), count |-> Cardinality(A), sum |-> Null, min |-> Null, max |-> Null]
      BY <1>4, <2>8
    <3>2. Total(rows, A) = 0
      BY <2>8, TotalOfNone
    <3>3. Value("INT", Wrap(Total(rows, A) + v.v)) = v
      <4>1. v.v \in -SignBit .. SignBit - 1 /\ v = Value("INT", v.v) /\ SignBit \in Nat
        BY <2>1, Integers, ByteRange
      <4>2. 0 + v.v = v.v
        BY <4>1
      <4> QED
        BY <4>1, <4>2, <3>2, WrapFacts
    <3>4. LeastOf(W \cup {v}) = v /\ MostOf(W \cup {v}) = v
      <4> HIDE DEF W, v
      <4> QED
        BY <2>1, <2>4, <2>8, ExtremesGrow DEF W
    <3> HIDE DEF A, U, W, v, acc
    <3>5. Add(acc, v) = [rows |-> Cardinality(P) + 1, count |-> Cardinality(A) + 1, sum |-> v, min |-> v, max |-> v]
      BY <3>1, <1>6 DEF Add
    <3> QED
      BY <3>3, <3>4, <3>5, <2>7 DEF U, acc, v
  <2>9. CASE A # {}
    <3>1. acc = [rows |-> Cardinality(P), count |-> Cardinality(A),
                 sum |-> Value("INT", Wrap(Total(rows, A))), min |-> LeastOf(W), max |-> MostOf(W)]
      BY <1>4, <2>9
    <3>2. LeastOf(W) \in W /\ MostOf(W) \in W
      <4> HIDE DEF W
      <4> QED
        BY <2>4, <2>9, ExtremesExist DEF W
    <3>3. LeastOf(W) # Null /\ MostOf(W) # Null
      BY <3>2, <2>4, Integers
    <3>4. Value("INT", Wrap(Total(rows, A))) # Null /\ Value("INT", Wrap(Total(rows, A))).v = Wrap(Total(rows, A))
      BY DEF Value, Null
    <3>5. Wrap(Wrap(Total(rows, A)) + v.v) = Wrap(Total(rows, A) + v.v)
      <4>1. v.v \in Int
        BY <2>1, Integers
      <4> HIDE DEF A, v
      <4> QED
        BY <4>1, <2>6, WrapFacts
    <3>6. /\ LeastOf(W \cup {v}) = IF Before(v, LeastOf(W)) THEN v ELSE LeastOf(W)
          /\ MostOf(W \cup {v}) = IF Before(MostOf(W), v) THEN v ELSE MostOf(W)
      <4> HIDE DEF W, v
      <4> QED
        BY <2>1, <2>4, <2>9, ExtremesGrow DEF W
    <3> HIDE DEF A, U, W, v, acc
    <3>7. Add(acc, v) =
            [rows  |-> Cardinality(P) + 1,
             count |-> Cardinality(A) + 1,
             sum   |-> Value("INT", Wrap(Wrap(Total(rows, A)) + v.v)),
             min   |-> IF Before(v, LeastOf(W)) THEN v ELSE LeastOf(W),
             max   |-> IF Before(MostOf(W), v) THEN v ELSE MostOf(W)]
      BY <3>1, <3>3, <3>4, <1>6 DEF Add
    <3> QED
      BY <3>5, <3>6, <3>7, <2>7 DEF U, acc, v
  <2> QED
    BY <2>8, <2>9
<1> QED
  BY <1>5, <1>6

LEMMA SummaryOfNone == ASSUME NEW rows PROVE Summary(rows, {}) = NewAccumulators
<1>1. Present(rows, {}) = {} /\ Cardinality({}) = 0
  BY FS_EmptySet DEF Present
<1> QED
  BY <1>1, SummaryIs DEF NewAccumulators

-----------------------------------------------------------------------------
(***************************************************************************)
(* Orders of finite sets.                                                  *)
(***************************************************************************)
\* R puts the elements of S in a row.
Ranks(R, S) ==
  /\ \A x \in S : <<x, x>> \notin R
  /\ \A x, y \in S : x = y \/ <<x, y>> \in R \/ <<y, x>> \in R
  /\ \A x, y, z \in S : <<x, y>> \in R /\ <<y, z>> \in R => <<x, z>> \in R

LEMMA RanksParts == ASSUME NEW R, NEW S, Ranks(R, S), NEW s \in SUBSET S PROVE Ranks(R, s)
BY DEF Ranks

\* One of them is the last.
LEMMA LastExists ==
  ASSUME NEW S, IsFiniteSet(S), S # {}, NEW R, Ranks(R, S)
  PROVE  \E x \in S : \A y \in S : y = x \/ <<y, x>> \in R
<1> DEFINE Later(x) == {y \in S : <<x, y>> \in R}
           N == {Cardinality(Later(x)) : x \in S}
<1>1. \A x \in S : IsFiniteSet(Later(x)) /\ Cardinality(Later(x)) \in Nat
  BY PartsAreFinite
<1>2. N \in SUBSET Nat /\ N # {}
  BY <1>1
<1>3. PICK n \in N : \A m \in N : n <= m
  <2> HIDE DEF N
  <2> QED
    BY <1>2, LeastNatural
<1>4. PICK x \in S : n = Cardinality(Later(x))
  OBVIOUS
<1>5. ASSUME NEW y \in S, y # x, <<y, x>> \notin R PROVE FALSE
  <2>1. <<x, y>> \in R
    BY <1>5 DEF Ranks
  <2>2. Later(y) \in SUBSET (Later(x) \ {y})
    BY <2>1 DEF Ranks
  <2>3. y \in Later(x)
    BY <2>1
  <2> HIDE DEF Later
  <2>4. IsFiniteSet(Later(x) \ {y}) /\ Cardinality(Later(x) \ {y}) = Cardinality(Later(x)) - 1
    BY <1>1, <2>3, Without
  <2>5. Cardinality(Later(y)) <= Cardinality(Later(x) \ {y})
    BY <2>2, <2>4, PartsAreFinite
  <2>6. n <= Cardinality(Later(y))
    BY <1>3
  <2> QED
    BY <2>4, <2>5, <2>6, <1>1, <1>4
<1> QED
  BY <1>5

\* One of them is the first.
LEMMA FirstExists ==
  ASSUME NEW S, IsFiniteSet(S), S # {}, NEW R, Ranks(R, S)
  PROVE  \E x \in S : \A y \in S : y = x \/ <<x, y>> \in R
<1> DEFINE Q == {p \in S \X S : <<p[2], p[1]>> \in R}
<1>1. \A x, y \in S : <<x, y>> \in Q <=> <<y, x>> \in R
  OBVIOUS
<1> HIDE DEF Q
<1>2. Ranks(Q, S)
  BY <1>1 DEF Ranks
<1>3. PICK x \in S : \A y \in S : y = x \/ <<y, x>> \in Q
  BY <1>2, LastExists
<1> QED
  BY <1>1, <1>3

\* They can be arranged.
Arranges(s, R, S) ==
  /\ s \in [1 .. Cardinality(S) -> S]
  /\ \A i, j \in 1 .. Cardinality(S) : i < j => <<s[i], s[j]>> \in R

LEMMA ArrangementExists ==
  ASSUME NEW S, IsFiniteSet(S), NEW R, Ranks(R, S)
  PROVE  \E s : Arranges(s, R, S)
<1> DEFINE T == {n \in Nat : \A U \in SUBSET S : Cardinality(U) = n => \E s : Arranges(s, R, U)}
<1>1. \A U \in SUBSET S : IsFiniteSet(U) /\ Cardinality(U) \in Nat /\ Ranks(R, U)
  BY PartsAreFinite, RanksParts
<1>2. 0 \in T
  <2>1. ASSUME NEW U \in SUBSET S, Cardinality(U) = 0 PROVE Arranges([i \in 1 .. 0 |-> i], R, U)
    BY <2>1 DEF Arranges
  <2> QED
    BY <2>1
<1>3. ASSUME NEW n \in Nat, n \in T PROVE n + 1 \in T
  <2> SUFFICES ASSUME NEW U \in SUBSET S, Cardinality(U) = n + 1 PROVE \E s : Arranges(s, R, U)
    <3>1. n + 1 \in Nat
      OBVIOUS
    <3> QED
      BY <3>1
  <2>1. U # {}
    BY FS_EmptySet
  <2>2. PICK x \in U : \A y \in U : y = x \/ <<y, x>> \in R
    BY <2>1, <1>1, LastExists
  <2>3. U \ {x} \in SUBSET S /\ Cardinality(U \ {x}) = n
    BY <1>1, Without
  <2>4. PICK s : Arranges(s, R, U \ {x})
    BY <1>3, <2>3
  <2>5. s \in [1 .. n -> U \ {x}] /\ \A i, j \in 1 .. n : i < j => <<s[i], s[j]>> \in R
    BY <2>3, <2>4 DEF Arranges
  <2> DEFINE t == [i \in 1 .. n + 1 |-> IF i = n + 1 THEN x ELSE s[i]]
  <2>6. \A i \in 1 .. n + 1 : i = n + 1 \/ i \in 1 .. n
    OBVIOUS
  <2>7. t \in [1 .. n + 1 -> U]
    BY <2>5, <2>6
  <2>8. ASSUME NEW i \in 1 .. n + 1, NEW j \in 1 .. n + 1, i < j PROVE <<t[i], t[j]>> \in R
    <3>1. i \in 1 .. n /\ t[i] = s[i]
      BY <2>8
    <3>2. CASE j = n + 1
      <4>1. t[j] = x /\ s[i] \in U \ {x}
        BY <3>2, <3>1, <2>5
      <4> QED
        BY <4>1, <3>1, <2>2
    <3>3. CASE j \in 1 .. n
      <4>1. t[j] = s[j]
        BY <3>3
      <4> QED
        BY <4>1, <3>1, <3>3, <2>5, <2>8
    <3> QED
      BY <2>6, <3>2, <3>3
  <2> HIDE DEF t
  <2>9. Arranges(t, R, U)
    BY <2>7, <2>8 DEF Arranges
  <2> QED
    BY <2>9
<1>4. \A n \in Nat : n \in T
  <2> HIDE DEF T
  <2> QED
    BY <1>2, <1>3, NaturalInduction
<1> QED
  BY <1>1, <1>4

\* Group keys come out of the sort of strings.
LEMMA KeysAscend ==
  ASSUME NEW S \in SUBSET Bytes, IsFiniteSet(S)
  PROVE  Ascending(S, BytesBefore) \in [1 .. Cardinality(S) -> S]
<1> DEFINE R == {p \in S \X S : BytesBefore(p[1], p[2])}
<1>1. \A x, y \in S : <<x, y>> \in R <=> BytesBefore(x, y)
  OBVIOUS
<1> HIDE DEF R
<1>2. Ranks(R, S)
  BY <1>1, BytesTotal, BytesTransitive, BytesIrreflexive DEF Ranks
<1>3. PICK s : Arranges(s, R, S)
  BY <1>2, ArrangementExists
<1>4. s \in [1 .. Cardinality(S) -> S] /\ \A i, j \in DOMAIN s : i < j => BytesBefore(s[i], s[j])
  BY <1>1, <1>3 DEF Arranges
<1> QED
  BY <1>4 DEF Ascending

-----------------------------------------------------------------------------
(***************************************************************************)
(* The heap of a Sort with a limit.                                        *)
(***************************************************************************)
FirstOf(S, R, n) == {x \in S : n < 0 \/ Cardinality({y \in S : <<y, x>> \in R}) < n}

\* The first n elements are all, or n that are in front of the others.
LEMMA FirstIs ==
  ASSUME NEW S, IsFiniteSet(S), NEW R, Ranks(R, S), NEW n \in Nat, NEW I \in SUBSET S
  PROVE  I = FirstOf(S, R, n) <=> \/ I = S /\ Cardinality(S) <= n
                                  \/ /\ Cardinality(I) = n
                                     /\ \A x \in I, y \in S \ I : <<x, y>> \in R
<1> DEFINE Before1(x) == {y \in S : <<y, x>> \in R}
           F == FirstOf(S, R, n)
<1>0. \A U \in SUBSET S : IsFiniteSet(U) /\ Cardinality(U) \in Nat
  BY PartsAreFinite
<1>1. \A x \in S : /\ Before1(x) \in SUBSET (S \ {x})
                   /\ Cardinality(Before1(x)) \in Nat
  BY <1>0 DEF Ranks
<1>2. \A x \in S : x \in F <=> Cardinality(Before1(x)) < n
  BY DEF FirstOf
<1>3. F \in SUBSET S
  BY DEF FirstOf
<1>4. \A x, y \in S : <<x, y>> \in R => Cardinality(Before1(x)) <= Cardinality(Before1(y))
  <2> SUFFICES ASSUME NEW x \in S, NEW y \in S, <<x, y>> \in R
               PROVE  Cardinality(Before1(x)) <= Cardinality(Before1(y))
    OBVIOUS
  <2>1. Before1(x) \in SUBSET Before1(y)
    BY DEF Ranks
  <2>2. IsFiniteSet(Before1(y))
    BY <1>0
  <2> HIDE DEF Before1
  <2> QED
    BY <2>1, <2>2, PartsAreFinite
<1> HIDE DEF F, Before1
<1>5. ASSUME I = S, Cardinality(S) <= n PROVE I = F
  <2>1. ASSUME NEW x \in S PROVE x \in F
    <3>1. Cardinality(Before1(x)) <= Cardinality(S \ {x}) /\ Cardinality(S \ {x}) = Cardinality(S) - 1
      BY <1>0, <1>1, PartsAreFinite, Without
    <3> QED
      BY <3>1, <1>0, <1>1, <1>2, <1>5
  <2> QED
    BY <2>1, <1>3, <1>5
<1>6. ASSUME Cardinality(I) = n, \A x \in I, y \in S \ I : <<x, y>> \in R PROVE I = F
  <2>1. ASSUME NEW x \in I PROVE x \in F
    <3>1. Before1(x) \in SUBSET (I \ {x})
      <4>1. ASSUME NEW y \in Before1(x), y \notin I PROVE FALSE
        <5>1. <<y, x>> \in R /\ <<x, y>> \in R /\ x \in S /\ y \in S
          BY <1>6, <4>1 DEF Before1
        <5> QED
          BY <5>1 DEF Ranks
      <4> QED
        BY <4>1, <1>1
    <3>2. IsFiniteSet(I \ {x}) /\ Cardinality(I \ {x}) = Cardinality(I) - 1
      BY <1>0, Without
    <3>3. Cardinality(Before1(x)) <= Cardinality(I \ {x})
      BY <3>1, <3>2, PartsAreFinite
    <3> QED
      BY <3>2, <3>3, <1>1, <1>2, <1>6
  <2>2. ASSUME NEW x \in S \ I PROVE x \notin F
    <3>1. I \in SUBSET Before1(x) /\ IsFiniteSet(Before1(x))
      BY <1>0, <1>6 DEF Before1
    <3>2. Cardinality(I) <= Cardinality(Before1(x))
      BY <3>1, PartsAreFinite
    <3> QED
      BY <3>2, <1>1, <1>2, <1>6
  <2> QED
    BY <2>1, <2>2, <1>3
<1>7. ASSUME I = F, I # S
      PROVE  Cardinality(I) = n /\ \A x \in I, y \in S \ I : <<x, y>> \in R
  <2>1. ASSUME NEW x \in I, NEW y \in S \ I PROVE <<x, y>> \in R
    <3>1. Cardinality(Before1(x)) < n /\ ~(Cardinality(Before1(y)) < n)
      BY <1>2, <1>7
    <3>2. <<y, x>> \notin R
      BY <3>1, <1>1, <1>4
    <3> QED
      BY <3>2 DEF Ranks
  <2>2. PICK z \in S \ I : \A y \in S \ I : y = z \/ <<z, y>> \in R
    <3>1. S \ I # {} /\ S \ I \in SUBSET S
      BY <1>7
    <3> QED
      BY <3>1, <1>0, RanksParts, FirstExists
  <2>3. Before1(z) = I
    <3>1. I \subseteq Before1(z)
      BY <2>1 DEF Before1
    <3>2. ASSUME NEW y \in Before1(z), y \notin I PROVE FALSE
      <4>1. y \in S \ I /\ <<y, z>> \in R
        BY <3>2 DEF Before1
      <4> QED
        BY <4>1, <2>2 DEF Ranks
    <3> QED
      BY <3>1, <3>2
  <2>4. ~(Cardinality(I) < n)
    BY <2>3, <1>2, <1>7
  <2>5. Cardinality(I) <= n
    <3>1. CASE I = {}
      BY <3>1, FS_EmptySet
    <3>2. CASE I # {}
      <4>1. PICK x \in I : \A y \in I : y = x \/ <<y, x>> \in R
        BY <3>2, <1>0, RanksParts, LastExists
      <4>2. I \ {x} \in SUBSET Before1(x) /\ IsFiniteSet(Before1(x))
        BY <4>1, <1>0 DEF Before1
      <4>3. Cardinality(I \ {x}) <= Cardinality(Before1(x)) /\ Cardinality(I \ {x}) = Cardinality(I) - 1
        BY <4>2, <1>0, PartsAreFinite, Without
      <4>4. Cardinality(Before1(x)) < n
        BY <1>2, <1>7
      <4> QED
        BY <4>3, <4>4, <1>0, <1>1
    <3> QED
      BY <3>1, <3>2
  <2> QED
    BY <2>1, <2>4, <2>5, <1>0
<1>8. ASSUME I = F, I = S PROVE Cardinality(S) <= n
  <2>1. CASE S = {}
    BY <2>1, FS_EmptySet
  <2>2. CASE S # {}
    <3>1. PICK x \in S : \A y \in S : y = x \/ <<y, x>> \in R
      BY <2>2, LastExists
    <3>2. S \ {x} \in SUBSET Before1(x) /\ IsFiniteSet(Before1(x))
      BY <3>1, <1>0 DEF Before1
    <3>3. Cardinality(S \ {x}) <= Cardinality(Before1(x)) /\ Cardinality(S \ {x}) = Cardinality(S) - 1
      BY <3>2, PartsAreFinite, Without
    <3>4. Cardinality(Before1(x)) < n
      BY <1>2, <1>8
    <3> QED
      BY <3>3, <3>4, <1>0, <1>1
  <2> QED
    BY <2>1, <2>2
<1> QED
  BY <1>5, <1>6, <1>7, <1>8 DEF F

Room(I, n) == Cardinality(I) < n

\* An item e comes to a heap I of the first n of S.
Arrives(S, e, R, n, I) ==
  /\ IsFiniteSet(S) /\ e \notin S
  /\ Ranks(R, S \cup {e})
  /\ n \in Nat
  /\ I = FirstOf(S, R, n)

LEMMA HeapIs ==
  ASSUME NEW S, NEW e, NEW R, NEW n \in Nat, NEW I, Arrives(S, e, R, n, I)
  PROVE  /\ IsFiniteSet(S) /\ Ranks(R, S) /\ Ranks(R, S \cup {e}) /\ e \notin S
         /\ I \in SUBSET S /\ IsFiniteSet(I)
<1>1. IsFiniteSet(S) /\ e \notin S /\ Ranks(R, S \cup {e}) /\ I = FirstOf(S, R, n)
  BY DEF Arrives
<1>2. Ranks(R, S)
  BY <1>1, RanksParts
<1>3. I \in SUBSET S
  BY <1>1 DEF FirstOf
<1> QED
  BY <1>1, <1>2, <1>3, PartsAreFinite

LEMMA HeapWithRoom ==
  ASSUME NEW S, NEW e, NEW R, NEW n \in Nat, NEW I, Arrives(S, e, R, n, I), Room(I, n)
  PROVE  I = S /\ Cardinality(S) < n
<1>1. IsFiniteSet(S) /\ Ranks(R, S) /\ I \in SUBSET S /\ IsFiniteSet(I) /\ I = FirstOf(S, R, n)
  BY HeapIs DEF Arrives
<1>2. Cardinality(I) \in Nat /\ Cardinality(S) \in Nat
  BY <1>1, FS_CardinalityType
<1>3. \/ I = S /\ Cardinality(S) <= n
      \/ Cardinality(I) = n /\ \A x \in I, y \in S \ I : <<x, y>> \in R
  BY <1>1, FirstIs
<1> QED
  BY <1>2, <1>3 DEF Room

LEMMA HeapIsFull ==
  ASSUME NEW S, NEW e, NEW R, NEW n \in Nat, NEW I, Arrives(S, e, R, n, I), ~Room(I, n)
  PROVE  Cardinality(I) = n /\ \A x \in I, y \in S \ I : <<x, y>> \in R
<1>1. IsFiniteSet(S) /\ Ranks(R, S) /\ I \in SUBSET S /\ IsFiniteSet(I) /\ I = FirstOf(S, R, n)
  BY HeapIs DEF Arrives
<1>2. Cardinality(I) \in Nat /\ Cardinality(S) \in Nat
  BY <1>1, FS_CardinalityType
<1>3. \/ I = S /\ Cardinality(S) <= n
      \/ Cardinality(I) = n /\ \A x \in I, y \in S \ I : <<x, y>> \in R
  BY <1>1, FirstIs
<1> QED
  BY <1>2, <1>3 DEF Room

\* A heap with room takes what arrives.
LEMMA HeapGrows ==
  ASSUME NEW S, NEW e, NEW R, NEW n \in Nat, NEW I, Arrives(S, e, R, n, I), Room(I, n)
  PROVE  I \cup {e} = FirstOf(S \cup {e}, R, n)
<1>1. IsFiniteSet(S) /\ e \notin S /\ Ranks(R, S \cup {e})
  BY HeapIs
<1>2. I = S /\ Cardinality(S) < n
  BY HeapWithRoom
<1>3. IsFiniteSet(S \cup {e}) /\ Cardinality(S \cup {e}) = Cardinality(S) + 1 /\ Cardinality(S) \in Nat
  BY <1>1, FS_AddElement, FS_CardinalityType
<1>4. Cardinality(S \cup {e}) <= n
  BY <1>2, <1>3
<1> QED
  BY <1>1, <1>2, <1>3, <1>4, FirstIs

\* A full heap takes it if it is in front of the last item, which leaves.
LEMMA HeapReplaces ==
  ASSUME NEW S, NEW e, NEW R, NEW n \in Nat, NEW I, Arrives(S, e, R, n, I), ~Room(I, n),
         NEW last \in I, \A x \in I : x = last \/ <<x, last>> \in R
  PROVE  FirstOf(S \cup {e}, R, n) = IF <<e, last>> \in R THEN (I \ {last}) \cup {e} ELSE I
<1> DEFINE U == S \cup {e}
<1>1. /\ IsFiniteSet(S) /\ e \notin S /\ Ranks(R, U)
      /\ I \in SUBSET S /\ IsFiniteSet(I)
  BY HeapIs
<1>2. Cardinality(I) = n
  BY HeapIsFull
<1>a. \A x \in I, y \in S \ I : <<x, y>> \in R
  BY HeapIsFull
<1>b. IsFiniteSet(U)
  BY <1>1, FS_AddElement
<1>3. ASSUME <<e, last>> \in R PROVE (I \ {last}) \cup {e} = FirstOf(U, R, n)
  <2> DEFINE J == (I \ {last}) \cup {e}
  <2>1. Cardinality(J) = n /\ J \in SUBSET U
    <3>1. IsFiniteSet(I \ {last}) /\ Cardinality(I \ {last}) = n - 1 /\ e \notin I \ {last}
      BY <1>1, <1>2, Without
    <3>2. Cardinality(J) = Cardinality(I \ {last}) + 1
      BY <3>1, FS_AddElement
    <3>3. Cardinality(J) = n
      BY <3>1, <3>2
    <3> QED
      BY <3>3, <1>1
  <2>2. ASSUME NEW x \in J, NEW y \in U \ J PROVE <<x, y>> \in R
    <3>1. y = last \/ (y \in S \ I /\ <<last, y>> \in R)
      BY <1>a
    <3>2. <<x, last>> \in R
      BY <1>3
    <3>3. x \in U /\ y \in U /\ last \in U
      BY <1>1, <2>1
    <3>4. Ranks(R, U)
      BY <1>1
    <3> HIDE DEF J, U
    <3> QED
      BY <3>1, <3>2, <3>3, <3>4 DEF Ranks
  <2> HIDE DEF J, U
  <2>3. J = FirstOf(U, R, n)
    BY <2>1, <2>2, <1>1, <1>2, <1>b, FirstIs DEF U
  <2> QED
    BY <2>3 DEF J
<1>4. ASSUME <<e, last>> \notin R PROVE I = FirstOf(U, R, n)
  <2>1. <<last, e>> \in R
    BY <1>1, <1>4 DEF Ranks
  <2>2. ASSUME NEW x \in I, NEW y \in U \ I PROVE <<x, y>> \in R
    <3>1. CASE y = e
      BY <3>1, <2>1, <1>1 DEF Ranks
    <3>2. CASE y # e
      BY <3>2, <1>a
    <3> QED
      BY <3>1, <3>2
  <2>3. I \in SUBSET U
    BY <1>1
  <2> HIDE DEF U
  <2> QED
    BY <2>2, <2>3, <1>1, <1>2, <1>b, FirstIs DEF U
<1> QED
  BY <1>3, <1>4

\* One that may hold nothing stays empty.
LEMMA HeapOfNone ==
  ASSUME NEW S, NEW e, NEW R, NEW n \in Nat, NEW I, Arrives(S, e, R, n, I), n = 0
  PROVE  I = FirstOf(S \cup {e}, R, n)
<1>1. IsFiniteSet(S) /\ e \notin S /\ Ranks(R, S \cup {e}) /\ I \in SUBSET S /\ IsFiniteSet(I)
  BY HeapIs
<1>2. IsFiniteSet(S \cup {e}) /\ Cardinality(I) \in Nat
  BY <1>1, FS_AddElement, FS_CardinalityType
<1>3. ~Room(I, n)
  BY <1>2 DEF Room
<1>4. Cardinality(I) = n
  BY <1>3, HeapIsFull
<1>5. I = {}
  BY <1>1, <1>4, FS_EmptySet
<1> QED
  BY <1>1, <1>2, <1>4, <1>5, FirstIs

-----------------------------------------------------------------------------
(***************************************************************************)
(* A statement and the rows it reads.                                      *)
(***************************************************************************)
LEMMA QueryFacts ==
  ASSUME query \in Query
  PROVE  /\ query.shape.group \in {"no", "a", "all"}
         /\ ~IsGrouped => Order.by \in {"", "a", "b"}
         /\ IsGrouped => Order.by \in {"", "a", "sum"}
         /\ query.shape.group = "all" => Order.by \in {"", "sum"}
         /\ Sorts => Order.by # ""
         /\ Order.desc \in BOOLEAN /\ query.filtered \in BOOLEAN
         /\ Offset \in Nat /\ Count \in Int /\ SortLimit \in Int
<1>1. /\ query.shape \in Plain \cup Grouped \cup Whole
      /\ query.filtered \in BOOLEAN /\ query.window \in Windows
  BY DEF Query
<1>2. /\ \A o \in Orders(Column) : o.by \in {"", "a", "b"} /\ o.desc \in BOOLEAN
      /\ \A o \in Orders({"a", "sum"}) : o.by \in {"", "a", "sum"} /\ o.desc \in BOOLEAN
      /\ \A o \in Orders({"sum"}) : o.by \in {"", "sum"} /\ o.desc \in BOOLEAN
      /\ \A o \in Orders(Column) \cup Orders({"a", "sum"}) \cup Orders({"sum"}) : o.by = "" => o = NoOrder
  <2>1. NoOrder.by = "" /\ NoOrder.desc \in BOOLEAN
    BY DEF NoOrder
  <2>2. ASSUME NEW C \in {Column, {"a", "sum"}, {"sum"}}, NEW o \in Orders(C)
        PROVE  (o = NoOrder \/ (o.by \in C /\ o.by # "")) /\ o.desc \in BOOLEAN
    <3>1. "" \notin C
      <4>1. "" \notin Column /\ "" \notin {"a", "sum"} /\ "" \notin {"sum"}
        BY DEF Column
      <4> QED
        BY <4>1
    <3>2. o = NoOrder \/ o \in [by : C, desc : BOOLEAN]
      BY DEF Orders
    <3> QED
      BY <2>1, <3>1, <3>2
  <2> QED
    BY <2>1, <2>2 DEF Column
<1>3. /\ query.shape \in Plain => query.shape.group = "no" /\ Order \in Orders(Column)
      /\ query.shape \in Grouped => query.shape.group = "a" /\ Order \in Orders({"a", "sum"})
      /\ query.shape \in Whole => query.shape.group = "all" /\ Order \in Orders({"sum"})
  BY DEF Plain, Grouped, Whole, Order
<1>4. Offset \in Nat /\ Count \in Int
  <2>1. SignBit \in Nat
    BY ByteRange
  <2> QED
    BY <1>1, <2>1, WindowsAssumption DEF Offset, Count
<1>5. SortLimit \in Int
  <2>1. Wrap(Count + Offset) \in Int
    BY <1>4, WrapFacts, ByteRange
  <2> QED
    BY <2>1 DEF SortLimit
<1>6. query.shape.group \in {"no", "a", "all"} /\ Order.desc \in BOOLEAN
  BY <1>1, <1>2, <1>3
<1>7. ~IsGrouped => Order.by \in {"", "a", "b"}
  BY <1>1, <1>2, <1>3 DEF IsGrouped
<1>8. IsGrouped => Order.by \in {"", "a", "sum"}
  BY <1>1, <1>2, <1>3 DEF IsGrouped
<1>9. query.shape.group = "all" => Order.by \in {"", "sum"}
  BY <1>1, <1>2, <1>3
<1>10. Sorts => Order.by # ""
  BY <1>1, <1>2, <1>3 DEF Sorts
<1> QED
  BY <1>1, <1>4, <1>5, <1>6, <1>7, <1>8, <1>9, <1>10

LEMMA RowFacts ==
  \A r \in Row : r["a"] \in ValuesOfA /\ r["b"] \in ValuesOf("INT") \cup {Null}
BY ValuesOfBAssumption DEF Row

\* What the operators above the scan are given of a row.
LEMMA DecodedIs ==
  ASSUME query \in Query, NEW r
  PROVE  /\ query.filtered => Decoded(r).b = r.b
         /\ query.shape.group = "a" => Decoded(r).a = r.a
         /\ IsGrouped /\ Aggregated => Decoded(r).b = r.b
         /\ Decoded(r).b \in {r.b, Null} /\ Decoded(r).a \in {r.a, Null}
         /\ ~IsGrouped /\ Sorts => Decoded(r)[Order.by] = r[Order.by]
         /\ Passes(r) <=> (raw /\ query.filtered => r.b # Null)
<1>1. \A c \in Column : Decoded(r)[c] = IF c \in Mask THEN r[c] ELSE Null
  BY DEF Decoded
<1>2. query.filtered => "b" \in Mask
  BY DEF Mask, Column
<1>3. query.shape.group = "a" => "a" \in Mask
  BY DEF Mask, Column, IsGrouped
<1>4. IsGrouped /\ Aggregated => "b" \in Mask
  <2> SUFFICES ASSUME IsGrouped, Aggregated PROVE "b" \in Mask
    OBVIOUS
  <2>1. PICK call \in ToSet(Select) \cup {Order.by} : call \notin {"a", "rows", ""}
    BY DEF Aggregated
  <2> QED
    BY <2>1 DEF Mask, Column
<1>5. ~IsGrouped /\ Sorts => Order.by \in Mask /\ Order.by \in Column
  BY QueryFacts DEF Mask, Column
<1> QED
  BY <1>1, <1>2, <1>3, <1>4, <1>5 DEF Column, Passes

\* The scan goes on by one row.
LEMMA ScanStep ==
  ASSUME query \in Query, Feeding, raw, feed # <<>>, feed' = Tail(feed), UNCHANGED <<query, input, raw>>,
         NEW p, p = Len(input) - Len(feed)
  PROVE  /\ p \in Nat /\ p + 1 \in 1 .. Len(input) /\ Head(feed) = input[p + 1]
         /\ input[p + 1] \in Row
         /\ Len(input') - Len(feed') = p + 1
         /\ \E n \in 0 .. Len(input') : feed' = SubSeq(input', n + 1, Len(input'))
         /\ p + 1 \notin Taken /\ Taken \in SUBSET (1 .. p)
         /\ Taken' = IF query.filtered => input[p + 1].b # Null THEN Taken \cup {p + 1} ELSE Taken
<1>1. PICK n \in 0 .. Len(input) : feed = SubSeq(input, n + 1, Len(input))
  BY DEF Feeding
<1>2. input \in Seq(Row) /\ Len(input) \in Nat
  BY DEF Feeding
<1>3. feed \in Seq(Row) /\ Len(feed) = Len(input) - n /\ n = p /\ n \in Nat
  BY <1>1, <1>2
<1>4. n < Len(input)
  BY <1>1, <1>2, <1>3
<1>5. Head(feed) = input[n + 1]
  BY <1>1, <1>2, <1>4
<1>6. Tail(feed) = SubSeq(input, (n + 1) + 1, Len(input))
  BY <1>1, <1>2, <1>4
<1>7. Len(feed') = Len(input) - (n + 1)
  BY <1>3, <1>4
<1>8. Len(input') - Len(feed') = p + 1
  BY <1>2, <1>3, <1>7
<1>0. DOMAIN input = 1 .. Len(input)
  BY <1>2
<1>9. Taken \in SUBSET (1 .. p)
  BY <1>0, <1>2, <1>3 DEF Taken, Kept
<1>10. p + 1 \notin 1 .. p
  BY <1>3
<1>11. \A i : i \in 1 .. p + 1 <=> i \in 1 .. p \/ i = p + 1
  BY <1>3
<1>12. Taken' = {i \in 1 .. p + 1 : query.filtered => input[i].b # Null}
  <2>1. Taken' = {i \in Kept : i <= p + 1}
    BY <1>8 DEF Taken, Kept
  <2>2. \A i : i \in 1 .. p + 1 <=> i \in 1 .. Len(input) /\ i <= p + 1
    BY <1>2, <1>3, <1>4
  <2> QED
    BY <2>1, <2>2, <1>0 DEF Kept
<1>13. Taken = {i \in 1 .. p : query.filtered => input[i].b # Null}
  <2>1. Taken = {i \in Kept : i <= p}
    BY DEF Taken
  <2>2. \A i : i \in 1 .. p <=> i \in 1 .. Len(input) /\ i <= p
    BY <1>2, <1>3, <1>4
  <2> QED
    BY <2>1, <2>2, <1>0 DEF Kept
<1>14. Taken' = IF query.filtered => input[p + 1].b # Null THEN Taken \cup {p + 1} ELSE Taken
  BY <1>10, <1>11, <1>12, <1>13
<1>15. p \in Nat /\ p + 1 \in 1 .. Len(input) /\ p + 1 \in 0 .. Len(input)
  BY <1>2, <1>3, <1>4
<1>16. input[p + 1] \in Row
  BY <1>2, <1>15
<1>17. \E k \in 0 .. Len(input') : feed' = SubSeq(input', k + 1, Len(input'))
  BY <1>3, <1>6, <1>15
<1> QED
  BY <1>3, <1>5, <1>8, <1>9, <1>10, <1>14, <1>15, <1>16, <1>17

-----------------------------------------------------------------------------
(***************************************************************************)
(* Items of a Sort.                                                        *)
(***************************************************************************)
EarlierOn(S) == {p \in S \X S : Earlier(p[1], p[2])}

LEMMA EarlierIs ==
  \A S, T : S \subseteq T => \A x, y \in S : <<x, y>> \in EarlierOn(T) <=> Earlier(x, y)
BY DEF EarlierOn

LEMMA EarlierRanks ==
  ASSUME query \in Query, NEW S,
         \A x \in S : x.row[Order.by] \in SortValues /\ x.seq \in Nat,
         \A x, y \in S : x.seq = y.seq => x = y
  PROVE  Ranks(EarlierOn(S), S)
<1>1. PICK kind \in {"BOOL", "INT", "FLOAT", "TEXT"} : SortValues \subseteq ValuesOf(kind) \cup {Null}
  <2>1. CASE Order.by = "a"
    BY <2>1, ValuesOfAAssumption DEF SortValues
  <2>2. CASE Order.by # "a"
    BY <2>2 DEF SortValues
  <2> QED
    BY <2>1, <2>2
<1>2. \A a, b, c \in SortValues : /\ Before(a, b) => ~Before(b, a)
                                  /\ Before(a, c) => Before(a, b) \/ Before(b, c)
  BY <1>1, WeakOrder
<1>3. \A x, y, z \in S : /\ Precedes(x.row, y.row) => ~Precedes(y.row, x.row)
                         /\ Precedes(x.row, z.row) => Precedes(x.row, y.row) \/ Precedes(y.row, z.row)
  <2> SUFFICES ASSUME NEW x \in S, NEW y \in S, NEW z \in S
               PROVE  /\ Precedes(x.row, y.row) => ~Precedes(y.row, x.row)
                      /\ Precedes(x.row, z.row) => Precedes(x.row, y.row) \/ Precedes(y.row, z.row)
    OBVIOUS
  <2> DEFINE a == x.row[Order.by]
             b == y.row[Order.by]
             c == z.row[Order.by]
  <2>1. a \in SortValues /\ b \in SortValues /\ c \in SortValues
    OBVIOUS
  <2>2. /\ Precedes(x.row, y.row) <=> IF Order.desc THEN Before(b, a) ELSE Before(a, b)
        /\ Precedes(y.row, x.row) <=> IF Order.desc THEN Before(a, b) ELSE Before(b, a)
        /\ Precedes(x.row, z.row) <=> IF Order.desc THEN Before(c, a) ELSE Before(a, c)
        /\ Precedes(y.row, z.row) <=> IF Order.desc THEN Before(c, b) ELSE Before(b, c)
    BY DEF Precedes
  <2> HIDE DEF a, b, c
  <2>3. /\ Before(a, b) => ~Before(b, a)
        /\ Before(a, c) => Before(a, b) \/ Before(b, c)
        /\ Before(c, a) => Before(c, b) \/ Before(b, a)
    BY <2>1, <1>2
  <2> QED
    BY <2>2, <2>3
<1>4. \A x, y \in S : Earlier(x, y) <=> \/ Precedes(x.row, y.row)
                                        \/ ~Precedes(y.row, x.row) /\ x.seq < y.seq
  BY DEF Earlier
<1>5. \A x \in S : ~Earlier(x, x)
  BY <1>3, <1>4
<1>6. \A x, y \in S : x = y \/ Earlier(x, y) \/ Earlier(y, x)
  <2> SUFFICES ASSUME NEW x \in S, NEW y \in S, x # y PROVE Earlier(x, y) \/ Earlier(y, x)
    OBVIOUS
  <2>1. x.seq < y.seq \/ y.seq < x.seq
    OBVIOUS
  <2> QED
    BY <2>1, <1>4
<1>7. \A x, y, z \in S : Earlier(x, y) /\ Earlier(y, z) => Earlier(x, z)
  <2> SUFFICES ASSUME NEW x \in S, NEW y \in S, NEW z \in S, Earlier(x, y), Earlier(y, z)
               PROVE  Earlier(x, z)
    OBVIOUS
  <2>1. x.seq < y.seq /\ y.seq < z.seq => x.seq < z.seq
    OBVIOUS
  <2> QED
    BY <2>1, <1>3, <1>4
<1> QED
  BY <1>5, <1>6, <1>7 DEF Ranks, EarlierOn

\* The root of a heap is the last of its items.
LEMMA RootIs ==
  ASSUME NEW S, IsFiniteSet(S), S # {}, Ranks(EarlierOn(S), S)
  PROVE  Root(S) \in S /\ \A x \in S : x = Root(S) \/ Earlier(x, Root(S))
<1>1. \E x \in S : \A y \in S : y = x \/ <<y, x>> \in EarlierOn(S)
  BY LastExists
<1>2. \E x \in S : \A y \in S : y = x \/ Earlier(y, x)
  BY <1>1, EarlierIs
<1> QED
  BY <1>2 DEF Root

-----------------------------------------------------------------------------
(***************************************************************************)
(* Accumulators and group keys.                                            *)
(***************************************************************************)
IsAcc(acc) == /\ acc = [rows |-> acc.rows, count |-> acc.count, sum |-> acc.sum, min |-> acc.min, max |-> acc.max]
              /\ \A c \in {"sum", "min", "max"} : acc[c] \in ValuesOf("INT") \cup {Null}

LEMMA NewIsAcc == IsAcc(NewAccumulators)
BY DEF IsAcc, NewAccumulators

LEMMA AddIsAcc ==
  ASSUME NEW acc, IsAcc(acc), NEW v \in ValuesOf("INT") \cup {Null}
  PROVE  IsAcc(Add(acc, v)) /\ Add(acc, v).rows = acc.rows + 1
<1>1. CASE v = Null
  <2>1. Add(acc, v) = [acc EXCEPT !.rows = acc.rows + 1]
    BY <1>1 DEF Add
  <2>2. Add(acc, v) = [rows |-> acc.rows + 1, count |-> acc.count, sum |-> acc.sum, min |-> acc.min, max |-> acc.max]
    BY <2>1 DEF IsAcc
  <2> QED
    BY <2>2 DEF IsAcc
<1>2. CASE v # Null
  <2> DEFINE sum == IF acc.sum = Null THEN v ELSE Value("INT", Wrap(acc.sum.v + v.v))
             min == IF acc.min = Null \/ Before(v, acc.min) THEN v ELSE acc.min
             max == IF acc.max = Null \/ Before(acc.max, v) THEN v ELSE acc.max
  <2>1. Add(acc, v) = [rows |-> acc.rows + 1, count |-> acc.count + 1, sum |-> sum, min |-> min, max |-> max]
    BY <1>2 DEF Add
  <2>2. v \in ValuesOf("INT")
    BY <1>2
  <2>3. acc.sum \in ValuesOf("INT") \cup {Null} /\ acc.min \in ValuesOf("INT") \cup {Null}
        /\ acc.max \in ValuesOf("INT") \cup {Null}
    BY DEF IsAcc
  <2>4. sum \in ValuesOf("INT")
    <3>1. CASE acc.sum = Null
      BY <3>1, <2>2
    <3>2. CASE acc.sum # Null
      <4>1. acc.sum \in ValuesOf("INT")
        BY <3>2, <2>3
      <4>2. acc.sum.v \in Int /\ v.v \in Int
        BY <4>1, <2>2, Integers
      <4> DEFINE n == acc.sum.v + v.v
      <4>3. n \in Int
        BY <4>2
      <4> HIDE DEF n
      <4>4. Wrap(n) \in -SignBit .. SignBit - 1
        BY <4>3, WrapFacts
      <4> QED
        BY <4>4, <3>2, Integers DEF n
    <3> QED
      BY <3>1, <3>2
  <2>5. min \in ValuesOf("INT") \cup {Null} /\ max \in ValuesOf("INT") \cup {Null}
    BY <2>2, <2>3
  <2> HIDE DEF sum, min, max
  <2> QED
    BY <2>1, <2>4, <2>5 DEF IsAcc
<1> QED
  BY <1>1, <1>2

LEMMA GroupKeyFacts ==
  ASSUME query \in Query, NEW r \in Row
  PROVE  GroupKey(r) \in Bytes /\ GroupKey(Decoded(r)) = GroupKey(r)
<1>1. r.a \in ValuesOfA
  BY RowFacts
<1>2. PICK kind \in {"BOOL", "INT", "FLOAT", "TEXT"} : ValuesOfA \subseteq ValuesOf(kind) \cup {Null}
  BY ValuesOfAAssumption
<1>3. IsValue(r.a)
  <2>1. CASE r.a \in ValuesOf(kind)
    BY <2>1, ValuesAreValues
  <2>2. CASE r.a = Null
    BY <2>2 DEF IsValue
  <2> QED
    BY <1>1, <1>2, <2>1, <2>2
<1>4. Encode(r.a) \in Bytes /\ <<>> \in Bytes
  BY <1>3, EncodeType, CatFacts
<1>5. query.shape.group = "a" => Decoded(r).a = r.a
  BY DecodedIs
<1> QED
  BY <1>4, <1>5 DEF GroupKey

\* A statement keeps its clauses.
LEMMA SameQuery ==
  ASSUME UNCHANGED query
  PROVE  /\ Order' = Order /\ Select' = Select /\ Count' = Count /\ Offset' = Offset
         /\ (IsGrouped' <=> IsGrouped) /\ (Sorts' <=> Sorts) /\ SortLimit' = SortLimit
         /\ SortValues' = SortValues /\ (Aggregated' <=> Aggregated) /\ Mask' = Mask
BY DEF Order, Select, Count, Offset, IsGrouped, Sorts, SortLimit, SortValues, Aggregated, Mask

\* The rows an aggregation becomes can be sorted by what they are sorted by.
LEMMA ResultIs ==
  ASSUME query \in Query, IsGrouped, Sorts, NEW g, g.value \in ValuesOfA \cup {Null}, IsAcc(g.acc)
  PROVE  Result(g)[Order.by] \in SortValues
<1>1. Order.by \in {"a", "sum"}
  BY QueryFacts
<1>2. Result(g)["a"] = g.value /\ Result(g)["sum"] = g.acc.sum
  BY DEF Result
<1>3. g.acc.sum \in ValuesOf("INT") \cup {Null}
  BY DEF IsAcc
<1>4. CASE Order.by = "a"
  BY <1>4, <1>2 DEF SortValues
<1>5. CASE Order.by = "sum"
  BY <1>5, <1>2, <1>3 DEF SortValues
<1> QED
  BY <1>1, <1>4, <1>5

-----------------------------------------------------------------------------
(***************************************************************************)
(* Elements in a row.                                                      *)
(***************************************************************************)
\* The numbers up to n.
LEMMA UpTo == ASSUME NEW n \in Nat PROVE IsFiniteSet(1 .. n) /\ Cardinality(1 .. n) = n
<1>1. IsFiniteSet(1 .. n) /\ Cardinality(1 .. n) = IF 1 > n THEN 0 ELSE n - 1 + 1
  BY FS_Interval
<1> QED
  BY <1>1

\* A place in an arrangement, and the element there.
LEMMA ArrangementFacts ==
  ASSUME NEW S, IsFiniteSet(S), NEW R, Ranks(R, S), NEW s, Arranges(s, R, S)
  PROVE  /\ Cardinality(S) \in Nat
         /\ s \in [1 .. Cardinality(S) -> S]
         /\ \A i, j \in 1 .. Cardinality(S) : <<s[i], s[j]>> \in R <=> i < j
         /\ \A i, j \in 1 .. Cardinality(S) : s[i] = s[j] => i = j
         /\ \A x \in S : \E k \in 1 .. Cardinality(S) : s[k] = x
<1> DEFINE n == Cardinality(S)
<1>1. n \in Nat
  BY FS_CardinalityType
<1>2. s \in [1 .. n -> S] /\ \A i, j \in 1 .. n : i < j => <<s[i], s[j]>> \in R
  BY DEF Arranges
<1> HIDE DEF n
<1>3. \A i \in 1 .. n : s[i] \in S
  BY <1>2
<1>4. \A i, j \in 1 .. n : s[i] = s[j] => i = j
  <2> SUFFICES ASSUME NEW i \in 1 .. n, NEW j \in 1 .. n, s[i] = s[j], i # j PROVE FALSE
    OBVIOUS
  <2>1. i < j \/ j < i
    BY <1>1
  <2>2. <<s[i], s[i]>> \in R
    BY <2>1, <1>2
  <2> QED
    BY <2>2, <1>3 DEF Ranks
<1>5. \A i, j \in 1 .. n : <<s[i], s[j]>> \in R <=> i < j
  <2> SUFFICES ASSUME NEW i \in 1 .. n, NEW j \in 1 .. n, <<s[i], s[j]>> \in R, ~(i < j) PROVE FALSE
    BY <1>2
  <2>1. i = j \/ j < i
    BY <1>1
  <2>2. s[i] \in S /\ s[j] \in S
    BY <1>3
  <2>3. CASE i = j
    BY <2>2, <2>3 DEF Ranks
  <2>4. CASE j < i
    <3>1. <<s[j], s[i]>> \in R
      BY <2>4, <1>2
    <3> QED
      BY <3>1, <2>2 DEF Ranks
  <2> QED
    BY <2>1, <2>3, <2>4
<1>6. s \in Injection(1 .. n, S)
  BY <1>2, <1>4 DEF Injection, IsInjective
<1>7. IsFiniteSet(1 .. n) /\ Cardinality(1 .. n) = n
  BY <1>1, UpTo
<1>8. s \in Surjection(1 .. n, S)
  BY <1>6, <1>7, FS_Injection DEF n
<1>9. \A x \in S : \E k \in 1 .. n : s[k] = x
  BY <1>8 DEF Surjection
<1> QED
  BY <1>1, <1>2, <1>4, <1>5, <1>9 DEF n

LEMMA ArrangedPlace ==
  ASSUME NEW S, IsFiniteSet(S), NEW R, Ranks(R, S), NEW s, Arranges(s, R, S),
         NEW k \in 1 .. Cardinality(S)
  PROVE  Cardinality({y \in S : <<y, s[k]>> \in R}) = k - 1
<1> DEFINE n == Cardinality(S)
           P == {y \in S : <<y, s[k]>> \in R}
           f == [j \in 1 .. k - 1 |-> s[j]]
<1>1. /\ n \in Nat /\ s \in [1 .. n -> S]
      /\ \A i, j \in 1 .. n : <<s[i], s[j]>> \in R <=> i < j
      /\ \A i, j \in 1 .. n : s[i] = s[j] => i = j
      /\ \A x \in S : \E i \in 1 .. n : s[i] = x
  BY ArrangementFacts
<1> HIDE DEF n
<1>2. k \in 1 .. n /\ \A j \in 1 .. k - 1 : j \in 1 .. n /\ j < k
  BY <1>1 DEF n
<1>3. \A j \in 1 .. k - 1 : f[j] \in P
  BY <1>1, <1>2
<1>4. \A x \in P : \E j \in 1 .. k - 1 : f[j] = x
  <2> SUFFICES ASSUME NEW x \in P PROVE \E j \in 1 .. k - 1 : s[j] = x
    OBVIOUS
  <2>1. PICK j \in 1 .. n : s[j] = x
    BY <1>1
  <2>2. j < k
    BY <2>1, <1>1, <1>2
  <2>3. j \in 1 .. k - 1
    BY <2>2, <1>1, <1>2
  <2> QED
    BY <2>1, <2>3
<1>5. \A i, j \in 1 .. k - 1 : f[i] = f[j] => i = j
  BY <1>1, <1>2
<1> HIDE DEF P
<1>6. f \in [1 .. k - 1 -> P]
  BY <1>3
<1>7. f \in Bijection(1 .. k - 1, P)
  <2> HIDE DEF f
  <2> QED
    BY <1>4, <1>5, <1>6 DEF Bijection, Injection, Surjection, IsInjective
<1>8. ExistsBijection(1 .. k - 1, P)
  BY <1>7 DEF ExistsBijection
<1>9. IsFiniteSet(1 .. k - 1) /\ Cardinality(1 .. k - 1) = k - 1
  <2>1. k - 1 \in Nat
    BY <1>1, <1>2
  <2> QED
    BY <2>1, UpTo
<1> QED
  BY <1>8, <1>9, FS_Bijection DEF P

LEMMA PlaceArranged ==
  ASSUME NEW S, IsFiniteSet(S), NEW R, Ranks(R, S), NEW s, Arranges(s, R, S),
         NEW x \in S, NEW k, k = Cardinality({y \in S : <<y, x>> \in R}) + 1
  PROVE  k \in 1 .. Cardinality(S) /\ s[k] = x
<1>1. Cardinality(S) \in Nat /\ \E i \in 1 .. Cardinality(S) : s[i] = x
  BY ArrangementFacts
<1>2. PICK i \in 1 .. Cardinality(S) : s[i] = x
  BY <1>1
<1>3. Cardinality({y \in S : <<y, x>> \in R}) = i - 1
  BY <1>2, ArrangedPlace
<1>4. k = i
  BY <1>1, <1>3
<1> QED
  BY <1>2, <1>4

\* There is one arrangement.
LEMMA OneArrangement ==
  ASSUME NEW S, IsFiniteSet(S), NEW R, Ranks(R, S), NEW s, Arranges(s, R, S), NEW t, Arranges(t, R, S)
  PROVE  s = t
<1> DEFINE n == Cardinality(S)
<1>1. n \in Nat /\ s \in [1 .. n -> S] /\ t \in [1 .. n -> S]
  BY ArrangementFacts
<1>2. ASSUME NEW k \in 1 .. n PROVE s[k] = t[k]
  <2>1. Cardinality({y \in S : <<y, t[k]>> \in R}) = k - 1
    BY ArrangedPlace
  <2>2. t[k] \in S /\ k = (k - 1) + 1
    BY <1>1
  <2> DEFINE x == t[k]
  <2> HIDE DEF x
  <2>3. x \in S /\ k = Cardinality({y \in S : <<y, x>> \in R}) + 1
    BY <2>1, <2>2 DEF x
  <2>4. s[k] = x
    BY <2>3, PlaceArranged
  <2> QED
    BY <2>4 DEF x
<1> QED
  BY <1>1, <1>2

\* The first n of a set are where an arrangement of it begins.
LEMMA FirstArranged ==
  ASSUME NEW S, IsFiniteSet(S), NEW R, Ranks(R, S), NEW s, Arranges(s, R, S), NEW n \in Int,
         NEW m, m = IF n >= 0 /\ n < Cardinality(S) THEN n ELSE Cardinality(S)
  PROVE  /\ m \in 0 .. Cardinality(S) /\ Cardinality(FirstOf(S, R, n)) = m
         /\ Arranges([k \in 1 .. m |-> s[k]], R, FirstOf(S, R, n))
<1> DEFINE N == Cardinality(S)
           F == FirstOf(S, R, n)
           f == [k \in 1 .. m |-> s[k]]
<1>1. /\ N \in Nat /\ s \in [1 .. N -> S]
      /\ \A i, j \in 1 .. N : <<s[i], s[j]>> \in R <=> i < j
      /\ \A i, j \in 1 .. N : s[i] = s[j] => i = j
      /\ \A x \in S : \E i \in 1 .. N : s[i] = x
  BY ArrangementFacts
<1>2. \A k \in 1 .. N : Cardinality({y \in S : <<y, s[k]>> \in R}) = k - 1
  BY ArrangedPlace
<1>3. \A k \in 1 .. N : s[k] \in F <=> (n < 0 \/ k - 1 < n)
  BY <1>1, <1>2 DEF FirstOf
<1>4. F \in SUBSET S
  BY DEF FirstOf
<1>5. m = IF n >= 0 /\ n < N THEN n ELSE N
  OBVIOUS
<1> HIDE DEF N, F
<1>6. m \in 0 .. N /\ \A k \in 1 .. N : (n < 0 \/ k - 1 < n) <=> k \in 1 .. m
  BY <1>1, <1>5
<1>7. \A k \in 1 .. m : k \in 1 .. N /\ f[k] = s[k] /\ f[k] \in F
  BY <1>1, <1>3, <1>6
<1>8. \A x \in F : \E k \in 1 .. m : f[k] = x
  <2> SUFFICES ASSUME NEW x \in F PROVE \E k \in 1 .. m : s[k] = x
    OBVIOUS
  <2>1. PICK k \in 1 .. N : s[k] = x
    BY <1>1, <1>4
  <2>2. k \in 1 .. m
    BY <2>1, <1>3, <1>6
  <2> QED
    BY <2>1, <2>2
<1>9. \A i, j \in 1 .. m : (f[i] = f[j] => i = j) /\ (i < j => <<f[i], f[j]>> \in R)
  BY <1>1, <1>7
<1>10. f \in [1 .. m -> F]
  BY <1>7
<1> HIDE DEF f
<1>11. f \in Bijection(1 .. m, F)
  BY <1>8, <1>9, <1>10 DEF Bijection, Injection, Surjection, IsInjective
<1>12. IsFiniteSet(1 .. m) /\ Cardinality(1 .. m) = m
  <2>1. m \in Nat
    BY <1>1, <1>6
  <2> QED
    BY <2>1, UpTo
<1>13. Cardinality(F) = m
  <2>1. ExistsBijection(1 .. m, F)
    BY <1>11 DEF ExistsBijection
  <2> QED
    BY <2>1, <1>12, FS_Bijection
<1>14. Arranges(f, R, F)
  BY <1>9, <1>10, <1>13 DEF Arranges
<1> QED
  BY <1>6, <1>13, <1>14 DEF f, F, N

\* Numbers in their order.
LessOn(S) == {p \in S \X S : p[1] < p[2]}

LEMMA NumbersAscend ==
  ASSUME NEW S \in SUBSET Nat, IsFiniteSet(S), NEW e, e = InARow(S)
  PROVE  Ranks(LessOn(S), S) /\ Arranges(e, LessOn(S), S)
<1>1. \A x, y \in S : <<x, y>> \in LessOn(S) <=> x < y
  BY DEF LessOn
<1>2. Ranks(LessOn(S), S)
  BY <1>1 DEF Ranks
<1>3. PICK s : Arranges(s, LessOn(S), S)
  BY <1>2, ArrangementExists
<1>4. s \in [1 .. Cardinality(S) -> S] /\ \A i, j \in DOMAIN s : i < j => s[i] < s[j]
  BY <1>1, <1>3 DEF Arranges
<1>5. e \in [1 .. Cardinality(S) -> S] /\ \A i, j \in DOMAIN e : i < j => e[i] < e[j]
  BY <1>4 DEF Ascending, InARow
<1> QED
  BY <1>1, <1>2, <1>5 DEF Arranges

\* The place of a number among others.
LEMMA NumberAt ==
  ASSUME NEW S \in SUBSET Nat, IsFiniteSet(S), NEW e, e = InARow(S), NEW x \in S,
         NEW k, k = Cardinality({y \in S : y < x}) + 1
  PROVE  k \in 1 .. Cardinality(S) /\ e[k] = x
<1>1. Ranks(LessOn(S), S) /\ Arranges(e, LessOn(S), S)
  BY NumbersAscend
<1>2. {y \in S : y < x} = {y \in S : <<y, x>> \in LessOn(S)}
  BY DEF LessOn
<1> QED
  BY <1>1, <1>2, PlaceArranged

\* Keys in the order of bytes.
BytesOn(S) == {p \in S \X S : BytesBefore(p[1], p[2])}

LEMMA KeysArranged ==
  ASSUME NEW S \in SUBSET Bytes, IsFiniteSet(S)
  PROVE  Ranks(BytesOn(S), S) /\ Arranges(Ascending(S, BytesBefore), BytesOn(S), S)
<1>1. \A x, y \in S : <<x, y>> \in BytesOn(S) <=> BytesBefore(x, y)
  BY DEF BytesOn
<1>2. Ranks(BytesOn(S), S)
  BY <1>1, BytesTotal, BytesTransitive, BytesIrreflexive DEF Ranks
<1>3. PICK s : Arranges(s, BytesOn(S), S)
  BY <1>2, ArrangementExists
<1>4. s \in [1 .. Cardinality(S) -> S] /\ \A i, j \in DOMAIN s : i < j => BytesBefore(s[i], s[j])
  BY <1>1, <1>3 DEF Arranges
<1> DEFINE e == Ascending(S, BytesBefore)
<1>5. e \in [1 .. Cardinality(S) -> S] /\ \A i, j \in DOMAIN e : i < j => BytesBefore(e[i], e[j])
  BY <1>4 DEF Ascending
<1> HIDE DEF e
<1>6. Arranges(e, BytesOn(S), S)
  BY <1>1, <1>5 DEF Arranges
<1> QED
  BY <1>2, <1>6 DEF e

\* Values in their order, if none of them has its key elsewhere.
ValuesOn(S) == {p \in S \X S : ByValue(p[1], p[2])}

LEMMA ValueAgainstValue ==
  ASSUME NEW kind \in {"BOOL", "INT", "FLOAT", "TEXT"}, NEW x \in ValuesOf(kind) \cup {Null},
         NEW y \in ValuesOf(kind) \cup {Null}, x # NegativeNaN, y # NegativeNaN
  PROVE  ByValue(x, y) <=> BytesBefore(Encode(x), Encode(y))
<1>1. IsValue(x) /\ IsValue(y)
  BY ValuesAreValues DEF IsValue
<1>2. Encode(x) \in Bytes /\ Encode(y) \in Bytes
  BY <1>1, EncodeType
<1>3. Before(x, y) => BytesBefore(Encode(x), Encode(y))
  BY <1>1, EncodeInOrder, SplitsBefore
<1>4. Before(y, x) => BytesBefore(Encode(y), Encode(x))
  BY <1>1, EncodeInOrder, SplitsBefore
<1>5. ~(BytesBefore(Encode(x), Encode(y)) /\ BytesBefore(Encode(y), Encode(x)))
  BY <1>2, BytesTransitive, BytesIrreflexive
<1> QED
  BY <1>3, <1>4, <1>5 DEF ByValue

\* There is one value for an encoding.
LEMMA EncodeOnce ==
  ASSUME NEW x, NEW y, IsValue(x), IsValue(y), NEW s \in Bytes, NEW t \in Bytes,
         Cat(Encode(x), s) = Cat(Encode(y), t)
  PROVE  x = y /\ s = t
<1>1. /\ Decode(Cat(Encode(x), s)) = [value |-> x, rest |-> s, ok |-> TRUE]
      /\ Decode(Cat(Encode(y), t)) = [value |-> y, rest |-> t, ok |-> TRUE]
  BY DecodeInverts
<1>2. [value |-> x, rest |-> s, ok |-> TRUE] = [value |-> y, rest |-> t, ok |-> TRUE]
  BY <1>1
<1> QED
  BY <1>2

LEMMA EncodeApart ==
  ASSUME NEW x, NEW y, IsValue(x), IsValue(y), Encode(x) = Encode(y)
  PROVE  x = y
<1>1. <<>> \in Bytes
  BY CatFacts
<1>2. Cat(Encode(x), <<>>) = Cat(Encode(y), <<>>)
  OBVIOUS
<1> QED
  BY <1>1, <1>2, EncodeOnce

-----------------------------------------------------------------------------
(***************************************************************************)
(* Rows as DISTINCT knows them.                                            *)
(***************************************************************************)
\* Rows that are encoded for DISTINCT: what has been put together of the first
\* columns.
Joins(f, s, n) == f = [i \in 1 .. n |-> IF i = 1 THEN s[i] ELSE f[i - 1] \o s[i]]

LEMMA JoinsExist == ASSUME NEW s, NEW n \in Nat PROVE \E f : Joins(f, s, n)
<1> DEFINE T == {k \in Nat : \E f : Joins(f, s, k)}
<1>1. 0 \in T
  <2>1. Joins([i \in 1 .. 0 |-> i], s, 0)
    BY DEF Joins
  <2> QED
    BY <2>1
<1>2. ASSUME NEW k \in Nat, k \in T PROVE k + 1 \in T
  <2> PICK f : Joins(f, s, k)
    BY <1>2
  <2> DEFINE last == IF k + 1 = 1 THEN s[k + 1] ELSE f[k] \o s[k + 1]
             g == [i \in 1 .. k + 1 |-> IF i = k + 1 THEN last ELSE f[i]]
  <2>1. \A i \in 1 .. k : f[i] = IF i = 1 THEN s[i] ELSE f[i - 1] \o s[i]
    BY DEF Joins
  <2>2. \A i \in 1 .. k + 1 : i = k + 1 \/ i \in 1 .. k
    OBVIOUS
  <2>3. /\ \A i \in 1 .. k : i # k + 1 /\ i \in 1 .. k + 1 /\ (i # 1 => i - 1 \in 1 .. k)
        /\ k + 1 \in 1 .. k + 1 /\ (k + 1 # 1 => k \in 1 .. k) /\ (k + 1) - 1 = k
    OBVIOUS
  <2> HIDE DEF last
  <2>4. \A i \in 1 .. k : g[i] = f[i]
    BY <2>3
  <2>5. g[k + 1] = last
    BY <2>3
  <2> HIDE DEF g
  <2>6. \A i \in 1 .. k : g[i] = IF i = 1 THEN s[i] ELSE g[i - 1] \o s[i]
    BY <2>1, <2>3, <2>4
  <2>7. g[k + 1] = IF k + 1 = 1 THEN s[k + 1] ELSE g[(k + 1) - 1] \o s[k + 1]
    BY <2>3, <2>4, <2>5 DEF last
  <2>8. \A i \in 1 .. k + 1 : g[i] = IF i = 1 THEN s[i] ELSE g[i - 1] \o s[i]
    BY <2>2, <2>6, <2>7
  <2>9. g = [i \in 1 .. k + 1 |-> IF i = 1 THEN s[i] ELSE g[i - 1] \o s[i]]
    BY <2>8 DEF g
  <2>10. Joins(g, s, k + 1)
    BY ONLY <2>9, Zenon DEF Joins
  <2>11. k + 1 \in Nat
    OBVIOUS
  <2> QED
    BY <2>10, <2>11
<1> HIDE DEF T
<1>3. \A k \in Nat : k \in T
  BY <1>1, <1>2, NaturalInduction
<1>4. n \in T
  BY <1>3
<1> QED
  BY <1>4 DEF T

\* A row of values as an operator gives it to DISTINCT.
IsRow(r, n) == r = [i \in 1 .. n |-> r[i]] /\ \A i \in 1 .. n : IsValue(r[i])

LEMMA EncodedRowIs ==
  ASSUME NEW n \in Nat, n # 0, NEW r, IsRow(r, n)
  PROVE  \E f : Joins(f, [i \in 1 .. n |-> Encode(r[i])], n) /\ EncodedRow(r) = f[n]
<1> DEFINE s == [i \in 1 .. n |-> Encode(r[i])]
<1>1. DOMAIN r = 1 .. n
  BY DEF IsRow
<1>2. EncodedRow(r) = FlattenSeq(s)
  BY <1>1 DEF EncodedRow
<1>3. Len(s) = n
  OBVIOUS
<1> HIDE DEF s
<1> DEFINE flatten[i \in 1 .. Len(s)] == IF i = 1 THEN s[i] ELSE flatten[i - 1] \o s[i]
<1>4. FlattenSeq(s) = flatten[Len(s)]
  BY <1>3 DEF FlattenSeq
<1>5. flatten = CHOOSE g : g = [i \in 1 .. Len(s) |-> IF i = 1 THEN s[i] ELSE g[i - 1] \o s[i]]
  OBVIOUS
<1>6. \E g : g = [i \in 1 .. Len(s) |-> IF i = 1 THEN s[i] ELSE g[i - 1] \o s[i]]
  BY <1>3, JoinsExist DEF Joins
<1>7. flatten = [i \in 1 .. Len(s) |-> IF i = 1 THEN s[i] ELSE flatten[i - 1] \o s[i]]
  BY <1>5, <1>6
<1> HIDE DEF flatten
<1>8. Joins(flatten, s, n)
  BY <1>3, <1>7 DEF Joins
<1> QED
  BY <1>2, <1>3, <1>4, <1>8 DEF s

LEMMA JoinsAt ==
  ASSUME NEW n \in Nat, n # 0, NEW r, IsRow(r, n), NEW f, Joins(f, [i \in 1 .. n |-> Encode(r[i])], n)
  PROVE  /\ f[1] = Encode(r[1])
         /\ \A i \in 1 .. n : i + 1 \in 1 .. n => f[i + 1] = Cat(f[i], Encode(r[i + 1]))
         /\ \A i \in 1 .. n : f[i] \in Bytes
<1>1. f[1] = Encode(r[1])
  BY DEF Joins
<1>2. \A i \in 1 .. n : i + 1 \in 1 .. n => f[i + 1] = Cat(f[i], Encode(r[i + 1]))
  <2> SUFFICES ASSUME NEW i \in 1 .. n, i + 1 \in 1 .. n PROVE f[i + 1] = Cat(f[i], Encode(r[i + 1]))
    OBVIOUS
  <2>1. i + 1 # 1 /\ (i + 1) - 1 = i
    OBVIOUS
  <2> QED
    BY <2>1 DEF Joins, Cat
<1>3. \A i \in 1 .. n : Encode(r[i]) \in Bytes
  BY EncodeType DEF IsRow
<1> DEFINE T == {k \in Nat : k + 1 \in 1 .. n => f[k + 1] \in Bytes}
<1>4. 0 \in T
  <2>1. 1 \in 1 .. n
    OBVIOUS
  <2> QED
    BY <1>1, <1>3, <2>1
<1>5. ASSUME NEW k \in Nat, k \in T PROVE k + 1 \in T
  <2> SUFFICES ASSUME (k + 1) + 1 \in 1 .. n PROVE f[(k + 1) + 1] \in Bytes
    OBVIOUS
  <2>1. k + 1 \in 1 .. n
    OBVIOUS
  <2>2. f[k + 1] \in Bytes
    BY <1>5, <2>1
  <2>3. f[(k + 1) + 1] = Cat(f[k + 1], Encode(r[(k + 1) + 1]))
    BY <1>2, <2>1
  <2> QED
    BY <1>3, <2>2, <2>3, CatFacts
<1> HIDE DEF T
<1>6. \A k \in Nat : k \in T
  BY <1>4, <1>5, NaturalInduction
<1>7. ASSUME NEW i \in 1 .. n PROVE f[i] \in Bytes
  <2>1. i - 1 \in Nat /\ (i - 1) + 1 = i
    OBVIOUS
  <2>2. i - 1 \in T
    BY <2>1, <1>6
  <2> QED
    BY <2>1, <2>2 DEF T
<1> QED
  BY <1>1, <1>2, <1>7

\* Rows of as many values are encoded apart, whatever the texts in them.
LEMMA EncodedRowApart ==
  ASSUME NEW n \in Nat, NEW r, NEW s, IsRow(r, n), IsRow(s, n), EncodedRow(r) = EncodedRow(s)
  PROVE  r = s
<1>1. CASE n = 0
  BY <1>1 DEF IsRow
<1>2. CASE n # 0
  <2>1. PICK f : Joins(f, [i \in 1 .. n |-> Encode(r[i])], n) /\ EncodedRow(r) = f[n]
    BY <1>2, EncodedRowIs
  <2>2. PICK g : Joins(g, [i \in 1 .. n |-> Encode(s[i])], n) /\ EncodedRow(s) = g[n]
    BY <1>2, EncodedRowIs
  <2>3. /\ f[1] = Encode(r[1])
        /\ \A i \in 1 .. n : i + 1 \in 1 .. n => f[i + 1] = Cat(f[i], Encode(r[i + 1]))
        /\ \A i \in 1 .. n : f[i] \in Bytes
    BY <1>2, <2>1, JoinsAt
  <2>4. /\ g[1] = Encode(s[1])
        /\ \A i \in 1 .. n : i + 1 \in 1 .. n => g[i + 1] = Cat(g[i], Encode(s[i + 1]))
        /\ \A i \in 1 .. n : g[i] \in Bytes
    BY <1>2, <2>2, JoinsAt
  <2>5. \A i \in 1 .. n : /\ IsValue(r[i]) /\ IsValue(s[i])
                          /\ Encode(r[i]) \in Bytes /\ Encode(s[i]) \in Bytes
    BY EncodeType DEF IsRow
  <2> DEFINE Same(k) == \A t, u \in Bytes : Cat(f[k], t) = Cat(g[k], u) =>
                           t = u /\ \A i \in 1 .. k : r[i] = s[i]
             T == {k \in Nat : k + 1 \in 1 .. n => Same(k + 1)}
  <2>6. 0 \in T
    <3>1. 1 \in 1 .. n
      BY <1>2
    <3>2. ASSUME NEW t \in Bytes, NEW u \in Bytes, Cat(f[1], t) = Cat(g[1], u)
          PROVE  t = u /\ r[1] = s[1]
      BY <3>1, <3>2, <2>3, <2>4, <2>5, EncodeOnce
    <3>3. Same(1)
      BY <3>2
    <3> QED
      BY <3>3
  <2>7. ASSUME NEW k \in Nat, k \in T PROVE k + 1 \in T
    <3> SUFFICES ASSUME (k + 1) + 1 \in 1 .. n, NEW t \in Bytes, NEW u \in Bytes,
                        Cat(f[(k + 1) + 1], t) = Cat(g[(k + 1) + 1], u)
                 PROVE  t = u /\ \A i \in 1 .. (k + 1) + 1 : r[i] = s[i]
      OBVIOUS
    <3> DEFINE j == k + 1
               x == r[j + 1]
               y == s[j + 1]
    <3>1. j \in 1 .. n /\ j + 1 \in 1 .. n /\ \A i \in 1 .. j + 1 : i \in 1 .. j \/ i = j + 1
      OBVIOUS
    <3>2. Same(j)
      BY <2>7, <3>1
    <3>3. Cat(f[j + 1], t) = Cat(g[j + 1], u)
      OBVIOUS
    <3> HIDE DEF j
    <3>4. /\ f[j + 1] = Cat(f[j], Encode(x)) /\ g[j + 1] = Cat(g[j], Encode(y))
          /\ f[j] \in Bytes /\ g[j] \in Bytes
      BY <2>3, <2>4, <3>1
    <3>5. IsValue(x) /\ IsValue(y) /\ Encode(x) \in Bytes /\ Encode(y) \in Bytes
      BY <2>5, <3>1
    <3> HIDE DEF x, y
    <3>6. Cat(f[j], Cat(Encode(x), t)) = Cat(g[j], Cat(Encode(y), u))
      <4>1. \A p, q, v \in Bytes : Cat(Cat(p, q), v) = Cat(p, Cat(q, v))
        BY CatFacts
      <4>2. f[j] \in Bytes /\ Encode(x) \in Bytes /\ g[j] \in Bytes /\ Encode(y) \in Bytes
        BY <3>4, <3>5
      <4>3. Cat(Cat(f[j], Encode(x)), t) = Cat(f[j], Cat(Encode(x), t))
        BY <4>1, <4>2
      <4>4. Cat(Cat(g[j], Encode(y)), u) = Cat(g[j], Cat(Encode(y), u))
        BY <4>1, <4>2
      <4> QED
        BY <4>3, <4>4, <3>3, <3>4
    <3>7. Cat(Encode(x), t) \in Bytes /\ Cat(Encode(y), u) \in Bytes
      BY <3>5, CatFacts
    <3>8. Cat(Encode(x), t) = Cat(Encode(y), u) /\ \A i \in 1 .. j : r[i] = s[i]
      BY <3>2, <3>6, <3>7
    <3>9. t = u /\ x = y
      BY <3>5, <3>8, EncodeOnce
    <3>10. \A i \in 1 .. j + 1 : r[i] = s[i]
      BY <3>1, <3>8, <3>9 DEF x, y
    <3> QED
      BY <3>9, <3>10 DEF j
  <2> HIDE DEF T
  <2>8. \A k \in Nat : k \in T
    BY <2>6, <2>7, NaturalInduction
  <2>9. n - 1 \in Nat /\ (n - 1) + 1 = n /\ n \in 1 .. n
    BY <1>2
  <2>10. n - 1 \in T
    BY <2>8, <2>9
  <2>11. Same(n)
    BY <2>9, <2>10 DEF T
  <2>12. Cat(f[n], <<>>) = Cat(g[n], <<>>) /\ <<>> \in Bytes
    BY <2>1, <2>2, CatFacts
  <2>13. \A i \in 1 .. n : r[i] = s[i]
    BY <2>11, <2>12
  <2> QED
    BY <2>13 DEF IsRow
<1> QED
  BY <1>1, <1>2

-----------------------------------------------------------------------------
(***************************************************************************)
(* What a Sort hands on.                                                   *)
(***************************************************************************)
\* A sequence of n, as a function.
Indexed(rows, n) == rows = [k \in 1 .. n |-> rows[k]]

\* Rows that can be sorted, their positions in order, and they as items.
Sortable(rows, n) == /\ query \in Query /\ n \in Nat /\ Order # NoOrder
                     /\ Indexed(rows, n)
                     /\ \A k \in 1 .. n : rows[k][Order.by] \in SortValues

RowAhead(rows, i, j) == Precedes(rows[i], rows[j]) \/ (~Precedes(rows[j], rows[i]) /\ i < j)
AheadOn(rows, n)     == {p \in (1 .. n) \X (1 .. n) : RowAhead(rows, p[1], p[2])}
ItemOf(rows, k)      == [row |-> rows[k], seq |-> k - 1]
ItemsOf(rows, n)     == {ItemOf(rows, k) : k \in 1 .. n}

\* An arrangement of the positions, and the rows of a sort.
SortedBy(t, rows, n) == /\ Arranges(t, AheadOn(rows, n), 1 .. n)
                        /\ t \in [1 .. n -> 1 .. n]
                        /\ Sorted(rows) = [k \in 1 .. n |-> rows[t[k]]]

LEMMA ItemAhead ==
  ASSUME NEW rows, NEW n, Sortable(rows, n)
  PROVE  /\ \A i, j \in 1 .. n : Earlier(ItemOf(rows, i), ItemOf(rows, j)) <=> RowAhead(rows, i, j)
         /\ \A i, j \in 1 .. n : ItemOf(rows, i) = ItemOf(rows, j) => i = j
         /\ Ranks(EarlierOn(ItemsOf(rows, n)), ItemsOf(rows, n))
<1>1. ASSUME NEW i \in 1 .. n, NEW j \in 1 .. n
      PROVE  Earlier(ItemOf(rows, i), ItemOf(rows, j)) <=> RowAhead(rows, i, j)
  <2>1. i - 1 < j - 1 <=> i < j
    OBVIOUS
  <2> QED
    BY <2>1 DEF Earlier, ItemOf, RowAhead
<1>2. \A i \in 1 .. n : ItemOf(rows, i).seq = i - 1 /\ ItemOf(rows, i).row = rows[i]
  BY DEF ItemOf
<1>3. \A i, j \in 1 .. n : ItemOf(rows, i).seq = ItemOf(rows, j).seq => i = j
  BY <1>2
<1>4. \A i, j \in 1 .. n : ItemOf(rows, i) = ItemOf(rows, j) => i = j
  BY <1>3
<1> DEFINE S == ItemsOf(rows, n)
<1>5. \A x \in S : x.row[Order.by] \in SortValues /\ x.seq \in Nat
  <2> SUFFICES ASSUME NEW x \in S PROVE x.row[Order.by] \in SortValues /\ x.seq \in Nat
    OBVIOUS
  <2>1. PICK k \in 1 .. n : x = ItemOf(rows, k)
    BY DEF ItemsOf
  <2>2. x.row = rows[k] /\ x.seq = k - 1 /\ k - 1 \in Nat
    BY <2>1, <1>2
  <2> QED
    BY <2>2 DEF Sortable
<1>6. \A x, y \in S : x.seq = y.seq => x = y
  BY <1>3 DEF ItemsOf
<1> HIDE DEF S
<1>7. Ranks(EarlierOn(S), S)
  BY <1>5, <1>6, EarlierRanks DEF Sortable
<1> QED
  BY <1>1, <1>4, <1>7 DEF S

LEMMA ItemsAre ==
  ASSUME NEW rows, NEW n, Sortable(rows, n)
  PROVE  IsFiniteSet(ItemsOf(rows, n)) /\ Cardinality(ItemsOf(rows, n)) = n
<1> DEFINE S == ItemsOf(rows, n)
           f == [k \in 1 .. n |-> ItemOf(rows, k)]
<1>1. \A i, j \in 1 .. n : ItemOf(rows, i) = ItemOf(rows, j) => i = j
  BY ItemAhead
<1>2. f \in [1 .. n -> S] /\ (\A x \in S : \E k \in 1 .. n : f[k] = x)
  BY DEF ItemsOf
<1>3. \A i, j \in 1 .. n : f[i] = f[j] => i = j
  BY <1>1
<1> HIDE DEF f, S
<1>4. ExistsBijection(1 .. n, S)
  <2>1. f \in Bijection(1 .. n, S)
    BY <1>2, <1>3 DEF Bijection, Injection, Surjection, IsInjective
  <2> QED
    BY <2>1 DEF ExistsBijection
<1>5. IsFiniteSet(1 .. n) /\ Cardinality(1 .. n) = n
  <2>1. n \in Nat
    BY DEF Sortable
  <2> QED
    BY <2>1, UpTo
<1> QED
  BY <1>4, <1>5, FS_Bijection DEF S

LEMMA AheadRanks ==
  ASSUME NEW rows, NEW n, Sortable(rows, n)
  PROVE  Ranks(AheadOn(rows, n), 1 .. n)
<1> DEFINE S == ItemsOf(rows, n)
           I(k) == ItemOf(rows, k)
<1>1. \A i, j \in 1 .. n : <<i, j>> \in AheadOn(rows, n) <=> RowAhead(rows, i, j)
  BY DEF AheadOn
<1>2. /\ \A i, j \in 1 .. n : Earlier(I(i), I(j)) <=> RowAhead(rows, i, j)
      /\ \A i, j \in 1 .. n : I(i) = I(j) => i = j
      /\ Ranks(EarlierOn(S), S)
  BY ItemAhead
<1>3. \A i \in 1 .. n : I(i) \in S
  BY DEF ItemsOf
<1> HIDE DEF I, S
<1>4. \A i, j \in 1 .. n : <<i, j>> \in AheadOn(rows, n) <=> <<I(i), I(j)>> \in EarlierOn(S)
  BY <1>1, <1>2, <1>3, EarlierIs
<1> QED
  BY <1>2, <1>3, <1>4 DEF Ranks

\* The rows a sort leaves are those there are, in an arrangement of their places.
LEMMA SortedIs ==
  ASSUME NEW rows, NEW n, Sortable(rows, n)
  PROVE  \E t : SortedBy(t, rows, n)
<1> DEFINE t == Ascending(1 .. n, LAMBDA i, j : \/ Precedes(rows[i], rows[j])
                                                \/ ~Precedes(rows[j], rows[i]) /\ i < j)
<1>1. \A i, j \in 1 .. n : <<i, j>> \in AheadOn(rows, n) <=>
           \/ Precedes(rows[i], rows[j])
           \/ ~Precedes(rows[j], rows[i]) /\ i < j
  BY DEF AheadOn, RowAhead
<1>2. IsFiniteSet(1 .. n) /\ Cardinality(1 .. n) = n /\ n \in Nat
  <2>1. n \in Nat
    BY DEF Sortable
  <2> QED
    BY <2>1, UpTo
<1>3. PICK s : Arranges(s, AheadOn(rows, n), 1 .. n)
  BY <1>2, AheadRanks, ArrangementExists
<1>4. /\ s \in [1 .. n -> 1 .. n]
      /\ \A i, j \in DOMAIN s : i < j => \/ Precedes(rows[s[i]], rows[s[j]])
                                         \/ ~Precedes(rows[s[j]], rows[s[i]]) /\ s[i] < s[j]
  BY <1>1, <1>2, <1>3 DEF Arranges
<1>5. /\ t \in [1 .. n -> 1 .. n]
      /\ \A i, j \in DOMAIN t : i < j => \/ Precedes(rows[t[i]], rows[t[j]])
                                         \/ ~Precedes(rows[t[j]], rows[t[i]]) /\ t[i] < t[j]
  BY <1>2, <1>4 DEF Ascending
<1>6. Order # NoOrder /\ DOMAIN rows = 1 .. n
  BY DEF Sortable, Indexed
<1>7. Sorted(rows) = Arranged(rows, t)
  BY <1>6 DEF Sorted
<1> HIDE DEF t
<1>8. Arranges(t, AheadOn(rows, n), 1 .. n)
  BY <1>1, <1>2, <1>5 DEF Arranges
<1>9. Sorted(rows) = [k \in 1 .. n |-> rows[t[k]]]
  BY <1>5, <1>7 DEF Arranged
<1> QED
  BY <1>5, <1>8, <1>9 DEF SortedBy

\* A heap put in order is where a sort of all begins.
LEMMA SortedItems ==
  ASSUME NEW rows, NEW n, Sortable(rows, n), NEW L \in Int,
         NEW m, m = IF L >= 0 /\ L < n THEN L ELSE n,
         NEW kept, kept = FirstOf(ItemsOf(rows, n), EarlierOn(ItemsOf(rows, n)), L),
         NEW sorted, sorted = Ascending(kept, Earlier)
  PROVE  [i \in DOMAIN sorted |-> sorted[i].row] = [k \in 1 .. m |-> Sorted(rows)[k]]
<1> DEFINE S == ItemsOf(rows, n)
           R == EarlierOn(S)
<1>0. PICK t : SortedBy(t, rows, n)
  BY SortedIs
<1>1. /\ Arranges(t, AheadOn(rows, n), 1 .. n) /\ t \in [1 .. n -> 1 .. n]
      /\ Sorted(rows) = [k \in 1 .. n |-> rows[t[k]]]
  BY <1>0 DEF SortedBy
<1> DEFINE s == [k \in 1 .. n |-> ItemOf(rows, t[k])]
<1>2. IsFiniteSet(S) /\ Cardinality(S) = n /\ n \in Nat
  BY ItemsAre DEF Sortable
<1>3. /\ \A i, j \in 1 .. n : Earlier(ItemOf(rows, i), ItemOf(rows, j)) <=> RowAhead(rows, i, j)
      /\ Ranks(R, S)
  BY ItemAhead
<1>4. \A i \in 1 .. n : ItemOf(rows, i) \in S
  BY DEF ItemsOf
<1> HIDE DEF S
<1>5. \A x, y \in S : <<x, y>> \in R <=> Earlier(x, y)
  BY EarlierIs
<1> HIDE DEF R
<1>6. \A i, j \in 1 .. n : i < j => RowAhead(rows, t[i], t[j])
  <2>1. Cardinality(1 .. n) = n
    BY <1>2, UpTo
  <2> QED
    BY <1>1, <2>1 DEF Arranges, AheadOn
<1>7. s \in [1 .. n -> S] /\ \A i, j \in 1 .. n : i < j => <<s[i], s[j]>> \in R
  BY <1>1, <1>3, <1>4, <1>5, <1>6
<1>8. \A k \in 1 .. n : s[k].row = Sorted(rows)[k]
  BY <1>1 DEF ItemOf
<1> HIDE DEF s
<1>9. Arranges(s, R, S)
  BY <1>2, <1>7 DEF Arranges
<1>10. kept = FirstOf(S, R, L) /\ m = IF L >= 0 /\ L < Cardinality(S) THEN L ELSE Cardinality(S)
  BY <1>2 DEF S, R
<1> DEFINE u == [k \in 1 .. m |-> s[k]]
<1>11. m \in 0 .. n /\ Cardinality(kept) = m /\ Arranges(u, R, kept)
  BY <1>2, <1>3, <1>9, <1>10, FirstArranged
<1>12. kept \in SUBSET S /\ IsFiniteSet(kept) /\ Ranks(R, kept)
  BY <1>2, <1>3, <1>10, PartsAreFinite, RanksParts DEF FirstOf
<1> HIDE DEF u
<1>13. u \in [1 .. m -> kept] /\ \A i, j \in DOMAIN u : i < j => Earlier(u[i], u[j])
  BY <1>5, <1>11, <1>12 DEF Arranges
<1>14. sorted \in [1 .. m -> kept] /\ \A i, j \in DOMAIN sorted : i < j => Earlier(sorted[i], sorted[j])
  BY <1>11, <1>13 DEF Ascending
<1>15. Arranges(sorted, R, kept)
  BY <1>5, <1>11, <1>12, <1>14 DEF Arranges
<1>16. sorted = u
  BY <1>11, <1>12, <1>15, OneArrangement
<1>17. DOMAIN sorted = 1 .. m /\ \A k \in 1 .. m : k \in 1 .. n /\ sorted[k] = s[k]
  BY <1>2, <1>11, <1>14, <1>16 DEF u
<1> QED
  BY <1>8, <1>17

-----------------------------------------------------------------------------
(***************************************************************************)
(* Rows that look the same.                                                *)
(***************************************************************************)
LEMMA SelectIs ==
  ASSUME query \in Query
  PROVE  /\ Len(Select) \in Nat /\ Select = [i \in 1 .. Len(Select) |-> Select[i]]
         /\ ~IsGrouped => \A i \in 1 .. Len(Select) : Select[i] \in {"a", "b"}
         /\ IsGrouped => \A i \in 1 .. Len(Select) : Select[i] \in {"a", "rows", "count", "sum", "min", "max"}
         /\ query.shape.group = "all" =>
               Aggregated /\ \A i \in 1 .. Len(Select) : Select[i] \in {"rows", "count", "sum", "min", "max"}
         /\ \A i \in 1 .. Len(Select) : Select[i] \in ToSet(Select)
<1>1. query.shape \in Plain \cup Grouped \cup Whole
  BY DEF Query
<1> DEFINE S == {"a", "rows", "count", "sum", "min", "max"}
<1>2. /\ query.shape \in Plain => ~IsGrouped /\ Select \in {<<"a">>, <<"b">>}
      /\ query.shape \in Grouped => query.shape.group = "a" /\ Select \in {<<"a">> \o Calls, <<"rows">>}
      /\ query.shape \in Whole => query.shape.group = "all" /\ Select = Calls
  BY DEF Plain, Grouped, Whole, Select, IsGrouped
<1>3. <<"a">> \in Seq({"a", "b"}) /\ <<"b">> \in Seq({"a", "b"})
  OBVIOUS
<1>4. <<"a">> \in Seq(S) /\ <<"rows">> \in Seq(S) /\ Calls \in Seq(S)
  BY DEF Calls
<1>5. <<"a">> \o Calls \in Seq(S)
  BY <1>4
<1>6. Calls \in Seq({"rows", "count", "sum", "min", "max"})
  BY DEF Calls
<1>7. \A T : \A s \in Seq(T) : /\ Len(s) \in Nat /\ s = [i \in 1 .. Len(s) |-> s[i]]
                               /\ \A i \in 1 .. Len(s) : s[i] \in T /\ s[i] \in ToSet(s)
  <2> SUFFICES ASSUME NEW T, NEW s \in Seq(T)
               PROVE  /\ Len(s) \in Nat /\ s = [i \in 1 .. Len(s) |-> s[i]]
                      /\ \A i \in 1 .. Len(s) : s[i] \in T /\ s[i] \in ToSet(s)
    OBVIOUS
  <2>1. DOMAIN s = 1 .. Len(s)
    OBVIOUS
  <2> QED
    BY <2>1 DEF ToSet
<1>8. CASE query.shape \in Plain
  <2>1. Select \in Seq({"a", "b"})
    BY <1>8, <1>2, <1>3
  <2>2. ~IsGrouped /\ query.shape.group # "all"
    BY <1>8, <1>2 DEF IsGrouped, Plain
  <2> DEFINE T == {"a", "b"}
  <2> HIDE DEF T
  <2>3. /\ Len(Select) \in Nat /\ Select = [i \in 1 .. Len(Select) |-> Select[i]]
        /\ \A i \in 1 .. Len(Select) : Select[i] \in T /\ Select[i] \in ToSet(Select)
    BY <2>1, <1>7 DEF T
  <2> QED
    BY <2>2, <2>3 DEF T
<1>9. CASE query.shape \in Grouped
  <2>1. Select \in Seq(S)
    BY <1>9, <1>2, <1>4, <1>5
  <2>2. query.shape.group = "a" /\ IsGrouped
    BY <1>9, <1>2 DEF IsGrouped
  <2> HIDE DEF S
  <2>3. /\ Len(Select) \in Nat /\ Select = [i \in 1 .. Len(Select) |-> Select[i]]
        /\ \A i \in 1 .. Len(Select) : Select[i] \in S /\ Select[i] \in ToSet(Select)
    BY <2>1, <1>7
  <2> QED
    BY <2>2, <2>3 DEF S
<1>10. CASE query.shape \in Whole
  <2> DEFINE T == {"rows", "count", "sum", "min", "max"}
  <2>1. Select \in Seq(T) /\ Select = Calls
    BY <1>10, <1>2, <1>6
  <2>2. query.shape.group = "all" /\ IsGrouped
    BY <1>10, <1>2 DEF IsGrouped
  <2> HIDE DEF T
  <2>3. /\ Len(Select) \in Nat /\ Select = [i \in 1 .. Len(Select) |-> Select[i]]
        /\ \A i \in 1 .. Len(Select) : Select[i] \in T /\ Select[i] \in ToSet(Select)
    BY <2>1, <1>7
  <2>4. Aggregated
    <3>1. Len(Calls) = 5 /\ Calls[2] = "count"
      BY DEF Calls
    <3>2. "count" \in ToSet(Select)
      BY <3>1, <2>1, <2>3
    <3>3. "count" \notin {"a", "rows", ""}
      OBVIOUS
    <3> QED
      BY <3>2, <3>3 DEF Aggregated
  <2> QED
    BY <2>2, <2>3, <2>4 DEF T
<1> QED
  BY <1>1, <1>8, <1>9, <1>10

\* Rows alike in what is selected of them, and in what they are sorted by.
AlikeIn(A, B, n, c) == \A k \in 1 .. n : A[k][c] = B[k][c]

LEMMA ShownAlike ==
  ASSUME query \in Query, NEW n \in Nat, NEW A, NEW B,
         Indexed(A, n), Indexed(B, n),
         \A i \in 1 .. Len(Select) : AlikeIn(A, B, n, Select[i])
  PROVE  OfAll(A) = OfAll(B)
<1>1. DOMAIN Select = 1 .. Len(Select)
  BY SelectIs
<1>2. \A k \in 1 .. n : Projected(A[k]) = Projected(B[k])
  BY <1>1 DEF Projected, AlikeIn
<1> QED
  BY <1>2 DEF OfAll, Indexed

LEMMA SortedAlike ==
  ASSUME NEW n \in Nat, NEW A, NEW B, Sortable(A, n),
         Indexed(B, n), AlikeIn(A, B, n, Order.by),
         \A i \in 1 .. Len(Select) : AlikeIn(A, B, n, Select[i])
  PROVE  Sortable(B, n) /\ OfAll(Sorted(A)) = OfAll(Sorted(B))
<1>1. query \in Query
  BY DEF Sortable
<1>2. Sortable(B, n)
  BY DEF Sortable, AlikeIn
<1>3. \A i, j \in 1 .. n : RowAhead(A, i, j) <=> RowAhead(B, i, j)
  BY DEF RowAhead, Precedes, AlikeIn
<1>4. AheadOn(A, n) = AheadOn(B, n)
  BY <1>3 DEF AheadOn
<1>5. PICK t : SortedBy(t, A, n)
  BY SortedIs
<1>6. PICK u : SortedBy(u, B, n)
  BY <1>2, SortedIs
<1>7. u = t
  <2>1. Ranks(AheadOn(A, n), 1 .. n)
    BY AheadRanks
  <2>2. IsFiniteSet(1 .. n)
    BY UpTo
  <2> QED
    BY <2>1, <2>2, <1>4, <1>5, <1>6, OneArrangement DEF SortedBy
<1> DEFINE C == Sorted(A)
           D == Sorted(B)
<1>8. Indexed(C, n) /\ Indexed(D, n) /\ \A k \in 1 .. n : t[k] \in 1 .. n /\ C[k] = A[t[k]] /\ D[k] = B[t[k]]
  <2>1. t \in [1 .. n -> 1 .. n] /\ C = [k \in 1 .. n |-> A[t[k]]] /\ D = [k \in 1 .. n |-> B[t[k]]]
    BY <1>5, <1>6, <1>7 DEF SortedBy
  <2> HIDE DEF C, D
  <2> QED
    BY <2>1 DEF Indexed
<1>10. \A i \in 1 .. Len(Select) : AlikeIn(C, D, n, Select[i])
  <2> HIDE DEF C, D
  <2> SUFFICES ASSUME NEW i \in 1 .. Len(Select), NEW k \in 1 .. n PROVE C[k][Select[i]] = D[k][Select[i]]
    BY DEF AlikeIn
  <2>1. \A j \in 1 .. n : A[j][Select[i]] = B[j][Select[i]]
    BY DEF AlikeIn
  <2> QED
    BY <2>1, <1>8
<1> HIDE DEF C, D
<1>11. OfAll(C) = OfAll(D)
  BY <1>1, <1>8, <1>10, ShownAlike
<1> QED
  BY <1>2, <1>11 DEF C, D

\* Rows that are in order stay where they are.
LEMMA SortedStays ==
  ASSUME NEW rows, NEW n, Sortable(rows, n), \A i, j \in 1 .. n : i < j => RowAhead(rows, i, j)
  PROVE  Sorted(rows) = rows
<1>0. PICK t : SortedBy(t, rows, n)
  BY SortedIs
<1>1. /\ Arranges(t, AheadOn(rows, n), 1 .. n) /\ t \in [1 .. n -> 1 .. n]
      /\ Sorted(rows) = [k \in 1 .. n |-> rows[t[k]]]
  BY <1>0 DEF SortedBy
<1>2. IsFiniteSet(1 .. n) /\ Cardinality(1 .. n) = n
  <2>1. n \in Nat
    BY DEF Sortable
  <2> QED
    BY <2>1, UpTo
<1> DEFINE u == [k \in 1 .. n |-> k]
<1>3. Arranges(u, AheadOn(rows, n), 1 .. n)
  BY <1>2 DEF Arranges, AheadOn
<1> HIDE DEF u
<1>4. t = u
  BY <1>1, <1>2, <1>3, AheadRanks, OneArrangement
<1>5. \A k \in 1 .. n : t[k] = k
  BY <1>4 DEF u
<1>6. rows = [k \in 1 .. n |-> rows[k]]
  BY DEF Sortable, Indexed
<1> QED
  BY <1>1, <1>5, <1>6

-----------------------------------------------------------------------------
(***************************************************************************)
(* The groups of all rows.                                                 *)
(***************************************************************************)
LEMMA ColumnValues ==
  \E kind \in {"BOOL", "INT", "FLOAT", "TEXT"} :
     ValuesOfA \subseteq ValuesOf(kind) \cup {Null} /\ \A v \in ValuesOfA : IsValue(v) /\ Encode(v) \in Bytes
<1>1. PICK kind \in {"BOOL", "INT", "FLOAT", "TEXT"} : ValuesOfA \subseteq ValuesOf(kind) \cup {Null}
  BY ValuesOfAAssumption
<1>2. ASSUME NEW v \in ValuesOfA PROVE IsValue(v) /\ Encode(v) \in Bytes
  <2>1. CASE v \in ValuesOf(kind)
    BY <2>1, ValuesAreValues, EncodeType
  <2>2. CASE v = Null
    <3>1. IsValue(v)
      BY <2>2 DEF IsValue
    <3> QED
      BY <3>1, EncodeType
  <2> QED
    BY <1>1, <2>1, <2>2
<1> QED
  BY <1>1, <1>2

\* Groups ascend by value, and their keys as bytes with them.
LEMMA ValuesArranged ==
  ASSUME NEW V \in SUBSET ValuesOfA, IsFiniteSet(V), NegativeNaN \notin V,
         NEW s, s = Ascending(V, ByValue), NEW n, n = Cardinality(V),
         NEW K, K = {Encode(v) : v \in V}
  PROVE  /\ n \in Nat /\ s \in [1 .. n -> V]
         /\ Ascending(K, BytesBefore) = [k \in 1 .. n |-> Encode(s[k])]
<1>1. PICK kind \in {"BOOL", "INT", "FLOAT", "TEXT"} :
         ValuesOfA \subseteq ValuesOf(kind) \cup {Null} /\ \A v \in ValuesOfA : IsValue(v) /\ Encode(v) \in Bytes
  BY ColumnValues
<1>2. \A x, y \in V : ByValue(x, y) <=> BytesBefore(Encode(x), Encode(y))
  BY <1>1, ValueAgainstValue
<1>3. \A x, y \in V : Encode(x) = Encode(y) => x = y
  BY <1>1, EncodeApart
<1>4. \A v \in V : Encode(v) \in Bytes
  BY <1>1
<1>5. \A x, y \in V : <<x, y>> \in ValuesOn(V) <=> BytesBefore(Encode(x), Encode(y))
  BY <1>2 DEF ValuesOn
<1>6. Ranks(ValuesOn(V), V)
  BY <1>3, <1>4, <1>5, BytesTotal, BytesTransitive, BytesIrreflexive DEF Ranks
<1>7. PICK t : Arranges(t, ValuesOn(V), V)
  BY <1>6, ArrangementExists
<1>8. n \in Nat /\ t \in [1 .. n -> V] /\ \A i, j \in DOMAIN t : i < j => ByValue(t[i], t[j])
  BY <1>2, <1>5, <1>7, FS_CardinalityType DEF Arranges
<1>9. s \in [1 .. n -> V] /\ \A i, j \in DOMAIN s : i < j => ByValue(s[i], s[j])
  BY <1>8 DEF Ascending
<1>10. \A i, j \in 1 .. n : i < j => BytesBefore(Encode(s[i]), Encode(s[j]))
  BY <1>2, <1>9
<1> DEFINE f == [v \in V |-> Encode(v)]
           u == [k \in 1 .. n |-> Encode(s[k])]
<1>11. f \in Bijection(V, K)
  <2>1. f \in [V -> K] /\ (\A x \in K : \E v \in V : f[v] = x) /\ \A x, y \in V : f[x] = f[y] => x = y
    BY <1>3
  <2> HIDE DEF f
  <2> QED
    BY <2>1 DEF Bijection, Injection, Surjection, IsInjective
<1>12. IsFiniteSet(K) /\ Cardinality(K) = n
  <2>1. ExistsBijection(V, K)
    BY <1>11 DEF ExistsBijection
  <2> QED
    BY <2>1, FS_Bijection
<1>13. u \in [1 .. n -> K] /\ \A i, j \in 1 .. n : i < j => BytesBefore(u[i], u[j])
  BY <1>9, <1>10
<1>14. K \in SUBSET Bytes
  BY <1>4
<1> HIDE DEF u
<1>15. Arranges(u, BytesOn(K), K)
  BY <1>12, <1>13 DEF Arranges, BytesOn
<1>16. Ranks(BytesOn(K), K) /\ Arranges(Ascending(K, BytesBefore), BytesOn(K), K)
  BY <1>12, <1>14, KeysArranged
<1> DEFINE keys == Ascending(K, BytesBefore)
<1> HIDE DEF keys
<1>17. keys = u
  <2>1. Arranges(keys, BytesOn(K), K)
    BY <1>16 DEF keys
  <2> QED
    BY <2>1, <1>12, <1>15, <1>16, OneArrangement
<1> QED
  BY <1>8, <1>9, <1>17 DEF u, keys

\* The columns of a group that can be seen above the Aggregate.
Shown(c) == (\E i \in 1 .. Len(Select) : c = Select[i]) \/ (Order # NoOrder /\ c = Order.by)

LEMMA ShownIs ==
  ASSUME query \in Query, IsGrouped, NEW c, Shown(c)
  PROVE  /\ c \in {"a", "rows", "count", "sum", "min", "max"}
         /\ c \in {"count", "sum", "min", "max"} => Aggregated
         /\ query.shape.group = "all" => Aggregated /\ c # "a"
<1>1. Order # NoOrder => Order.by \in {"a", "sum"} /\ (query.shape.group = "all" => Order.by = "sum")
  BY QueryFacts DEF Sorts
<1>2. /\ \A i \in 1 .. Len(Select) : Select[i] \in {"a", "rows", "count", "sum", "min", "max"}
      /\ \A i \in 1 .. Len(Select) : Select[i] \in ToSet(Select)
      /\ query.shape.group = "all" =>
            Aggregated /\ \A i \in 1 .. Len(Select) : Select[i] \in {"rows", "count", "sum", "min", "max"}
  BY SelectIs
<1>3. c \in ToSet(Select) \cup {Order.by}
  BY <1>2 DEF Shown
<1>4. c \in {"a", "rows", "count", "sum", "min", "max"}
  BY <1>1, <1>2 DEF Shown
<1>5. c \in {"count", "sum", "min", "max"} => c \notin {"a", "rows", ""}
  OBVIOUS
<1>6. c \in {"count", "sum", "min", "max"} => Aggregated
  BY <1>3, <1>5 DEF Aggregated
<1>7. query.shape.group = "all" => c # "a"
  BY <1>1, <1>2 DEF Shown
<1> QED
  BY <1>2, <1>4, <1>6, <1>7, QueryFacts

LEMMA ResultColumns ==
  ASSUME NEW g
  PROVE  /\ Result(g)["a"] = g.value /\ Result(g)["rows"] = Value("INT", g.acc.rows)
         /\ Result(g)["count"] = Value("INT", g.acc.count) /\ Result(g)["sum"] = g.acc.sum
         /\ Result(g)["min"] = g.acc.min /\ Result(g)["max"] = g.acc.max
BY DEF Result

LEMMA ResultAlike ==
  ASSUME NEW g, NEW h, NEW c \in {"a", "rows", "count", "sum", "min", "max"},
         g.acc.rows = h.acc.rows, c = "a" => g.value = h.value,
         c \in {"count", "sum", "min", "max"} => g.acc = h.acc
  PROVE  Result(g)[c] = Result(h)[c]
<1>1. /\ Result(g)["a"] = g.value /\ Result(g)["rows"] = Value("INT", g.acc.rows)
      /\ Result(g)["count"] = Value("INT", g.acc.count) /\ Result(g)["sum"] = g.acc.sum
      /\ Result(g)["min"] = g.acc.min /\ Result(g)["max"] = g.acc.max
  BY ResultColumns
<1>2. /\ Result(h)["a"] = h.value /\ Result(h)["rows"] = Value("INT", h.acc.rows)
      /\ Result(h)["count"] = Value("INT", h.acc.count) /\ Result(h)["sum"] = h.acc.sum
      /\ Result(h)["min"] = h.acc.min /\ Result(h)["max"] = h.acc.max
  BY ResultColumns
<1>3. CASE c = "a"
  BY <1>1, <1>2, <1>3
<1>4. CASE c = "rows"
  BY <1>1, <1>2, <1>4
<1>5. CASE c \in {"count", "sum", "min", "max"}
  BY <1>1, <1>2, <1>5
<1> QED
  BY <1>3, <1>4, <1>5

\* The rows of an Aggregate can be sorted by what they are sorted by.
LEMMA ProducedIs ==
  ASSUME TypeOK, Grouping, IsGrouped, NEW rows, rows = Produced, NEW n, n = Len(rows)
  PROVE  n \in Nat /\ Indexed(rows, n) /\ (Order # NoOrder => Sortable(rows, n))
<1>1. query \in Query
  BY DEF TypeOK
<1>2. \A g : Sorts /\ g.value \in ValuesOfA \cup {Null} /\ IsAcc(g.acc) => Result(g)[Order.by] \in SortValues
  BY <1>1, ResultIs
<1>3. \A k \in DOMAIN groups : groups[k].value \in ValuesOfA \cup {Null} /\ IsAcc(groups[k].acc)
  BY DEF Grouping, TypeOK, IsAcc
<1>4. Order # NoOrder => Sorts
  BY DEF Sorts
<1>5. CASE query.shape.group = "all" /\ groups = <<>>
  <2> DEFINE g == [value |-> Null, acc |-> NewAccumulators]
  <2>1. rows = <<Result(g)>>
    BY <1>5 DEF Produced
  <2>2. g.value = Null /\ IsAcc(g.acc)
    BY NewIsAcc
  <2> HIDE DEF g
  <2>3. n = 1 /\ rows = [k \in 1 .. 1 |-> Result(g)]
    BY <2>1
  <2>4. Sorts => \A k \in 1 .. 1 : rows[k][Order.by] \in SortValues
    BY <2>2, <2>3, <1>2
  <2>5. Indexed(rows, 1)
    BY <2>3 DEF Indexed
  <2> QED
    BY <2>3, <2>4, <2>5, <1>1, <1>4 DEF Sortable
<1>6. CASE ~(query.shape.group = "all" /\ groups = <<>>)
  <2> DEFINE keys == Ascending(DOMAIN groups, BytesBefore)
  <2>1. rows = [i \in DOMAIN keys |-> Result(groups[keys[i]])]
    BY <1>6 DEF Produced
  <2>2. keys \in [1 .. Cardinality(DOMAIN groups) -> DOMAIN groups] /\ Cardinality(DOMAIN groups) \in Nat
    <3>1. IsFiniteSet(DOMAIN groups) /\ DOMAIN groups \in SUBSET Bytes
      BY DEF Grouping, Bytes
    <3> QED
      BY <3>1, KeysAscend, FS_CardinalityType
  <2> DEFINE m == Cardinality(DOMAIN groups)
  <2> HIDE DEF keys, m
  <2>3. rows = [i \in 1 .. m |-> Result(groups[keys[i]])] /\ m \in Nat /\ keys \in [1 .. m -> DOMAIN groups]
    BY <2>1, <2>2 DEF m
  <2>4. n = m /\ \A i \in 1 .. m : rows[i] = Result(groups[keys[i]]) /\ keys[i] \in DOMAIN groups
    BY <2>3
  <2>5. Sorts => \A k \in 1 .. m : rows[k][Order.by] \in SortValues
    BY <2>4, <1>2, <1>3
  <2>6. Indexed(rows, m)
    BY <2>3 DEF Indexed
  <2> QED
    BY <2>3, <2>4, <2>5, <2>6, <1>1, <1>4 DEF Sortable
<1> QED
  BY <1>5, <1>6

\* Behind the last row the buckets are the groups of a GROUP BY.
GroupsRead == /\ TypeOK /\ Feeding /\ Grouping /\ GroupsAreExact
              /\ IsGrouped /\ pc # "done" /\ Taken = Kept /\ InOrder

LEMMA KeptIs ==
  ASSUME Feeding
  PROVE  /\ Kept \in SUBSET (1 .. Len(input)) /\ IsFiniteSet(Kept) /\ Len(input) \in Nat
         /\ \A i \in Kept : input[i] \in Row /\ input[i].a \in ValuesOfA
<1>1. input \in Seq(Row) /\ Len(input) \in Nat /\ DOMAIN input = 1 .. Len(input)
  BY DEF Feeding
<1>2. Kept \in SUBSET (1 .. Len(input))
  BY <1>1 DEF Kept
<1>3. IsFiniteSet(1 .. Len(input))
  BY <1>1, UpTo
<1>4. \A i \in Kept : input[i] \in Row
  BY <1>1, <1>2
<1> QED
  BY <1>1, <1>2, <1>3, <1>4, PartsAreFinite, RowFacts

LEMMA GroupsOfAll ==
  ASSUME GroupsRead, query.shape.group = "all", NEW c, Shown(c)
  PROVE  /\ Len(GroupsOf(Kept)) = 1 /\ Indexed(GroupsOf(Kept), 1)
         /\ Len(Produced) = 1 /\ Produced[1][c] = GroupsOf(Kept)[1][c]
<1>1. /\ TypeOK /\ Feeding /\ Grouping /\ IsGrouped /\ Taken = Kept /\ query \in Query
      /\ DOMAIN groups = {GroupKey(input[i]) : i \in Taken}
      /\ \A key \in DOMAIN groups : /\ groups[key].acc.rows = Summary(input, RowsOf(key)).rows
                                    /\ Aggregated => groups[key].acc = Summary(input, RowsOf(key))
  BY DEF GroupsRead, GroupsAreExact, TypeOK
<1>2. \A r : GroupKey(r) = <<>>
  BY DEF GroupKey
<1>3. /\ c \in {"a", "rows", "count", "sum", "min", "max"} /\ c # "a" /\ Aggregated
  BY <1>1, ShownIs
<1> DEFINE g == [value |-> Null, acc |-> Summary(input, Kept)]
<1>4. GroupsOf(Kept) = <<Result(g)>>
  BY DEF GroupsOf
<1>5. g.acc = Summary(input, Kept)
  OBVIOUS
<1> HIDE DEF g
<1>6. Len(GroupsOf(Kept)) = 1 /\ GroupsOf(Kept)[1] = Result(g) /\ Indexed(GroupsOf(Kept), 1)
  BY <1>4 DEF Indexed
<1>7. CASE groups = <<>>
  <2> DEFINE h == [value |-> Null, acc |-> NewAccumulators]
  <2>1. Produced = <<Result(h)>>
    BY <1>7 DEF Produced
  <2>2. h.acc = NewAccumulators
    OBVIOUS
  <2> HIDE DEF h
  <2>3. Kept = {}
    <3>1. DOMAIN groups = {}
      BY <1>7
    <3> QED
      BY <3>1, <1>1
  <2>4. h.acc = g.acc
    BY <2>2, <2>3, <1>5, SummaryOfNone
  <2>5. Len(Produced) = 1 /\ Produced[1] = Result(h)
    BY <2>1
  <2> QED
    BY <2>4, <2>5, <1>3, <1>6, ResultAlike
<1>8. CASE groups # <<>>
  <2>1. DOMAIN groups # {}
    <3>1. groups = [k \in DOMAIN groups |-> groups[k]]
      BY <1>1 DEF Grouping
    <3> QED
      BY <3>1, <1>8
  <2>2. DOMAIN groups = {<<>>}
    BY <2>1, <1>1, <1>2
  <2> DEFINE keys == Ascending(DOMAIN groups, BytesBefore)
             h == groups[<<>>]
  <2>3. Produced = [i \in DOMAIN keys |-> Result(groups[keys[i]])]
    BY <1>8 DEF Produced
  <2>4. keys \in [1 .. 1 -> {<<>>}]
    <3>1. Cardinality({<<>>}) = 1 /\ IsFiniteSet({<<>>})
      BY FS_Singleton
    <3>2. {<<>>} \in SUBSET Bytes
      BY CatFacts
    <3> DEFINE K == {<<>>}
    <3> HIDE DEF K
    <3>3. K \in SUBSET Bytes /\ IsFiniteSet(K) /\ Cardinality(K) = 1 /\ DOMAIN groups = K
      BY <3>1, <3>2, <2>2 DEF K
    <3>4. Ascending(K, BytesBefore) \in [1 .. Cardinality(K) -> K]
      BY <3>3, KeysAscend
    <3> QED
      BY <3>3, <3>4 DEF K
  <2> HIDE DEF keys, h
  <2>5. Len(Produced) = 1 /\ Produced[1] = Result(groups[<<>>])
    <3>1. keys[1] = <<>> /\ DOMAIN keys = 1 .. 1
      BY <2>4
    <3>2. Produced = [i \in 1 .. 1 |-> Result(groups[keys[i]])]
      BY <2>3, <3>1
    <3> QED
      BY <3>1, <3>2
  <2>6. RowsOf(<<>>) = Kept
    BY <1>1, <1>2 DEF RowsOf
  <2>7. h.acc = g.acc
    BY <2>2, <2>6, <1>1, <1>3, <1>5 DEF h
  <2>8. Produced[1] = Result(h)
    BY <2>5 DEF h
  <2> QED
    BY <2>5, <2>7, <2>8, <1>3, <1>6, ResultAlike
<1> QED
  BY <1>7, <1>8

LEMMA GroupsByA ==
  ASSUME GroupsRead, query.shape.group = "a", NEW n, n = Len(GroupsOf(Kept))
  PROVE  /\ n \in Nat /\ Indexed(GroupsOf(Kept), n) /\ Len(Produced) = n
         /\ \A c : Shown(c) => AlikeIn(Produced, GroupsOf(Kept), n, c)
<1>1. /\ TypeOK /\ Feeding /\ Grouping /\ IsGrouped /\ Taken = Kept /\ query \in Query /\ InOrder
      /\ DOMAIN groups = {GroupKey(input[i]) : i \in Taken}
      /\ \A key \in DOMAIN groups : /\ groups[key].acc.rows = Summary(input, RowsOf(key)).rows
                                    /\ Aggregated => groups[key].acc = Summary(input, RowsOf(key))
  BY DEF GroupsRead, GroupsAreExact, TypeOK
<1> DEFINE V == {input[i].a : i \in Kept}
           K == {Encode(v) : v \in V}
           s == Ascending(V, ByValue)
           m == Cardinality(V)
           keys == Ascending(K, BytesBefore)
           Members(v) == {i \in Kept : input[i].a = v}
           Group(v) == [value |-> v, acc |-> Summary(input, Members(v))]
<1>2. \A i \in Kept : input[i].a \in ValuesOfA
  BY <1>1, KeptIs
<1>3. V \in SUBSET ValuesOfA
  BY <1>2
<1>4. IsFiniteSet(V)
  <2>1. IsFiniteSet(Kept)
    BY <1>1, KeptIs
  <2> DEFINE f == [i \in Kept |-> input[i].a]
  <2>2. f \in Surjection(Kept, V)
    BY DEF Surjection
  <2> HIDE DEF f, V
  <2> QED
    BY <2>1, <2>2, FS_Surjection
<1>5. NegativeNaN \notin V
  <2>1. \A i \in Kept : i \in DOMAIN input
    BY DEF Kept
  <2> QED
    BY <2>1, <1>1 DEF InOrder, NegativeNaN
<1>6. DOMAIN groups = K
  <2>1. \A i \in Kept : GroupKey(input[i]) = Encode(input[i].a)
    BY DEF GroupKey
  <2> QED
    BY <2>1, <1>1
<1>7. GroupsOf(Kept) = [k \in DOMAIN s |-> Result(Group(s[k]))]
  BY DEF GroupsOf
<1>8. Produced = [k \in DOMAIN keys |-> Result(groups[keys[k]])]
  BY <1>6 DEF Produced
<1> HIDE DEF V
<1>9. m \in Nat /\ s \in [1 .. m -> V] /\ keys = [k \in 1 .. m |-> Encode(s[k])]
  BY <1>3, <1>4, <1>5, ValuesArranged
<1> HIDE DEF s, m, keys, K, Group
<1>10. /\ Len(GroupsOf(Kept)) = m /\ Len(Produced) = m
       /\ GroupsOf(Kept) = [k \in 1 .. m |-> Result(Group(s[k]))]
       /\ Produced = [k \in 1 .. m |-> Result(groups[Encode(s[k])])]
  <2>1. DOMAIN s = 1 .. m /\ DOMAIN keys = 1 .. m /\ \A k \in 1 .. m : keys[k] = Encode(s[k])
    BY <1>9
  <2>2. GroupsOf(Kept) = [k \in 1 .. m |-> Result(Group(s[k]))]
    BY <2>1, <1>7
  <2>3. Produced = [k \in 1 .. m |-> Result(groups[Encode(s[k])])]
    BY <2>1, <1>8
  <2> QED
    BY <2>2, <2>3, <1>9
<1>11. ASSUME NEW c, Shown(c), NEW k \in 1 .. m PROVE Result(groups[Encode(s[k])])[c] = Result(Group(s[k]))[c]
  <2> DEFINE v == s[k]
             g == groups[Encode(v)]
             h == Group(v)
  <2>1. v \in V /\ v \in ValuesOfA
    BY <1>3, <1>9
  <2> HIDE DEF v
  <2>2. Encode(v) \in DOMAIN groups
    BY <2>1, <1>6 DEF K
  <2>3. g.value = v
    <3>1. Encode(v) = Encode(g.value) /\ g.value \in ValuesOfA \cup {Null}
      BY <2>2, <1>1 DEF Grouping
    <3>2. IsValue(v) /\ IsValue(g.value)
      <4>1. IsValue(Null)
        BY DEF IsValue
      <4> QED
        BY <4>1, <3>1, <2>1, ColumnValues
    <3> QED
      BY <3>1, <3>2, EncodeApart
  <2>4. RowsOf(Encode(v)) = Members(v)
    <3>1. \A i \in Kept : GroupKey(input[i]) = Encode(v) <=> input[i].a = v
      <4> SUFFICES ASSUME NEW i \in Kept, Encode(input[i].a) = Encode(v) PROVE input[i].a = v
        BY DEF GroupKey
      <4>1. IsValue(v) /\ IsValue(input[i].a)
        BY <2>1, <1>2, ColumnValues
      <4> QED
        BY <4>1, EncodeApart
    <3> QED
      BY <3>1, <1>1 DEF RowsOf
  <2>5. h.value = v /\ h.acc = Summary(input, Members(v))
    BY DEF Group
  <2>6. g.acc.rows = h.acc.rows /\ (Aggregated => g.acc = h.acc)
    BY <2>2, <2>4, <2>5, <1>1
  <2>7. c \in {"a", "rows", "count", "sum", "min", "max"} /\ (c \in {"count", "sum", "min", "max"} => Aggregated)
    BY <1>1, <1>11, ShownIs
  <2> HIDE DEF g, h
  <2>8. Result(g)[c] = Result(h)[c]
    BY <2>3, <2>5, <2>6, <2>7, ResultAlike
  <2> QED
    BY <2>8 DEF g, h, v
<1>12. n = m
  BY <1>10
<1>13. Indexed(GroupsOf(Kept), n)
  BY <1>10, <1>12 DEF Indexed
<1>14. \A c : Shown(c) => AlikeIn(Produced, GroupsOf(Kept), n, c)
  BY <1>10, <1>11, <1>12 DEF AlikeIn
<1> QED
  BY <1>9, <1>10, <1>12, <1>13, <1>14

-----------------------------------------------------------------------------
(***************************************************************************)
(* The rows below the Sort, and the rows above it.                         *)
(***************************************************************************)
LEMMA WantedIs ==
  ASSUME Feeding, NEW n, n = Cardinality(Kept), NEW e, e = InARow(Kept)
  PROVE  /\ n \in Nat /\ e \in [1 .. n -> Kept] /\ \A i, j \in 1 .. n : i < j => e[i] < e[j]
         /\ Indexed(Wanted, n) /\ Len(Wanted) = n
         /\ \A k \in 1 .. n : Wanted[k] = input[e[k]] /\ Wanted[k] \in Row
<1>1. Kept \in SUBSET Nat /\ IsFiniteSet(Kept) /\ \A i \in Kept : input[i] \in Row
  <2>1. Kept \in SUBSET (1 .. Len(input)) /\ IsFiniteSet(Kept) /\ Len(input) \in Nat /\ \A i \in Kept : input[i] \in Row
    BY KeptIs
  <2> QED
    BY <2>1
<1>2. Arranges(e, LessOn(Kept), Kept)
  BY <1>1, NumbersAscend
<1>3. n \in Nat /\ e \in [1 .. n -> Kept] /\ \A i, j \in 1 .. n : i < j => e[i] < e[j]
  BY <1>1, <1>2, FS_CardinalityType DEF Arranges, LessOn
<1>4. Wanted = [k \in 1 .. n |-> input[e[k]]]
  BY <1>3 DEF Wanted, Arranged
<1>5. \A k \in 1 .. n : Wanted[k] = input[e[k]] /\ Wanted[k] \in Row
  BY <1>1, <1>3, <1>4
<1>6. Indexed(Wanted, n) /\ Len(Wanted) = n
  BY <1>3, <1>4 DEF Indexed
<1> QED
  BY <1>3, <1>5, <1>6

LEMMA ScannedIs ==
  ASSUME Feeding, ~IsGrouped, NEW n, n = Cardinality(Kept)
  PROVE  Indexed(Below, n) /\ Len(Below) = n /\ \A k \in 1 .. n : Below[k] = Decoded(Wanted[k])
<1>1. n \in Nat /\ Indexed(Wanted, n)
  BY WantedIs
<1>2. DOMAIN Wanted = 1 .. n
  BY <1>1 DEF Indexed
<1>3. Below = [k \in 1 .. n |-> Decoded(Wanted[k])]
  BY <1>2 DEF Below
<1> QED
  BY <1>1, <1>3 DEF Indexed

LEMMA WantedSortable ==
  ASSUME query \in Query, Feeding, ~IsGrouped, Order # NoOrder, NEW n, n = Cardinality(Kept)
  PROVE  Sortable(Wanted, n)
<1>1. n \in Nat /\ Indexed(Wanted, n) /\ \A k \in 1 .. n : Wanted[k] \in Row
  BY WantedIs
<1>2. Order.by \in {"a", "b"}
  <2>1. Order \in Orders(Column)
    <3>1. query.shape \in Plain \cup Grouped \cup Whole
      BY DEF Query
    <3> QED
      BY <3>1 DEF Plain, Grouped, Whole, Order, IsGrouped
  <2> QED
    BY <2>1 DEF Orders, Column
<1>3. \A r \in Row : r[Order.by] \in SortValues
  BY <1>2, RowFacts DEF SortValues
<1> QED
  BY <1>1, <1>3 DEF Sortable

\* What the scan decodes is all that can be seen of a row.
LEMMA DecodedAlike ==
  ASSUME query \in Query, Feeding, ~IsGrouped, NEW n, n = Cardinality(Kept)
  PROVE  /\ \A i \in 1 .. Len(Select) : AlikeIn(Wanted, Below, n, Select[i])
         /\ Sorts => AlikeIn(Wanted, Below, n, Order.by)
<1>1. \A k \in 1 .. n : Below[k] = Decoded(Wanted[k])
  BY ScannedIs
<1>2. \A i \in 1 .. Len(Select) : Select[i] \in Column /\ Select[i] \in Mask
  BY SelectIs DEF Column, Mask
<1>3. \A r : \A i \in 1 .. Len(Select) : Decoded(r)[Select[i]] = r[Select[i]]
  BY <1>2 DEF Decoded
<1>4. Sorts => \A r : Decoded(r)[Order.by] = r[Order.by]
  BY DecodedIs
<1> QED
  BY <1>1, <1>3, <1>4 DEF AlikeIn

LEMMA BelowIs ==
  ASSUME TypeOK, Feeding, Grouping, NEW rows, rows = Below, NEW n, n = Len(rows)
  PROVE  n \in Nat /\ Indexed(rows, n) /\ (Sorts => Sortable(rows, n))
<1>1. query \in Query
  BY DEF TypeOK
<1>2. CASE IsGrouped
  <2>1. rows = Produced
    BY <1>2 DEF Below
  <2> QED
    BY <2>1, <1>2, ProducedIs DEF Sorts
<1>3. CASE ~IsGrouped
  <2>1. Cardinality(Kept) = n /\ n \in Nat /\ Indexed(rows, n) /\ Indexed(Wanted, n)
    BY <1>3, WantedIs, ScannedIs
  <2>2. ASSUME Sorts PROVE Sortable(rows, n)
    <3>1. Order # NoOrder
      BY <2>2 DEF Sorts
    <3>2. Sortable(Wanted, n)
      BY <3>1, <2>1, <1>1, <1>3, WantedSortable
    <3>3. AlikeIn(Wanted, rows, n, Order.by) /\ \A i \in 1 .. Len(Select) : AlikeIn(Wanted, rows, n, Select[i])
      BY <2>1, <2>2, <1>1, <1>3, DecodedAlike
    <3> QED
      BY <3>2, <3>3, <2>1, SortedAlike
  <2> QED
    BY <2>1, <2>2
<1> QED
  BY <1>2, <1>3

LEMMA TopIs ==
  ASSUME TypeOK, Feeding, Grouping, NEW rows, rows = Below, NEW n, n = Len(rows), NEW top, top = Top
  PROVE  /\ n \in Nat /\ Indexed(top, n) /\ Len(top) = n
         /\ \A k \in 1 .. n : \E j \in 1 .. n : top[k] = rows[j]
<1>1. n \in Nat /\ Indexed(rows, n) /\ (Sorts => Sortable(rows, n))
  BY BelowIs
<1>2. CASE ~Sorts
  <2>1. top = rows
    BY <1>2 DEF Top
  <2> QED
    BY <2>1, <1>1
<1>3. CASE Sorts
  <2>1. top = Sorted(rows)
    BY <1>3 DEF Top
  <2>2. PICK t : SortedBy(t, rows, n)
    BY <1>1, <1>3, SortedIs
  <2>3. t \in [1 .. n -> 1 .. n] /\ top = [k \in 1 .. n |-> rows[t[k]]]
    BY <2>1, <2>2 DEF SortedBy
  <2>4. n \in Nat
    BY <1>1
  <2>5. \A k \in 1 .. n : t[k] \in 1 .. n /\ top[k] = rows[t[k]]
    BY <2>3
  <2>6. Indexed(top, n) /\ Len(top) = n
    BY <2>3, <2>4 DEF Indexed
  <2> QED
    BY <2>4, <2>5, <2>6
<1> QED
  BY <1>2, <1>3

\* An index in the order asked for is a sort that can be left out.
LEMMA IndexSorts ==
  ASSUME TypeOK, Feeding, ~IsGrouped, ~Sorts, InOrder
  PROVE  Sorted(Wanted) = Wanted
<1> DEFINE n == Cardinality(Kept)
           e == InARow(Kept)
<1>1. query \in Query
  BY DEF TypeOK
<1>2. CASE Order = NoOrder
  BY <1>2 DEF Sorted
<1>3. CASE Order # NoOrder
  <2>1. Sortable(Wanted, n)
    BY <1>1, <1>3, WantedSortable
  <2>2. ~Order.desc /\ Order.by = query.via
    BY <1>3 DEF Sorts
  <2>3. Order.by = "a" /\ query.via = "a"
    <3>1. query.via \in {"id", "a"}
      BY <1>1 DEF Query
    <3>2. Order.by \in {"", "a", "b"}
      BY <1>1, QueryFacts
    <3> QED
      BY <3>1, <3>2, <2>2
  <2>4. /\ n \in Nat /\ e \in [1 .. n -> Kept] /\ \A i, j \in 1 .. n : i < j => e[i] < e[j]
        /\ \A k \in 1 .. n : Wanted[k] = input[e[k]]
    BY WantedIs
  <2>5. \A i \in Kept : i \in DOMAIN input /\ input[i].a \in ValuesOfA
    BY KeptIs DEF Kept
  <2> HIDE DEF n, e
  <2>6. ASSUME NEW i \in 1 .. n, NEW j \in 1 .. n, i < j PROVE RowAhead(Wanted, i, j)
    <3> DEFINE x == input[e[i]].a
               y == input[e[j]].a
    <3>1. e[i] \in Kept /\ e[j] \in Kept /\ e[i] < e[j]
      BY <2>4, <2>6
    <3>2. ~BytesBefore(Encode(y), Encode(x))
      BY <3>1, <2>3, <2>5 DEF Feeding
    <3>3. x # NegativeNaN /\ x \in ValuesOfA /\ y \in ValuesOfA
      BY <3>1, <2>3, <2>5 DEF InOrder, NegativeNaN
    <3>4. Wanted[i].a = x /\ Wanted[j].a = y
      BY <2>4
    <3>5. Precedes(Wanted[j], Wanted[i]) <=> Before(y, x)
      BY <3>4, <2>2, <2>3 DEF Precedes
    <3> HIDE DEF x, y
    <3>6. ~Before(y, x)
      <4>1. IsValue(x) /\ IsValue(y)
        BY <3>3, ColumnValues
      <4> QED
        BY <4>1, <3>2, <3>3, EncodeInOrder, SplitsBefore
    <3> QED
      BY <3>5, <3>6, <2>6 DEF RowAhead
  <2> QED
    BY <2>1, <2>6, SortedStays
<1> QED
  BY <1>2, <1>3

\* When all rows have been read, the rows above the Sort are those a statement
\* without DISTINCT and LIMIT means.
LEMMA TopMeans ==
  ASSUME TypeOK, Feeding, Grouping, InOrder, IsGrouped => GroupsRead
  PROVE  OfAll(Top) = OfAll(Sorted(IF IsGrouped THEN GroupsOf(Kept) ELSE Wanted))
<1>1. query \in Query
  BY DEF TypeOK
<1>2. CASE ~IsGrouped
  <2> DEFINE n == Cardinality(Kept)
  <2>1. n \in Nat /\ Indexed(Wanted, n) /\ Indexed(Below, n)
    BY <1>2, WantedIs, ScannedIs
  <2>2. /\ \A i \in 1 .. Len(Select) : AlikeIn(Wanted, Below, n, Select[i])
        /\ Sorts => AlikeIn(Wanted, Below, n, Order.by)
    BY <1>1, <1>2, DecodedAlike
  <2>3. Order # NoOrder => Sortable(Wanted, n)
    BY <1>1, <1>2, WantedSortable
  <2> HIDE DEF n
  <2>4. CASE Sorts
    <3>1. Sortable(Wanted, n)
      BY <2>3, <2>4 DEF Sorts
    <3>2. OfAll(Sorted(Wanted)) = OfAll(Sorted(Below))
      BY <3>1, <2>1, <2>2, <2>4, SortedAlike
    <3> QED
      BY <3>2, <2>4, <1>2 DEF Top
  <2>5. CASE ~Sorts
    <3>1. OfAll(Wanted) = OfAll(Below)
      BY <1>1, <2>1, <2>2, ShownAlike
    <3>2. Sorted(Wanted) = Wanted
      BY <2>5, <1>2, IndexSorts
    <3> QED
      BY <3>1, <3>2, <2>5, <1>2 DEF Top
  <2> QED
    BY <2>4, <2>5
<1>3. CASE IsGrouped
  <2> DEFINE rows == Produced
             n == Len(rows)
             G == GroupsOf(Kept)
  <2>1. n \in Nat /\ Indexed(rows, n) /\ (Order # NoOrder => Sortable(rows, n))
    BY <1>3, ProducedIs
  <2>2. Indexed(G, n) /\ \A c : Shown(c) => AlikeIn(rows, G, n, c)
    <3>1. CASE query.shape.group = "a"
      BY <3>1, <1>3, GroupsByA
    <3>2. CASE query.shape.group = "all"
      <4>1. Shown("rows")
        <5>1. Select = Calls
          <6>1. query.shape \in Plain \cup Grouped \cup Whole
            BY <1>1 DEF Query
          <6> QED
            BY <6>1, <3>2 DEF Plain, Grouped, Whole, Select
        <5>2. Len(Calls) = 5 /\ Calls[1] = "rows"
          BY DEF Calls
        <5> QED
          BY <5>1, <5>2 DEF Shown
      <4>2. Len(G) = 1 /\ Indexed(G, 1) /\ n = 1
        BY <4>1, <3>2, <1>3, GroupsOfAll
      <4>3. ASSUME NEW c, Shown(c), NEW k \in 1 .. n PROVE rows[k][c] = G[k][c]
        <5>1. rows[1][c] = G[1][c]
          BY <4>3, <3>2, <1>3, GroupsOfAll
        <5>2. k = 1
          BY <4>2
        <5> QED
          BY <5>1, <5>2
      <4>4. \A c : Shown(c) => AlikeIn(rows, G, n, c)
        BY <4>3 DEF AlikeIn
      <4> QED
        BY <4>2, <4>4
    <3>3. query.shape.group \in {"a", "all"}
      BY <1>1, <1>3, QueryFacts DEF IsGrouped
    <3> QED
      BY <3>1, <3>2, <3>3
  <2>3. /\ \A i \in 1 .. Len(Select) : AlikeIn(rows, G, n, Select[i])
        /\ Order # NoOrder => AlikeIn(rows, G, n, Order.by)
    BY <2>2 DEF Shown
  <2>4. Below = rows
    BY <1>3 DEF Below
  <2> HIDE DEF rows, n, G
  <2>5. CASE Order # NoOrder
    <3>1. OfAll(Sorted(rows)) = OfAll(Sorted(G))
      BY <2>1, <2>2, <2>3, <2>5, SortedAlike
    <3> QED
      BY <3>1, <2>4, <2>5, <1>3 DEF Top, Sorts, G
  <2>6. CASE Order = NoOrder
    <3>1. OfAll(rows) = OfAll(G)
      BY <1>1, <2>1, <2>2, <2>3, ShownAlike
    <3>2. Sorted(G) = G /\ ~Sorts
      BY <2>6 DEF Sorted, Sorts
    <3> QED
      BY <3>1, <3>2, <2>4, <1>3 DEF Top, G
  <2> QED
    BY <2>5, <2>6
<1> QED
  BY <1>2, <1>3

-----------------------------------------------------------------------------
(***************************************************************************)
(* What DISTINCT and the window leave.                                     *)
(***************************************************************************)
\* The new ones among the first c rows.
NewTo(rows, c) == {k \in News(rows) : k <= c}

LEMMA NewsIs ==
  ASSUME NEW n \in Nat, NEW rows, Indexed(rows, n)
  PROVE  /\ News(rows) \in SUBSET (1 .. n) /\ IsFiniteSet(News(rows)) /\ Cardinality(News(rows)) \in 0 .. n
         /\ \A k \in 1 .. n : k \in News(rows) <=> (query.distinct => \A j \in 1 .. k - 1 : rows[j] # rows[k])
         /\ ~query.distinct => News(rows) = 1 .. n
         /\ Len(Deduplicated(rows)) = Cardinality(News(rows))
         /\ Indexed(Deduplicated(rows), Cardinality(News(rows)))
<1>1. DOMAIN rows = 1 .. n
  BY DEF Indexed
<1>2. News(rows) \in SUBSET (1 .. n)
  BY <1>1 DEF News
<1>3. IsFiniteSet(1 .. n) /\ Cardinality(1 .. n) = n
  BY UpTo
<1>4. IsFiniteSet(News(rows)) /\ Cardinality(News(rows)) \in 0 .. n
  <2>1. IsFiniteSet(News(rows)) /\ Cardinality(News(rows)) \in Nat /\ Cardinality(News(rows)) <= n
    BY <1>2, <1>3, PartsAreFinite
  <2> QED
    BY <2>1
<1>5. \A k \in 1 .. n : k \in News(rows) <=> (query.distinct => \A j \in 1 .. k - 1 : rows[j] # rows[k])
  BY <1>1 DEF News
<1>6. ~query.distinct => News(rows) = 1 .. n
  BY <1>1 DEF News
<1> DEFINE S == News(rows)
           e == InARow(S)
           m == Cardinality(S)
<1>7. Deduplicated(rows) = [k \in DOMAIN e |-> rows[e[k]]]
  BY DEF Deduplicated, Arranged
<1> HIDE DEF S
<1>8. S \in SUBSET Nat /\ IsFiniteSet(S)
  BY <1>2, <1>4 DEF S
<1>9. Arranges(e, LessOn(S), S)
  BY <1>8, NumbersAscend
<1>10. DOMAIN e = 1 .. m /\ m \in Nat
  BY <1>8, <1>9, FS_CardinalityType DEF Arranges
<1> HIDE DEF e, m
<1> DEFINE d == Deduplicated(rows)
<1>11. d = [k \in 1 .. m |-> rows[e[k]]]
  BY <1>7, <1>10
<1> HIDE DEF d
<1>12. Len(d) = m /\ Indexed(d, m)
  BY <1>10, <1>11 DEF Indexed
<1> QED
  BY <1>2, <1>4, <1>5, <1>6, <1>12 DEF S, m, d

LEMMA NewToIs ==
  ASSUME NEW n \in Nat, NEW rows, Indexed(rows, n), NEW c \in 0 .. n
  PROVE  /\ NewTo(rows, c) \in SUBSET News(rows) /\ IsFiniteSet(NewTo(rows, c))
         /\ Cardinality(NewTo(rows, c)) \in 0 .. Cardinality(News(rows))
         /\ Cardinality(NewTo(rows, 0)) = 0 /\ NewTo(rows, n) = News(rows)
<1>1. /\ News(rows) \in SUBSET (1 .. n) /\ IsFiniteSet(News(rows)) /\ Cardinality(News(rows)) \in 0 .. n
  BY NewsIs
<1>2. NewTo(rows, c) \in SUBSET News(rows)
  BY DEF NewTo
<1>3. /\ IsFiniteSet(NewTo(rows, c)) /\ Cardinality(NewTo(rows, c)) \in Nat
      /\ Cardinality(NewTo(rows, c)) <= Cardinality(News(rows))
  BY <1>1, <1>2, PartsAreFinite
<1>4. NewTo(rows, 0) = {} /\ NewTo(rows, n) = News(rows)
  BY <1>1 DEF NewTo
<1> QED
  BY <1>1, <1>2, <1>3, <1>4, FS_EmptySet

\* The next row is the next of those DISTINCT leaves, unless it is repeated.
LEMMA NewNext ==
  ASSUME NEW n \in Nat, NEW rows, Indexed(rows, n), NEW c \in Nat, c + 1 \in 1 .. n,
         NEW m, m = Cardinality(NewTo(rows, c))
  PROVE  /\ c + 1 \notin News(rows) => Cardinality(NewTo(rows, c + 1)) = m
         /\ c + 1 \in News(rows) => /\ Cardinality(NewTo(rows, c + 1)) = m + 1
                                    /\ m + 1 \in 1 .. Cardinality(News(rows))
                                    /\ Deduplicated(rows)[m + 1] = rows[c + 1]
<1>1. News(rows) \in SUBSET (1 .. n) /\ IsFiniteSet(News(rows))
  BY NewsIs
<1>2. c \in 0 .. n
  OBVIOUS
<1>3. IsFiniteSet(NewTo(rows, c)) /\ m \in Nat
  <2>1. IsFiniteSet(NewTo(rows, c)) /\ m \in 0 .. Cardinality(News(rows))
    BY <1>2, NewToIs
  <2> QED
    BY <2>1, <1>1, FS_CardinalityType
<1>4. \A k \in News(rows) : k <= c + 1 <=> k <= c \/ k = c + 1
  BY <1>1
<1>5. ASSUME c + 1 \notin News(rows) PROVE NewTo(rows, c + 1) = NewTo(rows, c)
  BY <1>4, <1>5 DEF NewTo
<1>6. ASSUME c + 1 \in News(rows)
      PROVE  /\ Cardinality(NewTo(rows, c + 1)) = m + 1 /\ m + 1 \in 1 .. Cardinality(News(rows))
             /\ Deduplicated(rows)[m + 1] = rows[c + 1]
  <2>1. NewTo(rows, c + 1) = NewTo(rows, c) \cup {c + 1}
    BY <1>4, <1>6 DEF NewTo
  <2>2. ~(c + 1 <= c)
    OBVIOUS
  <2>3. c + 1 \notin NewTo(rows, c)
    BY <2>2 DEF NewTo
  <2>4. Cardinality(NewTo(rows, c + 1)) = m + 1
    BY <2>1, <2>3, <1>3, FS_AddElement
  <2>5. \A k \in News(rows) : k < c + 1 <=> k <= c
    BY <1>1
  <2>6. NewTo(rows, c) = {k \in News(rows) : k < c + 1}
    BY <2>5 DEF NewTo
  <2> DEFINE S == News(rows)
             e == InARow(S)
             x == c + 1
  <2>7. Deduplicated(rows) = [k \in DOMAIN e |-> rows[e[k]]]
    BY DEF Deduplicated, Arranged
  <2> HIDE DEF S, x
  <2>8. S \in SUBSET Nat /\ IsFiniteSet(S) /\ x \in S
    BY <1>1, <1>6 DEF S, x
  <2>9. m + 1 = Cardinality({y \in S : y < x}) + 1
    BY <2>6 DEF S, x
  <2>10. m + 1 \in 1 .. Cardinality(S) /\ e[m + 1] = x
    BY <2>8, <2>9, NumberAt
  <2>11. Arranges(e, LessOn(S), S)
    BY <2>8, NumbersAscend
  <2>12. DOMAIN e = 1 .. Cardinality(S)
    BY <2>11 DEF Arranges
  <2> HIDE DEF e
  <2> QED
    BY <2>4, <2>7, <2>10, <2>12 DEF S, x
<1> QED
  BY <1>5, <1>6

-----------------------------------------------------------------------------
(***************************************************************************)
(* Values all the way.                                                     *)
(***************************************************************************)
\* No count of rows is too large for an integer.
LEMMA CountsAreValues ==
  ASSUME TypeOK, Feeding, NEW P \in SUBSET Kept
  PROVE  IsValue(Value("INT", Summary(input, P).rows)) /\ IsValue(Value("INT", Summary(input, P).count))
<1>1. Kept \in SUBSET (1 .. Len(input)) /\ Len(input) \in Nat /\ Len(input) <= MaxRows
  BY KeptIs DEF TypeOK
<1>2. IsFiniteSet(1 .. Len(input)) /\ Cardinality(1 .. Len(input)) = Len(input)
  BY <1>1, UpTo
<1>3. SignBit \in Nat /\ MaxRows \in Int /\ MaxRows <= SignBit - 1
  <2>1. SignBit \in Nat
    BY ByteRange
  <2> QED
    BY <2>1, MaxRowsAssumption
<1>4. ASSUME NEW Q \in SUBSET P PROVE IsValue(Value("INT", Cardinality(Q)))
  <2>1. Q \in SUBSET (1 .. Len(input))
    BY <1>1
  <2>2. Cardinality(Q) \in Nat /\ Cardinality(Q) <= Len(input)
    BY <2>1, <1>2, PartsAreFinite
  <2>3. Cardinality(Q) \in -SignBit .. SignBit - 1
    BY <2>2, <1>1, <1>3
  <2> QED
    BY <2>3 DEF IsValue
<1>5. Summary(input, P).rows = Cardinality(P) /\ Summary(input, P).count = Cardinality(Present(input, P))
  BY SummaryIs
<1>6. Present(input, P) \in SUBSET P
  BY DEF Present
<1> QED
  BY <1>4, <1>5, <1>6

LEMMA IntegersAreValues == \A v \in ValuesOf("INT") \cup {Null} : IsValue(v)
<1> SUFFICES ASSUME NEW v \in ValuesOf("INT") \cup {Null} PROVE IsValue(v)
  OBVIOUS
<1>1. CASE v \in ValuesOf("INT")
  BY <1>1, ValuesAreValues
<1>2. CASE v = Null
  BY <1>2 DEF IsValue
<1> QED
  BY <1>1, <1>2

LEMMA ResultValues ==
  ASSUME query \in Query, IsGrouped, NEW g, NEW i \in 1 .. Len(Select),
         IsValue(g.value), IsAcc(g.acc), IsValue(Value("INT", g.acc.rows)),
         Aggregated => IsValue(Value("INT", g.acc.count))
  PROVE  IsValue(Result(g)[Select[i]])
<1> DEFINE c == Select[i]
<1>1. Shown(c)
  BY DEF Shown
<1>2. c \in {"a", "rows", "count", "sum", "min", "max"} /\ (c \in {"count", "sum", "min", "max"} => Aggregated)
  BY <1>1, ShownIs
<1> HIDE DEF c
<1>3. IsValue(g.acc.sum) /\ IsValue(g.acc.min) /\ IsValue(g.acc.max)
  BY IntegersAreValues DEF IsAcc
<1>4. /\ Result(g)["a"] = g.value /\ Result(g)["rows"] = Value("INT", g.acc.rows)
      /\ Result(g)["count"] = Value("INT", g.acc.count) /\ Result(g)["sum"] = g.acc.sum
      /\ Result(g)["min"] = g.acc.min /\ Result(g)["max"] = g.acc.max
  BY ResultColumns
<1>5. IsValue(Result(g)[c])
  <2>1. CASE c = "a"
    BY <2>1, <1>4
  <2>2. CASE c = "rows"
    BY <2>2, <1>4
  <2>3. CASE c = "count"
    BY <2>3, <1>2, <1>4
  <2>4. CASE c \in {"sum", "min", "max"}
    BY <2>4, <1>3, <1>4
  <2> QED
    BY <1>2, <2>1, <2>2, <2>3, <2>4
<1> QED
  BY <1>5 DEF c

\* What can be seen of the rows below the Sort are values.
LEMMA BelowValues ==
  ASSUME TypeOK, Feeding, Grouping, GroupsAreExact, pc # "done", NEW rows, rows = Below,
         NEW k \in 1 .. Len(rows), NEW i \in 1 .. Len(Select)
  PROVE  IsValue(rows[k][Select[i]])
<1>1. query \in Query
  BY DEF TypeOK
<1>2. CASE ~IsGrouped
  <2> DEFINE n == Cardinality(Kept)
  <2>1. Len(rows) = n /\ \A j \in 1 .. n : Wanted[j] \in Row
    BY <1>2, WantedIs, ScannedIs
  <2>2. AlikeIn(Wanted, rows, n, Select[i])
    BY <1>1, <1>2, DecodedAlike
  <2>3. Wanted[k] \in Row /\ rows[k][Select[i]] = Wanted[k][Select[i]]
    BY <2>1, <2>2 DEF AlikeIn
  <2>4. Select[i] \in {"a", "b"}
    BY <1>1, <1>2, SelectIs
  <2>5. \A r \in Row : IsValue(r["a"]) /\ IsValue(r["b"])
    BY RowFacts, ColumnValues, IntegersAreValues
  <2> QED
    BY <2>3, <2>4, <2>5
<1>3. CASE IsGrouped
  <2>1. rows = Produced
    BY <1>3 DEF Below
  <2>2. CASE query.shape.group = "all" /\ groups = <<>>
    <3> DEFINE g == [value |-> Null, acc |-> NewAccumulators]
    <3>1. rows = <<Result(g)>>
      BY <2>1, <2>2 DEF Produced
    <3>2. g.value = Null /\ g.acc = NewAccumulators
      OBVIOUS
    <3> HIDE DEF g
    <3>3. rows[k] = Result(g)
      BY <3>1
    <3>4. IsValue(Value("INT", 0)) /\ IsValue(Null)
      <4>1. 0 \in -SignBit .. SignBit - 1
        BY ByteRange
      <4> QED
        BY <4>1 DEF IsValue
    <3>5. g.acc.rows = 0 /\ g.acc.count = 0 /\ IsAcc(g.acc)
      BY <3>2, NewIsAcc DEF NewAccumulators
    <3>6. IsValue(Result(g)[Select[i]])
      BY <3>2, <3>4, <3>5, <1>1, <1>3, ResultValues
    <3> QED
      BY <3>3, <3>6
  <2>3. CASE ~(query.shape.group = "all" /\ groups = <<>>)
    <3> DEFINE keys == Ascending(DOMAIN groups, BytesBefore)
    <3>1. rows = [j \in DOMAIN keys |-> Result(groups[keys[j]])]
      BY <2>1, <2>3 DEF Produced
    <3>2. keys \in [1 .. Cardinality(DOMAIN groups) -> DOMAIN groups] /\ Cardinality(DOMAIN groups) \in Nat
      <4>1. IsFiniteSet(DOMAIN groups) /\ DOMAIN groups \in SUBSET Bytes
        BY DEF Grouping, Bytes
      <4> QED
        BY <4>1, KeysAscend, FS_CardinalityType
    <3> DEFINE m == Cardinality(DOMAIN groups)
    <3> HIDE DEF keys, m
    <3>3. rows = [j \in 1 .. m |-> Result(groups[keys[j]])] /\ m \in Nat /\ keys \in [1 .. m -> DOMAIN groups]
      BY <3>1, <3>2 DEF m
    <3>4. rows[k] = Result(groups[keys[k]]) /\ keys[k] \in DOMAIN groups
      BY <3>3
    <3> DEFINE x == keys[k]
               g == groups[x]
    <3> HIDE DEF x
    <3>5. x \in DOMAIN groups /\ rows[k] = Result(g)
      BY <3>4 DEF x
    <3>6. g.value \in ValuesOfA \cup {Null} /\ IsAcc(g.acc)
      BY <3>5 DEF Grouping, TypeOK, IsAcc
    <3>7. g.acc.rows = Summary(input, RowsOf(x)).rows /\ (Aggregated => g.acc = Summary(input, RowsOf(x)))
      BY <3>5, <1>3 DEF GroupsAreExact
    <3>8. RowsOf(x) \in SUBSET Kept
      BY DEF RowsOf, Taken
    <3>9. IsValue(g.value)
      <4>1. IsValue(Null)
        BY DEF IsValue
      <4> QED
        BY <4>1, <3>6, ColumnValues
    <3> HIDE DEF g
    <3>10. IsValue(Value("INT", g.acc.rows)) /\ (Aggregated => IsValue(Value("INT", g.acc.count)))
      BY <3>7, <3>8, CountsAreValues
    <3>11. IsValue(Result(g)[Select[i]])
      BY <3>6, <3>9, <3>10, <1>1, <1>3, ResultValues
    <3> QED
      BY <3>5, <3>11
  <2> QED
    BY <2>2, <2>3
<1> QED
  BY <1>2, <1>3

\* A row is told apart from others by its encoding.
LEMMA AllIs ==
  ASSUME TypeOK, Feeding, Grouping, GroupsAreExact, pc # "done", NEW top, top = Top, NEW n, n = Len(Below),
         NEW all, all = OfAll(top)
  PROVE  /\ n \in Nat /\ Indexed(top, n) /\ Indexed(all, n) /\ Len(all) = n
         /\ \A k \in 1 .. n : all[k] = Projected(top[k])
         /\ \A j, k \in 1 .. n : EncodedRow(all[j]) = EncodedRow(all[k]) => all[j] = all[k]
<1> DEFINE rows == Below
           w == Len(Select)
<1>1. /\ n \in Nat /\ Indexed(top, n)
      /\ \A k \in 1 .. n : \E j \in 1 .. n : top[k] = rows[j]
  BY TopIs
<1>2. DOMAIN top = 1 .. n
  BY <1>1 DEF Indexed
<1>3. all = [k \in 1 .. n |-> Projected(top[k])]
  BY <1>2 DEF OfAll
<1>4. Indexed(all, n) /\ Len(all) = n /\ \A k \in 1 .. n : all[k] = Projected(top[k])
  <2> DEFINE p == [k \in 1 .. n |-> Projected(top[k])]
  <2>1. \A k \in 1 .. n : p[k] = Projected(top[k])
    OBVIOUS
  <2>2. p = [k \in 1 .. n |-> p[k]] /\ Len(p) = n
    BY <1>1
  <2> HIDE DEF p
  <2>3. all = p
    BY <1>3 DEF p
  <2>4. Indexed(p, n)
    BY <2>2 DEF Indexed
  <2> QED
    BY <2>1, <2>2, <2>3, <2>4
<1>5. w \in Nat /\ DOMAIN Select = 1 .. w
  BY SelectIs DEF TypeOK
<1>6. \A j \in 1 .. n : \A i \in 1 .. w : IsValue(rows[j][Select[i]])
  BY BelowValues
<1> HIDE DEF rows
<1>7. ASSUME NEW k \in 1 .. n PROVE IsRow(all[k], w)
  <2>1. PICK j \in 1 .. n : top[k] = rows[j]
    BY <1>1
  <2> DEFINE r == all[k]
  <2>2. r = [i \in 1 .. w |-> rows[j][Select[i]]]
    BY <2>1, <1>4, <1>5 DEF Projected
  <2> HIDE DEF r, w
  <2>3. r = [i \in 1 .. w |-> r[i]] /\ \A i \in 1 .. w : IsValue(r[i])
    BY <2>2, <1>6
  <2> QED
    BY <2>3 DEF IsRow, r
<1> HIDE DEF w
<1>8. ASSUME NEW j \in 1 .. n, NEW k \in 1 .. n, EncodedRow(all[j]) = EncodedRow(all[k]) PROVE all[j] = all[k]
  BY <1>5, <1>7, <1>8, EncodedRowApart
<1> QED
  BY <1>1, <1>4, <1>8

-----------------------------------------------------------------------------
(***************************************************************************)
(* What a step leaves alone.                                               *)
(***************************************************************************)
\* The reference and the rows below the Sort depend on the statement, its rows
\* and the buckets alone.
LEMMA SameKept ==
  ASSUME UNCHANGED <<query, input>>
  PROVE  Kept' = Kept /\ Wanted' = Wanted
<1>1. Kept' = Kept
  BY DEF Kept
<1>2. InARow(Kept)' = InARow(Kept)
  BY <1>1 DEF InARow, Ascending
<1> QED
  BY <1>1, <1>2 DEF Wanted, Arranged

LEMMA SameBelow ==
  ASSUME UNCHANGED <<query, input, groups>>
  PROVE  Produced' = Produced /\ Below' = Below
<1>1. Produced' = Produced
  BY DEF Produced, Result, GroupKey
<1>2. Wanted' = Wanted /\ (IsGrouped' <=> IsGrouped) /\ Mask' = Mask
  BY SameKept, SameQuery
<1>3. [k \in DOMAIN Wanted |-> Decoded(Wanted[k])]' = [k \in DOMAIN Wanted |-> Decoded(Wanted[k])]
  BY <1>2 DEF Decoded
<1> QED
  BY <1>1, <1>2, <1>3 DEF Below

LEMMA SameTop ==
  ASSUME UNCHANGED <<query, input, groups>>
  PROVE  Below' = Below /\ Top' = Top /\ Reach' = Reach
<1>1. Below' = Below /\ (Sorts' <=> Sorts) /\ SortLimit' = SortLimit /\ Order' = Order
  BY SameBelow, SameQuery
<1> DEFINE rows == Below
<1> HIDE DEF rows
<1>2. rows' = rows
  BY <1>1 DEF rows
<1>3. Sorted(rows)' = Sorted(rows)
  BY <1>1, <1>2 DEF Sorted, Arranged, Precedes, Ascending
<1> QED
  BY <1>1, <1>3 DEF Top, Reach, rows

LEMMA SameShown ==
  ASSUME UNCHANGED <<query, input, groups>>
  PROVE  /\ OfAll(Top)' = OfAll(Top) /\ News(OfAll(Top))' = News(OfAll(Top))
         /\ Deduplicated(OfAll(Top))' = Deduplicated(OfAll(Top))
<1>1. Top' = Top /\ Select' = Select
  BY SameTop, SameQuery
<1>2. OfAll(Top)' = OfAll(Top)
  BY <1>1 DEF OfAll, Projected
<1> DEFINE all == OfAll(Top)
<1> HIDE DEF all
<1>3. all' = all
  BY <1>2 DEF all
<1>4. News(all)' = News(all)
  BY <1>3 DEF News
<1>5. Deduplicated(all)' = Deduplicated(all)
  BY <1>3, <1>4 DEF Deduplicated, Arranged, InARow, Ascending
<1> QED
  BY <1>2, <1>4, <1>5 DEF all

-----------------------------------------------------------------------------
(***************************************************************************)
(* The next row.                                                           *)
(***************************************************************************)
LEMMA IndexedIs ==
  ASSUME NEW n \in Nat, NEW s, Indexed(s, n)
  PROVE  s \in Seq({s[k] : k \in 1 .. n}) /\ Len(s) = n
<1> DEFINE S == {s[k] : k \in 1 .. n}
<1>1. s = [k \in 1 .. n |-> s[k]] /\ \A k \in 1 .. n : s[k] \in S
  BY DEF Indexed
<1> HIDE DEF S
<1>2. [k \in 1 .. n |-> s[k]] \in [1 .. n -> S]
  BY <1>1
<1>3. s \in [1 .. n -> S]
  BY <1>1, <1>2
<1>4. s \in Seq(S) /\ Len(s) = n
  BY <1>3
<1> QED
  BY <1>4 DEF S

\* The first of what is left of some rows.
LEMMA SubSeqUsedUp ==
  ASSUME NEW n \in Nat, NEW s, Indexed(s, n), NEW r \in 0 .. n, NEW c \in 0 .. r, SubSeq(s, c + 1, r) = <<>>
  PROVE  c = r
<1>0. Len(<<>>) = 0
  OBVIOUS
<1> DEFINE S == {s[k] : k \in 1 .. n}
<1>1. s \in Seq(S) /\ Len(s) = n
  BY IndexedIs
<1> HIDE DEF S
<1>2. c \in Nat /\ r \in Nat /\ c <= r /\ r <= n
  OBVIOUS
<1>3. Len(SubSeq(s, c + 1, r)) = r - c
  BY <1>1, <1>2
<1>4. Len(SubSeq(s, c + 1, r)) = 0
  BY <1>0, Zenon
<1> QED
  BY <1>2, <1>3, <1>4

LEMMA SubSeqLeft ==
  ASSUME NEW n \in Nat, NEW s, Indexed(s, n), NEW r \in 0 .. n, NEW c \in 0 .. r, NEW f, f = SubSeq(s, c + 1, r),
         f # <<>>
  PROVE  /\ c \in Nat /\ c + 1 \in 1 .. r /\ Head(f) = s[c + 1]
         /\ Tail(f) = SubSeq(s, (c + 1) + 1, r) /\ Len(Tail(f)) = r - (c + 1)
<1> DEFINE S == {s[k] : k \in 1 .. n}
<1>1. s \in Seq(S) /\ Len(s) = n
  BY IndexedIs
<1> HIDE DEF S
<1>2. c \in Nat /\ r \in Nat /\ c <= r /\ r <= n
  OBVIOUS
<1>3. f \in Seq(S) /\ Len(f) = r - c
  BY <1>1, <1>2
<1>4. c < r /\ c + 1 \in 1 .. r
  <2>1. Len(f) = 0 => f = <<>>
    BY <1>3
  <2> QED
    BY <2>1, <1>2, <1>3
<1>5. Head(f) = s[c + 1]
  BY <1>1, <1>2, <1>4
<1>6. Tail(f) = SubSeq(s, (c + 1) + 1, r)
  BY <1>1, <1>2, <1>4
<1>7. Len(Tail(f)) = r - (c + 1)
  BY <1>2, <1>3
<1> QED
  BY <1>2, <1>4, <1>5, <1>6, <1>7

LEMMA TakenIs ==
  ASSUME Feeding, NEW n, n = Cardinality(Kept)
  PROVE  /\ n \in Nat /\ Taken \in SUBSET Kept /\ IsFiniteSet(Taken) /\ Cardinality(Taken) \in 0 .. n
         /\ (raw => feed = <<>>) => Taken = Kept
<1>1. IsFiniteSet(Kept) /\ Kept \in SUBSET (1 .. Len(input))
  BY KeptIs
<1>2. Taken \in SUBSET Kept
  BY DEF Taken
<1>3. IsFiniteSet(Taken) /\ Cardinality(Taken) <= Cardinality(Kept)
  BY <1>1, <1>2, FS_Subset
<1>4. Cardinality(Taken) \in Nat /\ n \in Nat
  BY <1>1, <1>3, FS_CardinalityType
<1>5. ASSUME raw => feed = <<>> PROVE Taken = Kept
  <2>1. input \in Seq(Row)
    BY DEF Feeding
  <2>2. raw => Len(input) - Len(feed) = Len(input)
    BY <2>1, <1>5
  <2>3. \A i \in Kept : i \in 1 .. Len(input)
    BY <1>1
  <2>4. \A i \in Kept : raw => i <= Len(input) - Len(feed)
    BY <2>1, <2>2, <2>3
  <2> QED
    BY <2>4 DEF Taken
<1> QED
  BY <1>2, <1>3, <1>4, <1>5

\* The next row of the scan that passes the filter.
LEMMA ScanNext ==
  ASSUME query \in Query, Feeding, raw, ~IsGrouped, feed # <<>>, feed' = Tail(feed), UNCHANGED <<query, input, raw>>,
         Passes(Current), NEW c, c = Cardinality(Taken)
  PROVE  c \in Nat /\ c + 1 \in 1 .. Len(Below) /\ Current = Below[c + 1] /\ Cardinality(Taken') = c + 1
<1> DEFINE p == Len(input) - Len(feed)
           i == p + 1
           n == Cardinality(Kept)
           e == InARow(Kept)
           r == input[p + 1]
<1>1. /\ p \in Nat /\ p + 1 \in 1 .. Len(input) /\ Head(feed) = input[p + 1]
      /\ p + 1 \notin Taken /\ Taken \in SUBSET (1 .. p)
      /\ Taken' = IF query.filtered => input[p + 1].b # Null THEN Taken \cup {p + 1} ELSE Taken
      /\ input[p + 1] \in Row
  BY ScanStep
<1>2. Current = Decoded(input[p + 1])
  BY <1>1 DEF Current
<1>3. query.filtered => input[p + 1].b # Null
  <2>1. query.filtered => Decoded(input[p + 1]).b = input[p + 1].b
    BY <1>1, DecodedIs
  <2>2. query.filtered => Decoded(input[p + 1]).b # Null
    BY <1>2 DEF Passes
  <2> QED
    BY <2>1, <2>2
<1>4. Taken' = Taken \cup {p + 1} /\ i \in Kept
  <2>1. DOMAIN input = 1 .. Len(input)
    BY DEF Feeding
  <2> QED
    BY <2>1, <1>1, <1>3 DEF Kept
<1>5. Taken = {y \in Kept : y < i}
  <2>1. Taken = {y \in Kept : y <= p}
    BY DEF Taken
  <2>2. \A y \in Kept : y \in Nat
    BY KeptIs
  <2>3. \A y \in Kept : y <= p <=> y < i
    BY <2>2, <1>1
  <2> HIDE DEF p, i
  <2> QED
    BY <2>1, <2>3
<1> HIDE DEF p
<1>6. Kept \in SUBSET Nat /\ IsFiniteSet(Kept)
  BY KeptIs
<1> HIDE DEF i, e
<1>7. c + 1 \in 1 .. n /\ e[c + 1] = i
  <2> DEFINE k == Cardinality({y \in Kept : y < i}) + 1
  <2>1. k \in 1 .. n /\ e[k] = i
    BY <1>4, <1>6, NumberAt DEF e
  <2> QED
    BY <2>1, <1>5
<1>8. IsFiniteSet(Taken) /\ c \in Nat
  BY TakenIs
<1>9. Cardinality(Taken') = c + 1
  BY <1>1, <1>4, <1>8, FS_AddElement
<1>10. Len(Below) = n /\ \A k \in 1 .. n : Below[k] = Decoded(Wanted[k])
  BY ScannedIs
<1>11. \A k \in 1 .. n : Wanted[k] = input[e[k]]
  BY WantedIs DEF e
<1> QED
  BY <1>2, <1>7, <1>8, <1>9, <1>10, <1>11 DEF i

\* The next row of a Sort.
LEMMA SortNext ==
  ASSUME TypeOK, Feeding, Grouping, pc = "sort", feed # <<>>, feed' = Tail(feed), Passes(Current),
         UNCHANGED <<query, input, raw, groups>>,
         NEW rows, rows = Below, NEW n, n = Len(rows), NEW c, c = Fed
  PROVE  /\ c \in Nat /\ c + 1 \in 1 .. n /\ Current = rows[c + 1] /\ Fed' = c + 1
         /\ ~raw => c + 1 \in 0 .. n /\ feed' = SubSeq(rows, (c + 1) + 1, n)
<1>1. query \in Query /\ (raw <=> ~IsGrouped)
  BY DEF TypeOK, Feeding
<1>2. n \in Nat /\ Indexed(rows, n)
  BY BelowIs
<1>3. CASE raw
  <2>1. c = Cardinality(Taken) /\ Fed' = Cardinality(Taken')
    BY <1>3 DEF Fed
  <2> QED
    BY <2>1, <1>1, <1>3, ScanNext
<1>4. CASE ~raw
  <2>1. c \in 0 .. n /\ feed = SubSeq(rows, c + 1, n)
    BY <1>4 DEF Feeding
  <2>2. n \in 0 .. n
    BY <1>2
  <2>3. /\ c \in Nat /\ c + 1 \in 1 .. n /\ Head(feed) = rows[c + 1]
        /\ Tail(feed) = SubSeq(rows, (c + 1) + 1, n) /\ Len(Tail(feed)) = n - (c + 1)
    BY <2>1, <2>2, <1>2, SubSeqLeft
  <2>4. Below' = Below
    BY SameBelow
  <2>5. Fed' = n - Len(Tail(feed))
    BY <2>4, <1>4 DEF Fed
  <2>6. Fed' = c + 1 /\ c + 1 \in 0 .. n
    BY <2>3, <2>5, <1>2
  <2>7. Current = rows[c + 1]
    BY <2>3, <1>4 DEF Current
  <2> QED
    BY <2>3, <2>6, <2>7
<1> QED
  BY <1>3, <1>4

\* A row is taken from below.
LEMMA PullKeepsFeeding ==
  ASSUME TypeOK, Feeding, Grouping, feed # <<>>, feed' = Tail(feed), UNCHANGED <<query, input, raw, pc>>,
         pc = "sort" => UNCHANGED groups
  PROVE  Feeding'
<1>1. (IsGrouped' <=> IsGrouped) /\ (Sorts' <=> Sorts) /\ query \in Query
  BY SameQuery DEF TypeOK
<1>2. raw => \E n \in 0 .. Len(input') : feed' = SubSeq(input', n + 1, Len(input'))
  BY <1>1, ScanStep
<1>3. ASSUME pc = "sort", ~raw
      PROVE  Fed' \in 0 .. Len(Below') /\ feed' = SubSeq(Below', Fed' + 1, Len(Below'))
  <2> DEFINE rows == Below
             n == Len(rows)
             c == Fed
  <2>1. Below' = rows
    BY <1>3, SameBelow
  <2>2. Passes(Current)
    BY <1>3 DEF Passes
  <2> HIDE DEF rows, c
  <2>3. c + 1 \in 0 .. n /\ feed' = SubSeq(rows, (c + 1) + 1, n) /\ Fed' = c + 1
    BY <2>2, <1>3, SortNext DEF rows, c
  <2> QED
    BY <2>1, <2>3
<1> QED
  BY <1>1, <1>2, <1>3 DEF Feeding

\* What has arrived at a Sort, and the next.
LEMMA ArrivedIs ==
  ASSUME NEW rows, NEW n, Sortable(rows, n), NEW c \in Nat, c + 1 \in 1 .. n,
         NEW S, S = ItemsOf(rows, c), NEW e, e = ItemOf(rows, c + 1)
  PROVE  /\ IsFiniteSet(S) /\ e \notin S /\ S \cup {e} = ItemsOf(rows, c + 1)
         /\ \A x \in S \cup {e} : x.row[Order.by] \in SortValues /\ x.seq \in Nat
         /\ \A x, y \in S \cup {e} : x.seq = y.seq => x = y
         /\ Ranks(EarlierOn(S \cup {e}), S \cup {e})
<1>1. query \in Query /\ n \in Nat /\ \A k \in 1 .. n : rows[k][Order.by] \in SortValues
  BY DEF Sortable
<1>2. /\ \A k : k \in 1 .. c + 1 <=> k \in 1 .. c \/ k = c + 1
      /\ \A k \in 1 .. c + 1 : k \in 1 .. n /\ k - 1 \in Nat
      /\ c + 1 \notin 1 .. c
  BY <1>1
<1> HIDE DEF ItemOf
<1>3. S \cup {e} = ItemsOf(rows, c + 1)
  BY <1>2 DEF ItemsOf
<1>4. S \cup {e} \in SUBSET ItemsOf(rows, n)
  BY <1>2, <1>3 DEF ItemsOf
<1>5. IsFiniteSet(S)
  BY <1>4, ItemsAre, PartsAreFinite
<1>6. \A k \in 1 .. n : ItemOf(rows, k).row = rows[k] /\ ItemOf(rows, k).seq = k - 1
  BY DEF ItemOf
<1>7. \A x \in S \cup {e} : x.row[Order.by] \in SortValues /\ x.seq \in Nat
  <2> SUFFICES ASSUME NEW x \in S \cup {e} PROVE x.row[Order.by] \in SortValues /\ x.seq \in Nat
    OBVIOUS
  <2>1. PICK k \in 1 .. c + 1 : x = ItemOf(rows, k)
    BY <1>3 DEF ItemsOf
  <2> QED
    BY <2>1, <1>1, <1>2, <1>6
<1>8. \A x, y \in S \cup {e} : x.seq = y.seq => x = y
  <2> SUFFICES ASSUME NEW x \in S \cup {e}, NEW y \in S \cup {e}, x.seq = y.seq PROVE x = y
    OBVIOUS
  <2>1. PICK j \in 1 .. c + 1 : x = ItemOf(rows, j)
    BY <1>3 DEF ItemsOf
  <2>2. PICK k \in 1 .. c + 1 : y = ItemOf(rows, k)
    BY <1>3 DEF ItemsOf
  <2>3. j - 1 = k - 1
    BY <2>1, <2>2, <1>2, <1>6
  <2>4. j = k
    BY <2>3, <1>2
  <2> QED
    BY <2>1, <2>2, <2>4
<1>9. e \notin S
  <2> SUFFICES ASSUME e \in S PROVE FALSE
    OBVIOUS
  <2>1. PICK k \in 1 .. c : e = ItemOf(rows, k)
    BY DEF ItemsOf
  <2>2. k \in 1 .. n /\ k - 1 = (c + 1) - 1
    BY <2>1, <1>2, <1>6
  <2> QED
    BY <2>1, <2>2
<1>10. Ranks(EarlierOn(S \cup {e}), S \cup {e})
  <2> DEFINE U == S \cup {e}
  <2>1. \A x \in U : x.row[Order.by] \in SortValues /\ x.seq \in Nat
    BY <1>7
  <2>2. \A x, y \in U : x.seq = y.seq => x = y
    BY <1>8
  <2> HIDE DEF U
  <2>3. Ranks(EarlierOn(U), U)
    BY <2>1, <2>2, <1>1, EarlierRanks
  <2> QED
    BY <2>3 DEF U
<1> QED
  BY <1>3, <1>5, <1>7, <1>8, <1>9, <1>10

\* What a Sort with a limit L keeps of it.
Keeps(next, kept, e, L) ==
  next = IF L < 0 \/ Cardinality(kept) < L THEN kept \cup {e}
         ELSE IF L > 0 /\ Earlier(e, Root(kept))
         THEN (kept \ {Root(kept)}) \cup {e}
         ELSE kept

LEMMA HeapTakes ==
  ASSUME query \in Query, NEW S, NEW e, NEW R, NEW L \in Nat, NEW kept, Arrives(S, e, R, L, kept),
         \A x, y \in S \cup {e} : <<x, y>> \in R <=> Earlier(x, y),
         \A x \in S \cup {e} : x.row[Order.by] \in SortValues /\ x.seq \in Nat,
         \A x, y \in S \cup {e} : x.seq = y.seq => x = y,
         NEW next, Keeps(next, kept, e, L)
  PROVE  next = FirstOf(S \cup {e}, R, L)
<1>0. kept \in SUBSET S /\ IsFiniteSet(kept)
  BY HeapIs
<1>1. kept \in SUBSET S /\ IsFiniteSet(kept) /\ ~(L < 0)
  BY <1>0
<1>2. CASE Room(kept, L)
  <2>1. kept \cup {e} = FirstOf(S \cup {e}, R, L)
    BY <1>2, HeapGrows
  <2> QED
    BY <2>1, <1>2 DEF Room, Keeps
<1>3. CASE ~Room(kept, L) /\ L = 0
  <2>1. kept = FirstOf(S \cup {e}, R, L)
    BY <1>3, HeapOfNone
  <2>2. ~(L > 0)
    BY <1>3
  <2> QED
    BY <2>1, <2>2, <1>1, <1>3 DEF Room, Keeps
<1>4. CASE ~Room(kept, L) /\ L # 0
  <2> DEFINE last == Root(kept)
  <2>1. L > 0
    BY <1>4
  <2>2. kept # {}
    <3>1. Cardinality({}) < L
      BY <2>1, FS_EmptySet
    <3> QED
      BY <3>1, <1>4 DEF Room
  <2>3. last \in kept /\ \A x \in kept : x = last \/ Earlier(x, last)
    <3>1. Ranks(EarlierOn(kept), kept)
      BY <1>1, EarlierRanks
    <3> QED
      BY <3>1, <2>2, <1>1, RootIs
  <2> HIDE DEF last
  <2>4. \A x \in kept : x = last \/ <<x, last>> \in R
    BY <2>3, <1>1
  <2>5. <<e, last>> \in R <=> Earlier(e, last)
    BY <2>3, <1>1
  <2>6. FirstOf(S \cup {e}, R, L) = IF <<e, last>> \in R THEN (kept \ {last}) \cup {e} ELSE kept
    BY <2>3, <2>4, <1>4, HeapReplaces
  <2>7. next = IF Earlier(e, last) THEN (kept \ {last}) \cup {e} ELSE kept
    BY <2>1, <1>1, <1>4 DEF last, Room, Keeps
  <2> QED
    BY <2>5, <2>6, <2>7
<1> QED
  BY <1>2, <1>3, <1>4

LEMMA HeapStep ==
  ASSUME NEW rows, NEW n, Sortable(rows, n), NEW c \in Nat, c + 1 \in 1 .. n, NEW L \in Int,
         NEW S, S = ItemsOf(rows, c), NEW e, e = ItemOf(rows, c + 1),
         NEW kept, kept = FirstOf(S, EarlierOn(S), L), NEW next, Keeps(next, kept, e, L)
  PROVE  next = FirstOf(S \cup {e}, EarlierOn(S \cup {e}), L)
<1> DEFINE R == EarlierOn(S \cup {e})
<1>1. /\ IsFiniteSet(S) /\ e \notin S
      /\ \A x \in S \cup {e} : x.row[Order.by] \in SortValues /\ x.seq \in Nat
      /\ \A x, y \in S \cup {e} : x.seq = y.seq => x = y
      /\ Ranks(R, S \cup {e})
  BY ArrivedIs
<1>2. query \in Query
  BY DEF Sortable
<1>3. \A x, y \in S \cup {e} : <<x, y>> \in R <=> Earlier(x, y)
  BY EarlierIs
<1> HIDE DEF R
<1>4. kept = FirstOf(S, R, L)
  <2>1. \A x \in S : {y \in S : <<y, x>> \in EarlierOn(S)} = {y \in S : <<y, x>> \in R}
    BY <1>3, EarlierIs
  <2> QED
    BY <2>1 DEF FirstOf
<1>5. next = FirstOf(S \cup {e}, R, L)
  <2>1. CASE L < 0
    BY <2>1, <1>4 DEF FirstOf, Keeps
  <2>2. CASE L \in Nat
    <3>1. Arrives(S, e, R, L, kept)
      BY <2>2, <1>1, <1>4 DEF Arrives
    <3> QED
      BY <3>1, <2>2, <1>1, <1>2, <1>3, HeapTakes
  <2> QED
    BY <2>1, <2>2
<1> QED
  BY <1>5 DEF R

-----------------------------------------------------------------------------
(***************************************************************************)
(* The window.                                                             *)
(***************************************************************************)
LEMMA SumOfIntegers ==
  ASSUME NEW rows, NEW P, IsFiniteSet(P), \A i \in P : rows[i].b \in ValuesOf("INT") \cup {Null}
  PROVE  Summary(rows, P).sum \in ValuesOf("INT") \cup {Null}
<1> DEFINE S == Present(rows, P)
<1>1. IsFiniteSet(S) /\ \A i \in S : rows[i].b \in ValuesOf("INT")
  BY FS_Subset DEF Present
<1>2. \A i \in S : Addend(rows, i) \in Int
  BY <1>1, Integers DEF Addend
<1>3. Summary(rows, P).sum = IF S = {} THEN Null ELSE Value("INT", Wrap(Total(rows, S)))
  BY SummaryIs
<1> HIDE DEF S
<1>4. PICK f : Total(rows, S) = f[S] /\ \A s \in SUBSET S : SumAt(f, rows, s)
  BY <1>1, TotalIs
<1>5. Total(rows, S) \in Int
  <2>1. \A s \in SUBSET S : /\ f[s] \in Int
                            /\ \A x \in s : f[s] = Addend(rows, x) + f[s \ {x}]
    BY <1>1, <1>2, <1>4, SumStep
  <2> QED
    BY <2>1, <1>4
<1>6. Value("INT", Wrap(Total(rows, S))) \in ValuesOf("INT")
  BY <1>5, WrapFacts, Integers
<1> QED
  BY <1>3, <1>6

\* The groups of a GROUP BY can be sorted by what they are sorted by.
LEMMA GroupsAreRows ==
  ASSUME TypeOK, Feeding, IsGrouped, InOrder, NEW G, G = GroupsOf(Kept), NEW n, n = Len(G)
  PROVE  n \in Nat /\ Indexed(G, n) /\ (Order # NoOrder => Sortable(G, n))
<1>1. query \in Query /\ query.shape.group \in {"a", "all"}
  BY QueryFacts DEF IsGrouped, TypeOK
<1>2. IsFiniteSet(Kept) /\ \A i \in Kept : input[i] \in Row /\ input[i].a \in ValuesOfA
  BY KeptIs
<1>3. ASSUME NEW P \in SUBSET Kept PROVE Summary(input, P).sum \in ValuesOf("INT") \cup {Null}
  <2>1. IsFiniteSet(P)
    BY <1>2, PartsAreFinite
  <2>2. \A i \in P : input[i].b \in ValuesOf("INT") \cup {Null}
    BY <1>2, RowFacts
  <2> QED
    BY <2>1, <2>2, SumOfIntegers
<1>4. ASSUME NEW v, NEW P \in SUBSET Kept, query.shape.group = "a" => v \in ValuesOfA, Order # NoOrder
      PROVE  Result([value |-> v, acc |-> Summary(input, P)])[Order.by] \in SortValues
  <2> DEFINE g == [value |-> v, acc |-> Summary(input, P)]
  <2>1. g.value = v /\ g.acc.sum \in ValuesOf("INT") \cup {Null}
    BY <1>3
  <2> HIDE DEF g
  <2>2. Result(g)["a"] = g.value /\ Result(g)["sum"] = g.acc.sum
    BY ResultColumns
  <2>3. Order.by \in {"a", "sum"} /\ (Order.by = "a" => query.shape.group = "a")
    BY <1>1, <1>4 DEF Query, Plain, Grouped, Whole, Orders, Order, IsGrouped
  <2>4. ASSUME Order.by = "a" PROVE Result(g)[Order.by] \in SortValues
    BY <2>1, <2>2, <2>3, <2>4, <1>4 DEF SortValues
  <2>5. ASSUME Order.by = "sum" PROVE Result(g)[Order.by] \in SortValues
    BY <2>1, <2>2, <2>5 DEF SortValues
  <2>6. Result(g)[Order.by] \in SortValues
    BY <2>3, <2>4, <2>5
  <2> QED
    BY <2>6 DEF g
<1>5. CASE query.shape.group = "all"
  <2> DEFINE g == Result([value |-> Null, acc |-> Summary(input, Kept)])
  <2>1. G = <<g>>
    BY <1>5 DEF GroupsOf
  <2>2. Order # NoOrder => g[Order.by] \in SortValues
    BY <1>4, <1>5
  <2> HIDE DEF g
  <2>3. n = 1 /\ Indexed(G, 1) /\ G[1] = g
    BY <2>1 DEF Indexed
  <2> QED
    BY <2>2, <2>3, <1>1 DEF Sortable
<1>6. CASE query.shape.group = "a"
  <2> DEFINE V == {input[i].a : i \in Kept}
             s == Ascending(V, ByValue)
             m == Cardinality(V)
             Group(v) == Result([value |-> v, acc |-> Summary(input, {i \in Kept : input[i].a = v})])
  <2>1. V \in SUBSET ValuesOfA
    BY <1>2
  <2>2. IsFiniteSet(V)
    <3> DEFINE f == [i \in Kept |-> input[i].a]
    <3>1. f \in Surjection(Kept, V)
      BY DEF Surjection
    <3> HIDE DEF f, V
    <3> QED
      BY <3>1, <1>2, FS_Surjection
  <2>3. NegativeNaN \notin V
    <3>1. \A i \in Kept : i \in DOMAIN input
      BY DEF Kept
    <3> QED
      BY <3>1, <1>6 DEF InOrder, NegativeNaN
  <2>4. G = [k \in DOMAIN s |-> Group(s[k])]
    BY <1>6 DEF GroupsOf
  <2> HIDE DEF V
  <2>5. m \in Nat /\ s \in [1 .. m -> V]
    BY <2>1, <2>2, <2>3, ValuesArranged
  <2>6. Order # NoOrder => \A v \in V : Group(v)[Order.by] \in SortValues
    BY <2>1, <1>4
  <2> HIDE DEF s, m, Group
  <2>7. G = [k \in 1 .. m |-> Group(s[k])]
    BY <2>4, <2>5
  <2>8. n = m /\ Indexed(G, m)
    BY <2>5, <2>7 DEF Indexed
  <2>9. Order # NoOrder => \A k \in 1 .. m : G[k][Order.by] \in SortValues
    BY <2>5, <2>6, <2>7
  <2> QED
    BY <2>5, <2>8, <2>9, <1>1 DEF Sortable
<1> QED
  BY <1>1, <1>5, <1>6

\* There are as many rows in an answer without DISTINCT and a window as below it.
LEMMA RowsOfAnswer ==
  ASSUME TypeOK, Feeding, InOrder, NEW below, below = IF IsGrouped THEN GroupsOf(Kept) ELSE Wanted
  PROVE  \E n \in Nat : Indexed(OfAll(Sorted(below)), n)
<1>1. query \in Query
  BY DEF TypeOK
<1>2. \E n \in Nat : Indexed(below, n) /\ (Order # NoOrder => Sortable(below, n))
  <2>1. CASE IsGrouped
    BY <2>1, GroupsAreRows
  <2>2. CASE ~IsGrouped
    BY <2>2, <1>1, WantedIs, WantedSortable
  <2> QED
    BY <2>1, <2>2
<1>3. PICK n \in Nat : Indexed(below, n) /\ (Order # NoOrder => Sortable(below, n))
  BY <1>2
<1>4. Indexed(Sorted(below), n)
  <2>1. CASE Order = NoOrder
    BY <2>1, <1>3 DEF Sorted
  <2>2. CASE Order # NoOrder
    <3>1. PICK t : SortedBy(t, below, n)
      BY <2>2, <1>3, SortedIs
    <3>2. Sorted(below) = [k \in 1 .. n |-> below[t[k]]]
      BY <3>1 DEF SortedBy
    <3> QED
      BY <3>2 DEF Indexed
  <2> QED
    BY <2>1, <2>2
<1> DEFINE rows == Sorted(below)
<1> HIDE DEF rows
<1>5. DOMAIN rows = 1 .. n
  BY <1>4 DEF Indexed, rows
<1>6. OfAll(rows) = [k \in 1 .. n |-> Projected(rows[k])]
  BY <1>5 DEF OfAll
<1>7. Indexed(OfAll(rows), n)
  BY <1>6 DEF Indexed
<1> QED
  BY <1>7 DEF rows

\* Dropping rows for the OFFSET and returning up to a LIMIT is a window.
LEMMA WindowIs ==
  ASSUME NEW d \in Nat, NEW rows, Indexed(rows, d), Offset \in Nat, Count \in Int,
         NEW S, NEW returned \in Seq(S), NEW dropped \in 0 .. Offset,
         dropped < Offset => returned = <<>>,
         \A k \in DOMAIN returned : returned[k] = rows[Offset + k],
         Count >= 0 => Len(returned) <= Count,
         \/ dropped + Len(returned) = d
         \/ Count >= 0 /\ dropped = Offset /\ Len(returned) = Count /\ Offset + Count <= d
  PROVE  returned = Windowed(rows)
<1> DEFINE T == {rows[k] : k \in 1 .. d}
           last == IF Count < 0 \/ Offset + Count > Len(rows) THEN Len(rows) ELSE Offset + Count
           m == Len(returned)
<1>1. rows \in Seq(T) /\ Len(rows) = d
  BY IndexedIs
<1> HIDE DEF T
<1>2. m \in Nat /\ DOMAIN returned = 1 .. m /\ returned = [k \in 1 .. m |-> returned[k]]
  OBVIOUS
<1>3. dropped < Offset => m = 0
  OBVIOUS
<1> HIDE DEF m
<1>4. last \in 0 .. d /\ (IF m = 0 THEN last <= Offset ELSE last = Offset + m)
  BY <1>1, <1>2, <1>3 DEF m
<1> HIDE DEF last
<1>5. Windowed(rows) = SubSeq(rows, Offset + 1, last)
  BY DEF Windowed, last
<1>6. CASE m = 0
  <2>1. SubSeq(rows, Offset + 1, last) = <<>>
    BY <1>1, <1>4, <1>6
  <2>2. returned = <<>>
    BY <1>6 DEF m
  <2> QED
    BY <2>1, <2>2, <1>5
<1>7. CASE m # 0
  <2>1. last = Offset + m /\ last <= d /\ m > 0
    BY <1>2, <1>4, <1>7
  <2>2. SubSeq(rows, Offset + 1, last) = [k \in 1 .. m |-> rows[Offset + k]]
    <3> DEFINE f == SubSeq(rows, Offset + 1, last)
               a == Offset + 1
    <3>1. /\ a \in Int /\ last \in Int /\ a >= 1 /\ last <= Len(rows)
          /\ (IF a <= last THEN last - a + 1 ELSE 0) = m
      BY <2>1, <1>1, <1>2
    <3> HIDE DEF a
    <3>2. SubSeq(rows, a, last) \in Seq(T) /\ Len(SubSeq(rows, a, last)) = m
      BY <3>1, <1>1
    <3>3. f \in Seq(T) /\ Len(f) = m
      BY <3>2 DEF a
    <3>4. \A k \in 1 .. m : f[k] = rows[Offset + k]
      <4> SUFFICES ASSUME NEW k \in 1 .. m PROVE f[k] = rows[Offset + k]
        OBVIOUS
      <4> DEFINE first == Offset + 1
      <4>1. first \in 1 .. Len(rows) + 1 /\ last \in first - 1 .. Len(rows)
        BY <2>1, <1>1, <1>2, <1>4
      <4>2. k \in 1 .. last - first + 1 /\ first + k - 1 = Offset + k
        BY <2>1, <1>2
      <4> HIDE DEF first
      <4>3. SubSeq(rows, first, last)[k] = rows[first + k - 1]
        BY <4>1, <4>2, <1>1
      <4> QED
        BY <4>2, <4>3 DEF first
    <3> HIDE DEF f
    <3>5. f = [k \in 1 .. m |-> f[k]]
      BY <3>3
    <3> QED
      BY <3>4, <3>5 DEF f
  <2>3. returned = [k \in 1 .. m |-> rows[Offset + k]]
    BY <1>2
  <2> QED
    BY <2>2, <2>3, <1>5
<1> QED
  BY <1>6, <1>7

-----------------------------------------------------------------------------
(***************************************************************************)
(* The rows the client has in the end.                                     *)
(***************************************************************************)
\* LIMIT 0 returns before any row has come.
LEMMA NoneAreWanted ==
  ASSUME TypeOK, Feeding, InOrder, Full, skipped = 0, out = <<>>
  PROVE  out = AnswerByKey
<1> DEFINE below == IF IsGrouped THEN GroupsOf(Kept) ELSE Wanted
           all == OfAll(Sorted(below))
<1>1. Offset = 0 /\ Count = 0
  <2>1. Offset = 0 /\ Count >= 0 /\ Count <= 0
    BY DEF Full
  <2>2. Count \in Int
    BY QueryFacts DEF TypeOK
  <2> QED
    BY <2>1, <2>2
<1>2. AnswerByKey = Windowed(Deduplicated(all))
  BY DEF AnswerByKey
<1> HIDE DEF below
<1>3. PICK n \in Nat : Indexed(all, n)
  BY RowsOfAnswer DEF below
<1> HIDE DEF all
<1> DEFINE rows == Deduplicated(all)
           d == Cardinality(News(all))
<1>4. d \in Nat /\ Indexed(rows, d)
  BY <1>3, NewsIs
<1> HIDE DEF rows, d
<1> DEFINE none == [k \in 1 .. 0 |-> k]
<1>5. out \in Seq({}) /\ Len(out) = 0 /\ DOMAIN out = {}
  OBVIOUS
<1>6. 0 \in 0 .. Offset /\ Offset \in Nat /\ Count \in Int /\ Offset + Count <= d /\ Count >= 0 /\ Len(out) <= Count
  BY <1>1, <1>4, <1>5
<1>b. 0 = Offset /\ Len(out) = Count /\ \A k \in DOMAIN out : out[k] = rows[Offset + k]
  BY <1>1, <1>5
<1>7. out = Windowed(rows)
  BY <1>4, <1>5, <1>6, <1>b, WindowIs
<1> QED
  BY <1>2, <1>7 DEF rows

\* What has gone through is all that matters.
LEMMA WindowThrough ==
  ASSUME TypeOK, Feeding, Grouping, GroupsAreExact, Returning, pc = "stream",
         Full \/ feed = <<>>
  PROVE  out = Windowed(Deduplicated(OfAll(Top)))
<1> DEFINE top == Top
           n == Len(Below)
           all == OfAll(top)
           c == Through
           r == Reach
           rows == Deduplicated(all)
           d == Cardinality(News(all))
<1>1. query \in Query /\ Offset \in Nat /\ Count \in Int /\ Offset < SignBit /\ Count < SignBit /\ Count >= -1
  <2>1. query \in Query
    BY DEF TypeOK
  <2>2. query.window \in Windows
    BY <2>1 DEF Query
  <2>3. Count \in -1 .. SignBit - 1 /\ Offset \in 0 .. SignBit - 1
    BY <2>2, WindowsAssumption DEF Count, Offset
  <2>4. SignBit \in Nat
    BY ByteRange
  <2> QED
    BY <2>1, <2>3, <2>4
<1>2. n \in Nat /\ Indexed(all, n)
  BY AllIs
<1>3. /\ ~raw => c \in 0 .. r /\ feed = SubSeq(top, c + 1, r)
      /\ skipped + Len(out) = Cardinality(NewTo(all, c))
      /\ skipped < Offset => out = <<>>
      /\ \A k \in DOMAIN out : out[k] = rows[Offset + k]
      /\ skipped \in Nat /\ out \in Seq(ToSet(out))
  BY DEF Returning, NewTo
<1>4. skipped \in 0 .. Offset /\ (Count >= 0 => Len(out) <= Count)
  BY DEF TypeOK
<1>5. Indexed(top, n)
  BY AllIs
<1>6. r \in 0 .. n /\ (r < n => Sorts /\ SortLimit >= 0 /\ r = SortLimit)
  <2>1. SortLimit \in Int
    BY <1>1, QueryFacts
  <2> QED
    BY <2>1, <1>2 DEF Reach
<1>7. raw => r = n /\ ~IsGrouped /\ n = Cardinality(Kept)
  <2>1. raw => ~IsGrouped /\ ~Sorts
    BY DEF Feeding
  <2>2. ~IsGrouped => n = Cardinality(Kept)
    BY ScannedIs
  <2> QED
    BY <2>1, <2>2 DEF Reach
<1> HIDE DEF top, n, r
<1>8. c \in 0 .. r /\ (feed = <<>> => c = r)
  <2>1. CASE raw
    <3>1. c = Cardinality(Taken) /\ Cardinality(Taken) \in 0 .. n /\ (feed = <<>> => Taken = Kept)
      BY <2>1, <1>7, TakenIs DEF Through
    <3> QED
      BY <3>1, <2>1, <1>7
  <2>2. CASE ~raw
    <3>1. c \in 0 .. r /\ feed = SubSeq(top, c + 1, r)
      BY <2>2, <1>3
    <3> HIDE DEF c, all
    <3>2. n \in Nat /\ Indexed(top, n) /\ r \in 0 .. n
      BY <1>2, <1>5, <1>6
    <3>3. feed = <<>> => c = r
      BY <3>1, <3>2, SubSeqUsedUp
    <3> QED
      BY <3>1, <3>3
  <2> QED
    BY <2>1, <2>2
<1> HIDE DEF all, c
<1>9. /\ c \in 0 .. n /\ d \in 0 .. n /\ Indexed(rows, d)
      /\ Cardinality(NewTo(all, c)) \in 0 .. d /\ NewTo(all, n) = News(all)
      /\ ~query.distinct => News(all) = 1 .. n
  <2>1. c \in 0 .. n
    BY <1>2, <1>6, <1>8
  <2> QED
    BY <2>1, <1>2, NewsIs, NewToIs
<1> DEFINE m == skipped + Len(out)
<1>10. Len(out) \in Nat /\ m \in 0 .. d
  BY <1>3, <1>9
<1> HIDE DEF d
<1>11. \/ m = d
       \/ Count >= 0 /\ skipped = Offset /\ Len(out) = Count /\ Offset + Count <= d
  <2>1. CASE Full
    <3>1. skipped = Offset /\ Count >= 0 /\ Len(out) >= Count
      BY <2>1 DEF Full
    <3> QED
      BY <3>1, <1>1, <1>4, <1>10
  <2>2. CASE feed = <<>> /\ r = n
    <3>1. c = n
      BY <2>2, <1>8
    <3> QED
      BY <3>1, <1>3, <1>9 DEF d
  <2>3. CASE feed = <<>> /\ r # n
    <3>1. r < n /\ c = r
      BY <2>3, <1>2, <1>6, <1>8
    <3>2. r = SortLimit /\ SortLimit >= 0
      BY <3>1, <1>6
    <3>3. Count >= 0 /\ ~query.distinct /\ SortLimit = Wrap(Count + Offset)
      BY <3>2 DEF SortLimit
    <3>4. r = Count + Offset
      <4> DEFINE s == Count + Offset
      <4>1. s \in Nat /\ s <= (SignBit - 1) + (SignBit - 1) /\ SignBit \in Nat /\ Base = 2 * SignBit
        BY <1>1, <3>3, ByteRange
      <4>2. CASE s \in -SignBit .. SignBit - 1
        BY <4>2, <3>2, <3>3, WrapFacts
      <4>3. CASE s \notin -SignBit .. SignBit - 1
        <5>1. s >= SignBit
          BY <4>1, <4>3
        <5> HIDE DEF s
        <5>2. Wrap(s) < 0
          <6> DEFINE a == s + SignBit
                     b == s - SignBit
          <6>1. a = 1 * Base + b /\ b \in 0 .. Base - 1 /\ b < SignBit
            BY <4>1, <5>1
          <6> HIDE DEF a, b
          <6>2. a % Base = b
            <7>1. Base \in Nat /\ Base > 0 /\ b \in Nat
              BY <4>1, <5>1, <6>1
            <7>2. (1 * Base + b) % Base = b % Base
              BY <7>1, SameRemainder
            <7>3. b % Base = b
              BY <7>1, <6>1
            <7> QED
              BY <6>1, <7>2, <7>3
          <6>3. Wrap(s) = (a % Base) - SignBit
            BY DEF Wrap, a
          <6> QED
            BY <6>1, <6>2, <6>3, <4>1
        <5> QED
          <6>1. Wrap(s) \in Int
            BY <4>1, WrapFacts
          <6> QED
            BY <6>1, <5>2, <3>2, <3>3 DEF s
      <4> QED
        BY <4>2, <4>3
    <3>5. m = r
      <4>1. News(all) = 1 .. n
        BY <3>3, <1>9
      <4>2. NewTo(all, r) = 1 .. r
        BY <4>1, <1>2, <1>6 DEF NewTo
      <4>3. Cardinality(1 .. r) = r
        BY <1>6, UpTo
      <4> QED
        BY <4>2, <4>3, <3>1, <1>3
    <3> QED
      BY <3>3, <3>4, <3>5, <1>1, <1>4, <1>10
  <2> QED
    BY <2>1, <2>2, <2>3
<1> HIDE DEF rows
<1>12. out = Windowed(rows)
  BY <1>1, <1>3, <1>4, <1>9, <1>11, WindowIs
<1> QED
  BY <1>12 DEF rows, all, top

\* The answer depends on the statement and its rows alone.
LEMMA SameAnswer ==
  ASSUME UNCHANGED <<query, input>>
  PROVE  AnswerByKey' = AnswerByKey /\ (InOrder' <=> InOrder)
<1>1. /\ Order' = Order /\ Select' = Select /\ Count' = Count /\ Offset' = Offset
      /\ (IsGrouped' <=> IsGrouped)
  BY SameQuery
<1>2. Kept' = Kept /\ Wanted' = Wanted
  BY SameKept
<1> DEFINE P == Kept
<1> HIDE DEF P
<1>3. P' = P
  BY <1>2 DEF P
<1>4. GroupsOf(P)' = GroupsOf(P)
  BY <1>3 DEF GroupsOf, Ascending
<1> DEFINE below == IF IsGrouped THEN GroupsOf(P) ELSE Wanted
<1>5. below' = below
  BY <1>1, <1>2, <1>4
<1> HIDE DEF below
<1> DEFINE sorted == Sorted(below)
<1>6. sorted' = sorted
  BY <1>1, <1>5 DEF Sorted, Arranged, Precedes, Ascending
<1> HIDE DEF sorted
<1> DEFINE all == OfAll(sorted)
<1>7. all' = all
  BY <1>1, <1>6 DEF OfAll, Projected
<1> HIDE DEF all
<1> DEFINE new == News(all)
           rows == Deduplicated(all)
<1>8. new' = new
  BY <1>7 DEF News
<1>9. rows' = rows
  <2>1. News(all)' = News(all)
    BY <1>8
  <2> QED
    BY <2>1, <1>7 DEF Deduplicated, Arranged, InARow, Ascending
<1> HIDE DEF new, rows
<1>10. Windowed(rows)' = Windowed(rows)
  BY <1>1, <1>9 DEF Windowed
<1>11. AnswerByKey = Windowed(rows)
  BY DEF AnswerByKey, rows, all, sorted, below, P
<1>12. AnswerByKey' = Windowed(rows)'
  BY DEF AnswerByKey, rows, all, sorted, below, P
<1>13. InOrder' <=> InOrder
  BY DEF InOrder
<1> QED
  BY <1>10, <1>11, <1>12, <1>13

-----------------------------------------------------------------------------
(***************************************************************************)
(* The steps of a statement keep IInv.                                     *)
(***************************************************************************)
LEMMA PartsOfIInv ==
  ASSUME IInv
  PROVE  /\ TypeOK /\ Feeding /\ Grouping /\ Sorting /\ Returning /\ HeapHoldsFirst /\ GroupsAreExact
         /\ query \in Query
BY DEF IInv, Working, TypeOK

LEMMA IInvOfParts ==
  ASSUME TypeOK', Feeding', Grouping', Sorting', Returning', HeapHoldsFirst', GroupsAreExact', pc' # "done"
  PROVE  IInv'
<1>1. EncodingsDecide'
  BY DEF EncodingsDecide
<1> QED
  BY <1>1 DEF IInv, Working

LEMMA InitIInv == Init => IInv
<1> SUFFICES ASSUME Init PROVE IInv
  OBVIOUS
<1>0. PICK n \in 0 .. MaxRows : input \in [1 .. n -> Row]
  BY DEF Init
<1>1. input \in Seq(Row) /\ Len(input) = n /\ n \in Nat /\ DOMAIN input = 1 .. n /\ Len(input) <= MaxRows
  <2>1. n \in Nat /\ MaxRows \in Int
    BY <1>0, MaxRowsAssumption, ByteRange
  <2> QED
    BY <1>0, <2>1
<1>2. Taken = {}
  <2>1. \A i \in Kept : i \in 1 .. n
    BY <1>1 DEF Kept
  <2>2. \A i \in 1 .. n : ~(i <= Len(input) - Len(feed))
    BY <1>1 DEF Init
  <2>3. raw
    BY DEF Init
  <2> QED
    BY <2>1, <2>2, <2>3 DEF Taken
<1>3. Cardinality({}) = 0 /\ IsFiniteSet({})
  BY FS_EmptySet
<1>4. Offset \in Nat /\ Count \in Int
  BY QueryFacts DEF Init
<1>5. TypeOK
  <2>1. Len(out) = 0 /\ DOMAIN groups = {}
    BY DEF Init
  <2>2. pc \in {"aggregate", "sort", "stream"}
    BY DEF AfterScan, Init
  <2> QED
    BY <1>0, <1>1, <1>3, <1>4, <2>1, <2>2 DEF TypeOK, Init
<1>6. Feeding
  <2>1. feed = SubSeq(input, 0 + 1, Len(input)) /\ 0 \in 0 .. Len(input)
    BY <1>1 DEF Init
  <2>2. raw = (pc = "aggregate" \/ (~IsGrouped /\ (pc = "sort" \/ ~Sorts)))
    BY DEF Init, AfterScan
  <2>3. pc = "aggregate" => IsGrouped
    BY DEF Init, AfterScan
  <2>4. pc = "sort" => Sorts
    BY DEF Init, AfterScan
  <2> QED
    BY <1>1, <2>1, <2>2, <2>3, <2>4 DEF Feeding, Init
<1>7. Grouping
  <2>1. DOMAIN groups = {} /\ groups = [k \in DOMAIN groups |-> groups[k]]
    BY DEF Init
  <2> QED
    BY <1>3, <2>1 DEF Grouping
<1>8. Fed = 0 /\ Through = 0
  BY <1>2, <1>3 DEF Fed, Through, Init
<1>9. Sorting
  BY <1>3, <1>8 DEF Sorting, Init
<1>10. HeapHoldsFirst
  <2>1. Arrived = {}
    BY <1>8 DEF Arrived
  <2> QED
    BY <2>1 DEF HeapHoldsFirst, Init
<1>11. GroupsAreExact
  <2>1. DOMAIN groups = {}
    BY DEF Init
  <2> QED
    BY <1>2, <2>1 DEF GroupsAreExact
<1>12. pc # "done"
  BY DEF Init, AfterScan
<1>13. Returning
  <2> DEFINE top == Top
             all == OfAll(top)
             m == Len(Below)
  <2>1. m \in Nat /\ Indexed(all, m)
    BY <1>5, <1>6, <1>7, <1>11, <1>12, AllIs
  <2>2. Cardinality(NewTo(all, 0)) = 0
    <3>1. 0 \in 0 .. m
      BY <2>1
    <3> HIDE DEF all, m
    <3> QED
      BY <2>1, <3>1, NewToIs
  <2>3. Cardinality({k \in News(OfAll(Top)) : k <= 0}) = 0
    BY <2>2 DEF NewTo
  <2>4. out \in Seq(ToSet(out)) /\ DOMAIN out = {} /\ Len(out) = 0 /\ seen = {} /\ out = <<>> /\ skipped = 0 /\ raw
    BY DEF Init
  <2>5. {EncodedRow(OfAll(Top)[k]) : k \in 1 .. 0} = {}
    OBVIOUS
  <2> QED
    BY <1>8, <2>3, <2>4, <2>5 DEF Returning
<1>14. EncodingsDecide
  BY <1>12 DEF EncodingsDecide
<1> QED
  BY <1>5, <1>6, <1>7, <1>9, <1>10, <1>11, <1>13, <1>14 DEF IInv, Working

\* What a step leaves alone.
LEMMA SameTypes ==
  ASSUME TypeOK, UNCHANGED <<query, input, groups, items, seq, skipped, out>>, raw' \in BOOLEAN,
         pc' \in {"aggregate", "sort", "stream", "done"}
  PROVE  TypeOK'
<1>1. /\ Count' = Count /\ Offset' = Offset /\ SortLimit' = SortLimit
      /\ Len(input') = Len(input) /\ Len(out') = Len(out) /\ Cardinality(items') = Cardinality(items)
  BY SameQuery
<1> QED
  BY <1>1 DEF TypeOK

LEMMA SameGrouping == ASSUME Grouping, UNCHANGED <<query, groups>> PROVE Grouping'
BY DEF Grouping

LEMMA SameSorting ==
  ASSUME Sorting, UNCHANGED <<query, items, seq>>, pc' = "aggregate" => pc = "aggregate", pc' = "sort" => seq = Fed'
  PROVE  Sorting'
<1>1. Order' = Order /\ SortValues' = SortValues
  BY SameQuery
<1> QED
  BY <1>1 DEF Sorting

LEMMA SameHeap ==
  ASSUME UNCHANGED <<query, input, groups, items>>, Fed' = Fed, HeapHoldsFirst, pc' = pc
  PROVE  HeapHoldsFirst'
<1>1. Below' = Below
  BY SameBelow
<1>2. Arrived' = Arrived
  BY <1>1 DEF Arrived
<1>3. SortLimit' = SortLimit
  BY SameQuery
<1>4. \A x, y : Earlier(x, y)' <=> Earlier(x, y)
  BY DEF Earlier, Precedes, Order
<1> QED
  BY <1>2, <1>3, <1>4 DEF HeapHoldsFirst

LEMMA SameGroups ==
  ASSUME UNCHANGED <<query, input, groups>>, IsGrouped => Taken' = Taken, GroupsAreExact, pc # "done"
  PROVE  GroupsAreExact'
<1>1. (Aggregated' <=> Aggregated) /\ (IsGrouped' <=> IsGrouped)
  BY SameQuery
<1>2. CASE ~IsGrouped
  BY <1>1, <1>2 DEF GroupsAreExact
<1>3. CASE IsGrouped
  <2>1. \A k : RowsOf(k)' = RowsOf(k)
    BY <1>3 DEF RowsOf, GroupKey
  <2>2. {GroupKey(input[i]) : i \in Taken}' = {GroupKey(input[i]) : i \in Taken}
    BY <1>3 DEF GroupKey
  <2> QED
    BY <1>1, <1>3, <2>1, <2>2 DEF GroupsAreExact
<1> QED
  BY <1>2, <1>3

\* Before a row goes through nothing has been returned.
LEMMA NoneReturned ==
  ASSUME Returning, UNCHANGED <<seen, skipped, out>>, pc \in {"aggregate", "sort"}, pc' \in {"aggregate", "sort"}
  PROVE  Returning'
BY DEF Returning

LEMMA FilterDropsIInv == ASSUME IInv, FilterDrops PROVE IInv'
<1>1. /\ TypeOK /\ Feeding /\ Grouping /\ Sorting /\ Returning /\ HeapHoldsFirst /\ GroupsAreExact
      /\ query \in Query
  BY PartsOfIInv
<1>2. /\ feed # <<>> /\ feed' = Tail(feed) /\ ~Passes(Current) /\ pc # "done"
      /\ UNCHANGED <<query, input, raw, groups, items, seq, seen, skipped, out, pc>>
  BY DEF FilterDrops, Pull
<1>3. raw /\ query.filtered /\ Current = Decoded(Head(feed)) /\ Current.b = Null
  BY <1>2 DEF Passes, Current
<1> DEFINE p == Len(input) - Len(feed)
<1>4. /\ Head(feed) = input[p + 1] /\ input[p + 1] \in Row
      /\ Taken' = IF query.filtered => input[p + 1].b # Null THEN Taken \cup {p + 1} ELSE Taken
  BY <1>1, <1>2, <1>3, ScanStep
<1>5. input[p + 1].b = Null
  BY <1>1, <1>3, <1>4, DecodedIs
<1>6. Taken' = Taken
  BY <1>3, <1>4, <1>5
<1>7. Fed' = Fed /\ Through' = Through /\ raw'
  BY <1>2, <1>3, <1>6 DEF Fed, Through
<1>8. TypeOK'
  BY <1>1, <1>2, SameTypes DEF TypeOK
<1>9. Feeding'
  BY <1>1, <1>2, PullKeepsFeeding
<1>10. Grouping' /\ HeapHoldsFirst' /\ GroupsAreExact'
  BY <1>1, <1>2, <1>6, <1>7, SameGrouping, SameHeap, SameGroups
<1>11. Sorting'
  <2>1. pc = "sort" => seq = Fed
    BY <1>1 DEF Sorting
  <2> QED
    BY <2>1, <1>1, <1>2, <1>7, SameSorting
<1>12. Returning'
  <2>1. CASE pc \in {"aggregate", "sort"}
    BY <2>1, <1>1, <1>2, NoneReturned
  <2>2. CASE pc = "stream"
    <3>1. /\ OfAll(Top)' = OfAll(Top) /\ News(OfAll(Top))' = News(OfAll(Top))
          /\ Deduplicated(OfAll(Top))' = Deduplicated(OfAll(Top))
      BY <1>2, SameShown
    <3>2. Offset' = Offset
      BY <1>2, SameQuery
    <3> QED
      BY <2>2, <3>1, <3>2, <1>1, <1>2, <1>7 DEF Returning
  <2> QED
    BY <2>1, <2>2, <1>1, <1>2 DEF TypeOK
<1> QED
  BY <1>2, <1>8, <1>9, <1>10, <1>11, <1>12, IInvOfParts

LEMMA AggregateRowIInv == ASSUME IInv, AggregateRow PROVE IInv'
<1>1. /\ TypeOK /\ Feeding /\ Grouping /\ Sorting /\ Returning /\ HeapHoldsFirst /\ GroupsAreExact
      /\ query \in Query
  BY PartsOfIInv
<1>2. /\ pc = "aggregate" /\ feed # <<>> /\ feed' = Tail(feed) /\ Passes(Current)
      /\ UNCHANGED <<query, input, raw, items, seq, seen, skipped, out, pc>>
  BY DEF AggregateRow, Pull
<1>3. raw /\ IsGrouped /\ Current = Decoded(Head(feed))
  BY <1>1, <1>2 DEF Feeding, Current
<1> DEFINE p == Len(input) - Len(feed)
           n == p + 1
           r == input[n]
           c == Current
           key == GroupKey(c)
           g == IF key \in DOMAIN groups THEN groups[key]
                ELSE [value |-> IF query.shape.group = "a" THEN c.a ELSE Null, acc |-> NewAccumulators]
           S(k) == Summary(input, RowsOf(k))
<1>4. /\ p \in Nat /\ n \in 1 .. Len(input) /\ Head(feed) = r /\ r \in Row
      /\ n \notin Taken /\ Taken \in SUBSET (1 .. p)
      /\ Taken' = IF query.filtered => r.b # Null THEN Taken \cup {n} ELSE Taken
  BY <1>1, <1>2, <1>3, ScanStep
<1>5. groups' = [k \in DOMAIN groups \cup {key} |->
                   IF k = key THEN [g EXCEPT !.acc = Add(g.acc, c.b)] ELSE groups[k]]
  BY DEF AggregateRow
<1> HIDE DEF p, n, r, c
<1>6. /\ c = Decoded(r)
      /\ query.filtered => c.b = r.b
      /\ query.shape.group = "a" => c.a = r.a
      /\ Aggregated => c.b = r.b
      /\ c.b \in {r.b, Null}
      /\ key = GroupKey(r) /\ key \in Bytes
  <2>1. c = Decoded(r)
    BY <1>3, <1>4 DEF c
  <2> QED
    BY <2>1, <1>1, <1>3, <1>4, DecodedIs, GroupKeyFacts
<1>7. r.b \in ValuesOf("INT") \cup {Null} /\ c.b \in ValuesOf("INT") \cup {Null} /\ r.a \in ValuesOfA
  BY <1>4, <1>6, RowFacts
<1>8. Taken' = Taken \cup {n}
  BY <1>2, <1>3, <1>4, <1>6 DEF Passes, c
<1>9. \A k : RowsOf(k)' = IF k = key THEN RowsOf(k) \cup {n} ELSE RowsOf(k)
  <2>1. \A k : RowsOf(k)' = {i \in Taken \cup {n} : GroupKey(input[i]) = k}
    BY <1>2, <1>8 DEF RowsOf, GroupKey
  <2>2. GroupKey(input[n]) = key
    BY <1>6 DEF r
  <2> HIDE DEF key
  <2> QED
    BY <2>1, <2>2 DEF RowsOf
<1>10. \A k : IsFiniteSet(RowsOf(k)) /\ Cardinality(RowsOf(k)) \in Nat /\ n \notin RowsOf(k) /\ RowsOf(k) \in SUBSET Taken
  <2>1. IsFiniteSet(Taken) /\ \A k : RowsOf(k) \in SUBSET Taken
    BY <1>1, TakenIs DEF RowsOf
  <2> QED
    BY <2>1, <1>4, PartsAreFinite
<1>11. /\ g = [value |-> g.value, acc |-> g.acc] /\ g.value \in ValuesOfA \cup {Null} /\ IsAcc(g.acc)
       /\ query.shape.group = "a" => key = Encode(g.value)
  <2>1. CASE key \in DOMAIN groups
    <3>1. g = groups[key]
      BY <2>1
    <3> HIDE DEF g, key
    <3> QED
      BY <2>1, <3>1, <1>1 DEF Grouping, TypeOK, IsAcc
  <2>2. CASE key \notin DOMAIN groups
    <3>1. g = [value |-> IF query.shape.group = "a" THEN c.a ELSE Null, acc |-> NewAccumulators]
      BY <2>2
    <3> HIDE DEF g
    <3> QED
      BY <3>1, <1>6, <1>7, NewIsAcc DEF GroupKey
  <2> QED
    BY <2>1, <2>2
<1>12. g.acc.rows = S(key).rows /\ (Aggregated => g.acc = S(key))
  <2>1. CASE key \in DOMAIN groups
    BY <2>1, <1>1, <1>2, <1>3 DEF GroupsAreExact
  <2>2. CASE key \notin DOMAIN groups
    <3>1. key \notin {GroupKey(input[i]) : i \in Taken}
      BY <2>2, <1>1, <1>2, <1>3 DEF GroupsAreExact
    <3>2. RowsOf(key) = {}
      BY <3>1 DEF RowsOf
    <3>3. S(key) = NewAccumulators
      BY <3>2, SummaryOfNone
    <3> QED
      BY <2>2, <3>3
  <2> QED
    BY <2>1, <2>2
<1>13. /\ Summary(input, RowsOf(key) \cup {n}) = Add(S(key), r.b)
       /\ Summary(input, RowsOf(key) \cup {n}).rows = S(key).rows + 1
  <2>1. \A i \in RowsOf(key) \cup {n} : input[i].b \in ValuesOf("INT") \cup {Null}
    <3>1. input \in Seq(Row)
      BY <1>1 DEF Feeding
    <3>2. \A i \in RowsOf(key) : i \in 1 .. Len(input)
      <4>1. \A i \in 1 .. p : i \in 1 .. Len(input)
        BY <1>4, <3>1 DEF n
      <4> QED
        BY <4>1, <1>4, <1>10
    <3>3. \A i \in RowsOf(key) \cup {n} : input[i] \in Row
      BY <3>1, <3>2, <1>4
    <3> QED
      BY <3>3, RowFacts
  <2>2. Summary(input, RowsOf(key) \cup {n}) = Add(S(key), input[n].b)
    <3> HIDE DEF key
    <3> QED
      BY <2>1, <1>10, SummaryAdds
  <2>3. Cardinality(RowsOf(key) \cup {n}) = Cardinality(RowsOf(key)) + 1
    BY <1>10, FS_AddElement
  <2>4. \A P : Summary(input, P).rows = Cardinality(P)
    BY SummaryIs
  <2> QED
    BY <2>2, <2>3, <2>4 DEF r
<1>14. /\ DOMAIN groups' = DOMAIN groups \cup {key}
       /\ \A k \in DOMAIN groups : k # key => groups'[k] = groups[k]
       /\ groups'[key] = [value |-> g.value, acc |-> Add(g.acc, c.b)]
  <2> HIDE DEF key, g
  <2> QED
    BY <1>5, <1>11
<1>15. IsAcc(Add(g.acc, c.b)) /\ Add(g.acc, c.b).rows = g.acc.rows + 1
  BY <1>7, <1>11, AddIsAcc
<1> HIDE DEF key, g
<1>16. TypeOK'
  <2>1. /\ Count' = Count /\ Offset' = Offset /\ SortLimit' = SortLimit
        /\ Len(input') = Len(input) /\ Len(out') = Len(out) /\ Cardinality(items') = Cardinality(items)
    BY <1>2, SameQuery
  <2>2. \A k \in DOMAIN groups' : \A x \in {"sum", "min", "max"} : groups'[k].acc[x] \in ValuesOf("INT") \cup {Null}
    BY <1>1, <1>14, <1>15 DEF TypeOK, IsAcc
  <2> QED
    BY <1>1, <1>2, <2>1, <2>2 DEF TypeOK
<1>17. Feeding'
  BY <1>1, <1>2, PullKeepsFeeding
<1>18. Grouping'
  <2>1. IsFiniteSet(DOMAIN groups')
    BY <1>1, <1>14, FS_AddElement DEF Grouping
  <2>2. key \in Seq(Byte)
    BY <1>6 DEF Bytes
  <2>3. \A k \in DOMAIN groups' :
          /\ k \in Seq(Byte)
          /\ groups'[k] = [value |-> groups'[k].value, acc |-> groups'[k].acc]
          /\ groups'[k].value \in ValuesOfA \cup {Null}
          /\ query.shape.group = "a" => k = Encode(groups'[k].value)
          /\ IsAcc(groups'[k].acc)
    <3> SUFFICES ASSUME NEW k \in DOMAIN groups'
                 PROVE  /\ k \in Seq(Byte)
                        /\ groups'[k] = [value |-> groups'[k].value, acc |-> groups'[k].acc]
                        /\ groups'[k].value \in ValuesOfA \cup {Null}
                        /\ query.shape.group = "a" => k = Encode(groups'[k].value)
                        /\ IsAcc(groups'[k].acc)
      OBVIOUS
    <3>1. CASE k = key
      BY <3>1, <2>2, <1>11, <1>14, <1>15
    <3>2. CASE k # key
      BY <3>2, <1>1, <1>14 DEF Grouping, TypeOK, IsAcc
    <3> QED
      BY <3>1, <3>2
  <2>4. groups' = [k \in DOMAIN groups' |-> groups'[k]]
    BY <1>5
  <2> QED
    BY <2>1, <2>3, <2>4, <1>2 DEF Grouping, IsAcc
<1>19. Sorting' /\ Returning' /\ HeapHoldsFirst'
  <2>1. Sorting'
    BY <1>1, <1>2, SameSorting
  <2>2. Returning'
    BY <1>1, <1>2, NoneReturned
  <2> QED
    BY <2>1, <2>2, <1>2 DEF HeapHoldsFirst
<1>20. GroupsAreExact'
  <2>1. {GroupKey(input[i]) : i \in Taken}' = {GroupKey(input[i]) : i \in Taken} \cup {key}
    <3>1. {GroupKey(input[i]) : i \in Taken}' = {GroupKey(input[i]) : i \in Taken \cup {n}}
      BY <1>2, <1>8 DEF GroupKey
    <3>2. GroupKey(input[n]) = key
      BY <1>6 DEF r
    <3> QED
      BY <3>1, <3>2
  <2>2. DOMAIN groups = {GroupKey(input[i]) : i \in Taken}
    BY <1>1, <1>2, <1>3 DEF GroupsAreExact
  <2>3. Aggregated' <=> Aggregated
    BY <1>2, SameQuery
  <2>4. ASSUME NEW k \in DOMAIN groups', NEW T, T = RowsOf(k)'
        PROVE  /\ groups'[k].acc.rows = Summary(input, T).rows
               /\ Aggregated => groups'[k].acc = Summary(input, T)
    <3>1. CASE k = key
      <4>1. T = RowsOf(key) \cup {n}
        BY <3>1, <2>4, <1>9
      <4>2. groups'[k].acc = Add(g.acc, c.b)
        BY <3>1, <1>14
      <4>3. groups'[k].acc.rows = S(key).rows + 1
        BY <4>2, <1>12, <1>15
      <4>4. Aggregated => groups'[k].acc = Add(S(key), r.b)
        BY <4>2, <1>6, <1>12
      <4> QED
        BY <4>1, <4>3, <4>4, <1>13
    <3>2. CASE k # key
      <4>1. k \in DOMAIN groups /\ groups'[k] = groups[k] /\ T = RowsOf(k)
        BY <3>2, <2>4, <1>9, <1>14
      <4> QED
        BY <4>1, <1>1, <1>2, <1>3 DEF GroupsAreExact
    <3> QED
      BY <3>1, <3>2
  <2> DEFINE Rows == [k \in DOMAIN groups' |-> IF k = key THEN RowsOf(k) \cup {n} ELSE RowsOf(k)]
  <2>5. \A k \in DOMAIN groups' :
           /\ groups'[k].acc.rows = Summary(input, Rows[k]).rows
           /\ Aggregated => groups'[k].acc = Summary(input, Rows[k])
    BY <2>4, <1>9
  <2>6. DOMAIN groups' = {GroupKey(input[i]) : i \in Taken}'
    BY <1>14, <2>1, <2>2
  <2>7. \A k \in DOMAIN groups' : RowsOf(k)' = Rows[k]
    BY <1>9
  <2> HIDE DEF Rows
  <2> QED
    BY <1>2, <2>3, <2>5, <2>6, <2>7 DEF GroupsAreExact
<1> QED
  BY <1>2, <1>16, <1>17, <1>18, <1>19, <1>20, IInvOfParts

LEMMA SubSeqFirst ==
  ASSUME NEW n \in Nat, NEW s, Indexed(s, n), NEW r \in 0 .. n
  PROVE  SubSeq(s, 1, r) = [k \in 1 .. r |-> s[k]] /\ Len(SubSeq(s, 1, r)) = r /\ SubSeq(s, 1, n) = s
<1> DEFINE S == {s[k] : k \in 1 .. n}
           f == SubSeq(s, 1, r)
<1>1. s \in Seq(S) /\ Len(s) = n
  BY IndexedIs
<1> HIDE DEF S
<1>2. f \in Seq(S) /\ Len(f) = r /\ \A k \in 1 .. r : f[k] = s[k]
  BY <1>1
<1>3. SubSeq(s, 1, n) = s
  BY <1>1
<1> HIDE DEF f
<1>4. f = [k \in 1 .. r |-> f[k]]
  BY <1>2
<1>5. f = [k \in 1 .. r |-> s[k]]
  BY <1>2, <1>4
<1> QED
  BY <1>2, <1>3, <1>5 DEF f

\* An operator that has drained what is below it hands on its own rows.
LEMMA StreamStarts ==
  ASSUME TypeOK, Feeding, Grouping, GroupsAreExact, Returning, pc \in {"aggregate", "sort"},
         UNCHANGED <<query, input, groups, seen, skipped, out>>,
         ~raw', pc' = "stream", feed' = SubSeq(Top, 1, Reach)
  PROVE  Returning'
<1> DEFINE top == Top
           n == Len(Below)
           all == OfAll(top)
           r == Reach
<1>1. n \in Nat /\ Indexed(all, n) /\ Indexed(top, n)
  BY AllIs
<1>2. r \in 0 .. n
  <2>1. SortLimit \in Int
    BY QueryFacts DEF TypeOK
  <2> QED
    BY <2>1, <1>1 DEF Reach
<1>3. Top' = top /\ Reach' = r
  BY SameTop
<1>4. /\ OfAll(Top)' = OfAll(Top) /\ News(OfAll(Top))' = News(OfAll(Top))
      /\ Deduplicated(OfAll(Top))' = Deduplicated(OfAll(Top))
  BY SameShown
<1>5. /\ skipped = 0 /\ out = <<>> /\ seen = {} /\ out \in Seq(ToSet(out))
  BY DEF Returning
<1>6. Cardinality(NewTo(all, 0)) = 0
  <2>1. 0 \in 0 .. n
    BY <1>1
  <2> HIDE DEF all, n
  <2> QED
    BY <1>1, <2>1, NewToIs
<1>7. Cardinality({k \in News(OfAll(Top)) : k <= 0}) = 0
  BY <1>6 DEF NewTo
<1> HIDE DEF top, n, all, r
<1>8. Len(SubSeq(top, 1, r)) = r
  BY <1>1, <1>2, SubSeqFirst
<1>9. feed' = SubSeq(top, 1, r)
  BY DEF top, r
<1>10. Through' = r - r
  BY <1>3, <1>8, <1>9 DEF Through
<1>11. Through' = 0 /\ 0 \in 0 .. r /\ feed' = SubSeq(top, 0 + 1, r)
  <2>1. r \in Nat /\ 0 + 1 = 1
    BY <1>1, <1>2
  <2>2. r - r = 0 /\ 0 \in 0 .. r
    BY <2>1
  <2> QED
    BY <2>1, <2>2, <1>9, <1>10
<1>12. Offset' = Offset
  BY SameQuery
<1>13. DOMAIN out = {} /\ Len(out) = 0
  BY <1>5
<1>14. {EncodedRow(OfAll(Top)[k]) : k \in 1 .. 0} = {}
  OBVIOUS
<1>15. ~raw' => Through' \in 0 .. Reach' /\ feed' = SubSeq(Top', Through' + 1, Reach')
  BY <1>3, <1>11 DEF r, top
<1>16. Cardinality({k \in News(OfAll(Top))' : k <= Through'}) = 0
  BY <1>4, <1>7, <1>11
<1>17. {EncodedRow(OfAll(Top)'[k]) : k \in 1 .. Through'} = {}
  BY <1>4, <1>11, <1>14
<1>18. seen' = {} /\ out' = <<>> /\ skipped' = 0 /\ Len(out') = 0 /\ DOMAIN out' = {} /\ out' \in Seq(ToSet(out'))
  BY <1>5, <1>13
<1>19. seen' = IF query'.distinct THEN {EncodedRow(OfAll(Top)'[k]) : k \in 1 .. Through'} ELSE {}
  BY <1>17, <1>18
<1>20. skipped' + Len(out') = Cardinality({k \in News(OfAll(Top))' : k <= Through'})
  BY <1>16, <1>18
<1>21. \A k \in DOMAIN out' : out'[k] = Deduplicated(OfAll(Top))'[Offset' + k]
  BY <1>18
<1> QED
  BY <1>15, <1>18, <1>19, <1>20, <1>21 DEF Returning

LEMMA ArrivedItems == Arrived = ItemsOf(Below, Fed)
BY DEF Arrived, ItemsOf, ItemOf

LEMMA HeapIsFirst ==
  ASSUME HeapHoldsFirst, pc = "sort", NEW S, S = Arrived
  PROVE  items = FirstOf(S, EarlierOn(S), SortLimit)
<1>1. items = {x \in S : SortLimit < 0 \/ Cardinality({y \in S : Earlier(y, x)}) < SortLimit}
  BY DEF HeapHoldsFirst
<1>2. \A x \in S : {y \in S : Earlier(y, x)} = {y \in S : <<y, x>> \in EarlierOn(S)}
  BY EarlierIs
<1> QED
  BY <1>1, <1>2 DEF FirstOf

LEMMA AggregateDoneIInv == ASSUME IInv, AggregateDone PROVE IInv'
<1>1. /\ TypeOK /\ Feeding /\ Grouping /\ Sorting /\ Returning /\ HeapHoldsFirst /\ GroupsAreExact
      /\ query \in Query
  BY PartsOfIInv
<1>2. /\ pc = "aggregate" /\ raw' = FALSE /\ pc' = AfterScan /\ feed = <<>> /\ feed' = Produced
      /\ UNCHANGED <<query, input, groups, items, seq, seen, skipped, out>>
  BY DEF AggregateDone
<1>3. /\ IsGrouped /\ (pc' = "sort" => Sorts) /\ pc' \in {"sort", "stream"}
      /\ (IsGrouped' <=> IsGrouped) /\ (Sorts' <=> Sorts)
      /\ pc' = "stream" => ~Sorts
  BY <1>1, <1>2, SameQuery DEF Feeding, AfterScan
<1>4. Taken = Kept /\ Taken' = Kept
  <2>1. Taken = Kept
    BY <1>1, <1>2, TakenIs
  <2>2. Kept' = Kept
    BY <1>2, SameKept
  <2> QED
    BY <2>1, <2>2, <1>2 DEF Taken
<1> DEFINE rows == Produced
           n == Len(rows)
<1>5. n \in Nat /\ Indexed(rows, n)
  BY <1>1, <1>3, ProducedIs
<1>6. Below = rows /\ Below' = rows
  BY <1>2, <1>3, SameBelow DEF Below
<1> HIDE DEF rows
<1>7. feed' = rows
  BY <1>2 DEF rows
<1>8. Fed' = 0
  <2>1. Fed' = n - n
    BY <1>2, <1>6, <1>7 DEF Fed
  <2> QED
    BY <2>1, <1>5
<1>9. SubSeq(rows, 1, n) = rows
  <2>1. n \in 0 .. n
    BY <1>5
  <2> QED
    BY <2>1, <1>5, SubSeqFirst
<1>10. TypeOK'
  BY <1>1, <1>2, <1>3, SameTypes
<1>11. Feeding'
  <2>1. 0 \in 0 .. n /\ rows = SubSeq(rows, 0 + 1, n)
    BY <1>5, <1>9
  <2>2. raw' = (pc' = "aggregate" \/ (~IsGrouped' /\ (pc' = "sort" \/ ~Sorts')))
    BY <1>2, <1>3
  <2> QED
    BY <2>1, <2>2, <1>1, <1>2, <1>3, <1>6, <1>7, <1>8 DEF Feeding
<1>12. Grouping' /\ GroupsAreExact'
  BY <1>1, <1>2, <1>4, SameGrouping, SameGroups
<1>13. Sorting' /\ seq = 0
  <2>1. seq = 0
    BY <1>1, <1>2 DEF Sorting
  <2> QED
    BY <2>1, <1>1, <1>2, <1>3, <1>8, SameSorting
<1>14. HeapHoldsFirst'
  <2>1. items = {}
    <3>1. \A x \in items : x.seq \in 0 .. 0 - 1
      BY <1>1, <1>13 DEF TypeOK
    <3> QED
      BY <3>1
  <2>2. Arrived' = {}
    BY <1>8 DEF Arrived
  <2> QED
    BY <2>1, <2>2, <1>2 DEF HeapHoldsFirst
<1>15. Returning'
  <2>1. CASE pc' = "sort"
    BY <2>1, <1>1, <1>2, NoneReturned
  <2>2. CASE pc' = "stream"
    <3>1. Top = rows /\ Reach = n
      BY <2>2, <1>3, <1>6 DEF Top, Reach
    <3> QED
      BY <2>2, <3>1, <1>1, <1>2, <1>7, <1>9, StreamStarts
  <2> QED
    BY <2>1, <2>2, <1>3
<1> QED
  BY <1>3, <1>10, <1>11, <1>12, <1>13, <1>14, <1>15, IInvOfParts

LEMMA SortDoneIInv == ASSUME IInv, SortDone PROVE IInv'
<1>1. /\ TypeOK /\ Feeding /\ Grouping /\ Sorting /\ Returning /\ HeapHoldsFirst /\ GroupsAreExact
      /\ query \in Query
  BY PartsOfIInv
<1> DEFINE rows == Below
           n == Len(rows)
           L == SortLimit
           m == IF L >= 0 /\ L < n THEN L ELSE n
           sorted == Ascending(items, Earlier)
           top == Sorted(rows)
<1>2. /\ pc = "sort" /\ pc' = "stream" /\ raw' = FALSE /\ feed = <<>>
      /\ feed' = [i \in DOMAIN sorted |-> sorted[i].row]
      /\ UNCHANGED <<query, input, groups, items, seq, seen, skipped, out>>
  BY DEF SortDone
<1>3. Sorts /\ (Sorts' <=> Sorts) /\ (IsGrouped' <=> IsGrouped) /\ (raw <=> ~IsGrouped)
  BY <1>1, <1>2, SameQuery DEF Feeding
<1>4. n \in Nat /\ Indexed(rows, n) /\ Sortable(rows, n)
  BY <1>1, <1>3, BelowIs
<1>5. Fed = n
  <2>1. CASE raw
    <3>1. Fed = Cardinality(Taken) /\ Taken = Kept
      BY <2>1, <1>1, <1>2, TakenIs DEF Fed
    <3>2. n = Cardinality(Kept)
      BY <2>1, <1>1, <1>3, ScannedIs
    <3> QED
      BY <3>1, <3>2
  <2>2. CASE ~raw
    <3>1. Fed \in 0 .. n /\ SubSeq(rows, Fed + 1, n) = <<>>
      BY <2>2, <1>1, <1>2 DEF Feeding
    <3> DEFINE c == Fed
    <3> HIDE DEF rows, c
    <3>2. c \in 0 .. n /\ SubSeq(rows, c + 1, n) = <<>> /\ n \in 0 .. n
      BY <3>1, <1>4 DEF c
    <3>3. c = n
      BY <3>2, <1>4, SubSeqUsedUp
    <3> QED
      BY <3>3 DEF c
  <2> QED
    BY <2>1, <2>2
<1>6. items = FirstOf(ItemsOf(rows, n), EarlierOn(ItemsOf(rows, n)), L)
  <2>1. Arrived = ItemsOf(rows, n)
    BY <1>5, ArrivedItems
  <2> QED
    BY <2>1, <1>1, <1>2, HeapIsFirst
<1>7. L \in Int
  BY <1>1, QueryFacts
<1>8. Top = top /\ Reach = m
  BY <1>3 DEF Top, Reach
<1>9. Indexed(top, n)
  BY <1>1, <1>8, TopIs
<1> HIDE DEF rows, L
<1>10. feed' = [k \in 1 .. m |-> top[k]]
  <2>1. [i \in DOMAIN sorted |-> sorted[i].row] = [k \in 1 .. m |-> Sorted(rows)[k]]
    BY <1>4, <1>6, <1>7, SortedItems
  <2> QED
    BY <2>1, <1>2
<1>11. m \in 0 .. n
  BY <1>4, <1>7
<1> HIDE DEF m, top, sorted
<1>12. feed' = SubSeq(Top, 1, Reach)
  <2>1. SubSeq(top, 1, m) = [k \in 1 .. m |-> top[k]]
    BY <1>4, <1>9, <1>11, SubSeqFirst
  <2> QED
    BY <2>1, <1>8, <1>10
<1>13. TypeOK'
  BY <1>1, <1>2, SameTypes
<1>14. Feeding'
  BY <1>1, <1>2, <1>3 DEF Feeding
<1>15. Grouping' /\ GroupsAreExact' /\ HeapHoldsFirst'
  <2>1. IsGrouped => Taken' = Taken
    <3>1. Kept' = Kept
      BY <1>2, SameKept
    <3> QED
      BY <3>1, <1>2, <1>3 DEF Taken
  <2> QED
    BY <2>1, <1>1, <1>2, SameGrouping, SameGroups DEF HeapHoldsFirst
<1>16. Sorting'
  BY <1>1, <1>2, SameSorting
<1>17. Returning'
  BY <1>1, <1>2, <1>12, StreamStarts
<1> QED
  BY <1>2, <1>13, <1>14, <1>15, <1>16, <1>17, IInvOfParts

LEMMA SortRowIInv == ASSUME IInv, SortRow PROVE IInv'
<1>1. /\ TypeOK /\ Feeding /\ Grouping /\ Sorting /\ Returning /\ HeapHoldsFirst /\ GroupsAreExact
      /\ query \in Query
  BY PartsOfIInv
<1> DEFINE e == [row |-> Current, seq |-> seq]
           L == SortLimit
           rows == Below
           n == Len(rows)
           c == Fed
           S == ItemsOf(rows, c)
<1>2. /\ pc = "sort" /\ feed # <<>> /\ feed' = Tail(feed) /\ Passes(Current) /\ seq' = seq + 1
      /\ items' = IF L < 0 \/ Cardinality(items) < L THEN items \cup {e}
                  ELSE IF L > 0 /\ Earlier(e, Root(items))
                  THEN (items \ {Root(items)}) \cup {e}
                  ELSE items
      /\ UNCHANGED <<query, input, raw, groups, seen, skipped, out, pc>>
  BY DEF SortRow, Pull
<1>3. Sorts /\ (raw <=> ~IsGrouped)
  BY <1>1, <1>2 DEF Feeding
<1>4. n \in Nat /\ Sortable(rows, n)
  BY <1>1, <1>3, BelowIs
<1>5. c \in Nat /\ c + 1 \in 1 .. n /\ Current = rows[c + 1] /\ Fed' = c + 1
  <2> HIDE DEF rows, n, c
  <2>1. rows = Below /\ n = Len(rows) /\ c = Fed
    BY DEF rows, n, c
  <2> QED
    BY <2>1, <1>1, <1>2, SortNext
<1>6. seq = c
  BY <1>1, <1>2 DEF Sorting
<1>7. e = ItemOf(rows, c + 1)
  <2>1. seq = (c + 1) - 1
    BY <1>5, <1>6
  <2> QED
    BY <2>1, <1>5 DEF ItemOf
<1>8. e.row = Current /\ e.seq = seq /\ seq \in Nat
  BY <1>5, <1>6
<1>9. Current[Order.by] \in SortValues
  BY <1>4, <1>5 DEF Sortable
<1>10. Arrived = S /\ items = FirstOf(S, EarlierOn(S), L)
  <2>1. Arrived = S
    BY ArrivedItems
  <2> QED
    BY <2>1, <1>1, <1>2, HeapIsFirst
<1>11. Keeps(items', items, e, L)
  BY <1>2 DEF Keeps
<1>12. L \in Int
  BY <1>1, QueryFacts
<1>13. Below' = rows
  BY <1>2, SameBelow
<1> HIDE DEF e, L, rows, n, c, S
<1>14. S = ItemsOf(rows, c)
  BY DEF S
<1>15. items' = FirstOf(S \cup {e}, EarlierOn(S \cup {e}), L)
  <2> DEFINE kept == items'
  <2> HIDE DEF kept
  <2>1. Keeps(kept, items, e, L)
    BY <1>11 DEF kept
  <2>2. kept = FirstOf(S \cup {e}, EarlierOn(S \cup {e}), L)
    BY <2>1, <1>4, <1>5, <1>7, <1>10, <1>12, <1>14, HeapStep
  <2> QED
    BY <2>2 DEF kept
<1>16. /\ IsFiniteSet(S) /\ e \notin S /\ S \cup {e} = ItemsOf(rows, c + 1)
       /\ \A x \in S \cup {e} : x.row[Order.by] \in SortValues /\ x.seq \in Nat
       /\ \A x, y \in S \cup {e} : x.seq = y.seq => x = y
       /\ Ranks(EarlierOn(S \cup {e}), S \cup {e})
  BY <1>4, <1>5, <1>7, <1>14, ArrivedIs
<1>17. Arrived' = S \cup {e}
  <2>1. Arrived' = ItemsOf(rows, c + 1)
    <3>1. Arrived' = {[row |-> rows[k], seq |-> k - 1] : k \in 1 .. c + 1}
      BY <1>5, <1>13 DEF Arrived
    <3> QED
      BY <3>1 DEF ItemsOf, ItemOf
  <2> QED
    BY <2>1, <1>16
<1>18. /\ Count' = Count /\ Offset' = Offset /\ SortLimit' = L
       /\ Len(input') = Len(input) /\ Len(out') = Len(out)
       /\ Order' = Order /\ SortValues' = SortValues /\ (IsGrouped' <=> IsGrouped)
  BY <1>2, SameQuery DEF L
<1>19. items' \in SUBSET (items \cup {e}) /\ items' \in SUBSET (S \cup {e})
  <2>1. items' \in SUBSET (items \cup {e})
    BY <1>11 DEF Keeps
  <2>2. items' \in SUBSET (S \cup {e})
    BY <1>15 DEF FirstOf
  <2> QED
    BY <2>1, <2>2
<1>20. IsFiniteSet(items') /\ (L >= 0 => Cardinality(items') <= L)
  <2> DEFINE U == S \cup {e}
             R == EarlierOn(U)
             kept == items'
  <2>1. IsFiniteSet(U) /\ Ranks(R, U) /\ kept = FirstOf(U, R, L) /\ kept \in SUBSET U
    BY <1>15, <1>16, <1>19, FS_AddElement
  <2> HIDE DEF U, R, kept
  <2>2. IsFiniteSet(kept)
    BY <2>1, PartsAreFinite
  <2>3. L >= 0 => Cardinality(kept) <= L
    <3> SUFFICES ASSUME L >= 0 PROVE Cardinality(kept) <= L
      OBVIOUS
    <3>1. L \in Nat
      BY <1>12
    <3>2. \/ kept = U /\ Cardinality(U) <= L
          \/ Cardinality(kept) = L /\ \A x \in kept, y \in U \ kept : <<x, y>> \in R
      BY <2>1, <3>1, FirstIs
    <3> QED
      BY <3>1, <3>2
  <2> QED
    BY <2>2, <2>3 DEF kept
<1>21. \A x \in items' : x.seq \in 0 .. seq' - 1 /\ x.row[Order.by] \in SortValues
  <2>1. seq' - 1 = seq /\ seq \in 0 .. seq
    BY <1>2, <1>8
  <2>2. \A x \in items : x.seq \in 0 .. seq
    <3>1. \A k \in 0 .. seq - 1 : k \in 0 .. seq
      BY <1>8
    <3> QED
      BY <3>1, <1>1 DEF TypeOK
  <2>3. e.seq = seq
    BY <1>8 DEF e
  <2> QED
    BY <2>1, <2>2, <2>3, <1>16, <1>19
<1>22. TypeOK'
  BY <1>1, <1>2, <1>18, <1>20, <1>21 DEF TypeOK
<1>23. Feeding'
  BY <1>1, <1>2, PullKeepsFeeding
<1>24. Grouping' /\ Returning'
  BY <1>1, <1>2, SameGrouping, NoneReturned
<1>25. Sorting'
  <2>1. \A x, y \in items' : x.seq = y.seq => x = y
    BY <1>16, <1>19
  <2>2. seq' \in Nat /\ seq' = Fed'
    BY <1>2, <1>5, <1>6
  <2>3. \A x \in items' : x.row[Order.by] \in SortValues
    BY <1>21
  <2> QED
    BY <2>1, <2>2, <2>3, <1>2, <1>18, <1>20 DEF Sorting
<1>26. GroupsAreExact'
  <2>1. IsGrouped => Taken' = Taken
    <3>1. Kept' = Kept
      BY <1>2, SameKept
    <3> QED
      BY <3>1, <1>2, <1>3 DEF Taken
  <2> QED
    BY <2>1, <1>1, <1>2, SameGroups
<1>27. HeapHoldsFirst'
  <2>1. \A x \in S \cup {e} : {y \in S \cup {e} : Earlier(y, x)} = {y \in S \cup {e} : <<y, x>> \in EarlierOn(S \cup {e})}
    BY EarlierIs
  <2>2. items' = {x \in S \cup {e} : L < 0 \/ Cardinality({y \in S \cup {e} : Earlier(y, x)}) < L}
    BY <2>1, <1>15 DEF FirstOf
  <2>3. \A x, y : Earlier(x, y)' <=> Earlier(x, y)
    BY <1>2 DEF Earlier, Precedes, Order
  <2> QED
    BY <2>2, <2>3, <1>17, <1>18 DEF HeapHoldsFirst
<1> QED
  BY <1>2, <1>22, <1>23, <1>24, <1>25, <1>26, <1>27, IInvOfParts

-----------------------------------------------------------------------------
(***************************************************************************)
(* A row on its way to the client.                                         *)
(***************************************************************************)
\* A row on its way to the client: it is the next of the rows above the Sort,
\* and DISTINCT knows it if it is not new.
Passing(top, all, n, r, c) ==
  /\ TypeOK /\ Feeding /\ Grouping /\ GroupsAreExact /\ Returning /\ Streams
  /\ UNCHANGED <<query, input, raw, groups, pc>>
  /\ top = Top /\ all = OfAll(top) /\ n = Len(Below) /\ r = Reach /\ c = Through

LEMMA PassingRows ==
  ASSUME NEW top, NEW all, NEW n, NEW r, NEW c, Passing(top, all, n, r, c)
  PROVE  /\ n \in Nat /\ Indexed(top, n) /\ Indexed(all, n) /\ r \in 0 .. n
         /\ \A k \in 1 .. n : all[k] = Projected(top[k])
         /\ \A j, k \in 1 .. n : EncodedRow(all[j]) = EncodedRow(all[k]) => all[j] = all[k]
<1>1. /\ TypeOK /\ Feeding /\ Grouping /\ GroupsAreExact /\ pc # "done"
      /\ top = Top /\ all = OfAll(top) /\ n = Len(Below) /\ r = Reach
  BY DEF Passing, Streams
<1>2. /\ n \in Nat /\ Indexed(top, n) /\ Indexed(all, n) /\ Len(all) = n
      /\ \A k \in 1 .. n : all[k] = Projected(top[k])
      /\ \A j, k \in 1 .. n : EncodedRow(all[j]) = EncodedRow(all[k]) => all[j] = all[k]
  BY <1>1, AllIs
<1>3. r \in 0 .. n
  <2>1. SortLimit \in Int
    BY <1>1, QueryFacts DEF TypeOK
  <2>2. r = IF Sorts /\ SortLimit >= 0 /\ SortLimit < n THEN SortLimit ELSE n
    BY <1>1 DEF Reach
  <2> QED
    BY <2>1, <2>2, <1>2
<1> QED
  BY <1>2, <1>3

LEMMA PassingNext ==
  ASSUME NEW top, NEW all, NEW n, NEW r, NEW c, Passing(top, all, n, r, c)
  PROVE  /\ c \in Nat /\ c + 1 \in 1 .. n /\ Current = top[c + 1] /\ Through' = c + 1
         /\ ~raw => c + 1 \in 0 .. r /\ feed' = SubSeq(top, (c + 1) + 1, r)
<1>1. /\ TypeOK /\ Feeding /\ Grouping /\ Returning /\ pc = "stream" /\ query \in Query
      /\ feed # <<>> /\ feed' = Tail(feed) /\ Passes(Current)
      /\ UNCHANGED <<query, input, raw, groups, pc>>
      /\ top = Top /\ n = Len(Below) /\ r = Reach /\ c = Through
  BY DEF Passing, Streams, Pull, TypeOK
<1>2. n \in Nat /\ Indexed(top, n) /\ r \in 0 .. n
  BY PassingRows
<1>3. CASE raw
  <2>1. ~IsGrouped /\ ~Sorts
    BY <1>1, <1>3 DEF Feeding
  <2>2. top = Below
    BY <1>1, <2>1 DEF Top
  <2>3. c = Cardinality(Taken) /\ Through' = Cardinality(Taken')
    BY <1>1, <1>3 DEF Through
  <2>4. c \in Nat /\ c + 1 \in 1 .. Len(Below) /\ Current = Below[c + 1] /\ Cardinality(Taken') = c + 1
    BY <2>1, <2>3, <1>1, <1>3, ScanNext
  <2> QED
    BY <2>2, <2>3, <2>4, <1>1, <1>3
<1>4. CASE ~raw
  <2>1. c \in 0 .. r /\ feed = SubSeq(top, c + 1, r)
    BY <1>1, <1>4 DEF Returning
  <2>2. /\ c \in Nat /\ c + 1 \in 1 .. r /\ Head(feed) = top[c + 1]
        /\ Tail(feed) = SubSeq(top, (c + 1) + 1, r) /\ Len(Tail(feed)) = r - (c + 1)
    BY <2>1, <1>1, <1>2, SubSeqLeft
  <2>3. Reach' = r
    BY <1>1, SameTop
  <2>4. Through' = r - Len(Tail(feed))
    BY <2>3, <1>1, <1>4 DEF Through
  <2>5. Through' = r - (r - (c + 1))
    BY <2>2, <2>4
  <2>6. c \in Nat /\ r \in Nat /\ c + 1 \in 1 .. r
    BY <2>2, <1>2
  <2>7. r - (r - (c + 1)) = c + 1 /\ c + 1 \in 0 .. r
    BY <2>6
  <2>8. c + 1 \in 1 .. n
    BY <2>6, <1>2
  <2>9. Through' = c + 1
    BY <2>5, <2>7
  <2>10. Current = top[c + 1]
    BY <2>2, <1>4 DEF Current
  <2> QED
    BY <2>2, <2>7, <2>8, <2>9, <2>10, <1>1
<1> QED
  BY <1>3, <1>4

LEMMA PassingIsNew ==
  ASSUME NEW top, NEW all, NEW n, NEW r, NEW c, Passing(top, all, n, r, c)
  PROVE  /\ Projected(Current) = all[c + 1]
         /\ Repeated <=> c + 1 \notin News(all)
<1>1. /\ n \in Nat /\ Indexed(all, n)
      /\ \A k \in 1 .. n : all[k] = Projected(top[k])
      /\ \A j, k \in 1 .. n : EncodedRow(all[j]) = EncodedRow(all[k]) => all[j] = all[k]
  BY PassingRows
<1>2. c \in Nat /\ c + 1 \in 1 .. n /\ Current = top[c + 1]
  BY PassingNext
<1>3. Projected(Current) = all[c + 1]
  BY <1>1, <1>2
<1>4. query.distinct => seen = {EncodedRow(all[k]) : k \in 1 .. c}
  BY DEF Passing, Returning, Streams
<1>5. c + 1 \in News(all) <=> (query.distinct => \A j \in 1 .. (c + 1) - 1 : all[j] # all[c + 1])
  BY <1>1, <1>2, NewsIs
<1>6. (c + 1) - 1 = c /\ \A j \in 1 .. c : j \in 1 .. n
  BY <1>1, <1>2
<1>7. Repeated <=> query.distinct /\ EncodedRow(all[c + 1]) \in seen
  BY <1>3 DEF Repeated
<1>8. query.distinct => (EncodedRow(all[c + 1]) \in seen <=> \E j \in 1 .. c : all[j] = all[c + 1])
  BY <1>1, <1>2, <1>4, <1>6
<1> QED
  BY <1>3, <1>5, <1>6, <1>7, <1>8

\* DISTINCT remembers it, and what is new is dropped or returned.
LEMMA PassingKeepsReturning ==
  ASSUME NEW top, NEW all, NEW n, NEW r, NEW c, Passing(top, all, n, r, c),
         skipped' \in Nat, out' \in Seq(ToSet(out')),
         seen' = IF query.distinct THEN seen \cup {EncodedRow(all[c + 1])} ELSE seen,
         skipped' + Len(out') = Cardinality(NewTo(all, c + 1)),
         skipped' < Offset => out' = <<>>,
         \A k \in DOMAIN out' : out'[k] = Deduplicated(all)[Offset + k]
  PROVE  Returning'
<1>1. /\ pc = "stream" /\ Returning /\ UNCHANGED <<query, input, raw, groups, pc>>
      /\ top = Top /\ all = OfAll(Top) /\ r = Reach /\ c = Through
  BY DEF Passing, Streams
<1>2. /\ c \in Nat /\ Through' = c + 1
      /\ ~raw => c + 1 \in 0 .. r /\ feed' = SubSeq(top, (c + 1) + 1, r)
  BY PassingNext
<1>3. /\ Top' = top /\ Reach' = r /\ Offset' = Offset
      /\ OfAll(Top)' = all /\ News(OfAll(Top))' = News(all) /\ Deduplicated(OfAll(Top))' = Deduplicated(all)
  BY <1>1, SameTop, SameShown, SameQuery
<1>4. ~raw' => Through' \in 0 .. Reach' /\ feed' = SubSeq(Top', Through' + 1, Reach')
  BY <1>1, <1>2, <1>3
<1>5. seen' = IF query'.distinct THEN {EncodedRow(OfAll(Top)'[k]) : k \in 1 .. Through'} ELSE {}
  <2>1. seen = IF query.distinct THEN {EncodedRow(all[k]) : k \in 1 .. c} ELSE {}
    BY <1>1 DEF Returning
  <2>2. \A k : k \in 1 .. c + 1 <=> k \in 1 .. c \/ k = c + 1
    BY <1>2
  <2>3. {EncodedRow(all[k]) : k \in 1 .. c + 1} = {EncodedRow(all[k]) : k \in 1 .. c} \cup {EncodedRow(all[c + 1])}
    BY <2>2
  <2>4. seen' = IF query.distinct THEN {EncodedRow(all[k]) : k \in 1 .. c + 1} ELSE {}
    BY <2>1, <2>3
  <2>5. {EncodedRow(OfAll(Top)'[k]) : k \in 1 .. Through'} = {EncodedRow(all[k]) : k \in 1 .. c + 1}
    BY <1>2, <1>3
  <2>6. query' = query
    BY <1>1
  <2> QED
    BY <2>4, <2>5, <2>6
<1>6. skipped' + Len(out') = Cardinality({k \in News(OfAll(Top))' : k <= Through'})
  BY <1>2, <1>3 DEF NewTo
<1>7. \A k \in DOMAIN out' : out'[k] = Deduplicated(OfAll(Top))'[Offset' + k]
  BY <1>3
<1>8. pc' = "stream" /\ (skipped' < Offset' => out' = <<>>)
  BY <1>1, <1>3
<1> QED
  BY <1>4, <1>5, <1>6, <1>7, <1>8 DEF Returning

LEMMA StreamKeeps ==
  ASSUME IInv, Streams, UNCHANGED <<query, input, raw, groups, items, seq, pc>>
  PROVE  Feeding' /\ Grouping' /\ Sorting' /\ HeapHoldsFirst' /\ GroupsAreExact'
<1>1. /\ TypeOK /\ Feeding /\ Grouping /\ Sorting /\ GroupsAreExact /\ query \in Query
      /\ feed # <<>> /\ feed' = Tail(feed) /\ pc = "stream"
  BY PartsOfIInv DEF Pull, Streams
<1>2. Feeding'
  BY <1>1, PullKeepsFeeding
<1>3. Grouping' /\ Sorting'
  BY <1>1, SameGrouping, SameSorting
<1>4. HeapHoldsFirst'
  BY <1>1 DEF HeapHoldsFirst
<1>5. GroupsAreExact'
  <2>1. IsGrouped => Taken' = Taken
    <3>1. Kept' = Kept
      BY SameKept
    <3>2. IsGrouped => ~raw
      BY <1>1 DEF Feeding
    <3> QED
      BY <3>1, <3>2 DEF Taken
  <2> QED
    BY <2>1, <1>1, SameGroups
<1> QED
  BY <1>2, <1>3, <1>4, <1>5

LEMMA SeqWithin ==
  ASSUME NEW S, NEW s \in Seq(S), NEW T, \A i \in 1 .. Len(s) : s[i] \in T
  PROVE  s \in Seq(T)
<1>1. Len(s) \in Nat /\ s = [i \in 1 .. Len(s) |-> s[i]]
  OBVIOUS
<1>2. [i \in 1 .. Len(s) |-> s[i]] \in [1 .. Len(s) -> T]
  OBVIOUS
<1> QED
  BY <1>1, <1>2

\* A sequence with one more row.
Longer(t, s, x) ==
  /\ Len(t) = Len(s) + 1 /\ t \in Seq(ToSet(t))
  /\ \A k \in DOMAIN t : (k \in DOMAIN s /\ t[k] = s[k]) \/ (k = Len(s) + 1 /\ t[k] = x)

LEMMA OneMore ==
  ASSUME NEW s, s \in Seq(ToSet(s)), NEW x
  PROVE  Longer(Append(s, x), s, x)
<1> DEFINE t == Append(s, x)
<1> DEFINE A == ToSet(s)
           T == A \cup {x}
<1>1. s \in Seq(A)
  OBVIOUS
<1> HIDE DEF A
<1>2. s \in Seq(T) /\ x \in T /\ Len(s) \in Nat
  BY <1>1
<1> HIDE DEF T
<1>3. t \in Seq(T) /\ Len(t) = Len(s) + 1
  BY <1>2
<1>4. DOMAIN t = 1 .. Len(t) /\ DOMAIN s = 1 .. Len(s)
  BY <1>2, <1>3
<1>5. t \in Seq(ToSet(t))
  <2>1. \A i \in 1 .. Len(t) : t[i] \in ToSet(t)
    BY <1>4 DEF ToSet
  <2> QED
    BY <2>1, <1>3, SeqWithin
<1>6. \A k \in 1 .. Len(s) + 1 : t[k] = IF k = Len(s) + 1 THEN x ELSE s[k]
  BY <1>2
<1>7. \A k \in 1 .. Len(s) + 1 : k \in 1 .. Len(s) \/ k = Len(s) + 1
  BY <1>2
<1>8. \A k \in DOMAIN t : (k \in DOMAIN s /\ t[k] = s[k]) \/ (k = Len(s) + 1 /\ t[k] = x)
  <2> SUFFICES ASSUME NEW k \in 1 .. Len(s) + 1
               PROVE  (k \in 1 .. Len(s) /\ t[k] = s[k]) \/ (k = Len(s) + 1 /\ t[k] = x)
    BY <1>3, <1>4
  <2>1. CASE k = Len(s) + 1
    BY <2>1, <1>6
  <2>2. CASE k # Len(s) + 1
    <3>1. k \in 1 .. Len(s)
      BY <2>2, <1>7
    <3>2. t[k] = s[k]
      BY <2>2, <1>6
    <3> QED
      BY <3>1, <3>2
  <2> QED
    BY <2>1, <2>2
<1> QED
  BY <1>2, <1>3, <1>5, <1>8 DEF Longer

\* What has come of the rows in front of it, and where it belongs.
LEMMA PassingCounts ==
  ASSUME NEW top, NEW all, NEW n, NEW r, NEW c, Passing(top, all, n, r, c),
         NEW m, m = skipped + Len(out)
  PROVE  /\ skipped \in Nat /\ out \in Seq(ToSet(out)) /\ Len(out) \in Nat
         /\ skipped < Offset => out = <<>>
         /\ \A k \in DOMAIN out : out[k] = Deduplicated(all)[Offset + k]
         /\ Repeated => Cardinality(NewTo(all, c + 1)) = m
         /\ ~Repeated => Cardinality(NewTo(all, c + 1)) = m + 1 /\ Deduplicated(all)[m + 1] = all[c + 1]
<1>1. /\ skipped \in Nat /\ out \in Seq(ToSet(out))
      /\ skipped < Offset => out = <<>>
      /\ \A k \in DOMAIN out : out[k] = Deduplicated(all)[Offset + k]
      /\ m = Cardinality(NewTo(all, c))
  BY DEF Passing, Streams, Returning, NewTo
<1>2. Len(out) \in Nat
  <2> DEFINE A == ToSet(out)
  <2>1. out \in Seq(A)
    BY <1>1
  <2> HIDE DEF A
  <2> QED
    BY <2>1
<1>3. n \in Nat /\ Indexed(all, n)
  BY PassingRows
<1>4. c \in Nat /\ c + 1 \in 1 .. n
  BY PassingNext
<1>5. Repeated <=> c + 1 \notin News(all)
  BY PassingIsNew
<1>6. /\ c + 1 \notin News(all) => Cardinality(NewTo(all, c + 1)) = m
      /\ c + 1 \in News(all) => /\ Cardinality(NewTo(all, c + 1)) = m + 1
                                /\ Deduplicated(all)[m + 1] = all[c + 1]
  BY <1>1, <1>3, <1>4, NewNext
<1> QED
  BY <1>1, <1>2, <1>5, <1>6

LEMMA DistinctDropsIInv == ASSUME IInv, DistinctDrops PROVE IInv'
<1>1. /\ TypeOK /\ Feeding /\ Grouping /\ GroupsAreExact /\ Returning /\ Streams /\ Repeated
      /\ UNCHANGED <<query, input, raw, groups, items, seq, seen, skipped, out, pc>>
  BY PartsOfIInv DEF DistinctDrops
<1> DEFINE top == Top
           all == OfAll(top)
           n == Len(Below)
           r == Reach
           c == Through
<1>2. Passing(top, all, n, r, c)
  BY <1>1 DEF Passing
<1> HIDE DEF top, all, n, r, c
<1> DEFINE m == skipped + Len(out)
<1>3. /\ skipped \in Nat /\ out \in Seq(ToSet(out)) /\ (skipped < Offset => out = <<>>)
      /\ \A k \in DOMAIN out : out[k] = Deduplicated(all)[Offset + k]
      /\ Cardinality(NewTo(all, c + 1)) = m
  BY <1>1, <1>2, PassingCounts
<1>4. seen' = IF query.distinct THEN seen \cup {EncodedRow(all[c + 1])} ELSE seen
  <2>1. Projected(Current) = all[c + 1]
    BY <1>2, PassingIsNew
  <2>2. EncodedRow(all[c + 1]) \in seen
    BY <2>1, <1>1 DEF Repeated
  <2> QED
    BY <2>2, <1>1
<1>5. TypeOK'
  BY <1>1, SameTypes DEF TypeOK
<1>6. Returning'
  <2>1. /\ skipped' \in Nat /\ out' \in Seq(ToSet(out')) /\ (skipped' < Offset => out' = <<>>)
        /\ \A k \in DOMAIN out' : out'[k] = Deduplicated(all)[Offset + k]
        /\ skipped' + Len(out') = Cardinality(NewTo(all, c + 1))
    BY <1>1, <1>3
  <2> QED
    BY <2>1, <1>2, <1>4, PassingKeepsReturning
<1>7. Feeding' /\ Grouping' /\ Sorting' /\ HeapHoldsFirst' /\ GroupsAreExact'
  BY <1>1, StreamKeeps
<1>8. pc' # "done"
  BY <1>1 DEF Streams
<1> QED
  BY <1>5, <1>6, <1>7, <1>8, IInvOfParts

LEMMA LimitSkipsIInv == ASSUME IInv, LimitSkips PROVE IInv'
<1>1. /\ TypeOK /\ Feeding /\ Grouping /\ GroupsAreExact /\ Returning /\ Streams /\ ~Repeated
      /\ query \in Query /\ skipped < Offset /\ skipped' = skipped + 1 /\ Remember
      /\ UNCHANGED <<query, input, raw, groups, items, seq, out, pc>>
  BY PartsOfIInv DEF LimitSkips
<1> DEFINE top == Top
           all == OfAll(top)
           n == Len(Below)
           r == Reach
           c == Through
<1>2. Passing(top, all, n, r, c)
  BY <1>1 DEF Passing
<1> HIDE DEF top, all, n, r, c
<1> DEFINE m == skipped + Len(out)
<1>3. skipped \in Nat /\ out = <<>> /\ Len(out) \in Nat /\ Cardinality(NewTo(all, c + 1)) = m + 1
  BY <1>1, <1>2, PassingCounts
<1>4. seen' = IF query.distinct THEN seen \cup {EncodedRow(all[c + 1])} ELSE seen
  <2>1. Projected(Current) = all[c + 1]
    BY <1>2, PassingIsNew
  <2> QED
    BY <2>1, <1>1 DEF Remember
<1>5. Offset \in Nat
  BY <1>1, QueryFacts
<1>6. skipped' \in 0 .. Offset /\ skipped' \in Nat
  BY <1>1, <1>3, <1>5
<1>7. TypeOK'
  <2>1. /\ Count' = Count /\ Offset' = Offset /\ SortLimit' = SortLimit
        /\ Len(input') = Len(input) /\ Len(out') = Len(out) /\ Cardinality(items') = Cardinality(items)
    BY <1>1, SameQuery
  <2> QED
    BY <2>1, <1>1, <1>6 DEF TypeOK
<1>8. Returning'
  <2>1. out' = <<>> /\ out' \in Seq(ToSet(out')) /\ DOMAIN out' = {}
    BY <1>1, <1>3
  <2>2. skipped' + Len(out') = Cardinality(NewTo(all, c + 1))
    BY <1>1, <1>3
  <2>3. \A k \in DOMAIN out' : out'[k] = Deduplicated(all)[Offset + k]
    BY <2>1
  <2> QED
    BY <2>1, <2>2, <2>3, <1>2, <1>4, <1>6, PassingKeepsReturning
<1>9. Feeding' /\ Grouping' /\ Sorting' /\ HeapHoldsFirst' /\ GroupsAreExact'
  BY <1>1, StreamKeeps
<1>10. pc' # "done"
  BY <1>1 DEF Streams
<1> QED
  BY <1>7, <1>8, <1>9, <1>10, IInvOfParts

LEMMA ReturnedIInv == ASSUME IInv, Returned PROVE IInv'
<1> DEFINE x == Projected(Current)
<1>1. /\ TypeOK /\ Feeding /\ Grouping /\ GroupsAreExact /\ Returning /\ Streams /\ ~Repeated
      /\ query \in Query /\ skipped = Offset /\ out' = Append(out, x) /\ Remember
      /\ UNCHANGED <<query, input, raw, groups, items, seq, skipped, pc>>
  BY PartsOfIInv DEF Returned
<1> DEFINE top == Top
           all == OfAll(top)
           n == Len(Below)
           r == Reach
           c == Through
<1>2. Passing(top, all, n, r, c)
  BY <1>1 DEF Passing
<1>3. seen' = IF query.distinct THEN seen \cup {EncodedRow(x)} ELSE seen
  BY <1>1 DEF Remember
<1> HIDE DEF top, all, n, r, c
<1>4. x = all[c + 1]
  BY <1>2, PassingIsNew
<1> HIDE DEF x
<1> DEFINE m == skipped + Len(out)
<1>5. /\ skipped \in Nat /\ out \in Seq(ToSet(out)) /\ Len(out) \in Nat
      /\ \A k \in DOMAIN out : out[k] = Deduplicated(all)[Offset + k]
      /\ Cardinality(NewTo(all, c + 1)) = m + 1 /\ Deduplicated(all)[m + 1] = x
  BY <1>1, <1>2, <1>4, PassingCounts
<1> HIDE DEF m
<1>6. /\ Len(out') = Len(out) + 1 /\ out' \in Seq(ToSet(out'))
      /\ \A k \in DOMAIN out' : (k \in DOMAIN out /\ out'[k] = out[k]) \/ (k = Len(out) + 1 /\ out'[k] = x)
  <2>1. out \in Seq(ToSet(out))
    BY <1>5
  <2>2. Longer(Append(out, x), out, x)
    BY <2>1, OneMore
  <2>3. Longer(out', out, x)
    BY <2>2, <1>1
  <2> QED
    BY <2>3 DEF Longer
<1>7. m + 1 = skipped + (Len(out) + 1) /\ m + 1 = Offset + (Len(out) + 1)
  BY <1>1, <1>5 DEF m
<1>8. TypeOK'
  <2>1. /\ Count' = Count /\ Offset' = Offset /\ SortLimit' = SortLimit
        /\ Len(input') = Len(input) /\ Cardinality(items') = Cardinality(items)
    BY <1>1, SameQuery
  <2>2. Count >= 0 => ~(Len(out) >= Count)
    BY <1>1 DEF Streams, Pull, Full
  <2>3. Count \in Int
    BY <1>1, QueryFacts
  <2>4. Count >= 0 => Len(out') <= Count
    BY <2>2, <2>3, <1>5, <1>6
  <2> QED
    BY <2>1, <2>4, <1>1 DEF TypeOK
<1>9. Returning'
  <2>1. skipped' \in Nat /\ ~(skipped' < Offset)
    BY <1>1, <1>5
  <2>2. skipped' + Len(out') = Cardinality(NewTo(all, c + 1))
    BY <1>1, <1>5, <1>6, <1>7
  <2>3. \A k \in DOMAIN out' : out'[k] = Deduplicated(all)[Offset + k]
    BY <1>5, <1>6, <1>7
  <2>4. seen' = IF query.distinct THEN seen \cup {EncodedRow(all[c + 1])} ELSE seen
    BY <1>3, <1>4
  <2> QED
    BY <2>1, <2>2, <2>3, <2>4, <1>2, <1>6, PassingKeepsReturning
<1>10. Feeding' /\ Grouping' /\ Sorting' /\ HeapHoldsFirst' /\ GroupsAreExact'
  BY <1>1, StreamKeeps
<1>11. pc' # "done"
  BY <1>1 DEF Streams
<1> QED
  BY <1>8, <1>9, <1>10, <1>11, IInvOfParts

-----------------------------------------------------------------------------
(***************************************************************************)
(* The end of a statement.                                                 *)
(***************************************************************************)
\* At the end the client has the answer, whether the rows or the LIMIT ended.
LEMMA EndIsAnswer ==
  ASSUME IInv, pc # "done", Full \/ (pc = "stream" /\ feed = <<>>), InOrder
  PROVE  out = AnswerByKey
<1>1. /\ TypeOK /\ Feeding /\ Grouping /\ Returning /\ GroupsAreExact
  BY PartsOfIInv
<1>2. CASE pc \in {"aggregate", "sort"}
  <2>1. skipped = 0 /\ out = <<>> /\ Full
    BY <1>1, <1>2 DEF Returning
  <2> QED
    BY <2>1, <1>1, NoneAreWanted
<1>3. CASE pc = "stream"
  <2>1. out = Windowed(Deduplicated(OfAll(Top)))
    BY <1>1, <1>3, WindowThrough
  <2>2. IsGrouped => GroupsRead
    <3>1. IsGrouped => ~raw
      BY <1>1, <1>3 DEF Feeding
    <3>2. IsGrouped => Taken = Kept
      <4> DEFINE n == Cardinality(Kept)
      <4> HIDE DEF n
      <4>1. n = Cardinality(Kept)
        BY DEF n
      <4>2. (raw => feed = <<>>) => Taken = Kept
        BY <4>1, <1>1, TakenIs
      <4> QED
        BY <4>2, <3>1
    <3> QED
      BY <3>2, <1>1, <1>3 DEF GroupsRead
  <2>3. OfAll(Top) = OfAll(Sorted(IF IsGrouped THEN GroupsOf(Kept) ELSE Wanted))
    BY <2>2, <1>1, TopMeans
  <2> QED
    BY <2>1, <2>3 DEF AnswerByKey
<1> QED
  BY <1>1, <1>2, <1>3 DEF TypeOK

LEMMA EndIInv == ASSUME IInv, End PROVE IInv'
<1>1. /\ TypeOK /\ Feeding /\ Grouping /\ Sorting /\ Returning /\ pc # "done" /\ pc' = "done"
      /\ Full \/ (pc = "stream" /\ feed = <<>>)
      /\ UNCHANGED <<query, input, feed, raw, groups, items, seq, seen, skipped, out>>
  BY PartsOfIInv DEF End
<1>2. TypeOK'
  BY <1>1, SameTypes DEF TypeOK
<1>3. Feeding'
  BY <1>1 DEF Feeding
<1>4. Grouping' /\ Sorting'
  BY <1>1, SameGrouping, SameSorting
<1>5. Returning'
  BY <1>1 DEF Returning
<1>6. HeapHoldsFirst' /\ GroupsAreExact'
  BY <1>1 DEF HeapHoldsFirst, GroupsAreExact
<1>7. EncodingsDecide'
  <2>1. InOrder => out = AnswerByKey
    BY <1>1, EndIsAnswer
  <2>2. AnswerByKey' = AnswerByKey /\ (InOrder' <=> InOrder)
    BY <1>1, SameAnswer
  <2> QED
    BY <2>1, <2>2, <1>1 DEF EncodingsDecide
<1> QED
  BY <1>2, <1>3, <1>4, <1>5, <1>6, <1>7 DEF IInv, Working

LEMMA StutterIInv == ASSUME IInv, UNCHANGED vars PROVE IInv'
<1>1. /\ TypeOK /\ Feeding /\ Grouping /\ Sorting /\ Returning /\ HeapHoldsFirst /\ GroupsAreExact
      /\ EncodingsDecide
      /\ UNCHANGED <<query, input, feed, raw, groups, items, seq, seen, skipped, out, pc>>
  BY PartsOfIInv DEF vars, IInv
<1>2. Below' = Below /\ Top' = Top /\ Reach' = Reach
  BY <1>1, SameTop
<1>3. Taken' = Taken
  <2>1. Kept' = Kept
    BY <1>1, SameKept
  <2> QED
    BY <2>1, <1>1 DEF Taken
<1>4. Fed' = Fed /\ Through' = Through
  BY <1>1, <1>2, <1>3 DEF Fed, Through
<1>5. TypeOK'
  BY <1>1, SameTypes DEF TypeOK
<1>6. Feeding'
  BY <1>1, <1>2, <1>4, SameQuery DEF Feeding
<1>7. Grouping' /\ HeapHoldsFirst'
  BY <1>1, <1>4, SameGrouping, SameHeap
<1>8. Sorting'
  <2>1. pc = "sort" => seq = Fed
    BY <1>1 DEF Sorting
  <2> QED
    BY <2>1, <1>1, <1>4, SameSorting
<1>9. GroupsAreExact'
  <2>1. CASE pc = "done"
    BY <2>1, <1>1 DEF GroupsAreExact
  <2>2. CASE pc # "done"
    BY <2>2, <1>1, <1>3, SameGroups
  <2> QED
    BY <2>1, <2>2
<1>10. Returning'
  <2>1. /\ OfAll(Top)' = OfAll(Top) /\ News(OfAll(Top))' = News(OfAll(Top))
        /\ Deduplicated(OfAll(Top))' = Deduplicated(OfAll(Top))
    BY <1>1, SameShown
  <2>2. Offset' = Offset
    BY <1>1, SameQuery
  <2> QED
    BY <2>1, <2>2, <1>1, <1>2, <1>4 DEF Returning
<1>11. EncodingsDecide'
  <2>1. AnswerByKey' = AnswerByKey /\ (InOrder' <=> InOrder)
    BY <1>1, SameAnswer
  <2> QED
    BY <2>1, <1>1 DEF EncodingsDecide
<1> QED
  BY <1>5, <1>6, <1>7, <1>8, <1>9, <1>10, <1>11 DEF IInv, Working

LEMMA StepIInv == ASSUME IInv, [Next]_vars PROVE IInv'
<1>1. CASE UNCHANGED vars
  BY <1>1, StutterIInv
<1>2. CASE FilterDrops
  BY <1>2, FilterDropsIInv
<1>3. CASE AggregateRow
  BY <1>3, AggregateRowIInv
<1>4. CASE AggregateDone
  BY <1>4, AggregateDoneIInv
<1>5. CASE SortRow
  BY <1>5, SortRowIInv
<1>6. CASE SortDone
  BY <1>6, SortDoneIInv
<1>7. CASE DistinctDrops
  BY <1>7, DistinctDropsIInv
<1>8. CASE LimitSkips
  BY <1>8, LimitSkipsIInv
<1>9. CASE Returned
  BY <1>9, ReturnedIInv
<1>10. CASE End
  BY <1>10, EndIInv
<1> QED
  BY <1>1, <1>2, <1>3, <1>4, <1>5, <1>6, <1>7, <1>8, <1>9, <1>10 DEF Next

-----------------------------------------------------------------------------
(***************************************************************************)
(* Values told apart by types.Order, and by their encodings.               *)
(***************************************************************************)
\* What one of the columns "a" and "b" holds, or an aggregation: a value of one
\* kind, of which Equal is an equivalence.
LEMMA EqualToItself ==
  ASSUME NEW kind \in {"BOOL", "INT", "FLOAT", "TEXT"}, NEW x \in ValuesOf(kind) \cup {Null}
  PROVE  Equal(x, x)
<1>1. Before(x, x) => ~Before(x, x)
  BY WeakOrder
<1> QED
  BY <1>1 DEF Equal

\* Nothing the statement tells apart by "a" is equal and encoded apart.
ByA == query.shape.group = "a" \/ (query.distinct /\ "a" \in ToSet(Select))

LEMMA EqualIsSame ==
  ASSUME Feeding, ~EncodedApart, ByA, NEW i \in Kept, NEW j \in Kept
  PROVE  Equal(input[i].a, input[j].a) <=> input[i].a = input[j].a
<1>1. PICK kind \in {"BOOL", "INT", "FLOAT", "TEXT"} : ValuesOfA \subseteq ValuesOf(kind) \cup {Null}
  BY ValuesOfAAssumption
<1>2. input[i].a \in ValuesOf(kind) \cup {Null}
  BY <1>1, KeptIs
<1>3. Equal(input[i].a, input[i].a)
  BY <1>2, EqualToItself
<1>4. Equal(input[i].a, input[j].a) => input[i].a = input[j].a
  BY DEF EncodedApart, ByA
<1> QED
  BY <1>3, <1>4

\* A group begins at the first row with its value.
LEMMA FirstOfGroup ==
  ASSUME Feeding, ~EncodedApart, ByA,
         NEW firsts, firsts = {i \in Kept : \A j \in Kept : j < i => ~Equal(input[j].a, input[i].a)}
  PROVE  {input[i].a : i \in firsts} = {input[i].a : i \in Kept}
<1> SUFFICES ASSUME NEW i \in Kept PROVE \E k \in firsts : input[k].a = input[i].a
  OBVIOUS
<1> DEFINE T == {j \in Kept : input[j].a = input[i].a}
<1>1. T \in SUBSET Nat /\ T # {}
  <2>1. \A j \in Kept : j \in Nat
    <3>1. Kept \in SUBSET (1 .. Len(input)) /\ Len(input) \in Nat
      BY KeptIs
    <3> HIDE DEF T
    <3> QED
      BY <3>1
  <2>2. i \in T
    OBVIOUS
  <2> QED
    BY <2>1, <2>2
<1>2. PICK k \in T : \A j \in T : k <= j
  <2> HIDE DEF T
  <2> QED
    BY <1>1, LeastNatural
<1>3. k \in Kept /\ input[k].a = input[i].a
  OBVIOUS
<1>4. ASSUME NEW j \in Kept, j < k, Equal(input[j].a, input[k].a) PROVE FALSE
  <2>1. input[j].a = input[k].a
    BY <1>3, <1>4, EqualIsSame
  <2>2. j \in T /\ k \in T
    BY <2>1, <1>3
  <2>3. j \in Nat /\ k \in Nat /\ k <= j
    BY <2>2, <1>1, <1>2
  <2> QED
    BY <2>3, <1>4
<1> QED
  BY <1>3, <1>4

\* Groups ascend by value, whether or not encodings decide among equals.
LEMMA SameAscent ==
  ASSUME NEW V \in SUBSET ValuesOfA, IsFiniteSet(V), \A x, y \in V : Equal(x, y) <=> x = y
  PROVE  /\ Ascending(V, Before) = Ascending(V, ByValue)
         /\ Ascending(V, ByValue) \in [1 .. Cardinality(V) -> V]
<1> DEFINE n == Cardinality(V)
           R == ValuesOn(V)
           s == Ascending(V, Before)
           u == Ascending(V, ByValue)
<1>1. PICK kind \in {"BOOL", "INT", "FLOAT", "TEXT"} :
         ValuesOfA \subseteq ValuesOf(kind) \cup {Null} /\ \A v \in ValuesOfA : IsValue(v) /\ Encode(v) \in Bytes
  BY ColumnValues
<1>2. \A x, y \in V : ByValue(x, y) <=> Before(x, y)
  <2> SUFFICES ASSUME NEW x \in V, NEW y \in V, ~Before(x, y), ~Before(y, x)
               PROVE  ~BytesBefore(Encode(x), Encode(y))
    BY DEF ByValue
  <2>1. x = y
    BY DEF Equal
  <2>2. Encode(x) \in Bytes
    BY <1>1
  <2> QED
    BY <2>1, <2>2, BytesIrreflexive
<1>3. \A x, y \in V : <<x, y>> \in R <=> Before(x, y)
  BY <1>2 DEF ValuesOn
<1>4. Ranks(R, V)
  <2>1. ASSUME NEW x \in V, NEW y \in V, NEW z \in V
        PROVE  /\ Before(x, y) => ~Before(y, x)
               /\ Before(x, z) => Before(x, y) \/ Before(y, z)
    <3>1. x \in ValuesOf(kind) \cup {Null} /\ y \in ValuesOf(kind) \cup {Null} /\ z \in ValuesOf(kind) \cup {Null}
      BY <1>1
    <3> QED
      BY <3>1, WeakOrder
  <2>2. \A x \in V : ~Before(x, x)
    BY <2>1
  <2>3. \A x, y \in V : x = y \/ Before(x, y) \/ Before(y, x)
    BY DEF Equal
  <2>4. ASSUME NEW x \in V, NEW y \in V, NEW z \in V, Before(x, y), Before(y, z) PROVE Before(x, z)
    BY <2>1, <2>4
  <2> HIDE DEF R
  <2> QED
    BY <1>3, <2>2, <2>3, <2>4 DEF Ranks
<1>5. PICK t : Arranges(t, R, V)
  BY <1>4, ArrangementExists
<1> HIDE DEF R
<1>6. t \in [1 .. n -> V] /\ \A i, j \in DOMAIN t : i < j => Before(t[i], t[j]) /\ ByValue(t[i], t[j])
  BY <1>2, <1>3, <1>5 DEF Arranges
<1>7. s \in [1 .. n -> V] /\ \A i, j \in DOMAIN s : i < j => Before(s[i], s[j])
  BY <1>6 DEF Ascending
<1>8. u \in [1 .. n -> V] /\ \A i, j \in DOMAIN u : i < j => ByValue(u[i], u[j])
  BY <1>6 DEF Ascending
<1>9. Arranges(s, R, V)
  BY <1>3, <1>7 DEF Arranges
<1>10. Arranges(u, R, V)
  BY <1>2, <1>3, <1>8 DEF Arranges
<1> HIDE DEF s, u
<1>11. s = u
  BY <1>4, <1>9, <1>10, OneArrangement
<1> QED
  BY <1>8, <1>11 DEF s, u

\* Groups are the same by either.
LEMMA GroupsAgree ==
  ASSUME TypeOK, Feeding, IsGrouped, ~EncodedApart
  PROVE  Groups(Kept) = GroupsOf(Kept)
<1>1. query.shape.group \in {"a", "all"}
  BY QueryFacts DEF IsGrouped, TypeOK
<1>2. CASE query.shape.group = "all"
  BY <1>2 DEF Groups, GroupsOf
<1>3. CASE query.shape.group = "a"
  <2> DEFINE firsts == {i \in Kept : \A j \in Kept : j < i => ~Equal(input[j].a, input[i].a)}
             V == {input[i].a : i \in Kept}
             W == {input[i].a : i \in firsts}
             s == Ascending(V, ByValue)
             u == Ascending(W, Before)
             One(v) == Result([value |-> v, acc |-> Summary(input, {i \in Kept : Equal(input[i].a, v)})])
             Two(v) == Result([value |-> v, acc |-> Summary(input, {i \in Kept : input[i].a = v})])
  <2>1. ByA
    BY <1>3 DEF ByA
  <2>2. W = V
    BY <2>1, FirstOfGroup
  <2>3. V \in SUBSET ValuesOfA /\ IsFiniteSet(V)
    <3>1. IsFiniteSet(Kept) /\ \A i \in Kept : input[i].a \in ValuesOfA
      BY KeptIs
    <3> DEFINE f == [i \in Kept |-> input[i].a]
    <3>2. f \in Surjection(Kept, V)
      BY DEF Surjection
    <3>3. V \in SUBSET ValuesOfA
      BY <3>1
    <3> HIDE DEF f, V
    <3> QED
      BY <3>1, <3>2, <3>3, FS_Surjection
  <2>4. \A x, y \in V : Equal(x, y) <=> x = y
    BY <2>1, EqualIsSame
  <2>5. u = s
    <3> HIDE DEF V, W
    <3> QED
      BY <2>2, <2>3, <2>4, SameAscent
  <2>6. \A v \in V : One(v) = Two(v)
    <3> SUFFICES ASSUME NEW k \in Kept PROVE One(input[k].a) = Two(input[k].a)
      OBVIOUS
    <3>1. \A i \in Kept : Equal(input[i].a, input[k].a) <=> input[i].a = input[k].a
      BY <2>1, EqualIsSame
    <3>2. {i \in Kept : Equal(input[i].a, input[k].a)} = {i \in Kept : input[i].a = input[k].a}
      BY <3>1
    <3> QED
      BY <3>2
  <2>7. Groups(Kept) = [k \in DOMAIN u |-> One(u[k])]
    BY <1>3 DEF Groups
  <2>8. GroupsOf(Kept) = [k \in DOMAIN s |-> Two(s[k])]
    BY <1>3 DEF GroupsOf
  <2>9. \A k \in DOMAIN s : s[k] \in V
    <3> HIDE DEF V
    <3>1. s \in [1 .. Cardinality(V) -> V]
      BY <2>3, <2>4, SameAscent
    <3> QED
      BY <3>1
  <2> HIDE DEF s, u, V, W, One, Two
  <2> QED
    BY <2>5, <2>6, <2>7, <2>8, <2>9
<1> QED
  BY <1>1, <1>2, <1>3

\* The aggregates of rows of the scan are integers or NULL.
LEMMA SummaryValues ==
  ASSUME TypeOK, Feeding, NEW P \in SUBSET Kept
  PROVE  /\ Value("INT", Summary(input, P).rows) \in ValuesOf("INT")
         /\ Value("INT", Summary(input, P).count) \in ValuesOf("INT")
         /\ \A c \in {"sum", "min", "max"} : Summary(input, P)[c] \in ValuesOf("INT") \cup {Null}
<1>1. /\ IsFiniteSet(Kept) /\ \A i \in Kept : input[i].b \in ValuesOf("INT") \cup {Null}
  BY KeptIs, RowFacts
<1>2. ASSUME NEW n, IsValue(Value("INT", n)) PROVE Value("INT", n) \in ValuesOf("INT")
  BY <1>2 DEF IsValue, Value, Null, ValuesOf
<1>3. /\ Value("INT", Summary(input, P).rows) \in ValuesOf("INT")
      /\ Value("INT", Summary(input, P).count) \in ValuesOf("INT")
  BY <1>2, CountsAreValues
<1>4. Summary(input, P).sum \in ValuesOf("INT") \cup {Null}
  <2>1. IsFiniteSet(P)
    BY <1>1, PartsAreFinite
  <2> QED
    BY <2>1, <1>1, SumOfIntegers
<1>5. Summary(input, P).min \in ValuesOf("INT") \cup {Null} /\ Summary(input, P).max \in ValuesOf("INT") \cup {Null}
  <2> DEFINE S == Present(input, P)
             Q == Values(input, P)
  <2>1. Q \subseteq ValuesOf("INT") /\ (S # {} => Q # {})
    BY <1>1 DEF Present, Values
  <2>2. /\ Summary(input, P).min = IF S = {} THEN Null ELSE LeastOf(Q)
        /\ Summary(input, P).max = IF S = {} THEN Null ELSE MostOf(Q)
    BY SummaryIs
  <2> HIDE DEF S, Q
  <2>3. Q # {} => LeastOf(Q) \in Q /\ MostOf(Q) \in Q
    BY <2>1, ExtremesExist
  <2> QED
    BY <2>1, <2>2, <2>3
<1> QED
  BY <1>3, <1>4, <1>5

\* What a column that is selected shows: a value of the column "a", or an
\* integer.
ShowsValue(c, v) ==
  IF c = "a" THEN \E i \in Kept : v = input[i].a ELSE v \in ValuesOf("INT") \cup {Null}

LEMMA ResultShows ==
  ASSUME TypeOK, Feeding, IsGrouped, NEW v, NEW P \in SUBSET Kept, NEW i \in 1 .. Len(Select),
         query.shape.group = "a" => \E k \in Kept : v = input[k].a
  PROVE  ShowsValue(Select[i], Result([value |-> v, acc |-> Summary(input, P)])[Select[i]])
<1> DEFINE c == Select[i]
           g == [value |-> v, acc |-> Summary(input, P)]
<1>1. /\ c \in {"a", "rows", "count", "sum", "min", "max"}
      /\ c = "a" => query.shape.group = "a"
  <2>1. query \in Query /\ query.shape.group \in {"a", "all"}
    BY QueryFacts DEF IsGrouped, TypeOK
  <2> QED
    BY <2>1, SelectIs
<1>2. g.value = v /\ g.acc = Summary(input, P)
  OBVIOUS
<1>3. /\ Value("INT", g.acc.rows) \in ValuesOf("INT") /\ Value("INT", g.acc.count) \in ValuesOf("INT")
      /\ g.acc.sum \in ValuesOf("INT") \cup {Null} /\ g.acc.min \in ValuesOf("INT") \cup {Null}
      /\ g.acc.max \in ValuesOf("INT") \cup {Null}
  BY <1>2, SummaryValues
<1> HIDE DEF c, g
<1>4. /\ Result(g)["a"] = g.value /\ Result(g)["rows"] = Value("INT", g.acc.rows)
      /\ Result(g)["count"] = Value("INT", g.acc.count) /\ Result(g)["sum"] = g.acc.sum
      /\ Result(g)["min"] = g.acc.min /\ Result(g)["max"] = g.acc.max
  BY ResultColumns
<1>5. c = "a" => \E k \in Kept : Result(g)[c] = input[k].a
  BY <1>1, <1>2, <1>4
<1>6. c # "a" => Result(g)[c] \in ValuesOf("INT") \cup {Null}
  <2>1. CASE c = "rows"
    BY <2>1, <1>3, <1>4
  <2>2. CASE c = "count"
    BY <2>2, <1>3, <1>4
  <2>3. CASE c \in {"sum", "min", "max"}
    BY <2>3, <1>3, <1>4
  <2> QED
    BY <2>1, <2>2, <2>3, <1>1
<1> QED
  BY <1>5, <1>6 DEF ShowsValue, c, g

\* The rows to be sorted, and what they show.
LEMMA RowsShow ==
  ASSUME TypeOK, Feeding, InOrder, NEW below, below = IF IsGrouped THEN GroupsOf(Kept) ELSE Wanted
  PROVE  \E n \in Nat : /\ Indexed(below, n) /\ (Order # NoOrder => Sortable(below, n))
                        /\ \A k \in 1 .. n : \A i \in 1 .. Len(Select) : ShowsValue(Select[i], below[k][Select[i]])
<1>1. query \in Query
  BY DEF TypeOK
<1>2. CASE ~IsGrouped
  <2> DEFINE n == Cardinality(Kept)
             e == InARow(Kept)
  <2> HIDE DEF n, e
  <2>1. /\ n \in Nat /\ e \in [1 .. n -> Kept] /\ Indexed(below, n)
        /\ \A k \in 1 .. n : below[k] = input[e[k]] /\ below[k] \in Row
    BY <1>2, WantedIs DEF n, e
  <2>2. Order # NoOrder => Sortable(below, n)
    BY <1>1, <1>2, WantedSortable DEF n
  <2>3. ASSUME NEW k \in 1 .. n, NEW i \in 1 .. Len(Select) PROVE ShowsValue(Select[i], below[k][Select[i]])
    <3>1. Select[i] \in {"a", "b"}
      BY <1>1, <1>2, SelectIs
    <3>2. below[k]["a"] = input[e[k]].a /\ e[k] \in Kept
      BY <2>1
    <3>3. below[k]["b"] \in ValuesOf("INT") \cup {Null}
      BY <2>1, RowFacts
    <3>4. CASE Select[i] = "a"
      BY <3>2, <3>4 DEF ShowsValue
    <3>5. CASE Select[i] = "b"
      BY <3>3, <3>5 DEF ShowsValue
    <3> QED
      BY <3>1, <3>4, <3>5
  <2> QED
    BY <2>1, <2>2, <2>3
<1>3. CASE IsGrouped
  <2> DEFINE n == Len(below)
  <2>1. n \in Nat /\ Indexed(below, n) /\ (Order # NoOrder => Sortable(below, n))
    BY <1>3, GroupsAreRows
  <2>2. query.shape.group \in {"a", "all"}
    BY <1>1, <1>3, QueryFacts DEF IsGrouped
  <2>3. CASE query.shape.group = "all"
    <3> DEFINE r == Result([value |-> Null, acc |-> Summary(input, Kept)])
    <3>1. \A i \in 1 .. Len(Select) : ShowsValue(Select[i], r[Select[i]])
      BY <2>3, <1>3, ResultShows
    <3>2. below = <<r>>
      BY <2>3, <1>3 DEF GroupsOf
    <3> HIDE DEF r
    <3>3. n = 1 /\ \A k \in 1 .. n : below[k] = r
      BY <3>2
    <3> QED
      BY <2>1, <3>1, <3>3
  <2>4. CASE query.shape.group = "a"
    <3> DEFINE V == {input[i].a : i \in Kept}
               s == Ascending(V, ByValue)
               Members(v) == {i \in Kept : input[i].a = v}
               Group(v) == Result([value |-> v, acc |-> Summary(input, Members(v))])
    <3>1. below = [k \in DOMAIN s |-> Group(s[k])]
      BY <2>4, <1>3 DEF GroupsOf
    <3>2. s \in [1 .. Cardinality(V) -> V]
      <4>1. IsFiniteSet(Kept) /\ \A i \in Kept : input[i].a \in ValuesOfA
        BY KeptIs
      <4> DEFINE f == [i \in Kept |-> input[i].a]
      <4>2. f \in Surjection(Kept, V) /\ V \in SUBSET ValuesOfA
        BY <4>1 DEF Surjection
      <4>3. NegativeNaN \notin V
        <5>1. \A i \in Kept : i \in DOMAIN input
          BY DEF Kept
        <5> QED
          BY <5>1, <2>4 DEF InOrder, NegativeNaN
      <4> HIDE DEF f, V
      <4>4. IsFiniteSet(V)
        BY <4>1, <4>2, FS_Surjection
      <4> QED
        BY <4>2, <4>3, <4>4, ValuesArranged
    <3>3. \A v \in V : \A i \in 1 .. Len(Select) : ShowsValue(Select[i], Group(v)[Select[i]])
      <4> SUFFICES ASSUME NEW v \in V, NEW i \in 1 .. Len(Select) PROVE ShowsValue(Select[i], Group(v)[Select[i]])
        OBVIOUS
      <4>1. \E k \in Kept : v = input[k].a
        OBVIOUS
      <4>2. Members(v) \in SUBSET Kept
        OBVIOUS
      <4> HIDE DEF Members
      <4> QED
        BY <4>1, <4>2, <1>3, ResultShows
    <3> HIDE DEF s, Group, V
    <3>4. n = Len(below) /\ DOMAIN below = 1 .. n
      BY <2>1 DEF Indexed
    <3>5. DOMAIN s = DOMAIN below
      BY <3>1
    <3>6. \A k \in 1 .. n : \E v \in V : below[k] = Group(v)
      BY <3>1, <3>2, <3>4, <3>5
    <3> QED
      BY <2>1, <3>3, <3>6
  <2> QED
    BY <2>2, <2>3, <2>4
<1> QED
  BY <1>2, <1>3

\* A row that shows something else than another shows something that is not
\* equal to what the other does.
LEMMA RowsApart ==
  ASSUME TypeOK, Feeding, ~EncodedApart, query.distinct, NEW x, NEW y,
         \A i \in 1 .. Len(Select) : ShowsValue(Select[i], x[Select[i]]) /\ ShowsValue(Select[i], y[Select[i]])
  PROVE  (\E c \in DOMAIN Projected(y) : ~Equal(Projected(x)[c], Projected(y)[c])) <=> Projected(x) # Projected(y)
<1>1. DOMAIN Select = 1 .. Len(Select) /\ \A i \in 1 .. Len(Select) : Select[i] \in ToSet(Select)
  BY SelectIs DEF TypeOK
<1>2. /\ Projected(x) = [i \in 1 .. Len(Select) |-> x[Select[i]]]
      /\ Projected(y) = [i \in 1 .. Len(Select) |-> y[Select[i]]]
  BY <1>1 DEF Projected
<1>3. ASSUME NEW i \in 1 .. Len(Select)
      PROVE  Equal(x[Select[i]], y[Select[i]]) <=> x[Select[i]] = y[Select[i]]
  <2> DEFINE v == x[Select[i]]
             w == y[Select[i]]
  <2>1. ShowsValue(Select[i], v) /\ ShowsValue(Select[i], w)
    OBVIOUS
  <2>2. CASE Select[i] = "a"
    <3>1. ByA
      BY <1>1, <2>2 DEF ByA
    <3>2. (\E k \in Kept : v = input[k].a) /\ (\E k \in Kept : w = input[k].a)
      BY <2>1, <2>2 DEF ShowsValue
    <3> HIDE DEF v, w
    <3>3. Equal(v, w) <=> v = w
      BY <3>1, <3>2, EqualIsSame
    <3> QED
      BY <3>3 DEF v, w
  <2>3. CASE Select[i] # "a"
    <3>1. v \in ValuesOf("INT") \cup {Null} /\ w \in ValuesOf("INT") \cup {Null}
      BY <2>1, <2>3 DEF ShowsValue
    <3> HIDE DEF v, w
    <3>2. Equal(v, w) <=> v = w
      BY <3>1, TiedIsSame, EqualToItself
    <3> QED
      BY <3>2 DEF v, w
  <2> QED
    BY <2>2, <2>3
<1> QED
  BY <1>2, <1>3

\* Without values that are equal and encoded apart it makes no difference
\* which of the two tells rows apart.
LEMMA AnswersAgree ==
  ASSUME TypeOK, Feeding, InOrder, ~EncodedApart
  PROVE  Answer = AnswerByKey
<1> DEFINE below == IF IsGrouped THEN GroupsOf(Kept) ELSE Wanted
           sorted == Sorted(below)
           rows == OfAll(sorted)
<1>1. (IF IsGrouped THEN Groups(Kept) ELSE Wanted) = below
  BY GroupsAgree
<1>2. Answer = Windowed(Arranged(rows, InARow(Firsts(rows))))
  BY <1>1 DEF Answer
<1>3. AnswerByKey = Windowed(Arranged(rows, InARow(News(rows))))
  BY DEF AnswerByKey, Deduplicated
<1> HIDE DEF below
<1>4. PICK n \in Nat :
         /\ Indexed(below, n) /\ (Order # NoOrder => Sortable(below, n))
         /\ \A k \in 1 .. n : \A i \in 1 .. Len(Select) : ShowsValue(Select[i], below[k][Select[i]])
  BY RowsShow DEF below
<1> HIDE DEF sorted
<1>5. PICK t : sorted = [k \in 1 .. n |-> below[t[k]]] /\ \A k \in 1 .. n : t[k] \in 1 .. n
  <2>1. CASE Order = NoOrder
    <3>1. sorted = below
      BY <2>1 DEF Sorted, sorted
    <3> DEFINE t == [k \in 1 .. n |-> k]
    <3>2. below = [k \in 1 .. n |-> below[t[k]]] /\ \A k \in 1 .. n : t[k] \in 1 .. n
      BY <1>4 DEF Indexed
    <3> QED
      BY <3>1, <3>2
  <2>2. CASE Order # NoOrder
    <3>1. PICK t : SortedBy(t, below, n)
      BY <2>2, <1>4, SortedIs
    <3> QED
      BY <3>1 DEF SortedBy, sorted
  <2> QED
    BY <2>1, <2>2
<1>6. rows = [k \in 1 .. n |-> Projected(below[t[k]])]
  <2>1. DOMAIN sorted = 1 .. n /\ \A k \in 1 .. n : sorted[k] = below[t[k]]
    BY <1>5
  <2> QED
    BY <2>1 DEF OfAll
<1> HIDE DEF rows
<1>7. Firsts(rows) = News(rows)
  <2>1. CASE ~query.distinct
    BY <2>1 DEF Firsts, News
  <2>2. CASE query.distinct
    <3>1. ASSUME NEW i \in 1 .. n, NEW j \in 1 .. n
          PROVE  (\E c \in DOMAIN rows[i] : ~Equal(rows[j][c], rows[i][c])) <=> rows[j] # rows[i]
      <4> DEFINE x == below[t[j]]
                 y == below[t[i]]
      <4>1. \A m \in 1 .. Len(Select) : ShowsValue(Select[m], x[Select[m]]) /\ ShowsValue(Select[m], y[Select[m]])
        BY <1>4, <1>5
      <4>2. rows[j] = Projected(x) /\ rows[i] = Projected(y)
        BY <1>6
      <4> HIDE DEF x, y
      <4> QED
        BY <4>1, <4>2, <2>2, RowsApart
    <3>2. DOMAIN rows = 1 .. n /\ \A i \in 1 .. n : \A j \in 1 .. i - 1 : j \in 1 .. n
      BY <1>6
    <3> QED
      BY <3>1, <3>2 DEF Firsts, News
  <2> QED
    BY <2>1, <2>2
<1> QED
  BY <1>2, <1>3, <1>7

-----------------------------------------------------------------------------
(***************************************************************************)
(* Results.                                                                *)
(***************************************************************************)
\* The inductive invariant: at every row the feed, the buckets, the items and
\* the rows returned are what they should be of the rows so far
\* (operators.go:201-422, aggregate.go:40-274).
THEOREM IInvHolds == Spec => []IInv
<1>1. Init => IInv
  BY InitIInv
<1>2. IInv /\ [Next]_vars => IInv'
  BY StepIInv
<1> QED
  BY <1>1, <1>2, PTL DEF Spec

\* Whatever the statement and however many rows there are, the client gets the
\* rows that come of its groups and its DISTINCT if values are told apart by
\* their encodings, in their order: nothing is lost to a sort that is left out,
\* to a heap that keeps no more than the LIMIT and the OFFSET, to the columns
\* the scan does not decode, or to groups that come in the order of their keys
\* (build.go:195-246, 330-365, operators.go:201-422, aggregate.go:40-274).
THEOREM KeysTellApart == Spec => []EncodingsDecide
<1>1. IInv => EncodingsDecide
  BY DEF IInv
<1> QED
  BY <1>1, IInvHolds, PTL

\* And these are the rows it asks for, which types.Order tells apart, unless
\* what it tells apart are values that are equal and encoded apart
\* (types/value.go:222-256).
THEOREM AnswersAreRight == Spec => []AnswerIsQuery
<1>1. IInv => AnswerIsQuery
  <2> SUFFICES ASSUME IInv, pc = "done", InOrder, ~EncodedApart PROVE out = Answer
    BY DEF AnswerIsQuery
  <2>1. out = AnswerByKey
    BY DEF IInv, EncodingsDecide
  <2>2. TypeOK /\ Feeding
    BY PartsOfIInv
  <2> QED
    BY <2>1, <2>2, AnswersAgree
<1> QED
  BY <1>1, IInvHolds, PTL

\* However far the statement is: the feed is what the operators have left of
\* the rows, and what is returned so far is what DISTINCT and the OFFSET leave
\* of the rows that went through (operators.go:241-383, aggregate.go:55-101).
THEOREM WorkingHolds == Spec => []Working
<1>1. IInv => Working
  BY DEF IInv
<1> QED
  BY <1>1, IInvHolds, PTL

\* A Sort with a limit never holds more items than that, a LIMIT never returns
\* more rows nor an OFFSET drops more (operators.go:272-305, 369-379).
THEOREM TypeCorrect == Spec => []TypeOK
<1>1. IInv => TypeOK
  BY DEF IInv
<1> QED
  BY <1>1, IInvHolds, PTL

\* However many rows there are, what the bounded heap holds is what a sort of
\* all of them would put first, arrival deciding among equals
\* (operators.go:329-379).
THEOREM HeapKeepsFirst == Spec => []HeapHoldsFirst
<1>1. IInv => HeapHoldsFirst
  BY DEF IInv
<1> QED
  BY <1>1, IInvHolds, PTL

\* However many rows there are and in whatever order they come, there is a
\* group for every key and its accumulators are the aggregates of its rows, a
\* sum that wraps on its way included (aggregate.go:129-274).
THEOREM GroupsHoldAggregates == Spec => []GroupsAreExact
<1>1. IInv => GroupsAreExact
  BY DEF IInv
<1> QED
  BY <1>1, IInvHolds, PTL
=============================================================================
