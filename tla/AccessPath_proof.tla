-------------------------- MODULE AccessPath_proof --------------------------
(***************************************************************************)
(* Proofs about planning: the bounds it collects can be written as keys,   *)
(* the rows a scan reads come in the order its path claims, and no scan    *)
(* leaves the keys of its table or index.                                  *)
(***************************************************************************)
EXTENDS AccessPath, KeyCodec_proof

AllKindNames == {"BOOL", "INT", "FLOAT", "TEXT"}

-----------------------------------------------------------------------------
(***************************************************************************)
(* Bounds.                                                                 *)
(***************************************************************************)
LEMMA LiteralsAreValues ==
  ASSUME NEW a \in Literals
  PROVE  /\ a = Null \/ \E x \in AllKindNames : a \in ValuesOf(x)
         /\ a.kind \in AllKindNames => a \in ValuesOf(a.kind)
         /\ a.kind = "NULL" <=> a = Null
<1>1. a = Null \/ \E x \in AllKindNames : a \in ValuesOf(x)
  BY LiteralAssumption DEF AllKindNames
<1>2. \A x \in AllKindNames : a \in ValuesOf(x) => a.kind = x /\ a.kind # "NULL"
  BY ValuesAreValues DEF AllKindNames
<1>3. a = Null => a.kind = "NULL"
  BY DEF Null, Value
<1> QED
  BY <1>1, <1>2, <1>3 DEF AllKindNames

LEMMA WidenedIsFloat ==
  ASSUME NEW a \in ValuesOf("INT")
  PROVE  Widen(a) \in ValuesOf("FLOAT") /\ Widen(a) # NegativeNaN
<1>1. PICK v \in -SignBit .. SignBit - 1 : a = Value("INT", v)
  BY DEF ValuesOf
<1>2. a.kind = "INT" /\ a.v = v
  BY <1>1 DEF Value
<1> DEFINE Nearest(n) == IF n > LargestFinite THEN LargestFinite ELSE n
           w == IF v < 0 THEN SignBit + Nearest(-v) ELSE Nearest(v)
<1>3. w \in Byte /\ w # LastByte
  BY ByteRange DEF LargestFinite
<1>4. Widen(a) = Value("FLOAT", w)
  BY <1>2 DEF Widen
<1> HIDE DEF w
<1> QED
  BY <1>3, <1>4 DEF ValuesOf, Value, NegativeNaN

LEMMA LiteralsAreNumbers == \A a \in Literals : a # NegativeNaN
<1> SUFFICES ASSUME NegativeNaN \in Literals PROVE FALSE
  OBVIOUS
<1>1. NegativeNaN.kind = "FLOAT" /\ NegativeNaN.v = LastByte
  BY DEF NegativeNaN, Value
<1>2. Magnitude(LastByte) <= LargestFinite
  BY <1>1, LiteralAssumption
<1>3. Magnitude(LastByte) = LastByte - SignBit
  BY FloatParts, ByteRange
<1> QED
  BY <1>2, <1>3, ByteRange DEF LargestFinite

LEMMA BoundsAreValues ==
  ASSUME NEW c \in Column, kind \in [Column -> AllKindNames], NEW a \in Literals, CanBound(c, a)
  PROVE  BoundValue(c, a) \in ValuesOf(kind[c]) \ {NegativeNaN}
<1>1. CASE kind[c] = "FLOAT" /\ a.kind = "INT"
  BY <1>1, LiteralsAreValues, WidenedIsFloat DEF BoundValue, AllKindNames
<1>2. CASE ~(kind[c] = "FLOAT" /\ a.kind = "INT")
  <2>1. BoundValue(c, a) = a
    BY <1>2 DEF BoundValue, Widen
  <2>2. a.kind = kind[c] /\ kind[c] \in AllKindNames
    BY <2>1 DEF CanBound
  <2> QED
    BY <2>1, <2>2, LiteralsAreValues, LiteralsAreNumbers
<1> QED
  BY <1>1, <1>2

LEMMA ConjunctParts ==
  ASSUME NEW p \in Conjunct
  PROVE  /\ p.column \in Column
         /\ p.op \in Comparisons \cup {"<>", "BETWEEN"} => p.value \in Literals
         /\ p.op = "BETWEEN" => p.high \in Literals
<1>1. PICK c \in Column :
         \/ p \in [column : {c}, op : Comparisons \cup {"<>"}, flipped : BOOLEAN, value : Comparable(c)]
         \/ p \in [column : {c}, op : {"IS NULL"}]
         \/ p \in [column : {c}, op : {"BETWEEN"}, value : Comparable(c), high : Comparable(c)]
  BY DEF Conjunct
<1>2. Comparable(c) \subseteq Literals
  BY DEF Comparable
<1> HIDE DEF Comparable
<1>3. p.column = c
  BY <1>1
<1> QED
  BY <1>1, <1>2, <1>3 DEF Comparisons

LEMMA FlipType == \A op \in Comparisons : Flip[op] \in Comparisons
BY DEF Flip, Comparisons

LEMMA RangesAreGood ==
  ASSUME kind \in [Column -> AllKindNames], NEW p \in Conjunct, Sargable(p)
  PROVE  GoodRange(p.column, RangeOf(p))
<1>1. p.column \in Column
  BY ConjunctParts
<1>2. CASE p.op \in Comparisons
  <2>1. p.value \in Literals /\ CanBound(p.column, p.value) /\ p.op # "BETWEEN"
    BY <1>2, ConjunctParts DEF Sargable, Comparisons
  <2> DEFINE a == BoundValue(p.column, p.value)
  <2>2. a \in ValuesOf(kind[p.column]) \ {NegativeNaN}
    BY <1>1, <2>1, BoundsAreValues
  <2>3. (IF p.flipped THEN Flip[p.op] ELSE p.op) \in Comparisons
    BY <1>2, FlipType
  <2> HIDE DEF a
  <2>4. \E i \in BOOLEAN :
           RangeOf(p) \in {[lo |-> Bound(a, i), hi |-> NoBound], [lo |-> NoBound, hi |-> Bound(a, i)],
                           [lo |-> Bound(a, i), hi |-> Bound(a, i)]}
    BY <2>1, <2>3 DEF RangeOf, a, Comparisons
  <2> QED
    BY <2>2, <2>4 DEF GoodRange, GoodBound, Bound, NoBound, NegativeNaN
<1>3. CASE p.op = "BETWEEN"
  <2>1. /\ p.value \in Literals /\ CanBound(p.column, p.value)
        /\ p.high \in Literals /\ CanBound(p.column, p.high)
    BY <1>3, ConjunctParts DEF Sargable, Comparisons
  <2> DEFINE a == BoundValue(p.column, p.value)
             b == BoundValue(p.column, p.high)
  <2>2. a \in ValuesOf(kind[p.column]) \ {NegativeNaN} /\ b \in ValuesOf(kind[p.column]) \ {NegativeNaN}
    BY <1>1, <2>1, BoundsAreValues
  <2>3. RangeOf(p) = [lo |-> Bound(a, TRUE), hi |-> Bound(b, TRUE)]
    BY <1>3 DEF RangeOf
  <2> HIDE DEF a, b
  <2> QED
    BY <2>2, <2>3 DEF GoodRange, GoodBound, Bound, NegativeNaN
<1> QED
  BY <1>2, <1>3 DEF Sargable

LEMMA IntersectIsGood ==
  ASSUME NEW c, NEW r, NEW o, GoodRange(c, r), GoodRange(c, o)
  PROVE  GoodRange(c, Intersect(r, o))
<1>1. Intersect(r, o).lo \in {r.lo, o.lo} /\ Intersect(r, o).hi \in {r.hi, o.hi}
  BY DEF Intersect
<1> QED
  BY <1>1 DEF GoodRange

LEMMA UnboundedIsGood == \A c : GoodRange(c, Unbounded)
BY DEF GoodRange, GoodBound, Unbounded, NoBound

-----------------------------------------------------------------------------
(***************************************************************************)
(* The inductive invariant.                                                *)
(***************************************************************************)
LEMMA InitWellFormed == Init => WellFormed
<1> SUFFICES ASSUME Init PROVE WellFormed
  OBVIOUS
<1> USE DEF Init
<1>1. kind \in [Column -> AllKindNames] /\ kind["id"] = "INT"
  BY KindAssumption DEF Column, AllKindNames
<1>2. \E n \in 0 .. 2 : indexes \in [1 .. n -> Column]
  <2>1. CASE indexes = <<>>
    <3>1. indexes \in [1 .. 0 -> Column]
      BY <2>1
    <3> QED
      BY <3>1
  <2>2. CASE indexes = <<"id", "k">>
    <3>1. indexes \in [1 .. 2 -> Column]
      BY <2>2 DEF Column
    <3> QED
      BY <3>1
  <2> QED
    BY <2>1, <2>2
<1>3. where \in Seq(Conjunct) /\ Len(where) = 0 /\ Len(where) <= MaxConjuncts
  BY ConjunctAssumption
<1>4. owners \in [Column -> SUBSET (1 .. Len(where))]
  OBVIOUS
<1>5. DOMAIN ranges = Column /\ \A c \in Column : GoodRange(c, ranges[c])
  BY UnboundedIsGood
<1>6. /\ path.via \in 0 .. Len(indexes) /\ path.consumed \subseteq 1 .. Len(where)
      /\ path.ordersBy = IF path.via = 0 THEN "id" ELSE indexes[path.via]
      /\ GoodRange(path.ordersBy, path.bounds)
  <2>1. path.via = 0 /\ path.consumed = {} /\ path.ordersBy = "id" /\ path.bounds = Unbounded
    BY DEF TableScan
  <2>2. Len(indexes) \in Nat
    BY <1>2
  <2> QED
    BY <2>1, <2>2, UnboundedIsGood
<1> QED
  BY <1>1, <1>2, <1>3, <1>4, <1>5, <1>6 DEF WellFormed, AllKindNames

LEMMA ConjunctNext ==
  ASSUME kind' = kind
  PROVE  Conjunct' = Conjunct
<1>1. \A c : Comparable(c)' = Comparable(c)
  BY DEF Comparable
<1> QED
  BY <1>1 DEF Conjunct

LEMMA PushWellFormed == WellFormed /\ Push => WellFormed'
<1> SUFFICES ASSUME WellFormed, Push PROVE WellFormed'
  OBVIOUS
<1>1. PICK p \in Conjunct :
         /\ Sargable(p)
         /\ where' = Append(where, p)
         /\ ranges' = [ranges EXCEPT ![p.column] = Intersect(@, RangeOf(p))]
         /\ owners' = [owners EXCEPT ![p.column] = @ \cup {Len(where) + 1}]
  BY DEF Push
<1>2. /\ kind' = kind /\ indexes' = indexes /\ path' = path /\ pc' = pc
      /\ Len(where) < MaxConjuncts
  BY DEF Push, schema
<1>3. p.column \in Column /\ Conjunct' = Conjunct
  BY <1>2, ConjunctParts, ConjunctNext
<1>4. where' \in Seq(Conjunct) /\ Len(where') = Len(where) + 1 /\ Len(where) \in Nat /\ Len(where') <= MaxConjuncts
  <2>1. where \in Seq(Conjunct)
    BY DEF WellFormed
  <2> HIDE DEF Conjunct
  <2> QED
    BY <1>1, <1>2, <2>1, ConjunctAssumption
<1>5. owners' \in [Column -> SUBSET (1 .. Len(where'))] /\ path.consumed \subseteq 1 .. Len(where')
  <2>1. \A S \in SUBSET (1 .. Len(where)) : S \cup {Len(where) + 1} \in SUBSET (1 .. Len(where')) /\ S \in SUBSET (1 .. Len(where'))
    <3> SUFFICES ASSUME NEW S \in SUBSET (1 .. Len(where))
                 PROVE  S \cup {Len(where) + 1} \in SUBSET (1 .. Len(where')) /\ S \in SUBSET (1 .. Len(where'))
      OBVIOUS
    <3>1. Len(where) + 1 \in 1 .. Len(where') /\ \A i \in 1 .. Len(where) : i \in 1 .. Len(where')
      BY <1>4
    <3> QED
      BY <3>1
  <2> QED
    BY <1>1, <1>3, <2>1 DEF WellFormed
<1>6. DOMAIN ranges' = Column /\ \A c \in Column : GoodRange(c, ranges'[c])
  <2>1. GoodRange(p.column, RangeOf(p))
    BY <1>1, RangesAreGood DEF WellFormed, AllKindNames
  <2>2. GoodRange(p.column, Intersect(ranges[p.column], RangeOf(p)))
    BY <1>3, <2>1, IntersectIsGood DEF WellFormed
  <2> QED
    BY <1>1, <1>3, <2>2 DEF WellFormed
<1>7. (\A c \in Column : GoodRange(c, ranges[c]))'
  BY <1>2, <1>6 DEF GoodRange, GoodBound
<1>8. GoodRange(path.ordersBy, path.bounds)'
  BY <1>2 DEF WellFormed, GoodRange, GoodBound
<1> QED
  BY <1>2, <1>3, <1>4, <1>5, <1>6, <1>7, <1>8 DEF WellFormed

LEMMA LeaveWellFormed == WellFormed /\ Leave => WellFormed'
<1> SUFFICES ASSUME WellFormed, Leave PROVE WellFormed'
  OBVIOUS
<1>1. PICK p \in Conjunct : where' = Append(where, p)
  BY DEF Leave
<1>2. /\ kind' = kind /\ indexes' = indexes /\ path' = path /\ pc' = pc
      /\ ranges' = ranges /\ owners' = owners /\ Len(where) < MaxConjuncts
  BY DEF Leave, schema
<1>3. Conjunct' = Conjunct
  BY <1>2, ConjunctNext
<1>4. where' \in Seq(Conjunct) /\ Len(where') = Len(where) + 1 /\ Len(where) \in Nat /\ Len(where') <= MaxConjuncts
  <2>1. where \in Seq(Conjunct)
    BY DEF WellFormed
  <2> HIDE DEF Conjunct
  <2> QED
    BY <1>1, <1>2, <2>1, ConjunctAssumption
<1>5. owners \in [Column -> SUBSET (1 .. Len(where'))] /\ path.consumed \subseteq 1 .. Len(where')
  <2>1. \A S \in SUBSET (1 .. Len(where)) : S \in SUBSET (1 .. Len(where'))
    BY <1>4
  <2> QED
    BY <2>1 DEF WellFormed
<1>6. (\A c \in Column : GoodRange(c, ranges[c]))'
  BY <1>2 DEF WellFormed, GoodRange, GoodBound
<1>7. GoodRange(path.ordersBy, path.bounds)'
  BY <1>2 DEF WellFormed, GoodRange, GoodBound
<1> QED
  BY <1>2, <1>3, <1>4, <1>5, <1>6, <1>7 DEF WellFormed

LEMMA PathsAreGood ==
  ASSUME WellFormed, NEW p \in Paths
  PROVE  /\ p.via \in 0 .. Len(indexes) /\ p.consumed \subseteq 1 .. Len(where)
         /\ p.ordersBy = IF p.via = 0 THEN "id" ELSE indexes[p.via]
         /\ GoodRange(p.ordersBy, p.bounds)
<1>1. /\ Len(indexes) \in 0 .. 2 /\ DOMAIN indexes = 1 .. Len(indexes)
      /\ \A n \in 1 .. Len(indexes) : indexes[n] \in Column
  <2>1. PICK n \in 0 .. 2 : indexes \in [1 .. n -> Column]
    BY DEF WellFormed
  <2>2. Len(indexes) = n
    BY <2>1
  <2> QED
    BY <2>1, <2>2
<1>2. CASE p = TableScan
  BY <1>1, <1>2, UnboundedIsGood DEF TableScan
<1>3. CASE p = RangePath(ranges["id"])
  BY <1>1, <1>3 DEF RangePath, WellFormed, Column
<1>4. CASE \E n \in DOMAIN indexes : p = IndexPath(n)
  <2> PICK n \in DOMAIN indexes : p = IndexPath(n)
    BY <1>4
  <2>1. /\ p.via = n /\ p.consumed = owners[indexes[n]] /\ p.ordersBy = indexes[n]
        /\ p.bounds = ranges[indexes[n]] /\ indexes[n] \in Column /\ n \in 1 .. Len(indexes)
    BY <1>1 DEF IndexPath
  <2>2. n \in 0 .. Len(indexes) /\ n # 0
    BY <1>1, <2>1
  <2> QED
    BY <2>1, <2>2 DEF WellFormed
<1> QED
  BY <1>2, <1>3, <1>4 DEF Paths

LEMMA ChooseWellFormed == WellFormed /\ Choose => WellFormed'
<1> SUFFICES ASSUME WellFormed, Choose PROVE WellFormed'
  OBVIOUS
<1>1. path' \in Paths
  BY DEF Choose
<1>2. /\ kind' = kind /\ indexes' = indexes /\ where' = where
      /\ ranges' = ranges /\ owners' = owners /\ pc' = "chosen"
  BY DEF Choose, schema
<1>3. Conjunct' = Conjunct
  BY <1>2, ConjunctNext
<1>4. /\ path'.via \in 0 .. Len(indexes) /\ path'.consumed \subseteq 1 .. Len(where)
      /\ path'.ordersBy = IF path'.via = 0 THEN "id" ELSE indexes[path'.via]
      /\ GoodRange(path'.ordersBy, path'.bounds)
  BY <1>1, PathsAreGood
<1>5. (\A c \in Column : GoodRange(c, ranges[c]))'
  BY <1>2 DEF WellFormed, GoodRange, GoodBound
<1>6. GoodRange(path.ordersBy, path.bounds)'
  BY <1>2, <1>4 DEF GoodRange, GoodBound
<1> QED
  BY <1>2, <1>3, <1>4, <1>5, <1>6 DEF WellFormed

LEMMA StutterWellFormed == WellFormed /\ UNCHANGED vars => WellFormed'
<1> SUFFICES ASSUME WellFormed, UNCHANGED vars PROVE WellFormed'
  OBVIOUS
<1>1. /\ kind' = kind /\ indexes' = indexes /\ where' = where
      /\ ranges' = ranges /\ owners' = owners /\ pc' = pc /\ path' = path
  BY DEF vars, schema
<1>2. Conjunct' = Conjunct
  BY <1>1 DEF Conjunct, Comparable
<1> QED
  BY <1>1, <1>2 DEF WellFormed, GoodRange, GoodBound

LEMMA StaysWellFormed == Spec => []WellFormed
<1>1. WellFormed /\ [Next]_vars => WellFormed'
  BY PushWellFormed, LeaveWellFormed, ChooseWellFormed, StutterWellFormed DEF Next
<1> QED
  BY InitWellFormed, <1>1, PTL DEF Spec

\* The state of the planner stays well formed.
THEOREM TypeCorrect == Spec => []TypeOK
<1>1. WellFormed => TypeOK
  <2> SUFFICES ASSUME WellFormed PROVE TypeOK
    OBVIOUS
  <2>1. indexes \in UNION {[1 .. n -> Column] : n \in 0 .. 2}
    BY DEF WellFormed
  <2>2. DOMAIN where = 1 .. Len(where) /\ \A i \in DOMAIN where : where[i] \in Conjunct
    <3>1. where \in Seq(Conjunct)
      BY DEF WellFormed
    <3> HIDE DEF Conjunct
    <3> QED
      BY <3>1
  <2>3. ASSUME NEW c \in Column, NEW b \in {"lo", "hi"}, ranges[c][b].set
        PROVE  ranges[c][b].value.kind = kind[c]
    <3>1. ranges[c][b].value \in ValuesOf(kind[c])
      BY <2>3 DEF WellFormed, GoodRange, GoodBound
    <3>2. kind[c] \in AllKindNames
      BY DEF WellFormed, AllKindNames
    <3> QED
      BY <3>1, <3>2, ValuesAreValues DEF AllKindNames
  <2> QED
    BY <2>1, <2>2, <2>3 DEF WellFormed, TypeOK
<1> QED
  BY StaysWellFormed, <1>1, PTL

-----------------------------------------------------------------------------
(***************************************************************************)
(* The keys of a scan.                                                     *)
(***************************************************************************)
LEMMA LengthOfCat ==
  ASSUME NEW s \in Bytes, NEW t \in Bytes
  PROVE  Cat(s, t) \in Bytes /\ Len(Cat(s, t)) = Len(s) + Len(t) /\ Len(s) \in Nat /\ Len(t) \in Nat
<1>1. Len(s) \in Nat /\ Len(t) \in Nat
  BY DEF Bytes
<1> QED
  BY <1>1, Concatenation DEF Cat

LEMMA PrefixesAreBytes ==
  ASSUME NEW t \in Byte, NEW i \in Byte
  PROVE  /\ DataPrefix(t) \in Bytes /\ Len(DataPrefix(t)) = 2 /\ DataPrefix(t)[1] = 2
         /\ IndexPrefix(t, i) \in Bytes /\ Len(IndexPrefix(t, i)) = 3 /\ IndexPrefix(t, i)[1] = 3
BY SmallBytes DEF Bytes, DataPrefix, IndexPrefix, PrefixData, PrefixIndex

LEMMA ViaIsByte == WellFormed => path.via \in Byte
<1> SUFFICES ASSUME WellFormed PROVE path.via \in Byte
  OBVIOUS
<1>1. path.via \in 0 .. Len(indexes)
  BY DEF WellFormed
<1>2. PICK n \in 0 .. 2 : indexes \in [1 .. n -> Column]
  BY DEF WellFormed
<1>3. Len(indexes) = n
  BY <1>2
<1>4. path.via \in 0 .. 2
  BY <1>1, <1>3
<1> QED
  BY <1>4, SmallBytes

LEMMA PrefixFacts ==
  ASSUME WellFormed, NEW t \in Byte
  PROVE  /\ Prefix(t) \in Bytes /\ Len(Prefix(t)) \in 2 .. 3
         /\ 1 \in 1 .. Len(Prefix(t)) /\ Prefix(t)[1] # LastByte
<1>1. path.via \in Byte
  BY ViaIsByte
<1>2. Prefix(t) = DataPrefix(t) \/ Prefix(t) = IndexPrefix(t, path.via)
  BY DEF Prefix
<1>3. 2 # LastByte /\ 3 # LastByte
  BY ByteRange
<1> QED
  BY <1>1, <1>2, <1>3, PrefixesAreBytes

LEMMA EncodedTail ==
  ASSUME NEW a, IsValue(a)
  PROVE  Encode(a) \in Bytes /\ Len(Encode(a)) >= 1 /\ Len(Encode(a)) \in Nat /\ Encode(a)[1] < LastByte
<1>1. Encode(a) \in Bytes /\ Len(Encode(a)) >= 1 /\ Encode(a)[1] \in 0 .. 4
  BY EncodeType
<1>2. Len(Encode(a)) \in Nat
  BY <1>1 DEF Bytes
<1>3. \A n \in 0 .. 4 : n < LastByte
  BY ByteRange
<1> QED
  BY <1>1, <1>2, <1>3

\* A range of a table or an index starts inside it.
LEMMA StartInside ==
  ASSUME WellFormed, NEW c \in Column, NEW r, GoodRange(c, r), NEW p \in Bytes
  PROVE  \E u \in Bytes : KeyBytes(r, p).start = Cat(p, u)
<1>1. CASE ~r.lo.set
  <2>1. KeyBytes(r, p).start = p
    BY <1>1 DEF KeyBytes
  <2>2. p = Cat(p, <<>>) /\ <<>> \in Bytes
    BY CatFacts
  <2> QED
    BY <2>1, <2>2
<1>2. CASE r.lo.set
  <2>1. IsValue(r.lo.value)
    BY <1>2, ValuesAreValues DEF GoodRange, GoodBound, WellFormed
  <2> DEFINE e == Encode(r.lo.value)
  <2>2. e \in Bytes /\ Len(e) >= 1 /\ e[1] < LastByte
    BY <2>1, EncodedTail
  <2>3. KeyBytes(r, p).start = IF r.lo.inclusive THEN Cat(p, e) ELSE PrefixEnd(Cat(p, e))
    BY <1>2 DEF KeyBytes, Cat
  <2> HIDE DEF e
  <2> QED
    BY <2>2, <2>3, PrefixEndInside
<1> QED
  BY <1>1, <1>2

\* A range with an upper bound ends inside its table or index.
LEMMA EndInside ==
  ASSUME WellFormed, NEW c \in Column, NEW r, GoodRange(c, r), r.hi.set, NEW p \in Bytes
  PROVE  \E u \in Bytes : KeyBytes(r, p).end = Cat(p, u)
<1>1. IsValue(r.hi.value)
  BY ValuesAreValues DEF GoodRange, GoodBound, WellFormed
<1> DEFINE e == Encode(r.hi.value)
<1>2. e \in Bytes /\ Len(e) >= 1 /\ e[1] < LastByte
  BY <1>1, EncodedTail
<1>3. KeyBytes(r, p).end = IF r.hi.inclusive THEN PrefixEnd(Cat(p, e)) ELSE Cat(p, e)
  BY DEF KeyBytes, Cat
<1> HIDE DEF e
<1> QED
  BY <1>2, <1>3, PrefixEndInside

LEMMA EndIsSome ==
  ASSUME WellFormed, NEW c \in Column, NEW r, GoodRange(c, r), NEW p \in Bytes,
         1 \in 1 .. Len(p), p[1] # LastByte
  PROVE  KeyBytes(r, p).end # <<>>
<1>1. CASE r.hi.set
  <2>1. PICK u \in Bytes : KeyBytes(r, p).end = Cat(p, u)
    BY <1>1, EndInside
  <2>2. Len(Cat(p, u)) = Len(p) + Len(u) /\ Len(p) \in Nat /\ Len(u) \in Nat /\ Len(p) > 0
    BY LengthOfCat
  <2>3. Len(Cat(p, u)) # 0
    BY <2>2
  <2> QED
    BY <2>1, <2>3
<1>2. CASE ~r.hi.set
  <2>1. KeyBytes(r, p).end = PrefixEnd(p)
    BY <1>2 DEF KeyBytes
  <2>2. PICK k \in 1 .. Len(p) : /\ p[k] + 1 \in Byte
                                 /\ PrefixEnd(p) = Cat(SubSeq(p, 1, k - 1), <<p[k] + 1>>)
    BY PrefixEndIs
  <2> DEFINE f == SubSeq(p, 1, k - 1)
             b == <<p[k] + 1>>
  <2>3. f \in Bytes /\ b \in Bytes /\ Len(b) = 1
    BY <2>2 DEF Bytes
  <2>4. PrefixEnd(p) = Cat(f, b)
    BY <2>2
  <2> HIDE DEF f, b
  <2>5. Len(Cat(f, b)) = Len(f) + Len(b) /\ Len(f) \in Nat
    BY <2>3, LengthOfCat
  <2>6. Len(Cat(f, b)) # 0
    BY <2>3, <2>5
  <2> QED
    BY <2>1, <2>4, <2>6
<1> QED
  BY <1>1, <1>2

\* A key between the ends of a range, and no shorter than the prefix of the
\* range's table or index, begins with the prefix.
LEMMA ScanIsInside ==
  ASSUME WellFormed, NEW c \in Column, NEW r, GoodRange(c, r), NEW p \in Bytes, NEW key \in Bytes,
         1 \in 1 .. Len(p), p[1] # LastByte, Len(p) <= Len(key), InScan(key, KeyBytes(r, p))
  PROVE  SubSeq(key, 1, Len(p)) = p
<1>1. ~Splits(key, p)
  <2>1. PICK u \in Bytes : KeyBytes(r, p).start = Cat(p, u)
    BY StartInside
  <2>2. ~BytesBefore(key, Cat(p, u))
    BY <2>1 DEF InScan
  <2> QED
    BY <2>2, NotBefore
<1>2. ~Splits(p, key)
  <2>0. BytesBefore(key, KeyBytes(r, p).end)
    BY EndIsSome DEF InScan
  <2>1. CASE r.hi.set
    <3>1. PICK u \in Bytes : KeyBytes(r, p).end = Cat(p, u)
      BY <2>1, EndInside
    <3> QED
      BY <2>0, <3>1, NotBehind
  <2>2. CASE ~r.hi.set
    <3>1. KeyBytes(r, p).end = PrefixEnd(p)
      BY <2>2 DEF KeyBytes
    <3> QED
      BY <2>0, <3>1, NotBehindEnd
  <2> QED
    BY <2>1, <2>2
<1> QED
  BY <1>1, <1>2, BeginsWith

LEMMA KeysAreBytes ==
  ASSUME NEW t \in Byte, NEW i \in Byte, NEW a, IsValue(a), NEW pk, IsValue(pk)
  PROVE  /\ RowKey(t, a) = Cat(DataPrefix(t), Encode(a))
         /\ IndexKey(t, i, a, pk) = Cat(IndexPrefix(t, i), Cat(Encode(a), Encode(pk)))
         /\ RowKey(t, a) \in Bytes /\ Len(RowKey(t, a)) >= 3
         /\ IndexKey(t, i, a, pk) \in Bytes /\ Len(IndexKey(t, i, a, pk)) >= 3
<1> DEFINE d == DataPrefix(t)
           x == IndexPrefix(t, i)
           e == Encode(a)
           f == Encode(pk)
<1>1. /\ d \in Bytes /\ Len(d) = 2 /\ x \in Bytes /\ Len(x) = 3
      /\ e \in Bytes /\ Len(e) >= 1 /\ f \in Bytes
  BY PrefixesAreBytes, EncodedTail
<1>2. RowKey(t, a) = Cat(d, e) /\ IndexKey(t, i, a, pk) = Cat(Cat(x, e), f)
  BY DEF RowKey, IndexKey, Cat
<1> HIDE DEF d, x, e, f
<1>3. Cat(Cat(x, e), f) = Cat(x, Cat(e, f)) /\ Cat(e, f) \in Bytes
  BY <1>1, CatFacts
<1>4. Cat(d, e) \in Bytes /\ Len(Cat(d, e)) >= 3
  <2>1. Cat(d, e) \in Bytes /\ Len(Cat(d, e)) = Len(d) + Len(e) /\ Len(e) \in Nat
    BY <1>1, LengthOfCat
  <2> QED
    BY <1>1, <2>1
<1>5. Cat(x, Cat(e, f)) \in Bytes /\ Len(Cat(x, Cat(e, f))) >= 3
  <2> DEFINE g == Cat(e, f)
  <2>1. g \in Bytes
    BY <1>3
  <2> HIDE DEF g
  <2>2. Cat(x, g) \in Bytes /\ Len(Cat(x, g)) = Len(x) + Len(g) /\ Len(g) \in Nat
    BY <1>1, <2>1, LengthOfCat
  <2>3. Len(Cat(x, g)) >= 3
    BY <1>1, <2>2
  <2> QED
    BY <2>2, <2>3 DEF g
<1> QED
  BY <1>2, <1>3, <1>4, <1>5 DEF d, x, e, f

LEMMA NeighboursAreBytes ==
  ASSUME NEW key \in Neighbours
  PROVE  key \in Bytes /\ Len(key) >= 3
<1>1. \A a \in Literals : IsValue(a)
  BY LiteralsAreValues, ValuesAreValues DEF IsValue, AllKindNames
<1>2. IsValue(Null) /\ TableIds \subseteq Byte /\ \A i \in 1 .. 2 : i \in Byte
  BY TableIdAssumption, SmallBytes DEF IsValue
<1>3. CASE \E t \in TableIds, a \in Literals : key = RowKey(t, a)
  BY <1>1, <1>2, <1>3, KeysAreBytes
<1>4. CASE \E t \in TableIds, i \in 1 .. 2, a \in Literals : key = IndexKey(t, i, a, Null)
  <2> PICK t \in TableIds, i \in 1 .. 2, a \in Literals : key = IndexKey(t, i, a, Null)
    BY <1>4
  <2>1. t \in Byte /\ i \in Byte /\ IsValue(a) /\ IsValue(Null)
    BY <1>1, <1>2
  <2> QED
    BY <2>1, KeysAreBytes
<1> QED
  BY <1>3, <1>4 DEF Neighbours

\* Whatever the WHERE clause and the tables of the store, a range covers no
\* key of another table or index (range.go:121-150, keys.go:20-60).
THEOREM ScansStayInside == Spec => []ScanStaysInside
<1>1. WellFormed => ScanStaysInside
  <2> SUFFICES ASSUME WellFormed, NEW t \in TableIds, NEW key \in Neighbours,
                      InScan(key, KeyBytes(path.bounds, Prefix(t)))
               PROVE  SubSeq(key, 1, Len(Prefix(t))) = Prefix(t)
    BY DEF ScanStaysInside
  <2>1. t \in Byte
    BY TableIdAssumption
  <2>2. path.ordersBy \in Column /\ GoodRange(path.ordersBy, path.bounds)
    BY DEF WellFormed, Column
  <2>3. key \in Bytes /\ Len(key) >= 3 /\ Len(key) \in Nat
    BY NeighboursAreBytes DEF Bytes
  <2>4. Len(Prefix(t)) <= Len(key)
    <3>1. Len(Prefix(t)) \in 2 .. 3
      BY <2>1, PrefixFacts
    <3>2. \A m \in 2 .. 3, n \in Nat : n >= 3 => m <= n
      OBVIOUS
    <3> HIDE DEF WellFormed
    <3> QED
      BY <2>3, <3>1, <3>2
  <2> QED
    BY <2>1, <2>2, <2>3, <2>4, PrefixFacts, ScanIsInside
<1> QED
  BY StaysWellFormed, <1>1, PTL

-----------------------------------------------------------------------------
(***************************************************************************)
(* The order of a scan.                                                    *)
(***************************************************************************)
LEMMA LastIdIsByte == LastId \in TableIds /\ LastId \in Byte
<1> DEFINE Behind == {n \in Nat : \E t \in TableIds : n = LastByte - t}
<1>1. \A t \in TableIds : t \in Nat /\ t <= LastByte /\ LastByte - t \in Behind /\ LastByte \in Nat
  BY TableIdAssumption, ByteRange
<1>2. Behind # {}
  BY <1>1, TableIdAssumption
<1>3. PICK n \in Behind : \A m \in Behind : n <= m
  BY <1>2, LeastNatural
<1>4. PICK t \in TableIds : n = LastByte - t
  OBVIOUS
<1> HIDE DEF Behind
<1>5. \A u \in TableIds : u <= t
  BY <1>1, <1>3, <1>4
<1>6. LastId \in TableIds
  BY <1>5 DEF LastId
<1> QED
  BY <1>6, TableIdAssumption

LEMMA RowsAreValues ==
  ASSUME WellFormed, NEW row \in Row
  PROVE  IsValue(row.id) /\ IsValue(row.k)
<1>1. row.id \in ValuesOf("INT")
  BY RowIdAssumption DEF Row, ValuesOf
<1>2. row.k = Null \/ row.k \in ValuesOf(kind["k"])
  BY DEF Row
<1>3. kind["k"] \in {"BOOL", "INT", "FLOAT", "TEXT"}
  BY DEF WellFormed, Column
<1> QED
  BY <1>1, <1>2, <1>3, ValuesAreValues DEF IsValue

\* A scan's rows come in the order of the column that spares a sort, for
\* every value of every kind but the one float whose key is out of place
\* (build.go:204-211, 466-469; keycodec/value.go).
THEOREM ScansAreInOrder == Spec => []RowsInOrder
<1>1. WellFormed => RowsInOrder
  <2> SUFFICES ASSUME WellFormed, NEW v \in Row, NEW w \in Row,
                      Before(v[path.ordersBy], w[path.ordersBy]), w[path.ordersBy] # NegativeNaN
               PROVE  BytesBefore(KeyOf(LastId, v), KeyOf(LastId, w))
    <3>1. Scanned \subseteq Row
      BY DEF Scanned
    <3>2. NegativeNaN = Value("FLOAT", LastByte)
      BY DEF NegativeNaN
    <3> HIDE DEF WellFormed
    <3> QED
      BY <3>1, <3>2 DEF RowsInOrder
  <2>1. LastId \in Byte
    BY LastIdIsByte
  <2>2. IsValue(v.id) /\ IsValue(v.k) /\ IsValue(w.id) /\ IsValue(w.k)
    BY RowsAreValues
  <2> DEFINE a == v[path.ordersBy]
             b == w[path.ordersBy]
  <2>3. path.ordersBy \in Column
    BY DEF WellFormed, Column
  <2>4. IsValue(a) /\ IsValue(b)
    BY <2>2, <2>3 DEF Column
  <2>5. Splits(Encode(a), Encode(b))
    <3> HIDE DEF a, b
    <3>1. Before(a, b) /\ b # NegativeNaN
      BY DEF a, b
    <3> QED
      BY <3>1, <2>4, EncodeInOrder
  <2>6. Encode(a) \in Bytes /\ Encode(b) \in Bytes /\ Encode(v.id) \in Bytes /\ Encode(w.id) \in Bytes
    BY <2>2, <2>4, EncodedTail
  <2>7. CASE path.via = 0
    <3>1. path.ordersBy = "id" /\ a = v.id /\ b = w.id
      BY <2>7 DEF WellFormed
    <3>2. KeyOf(LastId, v) = Cat(DataPrefix(LastId), Encode(a)) /\ KeyOf(LastId, w) = Cat(DataPrefix(LastId), Encode(b))
      BY <2>7, <3>1 DEF KeyOf, RowKey, Cat
    <3> DEFINE d == DataPrefix(LastId)
               e == Encode(a)
               f == Encode(b)
    <3>3. d \in Bytes
      BY <2>1, PrefixesAreBytes
    <3> HIDE DEF d, e, f
    <3>4. Splits(Cat(d, Cat(e, <<>>)), Cat(d, Cat(f, <<>>)))
      BY <2>5, <2>6, <3>3, SplitsInside, CatFacts DEF e, f
    <3>5. Cat(e, <<>>) = e /\ Cat(f, <<>>) = f
      BY <2>6, CatFacts DEF e, f
    <3> QED
      BY <3>2, <3>4, <3>5, SplitsBefore DEF d, e, f
  <2>8. CASE path.via # 0
    <3>1. path.via \in Byte
      BY ViaIsByte
    <3>2. /\ KeyOf(LastId, v) = IndexKey(LastId, path.via, a, v.id)
          /\ KeyOf(LastId, w) = IndexKey(LastId, path.via, b, w.id)
      BY <2>8 DEF KeyOf
    <3> DEFINE d == IndexPrefix(LastId, path.via)
               t == LastId
               i == path.via
               x == v.id
               y == w.id
    <3> HIDE DEF a, b
    <3>3. /\ KeyOf(LastId, v) = Cat(d, Cat(Encode(a), Encode(v.id)))
          /\ KeyOf(LastId, w) = Cat(d, Cat(Encode(b), Encode(w.id)))
      <4>1. t \in Byte /\ i \in Byte /\ IsValue(a) /\ IsValue(b) /\ IsValue(x) /\ IsValue(y)
        BY <2>1, <2>2, <2>4, <3>1
      <4> HIDE DEF t, i, x, y
      <4>2. IndexKey(t, i, a, x) = Cat(IndexPrefix(t, i), Cat(Encode(a), Encode(x)))
        BY <4>1, KeysAreBytes
      <4>3. IndexKey(t, i, b, y) = Cat(IndexPrefix(t, i), Cat(Encode(b), Encode(y)))
        BY <4>1, KeysAreBytes
      <4> QED
        BY <3>2, <4>2, <4>3 DEF t, i, x, y
    <3>4. d \in Bytes
      BY <2>1, <3>1, PrefixesAreBytes
    <3> HIDE DEF d
    <3>5. Splits(Cat(d, Cat(Encode(a), Encode(v.id))), Cat(d, Cat(Encode(b), Encode(w.id))))
      BY <2>5, <2>6, <3>4, SplitsInside
    <3> QED
      BY <3>3, <3>5, SplitsBefore
  <2> QED
    BY <2>7, <2>8
<1> QED
  BY StaysWellFormed, <1>1, PTL

-----------------------------------------------------------------------------
(***************************************************************************)
(* What ranges mean.                                                       *)
(***************************************************************************)
LEMMA WeakOrderOf ==
  ASSUME NEW k \in AllKindNames, NEW x \in ValuesOf(k) \cup {Null},
         NEW y \in ValuesOf(k) \cup {Null}, NEW z \in ValuesOf(k) \cup {Null}
  PROVE  /\ Before(x, y) => ~Before(y, x)
         /\ Before(x, z) => ~Before(z, x)
         /\ Before(y, z) => ~Before(z, y)
         /\ Before(x, z) => Before(x, y) \/ Before(y, z)
         /\ Before(z, x) => Before(z, y) \/ Before(y, x)
         /\ Before(x, y) => Before(x, z) \/ Before(z, y)
         /\ Before(y, x) => Before(y, z) \/ Before(z, x)
         /\ Before(y, z) => Before(y, x) \/ Before(x, z)
         /\ Before(z, y) => Before(z, x) \/ Before(x, y)
BY WeakOrder DEF AllKindNames

\* Of two lower bounds the tighter one admits what both admit.
LEMMA TighterLoMeans ==
  ASSUME NEW k \in AllKindNames, NEW v \in ValuesOf(k) \cup {Null}, NEW x, NEW y,
         x.set => x.value \in ValuesOf(k), y.set => y.value \in ValuesOf(k)
  PROVE  AboveLo(v, IF y.set /\ (~x.set \/ TighterLo(y, x)) THEN y ELSE x)
            <=> AboveLo(v, x) /\ AboveLo(v, y)
<1>1. CASE ~x.set \/ ~y.set
  BY <1>1 DEF AboveLo
<1>2. CASE x.set /\ y.set
  <2> DEFINE a == x.value
             b == y.value
  <2>1. /\ Before(v, a) => ~Before(a, v)
        /\ Before(v, b) => ~Before(b, v)
        /\ Before(a, b) => ~Before(b, a)
        /\ Before(v, b) => Before(v, a) \/ Before(a, b)
        /\ Before(b, v) => Before(b, a) \/ Before(a, v)
        /\ Before(v, a) => Before(v, b) \/ Before(b, a)
        /\ Before(a, v) => Before(a, b) \/ Before(b, v)
        /\ Before(a, b) => Before(a, v) \/ Before(v, b)
        /\ Before(b, a) => Before(b, v) \/ Before(v, a)
    BY <1>2, WeakOrderOf
  <2>2. TighterLo(y, x) <=> Before(a, b) \/ (~Before(a, b) /\ ~Before(b, a) /\ ~y.inclusive /\ x.inclusive)
    BY DEF TighterLo, Same
  <2>3. /\ AboveLo(v, x) <=> IF x.inclusive THEN ~Before(v, a) ELSE Before(a, v)
        /\ AboveLo(v, y) <=> IF y.inclusive THEN ~Before(v, b) ELSE Before(b, v)
    BY <1>2 DEF AboveLo
  <2>4. CASE TighterLo(y, x)
    <3>1. AboveLo(v, y) => AboveLo(v, x)
      BY <2>1, <2>2, <2>3, <2>4
    <3> QED
      BY <1>2, <2>4, <3>1
  <2>5. CASE ~TighterLo(y, x)
    <3>1. AboveLo(v, x) => AboveLo(v, y)
      BY <2>1, <2>2, <2>3, <2>5
    <3> QED
      BY <1>2, <2>5, <3>1
  <2> QED
    BY <2>4, <2>5
<1> QED
  BY <1>1, <1>2

\* And of two upper bounds.
LEMMA TighterHiMeans ==
  ASSUME NEW k \in AllKindNames, NEW v \in ValuesOf(k) \cup {Null}, NEW x, NEW y,
         x.set => x.value \in ValuesOf(k), y.set => y.value \in ValuesOf(k)
  PROVE  BelowHi(v, IF y.set /\ (~x.set \/ TighterHi(y, x)) THEN y ELSE x)
            <=> BelowHi(v, x) /\ BelowHi(v, y)
<1>1. CASE ~x.set \/ ~y.set
  BY <1>1 DEF BelowHi
<1>2. CASE x.set /\ y.set
  <2> DEFINE a == x.value
             b == y.value
  <2>1. /\ Before(v, a) => ~Before(a, v)
        /\ Before(v, b) => ~Before(b, v)
        /\ Before(a, b) => ~Before(b, a)
        /\ Before(v, b) => Before(v, a) \/ Before(a, b)
        /\ Before(b, v) => Before(b, a) \/ Before(a, v)
        /\ Before(v, a) => Before(v, b) \/ Before(b, a)
        /\ Before(a, v) => Before(a, b) \/ Before(b, v)
        /\ Before(a, b) => Before(a, v) \/ Before(v, b)
        /\ Before(b, a) => Before(b, v) \/ Before(v, a)
    BY <1>2, WeakOrderOf
  <2>2. TighterHi(y, x) <=> Before(b, a) \/ (~Before(a, b) /\ ~Before(b, a) /\ ~y.inclusive /\ x.inclusive)
    BY DEF TighterHi, Same
  <2>3. /\ BelowHi(v, x) <=> IF x.inclusive THEN ~Before(a, v) ELSE Before(v, a)
        /\ BelowHi(v, y) <=> IF y.inclusive THEN ~Before(b, v) ELSE Before(v, b)
    BY <1>2 DEF BelowHi
  <2>4. CASE TighterHi(y, x)
    <3>1. BelowHi(v, y) => BelowHi(v, x)
      BY <2>1, <2>2, <2>3, <2>4
    <3> QED
      BY <1>2, <2>4, <3>1
  <2>5. CASE ~TighterHi(y, x)
    <3>1. BelowHi(v, x) => BelowHi(v, y)
      BY <2>1, <2>2, <2>3, <2>5
    <3> QED
      BY <1>2, <2>5, <3>1
  <2> QED
    BY <2>4, <2>5
<1> QED
  BY <1>1, <1>2

\* The intersection of two ranges admits what both admit (range.go:77-102).
LEMMA IntersectMeans ==
  ASSUME NEW c \in Column, kind[c] \in AllKindNames, NEW v \in ValuesOf(kind[c]) \cup {Null},
         NEW r, NEW o, GoodRange(c, r), GoodRange(c, o)
  PROVE  Within(v, Intersect(r, o)) <=> Within(v, r) /\ Within(v, o)
<1>1. /\ r.lo.set => r.lo.value \in ValuesOf(kind[c])
      /\ o.lo.set => o.lo.value \in ValuesOf(kind[c])
      /\ r.hi.set => r.hi.value \in ValuesOf(kind[c])
      /\ o.hi.set => o.hi.value \in ValuesOf(kind[c])
  BY DEF GoodRange, GoodBound
<1>2. AboveLo(v, Intersect(r, o).lo) <=> AboveLo(v, r.lo) /\ AboveLo(v, o.lo)
  <2>1. Intersect(r, o).lo = IF o.lo.set /\ (~r.lo.set \/ TighterLo(o.lo, r.lo)) THEN o.lo ELSE r.lo
    BY DEF Intersect
  <2> QED
    BY <1>1, <2>1, TighterLoMeans
<1>3. BelowHi(v, Intersect(r, o).hi) <=> BelowHi(v, r.hi) /\ BelowHi(v, o.hi)
  <2>1. Intersect(r, o).hi = IF o.hi.set /\ (~r.hi.set \/ TighterHi(o.hi, r.hi)) THEN o.hi ELSE r.hi
    BY DEF Intersect
  <2> QED
    BY <1>1, <2>1, TighterHiMeans
<1> QED
  BY <1>2, <1>3 DEF Within

LEMMA Appended ==
  ASSUME NEW S, NEW s \in Seq(S), NEW p \in S
  PROVE  /\ \A i \in 1 .. Len(s) : Append(s, p)[i] = s[i]
         /\ Append(s, p)[Len(s) + 1] = p
         /\ Len(s) + 1 \notin 1 .. Len(s)
OBVIOUS

\* What the invariant says of the conjuncts and of the path.
Meaning == OwnersBound /\ RangesMean /\ PathFits

LEMMA InitMeaning == Init => Meaning
<1> SUFFICES ASSUME Init PROVE Meaning
  OBVIOUS
<1>1. \A c \in Column : ranges[c] = Unbounded /\ owners[c] = {}
  BY DEF Init
<1>2. \A v : Within(v, Unbounded)
  BY DEF Within, AboveLo, BelowHi, Unbounded, NoBound
<1>3. path = TableScan
  BY DEF Init
<1> QED
  BY <1>1, <1>2, <1>3 DEF Meaning, OwnersBound, RangesMean, PathFits

LEMMA PushMeaning == WellFormed /\ Meaning /\ Push => Meaning'
<1> SUFFICES ASSUME WellFormed, Meaning, Push PROVE Meaning'
  OBVIOUS
<1>1. PICK p \in Conjunct :
         /\ Sargable(p)
         /\ where' = Append(where, p)
         /\ ranges' = [ranges EXCEPT ![p.column] = Intersect(@, RangeOf(p))]
         /\ owners' = [owners EXCEPT ![p.column] = @ \cup {Len(where) + 1}]
  BY DEF Push
<1>2. kind' = kind /\ path' = path /\ pc' = pc /\ pc = "where"
  BY DEF Push, schema
<1>3. p.column \in Column
  BY ConjunctParts
<1> DEFINE n == Len(where) + 1
<1>4. (\A i \in 1 .. Len(where) : where'[i] = where[i]) /\ where'[n] = p /\ n \notin 1 .. Len(where)
  <2>1. where \in Seq(Conjunct)
    BY DEF WellFormed
  <2> HIDE DEF Conjunct
  <2> QED
    BY <1>1, <2>1, Appended
<1>5. /\ owners \in [Column -> SUBSET (1 .. Len(where))]
      /\ owners' = [owners EXCEPT ![p.column] = @ \cup {n}]
      /\ DOMAIN ranges = Column
  BY <1>1 DEF WellFormed
<1> HIDE DEF n
<1>6. \A c \in Column :
         /\ c # p.column => owners'[c] = owners[c] /\ ranges'[c] = ranges[c]
         /\ c = p.column => owners'[c] = owners[c] \cup {n} /\ ranges'[c] = Intersect(ranges[c], RangeOf(p))
         /\ \A i \in owners[c] : where'[i] = where[i]
  BY <1>1, <1>3, <1>4, <1>5
<1>7. OwnersBound'
  <2> SUFFICES ASSUME NEW c \in Column, NEW i \in owners'[c]
               PROVE  where'[i].column = c /\ Sargable(where[i])'
    BY DEF OwnersBound
  <2>0. Sargable(where[i])' <=> Sargable(where'[i])
    BY <1>2 DEF Sargable, CanBound, BoundValue
  <2>1. CASE i \in owners[c]
    <3>1. where'[i] = where[i]
      BY <1>6, <2>1
    <3>2. where[i].column = c /\ Sargable(where[i])
      BY <2>1 DEF Meaning, OwnersBound
    <3>3. Sargable(where'[i])
      BY <3>1, <3>2
    <3> QED
      BY <2>0, <3>1, <3>2, <3>3
  <2>2. CASE i \notin owners[c]
    <3>1. c = p.column /\ i = n /\ where'[i] = p
      BY <1>4, <1>6, <2>2
    <3> QED
      BY <1>1, <2>0, <3>1
  <2> QED
    BY <2>1, <2>2
<1>8. RangesMean'
  <2> SUFFICES ASSUME NEW c \in Column, NEW v \in ValuesOf(kind[c]) \cup {Null}
               PROVE  Within(v, ranges'[c]) <=> \A i \in owners'[c] : Within(v, RangeOf(where[i])')
    BY <1>2 DEF RangesMean, Within, AboveLo, BelowHi
  <2>1. ASSUME NEW i PROVE RangeOf(where[i])' = RangeOf(where'[i])
    BY <1>2 DEF RangeOf, BoundValue
  <2>2. Within(v, ranges[c]) <=> \A i \in owners[c] : Within(v, RangeOf(where[i]))
    BY DEF Meaning, RangesMean
  <2>3. \A i \in owners[c] : RangeOf(where'[i]) = RangeOf(where[i])
    BY <1>6
  <2>4. CASE c # p.column
    BY <1>6, <2>1, <2>2, <2>3, <2>4
  <2>5. CASE c = p.column
    <3>1. GoodRange(c, ranges[c]) /\ GoodRange(c, RangeOf(p)) /\ kind[c] \in AllKindNames
      BY <1>1, <2>5, RangesAreGood DEF WellFormed, AllKindNames
    <3>2. Within(v, Intersect(ranges[c], RangeOf(p))) <=> Within(v, ranges[c]) /\ Within(v, RangeOf(p))
      BY <3>1, IntersectMeans
    <3>3. RangeOf(where'[n]) = RangeOf(p)
      BY <1>4
    <3>4. owners'[c] = owners[c] \cup {n} /\ ranges'[c] = Intersect(ranges[c], RangeOf(p))
      BY <1>6, <2>5
    <3> QED
      BY <2>1, <2>2, <2>3, <3>2, <3>3, <3>4
  <2> QED
    BY <2>4, <2>5
<1>9. PathFits'
  BY <1>2 DEF Meaning, PathFits, TableScan
<1> QED
  BY <1>7, <1>8, <1>9 DEF Meaning

\* A step that leaves the ranges and the conjuncts behind them alone.
LEMMA SameMeaning ==
  ASSUME OwnersBound, RangesMean,
         kind' = kind, ranges' = ranges, owners' = owners,
         \A c \in Column : \A i \in owners[c] : where'[i] = where[i]
  PROVE  OwnersBound' /\ RangesMean'
<1>1. OwnersBound'
  <2> SUFFICES ASSUME NEW c \in Column, NEW i \in owners[c]
               PROVE  where'[i].column = c /\ Sargable(where[i])'
    BY DEF OwnersBound
  <2>1. Sargable(where[i])' <=> Sargable(where'[i])
    BY DEF Sargable, CanBound, BoundValue
  <2> QED
    BY <2>1 DEF OwnersBound
<1>2. RangesMean'
  <2> SUFFICES ASSUME NEW c \in Column, NEW v \in ValuesOf(kind[c]) \cup {Null}
               PROVE  Within(v, ranges[c]) <=> \A i \in owners[c] : Within(v, RangeOf(where[i])')
    BY DEF RangesMean, Within, AboveLo, BelowHi
  <2>1. ASSUME NEW i PROVE RangeOf(where[i])' = RangeOf(where'[i])
    BY DEF RangeOf, BoundValue
  <2>2. \A i \in owners[c] : RangeOf(where'[i]) = RangeOf(where[i])
    OBVIOUS
  <2> QED
    BY <2>1, <2>2 DEF RangesMean
<1> QED
  BY <1>1, <1>2

LEMMA LeaveMeaning == WellFormed /\ Meaning /\ Leave => Meaning'
<1> SUFFICES ASSUME WellFormed, Meaning, Leave PROVE Meaning'
  OBVIOUS
<1>1. PICK p \in Conjunct : where' = Append(where, p)
  BY DEF Leave
<1>2. kind' = kind /\ ranges' = ranges /\ owners' = owners /\ path' = path /\ pc' = pc /\ pc = "where"
  BY DEF Leave, schema
<1>3. \A i \in 1 .. Len(where) : where'[i] = where[i]
  <2>1. where \in Seq(Conjunct)
    BY DEF WellFormed
  <2> HIDE DEF Conjunct
  <2> QED
    BY <1>1, <2>1, Appended
<1>4. OwnersBound' /\ RangesMean'
  <2>1. \A c \in Column : \A i \in owners[c] : where'[i] = where[i]
    BY <1>3 DEF WellFormed
  <2> QED
    BY <1>2, <2>1, SameMeaning DEF Meaning
<1>5. PathFits'
  BY <1>2 DEF Meaning, PathFits, TableScan
<1> QED
  BY <1>4, <1>5 DEF Meaning

LEMMA ChooseMeaning == WellFormed /\ Meaning /\ Choose => Meaning'
<1> SUFFICES ASSUME WellFormed, Meaning, Choose PROVE Meaning'
  OBVIOUS
<1>1. path' \in Paths
  BY DEF Choose
<1>2. kind' = kind /\ ranges' = ranges /\ owners' = owners /\ where' = where /\ pc' = "chosen"
  BY DEF Choose, schema
<1>3. OwnersBound' /\ RangesMean'
  BY <1>2, SameMeaning DEF Meaning
<1>4. path' = TableScan \/ (path'.bounds = ranges[path'.ordersBy] /\ path'.consumed = owners[path'.ordersBy])
  BY <1>1 DEF Paths, RangePath, IndexPath
<1>5. PathFits'
  BY <1>2, <1>4 DEF PathFits, TableScan
<1> QED
  BY <1>3, <1>5 DEF Meaning

LEMMA StutterMeaning == Meaning /\ UNCHANGED vars => Meaning'
<1> SUFFICES ASSUME Meaning, UNCHANGED vars PROVE Meaning'
  OBVIOUS
<1>1. /\ kind' = kind /\ ranges' = ranges /\ owners' = owners /\ where' = where
      /\ path' = path /\ pc' = pc
  BY DEF vars, schema
<1>2. OwnersBound' /\ RangesMean'
  BY <1>1, SameMeaning DEF Meaning
<1>3. PathFits'
  BY <1>1 DEF Meaning, PathFits, TableScan
<1> QED
  BY <1>2, <1>3 DEF Meaning

\* However many conjuncts a WHERE clause has, the range of a column holds the
\* values that each conjunct behind it leaves, and the path chosen reads one
\* such range or the whole table (build.go:474-530, range.go:70-119).
THEOREM RangesStayFit == Spec => []RangesFit
<1>1. Init => WellFormed /\ Meaning
  BY InitWellFormed, InitMeaning
<1>2. WellFormed /\ Meaning /\ [Next]_vars => (WellFormed /\ Meaning)'
  <2>1. WellFormed /\ [Next]_vars => WellFormed'
    BY PushWellFormed, LeaveWellFormed, ChooseWellFormed, StutterWellFormed DEF Next
  <2> QED
    BY <2>1, PushMeaning, LeaveMeaning, ChooseMeaning, StutterMeaning DEF Next
<1>3. WellFormed /\ Meaning => RangesFit
  BY DEF Meaning, RangesFit
<1> QED
  BY <1>1, <1>2, <1>3, PTL DEF Spec

-----------------------------------------------------------------------------
(***************************************************************************)
(* Conjuncts and ranges.                                                   *)
(***************************************************************************)
\* Against a constant that can be a bound, the comparison of the filter is
\* the order of the column.
LEMMA LessIsBefore ==
  ASSUME NEW c \in Column, kind[c] \in AllKindNames, NEW a \in Literals, CanBound(c, a),
         NEW v \in ValuesOf(kind[c])
  PROVE  /\ Less(v, a) <=> Before(v, BoundValue(c, a))
         /\ Less(a, v) <=> Before(BoundValue(c, a), v)
         /\ Null \notin {v, a}
<1>1. v.kind = kind[c] /\ v # Null
  BY ValuesAreValues, NullIsFirst DEF AllKindNames
<1>2. a # Null
  BY LiteralsAreValues DEF CanBound
<1>3. CASE kind[c] = "FLOAT" /\ a.kind = "INT"
  <2>1. Widen(v) = v
    BY <1>1, <1>3 DEF Widen
  <2>2. BoundValue(c, a) = Widen(a)
    BY <1>3 DEF BoundValue
  <2> QED
    BY <1>1, <1>2, <1>3, <2>1, <2>2 DEF Less, Numeric
<1>4. CASE ~(kind[c] = "FLOAT" /\ a.kind = "INT")
  <2>1. BoundValue(c, a) = a
    BY <1>4 DEF BoundValue, Widen
  <2>2. a.kind = v.kind
    BY <1>1, <2>1 DEF CanBound
  <2> QED
    BY <1>1, <1>2, <2>1, <2>2 DEF Less
<1> QED
  BY <1>3, <1>4

LEMMA ComparisonsMean ==
  ASSUME NEW c \in Column, kind[c] \in AllKindNames, NEW a \in Literals, CanBound(c, a),
         NEW v \in ValuesOf(kind[c])
  PROVE  LET b == BoundValue(c, a)
         IN  /\ Compare("=", v, a) = True <=> ~Before(v, b) /\ ~Before(b, v)
             /\ Compare("<", v, a) = True <=> Before(v, b)
             /\ Compare("<=", v, a) = True <=> ~Before(b, v)
             /\ Compare(">", v, a) = True <=> Before(b, v)
             /\ Compare(">=", v, a) = True <=> ~Before(v, b)
             /\ Compare("=", a, v) = True <=> ~Before(v, b) /\ ~Before(b, v)
             /\ Compare("<", a, v) = True <=> Before(b, v)
             /\ Compare("<=", a, v) = True <=> ~Before(v, b)
             /\ Compare(">", a, v) = True <=> Before(v, b)
             /\ Compare(">=", a, v) = True <=> ~Before(b, v)
<1> DEFINE b == BoundValue(c, a)
<1>1. /\ Less(v, a) <=> Before(v, b)
      /\ Less(a, v) <=> Before(b, v)
      /\ Null \notin {v, a}
  BY LessIsBefore
<1>2. \A x : Lift(x) = True <=> x
  BY DEF Lift, True, False
<1> HIDE DEF b
<1>3. /\ Compare("=", v, a) = Lift(~Less(v, a) /\ ~Less(a, v))
      /\ Compare("<", v, a) = Lift(Less(v, a))
      /\ Compare("<=", v, a) = Lift(~Less(a, v))
      /\ Compare(">", v, a) = Lift(Less(a, v))
      /\ Compare(">=", v, a) = Lift(~Less(v, a))
  BY <1>1 DEF Compare
<1>4. /\ Compare("=", a, v) = Lift(~Less(a, v) /\ ~Less(v, a))
      /\ Compare("<", a, v) = Lift(Less(a, v))
      /\ Compare("<=", a, v) = Lift(~Less(v, a))
      /\ Compare(">", a, v) = Lift(Less(v, a))
      /\ Compare(">=", a, v) = Lift(~Less(a, v))
  BY <1>1 DEF Compare
<1> QED
  BY <1>1, <1>2, <1>3, <1>4 DEF b

\* A row passes a conjunct that became a range if, and only if, its column is
\* not NULL and in the range.
LEMMA TruthMeans ==
  ASSUME kind \in [Column -> AllKindNames], NEW p \in Conjunct, Sargable(p),
         NEW row, NEW v \in ValuesOf(kind[p.column]) \cup {Null}, row[p.column] = v
  PROVE  Truth(p, row) = True <=> v # Null /\ Within(v, RangeOf(p))
<1>1. p.column \in Column /\ kind[p.column] \in AllKindNames
  BY ConjunctParts
<1> DEFINE a == p.value
           b == BoundValue(p.column, p.value)
<1>2. CASE p.op \in Comparisons
  <2>1. a \in Literals /\ CanBound(p.column, a) /\ p.op # "BETWEEN" /\ p.op # "IS NULL"
    BY <1>2, ConjunctParts DEF Sargable, Comparisons
  <2>2. Truth(p, row) = IF p.flipped THEN Compare(p.op, a, v) ELSE Compare(p.op, v, a)
    BY <1>2, <2>1 DEF Truth
  <2>3. CASE v = Null
    BY <2>2, <2>3 DEF Compare, Unknown, True
  <2>4. CASE v # Null
    <3>1. /\ Compare("=", v, a) = True <=> ~Before(v, b) /\ ~Before(b, v)
          /\ Compare("<", v, a) = True <=> Before(v, b)
          /\ Compare("<=", v, a) = True <=> ~Before(b, v)
          /\ Compare(">", v, a) = True <=> Before(b, v)
          /\ Compare(">=", v, a) = True <=> ~Before(v, b)
          /\ Compare("=", a, v) = True <=> ~Before(v, b) /\ ~Before(b, v)
          /\ Compare("<", a, v) = True <=> Before(b, v)
          /\ Compare("<=", a, v) = True <=> ~Before(v, b)
          /\ Compare(">", a, v) = True <=> Before(v, b)
          /\ Compare(">=", a, v) = True <=> ~Before(b, v)
      BY <1>1, <2>1, <2>4, ComparisonsMean
    <3> DEFINE op == IF p.flipped THEN Flip[p.op] ELSE p.op
    <3>2. op \in Comparisons
      BY <1>2, FlipType
    <3>3. RangeOf(p) = CASE op = "="  -> [lo |-> Bound(b, TRUE), hi |-> Bound(b, TRUE)]
                         [] op = "<"  -> [lo |-> NoBound, hi |-> Bound(b, FALSE)]
                         [] op = "<=" -> [lo |-> NoBound, hi |-> Bound(b, TRUE)]
                         [] op = ">"  -> [lo |-> Bound(b, FALSE), hi |-> NoBound]
                         [] op = ">=" -> [lo |-> Bound(b, TRUE), hi |-> NoBound]
      BY <2>1 DEF RangeOf
    <3>4. /\ Flip["="] = "=" /\ Flip["<"] = ">" /\ Flip["<="] = ">="
          /\ Flip[">"] = "<" /\ Flip[">="] = "<="
      BY DEF Flip, Comparisons
    <3>5. /\ p.flipped /\ p.op = "="  => op = "="
          /\ p.flipped /\ p.op = "<"  => op = ">"
          /\ p.flipped /\ p.op = "<=" => op = ">="
          /\ p.flipped /\ p.op = ">"  => op = "<"
          /\ p.flipped /\ p.op = ">=" => op = "<="
          /\ ~p.flipped => op = p.op
      BY <3>4
    <3> HIDE DEF op, a, b
    <3>6. /\ op = "="  => (Within(v, RangeOf(p)) <=> ~Before(v, b) /\ ~Before(b, v))
          /\ op = "<"  => (Within(v, RangeOf(p)) <=> Before(v, b))
          /\ op = "<=" => (Within(v, RangeOf(p)) <=> ~Before(b, v))
          /\ op = ">"  => (Within(v, RangeOf(p)) <=> Before(b, v))
          /\ op = ">=" => (Within(v, RangeOf(p)) <=> ~Before(v, b))
      BY <3>3 DEF Within, AboveLo, BelowHi, Bound, NoBound
    <3>7. p.op = "=" \/ p.op = "<" \/ p.op = "<=" \/ p.op = ">" \/ p.op = ">="
      BY <1>2 DEF Comparisons
    <3>8. CASE p.flipped
      BY <2>2, <2>4, <3>1, <3>5, <3>6, <3>7, <3>8
    <3>9. CASE ~p.flipped
      BY <2>2, <2>4, <3>1, <3>5, <3>6, <3>7, <3>9
    <3> QED
      BY <3>8, <3>9
  <2> QED
    BY <2>3, <2>4
<1>3. CASE p.op = "BETWEEN"
  <2> DEFINE h == p.high
             d == BoundValue(p.column, p.high)
  <2>1. /\ a \in Literals /\ CanBound(p.column, a)
        /\ h \in Literals /\ CanBound(p.column, h)
    BY <1>3, ConjunctParts DEF Sargable, Comparisons
  <2>2. Truth(p, row) = And(Compare(">=", v, a), Compare("<=", v, h))
    BY <1>3 DEF Truth, Comparisons
  <2>3. Within(v, RangeOf(p)) <=> ~Before(v, b) /\ ~Before(d, v)
    BY <1>3 DEF RangeOf, Within, AboveLo, BelowHi, Bound
  <2>4. CASE v = Null
    BY <2>2, <2>4 DEF Compare, And, Unknown, True
  <2>5. CASE v # Null
    <3>1. /\ Compare(">=", v, a) = True <=> ~Before(v, b)
          /\ Compare("<=", v, h) = True <=> ~Before(d, v)
      BY <1>1, <2>1, <2>5, ComparisonsMean
    <3>2. /\ Compare(">=", v, a) \in {False, Unknown, True}
          /\ Compare("<=", v, h) \in {False, Unknown, True}
      BY DEF Compare, Lift
    <3>3. \A x, y \in {False, Unknown, True} : And(x, y) = True <=> x = True /\ y = True
      BY DEF And, False, Unknown, True
    <3> QED
      BY <2>2, <2>3, <2>5, <3>1, <3>2, <3>3
  <2> QED
    BY <2>4, <2>5
<1> QED
  BY <1>2, <1>3 DEF Sargable

-----------------------------------------------------------------------------
(***************************************************************************)
(* The rows of a scan.                                                     *)
(***************************************************************************)
\* The keys of a range are those of its values, where keys are in order.
LEMMA ScanMeans ==
  ASSUME WellFormed, NEW c \in Column, NEW r, GoodRange(c, r),
         NEW v \in ValuesOf(kind[c]) \cup {Null},
         v # NegativeNaN,
         r.lo.set /\ Equal(v, r.lo.value) => v = r.lo.value,
         r.hi.set /\ Equal(v, r.hi.value) => v = r.hi.value,
         NEW p \in Bytes, 1 \in 1 .. Len(p), p[1] # LastByte, NEW rest \in Bytes
  PROVE  InScan(Cat(p, Cat(Encode(v), rest)), KeyBytes(r, p)) <=> Within(v, r)
<1>1. kind[c] \in {"BOOL", "INT", "FLOAT", "TEXT"}
  BY DEF WellFormed
<1>2. IsValue(v)
  BY <1>1, ValuesAreValues DEF IsValue
<1> DEFINE x == Cat(Encode(v), rest)
           key == Cat(p, x)
           lo == Encode(r.lo.value)
           hi == Encode(r.hi.value)
<1>3. x \in Bytes
  BY <1>2, EncodedTail, CatFacts
<1>4. ~BytesBefore(key, p) /\ BytesBefore(key, PrefixEnd(p))
  <2> HIDE DEF x
  <2> QED
    BY <1>3, ExtensionOf
<1>5. /\ ~r.lo.set => KeyBytes(r, p).start = p
      /\ r.lo.set /\ r.lo.inclusive => KeyBytes(r, p).start = Cat(p, lo)
      /\ r.lo.set /\ ~r.lo.inclusive => KeyBytes(r, p).start = PrefixEnd(Cat(p, lo))
  BY DEF KeyBytes, Cat
<1>6. /\ ~r.hi.set => KeyBytes(r, p).end = PrefixEnd(p)
      /\ r.hi.set /\ r.hi.inclusive => KeyBytes(r, p).end = PrefixEnd(Cat(p, hi))
      /\ r.hi.set /\ ~r.hi.inclusive => KeyBytes(r, p).end = Cat(p, hi)
  BY DEF KeyBytes, Cat
<1>7. ~BytesBefore(key, KeyBytes(r, p).start) <=> AboveLo(v, r.lo)
  <2>1. CASE ~r.lo.set
    BY <1>4, <1>5, <2>1 DEF AboveLo
  <2>2. CASE r.lo.set
    <3> DEFINE b == r.lo.value
    <3>1. /\ b \in ValuesOf(kind[c]) /\ b # NegativeNaN
          /\ Equal(v, b) => v = b
      BY <2>2 DEF GoodRange, GoodBound, NegativeNaN
    <3> HIDE DEF b
    <3>2. /\ BytesBefore(Cat(p, Cat(Encode(v), rest)), Cat(p, Encode(b))) <=> Before(v, b)
          /\ BytesBefore(Cat(p, Cat(Encode(v), rest)), PrefixEnd(Cat(p, Encode(b)))) <=> ~Before(b, v)
      BY <1>1, <3>1, KeyAgainstBound
    <3>3. /\ BytesBefore(key, Cat(p, lo)) <=> Before(v, b)
          /\ BytesBefore(key, PrefixEnd(Cat(p, lo))) <=> ~Before(b, v)
      BY <3>2 DEF b
    <3> QED
      BY <1>5, <2>2, <3>3 DEF AboveLo, b
  <2> QED
    BY <2>1, <2>2
<1>8. BytesBefore(key, KeyBytes(r, p).end) <=> BelowHi(v, r.hi)
  <2>1. CASE ~r.hi.set
    BY <1>4, <1>6, <2>1 DEF BelowHi
  <2>2. CASE r.hi.set
    <3> DEFINE b == r.hi.value
    <3>1. /\ b \in ValuesOf(kind[c]) /\ b # NegativeNaN
          /\ Equal(v, b) => v = b
      BY <2>2 DEF GoodRange, GoodBound, NegativeNaN
    <3> HIDE DEF b
    <3>2. /\ BytesBefore(Cat(p, Cat(Encode(v), rest)), Cat(p, Encode(b))) <=> Before(v, b)
          /\ BytesBefore(Cat(p, Cat(Encode(v), rest)), PrefixEnd(Cat(p, Encode(b)))) <=> ~Before(b, v)
      BY <1>1, <3>1, KeyAgainstBound
    <3>3. /\ BytesBefore(key, Cat(p, hi)) <=> Before(v, b)
          /\ BytesBefore(key, PrefixEnd(Cat(p, hi))) <=> ~Before(b, v)
      BY <3>2 DEF b
    <3> QED
      BY <1>6, <2>2, <3>3 DEF BelowHi, b
  <2> QED
    BY <2>1, <2>2
<1>9. KeyBytes(r, p).end # <<>>
  BY EndIsSome
<1> QED
  BY <1>7, <1>8, <1>9 DEF InScan, Within

LEMMA KeyOfRow ==
  ASSUME WellFormed, NEW row \in Row
  PROVE  /\ row[path.ordersBy] \in ValuesOf(kind[path.ordersBy]) \cup {Null}
         /\ path.via = 0 => row[path.ordersBy] # Null
         /\ \E rest \in Bytes :
               KeyOf(LastId, row) = Cat(Prefix(LastId), Cat(Encode(row[path.ordersBy]), rest))
<1>1. LastId \in Byte /\ path.via \in Byte
  BY LastIdIsByte, ViaIsByte
<1>2. path.ordersBy \in Column /\ kind["id"] = "INT" /\ (path.via = 0 => path.ordersBy = "id")
  BY DEF WellFormed, Column
<1>3. IsValue(row.id) /\ IsValue(row.k)
  BY RowsAreValues
<1>4. row.id \in ValuesOf("INT") /\ row.k \in ValuesOf(kind["k"]) \cup {Null}
  BY RowIdAssumption DEF Row, ValuesOf
<1>5. row.id # Null
  BY <1>4, NullIsFirst
<1> DEFINE v == row[path.ordersBy]
           i == path.via
           t == LastId
           pk == row.id
<1>6. v \in ValuesOf(kind[path.ordersBy]) \cup {Null} /\ IsValue(v)
  BY <1>2, <1>3, <1>4 DEF Column
<1>7. path.via = 0 => v = row.id
  BY <1>2
<1>8. \E rest \in Bytes : KeyOf(t, row) = Cat(Prefix(t), Cat(Encode(v), rest))
  <2>1. CASE i = 0
    <3>1. KeyOf(t, row) = RowKey(t, v) /\ Prefix(t) = DataPrefix(t)
      BY <1>7, <2>1 DEF KeyOf, Prefix
    <3> HIDE DEF v, t, i
    <3>2. RowKey(t, v) = Cat(DataPrefix(t), Encode(v))
      <4>1. t \in Byte /\ 0 \in Byte
        BY <1>1, SmallBytes DEF t
      <4> QED
        BY <1>6, <4>1, KeysAreBytes
    <3>3. Cat(Encode(v), <<>>) = Encode(v) /\ <<>> \in Bytes
      BY <1>6, EncodedTail, CatFacts
    <3> QED
      BY <3>1, <3>2, <3>3
  <2>2. CASE i # 0
    <3>1. KeyOf(t, row) = IndexKey(t, i, v, pk) /\ Prefix(t) = IndexPrefix(t, i)
      BY <2>2 DEF KeyOf, Prefix
    <3>2. t \in Byte /\ i \in Byte /\ IsValue(v) /\ IsValue(pk)
      BY <1>1, <1>3, <1>6
    <3> HIDE DEF v, t, i, pk
    <3>3. IndexKey(t, i, v, pk) = Cat(IndexPrefix(t, i), Cat(Encode(v), Encode(pk)))
      BY <3>2, KeysAreBytes
    <3>4. Encode(pk) \in Bytes
      BY <3>2, EncodedTail
    <3> QED
      BY <3>1, <3>3, <3>4
  <2> QED
    BY <2>1, <2>2
<1> QED
  BY <1>5, <1>6, <1>7, <1>8

\* A scan reads the rows that its own conjuncts leave, but for the rows its
\* keys cannot tell.
LEMMA ScannedRows ==
  ASSUME RangesFit, pc = "chosen", NEW row \in Row, ~Blind(row)
  PROVE  row \in Scanned <=> \A i \in path.consumed : Truth(where[i], row) = True
<1> USE DEF RangesFit
<1>0. WellFormed
  OBVIOUS
<1> DEFINE c == path.ordersBy
           r == path.bounds
           v == row[path.ordersBy]
           p == Prefix(LastId)
<1>1. /\ c \in Column /\ kind[c] \in AllKindNames /\ kind \in [Column -> AllKindNames]
      /\ GoodRange(c, r) /\ kind["id"] = "INT" /\ (path.via = 0 => c = "id")
  BY <1>0 DEF WellFormed, Column, AllKindNames
<1>2. v \in ValuesOf(kind[c]) \cup {Null} /\ (path.via = 0 => v # Null)
  BY <1>0, KeyOfRow
<1>3. PICK rest \in Bytes : KeyOf(LastId, row) = Cat(p, Cat(Encode(v), rest))
  BY <1>0, KeyOfRow
<1>4. p \in Bytes /\ 1 \in 1 .. Len(p) /\ p[1] # LastByte
  BY <1>0, LastIdIsByte, PrefixFacts
<1>5. /\ v # NegativeNaN
      /\ r.lo.set /\ Equal(v, r.lo.value) => v = r.lo.value
      /\ r.hi.set /\ Equal(v, r.hi.value) => v = r.hi.value
  <2>1. CASE path.via # 0
    BY <2>1 DEF Blind, NegativeNaN, Equal
  <2>2. CASE path.via = 0
    <3>1. v \in ValuesOf("INT") \cup {Null} /\ GoodRange(c, r) /\ kind[c] = "INT"
      BY <1>1, <1>2, <2>2
    <3> HIDE DEF c, r, v
    <3>2. v # NegativeNaN
      BY <3>1, ValuesAreValues DEF NegativeNaN, Null, Value
    <3>3. ASSUME NEW b \in ValuesOf("INT"), Equal(v, b) PROVE v = b
      BY <3>1, <3>3, TiedIsSame
    <3> QED
      BY <3>1, <3>2, <3>3 DEF GoodRange, GoodBound
  <2> QED
    BY <2>1, <2>2
<1>6. row \in Scanned <=> Within(v, r)
  <2>1. row \in Scanned <=> InScan(KeyOf(LastId, row), KeyBytes(r, p))
    BY DEF Scanned
  <2> HIDE DEF RangesFit, c, r, v, p
  <2> QED
    BY <1>0, <1>1, <1>2, <1>3, <1>4, <1>5, <2>1, ScanMeans
<1>7. CASE path = TableScan
  <2>1. r = Unbounded /\ path.consumed = {}
    BY <1>7 DEF TableScan
  <2>2. Within(v, Unbounded)
    BY DEF Within, AboveLo, BelowHi, Unbounded, NoBound
  <2> QED
    BY <1>6, <2>1, <2>2
<1>8. CASE r = ranges[c] /\ path.consumed = owners[c]
  <2>1. Within(v, r) <=> \A i \in owners[c] : Within(v, RangeOf(where[i]))
    BY <1>1, <1>2, <1>8 DEF RangesMean
  <2>2. \A i \in owners[c] : Truth(where[i], row) = True <=> v # Null /\ Within(v, RangeOf(where[i]))
    <3> SUFFICES ASSUME NEW i \in owners[c]
                 PROVE  Truth(where[i], row) = True <=> v # Null /\ Within(v, RangeOf(where[i]))
      OBVIOUS
    <3> DEFINE q == where[i]
    <3>1. q.column = c /\ Sargable(q)
      BY <1>1 DEF OwnersBound
    <3>2. q \in Conjunct
      <4>1. i \in 1 .. Len(where) /\ where \in Seq(Conjunct)
        BY <1>0, <1>1 DEF WellFormed
      <4> HIDE DEF Conjunct, RangesFit
      <4> QED
        BY <4>1
    <3>3. v \in ValuesOf(kind[q.column]) \cup {Null} /\ row[q.column] = v
      BY <1>2, <3>1
    <3> HIDE DEF q, v, c, RangesFit
    <3>4. Truth(q, row) = True <=> v # Null /\ Within(v, RangeOf(q))
      BY <1>1, <3>1, <3>2, <3>3, TruthMeans
    <3> QED
      BY <3>4 DEF q
  <2>3. CASE v # Null
    BY <1>6, <1>8, <2>1, <2>2, <2>3
  <2>4. CASE v = Null
    <3>1. path.via # 0 /\ r.lo.set
      BY <1>2, <2>4 DEF Blind
    <3>2. r.lo.value \in ValuesOf(kind[c])
      BY <1>1, <3>1 DEF GoodRange, GoodBound
    <3>3. ~Within(v, r)
      <4>1. Before(Null, r.lo.value) /\ ~Before(r.lo.value, Null)
        BY <1>1, <3>2, NullIsFirst DEF AllKindNames
      <4> QED
        BY <2>4, <3>1, <4>1 DEF Within, AboveLo
    <3> QED
      BY <1>6, <1>8, <2>1, <2>2, <2>4, <3>3
  <2> QED
    BY <2>3, <2>4
<1> QED
  BY <1>7, <1>8 DEF PathFits

\* Whatever the kinds, the constants and the number of the conjuncts, a
\* statement gets the rows its WHERE clause is TRUE of by every path the
\* planner can choose, except where the order of keys is not the order of
\* values and for NULL under an upper bound (build.go:474-530,
\* range.go:129-150).
THEOREM RowsAreRight == Spec => []RowsAreWhere
<1>1. RangesFit => RowsAreWhere
  <2> SUFFICES ASSUME RangesFit, pc = "chosen", NEW row \in Row, ~Blind(row)
               PROVE  row \in Produced <=> \A i \in DOMAIN where : Truth(where[i], row) = True
    BY DEF RowsAreWhere, Produced, Scanned
  <2>1. row \in Scanned <=> \A i \in path.consumed : Truth(where[i], row) = True
    BY ScannedRows
  <2>2. path.consumed \subseteq DOMAIN where
    <3>1. where \in Seq(Conjunct) /\ path.consumed \subseteq 1 .. Len(where)
      BY DEF RangesFit, WellFormed
    <3> HIDE DEF Conjunct
    <3> QED
      BY <3>1
  <2>3. \A i \in DOMAIN where : i \in path.consumed \/ i \in Residual
    BY DEF Residual
  <2> QED
    BY <2>1, <2>2, <2>3 DEF Produced, Residual
<1> QED
  BY RangesStayFit, <1>1, PTL

-----------------------------------------------------------------------------
(***************************************************************************)
(* The entries of a scan.                                                  *)
(***************************************************************************)
LEMMA EntryIsReadBack ==
  ASSUME NEW t \in Byte, NEW i \in Byte, NEW a, IsValue(a), NEW pk, IsValue(pk)
  PROVE  IndexEntry(IndexKey(t, i, a, pk)) = <<a, pk>>
<1> DEFINE key == IndexKey(t, i, a, pk)
           p == IndexPrefix(t, i)
           e == Encode(a)
           f == Encode(pk)
           body == SubSeq(key, 4, Len(key))
<1>1. p \in Bytes /\ Len(p) = 3 /\ e \in Bytes /\ f \in Bytes /\ key = Cat(p, Cat(e, f))
  BY PrefixesAreBytes, EncodedTail, KeysAreBytes
<1>2. body = Cat(e, f)
  <2> HIDE DEF key, p, e, f
  <2>1. Cat(e, f) \in Bytes /\ 3 + 1 = 4
    BY <1>1, CatFacts
  <2> QED
    BY <1>1, <2>1, TailOfCat
<1>3. Decode(body) = [value |-> a, rest |-> f, ok |-> TRUE]
  <2>1. Decode(Cat(Encode(a), f)) = [value |-> a, rest |-> f, ok |-> TRUE]
    BY <1>1, DecodeInverts
  <2> QED
    BY <1>2, <2>1
<1>4. Decode(f) = [value |-> pk, rest |-> <<>>, ok |-> TRUE]
  <2>1. Decode(Cat(Encode(pk), <<>>)) = [value |-> pk, rest |-> <<>>, ok |-> TRUE] /\ Cat(f, <<>>) = f
    BY <1>1, CatFacts, DecodeInverts
  <2> QED
    BY <2>1
<1> HIDE DEF f, key
<1> QED
  BY <1>3, <1>4 DEF IndexEntry, key

\* The primary key read back from an entry of an index is the one of its row,
\* whatever the values of the column and their length (keys.go:97-115,
\* keycodec/value.go:90-205).
THEOREM EntriesAreReadBack == Spec => []EntriesDecode
<1>1. WellFormed => EntriesDecode
  <2> SUFFICES ASSUME WellFormed, path.via # 0, NEW row \in Row
               PROVE  IndexEntry(KeyOf(LastId, row)) = <<row[path.ordersBy], row.id>>
    BY DEF EntriesDecode, Scanned
  <2>1. path.ordersBy \in Column
    BY DEF WellFormed, Column
  <2>2. IsValue(row.id) /\ IsValue(row[path.ordersBy])
    BY <2>1, RowsAreValues DEF Column
  <2>3. KeyOf(LastId, row) = IndexKey(LastId, path.via, row[path.ordersBy], row.id)
    BY DEF KeyOf
  <2>4. LastId \in Byte /\ path.via \in Byte
    BY LastIdIsByte, ViaIsByte
  <2> HIDE DEF WellFormed
  <2> QED
    BY <2>2, <2>3, <2>4, EntryIsReadBack
<1> QED
  BY StaysWellFormed, <1>1, PTL
=============================================================================
