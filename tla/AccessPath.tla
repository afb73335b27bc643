----------------------------- MODULE AccessPath -----------------------------
(***************************************************************************)
(* How the planner chooses what a statement reads (plan/build.go): it goes *)
(* through the conjuncts of the WHERE clause, narrows a range per column,  *)
(* prices the ways of reading the table, and leaves to the filter above    *)
(* the scan only the conjuncts the chosen way has not consumed.  Whether   *)
(* the rows are the right ones, and in the order the scan claims, depends  *)
(* on the encoding of keys: a range becomes a half-open range of bytes.    *)
(*                                                                         *)
(* The table has a primary key "id" of kind INT and a nullable column "k". *)
(* A conjunct compares one column with one or two constants of a kind the  *)
(* column can be compared with: a comparison that fails is out of scope.   *)
(***************************************************************************)
EXTENDS KeyCodec
INSTANCE Range

CONSTANTS Kinds,         \* the kinds k can have
          Literals,      \* the constants of a WHERE clause
          TableIds,      \* identifiers of tables in the store
          RowIds,        \* bound: the primary keys of rows
          MaxConjuncts   \* bound: how many conjuncts a WHERE clause has

\* The parser reads no float that is infinite or not a number.
ASSUME LiteralAssumption ==
  /\ Literals \subseteq {Null} \cup UNION {ValuesOf(x) : x \in {"BOOL", "INT", "FLOAT", "TEXT"}}
  /\ \A a \in Literals : a.kind = "FLOAT" => Magnitude(a.v) <= LargestFinite
ASSUME KindAssumption == Kinds \subseteq {"BOOL", "INT", "FLOAT", "TEXT"}
ASSUME TableIdAssumption == TableIds \subseteq Byte /\ TableIds # {}
ASSUME RowIdAssumption == RowIds \subseteq -SignBit .. SignBit - 1
ASSUME ConjunctAssumption == MaxConjuncts \in Nat

VARIABLES
  kind,      \* kind[c]: the declared kind of column c
  indexes,   \* the columns of its indexes, index n on indexes[n]
  where,     \* the conjuncts so far
  ranges,    \* ranges[c]: the range they leave of column c
  owners,    \* owners[c]: the positions of the conjuncts behind that range
  path,      \* the access path chosen
  pc         \* "where" or "chosen"

schema == <<kind, indexes>>
vars   == <<schema, where, ranges, owners, path, pc>>

Column == {"id", "k"}

Comparisons == {"=", "<", "<=", ">", ">="}
Comparable(c) == {a \in Literals : a.kind \in {"NULL", kind[c]} \/ (Numeric(a) /\ kind[c] \in {"INT", "FLOAT"})}

Conjunct ==
  UNION {
    [column : {c}, op : Comparisons \cup {"<>"}, flipped : BOOLEAN, value : Comparable(c)]
    \cup [column : {c}, op : {"IS NULL"}]
    \cup [column : {c}, op : {"BETWEEN"}, value : Comparable(c), high : Comparable(c)]
    : c \in Column}

\* Path 0 is the table, in the order of its primary key.
TableScan == [via |-> 0, bounds |-> Unbounded, cost |-> EstimatedRows + 1,
              consumed |-> {}, ordersBy |-> "id"]

TypeOK ==
  /\ kind \in [Column -> {"BOOL", "INT", "FLOAT", "TEXT"}]
  /\ indexes \in UNION {[1 .. n -> Column] : n \in 0 .. 2}
  /\ Len(where) <= MaxConjuncts /\ \A i \in DOMAIN where : where[i] \in Conjunct
  /\ \A c \in Column : owners[c] \subseteq DOMAIN where
  /\ \A c \in Column, b \in {"lo", "hi"} :
        ranges[c][b].set => ranges[c][b].value.kind = kind[c]
  /\ path.via \in 0 .. Len(indexes) /\ path.consumed \subseteq DOMAIN where
  /\ pc \in {"where", "chosen"}

Init ==
  /\ \E x \in Kinds : kind = [c \in Column |-> IF c = "id" THEN "INT" ELSE x]
  /\ indexes \in {<<>>, <<"id", "k">>}
  /\ where = <<>>
  /\ ranges = [c \in Column |-> Unbounded]
  /\ owners = [c \in Column |-> {}]
  /\ path = TableScan
  /\ pc = "where"

-----------------------------------------------------------------------------
(***************************************************************************)
(* Predicates.                                                             *)
(***************************************************************************)

\* What a constant is as a bound of a column: NULL never is one, an integer
\* is widened for a FLOAT column, and the kind has to be the column's.
BoundValue(c, a) == IF kind[c] = "FLOAT" THEN Widen(a) ELSE a

\* A broken variant of CanBound, not part of the specification: a constant of
\* any kind becomes a bound.
CanBoundAnyKind(c, a) == a.kind # "NULL"

CanBound(c, a) == a.kind # "NULL" /\ BoundValue(c, a).kind = kind[c]

Flip[op \in Comparisons] ==
  CASE op = "<" -> ">" [] op = "<=" -> ">=" [] op = ">" -> "<" [] op = ">=" -> "<=" [] op = "=" -> "="

Sargable(p) ==
  \/ p.op \in Comparisons /\ CanBound(p.column, p.value)
  \/ p.op = "BETWEEN" /\ CanBound(p.column, p.value) /\ CanBound(p.column, p.high)

RangeOf(p) ==
  LET a      == BoundValue(p.column, p.value)
      op     == IF p.flipped THEN Flip[p.op] ELSE p.op
      from(i) == [lo |-> Bound(a, i), hi |-> NoBound]
      upTo(i) == [lo |-> NoBound, hi |-> Bound(a, i)]
  IN  CASE p.op = "BETWEEN" -> [lo |-> Bound(a, TRUE), hi |-> Bound(BoundValue(p.column, p.high), TRUE)]
        [] p.op # "BETWEEN" -> CASE op = "="  -> [lo |-> Bound(a, TRUE), hi |-> Bound(a, TRUE)]
                                 [] op = "<"  -> upTo(FALSE)
                                 [] op = "<=" -> upTo(TRUE)
                                 [] op = ">"  -> from(FALSE)
                                 [] op = ">=" -> from(TRUE)

\* CompareOp: FALSE is 0, UNKNOWN 1 and TRUE 2, and AND the minimum.
False   == 0
Unknown == 1
True    == 2
Lift(b) == IF b THEN True ELSE False

Compare(op, a, b) ==
  IF Null \in {a, b} THEN Unknown
  ELSE Lift(CASE op = "="  -> ~Less(a, b) /\ ~Less(b, a)
              [] op = "<>" -> Less(a, b) \/ Less(b, a)
              [] op = "<"  -> Less(a, b)
              [] op = "<=" -> ~Less(b, a)
              [] op = ">"  -> Less(b, a)
              [] op = ">=" -> ~Less(a, b))

And(x, y) == IF x < y THEN x ELSE y

\* EvalPredicate of a conjunct.
Truth(p, row) ==
  LET a == row[p.column]
  IN  CASE p.op = "IS NULL" -> Lift(a = Null)
        [] p.op = "BETWEEN" -> And(Compare(">=", a, p.value), Compare("<=", a, p.high))
        [] p.op \in Comparisons \cup {"<>"} -> IF p.flipped THEN Compare(p.op, p.value, a)
                                               ELSE Compare(p.op, a, p.value)

-----------------------------------------------------------------------------
(***************************************************************************)
(* Planning.                                                               *)
(***************************************************************************)

\* One turn of the loop over the conjuncts, for one that becomes a range.
Push ==
  /\ pc = "where"
  /\ Len(where) < MaxConjuncts
  /\ \E p \in Conjunct :
        /\ Sargable(p)
        /\ where' = Append(where, p)
        /\ ranges' = [ranges EXCEPT ![p.column] = Intersect(@, RangeOf(p))]
        /\ owners' = [owners EXCEPT ![p.column] = @ \cup {Len(where) + 1}]
  /\ UNCHANGED <<schema, path, pc>>

\* And for one that only the filter can decide.
Leave ==
  /\ pc = "where"
  /\ Len(where) < MaxConjuncts
  /\ \E p \in Conjunct : ~Sargable(p) /\ where' = Append(where, p)
  /\ UNCHANGED <<schema, ranges, owners, path, pc>>

\* The ways there are: the table, a range of it, or an index with a range.
RangePath(r) == [via |-> 0, bounds |-> r, cost |-> Matched(r) + 1,
                 consumed |-> owners["id"], ordersBy |-> "id"]

IndexPath(n) ==
  LET c == indexes[n]
  IN  [via |-> n, bounds |-> ranges[c], cost |-> 2 * Matched(ranges[c]) + 2,
       consumed |-> owners[c], ordersBy |-> c]

Paths == {TableScan}
         \cup (IF Bounded(ranges["id"]) THEN {RangePath(ranges["id"])} ELSE {})
         \cup {IndexPath(n) : n \in {n \in DOMAIN indexes : Bounded(ranges[indexes[n]])}}

\* The cheapest, and of two that cost the same the first: the table, whose
\* two paths never cost the same, and then its indexes in their order.
Choose ==
  /\ pc = "where"
  /\ \E p \in Paths :
        /\ \A q \in Paths : p.cost <= q.cost /\ (q.via < p.via => p.cost < q.cost)
        /\ path' = p
  /\ pc' = "chosen"
  /\ UNCHANGED <<schema, where, ranges, owners>>

Next == Push \/ Leave \/ Choose

Spec == Init /\ [][Next]_vars

-----------------------------------------------------------------------------
(***************************************************************************)
(* What holds between the steps of planning.                               *)
(***************************************************************************)

\* A bound has a place among the keys of its column, which no NaN with its
\* sign bit set has.
GoodBound(c, b) == b.set => b.value \in ValuesOf(kind[c]) \ {Value("FLOAT", LastByte)}
GoodRange(c, r) == GoodBound(c, r.lo) /\ GoodBound(c, r.hi)

WellFormed ==
  /\ kind \in [Column -> {"BOOL", "INT", "FLOAT", "TEXT"}] /\ kind["id"] = "INT"
  /\ \E n \in 0 .. 2 : indexes \in [1 .. n -> Column]
  /\ where \in Seq(Conjunct) /\ Len(where) <= MaxConjuncts
  /\ owners \in [Column -> SUBSET (1 .. Len(where))]
  /\ DOMAIN ranges = Column /\ \A c \in Column : GoodRange(c, ranges[c])
  /\ path.via \in 0 .. Len(indexes) /\ path.consumed \subseteq 1 .. Len(where)
  /\ path.ordersBy = IF path.via = 0 THEN "id" ELSE indexes[path.via]
  /\ GoodRange(path.ordersBy, path.bounds)
  /\ pc \in {"where", "chosen"}

AboveLo(v, b) == b.set => IF b.inclusive THEN ~Before(v, b.value) ELSE Before(b.value, v)
BelowHi(v, b) == b.set => IF b.inclusive THEN ~Before(b.value, v) ELSE Before(v, b.value)
Within(v, r)  == AboveLo(v, r.lo) /\ BelowHi(v, r.hi)

OwnersBound == \A c \in Column : \A i \in owners[c] : where[i].column = c /\ Sargable(where[i])

RangesMean ==
  \A c \in Column : \A v \in ValuesOf(kind[c]) \cup {Null} :
     Within(v, ranges[c]) <=> \A i \in owners[c] : Within(v, RangeOf(where[i]))

PathFits ==
  \/ path = TableScan
  \/ pc = "chosen" /\ path.bounds = ranges[path.ordersBy] /\ path.consumed = owners[path.ordersBy]

\* The inductive invariant: the range of a column holds the values that every
\* conjunct behind it leaves, and the path chosen is one of such a range
\* (build.go:474-530, range.go:70-119).
RangesFit == WellFormed /\ OwnersBound /\ RangesMean /\ PathFits

-----------------------------------------------------------------------------
(***************************************************************************)
(* The scan.                                                               *)
(***************************************************************************)
Prefix(t) == IF path.via = 0 THEN DataPrefix(t) ELSE IndexPrefix(t, path.via)

KeyOf(t, row) == IF path.via = 0 THEN RowKey(t, row.id)
                 ELSE IndexKey(t, path.via, row[path.ordersBy], row.id)

\* A broken variant of KeyBytes, not part of the specification: a range
\* without an upper bound has no end.
KeyBytesOpenEnd(r, prefix) ==
  LET lo == prefix \o Encode(r.lo.value)
      hi == prefix \o Encode(r.hi.value)
  IN  [start |-> IF ~r.lo.set THEN prefix ELSE IF r.lo.inclusive THEN lo ELSE PrefixEnd(lo),
       end   |-> IF ~r.hi.set THEN <<>> ELSE IF r.hi.inclusive THEN PrefixEnd(hi) ELSE hi]

\* Range.KeyBytes: the keys from start up to, and without, end.
KeyBytes(r, prefix) ==
  LET lo == prefix \o Encode(r.lo.value)
      hi == prefix \o Encode(r.hi.value)
  IN  [start |-> IF ~r.lo.set THEN prefix ELSE IF r.lo.inclusive THEN lo ELSE PrefixEnd(lo),
       end   |-> IF ~r.hi.set THEN PrefixEnd(prefix) ELSE IF r.hi.inclusive THEN PrefixEnd(hi) ELSE hi]

InScan(key, bytes) ==
  ~BytesBefore(key, bytes.start) /\ (bytes.end = <<>> \/ BytesBefore(key, bytes.end))

Row == [id : {Value("INT", n) : n \in RowIds}, k : ValuesOf(kind["k"]) \cup {Null}]

\* The last table of the store, whose prefix has no successor of its length.
LastId   == CHOOSE t \in TableIds : \A u \in TableIds : u <= t
Scanned  == LET bytes == KeyBytes(path.bounds, Prefix(LastId))
            IN  {row \in Row : InScan(KeyOf(LastId, row), bytes)}
Residual == DOMAIN where \ path.consumed
Produced == {row \in Scanned : \A i \in Residual : Truth(where[i], row) = True}

-----------------------------------------------------------------------------
(***************************************************************************)
(* Properties.                                                             *)
(***************************************************************************)

\* A row an index path may get wrong: its column is NULL under an upper bound
\* alone, a NaN with its sign bit set, which sorts behind every number but has
\* a key in front of them, or equal to a bound that has another key, as -0.0
\* is to 0.0.
Blind(row) ==
  /\ path.via # 0
  /\ LET a == row[path.ordersBy]
         b == path.bounds
         Split(x) == x.set /\ x.value # a /\ Equal(x.value, a)
     IN  \/ a = Null /\ ~b.lo.set
         \/ a = Value("FLOAT", LastByte)
         \/ Split(b.lo) \/ Split(b.hi)

\* Whatever path is chosen, the statement gets the rows its WHERE clause is
\* TRUE of, for every kind of column, except where the order of keys is not
\* the order of values, and except for NULL under an upper bound
\* (build.go:474-530, range.go:129-150).
RowsAreWhere ==
  pc = "chosen" =>
     LET wanted == {row \in Row : \A i \in DOMAIN where : Truth(where[i], row) = True}
         wrong  == (wanted \ Produced) \cup (Produced \ wanted)
     IN  \A row \in wrong : Blind(row)

\* A sort is left out when the path claims the order asked for: the rows of
\* a scan ascend in the column it claims (build.go:204-211, 466-469).
RowsInOrder ==
  pc = "chosen" =>
     LET entries == {<<row[path.ordersBy], KeyOf(LastId, row)>> : row \in Scanned}
     IN  \A x, y \in {e \in entries : e[1] # Value("FLOAT", LastByte)} :
            Before(x[1], y[1]) => BytesBefore(x[2], y[2])

\* Keys of all the tables and indexes.
Neighbours ==
  {RowKey(t, a) : t \in TableIds, a \in Literals}
    \cup {IndexKey(t, i, a, Null) : t \in TableIds, i \in 1 .. 2, a \in Literals}

\* A range never reaches beyond the keys of its table or index, next to
\* which those of other tables and indexes are stored (range.go:121-150).
ScanStaysInside ==
  pc = "chosen" =>
     \A t \in TableIds :
        LET bytes == KeyBytes(path.bounds, Prefix(t))
        IN  \A key \in Neighbours :
               InScan(key, bytes) => SubSeq(key, 1, Len(Prefix(t))) = Prefix(t)

\* The primary key read back from an index entry is the one of its row,
\* whatever bytes the indexed value has (keys.go:97-115).
EntriesDecode ==
  path.via # 0 => \A row \in Scanned : IndexEntry(KeyOf(LastId, row)) = <<row[path.ordersBy], row.id>>

\* The claim of the comments on WHERE (operators.go:208-209) and of the
\* README (lines 412-415): a row whose column is NULL is not returned by a
\* comparison with that column.
NullNeverMatches ==
  pc = "chosen" =>
     \A row \in Produced, i \in DOMAIN where :
        where[i].op \in Comparisons => row[where[i].column] # Null
=============================================================================
