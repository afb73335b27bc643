------------------------------- MODULE Query -------------------------------
(***************************************************************************)
(* A SELECT above its scan: the operators of exec/operators.go and         *)
(* exec/aggregate.go, put together the way plainSelect and groupedSelect   *)
(* of plan/build.go put them together:                                     *)
(*                                                                         *)
(*   scan -> Filter -> (Aggregate) -> (Sort) -> Project -> (Distinct)      *)
(*        -> (Limit)                                                       *)
(*                                                                         *)
(* Every operator pulls rows one by one from the one below.  Aggregate and *)
(* Sort drain it before they produce anything, so at any time there is one *)
(* place rows come from; one action is the way of one row from there to    *)
(* where it is kept or returned.                                           *)
(*                                                                         *)
(* The table has two columns, "a" which rows are grouped by and "b" which  *)
(* is aggregated.  The filter is "b IS NOT NULL": what conditions mean is  *)
(* the subject of AccessPath.  An expression that fails is out of scope.   *)
(***************************************************************************)
EXTENDS KeyCodec, SequencesExt, FiniteSetsExt, TLC

CONSTANTS ValuesOfA,   \* values of the column a
          ValuesOfB,   \* values of the column b, integers or NULL
          MaxRows,     \* bound: how many rows the scan produces
          Windows      \* pairs of a LIMIT and an OFFSET, -1 for no LIMIT

\* A column has a kind.
ASSUME ValuesOfAAssumption ==
  \E x \in {"BOOL", "INT", "FLOAT", "TEXT"} : ValuesOfA \subseteq ValuesOf(x) \cup {Null}
ASSUME ValuesOfBAssumption == ValuesOfB \subseteq ValuesOf("INT") \cup {Null}
\* A count of rows fits an INT.
ASSUME MaxRowsAssumption == MaxRows \in 0 .. SignBit - 1
ASSUME WindowsAssumption == Windows \subseteq [count : -1 .. SignBit - 1, offset : 0 .. SignBit - 1]

VARIABLES
  query,     \* the statement, and the order its scan has
  input,     \* the rows of the scan
  feed,      \* the rows that have yet to come out of the lowest live operator
  raw,       \* that operator is the scan
  groups,    \* aggregate: accumulators by encoded group key
  items,     \* sortOp: the items it keeps, in the heap if it has a limit
  seq,       \* sortOp: the arrival number of the next item
  seen,      \* distinct: the encoded rows it has let through
  skipped,   \* limitOp: rows it has dropped for the OFFSET
  out,       \* the rows returned to the client
  pc         \* what drains the feed: "aggregate", "sort", "stream", or "done"

vars == <<query, input, feed, raw, groups, items, seq, seen, skipped, out, pc>>

Column == {"a", "b"}
Row    == [a : ValuesOfA, b : ValuesOfB]

\* The columns an aggregation produces: the group value, COUNT(*), and
\* COUNT, SUM, MIN and MAX of b.
Calls   == <<"rows", "count", "sum", "min", "max">>
NoOrder == [by |-> "", desc |-> FALSE]

Orders(columns) == {NoOrder} \cup [by : columns, desc : BOOLEAN]

\* What the planner accepts of these: a column or a call above a GROUP BY
\* has to be one the aggregation produces.
Plain   == [group : {"no"}, select : {<<"a">>, <<"b">>}, order : Orders(Column)]
Grouped == [group : {"a"}, select : {<<"a">> \o Calls, <<"rows">>}, order : Orders({"a", "sum"})]
Whole   == [group : {"all"}, select : {Calls}, order : Orders({"sum"})]

\* The scan is in the order of the primary key, which no column here shows,
\* or in that of an index on "a", which matters only if it is asked for.
Query == {q \in [shape : Plain \cup Grouped \cup Whole, distinct : BOOLEAN, window : Windows,
                 filtered : BOOLEAN, via : {"id", "a"}] :
            q.via = "a" => q.shape.order.by = "a"}

IsGrouped == query.shape.group # "no"
Order     == query.shape.order
Select    == query.shape.select
Count     == query.window.count
Offset    == query.window.offset

-----------------------------------------------------------------------------
(***************************************************************************)
(* Planning.                                                               *)
(***************************************************************************)

\* An int64.
Wrap(n) == ((n + SignBit) % Base) - SignBit

\* There is a Sort unless the scan has the order already.  An aggregation
\* has an order of its own, which does not count.
Sorts == /\ Order # NoOrder
         /\ IsGrouped \/ Order.desc \/ Order.by # query.via

\* A broken variant of SortLimit, not part of the specification: the limit is
\* pushed below a DISTINCT.
SortLimitUnderDistinct == IF Count >= 0 THEN Wrap(Count + Offset) ELSE -1

\* How many items the Sort keeps, all of them if negative.
SortLimit == IF Count >= 0 /\ ~query.distinct THEN Wrap(Count + Offset) ELSE -1

\* The columns the scan decodes.
Mask ==
  {c \in Column :
     \/ c = "b" /\ query.filtered
     \/ ~IsGrouped /\ (c \in ToSet(Select) \/ (Sorts /\ c = Order.by))
     \/ IsGrouped /\ c = "a" /\ query.shape.group = "a"
     \/ IsGrouped /\ c = "b" /\ \E call \in ToSet(Select) \cup {Order.by} : call \notin {"a", "rows", ""}}

-----------------------------------------------------------------------------
(***************************************************************************)
(* Operators.                                                              *)
(***************************************************************************)

\* DecodeRowMasked: the columns that are not asked for are NULL.
Decoded(row) == [c \in Column |-> IF c \in Mask THEN row[c] ELSE Null]

Passes(row) == raw /\ query.filtered => row.b # Null

\* The accumulators of COUNT(*), COUNT, SUM, MIN and MAX.
NewAccumulators == [rows |-> 0, count |-> 0, sum |-> Null, min |-> Null, max |-> Null]

\* A broken variant of Add, not part of the specification: MIN starts from
\* the first value there is, NULL or not.
AddNullToMin(acc, v) ==
  IF v = Null THEN [acc EXCEPT !.rows = @ + 1, !.min = Null]
  ELSE [rows  |-> acc.rows + 1,
        count |-> acc.count + 1,
        sum   |-> IF acc.sum = Null THEN v ELSE Value("INT", Wrap(acc.sum.v + v.v)),
        min   |-> IF acc.min = Null \/ Before(v, acc.min) THEN v ELSE acc.min,
        max   |-> IF acc.max = Null \/ Before(acc.max, v) THEN v ELSE acc.max]

Add(acc, v) ==
  IF v = Null THEN [acc EXCEPT !.rows = @ + 1]
  ELSE [rows  |-> acc.rows + 1,
        count |-> acc.count + 1,
        sum   |-> IF acc.sum = Null THEN v ELSE Value("INT", Wrap(acc.sum.v + v.v)),
        min   |-> IF acc.min = Null \/ Before(v, acc.min) THEN v ELSE acc.min,
        max   |-> IF acc.max = Null \/ Before(acc.max, v) THEN v ELSE acc.max]

\* A broken variant of GroupKey, not part of the specification: the two zeros
\* share a bucket, as they would if the value itself were the key.
GroupKeyOneZero(row) ==
  IF query.shape.group # "a" THEN <<>>
  ELSE Encode(IF row.a = Value("FLOAT", SignBit) THEN Value("FLOAT", 0) ELSE row.a)

\* The bucket of a row, and the row a bucket becomes.
GroupKey(row) == IF query.shape.group = "a" THEN Encode(row.a) ELSE <<>>

Result(g) == [a |-> g.value, rows |-> Value("INT", g.acc.rows), count |-> Value("INT", g.acc.count),
              sum |-> g.acc.sum, min |-> g.acc.min, max |-> g.acc.max]

\* sortOp.less: by the ORDER BY key, and by arrival among equals.
Precedes(x, y) == IF Order.desc THEN Before(y[Order.by], x[Order.by])
                  ELSE Before(x[Order.by], y[Order.by])

Earlier(x, y) == \/ Precedes(x.row, y.row)
                 \/ ~Precedes(y.row, x.row) /\ x.seq < y.seq

\* A broken variant of Root, not part of the specification: a heap the other
\* way up.
RootFirst(heap) == CHOOSE x \in heap : \A y \in heap : y = x \/ Earlier(x, y)

\* The root of the heap is the item that comes last.
Root(heap) == CHOOSE x \in heap : \A y \in heap : y = x \/ Earlier(y, x)

\* The elements of a finite set in an order, as sort.Slice leaves them.
Ascending(S, Op(_, _)) ==
  CHOOSE s \in [1 .. Cardinality(S) -> S] : \A i, j \in DOMAIN s : i < j => Op(s[i], s[j])

Projected(row)  == [i \in DOMAIN Select |-> row[Select[i]]]
EncodedRow(row) == FlattenSeq([i \in DOMAIN row |-> Encode(row[i])])

-----------------------------------------------------------------------------
(***************************************************************************)
(* Running.                                                                *)
(***************************************************************************)
AfterScan == IF Sorts THEN "sort" ELSE "stream"

Init ==
  /\ query \in Query
  /\ input \in UNION {[1 .. n -> Row] : n \in 0 .. MaxRows}
  /\ query.via = "a" =>
        \A i, j \in DOMAIN input : i < j => ~BytesBefore(Encode(input[j].a), Encode(input[i].a))
  /\ feed = input
  /\ raw = TRUE
  /\ groups = <<>>
  /\ items = {}
  /\ seq = 0
  /\ seen = {}
  /\ skipped = 0
  /\ out = <<>>
  /\ pc = IF IsGrouped THEN "aggregate" ELSE AfterScan

TypeOK ==
  /\ query \in Query
  /\ Len(input) <= MaxRows /\ \A i \in DOMAIN input : input[i] \in Row
  /\ raw \in BOOLEAN
  /\ \A k \in DOMAIN groups : \A c \in {"sum", "min", "max"} : groups[k].acc[c] \in ValuesOf("INT") \cup {Null}
  /\ \A x \in items : x.seq \in 0 .. seq - 1
  /\ SortLimit >= 0 => Cardinality(items) <= SortLimit
  /\ skipped \in 0 .. Offset
  /\ Count >= 0 => Len(out) <= Count
  /\ pc \in {"aggregate", "sort", "stream", "done"}

\* A broken variant of Full, not part of the specification: one row too many.
FullLate == skipped = Offset /\ Count >= 0 /\ Len(out) > Count

\* limitOp has returned what it may.
Full == skipped = Offset /\ Count >= 0 /\ Len(out) >= Count

\* The next row from below.
Current == IF raw THEN Decoded(Head(feed)) ELSE Head(feed)
Pull    == ~Full /\ feed # <<>> /\ feed' = Tail(feed)

\* filter.Next drops a row its condition is not TRUE of.
FilterDrops ==
  /\ pc # "done"
  /\ Pull
  /\ ~Passes(Current)
  /\ UNCHANGED <<query, input, raw, groups, items, seq, seen, skipped, out, pc>>

\* aggregate.load, one row and the end of it.
AggregateRow ==
  /\ pc = "aggregate"
  /\ Pull
  /\ Passes(Current)
  /\ LET key == GroupKey(Current)
         g   == IF key \in DOMAIN groups THEN groups[key]
                ELSE [value |-> IF query.shape.group = "a" THEN Current.a ELSE Null, acc |-> NewAccumulators]
     IN  groups' = [k \in DOMAIN groups \cup {key} |->
                      IF k = key THEN [g EXCEPT !.acc = Add(g.acc, Current.b)] ELSE groups[k]]
  /\ UNCHANGED <<query, input, raw, items, seq, seen, skipped, out, pc>>

\* The rows an Aggregate becomes: the groups in the order of their keys, and
\* without a GROUP BY there is always one.
Produced ==
  IF query.shape.group = "all" /\ groups = <<>>
  THEN <<Result([value |-> Null, acc |-> NewAccumulators])>>
  ELSE LET keys == Ascending(DOMAIN groups, BytesBefore)
       IN  [i \in DOMAIN keys |-> Result(groups[keys[i]])]

AggregateDone ==
  /\ pc = "aggregate"
  /\ ~Full
  /\ feed = <<>>
  /\ feed' = Produced
  /\ raw' = FALSE
  /\ pc' = AfterScan
  /\ UNCHANGED <<query, input, groups, items, seq, seen, skipped, out>>

\* sortOp.load: all items, or the first of them in a heap.
SortRow ==
  /\ pc = "sort"
  /\ Pull
  /\ Passes(Current)
  /\ LET item == [row |-> Current, seq |-> seq]
     IN  items' = IF SortLimit < 0 \/ Cardinality(items) < SortLimit THEN items \cup {item}
                  ELSE IF SortLimit > 0 /\ Earlier(item, Root(items))
                  THEN (items \ {Root(items)}) \cup {item}
                  ELSE items
  /\ seq' = seq + 1
  /\ UNCHANGED <<query, input, raw, groups, seen, skipped, out, pc>>

SortDone ==
  /\ pc = "sort"
  /\ ~Full
  /\ feed = <<>>
  /\ LET sorted == Ascending(items, Earlier)
     IN  feed' = [i \in DOMAIN sorted |-> sorted[i].row]
  /\ raw' = FALSE
  /\ pc' = "stream"
  /\ UNCHANGED <<query, input, groups, items, seq, seen, skipped, out>>

\* A row on its way through project.Next, and what distinct.Next and
\* limitOp.Next do with it.
Streams == /\ pc = "stream"
           /\ Pull
           /\ Passes(Current)

Repeated == query.distinct /\ EncodedRow(Projected(Current)) \in seen

DistinctDrops ==
  /\ Streams
  /\ Repeated
  /\ UNCHANGED <<query, input, raw, groups, items, seq, seen, skipped, out, pc>>

\* A broken variant of Remember, not part of the specification: DISTINCT does
\* not know what was dropped for the OFFSET.
RememberReturned ==
  seen' = IF query.distinct /\ skipped = Offset THEN seen \cup {EncodedRow(Projected(Current))} ELSE seen

Remember == seen' = IF query.distinct THEN seen \cup {EncodedRow(Projected(Current))} ELSE seen

LimitSkips ==
  /\ Streams
  /\ ~Repeated
  /\ skipped < Offset
  /\ skipped' = skipped + 1
  /\ Remember
  /\ UNCHANGED <<query, input, raw, groups, items, seq, out, pc>>

Returned ==
  /\ Streams
  /\ ~Repeated
  /\ skipped = Offset
  /\ out' = Append(out, Projected(Current))
  /\ Remember
  /\ UNCHANGED <<query, input, raw, groups, items, seq, skipped, pc>>

\* Rows.Next returns false: at the limit, or when the rows are used up.
End ==
  /\ pc # "done"
  /\ Full \/ (pc = "stream" /\ feed = <<>>)
  /\ pc' = "done"
  /\ UNCHANGED <<query, input, feed, raw, groups, items, seq, seen, skipped, out>>

Next == \/ FilterDrops \/ AggregateRow \/ AggregateDone \/ SortRow \/ SortDone
        \/ DistinctDrops \/ LimitSkips \/ Returned \/ End

Spec == Init /\ [][Next]_vars

-----------------------------------------------------------------------------
(***************************************************************************)
(* What a SELECT means.                                                    *)
(***************************************************************************)
\* The elements of a sequence at some positions, and these in a row.
Arranged(rows, places) == [k \in DOMAIN places |-> rows[places[k]]]
InARow(P) == Ascending(P, LAMBDA i, j : i < j)

\* The positions of the rows the WHERE clause is TRUE of, and these rows.
Kept   == {i \in DOMAIN input : query.filtered => input[i].b # Null}
Wanted == Arranged(input, InARow(Kept))

\* The aggregates of the rows at some positions of a sequence.
Summary(rows, P) ==
  LET present  == {i \in P : rows[i].b # Null}
      values   == {rows[i].b : i \in present}
      total    == MapThenSumSet(LAMBDA i : rows[i].b.v, present)
      Least(S) == CHOOSE x \in S : \A y \in S : ~Before(y, x)
      Most(S)  == CHOOSE x \in S : \A y \in S : ~Before(x, y)
      IfAny(v) == IF present = {} THEN Null ELSE v
  IN  [rows  |-> Cardinality(P),
       count |-> Cardinality(present),
       sum   |-> IfAny(Value("INT", Wrap(total))),
       min   |-> IfAny(Least(values)),
       max   |-> IfAny(Most(values))]

\* The rows of a group have values that are equal to the first of them, NULL
\* being equal to NULL; groups ascend by value.
Groups(P) ==
  LET firsts   == {i \in P : \A j \in P : j < i => ~Equal(input[j].a, input[i].a)}
      sorted   == Ascending({input[i].a : i \in firsts}, Before)
      Group(v) == Result([value |-> v, acc |-> Summary(input, {i \in P : Equal(input[i].a, v)})])
  IN  IF query.shape.group = "all"
      THEN <<Result([value |-> Null, acc |-> Summary(input, P)])>>
      ELSE [k \in DOMAIN sorted |-> Group(sorted[k])]

Sorted(rows) ==
  IF Order = NoOrder THEN rows
  ELSE Arranged(rows, Ascending(DOMAIN rows,
         LAMBDA i, j : \/ Precedes(rows[i], rows[j])
                       \/ ~Precedes(rows[j], rows[i]) /\ i < j))

\* The positions of the rows that no row in front of them is equal to, value
\* by value.
Firsts(rows) ==
  {i \in DOMAIN rows :
     query.distinct => \A j \in 1 .. i - 1 : \E c \in DOMAIN rows[i] : ~Equal(rows[j][c], rows[i][c])}

Windowed(rows) ==
  LET last == IF Count < 0 \/ Offset + Count > Len(rows) THEN Len(rows) ELSE Offset + Count
  IN  SubSeq(rows, Offset + 1, last)

OfAll(rows) == [k \in DOMAIN rows |-> Projected(rows[k])]

\* Values are told apart as types.Order tells them, which is what the comment
\* on it says of GROUP BY and DISTINCT (value.go:222-224).
Answer ==
  LET below == IF IsGrouped THEN Groups(Kept) ELSE Wanted
      rows  == OfAll(Sorted(below))
  IN  Windowed(Arranged(rows, InARow(Firsts(rows))))

-----------------------------------------------------------------------------
(***************************************************************************)
(* The same where values are told apart by their encodings, of which every *)
(* value has its own.                                                      *)
(***************************************************************************)
ByValue(x, y) == Before(x, y) \/ (~Before(y, x) /\ BytesBefore(Encode(x), Encode(y)))

GroupsOf(P) ==
  LET sorted   == Ascending({input[i].a : i \in P}, ByValue)
      Group(v) == Result([value |-> v, acc |-> Summary(input, {i \in P : input[i].a = v})])
  IN  IF query.shape.group = "all"
      THEN <<Result([value |-> Null, acc |-> Summary(input, P)])>>
      ELSE [k \in DOMAIN sorted |-> Group(sorted[k])]

\* The positions of the rows no row in front of them is the same as.
News(rows) == {i \in DOMAIN rows : query.distinct => \A j \in 1 .. i - 1 : rows[j] # rows[i]}

Deduplicated(rows) == Arranged(rows, InARow(News(rows)))

AnswerByKey ==
  LET below == IF IsGrouped THEN GroupsOf(Kept) ELSE Wanted
  IN  Windowed(Deduplicated(OfAll(Sorted(below))))

-----------------------------------------------------------------------------
(***************************************************************************)
(* Properties.                                                             *)
(***************************************************************************)

\* Values whose keys are not where the values are: a NaN with its sign bit set
\* has a key in front of every number, although it sorts behind them and
\* README.md:402-403 says that sorting the keys sorts the groups by value.
InOrder == query.via = "a" \/ query.shape.group = "a" =>
             \A i \in DOMAIN input : input[i].a # Value("FLOAT", LastByte)

\* Two rows the statement tells apart by "a" have values that are equal and are
\* encoded apart, as 0.0 and -0.0 are. They come back as two groups, or as two
\* rows of a DISTINCT, although types.Order has them as one.
EncodedApart ==
  /\ query.shape.group = "a" \/ (query.distinct /\ "a" \in ToSet(Select))
  /\ \E i, j \in Kept : input[i].a # input[j].a /\ Equal(input[i].a, input[j].a)

\* The client gets the rows the statement asks for, in their order, for every
\* combination of these clauses: a sort that is left out, cut short by a LIMIT
\* or kept from it by a DISTINCT, a scan that decodes only some columns, and a
\* LIMIT + OFFSET that does not fit an integer (build.go:195-246, 330-365).
AnswerIsQuery == pc = "done" /\ InOrder /\ ~EncodedApart => out = Answer

\* Where values are equal and encoded apart, too, rows are one group, and one
\* row of a DISTINCT, exactly if their encodings are the same, whatever else
\* the statement does with them (operators.go:271-273, aggregate.go:55-101).
EncodingsDecide == pc = "done" /\ InOrder => out = AnswerByKey

\* The positions of the rows the scan has produced that the filter let through,
\* and those of one group.
Taken       == {i \in Kept : raw => i <= Len(input) - Len(feed)}
RowsOf(key) == {i \in Taken : GroupKey(input[i]) = key}

\* The rows the scan, or the Aggregate above it, has for the operators above,
\* and how many of them it has produced.
Below == IF IsGrouped THEN Produced
         ELSE LET rows == Wanted IN [k \in DOMAIN rows |-> Decoded(rows[k])]
Fed   == IF raw THEN Cardinality(Taken) ELSE Len(Below) - Len(feed)

\* What they are as items of a Sort.
Arrived == LET rows == Below IN {[row |-> rows[k], seq |-> k - 1] : k \in 1 .. Fed}

\* A Sort with a limit keeps the first items of what it has read, arrival
\* deciding among equals, so that it returns what a full sort with a LIMIT
\* above it would (operators.go:329-331, 369-379).
HeapHoldsFirst ==
  pc = "sort" =>
     LET came     == Arrived
         Place(x) == Cardinality({y \in came : Earlier(y, x)})
     IN  items = {x \in came : SortLimit < 0 \/ Place(x) < SortLimit}

\* Without a call other than COUNT(*) the scan need not decode b.
Aggregated == \E call \in ToSet(Select) \cup {Order.by} : call \notin {"a", "rows", ""}

\* At any row there is a group for each key so far and for no other, and its
\* accumulators hold the aggregates of its rows: NULL is neither counted nor
\* added nor an extreme, a sum of nothing is NULL, and a sum wraps as the sum
\* of all would (aggregate.go:129-274).
GroupsAreExact ==
  IsGrouped /\ pc # "done" =>
     /\ DOMAIN groups = {GroupKey(input[i]) : i \in Taken}
     /\ \A key \in DOMAIN groups :
           LET acc == Summary(input, RowsOf(key)) IN
           /\ groups[key].acc.rows = acc.rows
           /\ Aggregated => groups[key].acc = acc

-----------------------------------------------------------------------------
(***************************************************************************)
(* The inductive invariant the proofs rest on.                             *)
(***************************************************************************)

\* What the rows are sorted by is of one kind.
SortValues == IF Order.by = "a" THEN ValuesOfA \cup {Null} ELSE ValuesOf("INT") \cup {Null}

\* Where rows come from: the rest of the scan, until an operator has drained it.
Feeding ==
  /\ input \in Seq(Row)
  /\ pc = "aggregate" => IsGrouped
  /\ pc = "sort" => Sorts
  /\ pc # "done" => raw = (pc = "aggregate" \/ (~IsGrouped /\ (pc = "sort" \/ ~Sorts)))
  /\ raw => \E n \in 0 .. Len(input) : feed = SubSeq(input, n + 1, Len(input))
  /\ pc = "sort" /\ ~raw => Fed \in 0 .. Len(Below) /\ feed = SubSeq(Below, Fed + 1, Len(Below))
  /\ query.via = "a" =>
        \A i, j \in DOMAIN input : i < j => ~BytesBefore(Encode(input[j].a), Encode(input[i].a))

\* Every bucket has its group value and one accumulator of each kind.
Grouping ==
  /\ groups = [k \in DOMAIN groups |-> groups[k]] /\ IsFiniteSet(DOMAIN groups)
  /\ \A k \in DOMAIN groups :
       /\ k \in Seq(Byte)
       /\ groups[k] = [value |-> groups[k].value, acc |-> groups[k].acc]
       /\ groups[k].value \in ValuesOfA \cup {Null}
       /\ query.shape.group = "a" => k = Encode(groups[k].value)
       /\ groups[k].acc = [rows  |-> groups[k].acc.rows, count |-> groups[k].acc.count,
                           sum |-> groups[k].acc.sum, min |-> groups[k].acc.min, max |-> groups[k].acc.max]

\* Items are told apart by their arrival and can be compared.
Sorting ==
  /\ IsFiniteSet(items)
  /\ seq \in Nat
  /\ \A x \in items : x.row[Order.by] \in SortValues
  /\ \A x, y \in items : x.seq = y.seq => x = y
  /\ pc = "aggregate" => seq = 0
  /\ pc = "sort" => seq = Fed

\* What a Sort without a limit hands on, how many of these rows the one with its
\* limit does, and how many have gone through to the operators above it.
Top     == IF Sorts THEN Sorted(Below) ELSE Below
Reach   == LET n == Len(Below) IN IF Sorts /\ SortLimit >= 0 /\ SortLimit < n THEN SortLimit ELSE n
Through == IF raw THEN Cardinality(Taken) ELSE Reach - Len(feed)

\* Of the rows that went through, DISTINCT knows all, and what is new among them
\* was dropped for the OFFSET or returned.
Returning ==
  /\ skipped \in Nat /\ out \in Seq(ToSet(out))
  /\ pc \in {"aggregate", "sort"} => seen = {} /\ skipped = 0 /\ out = <<>>
  /\ pc = "stream" =>
       LET top  == Top
           rows == OfAll(top)
           c    == Through
           r    == Reach
           new  == News(rows)
           all  == Deduplicated(rows)
       IN  /\ ~raw => c \in 0 .. r /\ feed = SubSeq(top, c + 1, r)
           /\ seen = IF query.distinct THEN {EncodedRow(rows[k]) : k \in 1 .. c} ELSE {}
           /\ skipped + Len(out) = Cardinality({k \in new : k <= c})
           /\ skipped < Offset => out = <<>>
           /\ \A k \in DOMAIN out : out[k] = all[Offset + k]

\* The feed is what the operators have left of the rows, an Aggregate keeps a
\* bucket for each of its groups and a Sort its items apart, and what the client
\* has is what DISTINCT and the OFFSET leave of the rows that went through
\* (operators.go:241-383, aggregate.go:55-101).
Working == Feeding /\ Grouping /\ Sorting /\ Returning

\* At every row the heap and the groups are what they should be of the rows so
\* far, which is what the Sort and the Aggregate rely on when the next one comes.
IInv == TypeOK /\ Working /\ HeapHoldsFirst /\ GroupsAreExact /\ EncodingsDecide
=============================================================================
