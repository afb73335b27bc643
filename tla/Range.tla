------------------------------- MODULE Range -------------------------------
(***************************************************************************)
(* The interval of a column that the predicates of a WHERE clause leave    *)
(* (plan/range.go), over any order of values.                              *)
(***************************************************************************)
CONSTANTS Before(_, _),   \* types.Order(a, b) < 0
          Null

\* types.Equal
Same(a, b) == ~Before(a, b) /\ ~Before(b, a)

NoBound             == [value |-> Null, inclusive |-> FALSE, set |-> FALSE]
Bound(v, inclusive) == [value |-> v, inclusive |-> inclusive, set |-> TRUE]

Unbounded  == [lo |-> NoBound, hi |-> NoBound]
Bounded(r) == r.lo.set \/ r.hi.set
IsPoint(r) == /\ r.lo.set /\ r.lo.inclusive
              /\ r.hi.set /\ r.hi.inclusive
              /\ Same(r.lo.value, r.hi.value)

TighterLo(a, b) == \/ Before(b.value, a.value)
                   \/ Same(a.value, b.value) /\ ~a.inclusive /\ b.inclusive
TighterHi(a, b) == \/ Before(a.value, b.value)
                   \/ Same(a.value, b.value) /\ ~a.inclusive /\ b.inclusive

\* A broken variant of Intersect, not part of the specification: of two
\* bounds on one side the later one stays.
IntersectLast(r, o) == [lo |-> IF o.lo.set THEN o.lo ELSE r.lo,
                        hi |-> IF o.hi.set THEN o.hi ELSE r.hi]

\* The tighter of each bound.
Intersect(r, o) ==
  [lo |-> IF o.lo.set /\ (~r.lo.set \/ TighterLo(o.lo, r.lo)) THEN o.lo ELSE r.lo,
   hi |-> IF o.hi.set /\ (~r.hi.set \/ TighterHi(o.hi, r.hi)) THEN o.hi ELSE r.hi]

\* Range.Selectivity, of the 1000 rows a table is taken to have.
EstimatedRows == 1000
Matched(r) == IF IsPoint(r) THEN 1
              ELSE IF r.lo.set /\ r.hi.set THEN 50
              ELSE IF Bounded(r) THEN 300
              ELSE EstimatedRows
=============================================================================
