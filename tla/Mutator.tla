------------------------------ MODULE Mutator ------------------------------
(***************************************************************************)
(* exec.Mutator: the one path by which rows are written, and the index     *)
(* entries it writes with them (exec/dml.go), over the keys of keycodec.   *)
(*                                                                         *)
(* A row is its primary key and the value of one indexable column.  The    *)
(* row of key pk of table t is the value under RowKey(t, pk); index i of   *)
(* the table has the key IndexKey(t, i, v, pk), bound to an empty value,   *)
(* for every row.  Every operator below takes the transaction's buffer and *)
(* returns the buffer after the calls to Put and Delete the Go function    *)
(* makes.                                                                  *)
(***************************************************************************)
CONSTANTS TableId,   \* table identifiers
          IndexId,   \* index identifiers
          Pk,        \* primary keys
          Alike,     \* pairs of different keys that compare as equal: -0.0 and 0.0
          Val,       \* values of the indexed column
          Entry,     \* the empty value of an index entry
          Absent,
          NoEntry

ASSUME ValueAssumption == /\ Entry \notin Val
                          /\ Absent \notin Val \cup {Entry}
                          /\ NoEntry \notin Val \cup {Entry, Absent}

ASSUME AlikeAssumption == Alike \subseteq Pk \X Pk

\* types.Equal of two primary keys.  Their row keys may still be different.
SameKey(pk, pk2) == pk = pk2 \/ <<pk, pk2>> \in Alike

RowKey(t, pk)         == <<"row", t, pk>>
IndexKey(t, i, v, pk) == <<"index", t, i, v, pk>>

RowKeys  == {RowKey(t, pk) : t \in TableId, pk \in Pk}
StoreKey == RowKeys \cup {IndexKey(t, i, v, pk) : t \in TableId, i \in IndexId, v \in Val, pk \in Pk}

INSTANCE WriteSet WITH Key <- StoreKey, Value <- Val \cup {Entry}

\* Of a table t the operators use t.id and t.indexes, the identifiers of the
\* table and of its indexes as the catalog held them when the statement was
\* planned.
HasRow(s, t, pk) == s[RowKey(t.id, pk)] # Absent

\* Mutator.writeIndexes: every index of the table as it was planned.
WriteIndexes(b, t, pk, v, cell) ==
  [k \in StoreKey |-> IF k \in {IndexKey(t.id, i, v, pk) : i \in t.indexes} THEN cell ELSE b[k]]

\* Mutator.Insert, the row not being there.
Insert(b, t, pk, v) == WriteIndexes(Mutate(b, RowKey(t.id, pk), v), t, pk, v, Entry)

\* Update as it would be if it left the entries of the old row alone.
UpdateKeepsEntries(b, t, pk, v, pk2, v2) ==
  LET moved == IF SameKey(pk, pk2) THEN b ELSE Mutate(b, RowKey(t.id, pk), Absent)
  IN  WriteIndexes(Mutate(moved, RowKey(t.id, pk2), v2), t, pk2, v2, Entry)

\* Mutator.Update of the row (pk, v) to (pk2, v2): the row moves if its key
\* is another one, which must be free then, and leaves its old entries.
Update(b, t, pk, v, pk2, v2) ==
  LET moved == IF SameKey(pk, pk2) THEN b ELSE Mutate(b, RowKey(t.id, pk), Absent)
      bare  == WriteIndexes(moved, t, pk, v, Absent)
  IN  WriteIndexes(Mutate(bare, RowKey(t.id, pk2), v2), t, pk2, v2, Entry)

\* Mutator.Delete of the row (pk, v).
Delete(b, t, pk, v) == Mutate(WriteIndexes(b, t, pk, v, Absent), RowKey(t.id, pk), Absent)

\* Index i of table t holds the entry of the row of key pk and no other one
\* for that key; an unbounded index scan sees exactly what a table scan sees
\* if this is so for every key.
EntriesFit(s, t, i, pk) == \A v \in Val : s[IndexKey(t, i, v, pk)] # Absent <=> s[RowKey(t, pk)] = v
IndexExact(s, t, i)     == \A pk \in Pk : EntriesFit(s, t, i, pk)

Exact(s, t) == \A i \in t.indexes : IndexExact(s, t.id, i)
=============================================================================
