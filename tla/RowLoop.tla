------------------------------ MODULE RowLoop ------------------------------
(***************************************************************************)
(* runInsert, runUpdate and runDelete of exec/dml.go: an INSERT writes the *)
(* rows of its VALUES one by one; an UPDATE or DELETE reads rows through   *)
(* a scan and writes each of them back, through the same overlay, before   *)
(* it reads the next one.  The scan goes over the rows of the table or     *)
(* over an index; an index scan fetches the row an entry points at when it *)
(* comes to the entry, so it reads what the statement has written so far.  *)
(*                                                                         *)
(* The scan's own iterator is the one of module FrozenScan, which          *)
(* OverlayScan is proved to implement.  The statements of one explicit     *)
(* transaction run one after another; what a statement that fails has      *)
(* written stays in the buffer.                                            *)
(***************************************************************************)
EXTENDS Mutator, Integers, FiniteSets

CONSTANT MaxStatements   \* bound: how many statements the transaction runs

ASSUME OrderAssumption == Pk \subseteq Int /\ Val \subseteq Int
ASSUME TableAssumption == 1 \in TableId /\ 1 \in IndexId
ASSUME FiniteAssumption == IsFiniteSet(Pk) /\ IsFiniteSet(Val)
ASSUME LoopBoundAssumption == MaxStatements \in Nat

VARIABLES
  base,       \* the snapshot of the transaction
  buf,        \* its write buffer
  kind,       \* the statement: "insert", "update" or "delete"
  access,     \* what the statement scans: "table" or "index"
  rest,       \* the keys its scan has yet to produce
  count,      \* the rows it has changed
  pc,         \* "ready", "scanning" or "failed"
  statements, \* how many statements have been started
  \* History, read by the properties only.
  before,     \* what the transaction saw when the statement started
  result,     \* result[pk]: what became of the row that had the key pk, or
              \* the row inserted under it
  spoilt      \* the keys between which a row was moved that compare as equal

vars == <<base, buf, kind, access, rest, count, pc, statements, before, result, spoilt>>

\* There is one table with one index.
tbl  == [id |-> 1, indexes |-> {1}]
View == Overlay(base, buf)

Row       == Pk \X Val
RowsIn(s) == {r \in Row : s[RowKey(tbl.id, r[1])] = r[2]}

\* What can become of a row, other than another row.
Unvisited == <<"unvisited">>
Dropped   == <<"filtered">>
Deleted   == <<"deleted">>

TypeOK ==
  /\ base \in Store
  /\ buf \in Buffer
  /\ kind \in {"insert", "update", "delete"}
  /\ access \in {"table", "index"}
  /\ rest \subseteq Row
  /\ count \in 0 .. Cardinality(IF spoilt = {} THEN Pk ELSE Row)
  /\ pc \in {"ready", "scanning", "failed"}
  /\ statements \in 0 .. MaxStatements
  /\ before \in Store
  /\ result \in [Pk -> Row \cup {Unvisited, Dropped, Deleted}]
  /\ spoilt \subseteq Pk

\* A committed state with the index in step, and a new transaction.
Init ==
  /\ \E rows \in [Pk -> Val \cup {Absent}] :
        base = [k \in StoreKey |->
                  IF k \in RowKeys THEN rows[k[3]]
                  ELSE IF rows[k[5]] = k[4] THEN Entry ELSE Absent]
  /\ buf = EmptyBuffer
  /\ kind = "update"
  /\ access = "table"
  /\ rest = {}
  /\ count = 0
  /\ pc = "ready"
  /\ statements = 0
  /\ before = base
  /\ result = [pk \in Pk |-> Unvisited]
  /\ spoilt = {}

-----------------------------------------------------------------------------
\* The rows a scan will produce: those of the table, or those the entries of
\* the index name, an entry being its value and its primary key.
ScanOf(s, way) ==
  IF way = "table" THEN RowsIn(s)
  ELSE {r \in Row : s[IndexKey(tbl.id, 1, r[2], r[1])] # Absent}

\* The order of the keys scanned: by primary key, or by value and key.
First(r) ==
  /\ r \in rest
  /\ \A q \in rest : IF access = "table" THEN r[1] <= q[1]
                     ELSE r[2] < q[2] \/ (r[2] = q[2] /\ r[1] <= q[1])

\* A statement starts; an INSERT scans nothing.
Open(what, way) ==
  /\ pc \in {"ready", "failed"}
  /\ statements < MaxStatements
  /\ statements' = statements + 1
  /\ kind' = what
  /\ access' = way
  /\ rest' = IF what = "insert" THEN {} ELSE ScanOf(View, way)
  /\ count' = 0
  /\ pc' = "scanning"
  /\ before' = View
  /\ result' = [pk \in Pk |-> Unvisited]
  /\ UNCHANGED <<base, buf, spoilt>>

\* What scan.Next and indexScan.Next return for the key they have come to:
\* the value the scan holds, or the row as it is now.
Fetched(r) == IF access = "table" THEN r[2] ELSE View[RowKey(tbl.id, r[1])]

\* The filter above the scan drops the row.
Filtered ==
  /\ pc = "scanning"
  /\ \E r \in rest :
        /\ First(r) /\ Fetched(r) # Absent
        /\ rest' = rest \ {r}
        /\ result' = [result EXCEPT ![r[1]] = Dropped]
  /\ UNCHANGED <<base, buf, kind, access, count, pc, statements, before, spoilt>>

\* One row of the VALUES is written; its key must not have a row.
InsertRow ==
  /\ pc = "scanning"
  /\ kind = "insert"
  /\ \E new \in Row :
        /\ ~HasRow(View, tbl, new[1])
        /\ buf' = Insert(buf, tbl, new[1], new[2])
        /\ result' = [result EXCEPT ![new[1]] = new]
  /\ count' = count + 1
  /\ UNCHANGED <<base, kind, access, rest, pc, statements, before, spoilt>>

DeleteRow ==
  /\ pc = "scanning"
  /\ kind = "delete"
  /\ \E r \in rest :
        /\ First(r) /\ Fetched(r) # Absent
        /\ rest' = rest \ {r}
        /\ buf' = Delete(buf, tbl, r[1], Fetched(r))
        /\ result' = [result EXCEPT ![r[1]] = Deleted]
  /\ count' = count + 1
  /\ UNCHANGED <<base, kind, access, pc, statements, before, spoilt>>

\* A move between two keys that compare as equal leaves the old row behind,
\* without entries, and writes over a row that has the new key.
Spoils(pk, pk2) == IF pk # pk2 /\ SameKey(pk, pk2) THEN {pk, pk2} ELSE {}

\* Broken variants of UpdateRow, not part of the specification: the scan
\* reads on in the live overlay, where it meets the row it has just moved;
\* and a row may move onto a key that is taken.
UpdateRowLive ==
  /\ pc = "scanning"
  /\ kind = "update"
  /\ \E r \in rest, new \in Row :
        /\ First(r) /\ Fetched(r) # Absent
        /\ ~SameKey(r[1], new[1]) => ~HasRow(View, tbl, new[1])
        /\ buf' = Update(buf, tbl, r[1], Fetched(r), new[1], new[2])
        /\ rest' = (rest \ {r}) \cup
                   {n \in {new} : IF access = "table" THEN n[1] > r[1] ELSE n[2] > r[2]}
        /\ result' = [result EXCEPT ![r[1]] = new]
        /\ spoilt' = spoilt \cup Spoils(r[1], new[1])
  /\ count' = count + 1
  /\ UNCHANGED <<base, kind, access, pc, statements, before>>

UpdateRowUnchecked ==
  /\ pc = "scanning"
  /\ kind = "update"
  /\ \E r \in rest, new \in Row :
        /\ First(r) /\ Fetched(r) # Absent
        /\ buf' = Update(buf, tbl, r[1], Fetched(r), new[1], new[2])
        /\ rest' = rest \ {r}
        /\ result' = [result EXCEPT ![r[1]] = new]
        /\ spoilt' = spoilt \cup Spoils(r[1], new[1])
  /\ count' = count + 1
  /\ UNCHANGED <<base, kind, access, pc, statements, before>>

\* The new row is computed from the fetched one and written.
UpdateRow ==
  /\ pc = "scanning"
  /\ kind = "update"
  /\ \E r \in rest, new \in Row :
        /\ First(r) /\ Fetched(r) # Absent
        /\ ~SameKey(r[1], new[1]) => ~HasRow(View, tbl, new[1])
        /\ buf' = Update(buf, tbl, r[1], Fetched(r), new[1], new[2])
        /\ rest' = rest \ {r}
        /\ result' = [result EXCEPT ![r[1]] = new]
        /\ spoilt' = spoilt \cup Spoils(r[1], new[1])
  /\ count' = count + 1
  /\ UNCHANGED <<base, kind, access, pc, statements, before>>

\* An expression or a constraint fails, the new key is taken, or an entry
\* names a row that is not there.
RowFails ==
  /\ pc = "scanning"
  /\ rest # {} \/ kind = "insert"
  /\ pc' = "failed"
  /\ UNCHANGED <<base, buf, kind, access, rest, count, statements, before, result, spoilt>>

Done ==
  /\ pc = "scanning"
  /\ rest = {}
  /\ pc' = "ready"
  /\ UNCHANGED <<base, buf, kind, access, rest, count, statements, before, result, spoilt>>

Next == \/ \E what \in {"insert", "update", "delete"}, way \in {"table", "index"} : Open(what, way)
        \/ Filtered \/ InsertRow \/ DeleteRow \/ UpdateRow \/ RowFails \/ Done

Spec == Init /\ [][Next]_vars

-----------------------------------------------------------------------------
(***************************************************************************)
(* Properties.                                                             *)
(***************************************************************************)

\* A row the scan has yet to come to is as it was when the statement
\* started, in the table, in the scan and in the index: no row is read that
\* the statement itself wrote, and no entry is found without its row
\* (dml.go:190-210, operators.go:156-170).  Not so for two keys that differ
\* and compare as equal once a row was moved between them (dml.go:64).
PendingUntouched ==
  pc = "scanning" => \A r \in rest : r[1] \notin spoilt =>
     /\ before[RowKey(tbl.id, r[1])] = r[2]
     /\ View[RowKey(tbl.id, r[1])] = r[2]
     /\ View[IndexKey(tbl.id, 1, r[2], r[1])] # Absent

\* The index is exact in the transaction's view between any two rows of a
\* statement, and after one that failed half way (conn.go:236-240).  What a
\* move between two such keys leaves inexact are the entries of these two.
IndexStaysExact ==
  \A i \in tbl.indexes, pk \in Pk \ spoilt : EntriesFit(View, tbl.id, i, pk)

\* A statement does to each row it read what it would have done had it read
\* them all first: rows it did not read or filtered out are as they were, no
\* row is read twice, none is lost, and none is inserted over another one
\* (dml.go:157-232).
Became(kinds) == {pk \in Pk : result[pk] \in kinds}
Kept          == {r \in RowsIn(before) : result[r[1]] \in {Unvisited, Dropped}}
Inserted      == IF kind = "insert" THEN count ELSE 0

ReadsBeforeWrites ==
  spoilt = {} =>
     /\ RowsIn(View) = Kept \cup {result[pk] : pk \in Became(Row)}
     /\ Cardinality(RowsIn(View)) =
           Cardinality(RowsIn(before)) + Inserted - Cardinality(Became({Deleted}))
     /\ count = Cardinality(Became(Row \cup {Deleted}))

-----------------------------------------------------------------------------
(***************************************************************************)
(* The inductive invariant the proofs rest on, in two layers.  The first   *)
(* is about the rows still to come, the second about what became of the    *)
(* others.                                                                 *)
(***************************************************************************)
LoopTypes == /\ base \in Store
             /\ buf \in Buffer
             /\ before \in Store
             /\ rest \subseteq Row
             /\ access \in {"table", "index"}
             /\ \A pk \in Pk : View[RowKey(tbl.id, pk)] \in Val \cup {Absent}

IInv == LoopTypes /\ IndexStaysExact /\ PendingUntouched

\* A row is changed for each one read, or for each one inserted.
Tally ==
  /\ count \in Nat
  /\ kind = "insert" => rest = {} /\ count <= Cardinality(RowsIn(View))
  /\ kind # "insert" => count + Cardinality(rest) <= Cardinality(Row)

\* Every row of the table has one origin: it was kept, or one key became it.
OneOrigin ==
  spoilt = {} =>
     /\ \A r \in rest : result[r[1]] = Unvisited
     /\ \A pk, q \in Became(Row) : result[pk][1] = result[q][1] => pk = q
     /\ \A pk \in Became(Row), r \in Kept : result[pk][1] # r[1]
     /\ kind = "insert" => \A pk \in Pk : \/ result[pk] = Unvisited
                                          \/ result[pk] \in Row /\ result[pk][1] = pk

Ledger == TypeOK /\ Tally /\ OneOrigin /\ ReadsBeforeWrites
=============================================================================
