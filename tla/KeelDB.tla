------------------------------- MODULE KeelDB -------------------------------
(***************************************************************************)
(* A keelsql database: sessions that plan statements against the catalog   *)
(* and run them in transactions, and schema changes that write through to  *)
(* the store (conn.go, catalog/catalog.go, exec/dml.go).                   *)
(*                                                                         *)
(* A transaction is the one of module SnapshotTx, which KeelTx is proved   *)
(* to implement: its snapshot is a committed state, its commit one step.   *)
(* What is added here is the content: rows, index entries and the catalog  *)
(* that says which entries a row needs.  A statement reads the catalog     *)
(* when it is planned, and neither its snapshot nor commitMu covers that   *)
(* read; a schema change holds commitMu over many single writes.           *)
(*                                                                         *)
(* There is one table name and one index name, so there is at most one     *)
(* table at a time and it has at most one index.  A DML statement changes  *)
(* one row: one that changes several does what several statements of an    *)
(* explicit transaction do, one that finds none does what a failed one     *)
(* does.  Queries change nothing; what they may find is stated by the      *)
(* properties.                                                             *)
(***************************************************************************)
EXTENDS Mutator, Integers

CONSTANTS Conn,      \* sessions
          None,
          MaxStatements,    \* bound: how many DML statements and schema changes there are
          Faults     \* TRUE: a schema change can fail half way, the process die

ASSUME IdAssumption == TableId \subseteq Nat \ {0} /\ IndexId \subseteq Nat \ {0}
ASSUME DbNoneAssumption == None \notin Conn
ASSUME DbBoundAssumption == MaxStatements \in Nat

VARIABLES
  db,          \* the committed contents of the store
  cat,         \* the catalog's entry for the table, NoTable if there is none
  nextID,      \* the catalog's next table identifier
  tx,          \* tx[c]: the transaction of the session
  snap,        \* snap[c]: its snapshot
  ws,          \* ws[c]: its write buffer
  pc,          \* pc[c]: where in a statement the session is
  plan,        \* plan[c]: the table the statement was planned against
  locker,      \* the session that runs a schema change, holding commitMu
  op,          \* which schema change
  todo,        \* the keys it has yet to write or delete
  statements,        \* how many of both there have been
  \* History, read by the properties only.
  used,        \* used[c]: the plans of the statements the transaction ran
  dirty,       \* dirty[c]: the rows others committed since c's snapshot
  anomalies    \* what has happened that can leave an index inexact

store    == <<db, cat, nextID>>
sessions == <<tx, snap, ws, pc, plan, used, dirty>>
ddl      == <<locker, op, todo>>
vars     == <<store, sessions, ddl, statements, anomalies>>

NoTable    == [id |-> 0, next |-> 0, indexes |-> {}]
Table      == [id : TableId, next : Nat, indexes : SUBSET IndexId]
EntryKeys  == StoreKey \ RowKeys

TypeOK ==
  /\ db \in Store
  /\ cat \in Table \cup {NoTable}
  /\ nextID \in Nat
  /\ tx \in [Conn -> {"none", "implicit", "explicit"}]
  /\ snap \in [Conn -> Store]
  /\ ws \in [Conn -> Buffer]
  /\ pc \in [Conn -> {"idle", "planned", "commit"}]
  /\ plan \in [Conn -> Table \cup {NoTable}]
  /\ locker \in Conn \cup {None}
  /\ op \in {"none", "create table", "drop table", "create index", "drop index"}
  /\ todo \subseteq StoreKey
  /\ statements \in 0 .. MaxStatements
  /\ used \in [Conn -> SUBSET Table]
  /\ dirty \in [Conn -> SUBSET RowKeys]
  /\ anomalies \subseteq {"conflict", "schema race", "failure", "same key"}

\* A new database.
Init ==
  /\ db = EmptyStore
  /\ cat = NoTable
  /\ nextID = 1
  /\ tx = [c \in Conn |-> "none"]
  /\ snap = [c \in Conn |-> EmptyStore]
  /\ ws = [c \in Conn |-> EmptyBuffer]
  /\ pc = [c \in Conn |-> "idle"]
  /\ plan = [c \in Conn |-> NoTable]
  /\ locker = None
  /\ op = "none"
  /\ todo = {}
  /\ statements = 0
  /\ used = [c \in Conn |-> {}]
  /\ dirty = [c \in Conn |-> {}]
  /\ anomalies = {}

View(c) == Overlay(snap[c], ws[c])

-----------------------------------------------------------------------------
(***************************************************************************)
(* Statements of a session.                                                *)
(***************************************************************************)

\* Conn.dml plans first: the catalog is read outside any transaction's
\* snapshot and outside commitMu.  Without a table planning fails.
Plan(c) ==
  /\ pc[c] = "idle"
  /\ cat # NoTable
  /\ statements < MaxStatements
  /\ plan' = [plan EXCEPT ![c] = cat]
  /\ pc' = [pc EXCEPT ![c] = "planned"]
  /\ statements' = statements + 1
  /\ UNCHANGED <<store, tx, snap, ws, used, dirty, ddl, anomalies>>

\* DB.begin, for BEGIN and for a planned statement outside a transaction.  A
\* schema change keeps it waiting.
Begin(c) ==
  /\ tx[c] = "none"
  /\ locker = None
  /\ \/ pc[c] = "idle" /\ tx' = [tx EXCEPT ![c] = "explicit"]
     \/ pc[c] = "planned" /\ tx' = [tx EXCEPT ![c] = "implicit"]
  /\ snap' = [snap EXCEPT ![c] = db]
  /\ UNCHANGED <<store, ws, pc, plan, used, dirty, ddl, statements, anomalies>>

\* The statement is over; an implicit transaction goes on to commit.
AfterDml(c, buffer) ==
  /\ ws' = [ws EXCEPT ![c] = buffer]
  /\ pc' = [pc EXCEPT ![c] = IF tx[c] = "implicit" THEN "commit" ELSE "idle"]
  /\ plan' = [plan EXCEPT ![c] = NoTable]
  /\ used' = [used EXCEPT ![c] = @ \cup {plan[c]}]
  /\ UNCHANGED <<store, tx, snap, dirty, ddl, statements>>

Running(c) == pc[c] = "planned" /\ tx[c] # "none"

RunInsert(c) ==
  /\ Running(c)
  /\ \E pk \in Pk, v \in Val :
        /\ ~HasRow(View(c), plan[c], pk)
        /\ AfterDml(c, Insert(ws[c], plan[c], pk, v))
  /\ UNCHANGED anomalies

\* A row that moves between two keys that differ and compare as equal leaves
\* the old row behind without its entries.
RunUpdate(c) ==
  /\ Running(c)
  /\ \E pk, pk2 \in Pk, v2 \in Val :
        /\ HasRow(View(c), plan[c], pk)
        /\ ~SameKey(pk, pk2) => ~HasRow(View(c), plan[c], pk2)
        /\ AfterDml(c, Update(ws[c], plan[c], pk, View(c)[RowKey(plan[c].id, pk)], pk2, v2))
        /\ anomalies' = anomalies \cup (IF pk # pk2 /\ SameKey(pk, pk2) THEN {"same key"} ELSE {})

RunDelete(c) ==
  /\ Running(c)
  /\ \E pk \in Pk :
        /\ HasRow(View(c), plan[c], pk)
        /\ AfterDml(c, Delete(ws[c], plan[c], pk, View(c)[RowKey(plan[c].id, pk)]))
  /\ UNCHANGED anomalies

Finish(c) ==
  /\ tx' = [tx EXCEPT ![c] = "none"]
  /\ snap' = [snap EXCEPT ![c] = EmptyStore]
  /\ ws' = [ws EXCEPT ![c] = EmptyBuffer]
  /\ pc' = [pc EXCEPT ![c] = "idle"]
  /\ plan' = [plan EXCEPT ![c] = NoTable]
  /\ used' = [used EXCEPT ![c] = {}]

\* A statement that fails leaves an explicit transaction open, and rolls an
\* implicit one back.
DmlFailed(c) ==
  /\ Running(c)
  /\ IF tx[c] = "implicit"
     THEN Finish(c) /\ dirty' = [dirty EXCEPT ![c] = {}]
     ELSE /\ pc' = [pc EXCEPT ![c] = "idle"]
          /\ plan' = [plan EXCEPT ![c] = NoTable]
          /\ UNCHANGED <<tx, snap, ws, used, dirty>>
  /\ UNCHANGED <<store, ddl, statements, anomalies>>

\* Two transactions wrote one row, and the second did not see the first.
Conflicts(c) == Touched(ws[c]) \cap dirty[c] # {}

\* The transaction wrote rows of the table as it was before an index that
\* exists now was created.
MissesIndex(c) == \E t \in used[c] : t.id = cat.id /\ ~(cat.indexes \subseteq t.indexes)

\* Broken variants, not part of the specification: Commit as it would be if
\* it applied its puts without taking commitMu, and if it took the buffer
\* for the new contents of the store.
CommitUnlocked(c) ==
  /\ \/ pc[c] = "commit"
     \/ pc[c] = "idle" /\ tx[c] = "explicit"
  /\ db' = Overlay(db, ws[c])
  /\ Finish(c)
  /\ dirty' = [d \in Conn |-> IF d = c \/ tx[d] = "none" THEN {}
                              ELSE dirty[d] \cup (Touched(ws[c]) \cap RowKeys)]
  /\ anomalies' = anomalies \cup (IF Conflicts(c) THEN {"conflict"} ELSE {})
                            \cup (IF MissesIndex(c) THEN {"schema race"} ELSE {})
  /\ UNCHANGED <<cat, nextID, ddl, statements>>

CommitReplaces(c) ==
  /\ pc[c] = "commit"
  /\ db' = ws[c]
  /\ Finish(c)
  /\ dirty' = [dirty EXCEPT ![c] = {}]
  /\ UNCHANGED <<cat, nextID, ddl, statements, anomalies>>

\* Tx.Commit: unconditional, whatever was committed since the snapshot and
\* whatever has become of the schema.
Commit(c) ==
  /\ \/ pc[c] = "commit"
     \/ pc[c] = "idle" /\ tx[c] = "explicit"
  /\ Touched(ws[c]) # {} => locker = None
  /\ db' = Overlay(db, ws[c])
  /\ Finish(c)
  /\ dirty' = [d \in Conn |-> IF d = c \/ tx[d] = "none" THEN {}
                              ELSE dirty[d] \cup (Touched(ws[c]) \cap RowKeys)]
  /\ anomalies' = anomalies \cup (IF Conflicts(c) THEN {"conflict"} ELSE {})
                            \cup (IF MissesIndex(c) THEN {"schema race"} ELSE {})
  /\ UNCHANGED <<cat, nextID, ddl, statements>>

Rollback(c) ==
  /\ pc[c] = "idle"
  /\ tx[c] = "explicit"
  /\ Finish(c)
  /\ dirty' = [dirty EXCEPT ![c] = {}]
  /\ UNCHANGED <<store, ddl, statements, anomalies>>

-----------------------------------------------------------------------------
(***************************************************************************)
(* Schema changes.  Conn.ddl refuses one in an explicit transaction, takes *)
(* commitMu and keeps it until it returns.  A put of a catalog key and the *)
(* change of the catalog in memory that follows it are one step: both      *)
(* happen under the catalog's own mutex.                                   *)
(***************************************************************************)
DdlStart(c, change) ==
  /\ pc[c] = "idle"
  /\ tx[c] = "none"
  /\ locker = None
  /\ statements < MaxStatements
  /\ locker' = c
  /\ op' = change
  /\ statements' = statements + 1
  /\ UNCHANGED <<db, sessions, anomalies>>

\* Catalog.Create bumps the identifier counter before it stores the table.
CreateTable(c) ==
  /\ DdlStart(c, "create table")
  /\ cat = NoTable
  /\ nextID \in TableId
  /\ nextID' = nextID + 1
  /\ todo' = {}
  /\ UNCHANGED cat

\* A broken variant: the counter of index identifiers stays where it is.
CreateIndexReusesId(c) ==
  /\ DdlStart(c, "create index")
  /\ cat.indexes = {}
  /\ cat.next \in IndexId
  /\ cat' = [cat EXCEPT !.indexes = {cat.next}]
  /\ todo' = {IndexKey(cat.id, cat.next, db[RowKey(cat.id, pk)], pk) :
                 pk \in {q \in Pk : HasRow(db, cat, q)}}
  /\ UNCHANGED nextID

\* Catalog.AddIndex stores the table with the index in it; BuildIndex then
\* reads the rows and puts their entries one by one.
CreateIndex(c) ==
  /\ DdlStart(c, "create index")
  /\ cat.indexes = {}
  /\ cat.next \in IndexId
  /\ cat' = [cat EXCEPT !.next = @ + 1, !.indexes = {cat.next}]
  /\ todo' = {IndexKey(cat.id, cat.next, db[RowKey(cat.id, pk)], pk) :
                 pk \in {q \in Pk : HasRow(db, cat, q)}}
  /\ UNCHANGED nextID

EntriesOf(t) == {k \in EntryKeys : k[2] = t.id /\ k[3] \in t.indexes /\ db[k] # Absent}
RowsOf(t)    == {k \in RowKeys : k[2] = t.id /\ db[k] # Absent}

\* DropIndexEntries first, RemoveIndex when they are gone.
DropIndex(c) ==
  /\ DdlStart(c, "drop index")
  /\ cat.indexes # {}
  /\ todo' = EntriesOf(cat)
  /\ UNCHANGED <<cat, nextID>>

\* DropTableData first, Catalog.Drop when it is gone.
DropTable(c) ==
  /\ DdlStart(c, "drop table")
  /\ cat # NoTable
  /\ todo' = RowsOf(cat) \cup EntriesOf(cat)
  /\ UNCHANGED <<cat, nextID>>

\* One put or delete; a table's rows go before its index entries.
DdlWrite(c) ==
  /\ locker = c
  /\ \E k \in todo :
        /\ todo \cap RowKeys # {} => k \in RowKeys
        /\ db' = [db EXCEPT ![k] = IF op = "create index" THEN Entry ELSE Absent]
        /\ todo' = todo \ {k}
  /\ UNCHANGED <<cat, nextID, sessions, locker, op, statements, anomalies>>

Unlock == locker' = None /\ op' = "none" /\ todo' = {}

\* The last write of the change to the catalog, and the return.
DdlDone(c) ==
  /\ locker = c
  /\ todo = {}
  /\ cat' = CASE op = "create table" -> [id |-> nextID - 1, next |-> 1, indexes |-> {}]
              [] op = "create index" -> cat
              [] op = "drop index"   -> [cat EXCEPT !.indexes = {}]
              [] op = "drop table"   -> NoTable
  /\ Unlock
  /\ UNCHANGED <<db, nextID, sessions, statements, anomalies>>

\* A write fails: the change returns and what it did stays.
DdlFailed(c) ==
  /\ Faults
  /\ locker = c
  /\ Unlock
  /\ anomalies' = anomalies \cup (IF op = "create table" THEN {} ELSE {"failure"})
  /\ UNCHANGED <<store, sessions, statements>>

\* The process dies between two steps.  Catalog.Load reads back what the
\* store holds, which is what the catalog in memory said.
Crash ==
  /\ Faults
  /\ tx' = [c \in Conn |-> "none"]
  /\ snap' = [c \in Conn |-> EmptyStore]
  /\ ws' = [c \in Conn |-> EmptyBuffer]
  /\ pc' = [c \in Conn |-> "idle"]
  /\ plan' = [c \in Conn |-> NoTable]
  /\ used' = [c \in Conn |-> {}]
  /\ dirty' = [c \in Conn |-> {}]
  /\ Unlock
  /\ anomalies' = anomalies \cup (IF op \in {"none", "create table"} THEN {} ELSE {"failure"})
  /\ UNCHANGED <<store, statements>>

-----------------------------------------------------------------------------
Dml(c) == \/ Plan(c) \/ Begin(c) \/ RunInsert(c) \/ RunUpdate(c) \/ RunDelete(c)
          \/ DmlFailed(c) \/ Commit(c) \/ Rollback(c)

Ddl(c) == \/ CreateTable(c) \/ CreateIndex(c) \/ DropIndex(c) \/ DropTable(c)
          \/ DdlWrite(c) \/ DdlDone(c) \/ DdlFailed(c)

Next == (\E c \in Conn : Dml(c) \/ Ddl(c)) \/ Crash

Spec == Init /\ [][Next]_vars

-----------------------------------------------------------------------------
(***************************************************************************)
(* Properties.                                                             *)
(***************************************************************************)

\* Every index is exact, for every interleaving of the sessions, as long as
\* no two transactions wrote the same row unseen by each other, none wrote
\* rows planned before an index was created and committed after, none moved a
\* row between keys that differ and compare as equal, and no schema change
\* was cut short: these four are all there is (dml.go:64, 95-97, README "an
\* unbounded index scan").
IndexExactUnlessSpoilt ==
  anomalies = {} /\ locker = None => Exact(db, cat)

\* What a transaction sees through an index is what it sees in the table,
\* its own uncommitted writes included and whatever others commit in the
\* meantime, if it began with the index complete and its statements know the
\* index (dml.go:22-26, operators.go:164-166).  Both conditions can fail: a
\* statement is planned against today's catalog (conn.go:199, 222), which may
\* name an index younger than the snapshot, or lack one.
Knows(plans, t, i) == \A u \in plans : u.id = t => i \in u.indexes

ViewExact ==
  "same key" \notin anomalies =>
     \A c \in Conn, t \in TableId, i \in IndexId :
        tx[c] # "none" /\ Knows(used[c], t, i) /\ IndexExact(snap[c], t, i) => IndexExact(View(c), t, i)

\* Identifiers are never used twice, across failures and restarts too: what
\* a statement planned against a dropped table or index still writes, or a
\* failed schema change left behind, never becomes part of a new one
\* (catalog.go:243-261, 298-300).
FreshIdsAreUnused ==
  \A k \in StoreKey :
     (db[k] # Absent \/ \E c \in Conn : ws[c][k] \notin {NoEntry, Absent}) =>
        /\ k[2] < nextID
        /\ k[2] = cat.id /\ k \in EntryKeys => k[3] < cat.next

-----------------------------------------------------------------------------
(***************************************************************************)
(* The inductive invariant the proofs rest on.                             *)
(***************************************************************************)

\* A row is bound to a value of its column, never to an entry.
RowsHoldValues ==
  \A k \in RowKeys :
     /\ db[k] \in Val \cup {Absent}
     /\ \A c \in Conn : /\ snap[c][k] \in Val \cup {Absent}
                        /\ ws[c][k] \in Val \cup {Absent, NoEntry}

\* What a session holds at each point.
SessionOK ==
  \A c \in Conn : /\ tx[c] = "none" => ws[c] = EmptyBuffer /\ used[c] = {}
                  /\ pc[c] = "planned" => plan[c] # NoTable

\* How far the catalog is when a schema change is under way.
ChangeOK ==
  /\ locker = None <=> op = "none"
  /\ op \in {"none", "create table"} => todo = {}
  /\ op = "create table" => cat = NoTable /\ nextID - 1 \in TableId
  /\ op \in {"create index", "drop index", "drop table"} => cat # NoTable
  /\ op = "drop index" => todo \subseteq EntryKeys
  /\ op = "create index" =>
        /\ cat.next - 1 \in IndexId
        /\ cat.indexes = {cat.next - 1}
        /\ \A k \in todo : k \in EntryKeys /\ k[2] = cat.id /\ k[3] = cat.next - 1

\* The first identifier that no table has had.
FreshId == IF op = "create table" THEN nextID - 1 ELSE nextID

\* Whatever a plan, a snapshot, a buffer or the store names has an identifier
\* that was given out: table t has, and its index i, if it is the table there is.
TableGivenOut(t)    == t < FreshId
IndexGivenOut(t, i) == t = cat.id => i < cat.next

PlansAreGivenOut ==
  /\ TableGivenOut(cat.id) /\ \A i \in cat.indexes : i < cat.next
  /\ \A c \in Conn : \A t \in used[c] \cup {plan[c]} :
        TableGivenOut(t.id) /\ \A i \in t.indexes : IndexGivenOut(t.id, i)

KeysAreGivenOut ==
  \A k \in StoreKey :
     \/ db[k] # Absent
     \/ \E c \in Conn : snap[c][k] # Absent \/ ws[c][k] \notin {NoEntry, Absent}
     => TableGivenOut(k[2]) /\ (k \in EntryKeys => IndexGivenOut(k[2], k[3]))

\* What a buffer over a snapshot holds of a row and of its entries: of a row
\* it leaves alone no entries; of one it writes the entry of the new value,
\* and a tombstone for the entry of the value the snapshot has.
BufferFits(b, s, plans) ==
  \A t \in TableId, i \in IndexId, v \in Val, pk \in Pk :
     LET row   == b[RowKey(t, pk)]
         entry == b[IndexKey(t, i, v, pk)]
     IN  /\ row = NoEntry => entry = NoEntry
         /\ row # NoEntry /\ Knows(plans, t, i) =>
               IF row = v THEN entry = Entry
               ELSE entry = Absent \/ (entry = NoEntry /\ s[RowKey(t, pk)] # v)

BuffersFit == "same key" \notin anomalies => \A c \in Conn : BufferFits(ws[c], snap[c], used[c])

\* A row of the table that nobody else has written since a transaction began
\* is what its snapshot says.
SnapshotsAreCurrent ==
  "failure" \notin anomalies /\ op # "drop table" =>
     \A c \in Conn, k \in RowKeys :
        tx[c] # "none" /\ k[2] = cat.id /\ k \notin dirty[c] => db[k] = snap[c][k]

\* An index is exact, or it is being built and the entries it lacks are
\* those still to be written.
ExactOrBuilding ==
  anomalies = {} =>
     /\ op = "none" => Exact(db, cat)
     /\ op = "create index" =>
           \A v \in Val, pk \in Pk :
              LET k == IndexKey(cat.id, cat.next - 1, v, pk)
              IN  (db[k] # Absent \/ k \in todo) <=> db[RowKey(cat.id, pk)] = v

IInv == /\ TypeOK
        /\ RowsHoldValues
        /\ SessionOK
        /\ ChangeOK
        /\ PlansAreGivenOut
        /\ KeysAreGivenOut
        /\ BuffersFit
        /\ SnapshotsAreCurrent
        /\ ExactOrBuilding

-----------------------------------------------------------------------------
(***************************************************************************)
(* Claims of the code that do not hold.                                    *)
(***************************************************************************)

\* Every row of the table has its entry in index i.
Indexed(s, t, i) ==
  \A pk \in Pk : HasRow(s, t, pk) => s[IndexKey(t.id, i, s[RowKey(t.id, pk)], pk)] # Absent

\* The claim of the comments on Mutator (dml.go:22-26) and writeIndexes
\* (dml.go:95-97): no row lacks an index entry, because the only path to the
\* row also writes the entries, so that an index scan without bounds sees what
\* a table scan sees; in the store, and in the view of a statement planned
\* through an index.  Stated where no two transactions collided and nothing
\* failed.
EveryRowIndexed ==
  anomalies \subseteq {"schema race"} =>
     /\ locker = None => \A i \in cat.indexes : Indexed(db, cat, i)
     /\ \A c \in Conn : Running(c) => \A i \in plan[c].indexes : Indexed(View(c), plan[c], i)

\* The claim of the comment in the index scan (operators.go:164-166): an
\* index entry that points at no row "should never happen".  Stated where
\* nothing failed and no schema changed under a transaction.
NoDanglingEntry ==
  anomalies \subseteq {"conflict"} /\ locker = None =>
     \A pk \in Pk, v \in Val, i \in cat.indexes :
        db[IndexKey(cat.id, i, v, pk)] # Absent => HasRow(db, cat, pk)
=============================================================================
