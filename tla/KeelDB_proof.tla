---------------------------- MODULE KeelDB_proof ----------------------------
(***************************************************************************)
(* Proofs about a database: IInv is inductive, so indexes are exact and    *)
(* identifiers fresh for any number of sessions, tables, indexes, keys and *)
(* values, and whatever fails.  The heart of it is BuffersFit, which says  *)
(* of a write buffer alone, whatever is committed meanwhile, what it will  *)
(* do to an index; SnapshotsAreCurrent is why that is right when it is     *)
(* applied, and the identifiers never used twice are why a new table or    *)
(* index begins empty.                                                     *)
(***************************************************************************)
EXTENDS KeelDB, Mutator_proof

(***************************************************************************)
(* Tables, stores and buffers.                                             *)
(***************************************************************************)
LEMMA TableFacts ==
  /\ \A t \in Table : /\ IsTable(t) /\ t # NoTable
                      /\ t.id \in Nat /\ t.id # 0 /\ t.next \in Nat
                      /\ \A i \in t.indexes : i \in Nat /\ i # 0
  /\ NoTable.id = 0 /\ NoTable.next = 0 /\ NoTable.indexes = {}
  /\ \A t \in Table \cup {NoTable} : t.id \in Nat /\ t.next \in Nat /\ t.indexes \subseteq Nat
<1>1. ASSUME NEW t \in Table
      PROVE  /\ t.id \in TableId /\ t.next \in Nat /\ t.indexes \subseteq IndexId
             /\ t.id \in Nat /\ t.id # 0 /\ \A i \in t.indexes : i \in Nat /\ i # 0
  BY IdAssumption DEF Table
<1>2. NoTable.id = 0 /\ NoTable.next = 0 /\ NoTable.indexes = {}
  BY DEF NoTable
<1> QED
  BY <1>1, <1>2 DEF IsTable

LEMMA EmptyTypes == EmptyStore \in Store /\ EmptyBuffer \in Buffer
BY DEF EmptyStore, EmptyBuffer, Store, Buffer, Cell

LEMMA EmptyCells ==
  /\ \A k \in StoreKey : EmptyStore[k] = Absent /\ EmptyBuffer[k] = NoEntry
  /\ \A k \in RowKeys : EmptyStore[k] = Absent /\ EmptyBuffer[k] = NoEntry
<1>1. RowKeys \subseteq StoreKey
  BY DEF StoreKey
<1> QED
  BY <1>1 DEF EmptyStore, EmptyBuffer

LEMMA OverlayType ==
  ASSUME NEW s \in Store, NEW b \in Buffer
  PROVE  /\ Overlay(s, b) \in Store
         /\ \A k \in StoreKey : Overlay(s, b)[k] = IF b[k] = NoEntry THEN s[k] ELSE b[k]
BY DEF Store, Buffer, Overlay, Cell

LEMMA OverlayNothing ==
  ASSUME NEW s \in Store, NEW b \in Buffer, Touched(b) = {}
  PROVE  Overlay(s, b) = s
BY DEF Store, Buffer, Overlay, Touched

LEMMA OneMore ==
  ASSUME NEW n \in 0 .. MaxStatements, n < MaxStatements
  PROVE  n + 1 \in 0 .. MaxStatements
BY DbBoundAssumption

LEMMA OneLess ==
  ASSUME NEW n \in Nat, NEW t \in Nat, t < n \/ t < n - 1
  PROVE  t < n
OBVIOUS

(***************************************************************************)
(* Buffers that fit.                                                       *)
(***************************************************************************)
LEMMA EmptyFits ==
  ASSUME NEW s, NEW plans
  PROVE  BufferFits(EmptyBuffer, s, plans)
BY RowKeyFacts, IndexKeyFacts DEF BufferFits, EmptyBuffer

LEMMA InsertFits ==
  ASSUME NEW s \in Store, NEW b \in Buffer, NEW plans, BufferFits(b, s, plans),
         NEW t, IsTable(t), NEW pk \in Pk, NEW v \in Val, ~HasRow(Overlay(s, b), t, pk)
  PROVE  BufferFits(Insert(b, t, pk, v), s, plans \cup {t})
<1> DEFINE b2 == Insert(b, t, pk, v)
<1>1. RowWritten(b2, b, t, pk, v, v, Entry)
  BY InsertBuffer
<1> HIDE DEF b2
<1>2. b[RowKey(t.id, pk)] = Absent \/ (b[RowKey(t.id, pk)] = NoEntry /\ s[RowKey(t.id, pk)] = Absent)
  BY OverlayType, RowKeyFacts DEF HasRow, IsTable
<1>3. ASSUME NEW u \in TableId, NEW i \in IndexId, NEW w \in Val, NEW q \in Pk
      PROVE  /\ b2[RowKey(u, q)] = NoEntry => b2[IndexKey(u, i, w, q)] = NoEntry
             /\ b2[RowKey(u, q)] # NoEntry /\ Knows(plans \cup {t}, u, i) =>
                   IF b2[RowKey(u, q)] = w THEN b2[IndexKey(u, i, w, q)] = Entry
                   ELSE \/ b2[IndexKey(u, i, w, q)] = Absent
                        \/ b2[IndexKey(u, i, w, q)] = NoEntry /\ s[RowKey(u, q)] # w
  <2>1. /\ b2[RowKey(u, q)] = IF u = t.id /\ q = pk THEN v ELSE b[RowKey(u, q)]
        /\ b2[IndexKey(u, i, w, q)] =
              IF u = t.id /\ i \in t.indexes /\ w = v /\ q = pk THEN Entry ELSE b[IndexKey(u, i, w, q)]
    BY <1>1 DEF RowWritten
  <2>2. /\ b[RowKey(u, q)] = NoEntry => b[IndexKey(u, i, w, q)] = NoEntry
        /\ b[RowKey(u, q)] # NoEntry /\ Knows(plans, u, i) =>
              IF b[RowKey(u, q)] = w THEN b[IndexKey(u, i, w, q)] = Entry
              ELSE \/ b[IndexKey(u, i, w, q)] = Absent
                   \/ b[IndexKey(u, i, w, q)] = NoEntry /\ s[RowKey(u, q)] # w
    BY DEF BufferFits
  <2>3. Knows(plans \cup {t}, u, i) => Knows(plans, u, i) /\ (u = t.id => i \in t.indexes)
    BY DEF Knows
  <2> QED
    BY <2>1, <2>2, <2>3, <1>2, ValueAssumption
<1> QED
  BY <1>3 DEF BufferFits, b2

LEMMA DeleteFits ==
  ASSUME NEW s \in Store, NEW b \in Buffer, NEW plans, BufferFits(b, s, plans),
         NEW t, IsTable(t), NEW pk \in Pk, NEW v \in Val, Overlay(s, b)[RowKey(t.id, pk)] = v
  PROVE  BufferFits(Delete(b, t, pk, v), s, plans \cup {t})
<1> DEFINE b2 == Delete(b, t, pk, v)
<1>1. RowWritten(b2, b, t, pk, v, Absent, Absent)
  BY DeleteBuffer
<1> HIDE DEF b2
<1>2. b[RowKey(t.id, pk)] = v \/ (b[RowKey(t.id, pk)] = NoEntry /\ s[RowKey(t.id, pk)] = v)
  BY OverlayType, RowKeyFacts DEF IsTable
<1>3. ASSUME NEW u \in TableId, NEW i \in IndexId, NEW w \in Val, NEW q \in Pk
      PROVE  /\ b2[RowKey(u, q)] = NoEntry => b2[IndexKey(u, i, w, q)] = NoEntry
             /\ b2[RowKey(u, q)] # NoEntry /\ Knows(plans \cup {t}, u, i) =>
                   IF b2[RowKey(u, q)] = w THEN b2[IndexKey(u, i, w, q)] = Entry
                   ELSE \/ b2[IndexKey(u, i, w, q)] = Absent
                        \/ b2[IndexKey(u, i, w, q)] = NoEntry /\ s[RowKey(u, q)] # w
  <2>1. /\ b2[RowKey(u, q)] = IF u = t.id /\ q = pk THEN Absent ELSE b[RowKey(u, q)]
        /\ b2[IndexKey(u, i, w, q)] =
              IF u = t.id /\ i \in t.indexes /\ w = v /\ q = pk THEN Absent ELSE b[IndexKey(u, i, w, q)]
    BY <1>1 DEF RowWritten
  <2>2. /\ b[RowKey(u, q)] = NoEntry => b[IndexKey(u, i, w, q)] = NoEntry
        /\ b[RowKey(u, q)] # NoEntry /\ Knows(plans, u, i) =>
              IF b[RowKey(u, q)] = w THEN b[IndexKey(u, i, w, q)] = Entry
              ELSE \/ b[IndexKey(u, i, w, q)] = Absent
                   \/ b[IndexKey(u, i, w, q)] = NoEntry /\ s[RowKey(u, q)] # w
    BY DEF BufferFits
  <2>3. Knows(plans \cup {t}, u, i) => Knows(plans, u, i) /\ (u = t.id => i \in t.indexes)
    BY DEF Knows
  <2> QED
    BY <2>1, <2>2, <2>3, <1>2, ValueAssumption
<1> QED
  BY <1>3 DEF BufferFits, b2

LEMMA UpdateFits ==
  ASSUME NEW s \in Store, NEW b \in Buffer, NEW plans, BufferFits(b, s, plans),
         NEW t, IsTable(t), NEW pk \in Pk, NEW v \in Val, NEW pk2 \in Pk, NEW v2 \in Val,
         Overlay(s, b)[RowKey(t.id, pk)] = v,
         pk = pk2 \/ (~SameKey(pk, pk2) /\ ~HasRow(Overlay(s, b), t, pk2))
  PROVE  BufferFits(Update(b, t, pk, v, pk2, v2), s, plans \cup {t})
<1> DEFINE b2 == Update(b, t, pk, v, pk2, v2)
<1>1. RowMoved(b2, b, t, pk, v, pk2, v2)
  BY UpdateBuffer
<1> HIDE DEF b2
<1>2. b[RowKey(t.id, pk)] = v \/ (b[RowKey(t.id, pk)] = NoEntry /\ s[RowKey(t.id, pk)] = v)
  BY OverlayType, RowKeyFacts DEF IsTable
<1>3. pk # pk2 => \/ b[RowKey(t.id, pk2)] = Absent
                  \/ b[RowKey(t.id, pk2)] = NoEntry /\ s[RowKey(t.id, pk2)] = Absent
  BY OverlayType, RowKeyFacts DEF HasRow, IsTable
<1>4. ASSUME NEW u \in TableId, NEW i \in IndexId, NEW w \in Val, NEW q \in Pk
      PROVE  /\ b2[RowKey(u, q)] = NoEntry => b2[IndexKey(u, i, w, q)] = NoEntry
             /\ b2[RowKey(u, q)] # NoEntry /\ Knows(plans \cup {t}, u, i) =>
                   IF b2[RowKey(u, q)] = w THEN b2[IndexKey(u, i, w, q)] = Entry
                   ELSE \/ b2[IndexKey(u, i, w, q)] = Absent
                        \/ b2[IndexKey(u, i, w, q)] = NoEntry /\ s[RowKey(u, q)] # w
  <2>1. /\ b2[RowKey(u, q)] =
              IF u = t.id /\ q = pk2 THEN v2
              ELSE IF u = t.id /\ q = pk THEN Absent
              ELSE b[RowKey(u, q)]
        /\ b2[IndexKey(u, i, w, q)] =
              IF u = t.id /\ i \in t.indexes /\ q = pk2 /\ w = v2 THEN Entry
              ELSE IF u = t.id /\ i \in t.indexes /\ q = pk /\ w = v THEN Absent
              ELSE b[IndexKey(u, i, w, q)]
    BY <1>1 DEF RowMoved, RowAfter, EntryAfter
  <2>2. /\ b[RowKey(u, q)] = NoEntry => b[IndexKey(u, i, w, q)] = NoEntry
        /\ b[RowKey(u, q)] # NoEntry /\ Knows(plans, u, i) =>
              IF b[RowKey(u, q)] = w THEN b[IndexKey(u, i, w, q)] = Entry
              ELSE \/ b[IndexKey(u, i, w, q)] = Absent
                   \/ b[IndexKey(u, i, w, q)] = NoEntry /\ s[RowKey(u, q)] # w
    BY DEF BufferFits
  <2>3. Knows(plans \cup {t}, u, i) => Knows(plans, u, i) /\ (u = t.id => i \in t.indexes)
    BY DEF Knows
  <2> QED
    BY <2>1, <2>2, <2>3, <1>2, <1>3, ValueAssumption
<1> QED
  BY <1>4 DEF BufferFits, b2

\* A buffer that fits its snapshot keeps an index exact, over the snapshot
\* and over every store that has the rows of the snapshot where it writes.
LEMMA OverlayKeepsExact ==
  ASSUME NEW d \in Store, NEW s \in Store, NEW b \in Buffer, NEW plans, BufferFits(b, s, plans),
         NEW t \in TableId, NEW i \in IndexId, Knows(plans, t, i), IndexExact(d, t, i),
         \A pk \in Pk : b[RowKey(t, pk)] # NoEntry => d[RowKey(t, pk)] = s[RowKey(t, pk)]
  PROVE  IndexExact(Overlay(d, b), t, i)
<1> SUFFICES ASSUME NEW pk \in Pk, NEW v \in Val
             PROVE  Overlay(d, b)[IndexKey(t, i, v, pk)] # Absent <=> Overlay(d, b)[RowKey(t, pk)] = v
  BY DEF IndexExact, EntriesFit
<1>1. /\ Overlay(d, b)[IndexKey(t, i, v, pk)] =
            IF b[IndexKey(t, i, v, pk)] = NoEntry THEN d[IndexKey(t, i, v, pk)] ELSE b[IndexKey(t, i, v, pk)]
      /\ Overlay(d, b)[RowKey(t, pk)] =
            IF b[RowKey(t, pk)] = NoEntry THEN d[RowKey(t, pk)] ELSE b[RowKey(t, pk)]
  BY OverlayType, RowKeyFacts, IndexKeyFacts
<1>2. d[IndexKey(t, i, v, pk)] # Absent <=> d[RowKey(t, pk)] = v
  BY DEF IndexExact, EntriesFit
<1>3. /\ b[RowKey(t, pk)] = NoEntry => b[IndexKey(t, i, v, pk)] = NoEntry
      /\ b[RowKey(t, pk)] # NoEntry =>
            IF b[RowKey(t, pk)] = v THEN b[IndexKey(t, i, v, pk)] = Entry
            ELSE \/ b[IndexKey(t, i, v, pk)] = Absent
                 \/ b[IndexKey(t, i, v, pk)] = NoEntry /\ s[RowKey(t, pk)] # v
  BY DEF BufferFits
<1> QED
  BY <1>1, <1>2, <1>3, ValueAssumption
-----------------------------------------------------------------------------
(***************************************************************************)
(* The inductive invariant: a new database has it.                         *)
(***************************************************************************)
LEMMA InitIInv == Init => IInv
<1> SUFFICES ASSUME Init PROVE IInv
  OBVIOUS
<1>1. TypeOK
  BY EmptyTypes, DbNoneAssumption, DbBoundAssumption DEF Init, TypeOK
<1>2. RowsHoldValues
  BY EmptyCells DEF Init, RowsHoldValues
<1>3. SessionOK
  BY DEF Init, SessionOK
<1>4. ChangeOK
  BY DEF Init, ChangeOK
<1>5. PlansAreGivenOut
  BY TableFacts DEF Init, PlansAreGivenOut, TableGivenOut, FreshId
<1>6. KeysAreGivenOut
  BY EmptyCells DEF Init, KeysAreGivenOut
<1>7. BuffersFit
  BY EmptyFits DEF Init, BuffersFit
<1>8. SnapshotsAreCurrent
  BY DEF Init, SnapshotsAreCurrent
<1>9. ExactOrBuilding
  BY TableFacts DEF Init, ExactOrBuilding, Exact
<1> QED
  BY <1>1, <1>2, <1>3, <1>4, <1>5, <1>6, <1>7, <1>8, <1>9 DEF IInv

LEMMA NoTableGivenOut ==
  ASSUME TypeOK, PlansAreGivenOut
  PROVE  TableGivenOut(NoTable.id)
<1>1. cat.id \in Nat /\ nextID \in Nat /\ cat.id < FreshId
  BY TableFacts DEF TypeOK, PlansAreGivenOut, TableGivenOut
<1>2. NoTable.id = 0
  BY TableFacts
<1>3. FreshId = nextID \/ FreshId = nextID - 1
  BY DEF FreshId
<1> QED
  BY <1>1, <1>2, <1>3 DEF TableGivenOut

(***************************************************************************)
(* Steps of a session.                                                     *)
(***************************************************************************)
LEMMA PlanStep == ASSUME IInv, NEW c \in Conn, Plan(c) PROVE IInv'
<1>i. /\ TypeOK /\ RowsHoldValues /\ SessionOK /\ ChangeOK /\ PlansAreGivenOut
      /\ KeysAreGivenOut /\ BuffersFit /\ SnapshotsAreCurrent /\ ExactOrBuilding
  BY DEF IInv
<1>u. /\ UNCHANGED <<db, cat, nextID, tx, snap, ws, used, dirty, locker, op, todo, anomalies>>
      /\ plan' = [plan EXCEPT ![c] = cat]
      /\ pc' = [pc EXCEPT ![c] = "planned"]
      /\ cat # NoTable
      /\ statements' = statements + 1 /\ statements < MaxStatements
  BY DEF Plan, store, ddl
<1>s. \A d \in Conn : plan'[d] = IF d = c THEN cat ELSE plan[d]
  BY <1>i, <1>u DEF TypeOK
<1>1. TypeOK'
  <2>0. statements \in 0 .. MaxStatements
    BY <1>i DEF TypeOK
  <2>1. statements' \in 0 .. MaxStatements
    BY <1>u, <2>0, OneMore
  <2>2. plan' \in [Conn -> Table \cup {NoTable}] /\ pc' \in [Conn -> {"idle", "planned", "commit"}]
    BY <1>i, <1>u DEF TypeOK
  <2> QED
    BY <1>i, <1>u, <2>1, <2>2 DEF TypeOK
<1>2. RowsHoldValues'
  BY <1>i, <1>u DEF RowsHoldValues
<1>3. SessionOK'
  BY <1>i, <1>u DEF SessionOK, TypeOK
<1>4. ChangeOK'
  BY <1>i, <1>u DEF ChangeOK
<1>5. PlansAreGivenOut'
  BY <1>i, <1>u, <1>s DEF PlansAreGivenOut, TableGivenOut, IndexGivenOut, FreshId
<1>6. KeysAreGivenOut'
  BY <1>i, <1>u DEF KeysAreGivenOut, TableGivenOut, IndexGivenOut, FreshId
<1>7. BuffersFit'
  BY <1>i, <1>u DEF BuffersFit
<1>8. SnapshotsAreCurrent'
  BY <1>i, <1>u DEF SnapshotsAreCurrent
<1>9. ExactOrBuilding'
  BY <1>i, <1>u DEF ExactOrBuilding
<1> QED
  BY <1>1, <1>2, <1>3, <1>4, <1>5, <1>6, <1>7, <1>8, <1>9 DEF IInv

LEMMA BeginStep == ASSUME IInv, NEW c \in Conn, Begin(c) PROVE IInv'
<1>i. /\ TypeOK /\ RowsHoldValues /\ SessionOK /\ ChangeOK /\ PlansAreGivenOut
      /\ KeysAreGivenOut /\ BuffersFit /\ SnapshotsAreCurrent /\ ExactOrBuilding
  BY DEF IInv
<1>u. UNCHANGED <<db, cat, nextID, ws, pc, plan, used, dirty, locker, op, todo, statements, anomalies>>
  BY DEF Begin, store, ddl
<1>b. /\ tx[c] = "none"
      /\ snap' = [snap EXCEPT ![c] = db]
      /\ \/ tx' = [tx EXCEPT ![c] = "explicit"]
         \/ tx' = [tx EXCEPT ![c] = "implicit"]
  BY DEF Begin
<1>s. /\ \A d \in Conn : snap'[d] = IF d = c THEN db ELSE snap[d]
      /\ \A d \in Conn : tx'[d] # "none" => d = c \/ tx[d] # "none"
      /\ \A d \in Conn : tx'[d] = "none" => tx[d] = "none"
      /\ ws[c] = EmptyBuffer /\ used[c] = {}
  BY <1>i, <1>b DEF TypeOK, SessionOK
<1>1. TypeOK'
  BY <1>i, <1>u, <1>b DEF TypeOK
<1>2. RowsHoldValues'
  BY <1>i, <1>u, <1>s DEF RowsHoldValues
<1>3. SessionOK'
  BY <1>i, <1>u, <1>s DEF SessionOK
<1>4. ChangeOK'
  BY <1>i, <1>u DEF ChangeOK
<1>5. PlansAreGivenOut'
  BY <1>i, <1>u DEF PlansAreGivenOut, TableGivenOut, IndexGivenOut, FreshId
<1>6. KeysAreGivenOut'
  BY <1>i, <1>u, <1>s DEF KeysAreGivenOut, TableGivenOut, IndexGivenOut, FreshId
<1>7. BuffersFit'
  BY <1>i, <1>u, <1>s, EmptyFits DEF BuffersFit
<1>8. SnapshotsAreCurrent'
  BY <1>i, <1>u, <1>s DEF SnapshotsAreCurrent
<1>9. ExactOrBuilding'
  BY <1>i, <1>u DEF ExactOrBuilding
<1> QED
  BY <1>1, <1>2, <1>3, <1>4, <1>5, <1>6, <1>7, <1>8, <1>9 DEF IInv

\* What the end of a transaction may do to the store and to the sessions that
\* go on: nothing to a row that is not in their dirty set afterwards.
EndsTransaction(c) ==
  /\ Finish(c)
  /\ UNCHANGED <<cat, nextID, locker, op, todo, statements>>
  /\ db' \in Store
  /\ \A k \in RowKeys : db'[k] \in Val \cup {Absent}
  /\ \A k \in StoreKey : db'[k] # Absent => db[k] # Absent \/ ws[c][k] \notin {NoEntry, Absent}
  /\ dirty' \in [Conn -> SUBSET RowKeys]
  /\ \A d \in Conn \ {c} : tx[d] # "none" =>
        \A k \in RowKeys \ dirty'[d] : k \notin dirty[d] /\ db'[k] = db[k]
  /\ anomalies \subseteq anomalies'
  /\ anomalies' \subseteq {"conflict", "schema race", "failure", "same key"}

LEMMA FinishStep ==
  ASSUME IInv, NEW c \in Conn, EndsTransaction(c), ExactOrBuilding'
  PROVE  IInv'
<1>i. /\ TypeOK /\ RowsHoldValues /\ SessionOK /\ ChangeOK /\ PlansAreGivenOut
      /\ KeysAreGivenOut /\ BuffersFit /\ SnapshotsAreCurrent
  BY DEF IInv
<1>s. /\ \A d \in Conn : tx'[d] = IF d = c THEN "none" ELSE tx[d]
      /\ \A d \in Conn : snap'[d] = IF d = c THEN EmptyStore ELSE snap[d]
      /\ \A d \in Conn : ws'[d] = IF d = c THEN EmptyBuffer ELSE ws[d]
      /\ \A d \in Conn : pc'[d] = IF d = c THEN "idle" ELSE pc[d]
      /\ \A d \in Conn : plan'[d] = IF d = c THEN NoTable ELSE plan[d]
      /\ \A d \in Conn : used'[d] = IF d = c THEN {} ELSE used[d]
  BY <1>i DEF TypeOK, Finish, EndsTransaction
<1>u. UNCHANGED <<cat, nextID, locker, op, todo, statements>>
  BY DEF EndsTransaction
<1>1. TypeOK'
  <2>1. /\ tx' \in [Conn -> {"none", "implicit", "explicit"}]
        /\ snap' \in [Conn -> Store]
        /\ ws' \in [Conn -> Buffer]
        /\ pc' \in [Conn -> {"idle", "planned", "commit"}]
        /\ plan' \in [Conn -> Table \cup {NoTable}]
        /\ used' \in [Conn -> SUBSET Table]
    BY <1>i, EmptyTypes DEF TypeOK, Finish, EndsTransaction
  <2> QED
    BY <1>i, <1>u, <2>1 DEF TypeOK, EndsTransaction
<1>2. RowsHoldValues'
  BY <1>i, <1>s, EmptyCells DEF RowsHoldValues, EndsTransaction
<1>3. SessionOK'
  BY <1>i, <1>s DEF SessionOK
<1>4. ChangeOK'
  BY <1>i, <1>u DEF ChangeOK
<1>5. PlansAreGivenOut'
  <2>1. \A i \in NoTable.indexes : FALSE
    BY TableFacts
  <2> QED
    BY <1>i, <1>s, <1>u, <2>1, NoTableGivenOut DEF PlansAreGivenOut, TableGivenOut, IndexGivenOut, FreshId
<1>6. KeysAreGivenOut'
  <2>1. ASSUME NEW k \in StoreKey,
               db'[k] # Absent \/ \E d \in Conn : snap'[d][k] # Absent \/ ws'[d][k] \notin {NoEntry, Absent}
        PROVE  db[k] # Absent \/ \E d \in Conn : snap[d][k] # Absent \/ ws[d][k] \notin {NoEntry, Absent}
    <3>1. CASE db'[k] # Absent
      BY <3>1 DEF EndsTransaction
    <3>2. ASSUME NEW d \in Conn, snap'[d][k] # Absent \/ ws'[d][k] \notin {NoEntry, Absent}
          PROVE  snap[d][k] # Absent \/ ws[d][k] \notin {NoEntry, Absent}
      BY <1>s, <3>2, EmptyCells
    <3> QED
      BY <2>1, <3>1, <3>2
  <2> QED
    BY <1>i, <1>u, <2>1 DEF KeysAreGivenOut, TableGivenOut, IndexGivenOut, FreshId
<1>7. BuffersFit'
  <2>1. "same key" \notin anomalies' => "same key" \notin anomalies
    BY DEF EndsTransaction
  <2> SUFFICES ASSUME "same key" \notin anomalies', NEW d \in Conn
               PROVE  BufferFits(ws'[d], snap'[d], used'[d])
    BY DEF BuffersFit
  <2>2. CASE d = c
    BY <1>s, <2>2, EmptyFits
  <2>3. CASE d # c
    BY <1>i, <1>s, <2>1, <2>3 DEF BuffersFit
  <2> QED
    BY <2>2, <2>3
<1>8. SnapshotsAreCurrent'
  <2>1. "failure" \notin anomalies' => "failure" \notin anomalies
    BY DEF EndsTransaction
  <2> SUFFICES ASSUME "failure" \notin anomalies', op # "drop table", NEW d \in Conn, NEW k \in RowKeys,
                      tx'[d] # "none", k[2] = cat.id, k \notin dirty'[d]
               PROVE  db'[k] = snap'[d][k]
    BY <1>u DEF SnapshotsAreCurrent
  <2>2. d # c /\ tx[d] # "none" /\ snap'[d] = snap[d]
    BY <1>s
  <2>3. k \notin dirty[d] /\ db'[k] = db[k]
    BY <2>2 DEF EndsTransaction
  <2> QED
    BY <1>i, <2>1, <2>2, <2>3 DEF SnapshotsAreCurrent
<1> QED
  BY <1>1, <1>2, <1>3, <1>4, <1>5, <1>6, <1>7, <1>8 DEF IInv

LEMMA RollbackStep == ASSUME IInv, NEW c \in Conn, Rollback(c) PROVE IInv'
<1>1. /\ TypeOK /\ RowsHoldValues /\ ExactOrBuilding
  BY DEF IInv
<1>2. /\ UNCHANGED <<db, cat, nextID, locker, op, todo, statements, anomalies>>
      /\ Finish(c)
      /\ dirty' = [dirty EXCEPT ![c] = {}]
  BY DEF Rollback, store, ddl
<1>3. /\ dirty' \in [Conn -> SUBSET RowKeys]
      /\ \A d \in Conn \ {c} : dirty'[d] = dirty[d]
  BY <1>1, <1>2 DEF TypeOK
<1>4. ExactOrBuilding'
  BY <1>1, <1>2 DEF ExactOrBuilding
<1>5. db \in Store /\ anomalies \subseteq {"conflict", "schema race", "failure", "same key"}
  BY <1>1 DEF TypeOK
<1>6. \A k \in RowKeys : db'[k] \in Val \cup {Absent}
  BY <1>1, <1>2 DEF RowsHoldValues
<1> QED
  BY <1>2, <1>3, <1>4, <1>5, <1>6, FinishStep DEF EndsTransaction

LEMMA DmlFailedStep == ASSUME IInv, NEW c \in Conn, DmlFailed(c) PROVE IInv'
<1>i. /\ TypeOK /\ RowsHoldValues /\ SessionOK /\ ChangeOK /\ PlansAreGivenOut
      /\ KeysAreGivenOut /\ BuffersFit /\ SnapshotsAreCurrent /\ ExactOrBuilding
  BY DEF IInv
<1>u. UNCHANGED <<db, cat, nextID, locker, op, todo, statements, anomalies>>
  BY DEF DmlFailed, store, ddl
<1>9. ExactOrBuilding'
  BY <1>i, <1>u DEF ExactOrBuilding
<1>a. CASE Finish(c) /\ dirty' = [dirty EXCEPT ![c] = {}]
  <2>1. /\ dirty' \in [Conn -> SUBSET RowKeys]
        /\ \A d \in Conn \ {c} : dirty'[d] = dirty[d]
    BY <1>i, <1>a DEF TypeOK
  <2>2. db \in Store /\ anomalies \subseteq {"conflict", "schema race", "failure", "same key"}
    BY <1>i DEF TypeOK
  <2>3. \A k \in RowKeys : db'[k] \in Val \cup {Absent}
    BY <1>i, <1>u DEF RowsHoldValues
  <2> QED
    BY <1>u, <1>9, <1>a, <2>1, <2>2, <2>3, FinishStep DEF EndsTransaction
<1>b. CASE /\ pc' = [pc EXCEPT ![c] = "idle"]
           /\ plan' = [plan EXCEPT ![c] = NoTable]
           /\ UNCHANGED <<tx, snap, ws, used, dirty>>
  <2>s. /\ \A d \in Conn : plan'[d] = IF d = c THEN NoTable ELSE plan[d]
        /\ \A d \in Conn : pc'[d] = IF d = c THEN "idle" ELSE pc[d]
    BY <1>i, <1>b DEF TypeOK
  <2>1. TypeOK'
    BY <1>i, <1>u, <1>b DEF TypeOK
  <2>2. RowsHoldValues'
    BY <1>i, <1>u, <1>b DEF RowsHoldValues
  <2>3. SessionOK'
    BY <1>i, <1>b, <2>s DEF SessionOK
  <2>4. ChangeOK'
    BY <1>i, <1>u DEF ChangeOK
  <2>5. PlansAreGivenOut'
    <3>1. \A i \in NoTable.indexes : FALSE
      BY TableFacts
    <3> QED
      BY <1>i, <1>u, <1>b, <2>s, <3>1, NoTableGivenOut
         DEF PlansAreGivenOut, TableGivenOut, IndexGivenOut, FreshId
  <2>6. KeysAreGivenOut'
    BY <1>i, <1>u, <1>b DEF KeysAreGivenOut, TableGivenOut, IndexGivenOut, FreshId
  <2>7. BuffersFit'
    BY <1>i, <1>u, <1>b DEF BuffersFit
  <2>8. SnapshotsAreCurrent'
    BY <1>i, <1>u, <1>b DEF SnapshotsAreCurrent
  <2> QED
    BY <1>9, <2>1, <2>2, <2>3, <2>4, <2>5, <2>6, <2>7, <2>8 DEF IInv
<1> QED
  BY <1>a, <1>b DEF DmlFailed

LEMMA CommitStep == ASSUME IInv, NEW c \in Conn, Commit(c) PROVE IInv'
<1>i. /\ TypeOK /\ RowsHoldValues /\ SessionOK /\ ChangeOK /\ BuffersFit
      /\ SnapshotsAreCurrent /\ ExactOrBuilding
  BY DEF IInv
<1>u. /\ UNCHANGED <<cat, nextID, locker, op, todo, statements>>
      /\ Touched(ws[c]) # {} => locker = None
      /\ db' = Overlay(db, ws[c])
      /\ Finish(c)
      /\ dirty' = [d \in Conn |-> IF d = c \/ tx[d] = "none" THEN {}
                                  ELSE dirty[d] \cup (Touched(ws[c]) \cap RowKeys)]
      /\ anomalies' = anomalies \cup (IF Conflicts(c) THEN {"conflict"} ELSE {})
                                \cup (IF MissesIndex(c) THEN {"schema race"} ELSE {})
  BY DEF Commit, ddl
<1>t. /\ db \in Store /\ ws[c] \in Buffer /\ snap[c] \in Store
      /\ anomalies \subseteq {"conflict", "schema race", "failure", "same key"}
      /\ dirty \in [Conn -> SUBSET RowKeys]
      /\ cat \in Table \cup {NoTable}
  BY <1>i DEF TypeOK
<1>k. RowKeys \subseteq StoreKey
  BY DEF StoreKey
<1>o. /\ db' \in Store
      /\ \A k \in StoreKey : db'[k] = IF ws[c][k] = NoEntry THEN db[k] ELSE ws[c][k]
  BY <1>u, <1>t, OverlayType
<1>1. EndsTransaction(c)
  <2>1. \A k \in RowKeys : db'[k] \in Val \cup {Absent}
    BY <1>i, <1>k, <1>o DEF RowsHoldValues
  <2>2. \A k \in StoreKey : db'[k] # Absent => db[k] # Absent \/ ws[c][k] \notin {NoEntry, Absent}
    BY <1>o
  <2>3. dirty' \in [Conn -> SUBSET RowKeys]
    BY <1>u, <1>t
  <2>4. ASSUME NEW d \in Conn \ {c}, tx[d] # "none", NEW k \in RowKeys \ dirty'[d]
        PROVE  k \notin dirty[d] /\ db'[k] = db[k]
    <3>1. k \notin dirty[d] /\ k \notin Touched(ws[c])
      BY <1>u, <2>4
    <3> QED
      BY <3>1, <1>k, <1>o DEF Touched
  <2>5. /\ anomalies \subseteq anomalies'
        /\ anomalies' \subseteq {"conflict", "schema race", "failure", "same key"}
    BY <1>u, <1>t
  <2> QED
    BY <1>u, <1>o, <2>1, <2>2, <2>3, <2>4, <2>5 DEF EndsTransaction
<1>2. ExactOrBuilding'
  <2>1. CASE Touched(ws[c]) = {}
    BY <1>i, <1>u, <1>t, <2>1, OverlayNothing DEF ExactOrBuilding
  <2>2. CASE Touched(ws[c]) # {}
    <3>1. op = "none" /\ tx[c] # "none"
      <4>1. Touched(EmptyBuffer) = {}
        BY EmptyCells DEF Touched
      <4> QED
        BY <1>i, <1>u, <2>2, <4>1 DEF ChangeOK, SessionOK
    <3> SUFFICES ASSUME anomalies' = {}, NEW i \in cat.indexes
                 PROVE  IndexExact(db', cat.id, i)
      BY <1>u, <3>1 DEF ExactOrBuilding, Exact
    <3>2. anomalies = {} /\ ~Conflicts(c) /\ ~MissesIndex(c)
      BY <1>u
    <3>3. cat.id \in TableId /\ i \in IndexId
      BY <1>t, TableFacts DEF IsTable
    <3>4. IndexExact(db, cat.id, i)
      BY <1>i, <3>1, <3>2 DEF ExactOrBuilding, Exact
    <3>5. Knows(used[c], cat.id, i)
      BY <3>2 DEF MissesIndex, Knows
    <3>6. BufferFits(ws[c], snap[c], used[c])
      BY <1>i, <3>2 DEF BuffersFit
    <3>7. ASSUME NEW pk \in Pk, ws[c][RowKey(cat.id, pk)] # NoEntry
          PROVE  db[RowKey(cat.id, pk)] = snap[c][RowKey(cat.id, pk)]
      <4> DEFINE k == RowKey(cat.id, pk)
      <4>1. k \in RowKeys /\ k \in StoreKey /\ k[2] = cat.id
        BY <3>3, RowKeyFacts, KeyParts
      <4>2. k \notin dirty[c]
        BY <3>2, <3>7, <4>1 DEF Conflicts, Touched
      <4> HIDE DEF k
      <4>3. db[k] = snap[c][k]
        BY <1>i, <3>1, <3>2, <4>1, <4>2 DEF SnapshotsAreCurrent
      <4> QED
        BY <4>3 DEF k
    <3> QED
      BY <1>u, <1>t, <3>3, <3>4, <3>5, <3>6, <3>7, OverlayKeepsExact
  <2> QED
    BY <2>1, <2>2
<1> QED
  BY <1>1, <1>2, FinishStep

(***************************************************************************)
(* A statement that changes a row: what it may do to the buffer, and that  *)
(* the three kinds of statement do no more.                                *)
(***************************************************************************)
Writes(c, b2) ==
  /\ b2 \in Buffer
  /\ \A k \in RowKeys : b2[k] \in Val \cup {Absent, NoEntry}
  /\ \A k \in StoreKey : b2[k] \notin {NoEntry, Absent} =>
        \/ ws[c][k] \notin {NoEntry, Absent}
        \/ k[2] = plan[c].id /\ (k \in EntryKeys => k[3] \in plan[c].indexes)
  /\ "same key" \notin anomalies' => BufferFits(b2, snap[c], used[c] \cup {plan[c]})

LEMMA DmlStep ==
  ASSUME IInv, NEW c \in Conn, NEW b2, Writes(c, b2), Running(c), AfterDml(c, b2),
         anomalies \subseteq anomalies', anomalies' \subseteq anomalies \cup {"same key"}
  PROVE  IInv'
<1>i. /\ TypeOK /\ RowsHoldValues /\ SessionOK /\ ChangeOK /\ PlansAreGivenOut
      /\ KeysAreGivenOut /\ BuffersFit /\ SnapshotsAreCurrent /\ ExactOrBuilding
  BY DEF IInv
<1>u. UNCHANGED <<db, cat, nextID, tx, snap, dirty, locker, op, todo, statements>>
  BY DEF AfterDml, store, ddl
<1>p. plan[c] \in Table /\ tx[c] # "none"
  BY <1>i DEF TypeOK, SessionOK, Running
<1>s. /\ \A d \in Conn : ws'[d] = IF d = c THEN b2 ELSE ws[d]
      /\ \A d \in Conn : pc'[d] # "planned" \/ (d # c /\ pc'[d] = pc[d])
      /\ \A d \in Conn : plan'[d] = IF d = c THEN NoTable ELSE plan[d]
      /\ \A d \in Conn : used'[d] = IF d = c THEN used[c] \cup {plan[c]} ELSE used[d]
  <2>1. \A d \in Conn : pc'[d] = IF d = c THEN IF tx[c] = "implicit" THEN "commit" ELSE "idle" ELSE pc[d]
    BY <1>i DEF TypeOK, AfterDml
  <2> QED
    BY <1>i, <2>1 DEF TypeOK, AfterDml
<1>1. TypeOK'
  <2>1. /\ ws' \in [Conn -> Buffer]
        /\ pc' \in [Conn -> {"idle", "planned", "commit"}]
        /\ plan' \in [Conn -> Table \cup {NoTable}]
    BY <1>i DEF TypeOK, AfterDml, Writes
  <2>2. used' \in [Conn -> SUBSET Table]
    BY <1>i, <1>p DEF TypeOK, AfterDml
  <2>3. anomalies' \subseteq {"conflict", "schema race", "failure", "same key"}
    BY <1>i DEF TypeOK
  <2> QED
    BY <1>i, <1>u, <2>1, <2>2, <2>3 DEF TypeOK
<1>2. RowsHoldValues'
  BY <1>i, <1>u, <1>s DEF RowsHoldValues, Writes
<1>3. SessionOK'
  BY <1>i, <1>u, <1>s, <1>p DEF SessionOK
<1>4. ChangeOK'
  BY <1>i, <1>u DEF ChangeOK
<1>g. TableGivenOut(plan[c].id) /\ \A i \in plan[c].indexes : IndexGivenOut(plan[c].id, i)
  BY <1>i DEF PlansAreGivenOut
<1>5. PlansAreGivenOut'
  <2>1. \A i \in NoTable.indexes : FALSE
    BY TableFacts
  <2> QED
    BY <1>i, <1>u, <1>s, <1>g, <2>1, NoTableGivenOut
       DEF PlansAreGivenOut, TableGivenOut, IndexGivenOut, FreshId
<1>6. KeysAreGivenOut'
  <2> SUFFICES ASSUME NEW k \in StoreKey,
                      db[k] # Absent \/ \E d \in Conn : snap[d][k] # Absent \/ ws'[d][k] \notin {NoEntry, Absent}
               PROVE  TableGivenOut(k[2]) /\ (k \in EntryKeys => IndexGivenOut(k[2], k[3]))
    BY <1>u DEF KeysAreGivenOut, TableGivenOut, IndexGivenOut, FreshId
  <2>1. CASE db[k] # Absent \/ \E d \in Conn : snap[d][k] # Absent \/ ws[d][k] \notin {NoEntry, Absent}
    BY <1>i, <2>1 DEF KeysAreGivenOut
  <2>2. CASE b2[k] \notin {NoEntry, Absent} /\ ws[c][k] \in {NoEntry, Absent}
    <3>1. k[2] = plan[c].id /\ (k \in EntryKeys => k[3] \in plan[c].indexes)
      BY <2>2 DEF Writes
    <3> QED
      BY <1>g, <3>1
  <2> QED
    BY <1>s, <2>1, <2>2
<1>7. BuffersFit'
  <2> SUFFICES ASSUME "same key" \notin anomalies', NEW d \in Conn
               PROVE  BufferFits(ws'[d], snap[d], used'[d])
    BY <1>u DEF BuffersFit
  <2>1. CASE d = c
    BY <1>s, <2>1 DEF Writes
  <2>2. CASE d # c
    BY <1>i, <1>s, <2>2 DEF BuffersFit
  <2> QED
    BY <2>1, <2>2
<1>8. SnapshotsAreCurrent'
  BY <1>i, <1>u DEF SnapshotsAreCurrent
<1>9. ExactOrBuilding'
  BY <1>i, <1>u DEF ExactOrBuilding
<1> QED
  BY <1>1, <1>2, <1>3, <1>4, <1>5, <1>6, <1>7, <1>8, <1>9 DEF IInv

\* What a statement reads of a row that is there is a value.
LEMMA RowRead ==
  ASSUME TypeOK, RowsHoldValues, SessionOK, NEW c \in Conn, Running(c), NEW pk \in Pk,
         HasRow(View(c), plan[c], pk)
  PROVE  View(c)[RowKey(plan[c].id, pk)] \in Val
<1> DEFINE k == RowKey(plan[c].id, pk)
<1>1. snap[c] \in Store /\ ws[c] \in Buffer /\ plan[c].id \in TableId
  BY TableFacts DEF TypeOK, SessionOK, Running, IsTable
<1>2. k \in RowKeys /\ k \in StoreKey /\ View(c)[k] # Absent
  BY <1>1, RowKeyFacts DEF HasRow
<1> HIDE DEF k
<1>3. View(c)[k] = IF ws[c][k] = NoEntry THEN snap[c][k] ELSE ws[c][k]
  BY <1>1, <1>2, OverlayType DEF View
<1>4. View(c)[k] \in Val
  BY <1>2, <1>3 DEF RowsHoldValues
<1> QED
  BY <1>4 DEF k

\* A row and its entries written are keys of the table.
LEMMA RowWrittenKeys ==
  ASSUME NEW b, NEW b2, NEW t, IsTable(t), NEW pk \in Pk, NEW v \in Val,
         NEW cell, NEW entry, RowWritten(b2, b, t, pk, v, cell, entry), cell \in Val \cup {Absent},
         \A k \in RowKeys : b[k] \in Val \cup {Absent, NoEntry}
  PROVE  /\ \A k \in RowKeys : b2[k] \in Val \cup {Absent, NoEntry}
         /\ \A k \in StoreKey : b2[k] = b[k] \/ (k[2] = t.id /\ (k \in EntryKeys => k[3] \in t.indexes))
<1>1. ASSUME NEW u \in TableId, NEW q \in Pk
      PROVE  /\ b2[RowKey(u, q)] = IF u = t.id /\ q = pk THEN cell ELSE b[RowKey(u, q)]
             /\ RowKey(u, q)[2] = u /\ RowKey(u, q) \in RowKeys
  BY KeyParts, RowKeyFacts DEF RowWritten
<1>2. ASSUME NEW u \in TableId, NEW i \in IndexId, NEW w \in Val, NEW q \in Pk
      PROVE  /\ b2[IndexKey(u, i, w, q)] = b[IndexKey(u, i, w, q)] \/ (u = t.id /\ i \in t.indexes)
             /\ IndexKey(u, i, w, q)[2] = u /\ IndexKey(u, i, w, q)[3] = i
  BY KeyParts DEF RowWritten
<1>3. \A k \in RowKeys : b2[k] \in Val \cup {Absent, NoEntry} /\ (b2[k] = b[k] \/ k[2] = t.id)
  BY <1>1, KeyParts
<1>4. \A k \in EntryKeys : b2[k] = b[k] \/ (k[2] = t.id /\ k[3] \in t.indexes)
  BY <1>2, KeyParts DEF EntryKeys
<1> QED
  BY <1>3, <1>4 DEF EntryKeys

LEMMA RowMovedKeys ==
  ASSUME NEW b, NEW b2, NEW t, IsTable(t), NEW pk \in Pk, NEW v \in Val,
         NEW pk2 \in Pk, NEW v2 \in Val, RowMoved(b2, b, t, pk, v, pk2, v2),
         \A k \in RowKeys : b[k] \in Val \cup {Absent, NoEntry}
  PROVE  /\ \A k \in RowKeys : b2[k] \in Val \cup {Absent, NoEntry}
         /\ \A k \in StoreKey : b2[k] = b[k] \/ (k[2] = t.id /\ (k \in EntryKeys => k[3] \in t.indexes))
<1>1. ASSUME NEW u \in TableId, NEW q \in Pk
      PROVE  /\ b2[RowKey(u, q)] = b[RowKey(u, q)] \/ (u = t.id /\ b2[RowKey(u, q)] \in Val \cup {Absent})
             /\ RowKey(u, q)[2] = u /\ RowKey(u, q) \in RowKeys
  BY KeyParts, RowKeyFacts DEF RowMoved, RowAfter
<1>2. ASSUME NEW u \in TableId, NEW i \in IndexId, NEW w \in Val, NEW q \in Pk
      PROVE  /\ b2[IndexKey(u, i, w, q)] = b[IndexKey(u, i, w, q)] \/ (u = t.id /\ i \in t.indexes)
             /\ IndexKey(u, i, w, q)[2] = u /\ IndexKey(u, i, w, q)[3] = i
  BY KeyParts DEF RowMoved
<1>3. \A k \in RowKeys : b2[k] \in Val \cup {Absent, NoEntry} /\ (b2[k] = b[k] \/ k[2] = t.id)
  BY <1>1, KeyParts
<1>4. \A k \in EntryKeys : b2[k] = b[k] \/ (k[2] = t.id /\ k[3] \in t.indexes)
  BY <1>2, KeyParts DEF EntryKeys
<1> QED
  BY <1>3, <1>4 DEF EntryKeys

LEMMA RunInsertStep == ASSUME IInv, NEW c \in Conn, RunInsert(c) PROVE IInv'
<1>1. PICK pk \in Pk, v \in Val : /\ ~HasRow(View(c), plan[c], pk)
                                  /\ AfterDml(c, Insert(ws[c], plan[c], pk, v))
  BY DEF RunInsert
<1> DEFINE b2 == Insert(ws[c], plan[c], pk, v)
<1>2. Running(c) /\ UNCHANGED anomalies
  BY DEF RunInsert
<1>3. /\ ws[c] \in Buffer /\ snap[c] \in Store /\ IsTable(plan[c])
      /\ \A k \in RowKeys : ws[c][k] \in Val \cup {Absent, NoEntry}
  BY <1>2, TableFacts DEF IInv, TypeOK, SessionOK, RowsHoldValues, Running
<1>4. RowWritten(b2, ws[c], plan[c], pk, v, v, Entry)
  BY <1>3, InsertBuffer
<1>5. "same key" \notin anomalies => BufferFits(b2, snap[c], used[c] \cup {plan[c]})
  BY <1>1, <1>3, InsertFits DEF IInv, BuffersFit, View
<1> HIDE DEF b2
<1>6. b2 \in Buffer
  BY <1>4 DEF RowWritten
<1>7. Writes(c, b2)
  BY <1>2, <1>3, <1>4, <1>5, <1>6, RowWrittenKeys DEF Writes
<1>8. AfterDml(c, b2)
  BY <1>1 DEF b2
<1> QED
  BY <1>2, <1>7, <1>8, DmlStep

LEMMA RunDeleteStep == ASSUME IInv, NEW c \in Conn, RunDelete(c) PROVE IInv'
<1>1. PICK pk \in Pk : /\ HasRow(View(c), plan[c], pk)
                       /\ AfterDml(c, Delete(ws[c], plan[c], pk, View(c)[RowKey(plan[c].id, pk)]))
  BY DEF RunDelete
<1> DEFINE v  == View(c)[RowKey(plan[c].id, pk)]
           b2 == Delete(ws[c], plan[c], pk, v)
<1>2. Running(c) /\ UNCHANGED anomalies
  BY DEF RunDelete
<1>3. /\ ws[c] \in Buffer /\ snap[c] \in Store /\ IsTable(plan[c])
      /\ \A k \in RowKeys : ws[c][k] \in Val \cup {Absent, NoEntry}
  BY <1>2, TableFacts DEF IInv, TypeOK, SessionOK, RowsHoldValues, Running
<1>v. v \in Val
  BY <1>1, <1>2, RowRead DEF IInv
<1>4. RowWritten(b2, ws[c], plan[c], pk, v, Absent, Absent)
  BY <1>3, <1>v, DeleteBuffer
<1>5. "same key" \notin anomalies => BufferFits(b2, snap[c], used[c] \cup {plan[c]})
  BY <1>3, <1>v, DeleteFits DEF IInv, BuffersFit, View
<1> HIDE DEF b2, v
<1>6. b2 \in Buffer
  BY <1>4 DEF RowWritten
<1>7. Writes(c, b2)
  <2>1. /\ \A k \in RowKeys : b2[k] \in Val \cup {Absent, NoEntry}
        /\ \A k \in StoreKey :
              b2[k] = ws[c][k] \/ (k[2] = plan[c].id /\ (k \in EntryKeys => k[3] \in plan[c].indexes))
    BY <1>3, <1>v, <1>4, RowWrittenKeys
  <2> QED
    BY <1>2, <1>5, <1>6, <2>1 DEF Writes
<1>8. AfterDml(c, b2)
  BY <1>1 DEF b2, v
<1> QED
  BY <1>2, <1>7, <1>8, DmlStep

LEMMA RunUpdateStep == ASSUME IInv, NEW c \in Conn, RunUpdate(c) PROVE IInv'
<1>1. PICK pk \in Pk, pk2 \in Pk, v2 \in Val :
         /\ HasRow(View(c), plan[c], pk)
         /\ ~SameKey(pk, pk2) => ~HasRow(View(c), plan[c], pk2)
         /\ AfterDml(c, Update(ws[c], plan[c], pk, View(c)[RowKey(plan[c].id, pk)], pk2, v2))
         /\ anomalies' = anomalies \cup (IF pk # pk2 /\ SameKey(pk, pk2) THEN {"same key"} ELSE {})
  BY DEF RunUpdate
<1> DEFINE v  == View(c)[RowKey(plan[c].id, pk)]
           b2 == Update(ws[c], plan[c], pk, v, pk2, v2)
<1>2. /\ Running(c)
      /\ anomalies \subseteq anomalies' /\ anomalies' \subseteq anomalies \cup {"same key"}
      /\ "same key" \notin anomalies' => "same key" \notin anomalies /\ (pk = pk2 \/ ~SameKey(pk, pk2))
  BY <1>1 DEF RunUpdate
<1>3. /\ ws[c] \in Buffer /\ snap[c] \in Store /\ IsTable(plan[c])
      /\ \A k \in RowKeys : ws[c][k] \in Val \cup {Absent, NoEntry}
  BY <1>2, TableFacts DEF IInv, TypeOK, SessionOK, RowsHoldValues, Running
<1>v. v \in Val
  BY <1>1, <1>2, RowRead DEF IInv
<1>4. RowMoved(b2, ws[c], plan[c], pk, v, pk2, v2)
  BY <1>3, <1>v, UpdateBuffer
<1>5. "same key" \notin anomalies' => BufferFits(b2, snap[c], used[c] \cup {plan[c]})
  <2> SUFFICES ASSUME "same key" \notin anomalies'
               PROVE  BufferFits(b2, snap[c], used[c] \cup {plan[c]})
    OBVIOUS
  <2>1. BufferFits(ws[c], snap[c], used[c])
    BY <1>2 DEF IInv, BuffersFit
  <2>2. pk = pk2 \/ (~SameKey(pk, pk2) /\ ~HasRow(Overlay(snap[c], ws[c]), plan[c], pk2))
    BY <1>1, <1>2 DEF View
  <2>3. Overlay(snap[c], ws[c])[RowKey(plan[c].id, pk)] = v
    BY DEF View
  <2> HIDE DEF v
  <2> QED
    BY <1>3, <1>v, <2>1, <2>2, <2>3, UpdateFits
<1> HIDE DEF b2, v
<1>6. b2 \in Buffer
  BY <1>4 DEF RowMoved
<1>7. Writes(c, b2)
  <2>1. /\ \A k \in RowKeys : b2[k] \in Val \cup {Absent, NoEntry}
        /\ \A k \in StoreKey :
              b2[k] = ws[c][k] \/ (k[2] = plan[c].id /\ (k \in EntryKeys => k[3] \in plan[c].indexes))
    BY <1>3, <1>v, <1>4, RowMovedKeys
  <2> QED
    BY <1>5, <1>6, <2>1 DEF Writes
<1>8. AfterDml(c, b2)
  BY <1>1 DEF b2, v
<1> QED
  BY <1>2, <1>7, <1>8, DmlStep

(***************************************************************************)
(* Steps of a schema change.                                               *)
(***************************************************************************)

\* What all of them leave alone when they begin.
LEMMA DdlStartFacts ==
  ASSUME IInv, NEW c \in Conn, NEW change \in {"create table", "drop table", "create index", "drop index"},
         DdlStart(c, change)
  PROVE  /\ op = "none" /\ todo = {} /\ op' = change /\ locker' = c /\ c # None
         /\ UNCHANGED <<db, tx, snap, ws, pc, plan, used, dirty, anomalies>>
         /\ statements' \in 0 .. MaxStatements
         /\ RowsHoldValues' /\ SessionOK' /\ BuffersFit'
<1>u. /\ op' = change /\ locker' = c /\ locker = None
      /\ UNCHANGED <<db, tx, snap, ws, pc, plan, used, dirty, anomalies>>
  BY DEF DdlStart, sessions
<1>1. op = "none" /\ todo = {}
  BY <1>u DEF IInv, ChangeOK
<1>2. statements \in 0 .. MaxStatements
  BY DEF IInv, TypeOK
<1>3. statements' \in 0 .. MaxStatements
  <2>1. statements' = statements + 1 /\ statements < MaxStatements
    BY DEF DdlStart
  <2> QED
    BY <1>2, <2>1, OneMore
<1>4. RowsHoldValues'
  BY <1>u DEF IInv, RowsHoldValues
<1>5. SessionOK'
  BY <1>u DEF IInv, SessionOK
<1>6. BuffersFit'
  BY <1>u DEF IInv, BuffersFit
<1> QED
  BY <1>u, <1>1, <1>3, <1>4, <1>5, <1>6, DbNoneAssumption

\* A change that leaves the catalog as it is at first.
LEMMA KeepCatalog ==
  ASSUME PlansAreGivenOut, KeysAreGivenOut, UNCHANGED <<db, cat, snap, ws, plan, used>>, FreshId' = FreshId
  PROVE  PlansAreGivenOut' /\ KeysAreGivenOut'
BY DEF PlansAreGivenOut, KeysAreGivenOut, TableGivenOut, IndexGivenOut

LEMMA CreateTableStep == ASSUME IInv, NEW c \in Conn, CreateTable(c) PROVE IInv'
<1>i. /\ TypeOK /\ ChangeOK /\ PlansAreGivenOut /\ KeysAreGivenOut /\ SnapshotsAreCurrent
  BY DEF IInv
<1>s. /\ op = "none" /\ todo = {} /\ op' = "create table" /\ locker' = c /\ c # None
      /\ UNCHANGED <<db, tx, snap, ws, pc, plan, used, dirty, anomalies>>
      /\ statements' \in 0 .. MaxStatements
      /\ RowsHoldValues' /\ SessionOK' /\ BuffersFit'
  BY DdlStartFacts DEF CreateTable
<1>c. cat = NoTable /\ cat' = cat /\ nextID \in TableId /\ nextID' = nextID + 1 /\ todo' = {}
  BY DEF CreateTable
<1>n. nextID \in Nat /\ nextID' \in Nat /\ nextID' - 1 = nextID
  <2>1. nextID \in Nat
    BY <1>i DEF TypeOK
  <2> QED
    BY <1>c, <2>1
<1>1. TypeOK'
  BY <1>i, <1>s, <1>c, <1>n DEF TypeOK
<1>4. ChangeOK'
  BY <1>s, <1>c, <1>n DEF ChangeOK
<1>5. PlansAreGivenOut' /\ KeysAreGivenOut'
  <2>1. FreshId' = FreshId
    BY <1>s, <1>n DEF FreshId
  <2> QED
    BY <1>i, <1>s, <1>c, <2>1, KeepCatalog
<1>8. SnapshotsAreCurrent'
  BY <1>i, <1>s, <1>c DEF SnapshotsAreCurrent
<1>9. ExactOrBuilding'
  BY <1>s DEF ExactOrBuilding
<1> QED
  BY <1>s, <1>1, <1>4, <1>5, <1>8, <1>9 DEF IInv

LEMMA CreateIndexStep == ASSUME IInv, NEW c \in Conn, CreateIndex(c) PROVE IInv'
<1>i. /\ TypeOK /\ RowsHoldValues /\ ChangeOK /\ PlansAreGivenOut /\ KeysAreGivenOut /\ SnapshotsAreCurrent
  BY DEF IInv
<1>s. /\ op = "none" /\ todo = {} /\ op' = "create index" /\ locker' = c /\ c # None
      /\ UNCHANGED <<db, tx, snap, ws, pc, plan, used, dirty, anomalies>>
      /\ statements' \in 0 .. MaxStatements
      /\ RowsHoldValues' /\ SessionOK' /\ BuffersFit'
  BY DdlStartFacts DEF CreateIndex
<1>c. /\ cat.indexes = {} /\ cat.next \in IndexId /\ nextID' = nextID
      /\ cat' = [cat EXCEPT !.next = @ + 1, !.indexes = {cat.next}]
      /\ todo' = {IndexKey(cat.id, cat.next, db[RowKey(cat.id, pk)], pk) :
                     pk \in {q \in Pk : HasRow(db, cat, q)}}
  BY DEF CreateIndex
<1>t. /\ cat \in Table /\ cat.id \in TableId
      /\ cat.next \in Nat /\ cat.next # 0 /\ cat' \in Table
      /\ cat'.id = cat.id /\ cat'.next = cat.next + 1 /\ cat'.indexes = {cat.next}
      /\ cat' # NoTable
  <2>1. cat \in Table \cup {NoTable}
    BY <1>i DEF TypeOK
  <2>2. cat.next \in Nat /\ cat.next # 0
    BY <1>c, IdAssumption
  <2>3. cat \in Table
    BY <2>1, <2>2, TableFacts
  <2>4. /\ cat' \in Table
        /\ cat'.id = cat.id /\ cat'.next = cat.next + 1 /\ cat'.indexes = {cat.next}
    <3>1. cat' = [id |-> cat.id, next |-> cat.next + 1, indexes |-> {cat.next}]
      BY <1>c, <2>3 DEF Table
    <3>2. cat.id \in TableId /\ cat.next + 1 \in Nat /\ {cat.next} \subseteq IndexId
      BY <1>c, <2>2, <2>3 DEF Table
    <3> QED
      BY <3>1, <3>2 DEF Table
  <2> QED
    BY <2>2, <2>3, <2>4, TableFacts DEF IsTable
<1>e. ASSUME NEW pk \in Pk
      PROVE  db[RowKey(cat.id, pk)] \in Val \cup {Absent}
  BY <1>i, <1>t, RowKeyFacts DEF RowsHoldValues
<1>k. \A k \in todo' : k \in EntryKeys /\ k[2] = cat.id /\ k[3] = cat.next
  BY <1>c, <1>t, <1>e, KeyParts, IndexKeyFacts DEF HasRow, EntryKeys
<1>1. TypeOK'
  <2>1. todo' \subseteq StoreKey
    BY <1>k DEF EntryKeys
  <2> QED
    BY <1>i, <1>s, <1>c, <1>t, <2>1 DEF TypeOK
<1>4. ChangeOK'
  <2>1. cat'.next - 1 = cat.next /\ cat.next \in IndexId
    BY <1>c, <1>t
  <2> QED
    BY <1>s, <1>t, <1>k, <2>1 DEF ChangeOK
<1>5. PlansAreGivenOut'
  <2>1. \A t, i : TableGivenOut(t) <=> TableGivenOut(t)'
    BY <1>s, <1>c DEF TableGivenOut, FreshId
  <2>2. \A t : \A i \in Nat : IndexGivenOut(t, i) => IndexGivenOut(t, i)'
    BY <1>t DEF IndexGivenOut
  <2>3. \A d \in Conn : \A t \in used[d] \cup {plan[d]} : t.indexes \subseteq Nat
    BY <1>i, TableFacts DEF TypeOK
  <2>4. TableGivenOut(cat.id)' /\ \A i \in cat'.indexes : i < cat'.next
    BY <1>i, <1>t, <2>1 DEF PlansAreGivenOut
  <2> QED
    BY <1>i, <1>s, <2>1, <2>2, <2>3, <2>4 DEF PlansAreGivenOut
<1>6. KeysAreGivenOut'
  <2>1. \A t : TableGivenOut(t) <=> TableGivenOut(t)'
    BY <1>s, <1>c DEF TableGivenOut, FreshId
  <2>2. \A k \in EntryKeys : k[3] \in Nat
    BY KeyParts, IdAssumption DEF EntryKeys
  <2>3. \A t : \A i \in Nat : IndexGivenOut(t, i) => IndexGivenOut(t, i)'
    BY <1>t DEF IndexGivenOut
  <2> QED
    BY <1>i, <1>s, <2>1, <2>2, <2>3 DEF KeysAreGivenOut
<1>8. SnapshotsAreCurrent'
  BY <1>i, <1>s, <1>t DEF SnapshotsAreCurrent
<1>9. ExactOrBuilding'
  <2> SUFFICES ASSUME NEW v \in Val, NEW pk \in Pk
               PROVE  LET k == IndexKey(cat'.id, cat'.next - 1, v, pk)
                      IN  (db'[k] # Absent \/ k \in todo') <=> db'[RowKey(cat'.id, pk)] = v
    BY <1>s DEF ExactOrBuilding
  <2> DEFINE k == IndexKey(cat.id, cat.next, v, pk)
  <2>1. cat'.next - 1 = cat.next
    BY <1>t
  <2>2. k \in StoreKey /\ k \in EntryKeys /\ k[2] = cat.id /\ k[3] = cat.next
    BY <1>c, <1>t, KeyParts, IndexKeyFacts DEF EntryKeys
  <2>3. db[k] = Absent
    <3> HIDE DEF k
    <3>1. ~ (cat.next < cat.next)
      BY <1>t
    <3> QED
      BY <1>i, <2>2, <3>1 DEF KeysAreGivenOut, IndexGivenOut
  <2>4. k \in todo' <=> db[RowKey(cat.id, pk)] = v
    <3>1. \A q \in Pk : HasRow(db, cat, q) =>
             (k = IndexKey(cat.id, cat.next, db[RowKey(cat.id, q)], q)
                <=> (q = pk /\ db[RowKey(cat.id, q)] = v))
      BY <1>c, <1>t, <1>e, IndexKeyFacts DEF HasRow
    <3> HIDE DEF k
    <3>2. db[RowKey(cat.id, pk)] = v => HasRow(db, cat, pk)
      BY ValueAssumption DEF HasRow
    <3> QED
      BY <1>c, <3>1, <3>2
  <2> HIDE DEF k
  <2>5. (db[k] # Absent \/ k \in todo') <=> db[RowKey(cat.id, pk)] = v
    BY <2>3, <2>4
  <2> QED
    BY <1>s, <1>t, <2>1, <2>5 DEF k
<1> QED
  BY <1>s, <1>1, <1>4, <1>5, <1>6, <1>8, <1>9 DEF IInv

LEMMA DropIndexStep == ASSUME IInv, NEW c \in Conn, DropIndex(c) PROVE IInv'
<1>i. /\ TypeOK /\ ChangeOK /\ PlansAreGivenOut /\ KeysAreGivenOut /\ SnapshotsAreCurrent
  BY DEF IInv
<1>s. /\ op = "none" /\ todo = {} /\ op' = "drop index" /\ locker' = c /\ c # None
      /\ UNCHANGED <<db, tx, snap, ws, pc, plan, used, dirty, anomalies>>
      /\ statements' \in 0 .. MaxStatements
      /\ RowsHoldValues' /\ SessionOK' /\ BuffersFit'
  BY DdlStartFacts DEF DropIndex
<1>c. /\ UNCHANGED <<cat, nextID>>
      /\ cat.indexes # {} /\ cat # NoTable
      /\ todo' \subseteq EntryKeys
  BY TableFacts DEF DropIndex, EntriesOf
<1>1. TypeOK'
  BY <1>i, <1>s, <1>c DEF TypeOK, EntryKeys
<1>4. ChangeOK'
  BY <1>s, <1>c DEF ChangeOK
<1>5. PlansAreGivenOut' /\ KeysAreGivenOut'
  <2>1. FreshId' = FreshId
    BY <1>s, <1>c DEF FreshId
  <2> QED
    BY <1>i, <1>s, <1>c, <2>1, KeepCatalog
<1>8. SnapshotsAreCurrent'
  BY <1>i, <1>s, <1>c DEF SnapshotsAreCurrent
<1>9. ExactOrBuilding'
  BY <1>s DEF ExactOrBuilding
<1> QED
  BY <1>s, <1>1, <1>4, <1>5, <1>8, <1>9 DEF IInv

LEMMA DropTableStep == ASSUME IInv, NEW c \in Conn, DropTable(c) PROVE IInv'
<1>i. /\ TypeOK /\ ChangeOK /\ PlansAreGivenOut /\ KeysAreGivenOut
  BY DEF IInv
<1>s. /\ op = "none" /\ todo = {} /\ op' = "drop table" /\ locker' = c /\ c # None
      /\ UNCHANGED <<db, tx, snap, ws, pc, plan, used, dirty, anomalies>>
      /\ statements' \in 0 .. MaxStatements
      /\ RowsHoldValues' /\ SessionOK' /\ BuffersFit'
  BY DdlStartFacts DEF DropTable
<1>k. RowKeys \subseteq StoreKey /\ EntryKeys \subseteq StoreKey
  BY EmptyCells DEF StoreKey, EntryKeys
<1>c. /\ UNCHANGED <<cat, nextID>>
      /\ cat # NoTable
      /\ todo' \subseteq StoreKey
  BY <1>k DEF DropTable, EntriesOf, RowsOf
<1>1. TypeOK'
  BY <1>i, <1>s, <1>c DEF TypeOK
<1>4. ChangeOK'
  BY <1>s, <1>c DEF ChangeOK
<1>5. PlansAreGivenOut' /\ KeysAreGivenOut'
  <2>1. FreshId' = FreshId
    BY <1>s, <1>c DEF FreshId
  <2> QED
    BY <1>i, <1>s, <1>c, <2>1, KeepCatalog
<1>8. SnapshotsAreCurrent'
  BY <1>s DEF SnapshotsAreCurrent
<1>9. ExactOrBuilding'
  BY <1>s DEF ExactOrBuilding
<1> QED
  BY <1>s, <1>1, <1>4, <1>5, <1>8, <1>9 DEF IInv

\* A key that a schema change writes, before it does.
LEMMA DdlWriteFacts ==
  ASSUME IInv, NEW c \in Conn, locker = c, NEW k \in todo
  PROVE  /\ k \in StoreKey /\ op \in {"create index", "drop index", "drop table"} /\ cat # NoTable
         /\ op # "drop table" => k \in EntryKeys
         /\ op = "create index" => k[2] = cat.id /\ k[3] = cat.next - 1
<1>1. k \in StoreKey /\ op \in {"none", "create table", "drop table", "create index", "drop index"}
  BY DEF IInv, TypeOK
<1>2. ChangeOK /\ locker # None
  BY DbNoneAssumption DEF IInv
<1> QED
  BY <1>1, <1>2 DEF ChangeOK

LEMMA DdlWriteStep == ASSUME IInv, NEW c \in Conn, DdlWrite(c) PROVE IInv'
<1>i. /\ TypeOK /\ RowsHoldValues /\ SessionOK /\ ChangeOK /\ PlansAreGivenOut
      /\ KeysAreGivenOut /\ BuffersFit /\ SnapshotsAreCurrent /\ ExactOrBuilding
  BY DEF IInv
<1>1. PICK k \in todo : /\ db' = [db EXCEPT ![k] = IF op = "create index" THEN Entry ELSE Absent]
                        /\ todo' = todo \ {k}
  BY DEF DdlWrite
<1>u. /\ locker = c
      /\ UNCHANGED <<cat, nextID, tx, snap, ws, pc, plan, used, dirty, locker, op, statements, anomalies>>
  BY DEF DdlWrite, sessions
<1>2. /\ k \in StoreKey /\ op \in {"create index", "drop index", "drop table"} /\ cat # NoTable
      /\ op # "drop table" => k \in EntryKeys
      /\ op = "create index" => k[2] = cat.id /\ k[3] = cat.next - 1
  BY <1>u, DdlWriteFacts
<1>3. cat \in Table /\ cat.id \in TableId /\ cat.next \in Nat
  BY <1>i, <1>2, TableFacts DEF TypeOK, IsTable
<1>s. /\ db \in Store
      /\ \A j \in StoreKey : db'[j] = IF j = k THEN IF op = "create index" THEN Entry ELSE Absent ELSE db[j]
  BY <1>i, <1>1 DEF TypeOK, Store
<1>k. \A j \in RowKeys : j \in StoreKey /\ j \notin EntryKeys
  BY DEF StoreKey, EntryKeys
<1>r. \A j \in RowKeys : db'[j] = db[j] \/ (op = "drop table" /\ db'[j] = Absent)
  BY <1>2, <1>s, <1>k
<1>4. TypeOK'
  <2>1. db' \in Store
    BY <1>1, <1>2, <1>s DEF Store, Cell
  <2> QED
    BY <1>i, <1>1, <1>u, <2>1 DEF TypeOK
<1>5. RowsHoldValues'
  BY <1>i, <1>u, <1>r DEF RowsHoldValues
<1>6. SessionOK'
  BY <1>i, <1>u DEF SessionOK
<1>7. ChangeOK'
  BY <1>i, <1>1, <1>2, <1>u DEF ChangeOK
<1>8. PlansAreGivenOut'
  BY <1>i, <1>u DEF PlansAreGivenOut, TableGivenOut, IndexGivenOut, FreshId
<1>9. KeysAreGivenOut'
  <2> SUFFICES ASSUME NEW j \in StoreKey,
                      db'[j] # Absent \/ \E d \in Conn : snap[d][j] # Absent \/ ws[d][j] \notin {NoEntry, Absent}
               PROVE  TableGivenOut(j[2]) /\ (j \in EntryKeys => IndexGivenOut(j[2], j[3]))
    BY <1>u DEF KeysAreGivenOut, TableGivenOut, IndexGivenOut, FreshId
  <2>1. CASE db[j] # Absent \/ \E d \in Conn : snap[d][j] # Absent \/ ws[d][j] \notin {NoEntry, Absent}
    BY <1>i, <2>1 DEF KeysAreGivenOut
  <2>2. CASE j = k /\ op = "create index"
    <3>1. TableGivenOut(cat.id)
      BY <1>i DEF PlansAreGivenOut
    <3>2. IndexGivenOut(cat.id, cat.next - 1)
      BY <1>3 DEF IndexGivenOut
    <3> QED
      BY <1>2, <2>2, <3>1, <3>2
  <2> QED
    BY <1>s, <2>1, <2>2
<1>10. BuffersFit'
  BY <1>i, <1>u DEF BuffersFit
<1>11. SnapshotsAreCurrent'
  BY <1>i, <1>u, <1>r DEF SnapshotsAreCurrent
<1>12. ExactOrBuilding'
  <2> SUFFICES ASSUME anomalies = {}, op = "create index", NEW v \in Val, NEW pk \in Pk
               PROVE  LET j == IndexKey(cat.id, cat.next - 1, v, pk)
                      IN  (db'[j] # Absent \/ j \in todo') <=> db'[RowKey(cat.id, pk)] = v
    BY <1>2, <1>u DEF ExactOrBuilding
  <2> DEFINE j == IndexKey(cat.id, cat.next - 1, v, pk)
             r == RowKey(cat.id, pk)
  <2>1. j \in StoreKey /\ r \in RowKeys
    BY <1>i, <1>3, IndexKeyFacts, RowKeyFacts DEF ChangeOK
  <2>2. (db[j] # Absent \/ j \in todo) <=> db[r] = v
    BY <1>i DEF ExactOrBuilding
  <2> HIDE DEF j, r
  <2>3. db'[r] = db[r]
    BY <1>r, <2>1
  <2>4. (db'[j] # Absent \/ j \in todo') <=> (db[j] # Absent \/ j \in todo)
    <3>1. Entry # Absent /\ todo' = todo \ {k} /\ k \in todo
      BY <1>1, ValueAssumption
    <3>2. CASE j = k
      BY <1>s, <2>1, <3>1, <3>2
    <3>3. CASE j # k
      BY <1>s, <2>1, <3>1, <3>3
    <3> QED
      BY <3>2, <3>3
  <2> QED
    BY <2>2, <2>3, <2>4 DEF j, r
<1> QED
  BY <1>4, <1>5, <1>6, <1>7, <1>8, <1>9, <1>10, <1>11, <1>12 DEF IInv

\* The catalog after a change: the table it was, one with a fresh identifier,
\* or none; what has an identifier that was given out, has one then too.
LEMMA DdlDoneCatalog ==
  ASSUME IInv, NEW c \in Conn, DdlDone(c)
  PROVE  /\ cat' \in Table \cup {NoTable}
         /\ \/ op = "create table" /\ cat'.id = FreshId /\ cat'.indexes = {}
            \/ op = "create index" /\ cat' = cat
            \/ op = "drop index" /\ cat'.id = cat.id /\ cat'.next = cat.next /\ cat'.indexes = {}
            \/ op = "drop table" /\ cat' = NoTable
         /\ FreshId \in Nat /\ FreshId' \in Nat /\ FreshId' >= FreshId /\ TableGivenOut(cat.id)'
<1>1. /\ TypeOK /\ ChangeOK /\ locker = c /\ locker # None
      /\ op' = "none" /\ nextID' = nextID
  BY DbNoneAssumption DEF IInv, DdlDone, Unlock
<1>2. /\ op \in {"create table", "create index", "drop index", "drop table"}
      /\ cat \in Table \cup {NoTable} /\ nextID \in Nat
  BY <1>1 DEF TypeOK, ChangeOK
<1>3. cat' = CASE op = "create table" -> [id |-> nextID - 1, next |-> 1, indexes |-> {}]
               [] op = "create index" -> cat
               [] op = "drop index"   -> [cat EXCEPT !.indexes = {}]
               [] op = "drop table"   -> NoTable
  BY DEF DdlDone
<1>f. FreshId' = nextID
  BY <1>1 DEF FreshId
<1>n. nextID \in Nat
  BY <1>2
<1>g. cat.id < FreshId /\ cat.id \in Nat
  BY <1>2, TableFacts DEF IInv, PlansAreGivenOut, TableGivenOut
<1>4. CASE op = "create table"
  <2>1. cat' = [id |-> nextID - 1, next |-> 1, indexes |-> {}] /\ nextID - 1 \in TableId
    BY <1>1, <1>3, <1>4 DEF ChangeOK
  <2>2. cat' \in Table /\ cat'.id = nextID - 1 /\ cat'.indexes = {}
    BY <2>1 DEF Table
  <2>3. FreshId = nextID - 1 /\ FreshId \in Nat
    BY <1>4, <2>1, IdAssumption DEF FreshId
  <2>4. TableGivenOut(cat.id)'
    <3>1. nextID - 1 < nextID
      BY <1>n
    <3> QED
      BY <1>f, <2>2, <3>1 DEF TableGivenOut
  <2>5. FreshId' \in Nat /\ FreshId' >= FreshId
    <3>1. nextID >= nextID - 1
      BY <1>n
    <3> QED
      BY <1>n, <1>f, <2>3, <3>1
  <2>6. cat'.id = FreshId
    BY <2>2, <2>3
  <2> QED
    BY <1>4, <2>2, <2>3, <2>4, <2>5, <2>6
<1>5. CASE op # "create table"
  <2>1. FreshId = nextID
    BY <1>5 DEF FreshId
  <2>2. /\ cat' \in Table \cup {NoTable}
        /\ \/ op = "create index" /\ cat' = cat
           \/ op = "drop index" /\ cat'.id = cat.id /\ cat'.next = cat.next /\ cat'.indexes = {}
           \/ op = "drop table" /\ cat' = NoTable
    <3>1. CASE op = "create index"
      BY <1>2, <1>3, <3>1
    <3>2. CASE op = "drop index"
      <4>1. cat' = [cat EXCEPT !.indexes = {}] /\ cat \in Table
        BY <1>1, <1>2, <1>3, <3>2 DEF ChangeOK
      <4> QED
        BY <3>2, <4>1 DEF Table
    <3>3. CASE op = "drop table"
      BY <1>3, <3>3
    <3> QED
      BY <1>2, <1>5, <3>1, <3>2, <3>3
  <2>3. cat.id < FreshId' /\ 0 < FreshId'
    <3>1. cat.id < nextID
      BY <1>g, <2>1
    <3>2. 0 < nextID
      BY <1>n, <1>g, <3>1
    <3> QED
      BY <1>f, <3>1, <3>2
  <2>4. TableGivenOut(cat.id)'
    <3>1. cat'.id = cat.id \/ cat'.id = 0
      BY <2>2, TableFacts
    <3> QED
      BY <2>3, <3>1 DEF TableGivenOut
  <2>5. FreshId \in Nat /\ FreshId' \in Nat /\ FreshId' >= FreshId
    <3>1. nextID >= nextID
      BY <1>n
    <3> QED
      BY <1>n, <1>f, <2>1, <3>1
  <2> QED
    BY <2>2, <2>4, <2>5
<1> QED
  BY <1>4, <1>5

LEMMA DdlDoneStep == ASSUME IInv, NEW c \in Conn, DdlDone(c) PROVE IInv'
<1>i. /\ TypeOK /\ RowsHoldValues /\ SessionOK /\ ChangeOK /\ PlansAreGivenOut
      /\ KeysAreGivenOut /\ BuffersFit /\ SnapshotsAreCurrent /\ ExactOrBuilding
  BY DEF IInv
<1>u. /\ UNCHANGED <<db, nextID, tx, snap, ws, pc, plan, used, dirty, statements, anomalies>>
      /\ todo = {} /\ locker' = None /\ op' = "none" /\ todo' = {}
  BY DEF DdlDone, Unlock, sessions
<1>c. /\ cat' \in Table \cup {NoTable}
      /\ \/ op = "create table" /\ cat'.id = FreshId /\ cat'.indexes = {}
         \/ op = "create index" /\ cat' = cat
         \/ op = "drop index" /\ cat'.id = cat.id /\ cat'.next = cat.next /\ cat'.indexes = {}
         \/ op = "drop table" /\ cat' = NoTable
      /\ TableGivenOut(cat.id)'
  BY DdlDoneCatalog
<1>f. FreshId \in Nat /\ FreshId' \in Nat /\ FreshId' >= FreshId
  BY DdlDoneCatalog
\* What was given out of the table there was, has been of the one there is.
<1>t. ASSUME NEW t \in Nat, TableGivenOut(t)
      PROVE  TableGivenOut(t)'
  <2>1. t < FreshId
    BY <1>t DEF TableGivenOut
  <2>2. t < FreshId'
    BY <1>f, <2>1
  <2> QED
    BY <2>2 DEF TableGivenOut
<1>x. ASSUME NEW t \in Nat, TableGivenOut(t), t # 0, NEW i, IndexGivenOut(t, i)
      PROVE  IndexGivenOut(t, i)'
  <2>1. op = "create table" => t # cat'.id
    <3>1. t # FreshId
      BY <1>f, <1>x DEF TableGivenOut
    <3> QED
      BY <1>c, <3>1
  <2>2. op = "drop table" => t # cat'.id
    BY <1>c, <1>x, TableFacts
  <2> QED
    BY <1>c, <1>x, <2>1, <2>2 DEF IndexGivenOut
<1>p. \A k \in StoreKey : k[2] \in Nat /\ k[2] # 0
  BY KeyParts, IdAssumption
<1>1. TypeOK'
  BY <1>i, <1>u, <1>c DEF TypeOK
<1>2. RowsHoldValues'
  BY <1>i, <1>u DEF RowsHoldValues
<1>3. SessionOK'
  BY <1>i, <1>u DEF SessionOK
<1>4. ChangeOK'
  BY <1>u DEF ChangeOK
<1>5. PlansAreGivenOut'
  <2>1. \A i \in cat'.indexes : i < cat'.next
    BY <1>i, <1>c, TableFacts DEF PlansAreGivenOut
  <2>2. ASSUME NEW d \in Conn, NEW t \in used[d] \cup {plan[d]}
        PROVE  TableGivenOut(t.id)' /\ \A i \in t.indexes : IndexGivenOut(t.id, i)'
    <3>1. t \in Table \cup {NoTable}
      BY <1>i DEF TypeOK
    <3>2. TableGivenOut(t.id) /\ \A i \in t.indexes : IndexGivenOut(t.id, i)
      BY <1>i DEF PlansAreGivenOut
    <3>3. t.id \in Nat /\ (t.id = 0 => t.indexes = {})
      BY <3>1, TableFacts
    <3> QED
      BY <1>t, <1>x, <3>2, <3>3
  <2> QED
    BY <1>u, <1>c, <2>1, <2>2 DEF PlansAreGivenOut
<1>6. KeysAreGivenOut'
  <2> SUFFICES ASSUME NEW k \in StoreKey,
                      db[k] # Absent \/ \E d \in Conn : snap[d][k] # Absent \/ ws[d][k] \notin {NoEntry, Absent}
               PROVE  TableGivenOut(k[2])' /\ (k \in EntryKeys => IndexGivenOut(k[2], k[3])')
    BY <1>u DEF KeysAreGivenOut
  <2>1. TableGivenOut(k[2]) /\ (k \in EntryKeys => IndexGivenOut(k[2], k[3]))
    BY <1>i DEF KeysAreGivenOut
  <2> QED
    BY <1>p, <1>t, <1>x, <2>1
<1>7. BuffersFit'
  BY <1>i, <1>u DEF BuffersFit
<1>8. SnapshotsAreCurrent'
  <2> SUFFICES ASSUME "failure" \notin anomalies, NEW d \in Conn, NEW k \in RowKeys,
                      tx[d] # "none", k[2] = cat'.id, k \notin dirty[d]
               PROVE  db[k] = snap[d][k]
    BY <1>u DEF SnapshotsAreCurrent
  <2>0. k \in StoreKey
    BY DEF StoreKey
  <2>1. CASE op = "create table"
    <3>1. ~ TableGivenOut(k[2])
      <4>1. ~ (FreshId < FreshId)
        BY <1>f
      <4>2. k[2] = FreshId
        BY <1>c, <2>1
      <4> QED
        BY <4>1, <4>2 DEF TableGivenOut
    <3>2. db[k] = Absent /\ snap[d][k] = Absent
      BY <1>i, <2>0, <3>1 DEF KeysAreGivenOut
    <3> QED
      BY <3>2
  <2>2. CASE op = "drop table"
    BY <1>c, <1>p, <2>0, <2>2, TableFacts
  <2>3. CASE op \in {"create index", "drop index"}
    BY <1>i, <1>c, <2>3 DEF SnapshotsAreCurrent
  <2> QED
    BY <1>c, <2>1, <2>2, <2>3
<1>9. ExactOrBuilding'
  <2> SUFFICES ASSUME anomalies = {}, NEW i \in cat'.indexes
               PROVE  IndexExact(db, cat'.id, i)
    BY <1>u DEF ExactOrBuilding, Exact
  <2>1. op = "create index" /\ cat' = cat
    BY <1>c, TableFacts
  <2>2. i = cat.next - 1
    BY <1>i, <2>1 DEF ChangeOK
  <2> QED
    BY <1>i, <1>u, <2>1, <2>2 DEF ExactOrBuilding, IndexExact, EntriesFit
<1> QED
  BY <1>1, <1>2, <1>3, <1>4, <1>5, <1>6, <1>7, <1>8, <1>9 DEF IInv

(***************************************************************************)
(* A change cut short, by a write that fails or by the end of the process. *)
(***************************************************************************)

\* What the catalog keeps when a change is cut short: nothing becomes current
\* that was not, and only a table that was about to be created is skipped.
LEMMA CutShort ==
  ASSUME IInv, Unlock, UNCHANGED <<db, cat, nextID>>, anomalies \subseteq anomalies',
         op \notin {"none", "create table"} => "failure" \in anomalies'
  PROVE  /\ ChangeOK' /\ ExactOrBuilding'
         /\ \A t \in Nat : TableGivenOut(t) => TableGivenOut(t)'
         /\ "failure" \notin anomalies' => "failure" \notin anomalies /\ op # "drop table"
<1>i. /\ TypeOK /\ ChangeOK /\ ExactOrBuilding
  BY DEF IInv
<1>u. locker' = None /\ op' = "none" /\ todo' = {}
  BY DEF Unlock
<1>1. ChangeOK'
  BY <1>u DEF ChangeOK
<1>2. ExactOrBuilding'
  <2> SUFFICES ASSUME anomalies' = {}
               PROVE  Exact(db, cat)
    BY <1>u DEF ExactOrBuilding
  <2>1. CASE op = "none"
    BY <1>i, <2>1 DEF ExactOrBuilding
  <2>2. CASE op = "create table"
    BY <1>i, <2>2, TableFacts DEF ChangeOK, Exact
  <2> QED
    BY <2>1, <2>2
<1>3. ASSUME NEW t \in Nat, TableGivenOut(t)
      PROVE  TableGivenOut(t)'
  <2>n. nextID \in Nat
    BY <1>i DEF TypeOK
  <2>1. t < nextID - 1 \/ t < nextID
    BY <1>3 DEF TableGivenOut, FreshId
  <2>2. t < nextID
    BY <2>n, <2>1, OneLess
  <2> QED
    BY <1>u, <2>2 DEF TableGivenOut, FreshId
<1> QED
  BY <1>1, <1>2, <1>3

LEMMA DdlFailedStep == ASSUME IInv, NEW c \in Conn, DdlFailed(c) PROVE IInv'
<1>i. /\ TypeOK /\ RowsHoldValues /\ SessionOK /\ ChangeOK /\ PlansAreGivenOut
      /\ KeysAreGivenOut /\ BuffersFit /\ SnapshotsAreCurrent
  BY DEF IInv
<1>u. /\ UNCHANGED <<db, cat, nextID, tx, snap, ws, pc, plan, used, dirty, statements>>
      /\ Unlock
      /\ anomalies' = anomalies \cup (IF op = "create table" THEN {} ELSE {"failure"})
  BY DEF DdlFailed, store, sessions
<1>c. /\ ChangeOK' /\ ExactOrBuilding'
      /\ \A t \in Nat : TableGivenOut(t) => TableGivenOut(t)'
      /\ "failure" \notin anomalies' => "failure" \notin anomalies /\ op # "drop table"
  BY <1>u, CutShort
<1>1. TypeOK'
  BY <1>i, <1>u DEF TypeOK, Unlock
<1>2. RowsHoldValues'
  BY <1>i, <1>u DEF RowsHoldValues
<1>3. SessionOK'
  BY <1>i, <1>u DEF SessionOK
<1>5. PlansAreGivenOut'
  <2>1. /\ cat.id \in Nat
        /\ \A d \in Conn : \A t \in used[d] \cup {plan[d]} : t.id \in Nat
    BY <1>i, TableFacts DEF TypeOK
  <2> QED
    BY <1>i, <1>u, <1>c, <2>1 DEF PlansAreGivenOut, IndexGivenOut
<1>6. KeysAreGivenOut'
  <2>1. \A k \in StoreKey : k[2] \in Nat
    BY KeyParts, IdAssumption
  <2> QED
    BY <1>i, <1>u, <1>c, <2>1 DEF KeysAreGivenOut, IndexGivenOut
<1>7. BuffersFit'
  BY <1>i, <1>u DEF BuffersFit
<1>8. SnapshotsAreCurrent'
  BY <1>i, <1>u, <1>c DEF SnapshotsAreCurrent
<1> QED
  BY <1>c, <1>1, <1>2, <1>3, <1>5, <1>6, <1>7, <1>8 DEF IInv

LEMMA CrashStep == ASSUME IInv, Crash PROVE IInv'
<1>i. /\ TypeOK /\ RowsHoldValues /\ PlansAreGivenOut /\ KeysAreGivenOut
  BY DEF IInv
<1>u. /\ UNCHANGED <<db, cat, nextID, statements>>
      /\ Unlock
      /\ anomalies' = anomalies \cup (IF op \in {"none", "create table"} THEN {} ELSE {"failure"})
  BY DEF Crash, store
<1>s. /\ tx' = [c \in Conn |-> "none"] /\ snap' = [c \in Conn |-> EmptyStore]
      /\ ws' = [c \in Conn |-> EmptyBuffer] /\ pc' = [c \in Conn |-> "idle"]
      /\ plan' = [c \in Conn |-> NoTable] /\ used' = [c \in Conn |-> {}]
      /\ dirty' = [c \in Conn |-> {}]
  BY DEF Crash
<1>c. /\ ChangeOK' /\ ExactOrBuilding'
      /\ \A t \in Nat : TableGivenOut(t) => TableGivenOut(t)'
  BY <1>u, CutShort
<1>1. TypeOK'
  <2>1. /\ tx' \in [Conn -> {"none", "implicit", "explicit"}]
        /\ snap' \in [Conn -> Store]
        /\ ws' \in [Conn -> Buffer]
        /\ pc' \in [Conn -> {"idle", "planned", "commit"}]
        /\ plan' \in [Conn -> Table \cup {NoTable}]
        /\ used' \in [Conn -> SUBSET Table]
        /\ dirty' \in [Conn -> SUBSET RowKeys]
    BY <1>s, EmptyTypes
  <2>2. anomalies' \subseteq {"conflict", "schema race", "failure", "same key"}
    BY <1>i, <1>u DEF TypeOK
  <2> QED
    BY <1>i, <1>u, <2>1, <2>2 DEF TypeOK, Unlock
<1>2. RowsHoldValues'
  BY <1>i, <1>u, <1>s, EmptyCells DEF RowsHoldValues
<1>3. SessionOK'
  BY <1>s DEF SessionOK
<1>5. PlansAreGivenOut'
  <2>1. cat.id \in Nat /\ NoTable.id \in Nat /\ \A i \in NoTable.indexes : FALSE
    BY <1>i, TableFacts DEF TypeOK
  <2>2. TableGivenOut(NoTable.id)' /\ TableGivenOut(cat.id)'
    BY <1>i, <1>u, <1>c, <2>1, NoTableGivenOut DEF PlansAreGivenOut
  <2> QED
    BY <1>i, <1>u, <1>s, <2>1, <2>2 DEF PlansAreGivenOut
<1>6. KeysAreGivenOut'
  <2>1. \A k \in StoreKey : k[2] \in Nat
    BY KeyParts, IdAssumption
  <2> QED
    BY <1>i, <1>u, <1>s, <1>c, <2>1, EmptyCells DEF KeysAreGivenOut, IndexGivenOut
<1>7. BuffersFit'
  BY <1>s, EmptyFits DEF BuffersFit
<1>8. SnapshotsAreCurrent'
  BY <1>s DEF SnapshotsAreCurrent
<1> QED
  BY <1>c, <1>1, <1>2, <1>3, <1>5, <1>6, <1>7, <1>8 DEF IInv

-----------------------------------------------------------------------------
LEMMA StepIInv == IInv /\ [Next]_vars => IInv'
<1> SUFFICES ASSUME IInv, [Next]_vars
             PROVE  IInv'
  OBVIOUS
<1>1. ASSUME NEW c \in Conn, Dml(c)
      PROVE  IInv'
  BY <1>1, PlanStep, BeginStep, RunInsertStep, RunUpdateStep, RunDeleteStep,
     DmlFailedStep, CommitStep, RollbackStep
  DEF Dml
<1>2. ASSUME NEW c \in Conn, Ddl(c)
      PROVE  IInv'
  BY <1>2, CreateTableStep, CreateIndexStep, DropIndexStep, DropTableStep,
     DdlWriteStep, DdlDoneStep, DdlFailedStep
  DEF Ddl
<1>3. CASE UNCHANGED vars
  <2>i. /\ TypeOK /\ RowsHoldValues /\ SessionOK /\ ChangeOK /\ PlansAreGivenOut
        /\ KeysAreGivenOut /\ BuffersFit /\ SnapshotsAreCurrent /\ ExactOrBuilding
    BY DEF IInv
  <2>u. UNCHANGED <<db, cat, nextID, tx, snap, ws, pc, plan, used, dirty, locker, op, todo,
                    statements, anomalies>>
    BY <1>3 DEF vars, store, sessions, ddl
  <2>1. TypeOK' /\ RowsHoldValues'
    BY <2>i, <2>u DEF TypeOK, RowsHoldValues
  <2>2. SessionOK' /\ ChangeOK'
    BY <2>i, <2>u DEF SessionOK, ChangeOK
  <2>3. PlansAreGivenOut' /\ KeysAreGivenOut'
    BY <2>i, <2>u, KeepCatalog DEF FreshId
  <2>4. BuffersFit' /\ SnapshotsAreCurrent'
    BY <2>i, <2>u DEF BuffersFit, SnapshotsAreCurrent
  <2>5. ExactOrBuilding'
    BY <2>i, <2>u DEF ExactOrBuilding
  <2> QED
    BY <2>1, <2>2, <2>3, <2>4, <2>5 DEF IInv
<1> QED
  BY <1>1, <1>2, <1>3, CrashStep DEF Next

-----------------------------------------------------------------------------
(***************************************************************************)
(* The invariants, for any sessions, identifiers, keys, values and number  *)
(* of statements, whether keys compare as equal or not, whatever fails.    *)
(***************************************************************************)

\* The inductive invariant holds in every reachable state.
THEOREM IInvHolds == Spec => []IInv
  BY InitIInv, StepIInv, PTL DEF Spec

\* Every variable of the database keeps its type.
THEOREM TypeCorrect == Spec => []TypeOK
<1>1. IInv => TypeOK
  BY DEF IInv
<1> QED
  BY <1>1, IInvHolds, PTL

\* Every index is exact, however sessions and schema changes interleave,
\* unless one of the four things happened that are known to spoil one
\* (dml.go:64, 95-97).
THEOREM IndexesStayExact == Spec => []IndexExactUnlessSpoilt
<1>1. IInv => IndexExactUnlessSpoilt
  BY DEF IInv, ChangeOK, ExactOrBuilding, IndexExactUnlessSpoilt
<1> QED
  BY <1>1, IInvHolds, PTL

\* A transaction sees through an index what it sees in the table, if its
\* snapshot has the index complete and its statements know it, whatever
\* others commit meanwhile (dml.go:22-26).
THEOREM ViewsStayExact == Spec => []ViewExact
<1>1. IInv => ViewExact
  <2> SUFFICES ASSUME IInv, "same key" \notin anomalies,
                      NEW c \in Conn, NEW t \in TableId, NEW i \in IndexId,
                      Knows(used[c], t, i), IndexExact(snap[c], t, i)
               PROVE  IndexExact(View(c), t, i)
    BY DEF ViewExact
  <2>1. snap[c] \in Store /\ ws[c] \in Buffer
    BY DEF IInv, TypeOK
  <2>2. BufferFits(ws[c], snap[c], used[c])
    BY DEF IInv, BuffersFit
  <2> QED
    BY <2>1, <2>2, OverlayKeepsExact DEF View
<1> QED
  BY <1>1, IInvHolds, PTL

\* An identifier that a key of the store or of a buffer names was given out
\* and will not be again, across failed schema changes and restarts
\* (catalog.go:243-261, 298-300).
THEOREM IdentifiersAreFresh == Spec => []FreshIdsAreUnused
<1>1. IInv => FreshIdsAreUnused
  <2> SUFFICES ASSUME IInv, NEW k \in StoreKey,
                      db[k] # Absent \/ \E c \in Conn : ws[c][k] \notin {NoEntry, Absent}
               PROVE  k[2] < nextID /\ (k[2] = cat.id /\ k \in EntryKeys => k[3] < cat.next)
    BY DEF FreshIdsAreUnused
  <2>1. TableGivenOut(k[2]) /\ (k \in EntryKeys => IndexGivenOut(k[2], k[3]))
    BY DEF IInv, KeysAreGivenOut
  <2>2. k[2] < nextID
    <3>1. k[2] \in Nat
      BY KeyParts, IdAssumption
    <3>2. nextID \in Nat
      BY DEF IInv, TypeOK
    <3>3. k[2] < nextID \/ k[2] < nextID - 1
      BY <2>1 DEF TableGivenOut, FreshId
    <3> QED
      BY <3>1, <3>2, <3>3, OneLess
  <2> QED
    BY <2>1, <2>2 DEF IndexGivenOut
<1> QED
  BY <1>1, IInvHolds, PTL
=============================================================================
