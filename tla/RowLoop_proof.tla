--------------------------- MODULE RowLoop_proof ---------------------------
(***************************************************************************)
(* Proofs about the row at a time loop of INSERT, UPDATE and DELETE.  What *)
(* one call of the mutator does is the subject of Mutator_proof.           *)
(***************************************************************************)
EXTENDS RowLoop, Mutator_proof, FiniteSetTheorems

-----------------------------------------------------------------------------
(***************************************************************************)
(* The loop.  While it runs, the rows still to come are untouched, which   *)
(* needs that no two of them have one key and that a row only moves to a   *)
(* key that is free.  Of the keys in spoilt nothing is claimed, and        *)
(* nothing they hold reaches another key.                                  *)
(***************************************************************************)
\* The table of the model is one the lemmas speak of.
LEMMA TableType == IsTable(tbl)
BY TableAssumption DEF tbl, IsTable

LEMMA TheTable == /\ tbl.id = 1 /\ tbl.id \in TableId
                  /\ tbl.indexes = {1} /\ tbl.indexes \subseteq IndexId
BY TableAssumption DEF tbl

LEMMA ViewIsStore ==
  ASSUME NEW s \in Store, NEW b \in Buffer
  PROVE  Overlay(s, b) \in Store
BY DEF Store, Buffer, Overlay, Cell

LEMMA ViewOfNothing ==
  ASSUME NEW s \in Store
  PROVE  EmptyBuffer \in Buffer /\ Overlay(s, EmptyBuffer) = s
BY DEF Store, Buffer, Overlay, Cell, EmptyBuffer

LEMMA InitIInv == Init => IInv
<1> SUFFICES ASSUME Init PROVE IInv
  OBVIOUS
<1> PICK rows \in [Pk -> Val \cup {Absent}] :
       base = [k \in StoreKey |->
                 IF k \in RowKeys THEN rows[k[3]]
                 ELSE IF rows[k[5]] = k[4] THEN Entry ELSE Absent]
  BY DEF Init
<1>1. \A t \in TableId, pk \in Pk : base[RowKey(t, pk)] = rows[pk]
  BY RowKeyFacts DEF RowKey
<1>2. \A t \in TableId, i \in IndexId, v \in Val, pk \in Pk :
         base[IndexKey(t, i, v, pk)] = IF rows[pk] = v THEN Entry ELSE Absent
  <2> SUFFICES ASSUME NEW t \in TableId, NEW i \in IndexId, NEW v \in Val, NEW pk \in Pk
               PROVE  base[IndexKey(t, i, v, pk)] = IF rows[pk] = v THEN Entry ELSE Absent
    OBVIOUS
  <2>1. IndexKey(t, i, v, pk) \in StoreKey /\ IndexKey(t, i, v, pk) \notin RowKeys
    BY IndexKeyFacts DEF RowKeys
  <2>2. IndexKey(t, i, v, pk)[4] = v /\ IndexKey(t, i, v, pk)[5] = pk
    BY DEF IndexKey
  <2> QED
    BY <2>1, <2>2
<1>3. base \in Store
  <2>1. ASSUME NEW k \in StoreKey PROVE base[k] \in Cell
    <3>1. CASE k \in RowKeys
      <4>1. PICK t \in TableId, pk \in Pk : k = RowKey(t, pk)
        BY <3>1 DEF RowKeys
      <4> QED
        BY <4>1, <1>1 DEF Cell
    <3>2. CASE k \notin RowKeys
      <4>1. PICK t \in TableId, i \in IndexId, v \in Val, pk \in Pk : k = IndexKey(t, i, v, pk)
        BY <3>2 DEF StoreKey
      <4> QED
        BY <4>1, <1>2 DEF Cell
    <3> QED
      BY <3>1, <3>2
  <2> QED
    BY <2>1 DEF Store
<1>5. View = base
  BY <1>3, ViewOfNothing DEF Init, View
<1>4. IndexStaysExact
  BY <1>1, <1>2, <1>5, TheTable, ValueAssumption DEF IndexStaysExact, EntriesFit
<1>6. \A pk \in Pk : View[RowKey(tbl.id, pk)] \in Val \cup {Absent}
  BY <1>1, <1>5, TheTable
<1> QED
  BY <1>3, <1>4, <1>5, <1>6, ViewOfNothing DEF Init, IInv, LoopTypes, PendingUntouched

LEMMA OpenStep ==
  ASSUME IInv, NEW what, NEW way \in {"table", "index"}, Open(what, way)
  PROVE  IInv'
<1>1. View \in Store /\ View' = View /\ spoilt' = spoilt
  BY ViewIsStore DEF Open, View, IInv, LoopTypes
<1>2. ASSUME NEW r \in rest'
      PROVE  /\ r \in Row
             /\ r[1] \notin spoilt => /\ View[RowKey(tbl.id, r[1])] = r[2]
                                      /\ View[IndexKey(tbl.id, 1, r[2], r[1])] # Absent
  <2>1. r \in ScanOf(View, way) /\ r \in Row
    BY DEF Open, ScanOf, RowsIn
  <2>2. r[1] \in Pk /\ r[2] \in Val
    BY <2>1 DEF Row
  <2>3. r[1] \notin spoilt =>
           (View[IndexKey(tbl.id, 1, r[2], r[1])] # Absent <=> View[RowKey(tbl.id, r[1])] = r[2])
    BY <2>2, TheTable DEF IInv, IndexStaysExact, EntriesFit
  <2> QED
    BY <2>1, <2>3 DEF ScanOf, RowsIn
<1>3. LoopTypes'
  BY <1>1, <1>2 DEF Open, IInv, LoopTypes, tbl
<1>4. IndexStaysExact'
  BY <1>1 DEF IInv, IndexStaysExact, tbl
<1>5. PendingUntouched'
  BY <1>1, <1>2 DEF Open, PendingUntouched, tbl
<1> QED
  BY <1>3, <1>4, <1>5 DEF IInv

\* What a visited row is, and what the others still are.
LEMMA VisitedRow ==
  ASSUME IInv, pc = "scanning", NEW r \in rest, Fetched(r) # Absent
  PROVE  /\ r[1] \in Pk /\ Fetched(r) \in Val
         /\ r[1] \notin spoilt => View[RowKey(tbl.id, r[1])] = Fetched(r)
         /\ \A q \in rest \ {r} : q[1] \notin spoilt => q[1] # r[1]
<1>1. r \in Row /\ \A q \in rest : q \in Row
  BY DEF IInv, LoopTypes
<1>2. \A q \in rest : q[1] \notin spoilt =>
         before[RowKey(tbl.id, q[1])] = q[2] /\ View[RowKey(tbl.id, q[1])] = q[2]
  BY DEF IInv, PendingUntouched
<1>3. \A q \in rest : q[1] = r[1] /\ r[1] \notin spoilt => q = r
  BY <1>1, <1>2 DEF Row
<1>4. r[1] \in Pk /\ r[2] \in Val
  BY <1>1 DEF Row
<1>5. Fetched(r) \in Val
  BY <1>4 DEF Fetched, IInv, LoopTypes
<1> QED
  BY <1>2, <1>3, <1>4, <1>5 DEF Fetched

\* What is left to show of a step that writes one row: no pending row has a
\* key it writes, and every other key keeps its row and its entries.
LEMMA WriteStep ==
  ASSUME IInv, UNCHANGED <<base, before, access, pc>>,
         buf' \in Buffer, rest' \subseteq rest, spoilt \subseteq spoilt',
         NEW Keys \in SUBSET Pk,
         \A q \in rest' : q[1] \notin spoilt' => q[1] \notin Keys,
         \A q \in Pk : View'[RowKey(tbl.id, q)] \in Val \cup {Absent},
         \A q \in Pk \ Keys : /\ View'[RowKey(tbl.id, q)] = View[RowKey(tbl.id, q)]
                              /\ \A w \in Val, i \in tbl.indexes :
                                    View'[IndexKey(tbl.id, i, w, q)] = View[IndexKey(tbl.id, i, w, q)],
         \A q \in Pk \ spoilt', i \in tbl.indexes : EntriesFit(View', tbl.id, i, q)
  PROVE  IInv'
<1>1. LoopTypes'
  BY DEF IInv, LoopTypes, tbl
<1>2. IndexStaysExact'
  BY DEF IndexStaysExact, tbl
<1>3. ASSUME NEW q \in rest', q[1] \notin spoilt', pc = "scanning"
      PROVE  /\ before[RowKey(tbl.id, q[1])] = q[2]
             /\ View'[RowKey(tbl.id, q[1])] = q[2]
             /\ View'[IndexKey(tbl.id, 1, q[2], q[1])] # Absent
  <2>1. q \in rest /\ q[1] \in Pk /\ q[2] \in Val /\ q[1] \notin Keys /\ q[1] \notin spoilt
    BY <1>3 DEF IInv, LoopTypes, Row
  <2>2. /\ before[RowKey(tbl.id, q[1])] = q[2]
        /\ View[RowKey(tbl.id, q[1])] = q[2]
        /\ View[IndexKey(tbl.id, 1, q[2], q[1])] # Absent
    BY <2>1, <1>3 DEF IInv, PendingUntouched
  <2> QED
    BY <2>1, <2>2, TheTable
<1>4. PendingUntouched'
  BY <1>3 DEF PendingUntouched, tbl
<1> QED
  BY <1>1, <1>2, <1>4 DEF IInv

LEMMA InsertRowStep ==
  ASSUME IInv, InsertRow
  PROVE  IInv'
<1> PICK new \in Row :
       /\ ~HasRow(View, tbl, new[1])
       /\ buf' = Insert(buf, tbl, new[1], new[2])
  BY DEF InsertRow
<1>a. pc = "scanning" /\ UNCHANGED <<base, before, access, pc, rest, spoilt>>
  BY DEF InsertRow
<1>b. new[1] \in Pk /\ new[2] \in Val
  BY DEF Row
<1>d. base \in Store /\ buf \in Buffer /\ View' = Overlay(base, buf')
  BY <1>a DEF IInv, LoopTypes, View
<1>1. /\ buf' \in Buffer
      /\ \A q \in Pk : View'[RowKey(tbl.id, q)] =
            IF q = new[1] THEN new[2] ELSE View[RowKey(tbl.id, q)]
      /\ \A q \in Pk, w \in Val, i \in tbl.indexes : View'[IndexKey(tbl.id, i, w, q)] =
            IF q = new[1] /\ w = new[2] THEN Entry ELSE View[IndexKey(tbl.id, i, w, q)]
  BY <1>b, <1>d, TableType, InsertView DEF View
<1>2. ASSUME NEW q \in Pk \ spoilt', NEW i \in tbl.indexes
      PROVE  EntriesFit(View', tbl.id, i, q)
  <2>1. EntriesFit(Overlay(base, buf), tbl.id, i, q)
    BY <1>a DEF IInv, IndexStaysExact, View
  <2>2. ~HasRow(Overlay(base, buf), tbl, new[1])
    BY DEF View
  <2> QED
    BY <2>1, <2>2, <1>b, <1>d, TableType, InsertKeepsFit
<1>3. \A q \in rest' : q[1] \notin spoilt' => q[1] \notin {new[1]}
  <2>1. \A q \in rest : q[2] \in Val
    BY DEF IInv, LoopTypes, Row
  <2> QED
    BY <2>1, <1>a, ValueAssumption DEF IInv, PendingUntouched, HasRow
<1>4. \A q \in Pk : View'[RowKey(tbl.id, q)] \in Val \cup {Absent}
  BY <1>1, <1>b DEF IInv, LoopTypes
<1>5. \A q \in Pk \ {new[1]} :
         /\ View'[RowKey(tbl.id, q)] = View[RowKey(tbl.id, q)]
         /\ \A w \in Val, i \in tbl.indexes :
               View'[IndexKey(tbl.id, i, w, q)] = View[IndexKey(tbl.id, i, w, q)]
  BY <1>1
<1>6. {new[1]} \in SUBSET Pk /\ rest' \subseteq rest /\ spoilt \subseteq spoilt'
  BY <1>a, <1>b
<1>7. buf' \in Buffer
  BY <1>1
<1> QED
  BY <1>2, <1>3, <1>4, <1>5, <1>6, <1>7, <1>a, WriteStep

LEMMA UpdateRowStep ==
  ASSUME IInv, UpdateRow
  PROVE  IInv'
<1> PICK r \in rest, new \in Row :
       /\ Fetched(r) # Absent
       /\ ~SameKey(r[1], new[1]) => ~HasRow(View, tbl, new[1])
       /\ buf' = Update(buf, tbl, r[1], Fetched(r), new[1], new[2])
       /\ rest' = rest \ {r}
       /\ spoilt' = spoilt \cup Spoils(r[1], new[1])
  BY DEF UpdateRow
<1>a. pc = "scanning" /\ UNCHANGED <<base, before, access, pc>>
  BY DEF UpdateRow
<1>b. new[1] \in Pk /\ new[2] \in Val
  BY DEF Row
<1>c. /\ r[1] \in Pk /\ Fetched(r) \in Val
      /\ r[1] \notin spoilt => View[RowKey(tbl.id, r[1])] = Fetched(r)
      /\ \A q \in rest \ {r} : q[1] \notin spoilt => q[1] # r[1]
  BY <1>a, VisitedRow
<1>d. base \in Store /\ buf \in Buffer /\ View' = Overlay(base, buf')
  BY <1>a DEF IInv, LoopTypes, View
<1>e. \A q \in {r[1], new[1]} \ spoilt' : r[1] # new[1] =>
         ~SameKey(r[1], new[1]) /\ ~HasRow(View, tbl, new[1])
  BY DEF Spoils
<1> HIDE DEF Spoils
<1>1. /\ buf' \in Buffer
      /\ \A q \in Pk : View'[RowKey(tbl.id, q)] =
            RowAfter(q, r[1], new[1], new[2], View[RowKey(tbl.id, q)])
      /\ \A q \in Pk, w \in Val, i \in tbl.indexes : View'[IndexKey(tbl.id, i, w, q)] =
            EntryAfter(q, w, r[1], Fetched(r), new[1], new[2], View[IndexKey(tbl.id, i, w, q)])
  <2>1. Updated(base, buf, tbl, r[1], Fetched(r), new[1], new[2])
    BY <1>b, <1>c, <1>d, TableType, UpdateView
  <2> QED
    BY <1>d, <2>1 DEF View, Updated
<1>2. ASSUME NEW q \in Pk \ spoilt', NEW i \in tbl.indexes
      PROVE  EntriesFit(View', tbl.id, i, q)
  <2>1. EntriesFit(Overlay(base, buf), tbl.id, i, q)
    BY <1>a DEF IInv, IndexStaysExact, View
  <2>2. q = r[1] => Overlay(base, buf)[RowKey(tbl.id, r[1])] = Fetched(r)
    BY <1>a, <1>c DEF View
  <2>3. q \in {r[1], new[1]} /\ r[1] # new[1] =>
           ~SameKey(r[1], new[1]) /\ ~HasRow(Overlay(base, buf), tbl, new[1])
    BY <1>e DEF View
  <2> QED
    BY <2>1, <2>2, <2>3, <1>b, <1>c, <1>d, TableType, UpdateKeepsFit
<1>3. \A q \in rest' : q[1] \notin spoilt' => q[1] \notin {r[1], new[1]}
  <2> SUFFICES ASSUME NEW q \in rest', q[1] \notin spoilt' PROVE q[1] \notin {r[1], new[1]}
    OBVIOUS
  <2>1. q \in rest /\ q[2] \in Val /\ q[1] # r[1]
    BY <1>c DEF IInv, LoopTypes, Row
  <2>2. View[RowKey(tbl.id, q[1])] = q[2]
    BY <2>1, <1>a DEF IInv, PendingUntouched
  <2>3. ASSUME q[1] = new[1] PROVE FALSE
    BY <2>1, <2>2, <2>3, <1>e, ValueAssumption DEF HasRow
  <2> QED
    BY <2>1, <2>3
<1>4. \A q \in Pk : View'[RowKey(tbl.id, q)] \in Val \cup {Absent}
  BY <1>1, <1>b DEF IInv, LoopTypes, RowAfter
<1>5. \A q \in Pk \ {r[1], new[1]} :
         /\ View'[RowKey(tbl.id, q)] = View[RowKey(tbl.id, q)]
         /\ \A w \in Val, i \in tbl.indexes :
               View'[IndexKey(tbl.id, i, w, q)] = View[IndexKey(tbl.id, i, w, q)]
  BY <1>1 DEF RowAfter, EntryAfter
<1>6. {r[1], new[1]} \in SUBSET Pk /\ rest' \subseteq rest /\ spoilt \subseteq spoilt'
  BY <1>b, <1>c
<1>7. buf' \in Buffer
  BY <1>1
<1> QED
  BY <1>2, <1>3, <1>4, <1>5, <1>6, <1>7, <1>a, WriteStep

LEMMA DeleteRowStep ==
  ASSUME IInv, DeleteRow
  PROVE  IInv'
<1> PICK r \in rest :
       /\ Fetched(r) # Absent
       /\ rest' = rest \ {r}
       /\ buf' = Delete(buf, tbl, r[1], Fetched(r))
  BY DEF DeleteRow
<1>a. pc = "scanning" /\ UNCHANGED <<base, before, access, pc, spoilt>>
  BY DEF DeleteRow
<1>c. /\ r[1] \in Pk /\ Fetched(r) \in Val
      /\ r[1] \notin spoilt => View[RowKey(tbl.id, r[1])] = Fetched(r)
      /\ \A q \in rest \ {r} : q[1] \notin spoilt => q[1] # r[1]
  BY <1>a, VisitedRow
<1>d. base \in Store /\ buf \in Buffer /\ View' = Overlay(base, buf')
  BY <1>a DEF IInv, LoopTypes, View
<1>1. /\ buf' \in Buffer
      /\ \A q \in Pk : View'[RowKey(tbl.id, q)] =
            IF q = r[1] THEN Absent ELSE View[RowKey(tbl.id, q)]
      /\ \A q \in Pk, w \in Val, i \in tbl.indexes : View'[IndexKey(tbl.id, i, w, q)] =
            IF q = r[1] /\ w = Fetched(r) THEN Absent ELSE View[IndexKey(tbl.id, i, w, q)]
  BY <1>c, <1>d, TableType, DeleteView DEF View
<1>2. ASSUME NEW q \in Pk \ spoilt', NEW i \in tbl.indexes
      PROVE  EntriesFit(View', tbl.id, i, q)
  <2>1. EntriesFit(Overlay(base, buf), tbl.id, i, q)
    BY <1>a DEF IInv, IndexStaysExact, View
  <2>2. q = r[1] => Overlay(base, buf)[RowKey(tbl.id, r[1])] = Fetched(r)
    BY <1>a, <1>c DEF View
  <2> QED
    BY <2>1, <2>2, <1>c, <1>d, TableType, DeleteKeepsFit
<1>3. \A q \in Pk : View'[RowKey(tbl.id, q)] \in Val \cup {Absent}
  BY <1>1 DEF IInv, LoopTypes
<1>4. /\ \A q \in rest' : q[1] \notin spoilt' => q[1] \notin {r[1]}
      /\ {r[1]} \in SUBSET Pk /\ rest' \subseteq rest /\ spoilt \subseteq spoilt'
  BY <1>a, <1>c
<1>5. \A q \in Pk \ {r[1]} :
         /\ View'[RowKey(tbl.id, q)] = View[RowKey(tbl.id, q)]
         /\ \A w \in Val, i \in tbl.indexes :
               View'[IndexKey(tbl.id, i, w, q)] = View[IndexKey(tbl.id, i, w, q)]
  BY <1>1
<1>6. buf' \in Buffer
  BY <1>1
<1> QED
  BY <1>2, <1>3, <1>4, <1>5, <1>6, <1>a, WriteStep

LEMMA StepIInv == IInv /\ [Next]_vars => IInv'
<1> SUFFICES ASSUME IInv, [Next]_vars PROVE IInv'
  OBVIOUS
<1>1. CASE \E what \in {"insert", "update", "delete"}, way \in {"table", "index"} : Open(what, way)
  BY <1>1, OpenStep
<1>2. CASE Filtered
  BY <1>2 DEF Filtered, IInv, LoopTypes, IndexStaysExact, PendingUntouched, View, tbl
<1>3. CASE InsertRow
  BY <1>3, InsertRowStep
<1>4. CASE UpdateRow
  BY <1>4, UpdateRowStep
<1>5. CASE DeleteRow
  BY <1>5, DeleteRowStep
<1>6. CASE RowFails \/ Done \/ UNCHANGED vars
  BY <1>6 DEF RowFails, Done, vars, IInv, LoopTypes, IndexStaysExact, PendingUntouched, View, tbl
<1> QED
  BY <1>1, <1>2, <1>3, <1>4, <1>5, <1>6 DEF Next

\* Types, exact index and untouched rows, in every reachable state.
THEOREM IInvHolds == Spec => []IInv
  BY InitIInv, StepIInv, PTL DEF Spec

\* Whatever INSERT, UPDATE and DELETE statements a transaction runs, however
\* they compute their rows and wherever they fail, the index is exact in its
\* view after every row, except for keys between which a row was moved that
\* differ and compare as equal.
THEOREM IndexIsExact == Spec => []IndexStaysExact
<1>1. IInv => IndexStaysExact
  BY DEF IInv
<1> QED
  BY <1>1, IInvHolds, PTL

\* No statement reads a row it wrote, through the table or through an index,
\* and an index scan finds the row of every entry it comes to.
THEOREM RowsAreReadAsTheyWere == Spec => []PendingUntouched
<1>1. IInv => PendingUntouched
  BY DEF IInv
<1> QED
  BY <1>1, IInvHolds, PTL

-----------------------------------------------------------------------------
(***************************************************************************)
(* What became of the rows.  A pending row is one the transaction saw when *)
(* the statement started and sees still, so each step takes one row of     *)
(* Kept and one element of the counts with it.                             *)
(***************************************************************************)
Outcome == Row \cup {Unvisited, Dropped, Deleted}

LEMMA Outcomes ==
  /\ Unvisited \notin Row /\ Dropped \notin Row /\ Deleted \notin Row
  /\ Unvisited # Dropped /\ Unvisited # Deleted /\ Dropped # Deleted
BY DEF Row, Unvisited, Dropped, Deleted

LEMMA FiniteKeys ==
  \A S \in SUBSET Pk : /\ IsFiniteSet(S) /\ Cardinality(S) \in Nat
                       /\ Cardinality(S) <= Cardinality(Pk)
BY FiniteAssumption, FS_Subset, FS_CardinalityType

LEMMA FiniteRows ==
  \A S \in SUBSET Row : /\ IsFiniteSet(S) /\ Cardinality(S) \in Nat
                        /\ Cardinality(S) <= Cardinality(Row)
<1>1. IsFiniteSet(Row)
  BY FiniteAssumption, FS_Product DEF Row
<1> QED
  BY <1>1, FS_Subset, FS_CardinalityType

\* One element more, one less.
LEMMA Counts ==
  ASSUME NEW S, IsFiniteSet(S), NEW x
  PROVE  /\ Cardinality(S) \in Nat
         /\ x \notin S => Cardinality(S \cup {x}) = Cardinality(S) + 1
         /\ x \in S => Cardinality(S \ {x}) = Cardinality(S) - 1
BY FS_CardinalityType, FS_AddElement, FS_RemoveElement

LEMMA RowsInView ==
  ASSUME NEW s
  PROVE  /\ RowsIn(s) \in SUBSET Row
         /\ \A r : r \in RowsIn(s) <=> r \in Row /\ s[RowKey(tbl.id, r[1])] = r[2]
         /\ \A r, q \in RowsIn(s) : r[1] = q[1] => r = q
<1>1. \A r : r \in RowsIn(s) <=> r \in Row /\ s[RowKey(tbl.id, r[1])] = r[2]
  BY DEF RowsIn
<1> QED
  BY <1>1 DEF Row

\* The keys that became one of S, after the outcome of one key is known.
LEMMA BecameAfter ==
  ASSUME NEW f \in [Pk -> Outcome], NEW k \in Pk, NEW x, NEW g, g = [f EXCEPT ![k] = x],
         f[k] = Unvisited, NEW S, Unvisited \notin S
  PROVE  /\ \A pk \in Pk : g[pk] = IF pk = k THEN x ELSE f[pk]
         /\ {pk \in Pk : g[pk] \in S} = {pk \in Pk : f[pk] \in S} \cup (IF x \in S THEN {k} ELSE {})
         /\ k \notin {pk \in Pk : f[pk] \in S}
<1>1. \A pk \in Pk : g[pk] = IF pk = k THEN x ELSE f[pk]
  OBVIOUS
<1> QED
  BY <1>1

\* A statement that has read nothing yet.
Fresh ==
  /\ LoopTypes
  /\ count = 0
  /\ result = [pk \in Pk |-> Unvisited]
  /\ before = View
  /\ kind = "insert" => rest = {}

LEMMA FreshLedger == Fresh => Tally /\ OneOrigin /\ ReadsBeforeWrites
<1> SUFFICES ASSUME Fresh PROVE Tally /\ OneOrigin /\ ReadsBeforeWrites
  OBVIOUS
<1>1. \A S : Unvisited \notin S => Became(S) = {}
  BY DEF Fresh, Became
<1>2. Became(Row) = {} /\ Became({Deleted}) = {} /\ Became(Row \cup {Deleted}) = {}
  BY <1>1, Outcomes
<1>3. Kept = RowsIn(before)
  BY RowsInView DEF Kept, Fresh, Row
<1>4. /\ Cardinality({}) = 0
      /\ Cardinality(RowsIn(View)) \in Nat
      /\ Cardinality(rest) \in Nat /\ Cardinality(rest) <= Cardinality(Row)
  BY FS_EmptySet, RowsInView, FiniteRows DEF Fresh, LoopTypes
<1>5. Tally
  BY <1>4 DEF Fresh, Tally
<1>6. OneOrigin
  <2>1. \A r \in rest : r[1] \in Pk
    BY DEF Fresh, LoopTypes, Row
  <2> QED
    BY <1>2, <2>1 DEF Fresh, OneOrigin
<1>7. ReadsBeforeWrites
  <2>1. RowsIn(View) = Kept \cup {result[pk] : pk \in Became(Row)}
    BY <1>2, <1>3 DEF Fresh
  <2>2. count = 0 /\ Inserted = 0 /\ RowsIn(before) = RowsIn(View)
    BY DEF Fresh, Inserted
  <2>3. \A n \in Nat : n = n + 0 - 0
    OBVIOUS
  <2>4. Cardinality(RowsIn(View)) =
           Cardinality(RowsIn(before)) + Inserted - Cardinality(Became({Deleted}))
    BY <1>2, <1>4, <2>2, <2>3
  <2>5. count = Cardinality(Became(Row \cup {Deleted}))
    BY <1>2, <1>4, <2>2
  <2> QED
    BY <2>1, <2>4, <2>5 DEF ReadsBeforeWrites
<1> QED
  BY <1>5, <1>6, <1>7

LEMMA FreshLedgerNext == Fresh' => Tally' /\ OneOrigin' /\ ReadsBeforeWrites'
BY FreshLedger, PTL

\* The counts keep the number of changed rows within the type.
LEMMA CountFits ==
  LoopTypes /\ Tally /\ ReadsBeforeWrites
     => count \in 0 .. Cardinality(IF spoilt = {} THEN Pk ELSE Row)
<1> SUFFICES ASSUME LoopTypes, Tally, ReadsBeforeWrites
             PROVE  count \in 0 .. Cardinality(IF spoilt = {} THEN Pk ELSE Row)
  OBVIOUS
<1>1. count \in Nat
  BY DEF Tally
<1>2. CASE spoilt = {}
  <2>1. count = Cardinality(Became(Row \cup {Deleted}))
    BY <1>2 DEF ReadsBeforeWrites
  <2>2. Became(Row \cup {Deleted}) \in SUBSET Pk
    BY DEF Became
  <2>3. count <= Cardinality(Pk) /\ Cardinality(Pk) \in Nat
    BY <2>1, <2>2, FiniteKeys
  <2> QED
    BY <1>1, <1>2, <2>3
<1>3. CASE spoilt # {}
  <2>1. /\ Cardinality(RowsIn(View)) \in Nat /\ Cardinality(RowsIn(View)) <= Cardinality(Row)
        /\ Cardinality(rest) \in Nat /\ Cardinality(Row) \in Nat
    BY RowsInView, FiniteRows DEF LoopTypes
  <2>2. CASE kind = "insert"
    <3>1. count <= Cardinality(RowsIn(View))
      BY <2>2 DEF Tally
    <3> QED
      BY <1>1, <1>3, <2>1, <3>1
  <2>3. CASE kind # "insert"
    <3>1. count + Cardinality(rest) <= Cardinality(Row)
      BY <2>3 DEF Tally
    <3> QED
      BY <1>1, <1>3, <2>1, <3>1
  <2> QED
    BY <2>2, <2>3
<1> QED
  BY <1>2, <1>3

LEMMA CountFitsNext ==
  LoopTypes' /\ Tally' /\ ReadsBeforeWrites'
     => (count \in 0 .. Cardinality(IF spoilt = {} THEN Pk ELSE Row))'
BY CountFits, PTL

LEMMA InitLedger == Init => Ledger
<1> SUFFICES ASSUME Init PROVE Ledger
  OBVIOUS
<1>1. IInv
  BY InitIInv
<1>2. base \in Store /\ View = base /\ before = base
  BY <1>1, ViewOfNothing DEF Init, View, IInv, LoopTypes
<1>3. Fresh
  BY <1>1, <1>2 DEF Init, Fresh, IInv
<1>4. Tally /\ OneOrigin /\ ReadsBeforeWrites
  BY <1>3, FreshLedger
<1>5. TypeOK
  <2>1. count \in 0 .. Cardinality(IF spoilt = {} THEN Pk ELSE Row)
    BY <1>1, <1>4, CountFits DEF IInv
  <2>2. statements \in 0 .. MaxStatements
    BY LoopBoundAssumption DEF Init
  <2>3. kind \in {"insert", "update", "delete"} /\ pc \in {"ready", "scanning", "failed"}
        /\ spoilt \subseteq Pk /\ result \in [Pk -> Row \cup {Unvisited, Dropped, Deleted}]
    BY DEF Init
  <2> QED
    BY <1>1, <2>1, <2>2, <2>3 DEF TypeOK, IInv, LoopTypes
<1> QED
  BY <1>4, <1>5 DEF Ledger

LEMMA OpenLedger ==
  ASSUME IInv, IInv', Ledger,
         NEW what \in {"insert", "update", "delete"}, NEW way \in {"table", "index"}, Open(what, way)
  PROVE  Ledger'
<1>1. View' = View
  BY DEF Open, View
<1>2. Fresh'
  BY <1>1 DEF Open, Fresh, IInv
<1>3. Tally' /\ OneOrigin' /\ ReadsBeforeWrites'
  BY <1>2, FreshLedgerNext
<1>4. (count \in 0 .. Cardinality(IF spoilt = {} THEN Pk ELSE Row))'
  BY <1>3, CountFitsNext DEF IInv
<1>5. statements' \in 0 .. MaxStatements
  BY LoopBoundAssumption DEF Open, Ledger, TypeOK
<1>6. result' \in [Pk -> Row \cup {Unvisited, Dropped, Deleted}]
  BY DEF Open
<1>7. kind' \in {"insert", "update", "delete"} /\ pc' \in {"ready", "scanning", "failed"}
      /\ spoilt' \subseteq Pk
  BY DEF Open, Ledger, TypeOK
<1>8. TypeOK'
  BY <1>4, <1>5, <1>6, <1>7 DEF TypeOK, IInv, LoopTypes
<1> QED
  BY <1>3, <1>8 DEF Ledger

\* What is left to show of a step of a running statement.
LEMMA RunningLedger ==
  ASSUME IInv', Ledger, UNCHANGED <<kind, statements>>,
         pc' \in {"ready", "scanning", "failed"}, spoilt' \subseteq Pk, result' \in [Pk -> Outcome],
         Tally', OneOrigin', ReadsBeforeWrites'
  PROVE  Ledger'
<1>1. (count \in 0 .. Cardinality(IF spoilt = {} THEN Pk ELSE Row))'
  BY CountFitsNext DEF IInv
<1>2. TypeOK'
  BY <1>1 DEF TypeOK, IInv, LoopTypes, Ledger, Outcome
<1> QED
  BY <1>2 DEF Ledger

\* The row the scan is at is one the statement has kept so far.
LEMMA RowAtHand ==
  ASSUME IInv, Ledger, pc = "scanning", NEW r \in rest, Fetched(r) # Absent
  PROVE  /\ r \in Row /\ r[1] \in Pk /\ kind # "insert"
         /\ spoilt = {} => /\ r \in RowsIn(before) /\ r \in RowsIn(View) /\ r \in Kept
                           /\ result[r[1]] = Unvisited /\ Fetched(r) = r[2]
                           /\ \A q \in rest \ {r} : q[1] # r[1]
<1>1. r \in Row /\ r[1] \in Pk
  BY DEF IInv, LoopTypes, Row
<1>2. kind # "insert"
  BY DEF Ledger, Tally
<1>3. ASSUME spoilt = {}
      PROVE  /\ r \in RowsIn(before) /\ r \in RowsIn(View) /\ r \in Kept
             /\ result[r[1]] = Unvisited /\ Fetched(r) = r[2]
  <2>1. before[RowKey(tbl.id, r[1])] = r[2] /\ View[RowKey(tbl.id, r[1])] = r[2]
    BY <1>3 DEF IInv, PendingUntouched
  <2>2. result[r[1]] = Unvisited
    BY <1>3 DEF Ledger, OneOrigin
  <2> QED
    BY <1>1, <2>1, <2>2, RowsInView DEF Kept, Fetched
<1> QED
  BY <1>1, <1>2, <1>3, VisitedRow

\* A row read counts for one that was still to come.
LEMMA ReadTally ==
  ASSUME IInv, Ledger, NEW r \in rest, kind # "insert", kind' = kind, rest' = rest \ {r},
         NEW d \in {0, 1}, count' = count + d
  PROVE  Tally'
<1>1. Cardinality(rest') = Cardinality(rest) - 1 /\ Cardinality(rest) \in Nat
  BY FiniteRows, Counts DEF IInv, LoopTypes
<1>2. count \in Nat /\ count + Cardinality(rest) <= Cardinality(Row) /\ Cardinality(Row) \in Nat
  BY FiniteRows DEF Ledger, Tally
<1>3. kind' # "insert" /\ count' \in Nat
  BY <1>2
<1>4. count' + Cardinality(rest') <= Cardinality(Row)
  BY <1>1, <1>2
<1> QED
  BY <1>3, <1>4 DEF Tally

LEMMA FilteredLedger ==
  ASSUME IInv, IInv', Ledger, Filtered
  PROVE  Ledger'
<1> PICK r \in rest :
       /\ Fetched(r) # Absent
       /\ rest' = rest \ {r}
       /\ result' = [result EXCEPT ![r[1]] = Dropped]
  BY DEF Filtered
<1>a. pc = "scanning" /\ UNCHANGED <<base, buf, kind, count, pc, statements, before, spoilt>>
  BY DEF Filtered
<1>b. View' = View
  BY <1>a DEF View
<1>c. r \in Row /\ r[1] \in Pk /\ kind # "insert" /\ result \in [Pk -> Outcome]
  BY <1>a, RowAtHand DEF Ledger, TypeOK, Outcome
<1>d. \A pk \in Pk : result'[pk] = IF pk = r[1] THEN Dropped ELSE result[pk]
  BY <1>c
<1>1. result' \in [Pk -> Outcome] /\ spoilt' \subseteq Pk /\ pc' = "scanning"
  BY <1>a, <1>c DEF Outcome, Ledger, TypeOK
<1>2. Tally'
  <2>1. count' = count + 0
    BY <1>a DEF Ledger, Tally
  <2> QED
    BY <1>a, <1>c, <2>1, ReadTally
<1>3. ASSUME spoilt = {}
      PROVE  /\ Kept' = Kept
             /\ \A S : Unvisited \notin S /\ Dropped \notin S => Became(S)' = Became(S)
             /\ \A pk \in Became(Row) : result'[pk] = result[pk]
             /\ \A q \in rest' : result'[q[1]] = Unvisited
  <2>1. result[r[1]] = Unvisited /\ \A q \in rest \ {r} : q[1] # r[1]
    BY <1>a, <1>3, RowAtHand
  <2>2. \A q \in Row : result'[q[1]] \in {Unvisited, Dropped} <=> result[q[1]] \in {Unvisited, Dropped}
    BY <1>d, <2>1 DEF Row
  <2>3. Kept' = Kept
    BY <1>a, <2>2, RowsInView DEF Kept, tbl, RowsIn
  <2>4. \A S : Unvisited \notin S /\ Dropped \notin S => Became(S)' = Became(S)
    BY <1>d, <2>1 DEF Became
  <2>5. \A pk \in Became(Row) : result'[pk] = result[pk]
    BY <1>d, <2>1, Outcomes DEF Became
  <2>6. \A q \in rest' : result'[q[1]] = Unvisited
    BY <1>3, <1>d, <2>1 DEF Ledger, OneOrigin, IInv, LoopTypes, Row
  <2> QED
    BY <2>3, <2>4, <2>5, <2>6
<1>4. ASSUME spoilt = {}
      PROVE  /\ Became(Row)' = Became(Row) /\ Became({Deleted})' = Became({Deleted})
             /\ Became(Row \cup {Deleted})' = Became(Row \cup {Deleted})
  BY <1>3, <1>4, Outcomes
<1>5. OneOrigin'
  BY <1>a, <1>c, <1>3, <1>4 DEF Ledger, OneOrigin
<1>6. ReadsBeforeWrites'
  <2> SUFFICES ASSUME spoilt = {} PROVE ReadsBeforeWrites'
    BY <1>a DEF ReadsBeforeWrites
  <2>1. Inserted' = Inserted /\ RowsIn(View)' = RowsIn(View) /\ RowsIn(before)' = RowsIn(before)
    BY <1>a, <1>b DEF Inserted, RowsIn, tbl
  <2>2. {result[pk] : pk \in Became(Row)}' = {result[pk] : pk \in Became(Row)}
    BY <1>3, <1>4
  <2>3. Kept' = Kept /\ Became({Deleted})' = Became({Deleted})
        /\ Became(Row \cup {Deleted})' = Became(Row \cup {Deleted})
    BY <1>3, <1>4
  <2> QED
    BY <1>a, <2>1, <2>2, <2>3 DEF Ledger, ReadsBeforeWrites
<1> QED
  BY <1>a, <1>1, <1>2, <1>5, <1>6, RunningLedger

\* The outcome of key k becomes known: a row, or the row is gone.
Settles(k, x) ==
  /\ k \in Pk /\ result \in [Pk -> Outcome] /\ result[k] = Unvisited
  /\ x \in Row \cup {Deleted}
  /\ result' = [result EXCEPT ![k] = x]
  /\ count' = count + 1

LEMMA SettledOutcomes ==
  ASSUME NEW k, NEW x, Settles(k, x)
  PROVE  /\ \A pk \in Pk : result'[pk] = IF pk = k THEN x ELSE result[pk]
         /\ result' \in [Pk -> Outcome]
         /\ Became(Row)' = Became(Row) \cup (IF x \in Row THEN {k} ELSE {})
         /\ Became({Deleted})' = Became({Deleted}) \cup (IF x = Deleted THEN {k} ELSE {})
         /\ Became(Row \cup {Deleted})' = Became(Row \cup {Deleted}) \cup {k}
         /\ k \notin Became(Row) /\ k \notin Became({Deleted}) /\ k \notin Became(Row \cup {Deleted})
<1>1. result' \in [Pk -> Outcome]
  BY DEF Settles, Outcome
<1>2. Unvisited \notin Row /\ Unvisited \notin {Deleted} /\ Unvisited \notin Row \cup {Deleted}
  BY Outcomes
<1>3. \A pk \in Pk : result'[pk] = IF pk = k THEN x ELSE result[pk]
  BY DEF Settles
<1>4. ASSUME NEW S, Unvisited \notin S
      PROVE  /\ Became(S)' = Became(S) \cup (IF x \in S THEN {k} ELSE {})
             /\ k \notin Became(S)
  BY <1>3, <1>4 DEF Settles, Became
<1>5. x \in {Deleted} <=> x = Deleted
  OBVIOUS
<1>6. x \in Row \cup {Deleted}
  BY DEF Settles
<1> QED
  BY <1>1, <1>2, <1>3, <1>4, <1>5, <1>6

LEMMA SettledCounts ==
  ASSUME Ledger, spoilt = {}, NEW k, NEW x, Settles(k, x)
  PROVE  /\ count' = Cardinality(Became(Row \cup {Deleted})')
         /\ x \in Row => Cardinality(Became({Deleted})') = Cardinality(Became({Deleted}))
         /\ x = Deleted => Cardinality(Became({Deleted})') = Cardinality(Became({Deleted})) + 1
         /\ Cardinality(Became({Deleted})) \in Nat
<1>1. \A S : IsFiniteSet(Became(S))
  BY FiniteKeys DEF Became
<1>2. /\ Became({Deleted})' = Became({Deleted}) \cup (IF x = Deleted THEN {k} ELSE {})
      /\ Became(Row \cup {Deleted})' = Became(Row \cup {Deleted}) \cup {k}
      /\ k \notin Became({Deleted}) /\ k \notin Became(Row \cup {Deleted})
  BY SettledOutcomes
<1>3. Cardinality(Became(Row \cup {Deleted})') = Cardinality(Became(Row \cup {Deleted})) + 1
  BY <1>1, <1>2, Counts
<1>4. count = Cardinality(Became(Row \cup {Deleted})) /\ count' = count + 1
  BY DEF Ledger, ReadsBeforeWrites, Settles
<1>5. Cardinality(Became({Deleted}) \cup {k}) = Cardinality(Became({Deleted})) + 1
  BY <1>1, <1>2, Counts
<1>6. x \in Row => x # Deleted
  BY Outcomes
<1>7. Became({Deleted}) \cup {} = Became({Deleted})
  OBVIOUS
<1> QED
  BY <1>1, <1>2, <1>3, <1>4, <1>5, <1>6, <1>7, Counts

LEMMA InsertRowLedger ==
  ASSUME IInv, IInv', Ledger, InsertRow
  PROVE  Ledger'
<1> PICK new \in Row :
       /\ ~HasRow(View, tbl, new[1])
       /\ buf' = Insert(buf, tbl, new[1], new[2])
       /\ result' = [result EXCEPT ![new[1]] = new]
  BY DEF InsertRow
<1>a. /\ pc = "scanning" /\ kind = "insert" /\ count' = count + 1
      /\ UNCHANGED <<base, kind, rest, pc, statements, before, spoilt>>
  BY DEF InsertRow
<1>b. new[1] \in Pk /\ new[2] \in Val /\ result \in [Pk -> Outcome]
  BY DEF Row, Ledger, TypeOK, Outcome
<1>c. \A q \in Pk : View'[RowKey(tbl.id, q)] =
         IF q = new[1] THEN new[2] ELSE View[RowKey(tbl.id, q)]
  <2>1. base \in Store /\ buf \in Buffer /\ View' = Overlay(base, buf')
    BY <1>a DEF IInv, LoopTypes, View
  <2> QED
    BY <1>b, <2>1, TableType, InsertView DEF View
<1>d. View[RowKey(tbl.id, new[1])] = Absent
  BY DEF HasRow
<1>1. RowsIn(View') = RowsIn(View) \cup {new} /\ new \notin RowsIn(View)
      /\ \A q \in RowsIn(View) : q[1] # new[1]
  <2>1. \A q \in RowsIn(View) : q[1] # new[1]
    BY <1>d, RowsInView, ValueAssumption DEF Row
  <2>2. \A q \in Row : q[1] = new[1] /\ q[2] = new[2] => q = new
    BY DEF Row
  <2>3. \A q \in Row : q[1] \in Pk
    BY DEF Row
  <2>4. \A q \in Row : q \in RowsIn(View') <=> q \in RowsIn(View) \/ q = new
    BY <1>c, <2>1, <2>2, <2>3, RowsInView
  <2> QED
    BY <2>1, <2>4, RowsInView
<1>2. Cardinality(RowsIn(View')) = Cardinality(RowsIn(View)) + 1 /\ Cardinality(RowsIn(View)) \in Nat
  BY <1>1, RowsInView, FiniteRows, Counts
<1>3. Tally'
  <2>1. count \in Nat /\ count <= Cardinality(RowsIn(View)) /\ rest = {}
    BY <1>a DEF Ledger, Tally
  <2>2. count' \in Nat /\ count' <= Cardinality(RowsIn(View'))
    BY <1>a, <1>2, <2>1
  <2>3. RowsIn(View)' = RowsIn(View')
    BY DEF RowsIn, tbl
  <2> QED
    BY <1>a, <2>1, <2>2, <2>3 DEF Tally
<1>4. result' \in [Pk -> Outcome] /\ spoilt' \subseteq Pk /\ pc' = "scanning"
  BY <1>a, <1>b DEF Outcome, Ledger, TypeOK
<1>5. ASSUME spoilt = {}
      PROVE  OneOrigin' /\ ReadsBeforeWrites'
  <2>1. /\ RowsIn(View) = Kept \cup {result[pk] : pk \in Became(Row)}
        /\ Cardinality(RowsIn(View)) =
              Cardinality(RowsIn(before)) + Inserted - Cardinality(Became({Deleted}))
        /\ Inserted = count
    BY <1>a, <1>5 DEF Ledger, ReadsBeforeWrites, Inserted
  <2>2. \A pk \in Pk : result[pk] = Unvisited \/ (result[pk] \in Row /\ result[pk][1] = pk)
    BY <1>a, <1>5 DEF Ledger, OneOrigin
  <2>3. result[new[1]] = Unvisited
    BY <1>1, <1>b, <2>1, <2>2 DEF Became
  <2>4. Settles(new[1], new)
    BY <1>a, <1>b, <2>3 DEF Settles
  <2>5. /\ \A pk \in Pk : result'[pk] = IF pk = new[1] THEN new ELSE result[pk]
        /\ Became(Row)' = Became(Row) \cup {new[1]} /\ new[1] \notin Became(Row)
    BY <2>4, SettledOutcomes
  <2>6. Kept' = Kept /\ \A q \in Kept : q[1] # new[1] /\ q[1] \in Pk
    <3>1. RowsIn(before)' = RowsIn(before)
      BY <1>a DEF RowsIn, tbl
    <3>2. \A q \in RowsIn(before) : q[1] = new[1] => q \in Kept
      BY <2>3 DEF Kept
    <3>3. \A q \in RowsIn(before) : q[1] # new[1] /\ q[1] \in Pk
      BY <1>1, <2>1, <3>2, RowsInView DEF Row
    <3>4. \A q \in RowsIn(before) : result'[q[1]] = result[q[1]]
      BY <2>5, <3>3
    <3> QED
      BY <3>1, <3>3, <3>4 DEF Kept
  <2>7. {result[pk] : pk \in Became(Row)}' = {result[pk] : pk \in Became(Row)} \cup {new}
    <3>1. \A pk \in Became(Row) : pk # new[1] /\ pk \in Pk /\ result'[pk] = result[pk]
      BY <2>5 DEF Became
    <3>2. result'[new[1]] = new
      BY <1>b, <2>5
    <3> QED
      BY <2>5, <3>1, <3>2
  <2>8. \A pk \in Became(Row) : result[pk] \in RowsIn(View) /\ pk \in Pk /\ result[pk][1] # new[1]
    BY <1>1, <2>1 DEF Became
  <2>9. OneOrigin'
    <3>1. \A r \in rest' : result'[r[1]] = Unvisited
      BY <1>a DEF Ledger, Tally
    <3>2. \A pk, q \in Became(Row)' : result'[pk][1] = result'[q][1] => pk = q
      BY <1>5, <1>b, <2>5, <2>8 DEF Ledger, OneOrigin
    <3>3. \A pk \in Became(Row)', r \in Kept' : result'[pk][1] # r[1]
      BY <1>5, <1>b, <2>5, <2>6, <2>8 DEF Ledger, OneOrigin
    <3>4. \A pk \in Pk : result'[pk] = Unvisited \/ (result'[pk] \in Row /\ result'[pk][1] = pk)
      BY <2>2, <2>5
    <3> QED
      BY <3>1, <3>2, <3>3, <3>4 DEF OneOrigin
  <2>10. ReadsBeforeWrites'
    <3>1. RowsIn(View)' = RowsIn(View') /\ RowsIn(before)' = RowsIn(before)
      BY <1>a DEF RowsIn, tbl
    <3>2. RowsIn(View') = Kept' \cup {result[pk] : pk \in Became(Row)}'
      BY <1>1, <2>1, <2>6, <2>7
    <3>3. /\ count' = Cardinality(Became(Row \cup {Deleted})')
          /\ Cardinality(Became({Deleted})') = Cardinality(Became({Deleted}))
          /\ Cardinality(Became({Deleted})) \in Nat
      BY <1>5, <2>4, SettledCounts
    <3>4. Inserted' = count + 1
      BY <1>a DEF Inserted
    <3>5. Cardinality(RowsIn(before)) \in Nat /\ count \in Nat
      BY RowsInView, FiniteRows DEF Ledger, Tally
    <3>6. Cardinality(RowsIn(View')) =
             Cardinality(RowsIn(before)) + Inserted' - Cardinality(Became({Deleted})')
      BY <1>2, <2>1, <3>3, <3>4, <3>5
    <3> QED
      BY <3>1, <3>2, <3>3, <3>6 DEF ReadsBeforeWrites
  <2> QED
    BY <2>9, <2>10
<1>6. OneOrigin' /\ ReadsBeforeWrites'
  BY <1>a, <1>5 DEF OneOrigin, ReadsBeforeWrites
<1> QED
  BY <1>a, <1>3, <1>4, <1>6, RunningLedger

\* What an UPDATE or a DELETE leaves to show: the row it read gave way to one
\* with a key of its own, or to none.
LEMMA ReplacedLedger ==
  ASSUME IInv, Ledger, pc = "scanning", spoilt = {}, NEW r \in rest, Fetched(r) # Absent, NEW x,
         UNCHANGED <<kind, before>>, rest' = rest \ {r}, Settles(r[1], x),
         RowsIn(View') = (RowsIn(View) \ {r}) \cup (IF x \in Row THEN {x} ELSE {}),
         x \in Row => \A q \in RowsIn(View) \ {r} : q[1] # x[1]
  PROVE  OneOrigin' /\ ReadsBeforeWrites'
<1>0. /\ r \in Row /\ r[1] \in Pk /\ kind # "insert"
      /\ r \in RowsIn(before) /\ r \in RowsIn(View) /\ r \in Kept /\ result[r[1]] = Unvisited
      /\ \A q \in rest \ {r} : q[1] # r[1]
  BY RowAtHand
<1>1. /\ RowsIn(View) = Kept \cup {result[pk] : pk \in Became(Row)}
      /\ Cardinality(RowsIn(View)) =
            Cardinality(RowsIn(before)) + Inserted - Cardinality(Became({Deleted}))
  BY DEF Ledger, ReadsBeforeWrites
<1>2. /\ \A pk \in Pk : result'[pk] = IF pk = r[1] THEN x ELSE result[pk]
      /\ Became(Row)' = Became(Row) \cup (IF x \in Row THEN {r[1]} ELSE {})
      /\ r[1] \notin Became(Row)
  BY SettledOutcomes
<1>3. Kept' = Kept \ {r}
  <2>1. RowsIn(before)' = RowsIn(before)
    BY DEF RowsIn, tbl
  <2>2. x \notin {Unvisited, Dropped}
    BY Outcomes DEF Settles
  <2>3. \A q \in RowsIn(before) : q[1] \in Pk /\ (q[1] = r[1] <=> q = r)
    BY <1>0, RowsInView DEF Row
  <2>4. \A q \in RowsIn(before) : result'[q[1]] \in {Unvisited, Dropped}
                                     <=> result[q[1]] \in {Unvisited, Dropped} /\ q # r
    BY <1>2, <2>2, <2>3
  <2> QED
    BY <2>1, <2>4 DEF Kept
<1>4. \A pk \in Became(Row) : /\ pk \in Pk /\ pk # r[1] /\ result'[pk] = result[pk]
                              /\ result[pk] \in RowsIn(View) \ {r}
                              /\ result[pk][1] # r[1]
  <2>1. \A pk \in Became(Row) : result[pk][1] # r[1]
    BY <1>0 DEF Ledger, OneOrigin
  <2> QED
    BY <1>1, <1>2, <2>1 DEF Became
<1>5. x \in Row => result'[r[1]] = x /\ Became(Row)' = Became(Row) \cup {r[1]}
  BY <1>0, <1>2
<1>6. x \notin Row => Became(Row)' = Became(Row)
  BY <1>2
<1>7. {result[pk] : pk \in Became(Row)}' =
         {result[pk] : pk \in Became(Row)} \cup (IF x \in Row THEN {x} ELSE {})
  <2>1. CASE x \in Row
    BY <2>1, <1>4, <1>5
  <2>2. CASE x \notin Row
    BY <2>2, <1>4, <1>6
  <2> QED
    BY <2>1, <2>2
<1>8. OneOrigin'
  <2>1. \A q \in rest' : result'[q[1]] = Unvisited
    <3>1. \A q \in rest : q[1] \in Pk /\ result[q[1]] = Unvisited
      BY DEF Ledger, OneOrigin, IInv, LoopTypes, Row
    <3> QED
      BY <1>0, <1>2, <3>1
  <2>2. ASSUME NEW pk \in Became(Row)', NEW q \in Became(Row)', result'[pk][1] = result'[q][1]
        PROVE  pk = q
    <3>1. CASE pk \in Became(Row) /\ q \in Became(Row)
      BY <2>2, <3>1, <1>4 DEF Ledger, OneOrigin
    <3>2. CASE pk \notin Became(Row) \/ q \notin Became(Row)
      BY <2>2, <3>2, <1>4, <1>5, <1>6
    <3> QED
      BY <3>1, <3>2
  <2>3. ASSUME NEW pk \in Became(Row)', NEW q \in Kept'
        PROVE  result'[pk][1] # q[1]
    <3>1. CASE pk \in Became(Row)
      BY <3>1, <2>3, <1>3, <1>4 DEF Ledger, OneOrigin
    <3>2. CASE pk \notin Became(Row)
      BY <3>2, <2>3, <1>1, <1>3, <1>5, <1>6
    <3> QED
      BY <3>1, <3>2
  <2> QED
    BY <1>0, <2>1, <2>2, <2>3 DEF OneOrigin
<1>9. ReadsBeforeWrites'
  <2>1. RowsIn(View)' = RowsIn(View') /\ RowsIn(before)' = RowsIn(before)
    BY DEF RowsIn, tbl
  <2>2. r \notin {result[pk] : pk \in Became(Row)}
    BY <1>4
  <2>3. RowsIn(View') = Kept' \cup {result[pk] : pk \in Became(Row)}'
    BY <1>1, <1>3, <1>7, <2>2
  <2>4. Inserted' = 0 /\ Inserted = 0
    BY <1>0 DEF Inserted
  <2>5. IsFiniteSet(RowsIn(View)) /\ IsFiniteSet(RowsIn(View) \ {r})
        /\ Cardinality(RowsIn(View)) \in Nat
        /\ Cardinality(RowsIn(View) \ {r}) = Cardinality(RowsIn(View)) - 1
        /\ Cardinality(RowsIn(before)) \in Nat
    BY <1>0, RowsInView, FiniteRows, Counts
  <2>6. /\ count' = Cardinality(Became(Row \cup {Deleted})')
        /\ x \in Row => Cardinality(Became({Deleted})') = Cardinality(Became({Deleted}))
        /\ x = Deleted => Cardinality(Became({Deleted})') = Cardinality(Became({Deleted})) + 1
        /\ Cardinality(Became({Deleted})) \in Nat
    BY SettledCounts
  <2>7. Cardinality(RowsIn(View')) =
           Cardinality(RowsIn(before)) + Inserted' - Cardinality(Became({Deleted})')
    <3>1. CASE x \in Row
      <4>1. x \notin RowsIn(View) \ {r}
        BY <3>1
      <4>2. Cardinality(RowsIn(View')) = (Cardinality(RowsIn(View)) - 1) + 1
        BY <3>1, <4>1, <2>5, Counts
      <4> QED
        BY <3>1, <4>2, <2>4, <2>5, <2>6, <1>1
    <3>2. CASE x \notin Row
      <4>1. x = Deleted /\ RowsIn(View') = RowsIn(View) \ {r}
        BY <3>2 DEF Settles
      <4>2. Cardinality(Became({Deleted})') = Cardinality(Became({Deleted})) + 1
        BY <4>1, <2>6
      <4>3. Cardinality(RowsIn(View')) = Cardinality(RowsIn(View)) - 1
        BY <4>1, <2>5
      <4> QED
        BY <4>2, <4>3, <2>4, <2>5, <2>6, <1>1
    <3> QED
      BY <3>1, <3>2
  <2> QED
    BY <2>1, <2>3, <2>6, <2>7 DEF ReadsBeforeWrites
<1> QED
  BY <1>8, <1>9

LEMMA DeleteRowLedger ==
  ASSUME IInv, IInv', Ledger, DeleteRow
  PROVE  Ledger'
<1> PICK r \in rest :
       /\ Fetched(r) # Absent
       /\ rest' = rest \ {r}
       /\ buf' = Delete(buf, tbl, r[1], Fetched(r))
       /\ result' = [result EXCEPT ![r[1]] = Deleted]
  BY DEF DeleteRow
<1>a. /\ pc = "scanning" /\ kind = "delete" /\ count' = count + 1
      /\ UNCHANGED <<base, kind, pc, statements, before, spoilt>>
  BY DEF DeleteRow
<1>b. /\ r \in Row /\ r[1] \in Pk /\ kind # "insert"
      /\ spoilt = {} => r \in RowsIn(View) /\ result[r[1]] = Unvisited
  BY <1>a, RowAtHand
<1>c. Fetched(r) \in Val
  BY <1>a, VisitedRow
<1>1. result' \in [Pk -> Outcome] /\ spoilt' \subseteq Pk /\ pc' = "scanning"
      /\ result \in [Pk -> Outcome]
  BY <1>a, <1>b DEF Outcome, Ledger, TypeOK
<1>2. Tally'
  BY <1>a, <1>b, ReadTally
<1>3. RowsIn(View') = {q \in RowsIn(View) : q[1] # r[1]}
  <2>1. base \in Store /\ buf \in Buffer /\ View' = Overlay(base, buf')
    BY <1>a DEF IInv, LoopTypes, View
  <2>2. \A q \in Pk : View'[RowKey(tbl.id, q)] = IF q = r[1] THEN Absent ELSE View[RowKey(tbl.id, q)]
    BY <1>b, <1>c, <2>1, TableType, DeleteView DEF View
  <2>3. \A q \in Row : q[1] \in Pk /\ q[2] # Absent
    BY ValueAssumption DEF Row
  <2>4. \A q \in Row : q \in RowsIn(View') <=> q \in RowsIn(View) /\ q[1] # r[1]
    BY <2>2, <2>3, RowsInView
  <2> QED
    BY <2>4, RowsInView
<1>4. ASSUME spoilt = {}
      PROVE  OneOrigin' /\ ReadsBeforeWrites'
  <2>1. Settles(r[1], Deleted)
    BY <1>a, <1>b, <1>1, <1>4 DEF Settles
  <2>2. RowsIn(View') = RowsIn(View) \ {r}
    BY <1>3, <1>b, <1>4, RowsInView
  <2> QED
    BY <1>a, <1>4, <2>1, <2>2, Outcomes, ReplacedLedger
<1>5. OneOrigin' /\ ReadsBeforeWrites'
  BY <1>a, <1>4 DEF OneOrigin, ReadsBeforeWrites
<1> QED
  BY <1>a, <1>1, <1>2, <1>5, RunningLedger

LEMMA UpdateRowLedger ==
  ASSUME IInv, IInv', Ledger, UpdateRow
  PROVE  Ledger'
<1> PICK r \in rest, new \in Row :
       /\ Fetched(r) # Absent
       /\ ~SameKey(r[1], new[1]) => ~HasRow(View, tbl, new[1])
       /\ buf' = Update(buf, tbl, r[1], Fetched(r), new[1], new[2])
       /\ rest' = rest \ {r}
       /\ result' = [result EXCEPT ![r[1]] = new]
       /\ spoilt' = spoilt \cup Spoils(r[1], new[1])
  BY DEF UpdateRow
<1>a. /\ pc = "scanning" /\ count' = count + 1
      /\ UNCHANGED <<base, kind, pc, statements, before>>
  BY DEF UpdateRow
<1>b. /\ r \in Row /\ r[1] \in Pk /\ kind # "insert"
      /\ spoilt = {} => r \in RowsIn(View) /\ result[r[1]] = Unvisited
  BY <1>a, RowAtHand
<1>c. Fetched(r) \in Val /\ new[1] \in Pk /\ new[2] \in Val
  BY <1>a, VisitedRow DEF Row
<1>1. result' \in [Pk -> Outcome] /\ spoilt' \subseteq Pk /\ pc' = "scanning"
      /\ result \in [Pk -> Outcome]
  BY <1>a, <1>b, <1>c DEF Outcome, Ledger, TypeOK, Spoils
<1>2. Tally'
  BY <1>a, <1>b, ReadTally
<1>3. \A q \in Pk : View'[RowKey(tbl.id, q)] =
         RowAfter(q, r[1], new[1], new[2], View[RowKey(tbl.id, q)])
  <2>1. base \in Store /\ buf \in Buffer /\ View' = Overlay(base, buf')
    BY <1>a DEF IInv, LoopTypes, View
  <2>2. Updated(base, buf, tbl, r[1], Fetched(r), new[1], new[2])
    BY <1>b, <1>c, <2>1, TableType, UpdateView
  <2> QED
    BY <2>1, <2>2 DEF View, Updated
<1>4. ASSUME spoilt' = {}
      PROVE  OneOrigin' /\ ReadsBeforeWrites'
  <2>1. spoilt = {} /\ (r[1] = new[1] \/ (~SameKey(r[1], new[1]) /\ ~HasRow(View, tbl, new[1])))
    BY <1>4 DEF Spoils
  <2>2. Settles(r[1], new)
    BY <1>a, <1>b, <1>1, <2>1 DEF Settles
  <2>3. \A q \in Pk : View'[RowKey(tbl.id, q)] = IF q = new[1] THEN new[2]
                                                ELSE IF q = r[1] THEN Absent
                                                ELSE View[RowKey(tbl.id, q)]
    BY <1>3, <2>1 DEF RowAfter
  <2>4. r[1] # new[1] => View[RowKey(tbl.id, new[1])] = Absent
    BY <2>1 DEF HasRow
  <2>5. \A q \in Row : q[1] \in Pk /\ q[2] # Absent /\ (q = new <=> q[1] = new[1] /\ q[2] = new[2])
    BY ValueAssumption DEF Row
  <2>6. \A q \in RowsIn(View) : q[1] = r[1] <=> q = r
    BY <1>b, <2>1, RowsInView
  <2>7. \A q \in RowsIn(View) \ {r} : q[1] # new[1]
    BY <2>4, <2>5, <2>6, RowsInView
  <2>8. RowsIn(View') = (RowsIn(View) \ {r}) \cup {new}
    <3>1. \A q \in Row : q \in RowsIn(View') <=> q = new \/ (q \in RowsIn(View) /\ q # r)
      <4> SUFFICES ASSUME NEW q \in Row
                   PROVE  q \in RowsIn(View') <=> q = new \/ (q \in RowsIn(View) /\ q # r)
        OBVIOUS
      <4>1. q \in RowsIn(View') <=> View'[RowKey(tbl.id, q[1])] = q[2]
        BY RowsInView
      <4>2. q \in RowsIn(View) <=> View[RowKey(tbl.id, q[1])] = q[2]
        BY RowsInView
      <4>3. CASE q[1] = new[1]
        BY <4>1, <4>3, <2>3, <2>5, <2>7
      <4>4. CASE q[1] # new[1] /\ q[1] = r[1]
        BY <4>1, <4>4, <2>3, <2>5, <2>6
      <4>5. CASE q[1] # new[1] /\ q[1] # r[1]
        BY <4>1, <4>2, <4>5, <2>3, <2>5
      <4> QED
        BY <4>3, <4>4, <4>5
    <3> QED
      BY <3>1, RowsInView
  <2> QED
    BY <1>a, <2>1, <2>2, <2>7, <2>8, ReplacedLedger
<1>5. OneOrigin' /\ ReadsBeforeWrites'
  BY <1>4 DEF OneOrigin, ReadsBeforeWrites
<1> QED
  BY <1>a, <1>1, <1>2, <1>5, RunningLedger

LEMMA StepLedger == IInv /\ IInv' /\ Ledger /\ [Next]_vars => Ledger'
<1> SUFFICES ASSUME IInv, IInv', Ledger, [Next]_vars PROVE Ledger'
  OBVIOUS
<1>1. CASE \E what \in {"insert", "update", "delete"}, way \in {"table", "index"} : Open(what, way)
  BY <1>1, OpenLedger
<1>2. CASE Filtered
  BY <1>2, FilteredLedger
<1>3. CASE InsertRow
  BY <1>3, InsertRowLedger
<1>4. CASE UpdateRow
  BY <1>4, UpdateRowLedger
<1>5. CASE DeleteRow
  BY <1>5, DeleteRowLedger
<1>6. CASE RowFails \/ Done \/ UNCHANGED vars
  <2>1. /\ UNCHANGED <<base, buf, kind, rest, count, statements, before, result, spoilt>>
        /\ pc' \in {"ready", "scanning", "failed"}
    BY <1>6 DEF RowFails, Done, vars, Ledger, TypeOK
  <2>2. /\ View' = View
        /\ Became(Row)' = Became(Row) /\ Became({Deleted})' = Became({Deleted})
        /\ Became(Row \cup {Deleted})' = Became(Row \cup {Deleted})
        /\ Kept' = Kept /\ Inserted' = Inserted /\ RowsIn(before)' = RowsIn(before)
        /\ RowsIn(View)' = RowsIn(View)
        /\ {result[pk] : pk \in Became(Row)}' = {result[pk] : pk \in Became(Row)}
    BY <2>1 DEF View, Became, Kept, Inserted, RowsIn, tbl
  <2>3. Tally' /\ OneOrigin' /\ ReadsBeforeWrites'
    BY <2>1, <2>2 DEF Ledger, Tally, OneOrigin, ReadsBeforeWrites
  <2>4. result' \in [Pk -> Outcome] /\ spoilt' \subseteq Pk
    BY <2>1 DEF Ledger, TypeOK, Outcome
  <2> QED
    BY <2>1, <2>3, <2>4, RunningLedger
<1> QED
  BY <1>1, <1>2, <1>3, <1>4, <1>5, <1>6 DEF Next

\* Rows, outcomes and counts agree, in every reachable state.
THEOREM LedgerHolds == Spec => []Ledger
<1>1. Init => Ledger
  BY InitLedger
<1>2. IInv /\ IInv' /\ Ledger /\ [Next]_vars => Ledger'
  BY StepLedger
<1> QED
  BY <1>1, <1>2, IInvHolds, PTL DEF Spec

\* Every state is well-typed: no statement changes more rows than the table
\* has keys, as long as no row was moved between keys that compare as equal.
THEOREM TypeCorrect == Spec => []TypeOK
<1>1. Ledger => TypeOK
  BY DEF Ledger
<1> QED
  BY <1>1, LedgerHolds, PTL

\* A statement that writes each row before it reads the next one leaves the
\* table as one that reads them all first: no row is lost, none has two
\* origins, and the number it reports is the number of rows it changed.
THEOREM RowsAreReadFirst == Spec => []ReadsBeforeWrites
<1>1. Ledger => ReadsBeforeWrites
  BY DEF Ledger
<1> QED
  BY <1>1, LedgerHolds, PTL
=============================================================================
