--------------------------- MODULE Mutator_proof ---------------------------
(***************************************************************************)
(* Lemmas about the mutator: what each of its operators does to the row    *)
(* and to every entry of a key, in the buffer and in the view of the       *)
(* transaction that uses it, and that entries that fit their row go on     *)
(* fitting it.  The proofs about statements and sessions rest on them.     *)
(***************************************************************************)
EXTENDS Mutator, TLAPS

\* What the operators take for a table.
IsTable(t) == t.id \in TableId /\ t.indexes \subseteq IndexId

(***************************************************************************)
(* Keys.  Two keys are equal only if they are the same key of the same     *)
(* table and index.                                                        *)
(***************************************************************************)
LEMMA RowKeyFacts ==
  ASSUME NEW t \in TableId, NEW pk \in Pk
  PROVE  /\ RowKey(t, pk) \in StoreKey
         /\ RowKey(t, pk) \in RowKeys
         /\ \A u \in TableId, q \in Pk : RowKey(t, pk) = RowKey(u, q) <=> (t = u /\ pk = q)
         /\ \A u \in TableId, i \in IndexId, v \in Val, q \in Pk :
               RowKey(t, pk) # IndexKey(u, i, v, q)
BY DEF StoreKey, RowKeys, RowKey, IndexKey

LEMMA IndexKeyFacts ==
  ASSUME NEW t \in TableId, NEW i \in IndexId, NEW v \in Val, NEW pk \in Pk
  PROVE  /\ IndexKey(t, i, v, pk) \in StoreKey
         /\ \A u \in TableId, j \in IndexId, w \in Val, q \in Pk :
               IndexKey(t, i, v, pk) = IndexKey(u, j, w, q)
                  <=> (t = u /\ i = j /\ v = w /\ pk = q)
         /\ \A u \in TableId, q \in Pk : IndexKey(t, i, v, pk) # RowKey(u, q)
BY DEF StoreKey, RowKeys, RowKey, IndexKey

\* The components of a key, and the two sorts of keys.
LEMMA KeyParts ==
  /\ \A t \in TableId, pk \in Pk : RowKey(t, pk)[2] = t
  /\ \A t \in TableId, i \in IndexId, v \in Val, pk \in Pk :
        /\ IndexKey(t, i, v, pk)[2] = t
        /\ IndexKey(t, i, v, pk)[3] = i
        /\ IndexKey(t, i, v, pk) \notin RowKeys
  /\ \A k \in RowKeys : \E t \in TableId, pk \in Pk : k = RowKey(t, pk)
  /\ \A k \in StoreKey \ RowKeys :
        \E t \in TableId, i \in IndexId, v \in Val, pk \in Pk : k = IndexKey(t, i, v, pk)
<1>1. \A t \in TableId, pk \in Pk : RowKey(t, pk)[2] = t
  BY DEF RowKey
<1>2. ASSUME NEW t \in TableId, NEW i \in IndexId, NEW v \in Val, NEW pk \in Pk
      PROVE  /\ IndexKey(t, i, v, pk)[2] = t
             /\ IndexKey(t, i, v, pk)[3] = i
             /\ IndexKey(t, i, v, pk) \notin RowKeys
  BY DEF RowKeys, RowKey, IndexKey
<1>3. /\ \A k \in RowKeys : \E t \in TableId, pk \in Pk : k = RowKey(t, pk)
      /\ \A k \in StoreKey \ RowKeys :
            \E t \in TableId, i \in IndexId, v \in Val, pk \in Pk : k = IndexKey(t, i, v, pk)
  BY DEF StoreKey, RowKeys
<1> QED
  BY <1>1, <1>2, <1>3

-----------------------------------------------------------------------------
(***************************************************************************)
(* The buffer after a call.                                                *)
(***************************************************************************)
LEMMA MutateBuffer ==
  ASSUME NEW b \in Buffer, NEW k \in StoreKey, NEW c \in Val \cup {Entry, Absent}
  PROVE  /\ Mutate(b, k, c) \in Buffer
         /\ \A j \in StoreKey : Mutate(b, k, c)[j] = IF j = k THEN c ELSE b[j]
BY DEF Buffer, Cell, Mutate

\* b2 is b with the cell c under the entries of (pk, v).
EntriesWritten(b2, b, t, pk, v, c) ==
  /\ b2 \in Buffer
  /\ \A u \in TableId, q \in Pk : b2[RowKey(u, q)] = b[RowKey(u, q)]
  /\ \A u \in TableId, i \in IndexId, w \in Val, q \in Pk : b2[IndexKey(u, i, w, q)] =
        IF u = t.id /\ i \in t.indexes /\ w = v /\ q = pk THEN c ELSE b[IndexKey(u, i, w, q)]

LEMMA WriteIndexesBuffer ==
  ASSUME NEW b \in Buffer, NEW t, IsTable(t),
         NEW pk \in Pk, NEW v \in Val, NEW c \in {Entry, Absent}
  PROVE  EntriesWritten(WriteIndexes(b, t, pk, v, c), b, t, pk, v, c)
<1> DEFINE keys == {IndexKey(t.id, i, v, pk) : i \in t.indexes}
           b2   == WriteIndexes(b, t, pk, v, c)
<1>t. t.id \in TableId /\ t.indexes \subseteq IndexId
  BY DEF IsTable
<1>1. b2 = [k \in StoreKey |-> IF k \in keys THEN c ELSE b[k]]
  BY DEF WriteIndexes
<1>2. ASSUME NEW u \in TableId, NEW q \in Pk
      PROVE  RowKey(u, q) \in StoreKey /\ RowKey(u, q) \notin keys
  BY <1>t, RowKeyFacts
<1>3. ASSUME NEW u \in TableId, NEW i \in IndexId, NEW w \in Val, NEW q \in Pk
      PROVE  /\ IndexKey(u, i, w, q) \in StoreKey
             /\ IndexKey(u, i, w, q) \in keys <=> (u = t.id /\ i \in t.indexes /\ w = v /\ q = pk)
  <2>1. \A j \in t.indexes : IndexKey(u, i, w, q) = IndexKey(t.id, j, v, pk)
                                <=> (u = t.id /\ i = j /\ w = v /\ q = pk)
    BY <1>t, IndexKeyFacts
  <2> QED
    BY <2>1, IndexKeyFacts
<1>4. b2 \in Buffer
  BY <1>1 DEF Buffer, Cell
<1> HIDE DEF b2, keys
<1> QED
  BY <1>1, <1>2, <1>3, <1>4 DEF b2, EntriesWritten

\* b2 is b with a cell under the row pk of table t and another one under the
\* entries of (pk, v).
RowWritten(b2, b, t, pk, v, cell, entry) ==
  /\ b2 \in Buffer
  /\ \A u \in TableId, q \in Pk : b2[RowKey(u, q)] =
        IF u = t.id /\ q = pk THEN cell ELSE b[RowKey(u, q)]
  /\ \A u \in TableId, i \in IndexId, w \in Val, q \in Pk : b2[IndexKey(u, i, w, q)] =
        IF u = t.id /\ i \in t.indexes /\ w = v /\ q = pk THEN entry ELSE b[IndexKey(u, i, w, q)]

LEMMA InsertBuffer ==
  ASSUME NEW b \in Buffer, NEW t, IsTable(t), NEW pk \in Pk, NEW v \in Val
  PROVE  RowWritten(Insert(b, t, pk, v), b, t, pk, v, v, Entry)
<1> DEFINE put == Mutate(b, RowKey(t.id, pk), v)
           b2  == WriteIndexes(put, t, pk, v, Entry)
<1>t. t.id \in TableId /\ RowKey(t.id, pk) \in StoreKey
  BY RowKeyFacts DEF IsTable
<1>0. b2 = Insert(b, t, pk, v)
  BY DEF Insert
<1>1. /\ put \in Buffer
      /\ \A j \in StoreKey : put[j] = IF j = RowKey(t.id, pk) THEN v ELSE b[j]
  BY <1>t, MutateBuffer
<1> HIDE DEF put
<1>2. EntriesWritten(b2, put, t, pk, v, Entry)
  BY <1>1, WriteIndexesBuffer
<1> HIDE DEF b2
<1>3. \A u \in TableId, q \in Pk : put[RowKey(u, q)] =
         IF u = t.id /\ q = pk THEN v ELSE b[RowKey(u, q)]
  BY <1>1, <1>t, RowKeyFacts
<1>4. \A u \in TableId, i \in IndexId, w \in Val, q \in Pk :
         put[IndexKey(u, i, w, q)] = b[IndexKey(u, i, w, q)]
  BY <1>1, <1>t, IndexKeyFacts
<1>5. RowWritten(b2, b, t, pk, v, v, Entry)
  BY <1>2, <1>3, <1>4 DEF EntriesWritten, RowWritten
<1> QED
  BY <1>0, <1>5

LEMMA DeleteBuffer ==
  ASSUME NEW b \in Buffer, NEW t, IsTable(t), NEW pk \in Pk, NEW v \in Val
  PROVE  RowWritten(Delete(b, t, pk, v), b, t, pk, v, Absent, Absent)
<1> DEFINE bare == WriteIndexes(b, t, pk, v, Absent)
           b2   == Mutate(bare, RowKey(t.id, pk), Absent)
<1>t. t.id \in TableId /\ RowKey(t.id, pk) \in StoreKey
  BY RowKeyFacts DEF IsTable
<1>0. b2 = Delete(b, t, pk, v)
  BY DEF Delete
<1>1. EntriesWritten(bare, b, t, pk, v, Absent)
  BY WriteIndexesBuffer
<1> HIDE DEF bare
<1>2. /\ b2 \in Buffer
      /\ \A j \in StoreKey : b2[j] = IF j = RowKey(t.id, pk) THEN Absent ELSE bare[j]
  BY <1>1, <1>t, MutateBuffer DEF EntriesWritten
<1> HIDE DEF b2
<1>3. \A u \in TableId, q \in Pk : b2[RowKey(u, q)] =
         IF u = t.id /\ q = pk THEN Absent ELSE bare[RowKey(u, q)]
  BY <1>2, <1>t, RowKeyFacts
<1>4. \A u \in TableId, i \in IndexId, w \in Val, q \in Pk :
         b2[IndexKey(u, i, w, q)] = bare[IndexKey(u, i, w, q)]
  BY <1>2, <1>t, IndexKeyFacts
<1>5. RowWritten(b2, b, t, pk, v, Absent, Absent)
  BY <1>1, <1>2, <1>3, <1>4 DEF EntriesWritten, RowWritten
<1> QED
  BY <1>0, <1>5

\* The row and the entries of key q after the row (pk, v) became (pk2, v2).
RowAfter(q, pk, pk2, v2, old) ==
  IF q = pk2 THEN v2 ELSE IF q = pk /\ ~SameKey(pk, pk2) THEN Absent ELSE old
EntryAfter(q, w, pk, v, pk2, v2, old) ==
  IF q = pk2 /\ w = v2 THEN Entry ELSE IF q = pk /\ w = v THEN Absent ELSE old

RowMoved(b2, b, t, pk, v, pk2, v2) ==
  /\ b2 \in Buffer
  /\ \A u \in TableId, q \in Pk : b2[RowKey(u, q)] =
        IF u = t.id THEN RowAfter(q, pk, pk2, v2, b[RowKey(u, q)]) ELSE b[RowKey(u, q)]
  /\ \A u \in TableId, i \in IndexId, w \in Val, q \in Pk : b2[IndexKey(u, i, w, q)] =
        IF u = t.id /\ i \in t.indexes
        THEN EntryAfter(q, w, pk, v, pk2, v2, b[IndexKey(u, i, w, q)])
        ELSE b[IndexKey(u, i, w, q)]

LEMMA UpdateBuffer ==
  ASSUME NEW b \in Buffer, NEW t, IsTable(t),
         NEW pk \in Pk, NEW v \in Val, NEW pk2 \in Pk, NEW v2 \in Val
  PROVE  RowMoved(Update(b, t, pk, v, pk2, v2), b, t, pk, v, pk2, v2)
<1> DEFINE moved == IF SameKey(pk, pk2) THEN b ELSE Mutate(b, RowKey(t.id, pk), Absent)
           bare  == WriteIndexes(moved, t, pk, v, Absent)
           put   == Mutate(bare, RowKey(t.id, pk2), v2)
           b2    == WriteIndexes(put, t, pk2, v2, Entry)
<1>0. b2 = Update(b, t, pk, v, pk2, v2)
  BY DEF Update
<1>t. t.id \in TableId /\ RowKey(t.id, pk) \in StoreKey /\ RowKey(t.id, pk2) \in StoreKey
  BY RowKeyFacts DEF IsTable
<1>1. /\ moved \in Buffer
      /\ \A j \in StoreKey : moved[j] =
            IF ~SameKey(pk, pk2) /\ j = RowKey(t.id, pk) THEN Absent ELSE b[j]
  BY <1>t, MutateBuffer
<1> HIDE DEF moved
<1>2. EntriesWritten(bare, moved, t, pk, v, Absent)
  BY <1>1, WriteIndexesBuffer
<1> HIDE DEF bare
<1>3. /\ put \in Buffer
      /\ \A j \in StoreKey : put[j] = IF j = RowKey(t.id, pk2) THEN v2 ELSE bare[j]
  BY <1>2, <1>t, MutateBuffer DEF EntriesWritten
<1> HIDE DEF put
<1>4. EntriesWritten(b2, put, t, pk2, v2, Entry)
  BY <1>3, WriteIndexesBuffer
<1> HIDE DEF b2
<1>5. ASSUME NEW u \in TableId, NEW q \in Pk
      PROVE  b2[RowKey(u, q)] =
               IF u = t.id THEN RowAfter(q, pk, pk2, v2, b[RowKey(u, q)]) ELSE b[RowKey(u, q)]
  <2>1. /\ RowKey(u, q) \in StoreKey
        /\ \A p \in Pk : RowKey(u, q) = RowKey(t.id, p) <=> (u = t.id /\ q = p)
    BY <1>t, RowKeyFacts
  <2> QED
    BY <2>1, <1>1, <1>2, <1>3, <1>4 DEF RowAfter, EntriesWritten
<1>6. ASSUME NEW u \in TableId, NEW i \in IndexId, NEW w \in Val, NEW q \in Pk
      PROVE  b2[IndexKey(u, i, w, q)] =
               IF u = t.id /\ i \in t.indexes
               THEN EntryAfter(q, w, pk, v, pk2, v2, b[IndexKey(u, i, w, q)])
               ELSE b[IndexKey(u, i, w, q)]
  <2>1. /\ IndexKey(u, i, w, q) \in StoreKey
        /\ \A p \in Pk : IndexKey(u, i, w, q) # RowKey(t.id, p)
    BY <1>t, IndexKeyFacts
  <2> QED
    BY <2>1, <1>1, <1>2, <1>3, <1>4 DEF EntryAfter, EntriesWritten
<1>7. RowMoved(b2, b, t, pk, v, pk2, v2)
  BY <1>4, <1>5, <1>6 DEF EntriesWritten, RowMoved
<1> QED
  BY <1>0, <1>7

-----------------------------------------------------------------------------
(***************************************************************************)
(* The view of a transaction after a call.                                 *)
(***************************************************************************)

\* What Update leaves: its effect on every row and on every entry of the table.
Updated(s, b, t, pk, v, pk2, v2) ==
  /\ Update(b, t, pk, v, pk2, v2) \in Buffer
  /\ \A q \in Pk : Overlay(s, Update(b, t, pk, v, pk2, v2))[RowKey(t.id, q)] =
        RowAfter(q, pk, pk2, v2, Overlay(s, b)[RowKey(t.id, q)])
  /\ \A q \in Pk, w \in Val, i \in t.indexes :
        Overlay(s, Update(b, t, pk, v, pk2, v2))[IndexKey(t.id, i, w, q)] =
        EntryAfter(q, w, pk, v, pk2, v2, Overlay(s, b)[IndexKey(t.id, i, w, q)])

\* What a transaction sees under the keys of a table.
LEMMA ViewOfTable ==
  ASSUME NEW s \in Store, NEW b \in Buffer, NEW t, IsTable(t)
  PROVE  /\ \A q \in Pk : Overlay(s, b)[RowKey(t.id, q)] =
               IF b[RowKey(t.id, q)] = NoEntry THEN s[RowKey(t.id, q)] ELSE b[RowKey(t.id, q)]
         /\ \A q \in Pk, w \in Val, i \in t.indexes : Overlay(s, b)[IndexKey(t.id, i, w, q)] =
               IF b[IndexKey(t.id, i, w, q)] = NoEntry THEN s[IndexKey(t.id, i, w, q)]
               ELSE b[IndexKey(t.id, i, w, q)]
<1>1. t.id \in TableId /\ t.indexes \subseteq IndexId
  BY DEF IsTable
<1> QED
  BY <1>1, RowKeyFacts, IndexKeyFacts DEF Overlay

LEMMA UpdateView ==
  ASSUME NEW s \in Store, NEW b \in Buffer, NEW t, IsTable(t),
         NEW pk \in Pk, NEW v \in Val, NEW pk2 \in Pk, NEW v2 \in Val
  PROVE  Updated(s, b, t, pk, v, pk2, v2)
<1> DEFINE b2 == Update(b, t, pk, v, pk2, v2)
<1>t. t.id \in TableId /\ t.indexes \subseteq IndexId
  BY DEF IsTable
<1>1. /\ b2 \in Buffer
      /\ \A q \in Pk : b2[RowKey(t.id, q)] = RowAfter(q, pk, pk2, v2, b[RowKey(t.id, q)])
      /\ \A q \in Pk, w \in Val, i \in t.indexes : b2[IndexKey(t.id, i, w, q)] =
            EntryAfter(q, w, pk, v, pk2, v2, b[IndexKey(t.id, i, w, q)])
  <2>1. RowMoved(b2, b, t, pk, v, pk2, v2)
    BY UpdateBuffer
  <2> HIDE DEF b2
  <2> QED
    BY <1>t, <2>1 DEF RowMoved
<1>2. Updated(s, b, t, pk, v, pk2, v2) <=>
         /\ b2 \in Buffer
         /\ \A q \in Pk : Overlay(s, b2)[RowKey(t.id, q)] =
               RowAfter(q, pk, pk2, v2, Overlay(s, b)[RowKey(t.id, q)])
         /\ \A q \in Pk, w \in Val, i \in t.indexes : Overlay(s, b2)[IndexKey(t.id, i, w, q)] =
               EntryAfter(q, w, pk, v, pk2, v2, Overlay(s, b)[IndexKey(t.id, i, w, q)])
  BY DEF Updated
<1> HIDE DEF b2
<1>3. \A q \in Pk : Overlay(s, b2)[RowKey(t.id, q)] =
         RowAfter(q, pk, pk2, v2, Overlay(s, b)[RowKey(t.id, q)])
  BY <1>1, ViewOfTable, ValueAssumption DEF RowAfter
<1>4. \A q \in Pk, w \in Val, i \in t.indexes : Overlay(s, b2)[IndexKey(t.id, i, w, q)] =
         EntryAfter(q, w, pk, v, pk2, v2, Overlay(s, b)[IndexKey(t.id, i, w, q)])
  BY <1>1, ViewOfTable, ValueAssumption DEF EntryAfter
<1> QED
  BY <1>1, <1>2, <1>3, <1>4

LEMMA DeleteView ==
  ASSUME NEW s \in Store, NEW b \in Buffer, NEW t, IsTable(t),
         NEW pk \in Pk, NEW v \in Val
  PROVE  /\ Delete(b, t, pk, v) \in Buffer
         /\ \A q \in Pk : Overlay(s, Delete(b, t, pk, v))[RowKey(t.id, q)] =
               IF q = pk THEN Absent ELSE Overlay(s, b)[RowKey(t.id, q)]
         /\ \A q \in Pk, w \in Val, i \in t.indexes :
               Overlay(s, Delete(b, t, pk, v))[IndexKey(t.id, i, w, q)] =
               IF q = pk /\ w = v THEN Absent ELSE Overlay(s, b)[IndexKey(t.id, i, w, q)]
<1> DEFINE b2 == Delete(b, t, pk, v)
<1>t. t.id \in TableId /\ t.indexes \subseteq IndexId
  BY DEF IsTable
<1>1. /\ b2 \in Buffer
      /\ \A q \in Pk : b2[RowKey(t.id, q)] = IF q = pk THEN Absent ELSE b[RowKey(t.id, q)]
      /\ \A q \in Pk, w \in Val, i \in t.indexes : b2[IndexKey(t.id, i, w, q)] =
            IF q = pk /\ w = v THEN Absent ELSE b[IndexKey(t.id, i, w, q)]
  BY <1>t, DeleteBuffer DEF RowWritten
<1> HIDE DEF b2
<1>2. \A q \in Pk : Overlay(s, b2)[RowKey(t.id, q)] =
         IF q = pk THEN Absent ELSE Overlay(s, b)[RowKey(t.id, q)]
  BY <1>1, ViewOfTable, ValueAssumption
<1>3. \A q \in Pk, w \in Val, i \in t.indexes : Overlay(s, b2)[IndexKey(t.id, i, w, q)] =
         IF q = pk /\ w = v THEN Absent ELSE Overlay(s, b)[IndexKey(t.id, i, w, q)]
  BY <1>1, ViewOfTable, ValueAssumption
<1> QED
  BY <1>1, <1>2, <1>3 DEF b2

LEMMA InsertView ==
  ASSUME NEW s \in Store, NEW b \in Buffer, NEW t, IsTable(t),
         NEW pk \in Pk, NEW v \in Val
  PROVE  /\ Insert(b, t, pk, v) \in Buffer
         /\ \A q \in Pk : Overlay(s, Insert(b, t, pk, v))[RowKey(t.id, q)] =
               IF q = pk THEN v ELSE Overlay(s, b)[RowKey(t.id, q)]
         /\ \A q \in Pk, w \in Val, i \in t.indexes :
               Overlay(s, Insert(b, t, pk, v))[IndexKey(t.id, i, w, q)] =
               IF q = pk /\ w = v THEN Entry ELSE Overlay(s, b)[IndexKey(t.id, i, w, q)]
<1> DEFINE b2 == Insert(b, t, pk, v)
<1>t. t.id \in TableId /\ t.indexes \subseteq IndexId
  BY DEF IsTable
<1>1. /\ b2 \in Buffer
      /\ \A q \in Pk : b2[RowKey(t.id, q)] = IF q = pk THEN v ELSE b[RowKey(t.id, q)]
      /\ \A q \in Pk, w \in Val, i \in t.indexes : b2[IndexKey(t.id, i, w, q)] =
            IF q = pk /\ w = v THEN Entry ELSE b[IndexKey(t.id, i, w, q)]
  BY <1>t, InsertBuffer DEF RowWritten
<1> HIDE DEF b2
<1>2. \A q \in Pk : Overlay(s, b2)[RowKey(t.id, q)] =
         IF q = pk THEN v ELSE Overlay(s, b)[RowKey(t.id, q)]
  BY <1>1, ViewOfTable, ValueAssumption
<1>3. \A q \in Pk, w \in Val, i \in t.indexes : Overlay(s, b2)[IndexKey(t.id, i, w, q)] =
         IF q = pk /\ w = v THEN Entry ELSE Overlay(s, b)[IndexKey(t.id, i, w, q)]
  BY <1>1, ViewOfTable, ValueAssumption
<1> QED
  BY <1>1, <1>2, <1>3 DEF b2

(***************************************************************************)
(* The mutator keeps indexes exact, key by key: a row that moves, changes, *)
(* comes or goes takes its entries with it.                                *)
(***************************************************************************)
LEMMA UpdateKeepsFit ==
  ASSUME NEW s \in Store, NEW b \in Buffer, NEW t, IsTable(t), NEW i \in t.indexes,
         NEW pk \in Pk, NEW v \in Val, NEW pk2 \in Pk, NEW v2 \in Val,
         NEW q \in Pk, EntriesFit(Overlay(s, b), t.id, i, q),
         q = pk => Overlay(s, b)[RowKey(t.id, pk)] = v,
         q \in {pk, pk2} /\ pk # pk2 => ~SameKey(pk, pk2) /\ ~HasRow(Overlay(s, b), t, pk2)
  PROVE  EntriesFit(Overlay(s, Update(b, t, pk, v, pk2, v2)), t.id, i, q)
<1> DEFINE b2   == Update(b, t, pk, v, pk2, v2)
           old  == Overlay(s, b)
           new  == Overlay(s, b2)
<1>1. /\ new[RowKey(t.id, q)] = RowAfter(q, pk, pk2, v2, old[RowKey(t.id, q)])
      /\ \A w \in Val : new[IndexKey(t.id, i, w, q)] =
            EntryAfter(q, w, pk, v, pk2, v2, old[IndexKey(t.id, i, w, q)])
  <2>1. Updated(s, b, t, pk, v, pk2, v2)
    BY UpdateView
  <2> QED
    BY <2>1 DEF Updated
<1>2. \A w \in Val : old[IndexKey(t.id, i, w, q)] # Absent <=> old[RowKey(t.id, q)] = w
  BY DEF EntriesFit
<1>3. q = pk2 /\ pk2 # pk => old[RowKey(t.id, pk2)] = Absent
  BY DEF HasRow
<1> HIDE DEF b2, old, new
<1>4. ASSUME NEW w \in Val
      PROVE  new[IndexKey(t.id, i, w, q)] # Absent <=> new[RowKey(t.id, q)] = w
  BY <1>1, <1>2, <1>3, ValueAssumption DEF old, RowAfter, EntryAfter
<1> QED
  BY <1>4 DEF EntriesFit, new, b2

LEMMA DeleteKeepsFit ==
  ASSUME NEW s \in Store, NEW b \in Buffer, NEW t, IsTable(t), NEW i \in t.indexes,
         NEW pk \in Pk, NEW v \in Val,
         NEW q \in Pk, EntriesFit(Overlay(s, b), t.id, i, q),
         q = pk => Overlay(s, b)[RowKey(t.id, pk)] = v
  PROVE  EntriesFit(Overlay(s, Delete(b, t, pk, v)), t.id, i, q)
BY DeleteView, ValueAssumption DEF EntriesFit

LEMMA InsertKeepsFit ==
  ASSUME NEW s \in Store, NEW b \in Buffer, NEW t, IsTable(t), NEW i \in t.indexes,
         NEW pk \in Pk, NEW v \in Val, ~HasRow(Overlay(s, b), t, pk),
         NEW q \in Pk, EntriesFit(Overlay(s, b), t.id, i, q)
  PROVE  EntriesFit(Overlay(s, Insert(b, t, pk, v)), t.id, i, q)
BY InsertView, ValueAssumption DEF EntriesFit, HasRow

=============================================================================
