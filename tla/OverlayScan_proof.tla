------------------------- MODULE OverlayScan_proof -------------------------
(***************************************************************************)
(* Proofs about the overlay's merge iterator: where its two positions      *)
(* stand is an inductive invariant, and with it the iterator implements    *)
(* the frozen scan, for any keys, values, snapshot and buffer, and for any *)
(* writes the statement makes while it scans.                              *)
(***************************************************************************)
EXTENDS OverlayScan, TLAPS

IInv == TypeOK /\ MergeOK

LEMMA EmptyTypes == EmptyStore \in Store /\ EmptyBuffer \in Buffer
BY DEF EmptyStore, EmptyBuffer, Store, Buffer, Cell

LEMMA InitIInv == Init => IInv
<1> SUFFICES ASSUME Init PROVE IInv
  OBVIOUS
<1>1. TypeOK
  BY EmptyTypes DEF Init, TypeOK
<1>2. MergeOK
  BY DEF Init, MergeOK
<1> QED
  BY <1>1, <1>2 DEF IInv

(***************************************************************************)
(* What the invariant says in the form the steps use it.  A produced row   *)
(* has an integer key, and the two positions hold integer keys.            *)
(***************************************************************************)
LEMMA IntegerPositions ==
  ASSUME TypeOK
  PROVE  /\ \A k \in Key : k \in Int
         /\ left \subseteq Int /\ baseLeft \subseteq Int
         /\ baseKey # NoKey => baseKey \in Key /\ baseKey \in Int
         /\ row # NoRow => row[1] \in Int
         /\ NoKey \notin Key
BY KeyAssumption, RowAssumption DEF TypeOK

\* An entry the merge produces is a pair that is not the sentinel.
LEMMA RowIsPair ==
  ASSUME NEW k \in Key, NEW v \in Value
  PROVE  <<k, v>> \in Key \X Value /\ <<k, v>> # NoRow
BY KeyAssumption, RowAssumption

\* Producing the least pending key k leaves the pending keys above it.
LEMMA PendingAbove ==
  ASSUME TypeOK, NEW k \in Key, \A j \in Pending : k <= j, row # NoRow => row[1] < k
  PROVE  {j \in Key : seen[j] # Absent /\ k < j} = Pending \ {k}
<1>1. ASSUME NEW j \in Key, seen[j] # Absent, k < j
      PROVE  j \in Pending \ {k}
  <2>1. k \in Int /\ j \in Int /\ (row # NoRow => row[1] \in Int)
    BY IntegerPositions
  <2>2. row # NoRow => row[1] < j
    <3> SUFFICES ASSUME row # NoRow PROVE row[1] < j
      OBVIOUS
    <3> DEFINE r == row[1]
    <3>1. r \in Int /\ r < k
      BY <2>1
    <3> HIDE DEF r
    <3>2. r < j
      BY <3>1, <2>1, <1>1
    <3> QED
      BY <3>2 DEF r
  <2>3. j # k
    BY <2>1, <1>1
  <2> QED
    BY <1>1, <2>2, <2>3 DEF Pending
<1>2. ASSUME NEW j \in Pending \ {k}
      PROVE  j \in Key /\ seen[j] # Absent /\ k < j
  <2>1. j \in Key /\ seen[j] # Absent /\ k <= j
    BY DEF Pending
  <2> QED
    BY <2>1, IntegerPositions
<1> QED
  BY <1>1, <1>2

LEMMA ScanStep ==
  ASSUME IInv, Scan
  PROVE  IInv'
<1>1. TypeOK'
  BY DEF IInv, TypeOK, Scan, InRange, Part, Overlay, Touched, Store, Buffer, Cell
<1>2. MergeOK'
  BY DEF IInv, TypeOK, Scan, InRange, Part, Overlay, Touched, Store, Buffer, Cell,
         MergeOK, BasePending, Pending
<1> QED
  BY <1>1, <1>2 DEF IInv

LEMMA StatementWritesStep ==
  ASSUME IInv, StatementWrites
  PROVE  IInv'
<1>1. TypeOK'
  BY DEF IInv, TypeOK, StatementWrites, Mutate, Buffer, Cell
<1>2. MergeOK'
  BY DEF IInv, StatementWrites, MergeOK, BasePending, Pending
<1> QED
  BY <1>1, <1>2 DEF IInv

\* base.Next moves the least key of baseLeft to baseKey: BasePending does
\* not change, so nothing the merge has yet to look at is lost.
LEMMA BaseNextStep ==
  ASSUME IInv, BaseNext
  PROVE  IInv'
<1>1. TypeOK'
  BY DEF IInv, TypeOK, BaseNext
<1>2. BasePending' = BasePending
  BY IntegerPositions DEF IInv, TypeOK, BaseNext, Least, BasePending
<1>3. Pending' = Pending
  BY DEF BaseNext, Pending
<1>4. ~needBase' /\ baseKey' = NoKey => baseLeft' = {}
  BY IntegerPositions DEF IInv, TypeOK, BaseNext, Least
<1>5. ~needBase' /\ baseKey' # NoKey => \A k \in baseLeft' : baseKey' < k
  <2> SUFFICES ASSUME NEW k \in Key, Least(k, baseLeft), baseKey' = k,
                      baseLeft' = baseLeft \ {k}
               PROVE  \A j \in baseLeft' : k < j
    BY DEF BaseNext
  <2> QED
    BY IntegerPositions DEF IInv, Least
<1>6. MergeOK'
  BY <1>2, <1>3, <1>4, <1>5 DEF IInv, BaseNext, MergeOK
<1> QED
  BY <1>1, <1>6 DEF IInv

(***************************************************************************)
(* Taking the entry at key k.  Everything still to be looked at is above k *)
(* afterwards: the entries because k is their least, the base keys because *)
(* k was at most the least of them and is passed if it was equal.          *)
(***************************************************************************)
LEMMA EntryIsLeast ==
  ASSUME IInv, pc = "open", ~needBase, NEW k \in left, Least(k, left),
         baseKey # NoKey => k <= baseKey
  PROVE  /\ \A j \in left \cup BasePending : k <= j
         /\ k \in Key /\ k \in Int
         /\ \A j \in Pending : k <= j
<1>1. \A j \in BasePending : k <= j
  BY IntegerPositions DEF IInv, MergeOK, BasePending, Least
<1>2. \A j \in left : k <= j
  BY DEF Least
<1>3. k \in Key /\ k \in Int
  BY IntegerPositions DEF IInv, TypeOK
<1> QED
  BY <1>1, <1>2, <1>3 DEF IInv, MergeOK

LEMMA TakeEntryStep ==
  ASSUME IInv, TakeEntry
  PROVE  IInv'
<1> PICK k \in left :
       /\ Least(k, left)
       /\ baseKey # NoKey => k <= baseKey
       /\ left' = left \ {k}
       /\ needBase' = (baseKey = k)
       /\ row' = IF entries[k] = Absent THEN row ELSE <<k, entries[k]>>
  BY DEF TakeEntry
<1>a. /\ pc = "open" /\ ~needBase
      /\ UNCHANGED <<base, buf, entries, baseLeft, baseKey, pc, seen>>
  BY DEF TakeEntry
<1>b. TypeOK /\ MergeOK
  BY DEF IInv
<1>0. /\ \A j \in left \cup BasePending : k <= j
      /\ k \in Key /\ k \in Int
      /\ \A j \in Pending : k <= j
  BY <1>a, EntryIsLeast
<1>1. entries[k] # Absent => entries[k] \in Value
  BY <1>a, <1>b, <1>0 DEF TypeOK, MergeOK, Touched, Buffer, Cell
<1>2. TypeOK'
  BY <1>1, <1>a, <1>b, <1>0 DEF TypeOK
<1>3. BasePending' = BasePending \ {k}
  <2>1. k \notin baseLeft
    BY <1>0, <1>a, <1>b, IntegerPositions DEF MergeOK
  <2> QED
    BY <2>1, <1>a, <1>b, IntegerPositions DEF BasePending
<1>4. \A j \in left' \cup BasePending' : k < j
  BY <1>0, <1>3, <1>b, IntegerPositions DEF TypeOK, BasePending
<1>5. row' # NoRow => row'[1] <= k /\ row'[1] \in Int
  BY <1>0, <1>a, <1>b, IntegerPositions DEF MergeOK
<1>6. Pending' = IF entries[k] = Absent THEN Pending ELSE Pending \ {k}
  <2>1. CASE entries[k] = Absent
    BY <2>1, <1>a DEF Pending
  <2>2. CASE entries[k] # Absent
    <3>1. row' = <<k, entries[k]>> /\ row' # NoRow /\ row'[1] = k
      BY <2>2, <1>1, <1>0, RowIsPair
    <3>2. Pending' = {j \in Key : seen[j] # Absent /\ k < j}
      BY <3>1, <1>a DEF Pending
    <3>3. row # NoRow => row[1] < k
      BY <1>a, <1>b DEF MergeOK
    <3> QED
      BY <2>2, <3>2, <3>3, <1>0, <1>b, PendingAbove
  <2> QED
    BY <2>1, <2>2
<1>7. k \in Pending => entries[k] # Absent
  BY <1>a, <1>b, <1>0 DEF Pending, MergeOK
<1>8. \A j \in left' \cup BasePending' : row' # NoRow => row'[1] < j
  BY <1>4, <1>5, <1>0, <1>3, <1>b, IntegerPositions DEF TypeOK, BasePending
<1>9. Pending' \subseteq left' \cup BasePending'
  BY <1>3, <1>6, <1>7, <1>a, <1>b DEF MergeOK
<1>10. /\ ~needBase' /\ baseKey' = NoKey => baseLeft' = {}
       /\ ~needBase' /\ baseKey' # NoKey => \A j \in baseLeft' : baseKey' < j
  BY <1>a, <1>b DEF MergeOK
<1>11. /\ left' \subseteq Touched(entries)'
       /\ \A j \in BasePending' : base'[j] # Absent
       /\ \A j \in BasePending' : j \in Touched(entries)' => j \in left'
       /\ \A j \in left' : seen'[j] = entries'[j]
       /\ \A j \in BasePending' \ left' : seen'[j] = base'[j]
  BY <1>3, <1>a, <1>b DEF MergeOK, Touched
<1>12. MergeOK'
  BY <1>8, <1>9, <1>10, <1>11, <1>a DEF MergeOK
<1> QED
  BY <1>2, <1>12 DEF IInv

(***************************************************************************)
(* Taking the base row: every entry is above it, so no entry shadows it.   *)
(***************************************************************************)
LEMMA BaseIsLeast ==
  ASSUME IInv, pc = "open", ~needBase, baseKey # NoKey, \A k \in left : baseKey < k
  PROVE  /\ baseKey \in Key /\ baseKey \in Int
         /\ baseKey \in BasePending \ left
         /\ \A j \in left \cup BasePending : baseKey <= j
         /\ \A j \in Pending : baseKey <= j
         /\ seen[baseKey] = base[baseKey]
         /\ base[baseKey] \in Value
         /\ row # NoRow => row[1] < baseKey
<1>1. /\ baseKey \in Key /\ baseKey \in Int
      /\ baseKey \in BasePending \ left
  BY IntegerPositions DEF IInv, BasePending
<1>2. \A j \in left \cup BasePending : baseKey <= j
  BY <1>1, IntegerPositions DEF IInv, TypeOK, MergeOK, BasePending
<1>3. \A j \in Pending : baseKey <= j
  BY <1>2 DEF IInv, MergeOK
<1>4. seen[baseKey] = base[baseKey] /\ base[baseKey] # Absent
  BY <1>1 DEF IInv, MergeOK
<1>5. base[baseKey] \in Value
  BY <1>1, <1>4 DEF IInv, TypeOK, Store, Cell
<1> QED
  BY <1>1, <1>2, <1>3, <1>4, <1>5 DEF IInv, MergeOK

LEMMA TakeBaseStep ==
  ASSUME IInv, TakeBase
  PROVE  IInv'
<1>a. /\ pc = "open" /\ ~needBase /\ baseKey # NoKey
      /\ \A k \in left : baseKey < k
      /\ row' = <<baseKey, base[baseKey]>>
      /\ needBase' = TRUE
      /\ UNCHANGED <<base, buf, entries, left, baseLeft, baseKey, pc, seen>>
  BY DEF TakeBase
<1>b. TypeOK /\ MergeOK
  BY DEF IInv
<1>0. /\ baseKey \in Key /\ baseKey \in Int
      /\ baseKey \in BasePending \ left
      /\ \A j \in left \cup BasePending : baseKey <= j
      /\ \A j \in Pending : baseKey <= j
      /\ seen[baseKey] = base[baseKey]
      /\ base[baseKey] \in Value
      /\ row # NoRow => row[1] < baseKey
  BY <1>a, BaseIsLeast
<1>1. TypeOK'
  BY <1>a, <1>b, <1>0 DEF TypeOK
<1>2. row' # NoRow /\ row'[1] = baseKey
  BY <1>a, <1>0, RowIsPair
<1>3. BasePending' = BasePending \ {baseKey}
  BY <1>a, <1>b, <1>0, IntegerPositions DEF BasePending, MergeOK
<1>4. \A j \in left' \cup BasePending' : baseKey < j
  BY <1>0, <1>3, <1>a, <1>b, IntegerPositions DEF TypeOK, BasePending
<1>5. Pending' = Pending \ {baseKey}
  <2>1. Pending' = {j \in Key : seen[j] # Absent /\ baseKey < j}
    BY <1>2, <1>a DEF Pending
  <2> QED
    BY <2>1, <1>0, <1>b, PendingAbove
<1>6. /\ left' \subseteq Touched(entries)'
      /\ \A j \in BasePending' : base'[j] # Absent
      /\ \A j \in BasePending' : j \in Touched(entries)' => j \in left'
      /\ \A j \in left' : seen'[j] = entries'[j]
      /\ \A j \in BasePending' \ left' : seen'[j] = base'[j]
  BY <1>3, <1>a, <1>b DEF MergeOK, Touched
<1>7. Pending' \subseteq left' \cup BasePending'
  BY <1>3, <1>5, <1>a, <1>b DEF MergeOK
<1>8. MergeOK'
  BY <1>2, <1>4, <1>6, <1>7, <1>a DEF MergeOK
<1> QED
  BY <1>1, <1>8 DEF IInv

LEMMA StepIInv == IInv /\ [Next]_vars => IInv'
<1> SUFFICES ASSUME IInv, [Next]_vars PROVE IInv'
  OBVIOUS
<1>1. CASE Scan
  BY <1>1, ScanStep
<1>2. CASE StatementWrites
  BY <1>2, StatementWritesStep
<1>3. CASE BaseNext
  BY <1>3, BaseNextStep
<1>4. CASE TakeEntry
  BY <1>4, TakeEntryStep
<1>5. CASE TakeBase
  BY <1>5, TakeBaseStep
<1>6. CASE Exhausted
  BY <1>6 DEF IInv, TypeOK, MergeOK, Exhausted
<1>7. CASE UNCHANGED vars
  BY <1>7 DEF vars, IInv, TypeOK, MergeOK, BasePending, Pending, Touched
<1> QED
  BY <1>1, <1>2, <1>3, <1>4, <1>5, <1>6, <1>7 DEF Next

\* The types and the positions of the merge, in every reachable state.
THEOREM IInvHolds == Spec => []IInv
<1>1. Init => IInv
  BY InitIInv
<1>2. IInv /\ [Next]_vars => IInv'
  BY StepIInv
<1> QED
  BY <1>1, <1>2, PTL DEF Spec

\* The merge iterator never passes a row of its range, never produces a key
\* out of order or twice, and never lets a base row through that the buffer
\* replaces (storage.go:281-312).
THEOREM MergeHolds == Spec => []MergeOK
<1>1. IInv => MergeOK
  BY DEF IInv
<1> QED
  BY <1>1, IInvHolds, PTL

\* The positions of the merge iterator stay rows and entries of the range it
\* was opened over (storage.go:255-312).
THEOREM TypeCorrect == Spec => []TypeOK
<1>1. IInv => TypeOK
  BY DEF IInv
<1> QED
  BY <1>1, IInvHolds, PTL

-----------------------------------------------------------------------------
(***************************************************************************)
(* The refinement.  A turn of the loop that produces a row is a Produce of *)
(* the frozen scan, every other turn and every write of the statement is   *)
(* invisible to it.                                                        *)
(***************************************************************************)
LEMMA InitRefines == Init => Frozen!Init
BY DEF Init, Frozen!Init, Pending, EmptyStore, Frozen!EmptyStore

LEMMA TakeEntryRefines ==
  ASSUME IInv, TakeEntry
  PROVE  Frozen!Produce \/ UNCHANGED Frozen!vars
<1> PICK k \in left :
       /\ Least(k, left)
       /\ baseKey # NoKey => k <= baseKey
       /\ row' = IF entries[k] = Absent THEN row ELSE <<k, entries[k]>>
  BY DEF TakeEntry
<1>a. pc = "open" /\ ~needBase /\ pc' = pc /\ seen' = seen
  BY DEF TakeEntry
<1>b. TypeOK /\ MergeOK
  BY DEF IInv
<1>0. /\ k \in Key /\ k \in Int
      /\ \A j \in Pending : k <= j
  BY <1>a, EntryIsLeast
<1>1. CASE entries[k] = Absent
  BY <1>1, <1>a DEF Frozen!vars, Pending
<1>2. CASE entries[k] # Absent
  <2>1. entries[k] \in Value
    BY <1>2, <1>a, <1>b, <1>0 DEF TypeOK, MergeOK, Touched, Buffer, Cell
  <2>2. seen[k] = entries[k] /\ (row # NoRow => row[1] < k)
    BY <1>a, <1>b DEF MergeOK
  <2>3. k \in Pending
    BY <1>2, <2>2, <1>0 DEF Pending
  <2>4. row' = <<k, seen[k]>> /\ row' # NoRow /\ row'[1] = k
    BY <1>2, <2>1, <2>2, <1>0, RowIsPair
  <2>5. Pending' = {j \in Key : seen[j] # Absent /\ k < j}
    BY <2>4, <1>a DEF Pending
  <2>6. Pending' = Pending \ {k}
    BY <2>5, <2>2, <1>0, <1>b, PendingAbove
  <2> QED
    BY <2>3, <2>4, <2>6, <1>0, <1>a DEF Frozen!Produce
<1> QED
  BY <1>1, <1>2

LEMMA TakeBaseRefines ==
  ASSUME IInv, TakeBase
  PROVE  Frozen!Produce
<1>a. /\ pc = "open" /\ ~needBase /\ baseKey # NoKey
      /\ \A k \in left : baseKey < k
      /\ row' = <<baseKey, base[baseKey]>>
      /\ pc' = pc /\ seen' = seen
  BY DEF TakeBase
<1>0. /\ baseKey \in Key /\ baseKey \in Int
      /\ \A j \in Pending : baseKey <= j
      /\ seen[baseKey] = base[baseKey]
      /\ base[baseKey] \in Value
      /\ row # NoRow => row[1] < baseKey
  BY <1>a, BaseIsLeast
<1>1. row' = <<baseKey, seen[baseKey]>> /\ row' # NoRow /\ row'[1] = baseKey
  BY <1>a, <1>0, RowIsPair
<1>2. baseKey \in Pending
  BY <1>0, SentinelAssumption DEF Pending
<1>3. Pending' = {j \in Key : seen[j] # Absent /\ baseKey < j}
  BY <1>1, <1>a DEF Pending
<1>4. Pending' = Pending \ {baseKey}
  BY <1>3, <1>0, PendingAbove DEF IInv
<1> QED
  BY <1>0, <1>1, <1>2, <1>4, <1>a DEF Frozen!Produce

LEMMA StepRefines ==
  ASSUME IInv, IInv', [Next]_vars
  PROVE  [Frozen!Next]_(Frozen!vars)
<1>1. CASE Scan
  <2>1. pc = "closed" /\ pc' = "open" /\ row' = row /\ row = NoRow /\ seen' \in Store
    BY <1>1 DEF Scan, IInv, TypeOK, MergeOK
  <2>2. Pending' = {k \in Key : seen'[k] # Absent}
    BY <2>1 DEF Pending
  <2> QED
    BY <2>1, <2>2 DEF Frozen!Open, Frozen!Next, Frozen!Present, Frozen!Store, Frozen!Cell, Store, Cell
<1>2. CASE StatementWrites \/ BaseNext
  BY <1>2 DEF StatementWrites, BaseNext, Frozen!vars, Pending
<1>3. CASE TakeEntry
  BY <1>3, TakeEntryRefines DEF Frozen!Next
<1>4. CASE TakeBase
  BY <1>4, TakeBaseRefines DEF Frozen!Next
<1>5. CASE Exhausted
  <2>1. Pending = {}
    BY <1>5 DEF Exhausted, IInv, MergeOK, BasePending
  <2> QED
    BY <2>1, <1>5 DEF Exhausted, Frozen!Finish, Frozen!Next, Pending
<1>6. CASE UNCHANGED vars
  BY <1>6 DEF vars, Frozen!vars, Pending
<1> QED
  BY <1>1, <1>2, <1>3, <1>4, <1>5, <1>6 DEF Next

\* A scan of an overlay produces exactly the rows the transaction saw when
\* the scan was opened, whatever the statement it drives writes meanwhile.
THEOREM ScanIsFrozen == Spec => ImplementsFrozenScan
<1>1. Init => Frozen!Init
  BY InitRefines
<1>2. IInv /\ IInv' /\ [Next]_vars => [Frozen!Next]_(Frozen!vars)
  BY StepRefines
<1> QED
  BY <1>1, <1>2, IInvHolds, PTL DEF Spec, ImplementsFrozenScan, Frozen!Spec
=============================================================================
