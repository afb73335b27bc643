---------------------------- MODULE KeelTx_proof ----------------------------
(***************************************************************************)
(* Proofs about the transaction engine: IInv is inductive, so the safety   *)
(* properties of KeelTx hold for any number of sessions and transactions,  *)
(* any keys and values and any faults, and the engine implements           *)
(* SnapshotTx.  The heart of it is StoreIsCommittedPlusPrefix, which says  *)
(* what the store holds in the middle of a commit; Locking is why nobody   *)
(* sees it, Ownership why no two sessions work on one buffer.              *)
(***************************************************************************)
EXTENDS KeelTx, TLAPS

(***************************************************************************)
(* Applying a write set one key at a time.                                 *)
(***************************************************************************)
LEMMA ApplyNothing ==
  ASSUME NEW s \in Store, NEW b \in Buffer
  PROVE  Overlay(s, Part(b, {})) = s
BY DEF Store, Overlay, Part

LEMMA ApplyOne ==
  ASSUME NEW s \in Store, NEW b \in Buffer, NEW D \in SUBSET Key, NEW k \in Touched(b)
  PROVE  [Overlay(s, Part(b, D)) EXCEPT ![k] = b[k]] = Overlay(s, Part(b, D \cup {k}))
BY SentinelAssumption DEF Store, Buffer, Cell, Overlay, Part, Touched

LEMMA ApplyAll ==
  ASSUME NEW s \in Store, NEW b \in Buffer
  PROVE  Overlay(s, Part(b, Touched(b))) = Overlay(s, b)
BY DEF Store, Buffer, Overlay, Part, Touched

LEMMA EmptyTypes == EmptyStore \in Store /\ EmptyBuffer \in Buffer
BY DEF EmptyStore, EmptyBuffer, Store, Buffer, Cell

LEMMA InitIInv == Init => IInv
<1> SUFFICES ASSUME Init PROVE IInv
  OBVIOUS
<1> USE NoneAssumption, EmptyTypes DEF Init
<1>1. TypeOK
  BY DEF TypeOK
<1>2. Locking
  BY DEF Locking
<1>3. SessionOK
  BY DEF SessionOK
<1>4. Ownership /\ NoSnapshotLeak
  BY DEF Ownership, NoSnapshotLeak, Holds
<1>5. FreshBuffers
  BY DEF FreshBuffers
<1>6. StoreIsCommittedPlusPrefix
  BY DEF StoreIsCommittedPlusPrefix
<1> QED
  BY <1>1, <1>2, <1>3, <1>4, <1>5, <1>6 DEF IInv

(***************************************************************************)
(* One lemma per action, one step in it per conjunct of IInv.  KeepStore   *)
(* serves the actions that touch neither the store nor the buffer of a     *)
(* commit that is under way.                                               *)
(***************************************************************************)
LEMMA KeepStore ==
  ASSUME IInv,
         UNCHANGED <<store, committed>>,
         \A d \in Conn : (pc'[d] = "apply") <=> (pc[d] = "apply"),
         \A d \in Conn : pc[d] = "apply" =>
            /\ run'[d] = run[d]
            /\ todo'[d] = todo[d]
            /\ buf'[run[d]] = buf[run[d]]
  PROVE  StoreIsCommittedPlusPrefix'
BY DEF IInv, StoreIsCommittedPlusPrefix

LEMMA OpenTxStep ==
  ASSUME IInv, NEW c \in Conn, OpenTx(c)
  PROVE  IInv'
<1> USE NoneAssumption, StatementsAssumption DEF OpenTx, IInv, Goto, lockVars, txVars
<1>1. TypeOK'
  BY DEF TypeOK, SessionOK
<1>2. Locking'
  BY DEF Locking, TypeOK
<1>3. SessionOK'
  BY DEF SessionOK, TypeOK
<1>4. Ownership'
  BY DEF Ownership, Holds, SessionOK, TypeOK
<1>5. NoSnapshotLeak'
  BY DEF NoSnapshotLeak, Holds, SessionOK, TypeOK
<1>6. FreshBuffers'
  BY DEF FreshBuffers, TypeOK
<1>7. StoreIsCommittedPlusPrefix'
  BY DEF StoreIsCommittedPlusPrefix, Locking, TypeOK
<1> QED
  BY <1>1, <1>2, <1>3, <1>4, <1>5, <1>6, <1>7

LEMMA JoinDmlStep ==
  ASSUME IInv, NEW c \in Conn, JoinDml(c)
  PROVE  IInv'
<1> USE NoneAssumption DEF JoinDml, IInv, Goto, lockVars, txVars
<1>1. TypeOK'
  BY DEF TypeOK, SessionOK
<1>2. Locking'
  BY DEF Locking, TypeOK
<1>3. SessionOK'
  BY DEF SessionOK, TypeOK
<1>4. Ownership'
  BY DEF Ownership, Holds, SessionOK, TypeOK
<1>5. NoSnapshotLeak'
  BY DEF NoSnapshotLeak, Holds, SessionOK, TypeOK
<1>6. FreshBuffers'
  BY DEF FreshBuffers, TypeOK
<1>7. StoreIsCommittedPlusPrefix'
  BY DEF StoreIsCommittedPlusPrefix, Locking, TypeOK
<1> QED
  BY <1>1, <1>2, <1>3, <1>4, <1>5, <1>6, <1>7

LEMMA JoinQueryStep ==
  ASSUME IInv, NEW c \in Conn, JoinQuery(c)
  PROVE  IInv'
<1> USE NoneAssumption DEF JoinQuery, IInv, lockVars, txVars
<1>1. TypeOK'
  BY DEF TypeOK, SessionOK
<1>2. Locking'
  BY DEF Locking, TypeOK
<1>3. SessionOK'
  BY DEF SessionOK, TypeOK
<1>4. Ownership'
  BY DEF Ownership, Holds, SessionOK, TypeOK
<1>5. NoSnapshotLeak'
  BY DEF NoSnapshotLeak, Holds, SessionOK, TypeOK
<1>6. FreshBuffers'
  BY DEF FreshBuffers, TypeOK
<1>7. StoreIsCommittedPlusPrefix'
  BY DEF StoreIsCommittedPlusPrefix, Locking, TypeOK
<1> QED
  BY <1>1, <1>2, <1>3, <1>4, <1>5, <1>6, <1>7

LEMMA CommitStep ==
  ASSUME IInv, NEW c \in Conn, Commit(c)
  PROVE  IInv'
<1> USE NoneAssumption, EmptyTypes DEF Commit, IInv, Goto, Release, lockVars, txVars
<1>1. TypeOK'
  BY DEF TypeOK, SessionOK
<1>2. Locking'
  BY DEF Locking, TypeOK
<1>3. SessionOK'
  BY DEF SessionOK, TypeOK
<1>4. Ownership'
  BY DEF Ownership, Holds, SessionOK, TypeOK
<1>5. NoSnapshotLeak'
  BY DEF NoSnapshotLeak, Holds, SessionOK, TypeOK
<1>6. FreshBuffers'
  BY DEF FreshBuffers, TypeOK
<1>7. StoreIsCommittedPlusPrefix'
  BY KeepStore DEF Ownership, Holds, SessionOK, TypeOK
<1> QED
  BY <1>1, <1>2, <1>3, <1>4, <1>5, <1>6, <1>7

LEMMA RollbackStep ==
  ASSUME IInv, NEW c \in Conn, Rollback(c)
  PROVE  IInv'
<1> USE NoneAssumption, EmptyTypes DEF Rollback, IInv, Release, lockVars, txVars
<1>1. TypeOK'
  BY DEF TypeOK, SessionOK
<1>2. Locking'
  BY DEF Locking, TypeOK
<1>3. SessionOK'
  BY DEF SessionOK, TypeOK
<1>4. Ownership'
  BY DEF Ownership, Holds, SessionOK, TypeOK
<1>5. NoSnapshotLeak'
  BY DEF NoSnapshotLeak, Holds, SessionOK, TypeOK
<1>6. FreshBuffers'
  BY DEF FreshBuffers, TypeOK
<1>7. StoreIsCommittedPlusPrefix'
  BY KeepStore DEF Ownership, Holds, SessionOK, TypeOK
<1> QED
  BY <1>1, <1>2, <1>3, <1>4, <1>5, <1>6, <1>7

LEMMA CloseRowsStep ==
  ASSUME IInv, NEW c \in Conn, CloseRows(c)
  PROVE  IInv'
<1> USE NoneAssumption, EmptyTypes DEF CloseRows, IInv, Release, lockVars, txVars
<1>1. TypeOK'
  BY DEF TypeOK, SessionOK
<1>2. Locking'
  BY DEF Locking, TypeOK
<1>3. SessionOK'
  BY DEF SessionOK, TypeOK
<1>4. Ownership'
  BY DEF Ownership, Holds, SessionOK, TypeOK
<1>5. NoSnapshotLeak'
  BY DEF NoSnapshotLeak, Holds, SessionOK, TypeOK
<1>6. FreshBuffers'
  BY DEF FreshBuffers, TypeOK
<1>7. StoreIsCommittedPlusPrefix'
  BY KeepStore DEF Ownership, Holds, SessionOK, TypeOK
<1> QED
  BY <1>1, <1>2, <1>3, <1>4, <1>5, <1>6, <1>7

LEMMA RLockStep ==
  ASSUME IInv, NEW c \in Conn, RLock(c)
  PROVE  IInv'
<1> USE NoneAssumption, StatementsAssumption DEF RLock, IInv, Goto, lockVars, txVars
<1>1. TypeOK'
  BY DEF TypeOK, SessionOK
<1>2. Locking'
  BY DEF Locking, TypeOK
<1>3. SessionOK'
  BY DEF SessionOK, TypeOK
<1>4. Ownership'
  BY DEF Ownership, Holds, SessionOK, TypeOK
<1>5. NoSnapshotLeak'
  BY DEF NoSnapshotLeak, Holds, SessionOK, TypeOK
<1>6. FreshBuffers'
  BY DEF FreshBuffers, TypeOK
<1>7. StoreIsCommittedPlusPrefix'
  BY DEF StoreIsCommittedPlusPrefix, Locking, TypeOK
<1> QED
  BY <1>1, <1>2, <1>3, <1>4, <1>5, <1>6, <1>7

LEMMA SnapshotStep ==
  ASSUME IInv, NEW c \in Conn, Snapshot(c)
  PROVE  IInv'
<1> USE NoneAssumption, StatementsAssumption DEF Snapshot, IInv, Goto, lockVars, txVars
<1>1. TypeOK'
  BY DEF TypeOK, SessionOK
<1>2. Locking'
  BY DEF Locking, TypeOK
<1>3. SessionOK'
  BY DEF SessionOK, TypeOK
<1>4. Ownership'
  BY DEF Ownership, Holds, SessionOK, TypeOK, Referenced
<1>5. NoSnapshotLeak'
  BY DEF NoSnapshotLeak, Holds, SessionOK, TypeOK
<1>6. FreshBuffers'
  BY DEF FreshBuffers, TypeOK
<1>7. StoreIsCommittedPlusPrefix'
  BY DEF StoreIsCommittedPlusPrefix, Locking, TypeOK
<1> QED
  BY <1>1, <1>2, <1>3, <1>4, <1>5, <1>6, <1>7

LEMMA WriteStep ==
  ASSUME IInv, NEW c \in Conn, Write(c)
  PROVE  IInv'
<1> USE NoneAssumption DEF Write, IInv, lockVars, txVars, connVars
<1>1. TypeOK'
  BY DEF TypeOK, SessionOK, Mutate, Buffer
<1>2. Locking'
  BY DEF Locking, TypeOK
<1>3. SessionOK'
  BY DEF SessionOK, TypeOK
<1>4. Ownership'
  BY DEF Ownership, Holds, SessionOK, TypeOK
<1>5. NoSnapshotLeak'
  BY DEF NoSnapshotLeak, Holds, SessionOK, TypeOK
<1>6. FreshBuffers'
  BY DEF FreshBuffers, TypeOK, Ownership, Holds, SessionOK
<1>7. StoreIsCommittedPlusPrefix'
  BY KeepStore DEF Ownership, Holds, SessionOK, TypeOK
<1> QED
  BY <1>1, <1>2, <1>3, <1>4, <1>5, <1>6, <1>7

LEMMA DmlDoneStep ==
  ASSUME IInv, NEW c \in Conn, DmlDone(c)
  PROVE  IInv'
<1> USE NoneAssumption, EmptyTypes DEF DmlDone, IInv, Goto, Return, Release, lockVars, txVars
<1>1. TypeOK'
  BY DEF TypeOK, SessionOK
<1>2. Locking'
  BY DEF Locking, TypeOK
<1>3. SessionOK'
  BY DEF SessionOK, TypeOK
<1>4. Ownership'
  BY DEF Ownership, Holds, SessionOK, TypeOK
<1>5. NoSnapshotLeak'
  BY DEF NoSnapshotLeak, Holds, SessionOK, TypeOK
<1>6. FreshBuffers'
  BY DEF FreshBuffers, TypeOK
<1>7. StoreIsCommittedPlusPrefix'
  BY KeepStore DEF Ownership, Holds, SessionOK, TypeOK
<1> QED
  BY <1>1, <1>2, <1>3, <1>4, <1>5, <1>6, <1>7

LEMMA DmlFailedStep ==
  ASSUME IInv, NEW c \in Conn, DmlFailed(c)
  PROVE  IInv'
<1> USE NoneAssumption, EmptyTypes DEF DmlFailed, IInv, Goto, Return, Release, lockVars, txVars
<1>1. TypeOK'
  BY DEF TypeOK, SessionOK
<1>2. Locking'
  BY DEF Locking, TypeOK
<1>3. SessionOK'
  BY DEF SessionOK, TypeOK
<1>4. Ownership'
  BY DEF Ownership, Holds, SessionOK, TypeOK
<1>5. NoSnapshotLeak'
  BY DEF NoSnapshotLeak, Holds, SessionOK, TypeOK
<1>6. FreshBuffers'
  BY DEF FreshBuffers, TypeOK
<1>7. StoreIsCommittedPlusPrefix'
  BY KeepStore DEF Ownership, Holds, SessionOK, TypeOK
<1> QED
  BY <1>1, <1>2, <1>3, <1>4, <1>5, <1>6, <1>7

LEMMA CursorOpenedStep ==
  ASSUME IInv, NEW c \in Conn, CursorOpened(c)
  PROVE  IInv'
<1> USE NoneAssumption DEF CursorOpened, IInv, Goto, Return, lockVars, txVars
<1>1. TypeOK'
  BY DEF TypeOK, SessionOK
<1>2. Locking'
  BY DEF Locking, TypeOK
<1>3. SessionOK'
  BY DEF SessionOK, TypeOK
<1>4. Ownership'
  BY DEF Ownership, Holds, SessionOK, TypeOK
<1>5. NoSnapshotLeak'
  BY DEF NoSnapshotLeak, Holds, SessionOK, TypeOK
<1>6. FreshBuffers'
  BY DEF FreshBuffers, TypeOK
<1>7. StoreIsCommittedPlusPrefix'
  BY DEF StoreIsCommittedPlusPrefix, Locking, TypeOK
<1> QED
  BY <1>1, <1>2, <1>3, <1>4, <1>5, <1>6, <1>7

LEMMA CursorFailedStep ==
  ASSUME IInv, NEW c \in Conn, CursorFailed(c)
  PROVE  IInv'
<1> USE NoneAssumption, EmptyTypes DEF CursorFailed, IInv, Goto, Return, Release, lockVars, txVars
<1>1. TypeOK'
  BY DEF TypeOK, SessionOK
<1>2. Locking'
  BY DEF Locking, TypeOK
<1>3. SessionOK'
  BY DEF SessionOK, TypeOK
<1>4. Ownership'
  BY DEF Ownership, Holds, SessionOK, TypeOK
<1>5. NoSnapshotLeak'
  BY DEF NoSnapshotLeak, Holds, SessionOK, TypeOK
<1>6. FreshBuffers'
  BY DEF FreshBuffers, TypeOK
<1>7. StoreIsCommittedPlusPrefix'
  BY KeepStore DEF Ownership, Holds, SessionOK, TypeOK
<1> QED
  BY <1>1, <1>2, <1>3, <1>4, <1>5, <1>6, <1>7

LEMMA LockStep ==
  ASSUME IInv, NEW c \in Conn, Lock(c)
  PROVE  IInv'
<1> USE NoneAssumption DEF Lock, IInv, Goto, lockVars, txVars
<1>1. TypeOK'
  BY DEF TypeOK, SessionOK
<1>2. Locking'
  BY DEF Locking, TypeOK
<1>3. SessionOK'
  BY DEF SessionOK, TypeOK
<1>4. Ownership'
  BY DEF Ownership, Holds, SessionOK, TypeOK
<1>5. NoSnapshotLeak'
  BY DEF NoSnapshotLeak, Holds, SessionOK, TypeOK
<1>6. FreshBuffers'
  BY DEF FreshBuffers, TypeOK
<1>7. StoreIsCommittedPlusPrefix'
  BY DEF StoreIsCommittedPlusPrefix, Locking, TypeOK
<1> QED
  BY <1>1, <1>2, <1>3, <1>4, <1>5, <1>6, <1>7

LEMMA DrainStep ==
  ASSUME IInv, NEW c \in Conn, Drain(c)
  PROVE  IInv'
<1> USE NoneAssumption DEF Drain, IInv, Goto, lockVars, txVars
<1>1. TypeOK'
  BY DEF TypeOK, SessionOK, Touched
<1>2. Locking'
  BY DEF Locking, TypeOK
<1>3. SessionOK'
  BY DEF SessionOK, TypeOK
<1>4. Ownership'
  BY DEF Ownership, Holds, SessionOK, TypeOK
<1>5. NoSnapshotLeak'
  BY DEF NoSnapshotLeak, Holds, SessionOK, TypeOK
<1>6. FreshBuffers'
  BY DEF FreshBuffers, TypeOK
<1>7. StoreIsCommittedPlusPrefix'
  <2>1. \A d \in Conn : d # c => pc[d] # "apply"
    BY DEF Locking
  <2>2. run[c] \in TxId /\ store = committed
    BY <2>1 DEF TypeOK, SessionOK, StoreIsCommittedPlusPrefix
  <2>3. store = Overlay(committed, Part(buf[run[c]], {}))
    BY <2>2, ApplyNothing DEF TypeOK
  <2>4. Touched(buf[run[c]]) \ todo'[c] = {}
    BY DEF TypeOK
  <2> QED
    BY <2>1, <2>2, <2>3, <2>4 DEF StoreIsCommittedPlusPrefix, TypeOK, Prefix
<1> QED
  BY <1>1, <1>2, <1>3, <1>4, <1>5, <1>6, <1>7

LEMMA ApplyStep ==
  ASSUME IInv, NEW c \in Conn, Apply(c)
  PROVE  IInv'
<1> USE NoneAssumption DEF Apply, IInv, lockVars, txVars
<1> DEFINE b == buf[run[c]]
<1>a. PICK k \in todo[c] : /\ \A j \in todo[c] : k <= j
                           /\ store' = [store EXCEPT ![k] = b[k]]
                           /\ todo' = [todo EXCEPT ![c] = @ \ {k}]
  OBVIOUS
<1>b. /\ run[c] \in TxId
      /\ b \in Buffer
      /\ todo[c] \subseteq Touched(b)
      /\ Prefix(Touched(b) \ todo[c], b)
      /\ store = Overlay(committed, Part(b, Touched(b) \ todo[c]))
  BY DEF TypeOK, SessionOK, StoreIsCommittedPlusPrefix
<1>1. TypeOK'
  <2>1. b[k] \in Cell
    BY <1>a, <1>b DEF Touched, Buffer
  <2> QED
    BY <2>1, <1>a DEF TypeOK, Store
<1>2. Locking'
  BY DEF Locking, TypeOK
<1>3. SessionOK'
  BY DEF SessionOK, TypeOK
<1>4. Ownership'
  BY DEF Ownership, Holds, SessionOK, TypeOK
<1>5. NoSnapshotLeak'
  BY DEF NoSnapshotLeak, Holds, SessionOK, TypeOK
<1>6. FreshBuffers'
  BY DEF FreshBuffers, TypeOK
<1>7. StoreIsCommittedPlusPrefix'
  <2> DEFINE D == Touched(b) \ todo[c]
  <2>1. Touched(b) \ todo'[c] = D \cup {k}
    BY <1>a, <1>b DEF TypeOK
  <2>2. store' = Overlay(committed, Part(b, D \cup {k}))
    <3>1. committed \in Store /\ b \in Buffer /\ D \in SUBSET Key /\ k \in Touched(b)
      BY <1>a, <1>b DEF TypeOK, Touched
    <3> HIDE DEF b, D
    <3>2. [Overlay(committed, Part(b, D)) EXCEPT ![k] = b[k]]
             = Overlay(committed, Part(b, D \cup {k}))
      BY <3>1, ApplyOne
    <3> QED
      BY <3>2, <1>a, <1>b DEF b, D
  <2>3. Prefix(D \cup {k}, b)
    <3>1. \A j \in todo[c] \ {k} : k < j
      <4>1. todo[c] \subseteq Int
        BY <1>b, KeyAssumption DEF Touched
      <4> QED
        BY <4>1, <1>a
    <3> QED
      BY <3>1, <1>a, <1>b DEF Prefix
  <2>4. \A d \in Conn : d # c => pc[d] # "apply"
    BY DEF Locking
  <2> QED
    BY <2>1, <2>2, <2>3, <2>4, <1>a, <1>b DEF StoreIsCommittedPlusPrefix, TypeOK
<1> QED
  BY <1>1, <1>2, <1>3, <1>4, <1>5, <1>6, <1>7

LEMMA AppliedStep ==
  ASSUME IInv, NEW c \in Conn, Applied(c)
  PROVE  IInv'
<1> USE NoneAssumption, EmptyTypes DEF Applied, IInv, Goto, Return, Unlock, Release, lockVars, txVars
<1>1. TypeOK'
  BY DEF TypeOK, SessionOK
<1>2. Locking'
  BY DEF Locking, TypeOK
<1>3. SessionOK'
  BY DEF SessionOK, TypeOK
<1>4. Ownership'
  BY DEF Ownership, Holds, SessionOK, TypeOK
<1>5. NoSnapshotLeak'
  BY DEF NoSnapshotLeak, Holds, SessionOK, TypeOK
<1>6. FreshBuffers'
  BY DEF FreshBuffers, TypeOK
<1>7. StoreIsCommittedPlusPrefix'
  BY DEF StoreIsCommittedPlusPrefix, Locking, TypeOK
<1> QED
  BY <1>1, <1>2, <1>3, <1>4, <1>5, <1>6, <1>7

LEMMA ApplyFailedStep ==
  ASSUME IInv, NEW c \in Conn, ApplyFailed(c)
  PROVE  IInv'
<1> USE NoneAssumption, EmptyTypes DEF ApplyFailed, IInv, Goto, Return, Unlock, Release, lockVars, txVars
<1>1. TypeOK'
  BY DEF TypeOK, SessionOK
<1>2. Locking'
  BY DEF Locking, TypeOK
<1>3. SessionOK'
  BY DEF SessionOK, TypeOK
<1>4. Ownership'
  BY DEF Ownership, Holds, SessionOK, TypeOK
<1>5. NoSnapshotLeak'
  BY DEF NoSnapshotLeak, Holds, SessionOK, TypeOK
<1>6. FreshBuffers'
  BY DEF FreshBuffers, TypeOK
<1>7. StoreIsCommittedPlusPrefix'
  BY DEF StoreIsCommittedPlusPrefix, Locking, TypeOK
<1> QED
  BY <1>1, <1>2, <1>3, <1>4, <1>5, <1>6, <1>7

LEMMA CrashStep ==
  ASSUME IInv, Crash
  PROVE  IInv'
<1> USE NoneAssumption, EmptyTypes DEF Crash, IInv
<1>1. TypeOK'
  BY DEF TypeOK
<1>2. Locking' /\ SessionOK'
  BY DEF Locking, SessionOK
<1>3. Ownership' /\ NoSnapshotLeak'
  BY DEF Ownership, NoSnapshotLeak, Holds
<1>4. FreshBuffers'
  BY DEF FreshBuffers
<1>5. StoreIsCommittedPlusPrefix'
  BY DEF StoreIsCommittedPlusPrefix
<1> QED
  BY <1>1, <1>2, <1>3, <1>4, <1>5

LEMMA StepIInv == IInv /\ [Next]_vars => IInv'
<1> SUFFICES ASSUME IInv, [Next]_vars
             PROVE  IInv'
  OBVIOUS
<1>1. ASSUME NEW c \in Conn, Statement(c)
      PROVE  IInv'
  BY <1>1, OpenTxStep, JoinDmlStep, JoinQueryStep, CommitStep, RollbackStep, CloseRowsStep
  DEF Statement
<1>2. ASSUME NEW c \in Conn, Execution(c)
      PROVE  IInv'
  BY <1>2, RLockStep, SnapshotStep, WriteStep, DmlDoneStep, DmlFailedStep,
     CursorOpenedStep, CursorFailedStep, LockStep, DrainStep, ApplyStep, AppliedStep,
     ApplyFailedStep
  DEF Execution
<1>3. CASE UNCHANGED vars
  <2> USE <1>3 DEF vars, lockVars, txVars, connVars, IInv
  <2>1. TypeOK' /\ Locking'
    BY DEF TypeOK, Locking
  <2>2. SessionOK' /\ Ownership'
    BY DEF SessionOK, Ownership, Holds
  <2>3. NoSnapshotLeak' /\ FreshBuffers'
    BY DEF NoSnapshotLeak, Holds, FreshBuffers
  <2>4. StoreIsCommittedPlusPrefix'
    BY KeepStore
  <2> QED
    BY <2>1, <2>2, <2>3, <2>4
<1> QED
  BY <1>1, <1>2, <1>3, CrashStep DEF Next

-----------------------------------------------------------------------------
(***************************************************************************)
(* The invariants, for any number of sessions, transactions, keys and      *)
(* values, and whatever the store and the process do.                      *)
(***************************************************************************)

\* The inductive invariant holds in every reachable state.
THEOREM IInvHolds == Spec => []IInv
  BY InitIInv, StepIInv, PTL DEF Spec

\* Every variable of the transaction engine keeps its type.
THEOREM TypeCorrect == Spec => []TypeOK
<1>1. IInv => TypeOK
  BY DEF IInv
<1> QED
  BY <1>1, IInvHolds, PTL

\* No path through a statement forgets a snapshot (conn.go:108-249).
THEOREM SnapshotsAreReleased == Spec => []NoSnapshotLeak
<1>1. IInv => NoSnapshotLeak
  BY DEF IInv
<1> QED
  BY <1>1, IInvHolds, PTL

\* A transaction has one session to finish it, and is finished once.
THEOREM TransactionsAreOwned == Spec => []Ownership
<1>1. IInv => Ownership
  BY DEF IInv
<1> QED
  BY <1>1, IInvHolds, PTL

\* Between two commits the store holds a committed state, and inside one an
\* initial segment of its write set over the state before it.
THEOREM CommitsApplyPrefixes == Spec => []StoreIsCommittedPlusPrefix
<1>1. IInv => StoreIsCommittedPlusPrefix
  BY DEF IInv
<1> QED
  BY <1>1, IInvHolds, PTL

-----------------------------------------------------------------------------
(***************************************************************************)
(* The refinement.  A transaction of SnapshotTx begins where the snapshot  *)
(* is taken and commits where the mutex is given back; every other step    *)
(* of a commit is invisible.                                               *)
(***************************************************************************)
LEMMA HeldIsPinned ==
  ASSUME IInv, NEW c \in Conn
  PROVE  /\ ctx[c] # None => ctx[c] \in pinned
         /\ run[c] # None => run[c] \in pinned
         /\ owned[c] => rows[c] \in pinned
BY DEF IInv, TypeOK, Ownership, Holds, SessionOK

LEMMA PinnedIsTx == IInv => pinned \subseteq TxId
BY DEF IInv, TypeOK

LEMMA ReleaseAborts ==
  ASSUME NEW t \in pinned, Release(t), UNCHANGED committed
  PROVE  Promise!Abort(t)
BY DEF Release, Promise!Abort, Promise!Forget, EmptyStore, EmptyBuffer,
       Promise!EmptyStore, Promise!EmptyBuffer

LEMMA SnapshotBegins ==
  ASSUME IInv, NEW c \in Conn, Snapshot(c)
  PROVE  \E t \in TxId : Promise!Begin(t)
<1>1. store = committed
  BY DEF IInv, Snapshot, Locking, StoreIsCommittedPlusPrefix
<1>2. PICK t \in TxId \ Referenced : /\ pinned' = pinned \cup {t}
                                     /\ snap' = [snap EXCEPT ![t] = store]
  BY DEF Snapshot
<1>3. t \notin pinned
  BY <1>2 DEF IInv, TypeOK, NoSnapshotLeak, Holds, Referenced
<1>4. buf' = [buf EXCEPT ![t] = EmptyBuffer] /\ committed' = committed
  BY <1>2, <1>3 DEF IInv, FreshBuffers, TypeOK, Snapshot
<1> QED
  BY <1>1, <1>2, <1>3, <1>4 DEF Promise!Begin, EmptyBuffer, Promise!EmptyBuffer

LEMMA AppliedCommits ==
  ASSUME IInv, NEW c \in Conn, Applied(c)
  PROVE  Promise!Commit(run[c])
<1> DEFINE b == buf[run[c]]
<1>1. run[c] \in pinned /\ run[c] \in TxId
  BY HeldIsPinned, PinnedIsTx DEF IInv, SessionOK, Applied
<1>2. committed' = Overlay(committed, Part(b, Touched(b)))
  BY DEF IInv, StoreIsCommittedPlusPrefix, Applied, Unlock
<1>3. committed' = Overlay(committed, b)
  BY <1>1, <1>2, ApplyAll DEF IInv, TypeOK
<1> QED
  BY <1>1, <1>3 DEF Applied, Unlock, Release, Promise!Commit, Promise!Forget,
     Overlay, Promise!Overlay, EmptyStore, EmptyBuffer, Promise!EmptyStore, Promise!EmptyBuffer

LEMMA FailedCommitIsTorn ==
  ASSUME IInv, NEW c \in Conn, ApplyFailed(c)
  PROVE  Promise!Torn(run[c])
<1> DEFINE b == buf[run[c]]
           D == Touched(b) \ todo[c]
<1>1. run[c] \in pinned /\ run[c] \in TxId
  BY HeldIsPinned, PinnedIsTx DEF IInv, SessionOK, ApplyFailed
<1>2. Prefix(D, b) /\ committed' = Overlay(committed, Part(b, D)) /\ D \in SUBSET Key
  BY DEF IInv, StoreIsCommittedPlusPrefix, ApplyFailed, Unlock, Touched
<1> QED
  BY <1>1, <1>2 DEF ApplyFailed, Unlock, Release, Promise!Torn, Promise!Forget,
     Overlay, Promise!Overlay, Part, Promise!Part, Prefix, Promise!Prefix,
     Touched, Promise!Touched,
     EmptyStore, EmptyBuffer, Promise!EmptyStore, Promise!EmptyBuffer

LEMMA CrashCrashes ==
  ASSUME IInv, Crash
  PROVE  Promise!Crash
<1>1. CASE \E c \in Conn : pc[c] = "apply"
  <2>1. PICK c \in Conn : pc[c] = "apply"
    BY <1>1
  <2> DEFINE b == buf[run[c]]
             D == Touched(b) \ todo[c]
  <2>2. run[c] \in pinned
    BY <2>1, HeldIsPinned DEF IInv, SessionOK
  <2>3. Prefix(D, b) /\ committed' = Overlay(committed, Part(b, D)) /\ D \in SUBSET Key
    BY <2>1 DEF IInv, StoreIsCommittedPlusPrefix, Crash, Touched
  <2> QED
    BY <2>2, <2>3 DEF Crash, Promise!Crash, Overlay, Promise!Overlay, Part, Promise!Part,
       Prefix, Promise!Prefix, Touched, Promise!Touched,
       EmptyStore, EmptyBuffer, Promise!EmptyStore, Promise!EmptyBuffer
<1>2. CASE \A c \in Conn : pc[c] # "apply"
  BY <1>2 DEF IInv, StoreIsCommittedPlusPrefix, Crash, Promise!Crash,
     EmptyStore, EmptyBuffer, Promise!EmptyStore, Promise!EmptyBuffer
<1> QED
  BY <1>1, <1>2

\* Every step of the engine is a step of SnapshotTx or invisible to it.
LEMMA StepRefines == IInv /\ [Next]_vars => [Promise!Next]_(Promise!vars)
<1> SUFFICES ASSUME IInv, [Next]_vars
             PROVE  Promise!Next \/ UNCHANGED <<committed, pinned, snap, buf>>
  BY DEF Promise!vars
<1>1. ASSUME NEW c \in Conn, Statement(c)
      PROVE  (\E t \in TxId : Promise!Abort(t)) \/ UNCHANGED <<committed, pinned, snap, buf>>
  <2>1. CASE OpenTx(c) \/ JoinDml(c) \/ JoinQuery(c)
    BY <2>1 DEF OpenTx, JoinDml, JoinQuery, txVars
  <2>2. CASE Commit(c) \/ Rollback(c)
    BY <2>2, HeldIsPinned, PinnedIsTx, ReleaseAborts DEF Commit, Rollback, txVars
  <2>3. CASE CloseRows(c)
    BY <2>3, HeldIsPinned, PinnedIsTx, ReleaseAborts DEF CloseRows, txVars
  <2> QED
    BY <1>1, <2>1, <2>2, <2>3 DEF Statement
<1>2. ASSUME NEW c \in Conn, Execution(c)
      PROVE  Promise!Next \/ UNCHANGED <<committed, pinned, snap, buf>>
  <2>1. CASE RLock(c) \/ CursorOpened(c) \/ Lock(c) \/ Drain(c) \/ Apply(c)
    BY <2>1 DEF RLock, CursorOpened, Lock, Drain, Apply, txVars
  <2>2. CASE Snapshot(c)
    BY <2>2, SnapshotBegins DEF Promise!Next
  <2>3. CASE Write(c)
    <3>1. run[c] \in pinned /\ run[c] \in TxId
      BY <2>3, HeldIsPinned, PinnedIsTx DEF Write, IInv, SessionOK
    <3>2. Promise!Write(run[c])
      BY <2>3, <3>1 DEF Write, Promise!Write, Mutate, Promise!Mutate, Cell, Promise!Cell
    <3> QED
      BY <3>1, <3>2 DEF Promise!Next
  <2>4. CASE DmlDone(c) \/ DmlFailed(c) \/ CursorFailed(c)
    <3>1. run[c] \in pinned /\ run[c] \in TxId
      BY <2>4, HeldIsPinned, PinnedIsTx DEF DmlDone, DmlFailed, CursorFailed, IInv, SessionOK
    <3> QED
      BY <2>4, <3>1, ReleaseAborts DEF DmlDone, DmlFailed, CursorFailed, txVars, Promise!Next
  <2>5. CASE Applied(c) \/ ApplyFailed(c)
    <3>1. run[c] \in TxId
      BY <2>5, HeldIsPinned, PinnedIsTx DEF Applied, ApplyFailed, IInv, SessionOK
    <3> QED
      BY <2>5, <3>1, AppliedCommits, FailedCommitIsTorn DEF Promise!Next
  <2> QED
    BY <1>2, <2>1, <2>2, <2>3, <2>4, <2>5 DEF Execution
<1>3. CASE UNCHANGED vars
  BY <1>3 DEF vars, txVars
<1> QED
  BY <1>1, <1>2, <1>3, CrashCrashes DEF Next, Promise!Next

\* keelsql transactions keep the promise of the comment on Tx: snapshot
\* isolation, commits that are one step to everybody else, last writer wins,
\* and with a failing store an initial segment of a write set at worst.
THEOREM EngineKeepsPromise == Spec => ImplementsSnapshotTx
<1>1. Init => Promise!Init
  BY DEF Init, Promise!Init, Store, Promise!Store, Cell, Promise!Cell,
     EmptyStore, EmptyBuffer, Promise!EmptyStore, Promise!EmptyBuffer
<1> QED
  BY <1>1, StepRefines, IInvHolds, PTL DEF Spec, Promise!Spec, ImplementsSnapshotTx
=============================================================================
