------------------------------- MODULE KeelTx -------------------------------
(***************************************************************************)
(* The transaction engine of keelsql: DB.begin, Tx.Commit and Tx.Rollback  *)
(* of keelsql.go, and the sessions of conn.go that drive them.             *)
(*                                                                         *)
(* The store underneath offers snapshots and single-key writes and nothing *)
(* else, so a commit is a sequence of puts and deletes.  What turns that   *)
(* sequence into one step for everybody else is commitMu, a sync.RWMutex:  *)
(* begin takes its read side around the snapshot, Commit its write side    *)
(* around the puts.  Sessions run concurrently, one goroutine each; every  *)
(* action below is one step of one session.                                *)
(*                                                                         *)
(* What a statement computes is not modelled: a DML statement makes any    *)
(* sequence of writes to its buffer and then succeeds or fails.            *)
(***************************************************************************)
EXTENDS OrderedWriteSet

CONSTANTS Conn,      \* sessions
          TxId,      \* Tx objects
          None,      \* the nil *Tx
          Statements,\* which of "BEGIN", "dml" and "query" sessions use
          Faults     \* which of "put" and "crash" can happen to the store

ASSUME NoneAssumption == None \notin TxId \cup Conn
ASSUME StatementsAssumption == Statements \subseteq {"BEGIN", "dml", "query"}
ASSUME FaultsAssumption == Faults \subseteq {"put", "crash"}

VARIABLES
  store,       \* the contents of keelstore
  committed,   \* the contents of keelstore when last no commit was under way
  readers,     \* sessions holding the read side of commitMu
  writer,      \* the session holding its write side, or announced as next
  pinned,      \* transactions whose snapshot is not released (not Tx.done)
  snap,        \* snap[t]: the contents of the snapshot of t
  buf,         \* buf[t]: the write buffer of t
  ctx,         \* ctx[c]: the explicit transaction of the session, Conn.tx
  run,         \* run[c]: the transaction of the statement c is executing
  rows,        \* rows[c]: the transaction the open cursor of c reads
  owned,       \* owned[c]: that cursor finishes its transaction on Close
  pc,          \* pc[c]: where in its statement session c is
  stmt,        \* stmt[c]: what c will do with the transaction it is opening
  todo         \* todo[c]: the keys c has yet to apply

lockVars  == <<readers, writer>>
txVars    == <<pinned, snap, buf>>
connVars  == <<ctx, run, rows, owned, pc, stmt, todo>>
vars      == <<store, committed, lockVars, txVars, connVars>>

TypeOK ==
  /\ store \in Store
  /\ committed \in Store
  /\ readers \subseteq Conn
  /\ writer \in Conn \cup {None}
  /\ pinned \subseteq TxId
  /\ snap \in [TxId -> Store]
  /\ buf \in [TxId -> Buffer]
  /\ ctx \in [Conn -> TxId \cup {None}]
  /\ run \in [Conn -> TxId \cup {None}]
  /\ rows \in [Conn -> TxId \cup {None}]
  /\ owned \in [Conn -> BOOLEAN]
  /\ pc \in [Conn -> {"idle", "begin", "snapshot", "exec", "build", "lock", "drain", "apply"}]
  /\ stmt \in [Conn -> Statements \cup {"none"}]
  /\ todo \in [Conn -> SUBSET Key]

Init ==
  /\ store \in Store
  /\ committed = store
  /\ readers = {}
  /\ writer = None
  /\ pinned = {}
  /\ snap = [t \in TxId |-> EmptyStore]
  /\ buf = [t \in TxId |-> EmptyBuffer]
  /\ ctx = [c \in Conn |-> None]
  /\ run = [c \in Conn |-> None]
  /\ rows = [c \in Conn |-> None]
  /\ owned = [c \in Conn |-> FALSE]
  /\ pc = [c \in Conn |-> "idle"]
  /\ stmt = [c \in Conn |-> "none"]
  /\ todo = [c \in Conn |-> {}]

-----------------------------------------------------------------------------
(***************************************************************************)
(* Shared pieces.  A transaction object that no session refers to is free  *)
(* to stand for the next one that is allocated.                            *)
(***************************************************************************)
Referenced == {t \in TxId : \E c \in Conn : t \in {ctx[c], run[c], rows[c]}}

Goto(c, label) == pc' = [pc EXCEPT ![c] = label]

\* Snapshot.Release and, with it, the end of the buffer's life.
Release(t) == /\ pinned' = pinned \ {t}
              /\ snap' = [snap EXCEPT ![t] = EmptyStore]
              /\ buf' = [buf EXCEPT ![t] = EmptyBuffer]

\* The statement of c returns to its caller.
Return(c) == /\ Goto(c, "idle")
             /\ run' = [run EXCEPT ![c] = None]

-----------------------------------------------------------------------------
(***************************************************************************)
(* Broken variants of the actions below.  None of them is part of the      *)
(* specification: each is an action as a plausible bug would have it, and  *)
(* shows which property notices.                                           *)
(***************************************************************************)

\* COMMIT without `c.tx = nil`.
CommitKeepsTx(c) ==
  /\ pc[c] = "idle"
  /\ ctx[c] # None
  /\ run' = [run EXCEPT ![c] = ctx[c]]
  /\ Goto(c, "lock")
  /\ UNCHANGED <<store, committed, lockVars, txVars, ctx, rows, owned, stmt, todo>>

\* A query whose operator tree cannot be built does not roll back.
CursorFailedLeaks(c) ==
  /\ pc[c] = "build"
  /\ Return(c)
  /\ UNCHANGED <<store, committed, lockVars, txVars, ctx, rows, owned, stmt, todo>>

\* begin takes its snapshot without the read lock.
RLockSkipped(c) ==
  /\ pc[c] = "begin"
  /\ readers' = readers \cup {c}
  /\ Goto(c, "snapshot")
  /\ UNCHANGED <<store, committed, writer, txVars, ctx, run, rows, owned, stmt, todo>>

\* The commit walks keys the transaction never wrote.
DrainEveryKey(c) ==
  /\ pc[c] = "drain"
  /\ readers = {}
  /\ todo' = [todo EXCEPT ![c] = Key]
  /\ Goto(c, "apply")
  /\ UNCHANGED <<store, committed, lockVars, txVars, ctx, run, rows, owned, stmt>>

\* The commit ranges over the buffer's map instead of its sorted entries.
ApplyUnsorted(c) ==
  /\ pc[c] = "apply"
  /\ \E k \in todo[c] :
        /\ store' = [store EXCEPT ![k] = buf[run[c]][k]]
        /\ todo' = [todo EXCEPT ![c] = @ \ {k}]
  /\ UNCHANGED <<committed, lockVars, txVars, ctx, run, rows, owned, pc, stmt>>

\* The error return comes before a plain Unlock, not a deferred one.
ApplyFailedHoldsLock(c) ==
  /\ "put" \in Faults
  /\ pc[c] = "apply"
  /\ todo[c] # {}
  /\ committed' = store
  /\ Release(run[c])
  /\ Return(c)
  /\ todo' = [todo EXCEPT ![c] = {}]
  /\ UNCHANGED <<store, lockVars, ctx, rows, owned, stmt>>

-----------------------------------------------------------------------------
(***************************************************************************)
(* Statements.  The planner has accepted the statement by now: a statement *)
(* it refuses changes nothing.                                             *)
(***************************************************************************)

\* BEGIN, and a DML statement or a query outside an explicit transaction,
\* open a transaction.  A session has at most one open cursor here.
OpenTx(c) ==
  /\ pc[c] = "idle"
  /\ ctx[c] = None
  /\ \E s \in Statements :
        /\ s = "query" => rows[c] = None
        /\ stmt' = [stmt EXCEPT ![c] = s]
  /\ Goto(c, "begin")
  /\ UNCHANGED <<store, committed, lockVars, txVars, ctx, run, rows, owned, todo>>

\* A DML statement inside an explicit transaction joins it.
JoinDml(c) ==
  /\ "dml" \in Statements
  /\ pc[c] = "idle"
  /\ ctx[c] # None
  /\ run' = [run EXCEPT ![c] = ctx[c]]
  /\ Goto(c, "exec")
  /\ UNCHANGED <<store, committed, lockVars, txVars, ctx, rows, owned, stmt, todo>>

\* So does a query: its cursor borrows the transaction.
JoinQuery(c) ==
  /\ "query" \in Statements
  /\ pc[c] = "idle"
  /\ ctx[c] # None
  /\ rows[c] = None
  /\ rows' = [rows EXCEPT ![c] = ctx[c]]
  /\ UNCHANGED <<store, committed, lockVars, txVars, ctx, run, owned, pc, stmt, todo>>

\* COMMIT: the session forgets the transaction before it is applied, and a
\* transaction that wrote nothing takes no lock.
Commit(c) ==
  /\ pc[c] = "idle"
  /\ ctx[c] # None
  /\ ctx' = [ctx EXCEPT ![c] = None]
  /\ IF Touched(buf[ctx[c]]) = {}
     THEN /\ Release(ctx[c])
          /\ UNCHANGED <<run, pc>>
     ELSE /\ run' = [run EXCEPT ![c] = ctx[c]]
          /\ Goto(c, "lock")
          /\ UNCHANGED txVars
  /\ UNCHANGED <<store, committed, lockVars, rows, owned, stmt, todo>>

\* ROLLBACK.
Rollback(c) ==
  /\ pc[c] = "idle"
  /\ ctx[c] # None
  /\ ctx' = [ctx EXCEPT ![c] = None]
  /\ Release(ctx[c])
  /\ UNCHANGED <<store, committed, lockVars, run, rows, owned, pc, stmt, todo>>

\* Rows.Close.
CloseRows(c) ==
  /\ pc[c] = "idle"
  /\ rows[c] # None
  /\ rows' = [rows EXCEPT ![c] = None]
  /\ owned' = [owned EXCEPT ![c] = FALSE]
  /\ IF owned[c] THEN Release(rows[c]) ELSE UNCHANGED txVars
  /\ UNCHANGED <<store, committed, lockVars, ctx, run, pc, stmt, todo>>

-----------------------------------------------------------------------------
(***************************************************************************)
(* DB.begin.  A goroutine that asks for the read side of a sync.RWMutex    *)
(* waits while a writer holds it or has announced itself.                  *)
(***************************************************************************)
RLock(c) ==
  /\ pc[c] = "begin"
  /\ writer = None
  /\ readers' = readers \cup {c}
  /\ Goto(c, "snapshot")
  /\ UNCHANGED <<store, committed, writer, txVars, ctx, run, rows, owned, stmt, todo>>

\* The snapshot, RUnlock and the new Tx, and what the statement does next:
\* BEGIN keeps the transaction for the session, a DML statement and a query
\* go on with it.
Snapshot(c) ==
  /\ pc[c] = "snapshot"
  /\ readers' = readers \ {c}
  /\ stmt' = [stmt EXCEPT ![c] = "none"]
  /\ \E t \in TxId \ Referenced :
        /\ pinned' = pinned \cup {t}
        /\ snap' = [snap EXCEPT ![t] = store]
        /\ \/ /\ stmt[c] = "BEGIN"
              /\ ctx' = [ctx EXCEPT ![c] = t]
              /\ Goto(c, "idle")
              /\ UNCHANGED run
           \/ /\ stmt[c] = "dml"
              /\ run' = [run EXCEPT ![c] = t]
              /\ Goto(c, "exec")
              /\ UNCHANGED ctx
           \/ /\ stmt[c] = "query"
              /\ run' = [run EXCEPT ![c] = t]
              /\ Goto(c, "build")
              /\ UNCHANGED ctx
  /\ UNCHANGED <<store, committed, writer, buf, rows, owned, todo>>

-----------------------------------------------------------------------------
(***************************************************************************)
(* Conn.dml and Conn.query with the transaction in hand.                   *)
(***************************************************************************)
Write(c) ==
  /\ pc[c] = "exec"
  /\ \E k \in Key, cell \in Cell : buf' = [buf EXCEPT ![run[c]] = Mutate(@, k, cell)]
  /\ UNCHANGED <<store, committed, lockVars, pinned, snap, connVars>>

\* The statement succeeded: an implicit transaction commits.
DmlDone(c) ==
  /\ pc[c] = "exec"
  /\ IF run[c] = ctx[c]
     THEN Return(c) /\ UNCHANGED txVars
     ELSE IF Touched(buf[run[c]]) = {}
     THEN Return(c) /\ Release(run[c])
     ELSE Goto(c, "lock") /\ UNCHANGED <<run, txVars>>
  /\ UNCHANGED <<store, committed, lockVars, ctx, rows, owned, stmt, todo>>

\* It failed: an implicit transaction is rolled back, an explicit one keeps
\* what the statement wrote before it failed.
DmlFailed(c) ==
  /\ pc[c] = "exec"
  /\ Return(c)
  /\ IF run[c] = ctx[c] THEN UNCHANGED txVars ELSE Release(run[c])
  /\ UNCHANGED <<store, committed, lockVars, ctx, rows, owned, stmt, todo>>

\* The operator tree of a query is built: the cursor takes the transaction.
CursorOpened(c) ==
  /\ pc[c] = "build"
  /\ Return(c)
  /\ rows' = [rows EXCEPT ![c] = run[c]]
  /\ owned' = [owned EXCEPT ![c] = TRUE]
  /\ UNCHANGED <<store, committed, lockVars, txVars, ctx, stmt, todo>>

\* Or it is not.
CursorFailed(c) ==
  /\ pc[c] = "build"
  /\ Return(c)
  /\ Release(run[c])
  /\ UNCHANGED <<store, committed, lockVars, ctx, rows, owned, stmt, todo>>

-----------------------------------------------------------------------------
(***************************************************************************)
(* Tx.Commit.  Lock announces the writer and then waits for the readers    *)
(* that are inside.                                                        *)
(***************************************************************************)
Lock(c) ==
  /\ pc[c] = "lock"
  /\ writer = None
  /\ writer' = c
  /\ Goto(c, "drain")
  /\ UNCHANGED <<store, committed, readers, txVars, ctx, run, rows, owned, stmt, todo>>

Drain(c) ==
  /\ pc[c] = "drain"
  /\ readers = {}
  /\ todo' = [todo EXCEPT ![c] = Touched(buf[run[c]])]
  /\ Goto(c, "apply")
  /\ UNCHANGED <<store, committed, lockVars, txVars, ctx, run, rows, owned, stmt>>

\* One put or delete, in ascending key order.
Apply(c) ==
  /\ pc[c] = "apply"
  /\ \E k \in todo[c] :
        /\ \A j \in todo[c] : k <= j
        /\ store' = [store EXCEPT ![k] = buf[run[c]][k]]
        /\ todo' = [todo EXCEPT ![c] = @ \ {k}]
  /\ UNCHANGED <<committed, lockVars, txVars, ctx, run, rows, owned, pc, stmt>>

\* The two deferred calls: Unlock, then the release of the snapshot.
Unlock(c) ==
  /\ writer' = None
  /\ committed' = store
  /\ Release(run[c])
  /\ Return(c)
  /\ todo' = [todo EXCEPT ![c] = {}]
  /\ UNCHANGED <<store, readers, ctx, rows, owned, stmt>>

Applied(c) ==
  /\ pc[c] = "apply"
  /\ todo[c] = {}
  /\ Unlock(c)

\* The store refuses a put: Commit returns the error at once.
ApplyFailed(c) ==
  /\ "put" \in Faults
  /\ pc[c] = "apply"
  /\ todo[c] # {}
  /\ Unlock(c)

\* The process dies and is started again on the store it left behind.
Crash ==
  /\ "crash" \in Faults
  /\ committed' = store
  /\ readers' = {}
  /\ writer' = None
  /\ pinned' = {}
  /\ snap' = [t \in TxId |-> EmptyStore]
  /\ buf' = [t \in TxId |-> EmptyBuffer]
  /\ ctx' = [c \in Conn |-> None]
  /\ run' = [c \in Conn |-> None]
  /\ rows' = [c \in Conn |-> None]
  /\ owned' = [c \in Conn |-> FALSE]
  /\ pc' = [c \in Conn |-> "idle"]
  /\ stmt' = [c \in Conn |-> "none"]
  /\ todo' = [c \in Conn |-> {}]
  /\ UNCHANGED store

-----------------------------------------------------------------------------
Statement(c) == \/ OpenTx(c) \/ JoinDml(c) \/ JoinQuery(c)
                \/ Commit(c) \/ Rollback(c) \/ CloseRows(c)

Execution(c) == \/ RLock(c) \/ Snapshot(c)
                \/ Write(c) \/ DmlDone(c) \/ DmlFailed(c)
                \/ CursorOpened(c) \/ CursorFailed(c)
                \/ Lock(c) \/ Drain(c) \/ Apply(c) \/ Applied(c) \/ ApplyFailed(c)

Next == (\E c \in Conn : Statement(c) \/ Execution(c)) \/ Crash

Spec == Init /\ [][Next]_vars

\* A goroutine inside begin or Commit keeps running.  RLock and Lock compete
\* for the mutex: sync.RWMutex lets the readers that waited in when a writer
\* leaves, and its inner mutex hands itself over in order once a waiter has
\* starved, so a session that is let through again and again gets in.
Fairness == \A c \in Conn : /\ SF_vars(RLock(c)) /\ SF_vars(Lock(c))
                            /\ WF_vars(Snapshot(c)) /\ WF_vars(Drain(c))
                            /\ WF_vars(Apply(c) \/ Applied(c) \/ ApplyFailed(c))

FairSpec == Spec /\ Fairness

-----------------------------------------------------------------------------
(***************************************************************************)
(* Properties.                                                             *)
(***************************************************************************)

\* Session c still has to finish transaction t: it is its explicit one, that
\* of the statement it is executing, or that of a cursor that owns it.
Holds(c, t) == \/ t = ctx[c]
               \/ t = run[c]
               \/ owned[c] /\ t = rows[c]

\* Whatever path a statement took, through its errors too, every snapshot
\* that is still pinned is one that some session is going to release: no
\* path of run, dml, query or Close forgets a Rollback (conn.go:108-249).
NoSnapshotLeak == \A t \in pinned : \E c \in Conn : Holds(c, t)

\* A transaction that somebody is going to finish is not finished yet, so
\* neither Commit's error for a finished transaction nor a second Release
\* can happen (keelsql.go:167,197), and it has one session: a cursor that
\* owns its transaction shares it with nobody, its own session included.
Ownership ==
  \A c \in Conn, t \in TxId : Holds(c, t) =>
     /\ t \in pinned
     /\ \A d \in Conn : Holds(d, t) => d = c
     /\ owned[c] /\ t = rows[c] => t \notin {ctx[c], run[c]}

\* commitMu is where the program counters say it is, and nobody is inside
\* its read side while a commit applies its write set (keelsql.go:55-60).
Locking ==
  \A c \in Conn : /\ pc[c] \in {"drain", "apply"} <=> writer = c
                  /\ pc[c] = "snapshot" <=> c \in readers
                  /\ pc[c] = "apply" => readers = {}

\* While a commit is under way the store holds the last committed state and
\* the initial segment of the write set that has been applied; otherwise it
\* holds a committed state (keelsql.go:178-190).
StoreIsCommittedPlusPrefix ==
  /\ \A c \in Conn : pc[c] = "apply" =>
        LET b == buf[run[c]]
            D == Touched(b) \ todo[c] IN
        /\ todo[c] \subseteq Touched(b)
        /\ Prefix(D, b)
        /\ store = Overlay(committed, Part(b, D))
  /\ (\A c \in Conn : pc[c] # "apply") => store = committed

\* What a session holds at each point of a statement.
SessionOK ==
  \A c \in Conn :
     /\ pc[c] \in {"idle", "begin", "snapshot"} <=> run[c] = None
     /\ pc[c] \in {"begin", "snapshot"} => ctx[c] = None /\ stmt[c] \in Statements
     /\ pc[c] = "exec" => ctx[c] \in {run[c], None}
     /\ pc[c] \in {"build", "lock", "drain", "apply"} => ctx[c] = None
     /\ pc[c] \in {"begin", "snapshot"} /\ stmt[c] = "query" => rows[c] = None
     /\ pc[c] = "build" => rows[c] = None
     /\ owned[c] => rows[c] # None

\* A Tx starts with an empty buffer (keelsql.go:156).
FreshBuffers == \A t \in TxId \ pinned : buf[t] = EmptyBuffer

\* The inductive invariant the proofs rest on.
IInv == /\ TypeOK
        /\ Locking
        /\ SessionOK
        /\ Ownership
        /\ NoSnapshotLeak
        /\ FreshBuffers
        /\ StoreIsCommittedPlusPrefix

\* The transaction engine implements the transaction that the comment on Tx
\* describes (keelsql.go:118-139): a transaction sees one committed state
\* and its own writes, and a commit is one step to every other transaction,
\* over whatever is committed by then.
Promise == INSTANCE SnapshotTx WITH db <- committed, open <- pinned, ws <- buf
ImplementsSnapshotTx == Promise!Spec

\* A session that asks for commitMu, to begin or to commit, gets through
\* and comes back with its transaction begun or finished, however the puts
\* of this and of the other commits end.
MutexIsNeverStuck ==
  \A c \in Conn : pc[c] \in {"begin", "lock"} ~> pc[c] \in {"idle", "exec", "build"}

\* The claim of the comment on Conn.Query (conn.go:90-91): until a cursor is
\* closed it holds the snapshot it is reading.
CursorHoldsSnapshot == \A c \in Conn : rows[c] # None => rows[c] \in pinned
=============================================================================
