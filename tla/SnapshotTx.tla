----------------------------- MODULE SnapshotTx -----------------------------
(***************************************************************************)
(* What a keelsql transaction promises, as the documentation of Tx in      *)
(* keelsql.go states it: snapshot isolation without write-write conflict   *)
(* detection.                                                              *)
(*                                                                         *)
(* The database is one value db.  A transaction is given the whole of db   *)
(* when it begins, changes only its own write set, and at Commit replaces  *)
(* db by db overlaid with the write set, in one step and whatever other    *)
(* transactions did in the meantime: the last writer wins.  There is no    *)
(* lock, no queue and no half-applied state in this module.                *)
(*                                                                         *)
(* With a store that can fail a commit is not atomic, and the promise is   *)
(* weaker: an initial segment of the write set, in key order, is left      *)
(* behind (Torn, Crash).                                                   *)
(***************************************************************************)
EXTENDS OrderedWriteSet

CONSTANTS TxId,      \* transactions
          Faults     \* which of "put" and "crash" can happen to the store

VARIABLES db,        \* the committed contents of the store
          open,      \* the transactions that are open
          snap,      \* snap[t]: the database as transaction t sees it
          ws         \* ws[t]: the uncommitted writes of t

vars == <<db, open, snap, ws>>

TypeOK == /\ db \in Store
          /\ open \subseteq TxId
          /\ snap \in [TxId -> Store]
          /\ ws \in [TxId -> Buffer]

Init == /\ db \in Store
        /\ open = {}
        /\ snap = [t \in TxId |-> EmptyStore]
        /\ ws = [t \in TxId |-> EmptyBuffer]

Forget(t) == /\ open' = open \ {t}
             /\ snap' = [snap EXCEPT ![t] = EmptyStore]
             /\ ws' = [ws EXCEPT ![t] = EmptyBuffer]

\* A transaction sees the database as it is when the transaction begins, and
\* has written nothing.
Begin(t) == /\ t \notin open
            /\ open' = open \cup {t}
            /\ snap' = [snap EXCEPT ![t] = db]
            /\ ws' = [ws EXCEPT ![t] = EmptyBuffer]
            /\ UNCHANGED db

\* Its writes are its own until it commits.
Write(t) == /\ t \in open
            /\ \E k \in Key, cell \in Cell : ws' = [ws EXCEPT ![t] = Mutate(@, k, cell)]
            /\ UNCHANGED <<db, open, snap>>

\* The write set appears all at once, over whatever is there now.
Commit(t) == /\ t \in open
             /\ db' = Overlay(db, ws[t])
             /\ Forget(t)

Abort(t) == /\ t \in open
            /\ Forget(t)
            /\ UNCHANGED db

\* A put of the commit failed: the commit reports an error, and what it had
\* applied stays.
Torn(t) == /\ "put" \in Faults
           /\ t \in open
           /\ \E D \in SUBSET Key : Prefix(D, ws[t]) /\ db' = Overlay(db, Part(ws[t], D))
           /\ Forget(t)

\* The process dies, at most one commit being under way, and is restarted.
Crash == /\ "crash" \in Faults
         /\ \/ UNCHANGED db
            \/ \E t \in open, D \in SUBSET Key :
                  Prefix(D, ws[t]) /\ db' = Overlay(db, Part(ws[t], D))
         /\ open' = {}
         /\ snap' = [t \in TxId |-> EmptyStore]
         /\ ws' = [t \in TxId |-> EmptyBuffer]

Next == \/ \E t \in TxId : Begin(t) \/ Write(t) \/ Commit(t) \/ Abort(t) \/ Torn(t)
        \/ Crash

Spec == Init /\ [][Next]_vars
=============================================================================
