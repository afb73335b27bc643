------------------------------ MODULE WriteSet ------------------------------
(***************************************************************************)
(* The data a keelsql transaction works on: the contents of the key/value  *)
(* store as a total function from keys to cells, and the write buffer of a *)
(* transaction (storage.Buffer), which remembers the newest mutation per   *)
(* key and keeps deletions as tombstones.                                  *)
(*                                                                         *)
(* A cell is what the store holds under a key: a value, or Absent.  A      *)
(* buffer entry is the cell the transaction wants there, or NoEntry when   *)
(* it did not touch the key.  A tombstone is therefore the entry Absent.   *)
(***************************************************************************)
CONSTANTS Key,       \* the keys under consideration
          Value,     \* the values a key may be bound to
          Absent,    \* the cell of a key that is not in the store
          NoEntry    \* what a buffer holds for a key that was not written

ASSUME SentinelAssumption == /\ Absent \notin Value
                             /\ NoEntry \notin Value \cup {Absent}

Cell   == Value \cup {Absent}
Store  == [Key -> Cell]
Buffer == [Key -> Cell \cup {NoEntry}]

EmptyStore  == [k \in Key |-> Absent]
EmptyBuffer == [k \in Key |-> NoEntry]

\* Buffer.Put (a value) and Buffer.Delete (Absent, the tombstone).
Mutate(b, k, cell) == [b EXCEPT ![k] = cell]

\* The keys of Buffer.Entries.
Touched(b) == {k \in Key : b[k] # NoEntry}

\* What Overlay.Get answers for every key, and what applying the whole of b
\* to s leaves in the store.
Overlay(s, b) == [k \in Key |-> IF b[k] = NoEntry THEN s[k] ELSE b[k]]

\* The part of b that concerns the keys of D.
Part(b, D) == [k \in Key |-> IF k \in D THEN b[k] ELSE NoEntry]
=============================================================================
