------------------------------ MODULE MCKeelDB ------------------------------
(***************************************************************************)
(* Small instances of KeelDB: two sessions, two primary keys, two values.  *)
(***************************************************************************)
EXTENDS KeelDB, TLC

CONSTANTS c1, c2, p1, p2, a, b

TwoConns  == {c1, c2}
TwoPks    == {p1, p2}
TwoValues == {a, b}
OneId     == 1 .. 1
TwoIds    == 1 .. 2

Interchangeable == Permutations(TwoConns) \cup Permutations(TwoPks) \cup Permutations(TwoValues)
=============================================================================
