----------------------------- MODULE MCRowLoop -----------------------------
(***************************************************************************)
(* A small instance of RowLoop: three primary keys, so that a row can move *)
(* past another one, of which the first two are -0.0 and 0.0, and two      *)
(* values of the indexed column.                                           *)
(***************************************************************************)
EXTENDS RowLoop

OneId   == 1 .. 1
ThreePk == 1 .. 3
TwoVal  == 1 .. 2
Zeros   == {<<1, 2>>, <<2, 1>>}
=============================================================================
