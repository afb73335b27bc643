--------------------------- MODULE MCOverlayScan ---------------------------
(***************************************************************************)
(* A small instance of OverlayScan.                                        *)
(***************************************************************************)
EXTENDS OverlayScan

CONSTANT v1

ThreeKeys == 1 .. 3
OneValue  == {v1}
=============================================================================
