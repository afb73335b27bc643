------------------------------ MODULE MCKeelTx ------------------------------
(***************************************************************************)
(* Small instances of KeelTx.  Sessions, transactions and values are       *)
(* interchangeable; keys are not, a commit applies them in order.          *)
(***************************************************************************)
EXTENDS KeelTx, TLC

CONSTANTS c1, c2, t1, t2, t3, t4, v1

TwoConns   == {c1, c2}
FourTxs    == {t1, t2, t3, t4}
OneValue   == {v1}
TwoKeys    == 1 .. 2
TwoTxs     == {t1, t2}
AllStatements == {"BEGIN", "dml", "query"}
NoCursors   == {"BEGIN", "dml"}
NoFaults   == {}
BothFaults == {"put", "crash"}

Interchangeable == Permutations(TwoConns) \cup Permutations(FourTxs)
=============================================================================
