----------------------------- MODULE FrozenScan -----------------------------
(***************************************************************************)
(* What a scan inside a transaction promises: the rows of its range as the *)
(* transaction saw them when the scan was opened, each once, in ascending  *)
(* key order, whatever the statement that drives the scan writes while it  *)
(* runs.                                                                   *)
(***************************************************************************)
EXTENDS OrderedWriteSet

CONSTANT NoRow       \* the iterator before its first row

VARIABLES contents,  \* what the transaction saw in the range of the scan
          rest,      \* the keys it has yet to produce
          row,       \* the current row, <<key, value>>
          phase      \* "closed", "open" or "done"

vars == <<contents, rest, row, phase>>

Present(s) == {k \in Key : s[k] # Absent}

Init == /\ contents = EmptyStore
        /\ rest = {}
        /\ row = NoRow
        /\ phase = "closed"

Open == /\ phase = "closed"
        /\ contents' \in Store
        /\ rest' = Present(contents')
        /\ phase' = "open"
        /\ UNCHANGED row

Produce == /\ phase = "open"
           /\ \E k \in rest : /\ \A j \in rest : k <= j
                              /\ rest' = rest \ {k}
                              /\ row' = <<k, contents[k]>>
           /\ UNCHANGED <<contents, phase>>

Finish == /\ phase = "open"
          /\ rest = {}
          /\ phase' = "done"
          /\ UNCHANGED <<contents, rest, row>>

Next == Open \/ Produce \/ Finish

Spec == Init /\ [][Next]_vars
=============================================================================
