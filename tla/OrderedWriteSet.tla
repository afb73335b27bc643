-------------------------- MODULE OrderedWriteSet --------------------------
(***************************************************************************)
(* Write sets over ordered keys.  Keys are integers here: all that matters *)
(* of bytes.Compare on the encoded keys is that it orders them, which is   *)
(* the order Buffer.Entries returns and a commit applies.                  *)
(***************************************************************************)
EXTENDS WriteSet, Integers

ASSUME KeyAssumption == Key \subseteq Int

\* D is an initial segment of the touched keys of b in key order: the part
\* of a write set that a commit which stops half way has applied.
Prefix(D, b) == /\ D \subseteq Touched(b)
                /\ \A j \in D, k \in Touched(b) \ D : j < k
=============================================================================
