------------------------------ MODULE MCQuery ------------------------------
(***************************************************************************)
(* A small instance of Query: a float column with its two zeros and NULL,  *)
(* an integer column of which two values overflow when they are added, and *)
(* windows with no end, with no rows, inside an answer and behind its end. *)
(***************************************************************************)
EXTENDS Query

Zeros    == {Null, Value("FLOAT", 0), Value("FLOAT", SignBit)}
TwoIntegers == {Null, Value("INT", 1), Value("INT", 3)}

SomeWindows ==
  {[count |-> -1, offset |-> 0], [count |-> 0, offset |-> 0],
   [count |-> 1, offset |-> 1], [count |-> 3, offset |-> 1]}

NoTexts == {0}
=============================================================================
