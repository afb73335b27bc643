---------------------------- MODULE MCAccessPath ----------------------------
(***************************************************************************)
(* A small instance of AccessPath: numbers of three bits, texts of up to   *)
(* two of the bytes that matter to the escape, and constants at the ends   *)
(* and around zero of each kind.                                           *)
(***************************************************************************)
EXTENDS AccessPath

AllKinds == {"BOOL", "INT", "FLOAT", "TEXT"}
Nuls     == {0, 1, 7}
Ids      == {1, 6, 7}
Keys     == {-4, 0, 3}

Constants ==
  {Null, Value("BOOL", 0), Value("BOOL", 1), Value("INT", 0), Value("INT", 3),
   Value("FLOAT", 4), Value("TEXT", <<0>>), Value("TEXT", <<7, 0>>)}
=============================================================================
