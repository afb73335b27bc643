---------------------------- MODULE Expressions ----------------------------
(***************************************************************************)
(* The way of one expression through the engine.  A client writes it; the  *)
(* engine parses it, shows it (EXPLAIN, a result column's name), runs it   *)
(* on a row, or uses it above a GROUP BY, where its parts are found by the *)
(* text they print as.  A client may send back what it was shown.          *)
(*                                                                         *)
(* Printer, parser, evaluator and planner have to agree on what a text     *)
(* means, and nothing but their code makes them: the properties compare    *)
(* them with each other and with what SQL says the expression means.       *)
(***************************************************************************)
EXTENDS Evaluator

CONSTANTS Columns,         \* the columns of the table, in order
          Rows,            \* its rows, sequences of values
          Clauses,         \* bound: the expressions clients write
          GroupedClauses,  \* bound: those they use above a GROUP BY
          MaxKeys          \* bound: the length of a GROUP BY

ASSUME RowsAssumption    == \A r \in Rows : DOMAIN r = DOMAIN Columns
ASSUME ClausesAssumption == GroupedClauses \subseteq Clauses
ASSUME MaxKeysAssumption == MaxKeys \in Nat

VARIABLES
  clause,     \* what the client means
  stage,      \* how far it has come
  tree,       \* what the parser made of it
  text,       \* what the printer made of the tree
  back,       \* what the parser made of that
  keys,       \* the GROUP BY
  row,        \* the row it is evaluated on, or a row of the group
  value,      \* what Eval says
  condition   \* what EvalPredicate says

vars == <<clause, stage, tree, text, back, keys, row, value, condition>>

Init ==
  /\ clause \in Clauses
  /\ stage = "written"
  /\ tree = NoTree /\ back = NoTree
  /\ text = <<>> /\ keys = <<>> /\ row = <<>>
  /\ value = Null /\ condition = Unknown

-----------------------------------------------------------------------------
ParseClause ==
  /\ stage = "written"
  /\ stage' = "parsed"
  /\ tree' = Parse(Written(clause))
  /\ UNCHANGED <<clause, text, back, keys, row, value, condition>>

\* EXPLAIN, or the header of a result.
Explain ==
  /\ stage = "parsed" /\ tree # NoTree
  /\ stage' = "shown"
  /\ text' = String(tree)
  /\ UNCHANGED <<clause, tree, back, keys, row, value, condition>>

SendBack ==
  /\ stage = "shown"
  /\ stage' = "sent back"
  /\ back' = Parse(text)
  /\ UNCHANGED <<clause, tree, text, keys, row, value, condition>>

\* A projection evaluates it with Eval, a filter with EvalPredicate.  A call
\* makes the query one that groups.
Run ==
  /\ stage = "parsed" /\ tree # NoTree /\ ~HasAggregate(tree)
  /\ stage' = "run"
  /\ \E r \in Rows :
       /\ row' = r
       /\ value' = Eval(tree, TableEnv(Columns), r)
       /\ condition' = EvalPredicate(tree, TableEnv(Columns), r)
  /\ UNCHANGED <<clause, tree, text, back, keys>>

\* What a client groups by: parts of the expression, what others would read
\* them as, and columns.
KeyChoices(e) == LET parts == SubTrees(e)
                 IN  (parts \cup {Parse(String(s)) : s \in parts} \cup {Column(c) : c \in Range(Columns)}) \ {NoTree}

GroupedEnv(e, ks) == GroupEnv(ks, Collect(e))

\* What the planner accepts as SELECT e ... GROUP BY ks.
Grouped(e, ks) == /\ \A k \in Range(ks) : ~HasAggregate(k)
                  /\ CheckGrouped(e, GroupedEnv(e, ks))

\* The row the aggregation produces for the group of r: the values of the
\* keys and what the calls come to.  How a call adds up more rows than one is
\* the subject of Query.
GroupRow(e, ks, r) ==
  LET env   == TableEnv(Columns)
      calls == Collect(e)
  IN  [i \in DOMAIN ks |-> Eval(ks[i], env, r)] \o [i \in DOMAIN calls |-> CallResult(calls[i], env, r)]

\* SELECT tree ... GROUP BY ks, planned and run for the group of r.  Without
\* keys it groups only because of a call.
GroupBy ==
  /\ stage = "parsed" /\ clause \in GroupedClauses /\ tree # NoTree
  /\ \E n \in 0 .. MaxKeys : \E ks \in [1 .. n -> KeyChoices(tree)] :
       /\ n > 0 \/ HasAggregate(tree)
       /\ keys' = ks
       /\ \/ /\ ~Grouped(tree, ks)
             /\ stage' = "refused"
             /\ UNCHANGED <<row, value>>
          \/ /\ Grouped(tree, ks)
             /\ stage' = "grouped"
             /\ \E r \in Rows :
                  /\ Err \notin Range(GroupRow(tree, ks, r))
                  /\ row' = r
                  /\ value' = Eval(tree, GroupedEnv(tree, ks), GroupRow(tree, ks, r))
  /\ UNCHANGED <<clause, tree, text, back, condition>>

Next == ParseClause \/ Explain \/ SendBack \/ Run \/ GroupBy

Spec == Init /\ [][Next]_vars

-----------------------------------------------------------------------------
(***************************************************************************)
(* Types.                                                                  *)
(***************************************************************************)
Arity(e) == CASE IsLeaf(e)                               -> {0}
              [] e.op \in {"NOT", "negate", "IS NULL"}   -> {1}
              [] e.op = "BETWEEN"                        -> {3}
              [] e.op = "IN"                             -> 2 .. Len(e.args)
              [] e.op = "COUNT"                          -> {0, 1}
              [] e.op \in Aggregates \ {"COUNT"}         -> {1}
              [] OTHER                                   -> {2}

IsNumber(e) == e.op = "literal" /\ e.leaf[1] = "INT"

\* What the parser produces: the planner counts on the sign of a number being
\* in the number.
WellFormed(e) == \A n \in SubTrees(e) : /\ Len(n.args) \in Arity(n)
                                        /\ n.not => n.op \in Postfixes
                                        /\ n.op = "negate" => ~IsNumber(n.args[1])
                                        /\ n.op \in Aggregates => \A i \in DOMAIN n.args : ~HasAggregate(n.args[i])

IsValue(v) == CASE v[1] = "NULL" -> v = Null
                [] v[1] = "BOOL" -> v[2] \in BOOLEAN
                [] v[1] = "INT"  -> v[2] \in Int
                [] v[1] = "TEXT" -> Range(v[2]) \subseteq DOMAIN Rank
                [] OTHER         -> v = Err

\* Type correctness: what the parser returns is a tree of the grammar, and
\* what the evaluator returns a value or an error.
TypeOK ==
  /\ stage \in {"written", "parsed", "shown", "sent back", "run", "grouped", "refused"}
  /\ \A e \in {tree, back} : e = NoTree \/ WellFormed(e)
  /\ IsValue(value)
  /\ condition \in False .. Failed

-----------------------------------------------------------------------------
(***************************************************************************)
(* Reading and printing.                                                   *)
(***************************************************************************)

\* parser.go reads a text in which a client has put every operator in
\* parentheses, every name in quotes and every backslash twice as the tree
\* the client means: no part of it is lost, moved or taken for another token.
ParserReads == stage # "written" => tree = clause

\* Where the printer writes what the parser reads otherwise.  A minus on a
\* minus begins a comment; the pattern of a LIKE gets no parentheses where
\* the parser takes it one level tighter; Value.SQL does not double the
\* backslashes that lexString halves; and quoteIdent knows no keywords.
Misprinted(e) ==
  \E n \in SubTrees(e) :
    \/ n.op = "negate" /\ n.args[1].op = "negate"
    \/ n.op = "LIKE" /\ Precedence(n.args[2]) = PrecCompare
    \/ n.op = "literal" /\ n.leaf[1] = "TEXT"
         /\ \E i \in DOMAIN n.leaf[2] : /\ n.leaf[2][i] = "\\"
                                        /\ i < Len(n.leaf[2]) => n.leaf[2][i + 1] \in {"n", "\\", "'"}
    \/ n.op = "column" /\ Uppercase(n.leaf[2]) \in Keywords

\* print.go and parser.go agree ("so the two cannot drift apart", print.go:
\* 8-10; "quoting round-trips", value.go:173): what an expression prints as,
\* with its few parentheses, reads as that expression.  The named exceptions
\* are the only ones, and they all are.
PrintReadsBack == stage = "sent back" => (back = tree <=> ~Misprinted(tree))

-----------------------------------------------------------------------------
(***************************************************************************)
(* What an expression means in SQL.  Conditions are either true or false,  *)
(* and NULL does not say which: an AND is what it is in every such world,  *)
(* and NULL if the worlds differ.  BETWEEN and IN are other words for AND  *)
(* and OR.  If a part has no meaning, the whole has none.                  *)
(***************************************************************************)
Worlds(v) == CASE v = Null      -> BOOLEAN
               [] v[1] = "BOOL" -> {v[2]}
               [] OTHER         -> {}

Consensus(truths) == IF truths = {} THEN Err
                     ELSE IF Cardinality(truths) = 1 THEN Bool(CHOOSE b \in truths : TRUE)
                     ELSE Null

RECURSIVE Matches(_, _)
Matches(chars, pattern) ==
  CASE pattern = <<>> -> chars = <<>>
    [] pattern # <<>> /\ Head(pattern) = "%" ->
         \E n \in 0 .. Len(chars) : Matches(SubSeq(chars, n + 1, Len(chars)), Tail(pattern))
    [] OTHER -> /\ chars # <<>>
                /\ Head(pattern) \in {"_", Head(chars)}
                /\ Matches(Tail(chars), Tail(pattern))

Binary(op, x, y) == Node(op, FALSE, <<x, y>>)

RECURSIVE Meaning(_, _)
Meaning(e, r) ==
  LET Arg(i) == Meaning(e.args[i], r)
      x == e.args[1]
      y == e.args[2]
  IN IF \E i \in DOMAIN e.args : Arg(i) = Err THEN Err
     ELSE IF e.not THEN Meaning(Node("NOT", FALSE, <<[e EXCEPT !.not = FALSE]>>), r)
     ELSE CASE e.op = "literal" -> e.leaf
            [] e.op = "column"  -> r[CHOOSE i \in DOMAIN Columns : Columns[i] = e.leaf[2]]
            [] e.op = "NOT"     -> Consensus({~p : p \in Worlds(Arg(1))})
            [] e.op = "AND"     -> Consensus({p /\ q : p \in Worlds(Arg(1)), q \in Worlds(Arg(2))})
            [] e.op = "OR"      -> Consensus({p \/ q : p \in Worlds(Arg(1)), q \in Worlds(Arg(2))})
            [] e.op = "IS NULL" -> Bool(Arg(1) = Null)
            [] e.op = "BETWEEN" -> Meaning(Binary("AND", Binary("<=", y, x), Binary("<=", x, e.args[3])), r)
            [] e.op = "IN" /\ Len(e.args) = 2 -> Meaning(Binary("=", x, y), r)
            [] e.op = "IN" /\ Len(e.args) > 2 ->
                 Meaning(Binary("OR", Binary("=", x, y), Node("IN", FALSE, <<x>> \o SubSeq(e.args, 3, Len(e.args)))), r)
            [] e.op = "LIKE" /\ Null \in {Arg(1), Arg(2)} -> Null
            [] e.op = "LIKE" /\ Null \notin {Arg(1), Arg(2)} ->
                 IF {Arg(1)[1], Arg(2)[1]} = {"TEXT"} THEN Bool(Matches(Arg(1)[2], Arg(2)[2])) ELSE Err
            [] e.op = "negate"            -> Arithmetic("-", Integer(0), Arg(1))
            [] e.op \in ArithmeticOps     -> Arithmetic(e.op, Arg(1), Arg(2))
            [] e.op \in Comparisons       -> AsValue(CompareOp(e.op, Arg(1), Arg(2)))

\* Like takes a "%" of the pattern for a character where the text has one.
PercentInText(e, r) ==
  \E n \in SubTrees(e) : n.op = "LIKE" /\ LET v == Meaning(n.args[1], r)
                                          IN  v[1] = "TEXT" /\ "%" \in Range(v[2])

\* eval.go: where an expression has a meaning it evaluates to that, however
\* many NULLs are in it and whichever operands are skipped; the only
\* exception is a LIKE on a text with a percent sign in it (ops.go:123).  The
\* two evaluators, the one for values and the one for conditions, agree on
\* everything, failures included: a WHERE keeps the rows that a SELECT of the
\* same expression shows as true.
SqlMeaning ==
  stage = "run" =>
    /\ condition = Truth(value)
    /\ \/ value = Meaning(tree, row)
       \/ Meaning(tree, row) = Err
       \/ PercentInText(tree, row)

-----------------------------------------------------------------------------
(***************************************************************************)
(* Grouping.                                                               *)
(***************************************************************************)

\* The expression with its calls replaced by what they come to.
RECURSIVE Inlined(_, _)
Inlined(e, r) == IF e.op \in Aggregates THEN Literal(CallResult(e, TableEnv(Columns), r))
                 ELSE [e EXCEPT !.args = [i \in DOMAIN e.args |-> Inlined(e.args[i], r)]]

\* Two expressions that print alike, of which one is a key or a call.
TextClash(e, ks) == \E n \in SubTrees(e), k \in Range(ks) \cup Range(CallsIn(e)) : n # k /\ String(n) = String(k)

\* A condition that the GROUP BY has, under an operator that asks
\* EvalPredicate for it, which does not look there.
BoundCondition(e, ks) ==
  \E n \in SubTrees(e) :
    /\ n.op \in {"AND", "OR", "NOT"}
    /\ \E i \in DOMAIN n.args : n.args[i].op \notin {"literal", "column", "negate"} \cup ArithmeticOps \cup Aggregates
                                /\ Bound(n.args[i], GroupedEnv(e, ks))

\* build.go, eval.go: an expression that checkGrouped accepts is worth above
\* the groups what it is worth on every row of the group, so it does not
\* matter which row the group keeps.  Only two things may come between: a
\* text that two expressions share, which may yield any value, and a grouped
\* condition under AND, OR or NOT, which may fail and cannot be wrong.
GroupedMeaning ==
  stage = "grouped" =>
    \/ value = Eval(Inlined(tree, row), TableEnv(Columns), row)
    \/ TextClash(tree, keys)
    \/ value = Err /\ BoundCondition(tree, keys)
=============================================================================
