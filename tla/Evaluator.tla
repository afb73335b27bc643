----------------------------- MODULE Evaluator -----------------------------
(***************************************************************************)
(* What an expression comes to on a row: Eval and EvalPredicate            *)
(* (exec/eval.go) over three-valued logic and the operators on values      *)
(* (types/logic.go, types/ops.go), and what a query that groups does to    *)
(* both: the environment it binds (plan/build.go, groupedSelect) and the   *)
(* expressions it accepts above its groups (checkGrouped).                 *)
(*                                                                         *)
(* An evaluation that fails yields Err, and a condition that fails Failed. *)
(***************************************************************************)
EXTENDS Syntax

Err == <<"ERROR">>

-----------------------------------------------------------------------------
(***************************************************************************)
(* Three-valued logic.                                                     *)
(***************************************************************************)
False   == 0
Unknown == 1
True    == 2
Failed  == 3

B3(truth) == IF truth THEN True ELSE False

And(t, u) == IF Failed \in {t, u} THEN Failed ELSE IF u < t THEN u ELSE t
Or(t, u)  == IF Failed \in {t, u} THEN Failed ELSE IF u > t THEN u ELSE t
Not(t)    == IF t = Failed THEN Failed ELSE True - t

\* Bool3.Value and Truth.
AsValue(t) == CASE t = Failed -> Err [] t = Unknown -> Null [] OTHER -> Bool(t = True)
Truth(v)   == CASE v[1] = "NULL" -> Unknown [] v[1] = "BOOL" -> B3(v[2]) [] OTHER -> Failed

-----------------------------------------------------------------------------
(***************************************************************************)
(* Operators on values.                                                    *)
(***************************************************************************)
Rank == [c \in {"LF", "%", "'", "\\", "_", "n", "x"} |->
           CASE c = "LF" -> 1 [] c = "%" -> 2 [] c = "'" -> 3 [] c = "\\" -> 4
             [] c = "_" -> 5 [] c = "n" -> 6 [] c = "x" -> 7]

\* The order of two values of one kind; texts are compared byte by byte.
TextBefore(s, t) ==
  \E n \in 0 .. Len(s) : /\ n < Len(t)
                         /\ \A i \in 1 .. n : s[i] = t[i]
                         /\ n < Len(s) => Rank[s[n + 1]] < Rank[t[n + 1]]

Before(a, b) == CASE a[1] = "BOOL" -> ~a[2] /\ b[2]
                  [] a[1] = "INT"  -> a[2] < b[2]
                  [] a[1] = "TEXT" -> TextBefore(a[2], b[2])

CompareOp(op, a, b) ==
  IF Err \in {a, b} THEN Failed
  ELSE IF Null \in {a, b} THEN Unknown
  ELSE IF a[1] # b[1] THEN Failed
  ELSE B3(CASE op = "="  -> a = b
            [] op = "!=" -> a # b
            [] op = "<"  -> Before(a, b)
            [] op = "<=" -> ~Before(b, a)
            [] op = ">"  -> Before(b, a)
            [] op = ">=" -> ~Before(a, b))

\* Division truncates towards zero, and the remainder goes with it.
Magnitude(n)   == IF n < 0 THEN -n ELSE n
Quotient(m, n) == LET q == Magnitude(m) \div Magnitude(n) IN IF (m < 0) = (n < 0) THEN q ELSE -q

ArithmeticOps == {"+", "-", "*", "/", "%"}

Arithmetic(op, a, b) ==
  IF Err \in {a, b} THEN Err
  ELSE IF Null \in {a, b} THEN Null
  ELSE IF a[1] # "INT" \/ b[1] # "INT" \/ (op \in {"/", "%"} /\ b[2] = 0) THEN Err
  ELSE Integer(CASE op = "+" -> a[2] + b[2]
                 [] op = "-" -> a[2] - b[2]
                 [] op = "*" -> a[2] * b[2]
                 [] op = "/" -> Quotient(a[2], b[2])
                 [] op = "%" -> a[2] - b[2] * Quotient(a[2], b[2]))

Neg(v) == CASE v[1] = "NULL" -> Null [] v[1] = "INT" -> Integer(-v[2]) [] OTHER -> Err

\* Like's scan: at ti of the text and pi of the pattern, with the place of the
\* last "%" (0 for none) and the text it has swallowed up to mark.
RECURSIVE LikeScan(_, _, _, _, _, _)
LikeScan(text, pat, ti, pi, star, mark) ==
  LET Next(c) == pi <= Len(pat) /\ pat[pi] = c
  IN IF ti > Len(text) THEN \A j \in pi .. Len(pat) : pat[j] = "%"
     ELSE IF Next("_") \/ Next(text[ti]) THEN LikeScan(text, pat, ti + 1, pi + 1, star, mark)
     ELSE IF Next("%") THEN LikeScan(text, pat, ti, pi + 1, pi, ti)
     ELSE IF star > 0 THEN LikeScan(text, pat, mark + 1, star + 1, star, mark + 1)
     ELSE FALSE

Like(text, pat) == LikeScan(text, pat, 1, 1, 0, 0)

LikeValue(s, p) ==
  IF Err \in {s, p} THEN Failed
  ELSE IF Null \in {s, p} THEN Unknown
  ELSE IF s[1] # "TEXT" \/ p[1] # "TEXT" THEN Failed
  ELSE B3(Like(s[2], p[2]))

-----------------------------------------------------------------------------
(***************************************************************************)
(* Evaluation.  An environment says where in the row the columns are, and  *)
(* above a GROUP BY also where the expressions are that it has, each under *)
(* its text.                                                               *)
(***************************************************************************)
Bound(e, env) == DOMAIN env.exprs # {} /\ String(e) \in DOMAIN env.exprs

RECURSIVE Eval(_, _, _), EvalPredicate(_, _, _)

Eval(e, env, row) ==
  LET Arg(i) == Eval(e.args[i], env, row)
  IN IF Bound(e, env) THEN row[env.exprs[String(e)]]
     ELSE CASE e.op = "literal"       -> e.leaf
            [] e.op = "column"        -> IF e.leaf[2] \in DOMAIN env.columns
                                         THEN row[env.columns[e.leaf[2]]] ELSE Err
            [] e.op \in Aggregates    -> Err
            [] e.op = "NOT"           -> AsValue(Not(Truth(Arg(1))))
            [] e.op = "negate"        -> Neg(Arg(1))
            [] e.op \in ArithmeticOps -> Arithmetic(e.op, Arg(1), Arg(2))
            [] OTHER                  -> AsValue(EvalPredicate(e, env, row))

\* A broken variant, not part of the model: an unknown item counts as no match.
InListNullIsNoMatch(e, i, v, env, row) ==
  B3(\E j \in i .. Len(e.args) : CompareOp("=", v, Eval(e.args[j], env, row)) = True)

\* x IN (list): the items from i on, until one decides.
RECURSIVE InList(_, _, _, _, _)
InList(e, i, v, env, row) ==
  LET eq == CompareOp("=", v, Eval(e.args[i], env, row))
  IN  IF i = Len(e.args) \/ eq \in {True, Failed} THEN eq
      ELSE Or(eq, InList(e, i + 1, v, env, row))

\* EvalPredicate never asks what the environment binds e itself to.
EvalPredicate(e, env, row) ==
  LET Arg(i)  == Eval(e.args[i], env, row)
      Cond(i) == EvalPredicate(e.args[i], env, row)
      Signed3(t) == IF e.not THEN Not(t) ELSE t
  IN CASE e.op = "AND" -> LET left == Cond(1) IN IF left \in {Failed, False} THEN left ELSE And(left, Cond(2))
       [] e.op = "OR"  -> LET left == Cond(1) IN IF left \in {Failed, True} THEN left ELSE Or(left, Cond(2))
       [] e.op = "NOT" -> Not(Cond(1))
       [] e.op \in Comparisons -> CompareOp(e.op, Arg(1), Arg(2))
       [] e.op = "IS NULL" -> LET v == Arg(1) IN IF v = Err THEN Failed ELSE B3((v = Null) # e.not)
       [] e.op = "BETWEEN" -> LET v == Arg(1)
                              IN  Signed3(And(CompareOp(">=", v, Arg(2)), CompareOp("<=", v, Arg(3))))
       [] e.op = "IN"      -> Signed3(InList(e, 2, Arg(1), env, row))
       [] e.op = "LIKE"    -> Signed3(LikeValue(Arg(1), Arg(2)))
       [] OTHER            -> Truth(Eval(e, env, row))

-----------------------------------------------------------------------------
(***************************************************************************)
(* Grouping.                                                               *)
(***************************************************************************)

\* The environment of a scan of a table with these columns.
TableEnv(names) == [exprs   |-> [text \in {} |-> 0],
                    columns |-> [name \in Range(names) |-> CHOOSE i \in DOMAIN names : names[i] = name]]

\* The aggregate calls of an expression, in the order they are first seen,
\* one for every text.
RECURSIVE CallsIn(_)
CallsIn(e) == IF e.op \in Aggregates THEN <<e>>
              ELSE FlattenSeq([i \in DOMAIN e.args |-> CallsIn(e.args[i])])

Collect(e) == LET Add(calls, c) == IF \E d \in Range(calls) : String(d) = String(c) THEN calls ELSE Append(calls, c)
              IN  FoldLeft(Add, <<>>, CallsIn(e))

\* The environment above a GROUP BY: every key and every call by its text,
\* and a key that is a column also by its name.
GroupEnv(keys, calls) ==
  LET terms   == keys \o calls
      At(P(_)) == Max({i \in DOMAIN terms : P(terms[i])})
      columns == {k \in Range(keys) : k.op = "column"}
  IN [exprs   |-> [text \in {String(k) : k \in Range(terms)} |-> At(LAMBDA k : String(k) = text)],
      columns |-> [name \in {k.leaf[2] : k \in columns} |-> At(LAMBDA k : k = Column(name))]]

\* What a call comes to over a group of one row.  (AVG yields a FLOAT, and
\* there is none here.)
CallResult(call, env, row) ==
  LET v == Eval(call.args[1], env, row)
  IN CASE call.args = <<>> -> Integer(1)
       [] call.args # <<>> /\ call.op = "COUNT" -> IF v = Err THEN Err ELSE Integer(IF v = Null THEN 0 ELSE 1)
       [] call.op = "SUM" -> IF v[1] \in {"NULL", "INT"} THEN v ELSE Err
       [] call.op \in {"MIN", "MAX"} -> v

\* A broken variant, not part of the model: the right operand is not looked at.
CheckGroupedFirst(e, env) ==
  \/ Bound(e, env)
  \/ e.op = "column" /\ e.leaf[2] \in DOMAIN env.columns
  \/ e.op # "column" /\ \A i \in DOMAIN e.args : i > 1 \/ Bound(e.args[i], env) \/ IsLeaf(e.args[i])

RECURSIVE CheckGrouped(_, _)
CheckGrouped(e, env) ==
  \/ Bound(e, env)
  \/ e.op \in Aggregates
  \/ e.op = "column" /\ e.leaf[2] \in DOMAIN env.columns
  \/ e.op # "column" /\ \A i \in DOMAIN e.args : CheckGrouped(e.args[i], env)
=============================================================================
