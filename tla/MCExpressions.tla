--------------------------- MODULE MCExpressions ---------------------------
(***************************************************************************)
(* Instance of Expressions for TLC: a table with an INT column and a BOOL  *)
(* column that has a keyword for its name; every expression of one         *)
(* operator, those of two over a few of them, and LIKE on short texts.     *)
(***************************************************************************)
EXTENDS Expressions

a    == Column("a")
flag == Column("true")
one  == Literal(Integer(1))

TwoColumns == <<"a", "true">>
AllRows    == {<<x, y>> : x \in {Null, Integer(0), Integer(1)}, y \in {Null, Bool(TRUE), Bool(FALSE)}}

Texts  == {<<"x", "'">>, <<"\\", "n">>, <<"\\">>, <<"\\", "x">>}
Leaves == {a, flag, one, Literal(Integer(-1)), Literal(Null), Literal(Bool(TRUE))}
          \cup {Literal(Text(t)) : t \in Texts}
Few    == {a, flag, one, Literal(Null)}

BinaryOps == {"AND", "OR", "=", "<", "<=", "+", "-", "*", "/", "%"}

Unaries(S)  == {Node(op, FALSE, <<x>>) : op \in {"NOT", "negate"}, x \in S} \cup
               {Node("IS NULL", not, <<x>>) : not \in BOOLEAN, x \in S}
Binaries(S, T)   == {Binary(op, x, y) : op \in BinaryOps, x \in S, y \in T} \cup
                    {Node("LIKE", not, <<x, y>>) : not \in BOOLEAN, x \in S, y \in T}
Ternaries(S, T, U) == {Node(op, not, <<x, y, z>>) : op \in {"BETWEEN", "IN"}, not \in BOOLEAN,
                                                    x \in S, y \in T, z \in U}

\* A number takes its sign, so there is no other minus before one.
Parseable(S) == {e \in S : e.op = "negate" => ~IsNumber(e.args[1])}

Simple == Parseable(Unaries(Leaves) \cup Binaries(Leaves, Leaves) \cup Ternaries(Few, Few, Few))

\* One of each operator, of a kind that its parents can use.
Parts == {Node("NOT", FALSE, <<flag>>), Node("negate", FALSE, <<a>>),
          Node("IS NULL", FALSE, <<a>>), Node("IS NULL", TRUE, <<flag>>),
          Binary("AND", flag, Literal(Bool(TRUE))), Binary("OR", flag, Literal(Null)),
          Binary("=", a, one), Binary("<", one, a), Binary("-", a, one), Binary("+", a, a),
          Binary("*", a, a), Binary("/", one, a), Binary("%", a, one),
          Node("BETWEEN", FALSE, <<a, one, one>>), Node("BETWEEN", TRUE, <<a, a, one>>),
          Node("IN", FALSE, <<a, one, Literal(Null)>>), Node("IN", TRUE, <<a, one, Literal(Null)>>),
          Node("LIKE", FALSE, <<Literal(Text(<<"x", "'">>)), Literal(Text(<<"x", "_">>))>>)}

Compound == Parseable(Unaries(Parts) \cup Binaries(Parts, {a, flag}) \cup Binaries({a, flag}, Parts)
                      \cup Binaries(Parts, Parts)
                      \cup Ternaries(Parts, {a}, {a}) \cup Ternaries({a}, Parts, {a}) \cup Ternaries({a}, {a}, Parts))

\* Every text against every pattern.
Chars(S, n) == UNION {[1 .. m -> S] : m \in 0 .. n}
Likes == {Node("LIKE", FALSE, <<Literal(Text(s)), Literal(Text(p))>>) :
            s \in Chars({"x", "n", "%"}, 3), p \in Chars({"x", "n", "_", "%"}, 3)}

\* Calls: two print alike, one fails on every row that has a flag.
Calls == {Node("COUNT", FALSE, <<>>), Node("COUNT", FALSE, <<a>>), Node("MIN", FALSE, <<a>>),
          Node("MAX", FALSE, <<flag>>), Node("MAX", FALSE, <<Literal(Bool(TRUE))>>),
          Node("SUM", FALSE, <<Binary("-", a, one)>>), Node("SUM", FALSE, <<flag>>)}

WithCalls == Calls \cup Unaries(Calls) \cup Ternaries({a}, {Node("MIN", FALSE, <<a>>)}, {one})
             \cup {Binary(op, x, y) : op \in {"OR", "=", "-"}, x \in Calls, y \in {a, flag}}
             \cup {Binary("=", x, y) : x \in Calls, y \in Calls}

SomeClauses == Simple \cup Compound \cup Likes \cup WithCalls

\* Above a GROUP BY: expressions of two operators, and those a keyword is in.
SomeGrouped == Parseable(Unaries(Few) \cup Unaries(Parts) \cup Binaries(Few, Few \cup {Literal(Bool(TRUE))})
                         \cup {Binary(op, x, y) : op \in {"AND", "=", "-"}, x \in Parts, y \in {a, flag}}
                         \cup {Binary("OR", flag, y) : y \in Parts})
               \cup WithCalls
=============================================================================
