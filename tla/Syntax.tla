------------------------------- MODULE Syntax -------------------------------
(***************************************************************************)
(* Expressions as text and as trees: how a tree is printed (ast/print.go,  *)
(* ast/ast.go), how a text is cut into tokens (lexer/lexer.go) and how the *)
(* tokens become a tree again (parser/parser.go).                          *)
(*                                                                         *)
(* The printed text is more than a display: a query that groups binds its  *)
(* expressions by it (plan/build.go).  A text is a sequence of symbols; a  *)
(* word or a number is one symbol, and so is every character of what can   *)
(* go wrong: the dash, the space, the quotes and the inside of a string.   *)
(***************************************************************************)
EXTENDS Integers, Sequences, SequencesExt

\* Values.  The content of a TEXT is a sequence of characters.
Null        == <<"NULL">>
Bool(truth) == <<"BOOL", truth>>
Integer(n)      == <<"INT", n>>
Text(chars) == <<"TEXT", chars>>

\* Trees: a leaf, or an operator over its arguments.  For the predicates that
\* can be negated, as in NOT IN, "not" says whether they are.
Literal(v)          == [op |-> "literal", not |-> FALSE, leaf |-> v, args |-> <<>>]
Column(name)        == [op |-> "column", not |-> FALSE, leaf |-> <<"NAME", name>>, args |-> <<>>]
Node(op, not, args) == [op |-> op, not |-> not, leaf |-> <<>>, args |-> args]

IsLeaf(e) == e.op \in {"literal", "column"}
NoTree    == Node("error", FALSE, <<>>)

\* Calls; COUNT(*) is the one without an argument.
Aggregates == {"COUNT", "SUM", "AVG", "MIN", "MAX"}

\* Inspect: a tree and everything below it.
RECURSIVE SubTrees(_)
SubTrees(e) == {e} \cup UNION {SubTrees(e.args[i]) : i \in DOMAIN e.args}

HasAggregate(e) == \E n \in SubTrees(e) : n.op \in Aggregates

-----------------------------------------------------------------------------
(***************************************************************************)
(* Precedence.                                                             *)
(***************************************************************************)
PrecLowest  == 0
PrecOr      == 1
PrecAnd     == 2
PrecNot     == 3
PrecCompare == 4
PrecAdd     == 5
PrecMul     == 6
PrecUnary   == 7
PrecAtom    == 8

Comparisons == {"=", "!=", "<", "<=", ">", ">="}
Postfixes   == {"IS NULL", "BETWEEN", "IN", "LIKE"}

BinaryPrecedence(op) ==
  CASE op = "OR"              -> PrecOr
    [] op = "AND"             -> PrecAnd
    [] op \in Comparisons     -> PrecCompare
    [] op \in {"+", "-"}      -> PrecAdd
    [] op \in {"*", "/", "%"} -> PrecMul
    [] OTHER                  -> PrecLowest

Precedence(e) ==
  CASE e.op = "NOT"        -> PrecNot
    [] e.op = "negate"     -> PrecUnary
    [] e.op \in Postfixes  -> PrecCompare
    [] IsLeaf(e) \/ e.op \in Aggregates -> PrecAtom
    [] OTHER               -> BinaryPrecedence(e.op)

\* A broken variant, not part of the model: both operands of a binary
\* operator in the same context.
ContextSameOnBothSides(e, i) ==
  CASE e.op = "NOT"       -> PrecNot
    [] e.op = "negate"    -> PrecUnary
    [] e.op = "BETWEEN"   -> IF i = 1 THEN PrecCompare ELSE PrecAdd
    [] e.op = "IN"        -> IF i = 1 THEN PrecCompare ELSE PrecLowest
    [] e.op \in Postfixes -> PrecCompare
    [] OTHER              -> BinaryPrecedence(e.op)

\* What an argument must bind at least as tightly as, to be printed bare.
Context(e, i) ==
  CASE e.op = "NOT"       -> PrecNot
    [] e.op = "negate"    -> PrecUnary
    [] e.op = "BETWEEN"   -> IF i = 1 THEN PrecCompare ELSE PrecAdd
    [] e.op = "IN"        -> IF i = 1 THEN PrecCompare ELSE PrecLowest
    [] e.op \in Postfixes -> PrecCompare
    [] OTHER              -> BinaryPrecedence(e.op) + (i - 1)

-----------------------------------------------------------------------------
(***************************************************************************)
(* Printing.                                                               *)
(***************************************************************************)
Numeral == [n \in {"0", "1", "2"} |-> CASE n = "0" -> 0 [] n = "1" -> 1 [] n = "2" -> 2]
Digits(n) == <<CHOOSE s \in DOMAIN Numeral : Numeral[s] = n>>

\* A TEXT in quotes, with some of its characters doubled.
Quoted(chars, doubled) ==
  LET Escaped(c) == IF c \in doubled THEN <<c, c>> ELSE <<c>>
  IN  <<"'">> \o FlattenSeq([i \in DOMAIN chars |-> Escaped(chars[i])]) \o <<"'">>

ValueSQL(v, doubled) ==
  CASE v[1] = "NULL" -> <<"NULL">>
    [] v[1] = "BOOL" -> IF v[2] THEN <<"true">> ELSE <<"false">>
    [] v[1] = "INT"  -> IF v[2] < 0 THEN <<"-">> \o Digits(-v[2]) ELSE Digits(v[2])
    [] v[1] = "TEXT" -> Quoted(v[2], doubled)

\* Parts of a text with a space between any two.
Phrase(parts) == FlattenSeq([i \in DOMAIN parts |-> IF i = 1 THEN parts[i] ELSE <<" ">> \o parts[i]])

Paren(text) == <<"(">> \o text \o <<")">>

\* The text of an operator over the texts of its arguments.
Layout(e, parts) ==
  LET not == IF e.not THEN << <<"NOT">> >> ELSE <<>>
      list == FlattenSeq([i \in 1 .. Len(parts) - 1 |->
                            IF i = 1 THEN parts[2] ELSE <<",", " ">> \o parts[i + 1]])
  IN CASE e.op = "NOT"     -> Phrase(<< <<"NOT">>, parts[1] >>)
       [] e.op = "negate"  -> <<"-">> \o parts[1]
       [] e.op = "IS NULL" -> Phrase(<<parts[1], <<"IS">> >> \o not \o << <<"NULL">> >>)
       [] e.op = "BETWEEN" -> Phrase(<<parts[1]>> \o not \o <<<<"BETWEEN">>, parts[2], <<"AND">>, parts[3]>>)
       [] e.op = "IN"      -> Phrase(<<parts[1]>> \o not \o << <<"IN">>, Paren(list) >>)
       [] e.op = "LIKE"    -> Phrase(<<parts[1]>> \o not \o << <<"LIKE">>, parts[2] >>)
       [] e.op \in Aggregates -> <<e.op>> \o Paren(IF parts = <<>> THEN <<"*">> ELSE parts[1])
       [] OTHER            -> Phrase(<<parts[1], <<e.op>>, parts[2]>>)

\* Expr.String: parentheses only where sub finds that they are needed.
\* Value.SQL doubles the quotes of a TEXT and nothing else, and quoteIdent
\* quotes no name that is made of lower-case letters.
RECURSIVE String(_)
String(e) ==
  CASE e.op = "literal" -> ValueSQL(e.leaf, {"'"})
    [] e.op = "column"  -> <<e.leaf[2]>>
    [] OTHER -> Layout(e, [i \in DOMAIN e.args |->
                             IF Precedence(e.args[i]) < Context(e, i)
                             THEN Paren(String(e.args[i])) ELSE String(e.args[i])])

\* A text by which a client means the tree, and nothing else: everything in
\* parentheses, names quoted, and backslashes doubled as the lexer wants it.
RECURSIVE Written(_)
Written(e) ==
  CASE e.op = "literal" -> ValueSQL(e.leaf, {"'", "\\"})
    [] e.op = "column"  -> <<"\"", e.leaf[2], "\"">>
    [] OTHER -> Layout(e, [i \in DOMAIN e.args |->
                             IF IsLeaf(e.args[i]) THEN Written(e.args[i]) ELSE Paren(Written(e.args[i]))])

-----------------------------------------------------------------------------
(***************************************************************************)
(* Tokens.                                                                 *)
(***************************************************************************)
Token(kind, text) == [kind |-> kind, text |-> text]

Keywords  == {"AND", "BETWEEN", "FALSE", "IN", "IS", "LIKE", "NOT", "NULL", "OR", "TRUE"}
Uppercase(word) == CASE word = "true" -> "TRUE" [] word = "false" -> "FALSE" [] OTHER -> word
Puncts    == Comparisons \cup {"+", "-", "*", "/", "%", "(", ")", ","}

\* The characters that "\" and c stand for in a string.
Unescaped(c) == CASE c = "n"            -> <<"LF">>
                  [] c \in {"\\", "'"}  -> <<c>>
                  [] OTHER              -> <<"\\", c>>

\* lexString, behind the opening quote: the characters and where they end,
\* or 0 if they do not.
RECURSIVE LexString(_, _, _)
LexString(s, i, chars) ==
  CASE i > Len(s)                                  -> [chars |-> chars, at |-> 0]
    [] s[i] = "'" /\ i < Len(s) /\ s[i + 1] = "'"  -> LexString(s, i + 2, Append(chars, "'"))
    [] s[i] = "'" /\ ~(i < Len(s) /\ s[i + 1] = "'") -> [chars |-> chars, at |-> i + 1]
    [] s[i] = "\\" /\ i = Len(s)                   -> [chars |-> chars, at |-> 0]
    [] s[i] = "\\" /\ i < Len(s)                   -> LexString(s, i + 2, chars \o Unescaped(s[i + 1]))
    [] s[i] \notin {"'", "\\"}                     -> LexString(s, i + 1, Append(chars, s[i]))

\* Where a comment that starts at i ends: at the end of its line.
EndOfLine(s, i) == LET ends == {j \in i .. Len(s) : s[j] = "LF"} \cup {Len(s) + 1}
                   IN  CHOOSE j \in ends : \A k \in ends : j <= k

RECURSIVE Lex(_, _)
Lex(s, i) ==
  IF i > Len(s) THEN <<Token("eof", "")>>
  ELSE LET c      == s[i]
           string == LexString(s, i + 1, <<>>)
           Then(token, at) == <<token>> \o Lex(s, at)
       IN IF c \in {" ", "LF"} THEN Lex(s, i + 1)
          ELSE IF c = "-" /\ i < Len(s) /\ s[i + 1] = "-" THEN Lex(s, EndOfLine(s, i))
          ELSE IF c = "'" THEN IF string.at = 0 THEN <<Token("error", "")>>
                               ELSE Then(Token("string", string.chars), string.at)
          ELSE IF c = "\"" THEN Then(Token("ident", s[i + 1]), i + 3)
          ELSE IF c \in Puncts THEN Then(Token("punct", c), i + 1)
          ELSE IF c \in DOMAIN Numeral THEN Then(Token("int", c), i + 1)
          ELSE IF Uppercase(c) \in Keywords THEN Then(Token("keyword", Uppercase(c)), i + 1)
          ELSE Then(Token("ident", c), i + 1)

-----------------------------------------------------------------------------
(***************************************************************************)
(* Parsing.  Each operator is given the tokens and a position, and returns *)
(* a tree and the position behind it, or fails.                            *)
(***************************************************************************)
Got(e, at)   == [e |-> e, at |-> at]
Fail         == Got(NoTree, 0)
With(r, F(_)) == IF r.at = 0 THEN Fail ELSE F(r)

Is(token, words) == token.kind \in {"keyword", "punct"} /\ token.text \in words

\* A broken variant, not part of the model: a sign stays in front.
SignedApart(e) == Node("negate", FALSE, <<e>>)

\* A sign goes into a number.
Signed(e) == IF e.op = "literal" /\ e.leaf[1] = "INT" THEN Literal(Integer(-e.leaf[2]))
             ELSE Node("negate", FALSE, <<e>>)

RECURSIVE Expr(_, _, _), Climb(_, _, _, _), Postfix(_, _, _), List(_, _, _), Unary(_, _), Primary(_, _)

\* Parser.expr: a prefix expression, then every operator that binds at least
\* as tightly as min.
Expr(t, i, min) == With(Unary(t, i), LAMBDA u : Climb(t, u.e, u.at, min))

Climb(t, left, i, min) ==
  LET op   == t[i].text
      prec == IF t[i].kind \in {"punct", "keyword"} THEN BinaryPrecedence(op) ELSE PrecLowest
  IN IF PrecCompare >= min /\ Is(t[i], {"NOT", "IS", "BETWEEN", "IN", "LIKE"})
     THEN With(Postfix(t, left, i), LAMBDA p : Climb(t, p.e, p.at, min))
     ELSE IF prec = PrecLowest \/ prec < min THEN Got(left, i)
     ELSE With(Expr(t, i + 1, prec + 1), LAMBDA r : Climb(t, Node(op, FALSE, <<left, r.e>>), r.at, min))

\* A broken variant, not part of the model: bounds that take the AND.
BoundPrecLoose == PrecAnd

\* The bounds of BETWEEN bind tighter than the AND between them.
BoundPrec == PrecAdd

\* A NOT in front of a name in quotes that reads BETWEEN, IN or LIKE is passed
\* over and the name left where it is, which nothing in an expression goes on
\* with; so it fails here as well.
Postfix(t, left, i) ==
  LET not == Is(t[i], {"NOT"})
      k   == IF not THEN i + 1 ELSE i
      n   == IF Is(t[k + 1], {"NOT"}) THEN k + 2 ELSE k + 1   \* behind IS or IS NOT
  IN CASE Is(t[k], {"IS"}) /\ ~not ->
            IF Is(t[n], {"NULL"}) THEN Got(Node("IS NULL", n = k + 2, <<left>>), n + 1) ELSE Fail
       [] Is(t[k], {"BETWEEN"}) ->
            With(Expr(t, k + 1, BoundPrec), LAMBDA lo :
              IF ~Is(t[lo.at], {"AND"}) THEN Fail
              ELSE With(Expr(t, lo.at + 1, BoundPrec), LAMBDA hi :
                     Got(Node("BETWEEN", not, <<left, lo.e, hi.e>>), hi.at)))
       [] Is(t[k], {"IN"}) /\ Is(t[k + 1], {"("}) ->
            With(List(t, k + 2, <<left>>), LAMBDA r : Got(Node("IN", not, r.e), r.at))
       [] Is(t[k], {"LIKE"}) ->
            With(Expr(t, k + 1, PrecCompare + 1), LAMBDA r : Got(Node("LIKE", not, <<left, r.e>>), r.at))
       [] OTHER -> Fail

\* The rest of the list of an IN, behind the items seen so far.
List(t, i, items) ==
  With(Expr(t, i, PrecLowest), LAMBDA r :
    CASE Is(t[r.at], {","}) -> List(t, r.at + 1, Append(items, r.e))
      [] Is(t[r.at], {")"}) -> Got(Append(items, r.e), r.at + 1)
      [] OTHER              -> Fail)

Unary(t, i) ==
  CASE Is(t[i], {"NOT"}) ->
         With(Expr(t, i + 1, PrecNot + 1), LAMBDA r : Got(Node("NOT", FALSE, <<r.e>>), r.at))
    [] Is(t[i], {"-"})   -> With(Unary(t, i + 1), LAMBDA r : Got(Signed(r.e), r.at))
    [] Is(t[i], {"+"})   -> Unary(t, i + 1)
    [] OTHER             -> Primary(t, i)

\* Calls do not nest, and only COUNT takes a star.
FuncCall(t, i) ==
  IF t[i].text \notin Aggregates THEN Fail
  ELSE IF Is(t[i + 2], {"*"})
       THEN IF t[i].text = "COUNT" /\ Is(t[i + 3], {")"}) THEN Got(Node("COUNT", FALSE, <<>>), i + 4) ELSE Fail
       ELSE With(Expr(t, i + 2, PrecLowest), LAMBDA r :
              IF HasAggregate(r.e) \/ ~Is(t[r.at], {")"}) THEN Fail
              ELSE Got(Node(t[i].text, FALSE, <<r.e>>), r.at + 1))

Primary(t, i) ==
  CASE t[i].kind = "int"      -> Got(Literal(Integer(Numeral[t[i].text])), i + 1)
    [] t[i].kind = "string"   -> Got(Literal(Text(t[i].text)), i + 1)
    [] t[i].kind = "ident"    -> IF Is(t[i + 1], {"("}) THEN FuncCall(t, i) ELSE Got(Column(t[i].text), i + 1)
    [] Is(t[i], {"NULL"})     -> Got(Literal(Null), i + 1)
    [] Is(t[i], {"TRUE"})     -> Got(Literal(Bool(TRUE)), i + 1)
    [] Is(t[i], {"FALSE"})    -> Got(Literal(Bool(FALSE)), i + 1)
    [] Is(t[i], {"("})        ->
         With(Expr(t, i + 1, PrecLowest), LAMBDA r : IF Is(t[r.at], {")"}) THEN Got(r.e, r.at + 1) ELSE Fail)
    [] OTHER                  -> Fail

\* ParseExpr: the whole text, or nothing.
Parse(s) ==
  LET t == Lex(s, 1)
      r == Expr(t, 1, PrecLowest)
  IN  IF r.at # 0 /\ t[r.at].kind = "eof" THEN r.e ELSE NoTree
=============================================================================
