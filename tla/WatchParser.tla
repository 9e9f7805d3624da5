---------------------------- MODULE WatchParser -----------------------------
(* The parser of watch expressions, on sequences of tokens the user types one *)
(* after the other.  An input is continued for as long as the parser could    *)
(* still accept it: its error, if any, is the missing rest.  A grammar rule   *)
(* is a plan, the sequence of items to parse next.  Names, literals, and the  *)
(* operators of one precedence are represented by one token each.             *)
EXTENDS Integers, Sequences

CONSTANT Vocabularies    \* <<set of tokens, bound on the length of an input>>

VARIABLES vocabulary, toks

parserVars == <<vocabulary, toks>>

Idents   == {"x", "'x'", "as", "struct", "continue", "break", "return", "while", "for",
             "in", "loop", "if", "else", "let", "fn", "type"}
Keywords == {"struct", "continue", "break", "return", "while", "for", "loop", "if", "let", "fn"}

\* Precedence, and binary_operator_precedence.
Weakest == 0
Return == 1
TypeCast == 14
Unary == 15
CallOrIndex == 16
Field == 17
Strongest == 18
BinaryOps == {",", "=", "..", "||", "&&", "==", "|", "^", "&", "<<", "-", "*"}
BinaryOperatorPrecedence(op) ==
    CASE op = ","  -> 2  [] op = "="  -> 3  [] op = ".." -> 4  [] op = "||" -> 5
      [] op = "&&" -> 6  [] op = "==" -> 7  [] op = "|"  -> 8  [] op = "^"  -> 9
      [] op = "&"  -> 10 [] op = "<<" -> 11 [] op = "-"  -> 12 [] op = "*"  -> 13
Comma == BinaryOperatorPrecedence(",")

\* The items of a plan.
Tok(t)         == [k |-> "tok", t |-> t]                \* expect this token
Ident          == [k |-> "ident"]
Expr(prec)     == [k |-> "expr", prec |-> prec]         \* parse_expression
Type           == [k |-> "type"]                        \* parse_type
Block          == [k |-> "block"]                       \* parse_block
Opt(t, items)  == [k |-> "opt", t |-> t, items |-> items]
List(close, items, sep) == [k |-> "list", close |-> close, items |-> items, sep |-> sep]
Postfix(node, prec) == [k |-> "postfix", node |-> node, prec |-> prec]
Else           == [k |-> "else"]
Value          == [k |-> "value"]                       \* what follows "return"

Node(a, op, kids, from, to) ==
    [a |-> a, op |-> op, kids |-> kids, from |-> from, to |-> to, parens |-> FALSE]
Done(p, kids) == [ok |-> TRUE, p |-> p, kids |-> kids]
Fail(p)       == [ok |-> FALSE, p |-> p, kids |-> <<>>]

At(ts, p) == IF p > Len(ts) THEN "eof" ELSE ts[p]

\* The rules that start with a keyword, and the first token of a struct's.
KeywordPlan(t, next) ==
    CASE t = "struct" -> IF next = "{" THEN <<Tok("{"), List("}", <<Ident, Tok(":"), Expr(Comma)>>, ",")>>
                         ELSE <<Ident, Tok("{"), List("}", <<Ident, Tok(":"), Type>>, ",")>>
      [] t = "return" -> <<Value>>
      [] t = "while"  -> <<Expr(Weakest), Block>>
      [] t = "for"    -> <<Ident, Tok("in"), Expr(Weakest), Block>>
      [] t = "loop"   -> <<Block>>
      [] t = "if"     -> <<Expr(Weakest), Block, Opt("else", <<Else>>)>>
      [] t = "let"    -> <<Ident, Opt(":", <<Type>>), Opt("=", <<Expr(Weakest)>>)>>
      [] t = "fn"     -> <<Ident, Tok("("), List(")", <<Ident, Tok(":"), Type>>, ""),
                           Opt("->", <<Type>>), Block>>
      [] OTHER        -> <<>>

\* Mutant: an operator of the same precedence is left to the right operand.
MutantBinds(outer, prec) == outer > prec

\* Left to right associativity.
Binds(outer, prec) == outer >= prec

\* A '^' at p before what r has parsed: the variable may be one of any frame.
AnyFrame(r, p) ==
    IF ~r.ok THEN r
    ELSE IF r.kids[1].a # "variable" THEN Fail(p)
    ELSE Done(r.p, <<[r.kids[1] EXCEPT !.a = "any frame", !.from = p]>>)

\* Carries out a plan from token p on; kids are the nodes parsed so far.
RECURSIVE Parse(_, _, _, _)
Parse(ts, items, p, kids) ==
    IF items = <<>> THEN Done(p, kids) ELSE
    LET item == Head(items)
        t    == At(ts, p)
        Continue(r) == IF r.ok THEN Parse(ts, Tail(items), r.p, kids \o r.kids) ELSE r
        Do(plan, q) == Parse(ts, plan, q, <<>>)
        \* A node of the tokens from..the last one of r, with the operands of before and r.
        Made(a, op, before, from, r) ==
            IF ~r.ok THEN r ELSE Done(r.p, <<Node(a, op, before \o r.kids, from, r.p - 1)>>)
    IN
    CASE item.k = "tok" -> IF t = item.t THEN Continue(Done(p + 1, <<>>)) ELSE Fail(p)
      [] item.k = "ident" -> IF t \in Idents THEN Continue(Done(p + 1, <<>>)) ELSE Fail(p)
      [] item.k = "opt" -> IF t = item.t THEN Continue(Do(item.items, p + 1)) ELSE Continue(Done(p, <<>>))
      [] item.k = "else" -> Continue(Do(IF t = "if" THEN <<Expr(Strongest)>> ELSE <<Block>>, p))
      [] item.k = "value" -> IF t \in {"eof", ";", ",", "}", ")"} THEN Continue(Done(p, <<>>))
                             ELSE Continue(Do(<<Expr(Return)>>, p))
      [] item.k = "list" ->
            IF t = item.close THEN Continue(Done(p + 1, <<>>)) ELSE
            LET r == Do(item.items, p) IN
            IF ~r.ok THEN r
            ELSE IF item.sep = "" \/ At(ts, r.p) = item.close THEN Parse(ts, items, r.p, kids \o r.kids)
            ELSE IF At(ts, r.p) = item.sep THEN Parse(ts, items, r.p + 1, kids \o r.kids)
            ELSE Fail(r.p)
      [] item.k = "block" ->
            IF t # "{" THEN Fail(p) ELSE
            LET r == Do(<<List("}", <<Expr(Weakest)>>, ";")>>, p + 1)
                unit == IF At(ts, r.p - 2) \in {"{", ";"}        \* "{}" or ";}"
                        THEN <<Node("tuple", "", <<>>, r.p - 1, r.p - 1)>> ELSE <<>>
            IN  IF ~r.ok THEN r ELSE Continue(Made("block", "", <<>>, p, Done(r.p, r.kids \o unit)))
      [] item.k = "type" ->
            IF t = "*" THEN Continue(Made("pointer type", "", <<>>, p, Do(<<Type>>, p + 1)))
            ELSE IF t \in Idents THEN Continue(Done(p + 1, <<Node("type name", t, <<>>, p, p)>>))
            ELSE IF t = "[" THEN Continue(Made("array type", "", <<>>, p,
                                               Do(<<Type, Opt(";", <<Tok("1")>>), Tok("]")>>, p + 1)))
            ELSE Fail(p)
      [] item.k = "expr" ->
            LET first ==
                  IF t = "1" THEN Done(p + 1, <<Node("literal", t, <<>>, p, p)>>)
                  ELSE IF t \in Keywords
                       THEN Made(t, "", <<>>, p, Do(KeywordPlan(t, At(ts, p + 1)), p + 1))
                  ELSE IF t \in Idents THEN Done(p + 1, <<Node("variable", t, <<>>, p, p)>>)
                  ELSE IF t = "^"
                       THEN AnyFrame(Do(<<Expr(Strongest)>>, p + 1), p)
                  ELSE IF t \in {"-", "*", "&", "!"}
                       THEN Made("unary", t, <<>>, p, Do(<<Expr(Unary)>>, p + 1))
                  ELSE IF t = "{" THEN Do(<<Block>>, p + 1)         \* a second '{' is expected
                  ELSE IF t = "("
                       THEN LET r == Do(<<Expr(Weakest), Tok(")")>>, p + 1)
                            IN  IF ~r.ok THEN r
                                ELSE Done(r.p, <<[r.kids[1] EXCEPT !.from = p, !.to = r.p - 1,
                                                                   !.parens = TRUE]>>)
                  ELSE IF t = "[" THEN Made("array", "", <<>>, p,
                                            Do(<<List("]", <<Expr(Comma)>>, ",")>>, p + 1))
                  ELSE Fail(p)
            IN  IF ~first.ok THEN first
                ELSE Continue(Do(<<Postfix(first.kids[1], item.prec)>>, first.p))
      [] item.k = "postfix" ->
            LET n == item.node
                Next(r) == IF r.ok THEN Do(<<Postfix(r.kids[1], item.prec)>>, r.p) ELSE r
                More(a, op, prec, plan, q) ==
                    IF Binds(item.prec, prec) THEN Done(p, <<n>>)
                    ELSE Next(Made(a, op, <<n>>, n.from, Do(plan, q)))
            IN  IF t \in BinaryOps
                THEN More("binary", t, BinaryOperatorPrecedence(t), <<Expr(BinaryOperatorPrecedence(t))>>, p + 1)
                ELSE IF t = "("
                THEN IF Binds(item.prec, CallOrIndex) THEN Done(p, <<n>>)
                     ELSE IF n.a # "variable" \/ n.op = "'x'" THEN Fail(p)
                     ELSE LET r == Do(IF n.op = "type" THEN <<Type, Tok(")")>>
                                      ELSE <<List(")", <<Expr(Comma)>>, ",")>>, p + 1)
                          IN  IF ~r.ok THEN r
                              ELSE Next(Done(r.p, <<[n EXCEPT !.a = IF n.op = "type" THEN "type info" ELSE "call",
                                                              !.kids = r.kids, !.to = r.p - 1]>>))
                ELSE IF t = "[" THEN More("index", "", CallOrIndex, <<Expr(Weakest), Tok("]")>>, p + 1)
                ELSE IF t = "."
                THEN IF At(ts, p + 1) = "[" THEN More("slicify", "", Field, <<Expr(Weakest), Tok("]")>>, p + 2)
                     ELSE IF At(ts, p + 1) = "1" THEN More("tuple indexing", "1", Field, <<>>, p + 2)
                     ELSE More("field", At(ts, p + 1), Field, <<Ident>>, p + 1)
                ELSE IF t = "as" THEN More("cast", "", TypeCast, <<Type>>, p + 1)
                ELSE Done(p, <<n>>)

ParseWatchExpression(ts) ==
    LET r == Parse(ts, <<Expr(Weakest)>>, 1, <<>>)
    IN  IF r.ok /\ r.p <= Len(ts) THEN Fail(r.p) ELSE r

\* Mutant: "*p" is taken for a term.
MutantNeedsParens(n) == ~n.parens /\ n.a \in {"binary", "cast", "while", "for", "loop", "if", "let", "fn"}

\* Whether something appended to the text would not apply to the whole of it.
NeedsParens(n) ==
    /\ ~n.parens
    /\ \/ n.a \in {"unary", "binary", "cast", "while", "for", "loop", "if", "let", "fn"}
       \/ n.a = "struct" /\ \E i \in 1..Len(n.kids) : n.kids[i].a \in {"pointer type", "type name", "array type"}

\* adjust_expression_for_appending_child_path, and the part of the expression that it stands for.
AssignsVariable(n) == n.a = "binary" /\ n.op = "=" /\ n.kids[1].a = "variable" /\ n.kids[1].op # "'x'"
AdjustForAppending(ts, root) ==
    IF AssignsVariable(root) THEN <<root.kids[1].op>>
    ELSE IF (root.a = "binary" /\ root.op = "=") \/ NeedsParens(root) THEN <<"(">> \o ts \o <<")">>
    ELSE ts

\* The user types another token.
Type1 ==
    /\ Len(toks) < vocabulary[2]
    /\ \E t \in vocabulary[1] : toks' = Append(toks, t)
    /\ LET r == ParseWatchExpression(toks') IN r.ok \/ r.p > Len(toks')
    /\ UNCHANGED vocabulary

Init == vocabulary \in Vocabularies /\ toks = <<>>
ParserNext == Type1
-----------------------------------------------------------------------------
(* Properties.                                                                *)

\* What the precedences say, for one node: how tightly it holds together.
Level(n) ==
    CASE n.parens -> Strongest
      [] n.a = "binary" -> BinaryOperatorPrecedence(n.op)
      [] n.a = "unary"  -> Unary
      [] n.a = "cast"   -> TypeCast
      [] n.a \in {"call", "type info", "index", "field", "slicify", "tuple indexing"} -> CallOrIndex
      [] OTHER -> Strongest
Open(n) == n.a \in {"return", "let"} /\ ~n.parens     \* takes all that follows

RECURSIVE Good(_)
Good(n) ==
    /\ \A i \in 1..Len(n.kids) :
          /\ Good(n.kids[i])
          /\ n.from <= n.kids[i].from /\ n.kids[i].to <= n.to
          /\ i > 1 => n.kids[i - 1].to < n.kids[i].from
    /\ n.a = "binary" =>
          LET prec == BinaryOperatorPrecedence(n.op) IN
          /\ Level(n.kids[1]) >= prec
          /\ Level(n.kids[2]) > prec \/ Open(n.kids[2])
    /\ n.a = "unary" => Level(n.kids[1]) >= Unary \/ Open(n.kids[1])
    /\ n.a = "cast"  => Level(n.kids[1]) >= TypeCast
    /\ n.a \in {"index", "field", "slicify", "tuple indexing"} =>
          Level(n.kids[1]) >= CallOrIndex \/ n.kids[1].a = "cast"    \* a type ends by itself

\* What is evaluated: the tree without the text.
RECURSIVE Meaning(_)
Meaning(n) == <<n.a, n.op, [i \in 1..Len(n.kids) |-> Meaning(n.kids[i])]>>

\* The tree of an expression that the parser accepts covers the whole text, and
\* each node lies within its parent, after its elder siblings (the assertions at
\* the end of parse_watch_expression); operators group by precedence and from
\* left to right; and a path appended to the adjusted text applies to the whole
\* expression, or to the variable that it assigns.  Left out: expressions that
\* start with a block, for which the parser wants a second brace, and a return
\* at the top level.
ParserRight ==
    LET r == ParseWatchExpression(toks)
        root == r.kids[1]
    IN  r.ok /\ toks[1] # "{" =>
          /\ root.from = 1 /\ root.to = Len(toks)
          /\ Good(root)
          /\ root.a # "return" =>
               LET child == ParseWatchExpression(AdjustForAppending(toks, root) \o <<".", "x">>)
               IN  /\ child.ok
                   /\ child.kids[1].a = "field"
                   /\ Meaning(child.kids[1].kids[1]) =
                          Meaning(IF AssignsVariable(root) THEN root.kids[1] ELSE root)
=============================================================================
