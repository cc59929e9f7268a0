---------------------------- MODULE Expressions -----------------------------
(***************************************************************************)
(* How parser_expr.c reads expressions: binding powers of operators, calls *)
(* with and without parentheses, and which call a do block belongs to.     *)
(*                                                                         *)
(* A token is its kind.  Where the code compares columns there are two     *)
(* tokens: " (", " [" and " -" come after a space (and a " -" touches what *)
(* follows).  do stands for a whole do block and {} for one in braces, f   *)
(* and x for identifiers, 1 for the literals, EOF for the end.             *)
(***************************************************************************)
EXTENDS Integers, SequencesExt, Calls

\* A parser: the tokens, and what each function reads from each position, with the
\* binding power, depth and commas it is called with.
Tok(p, i) == IF i \in DOMAIN p.tokens THEN p.tokens[i] ELSE "EOF"
Expr(p, i, min, depth, commas) == p.parse["expr", i, min, depth, commas]
Following(p, i, min, depth, commas) == p.parse["rest", i, min, depth, commas]
Statement(p, i, depth, commas) == p.parse["statement", i, 0, depth, commas]
Arg(p, i, depth, commas) == p.parse["arg", i, 0, depth, commas]

IsIdent(t) == t \in {"f", "x", "m"}

\* A node: its kind, its name, its children, and whether it has a block.
Node(k, v, c) == [k |-> k, v |-> v, c |-> c, b |-> FALSE]
WithBlock(n) == [n EXCEPT !.b = TRUE]
Absent == Node("none", "", <<>>)

\* What a parsing function gives: the node and the position of the next token.
Got(n, i) == [ok |-> TRUE, n |-> n, i |-> i]
NotParsed == [ok |-> FALSE, n |-> Absent, i |-> 0]

\* Go on with the rest, unless the parse has failed.
Then(r, rest(_)) == IF r.ok THEN rest(r) ELSE NotParsed

\* expect
Expect(t, p, r) == IF r.ok /\ Tok(p, r.i) = t THEN Got(r.n, r.i + 1) ELSE NotParsed

\* infix_bp, left and right, where + binds to the right.
InfixBpRight(t) == IF t \in {"+", "-", " -"} THEN <<26, 26>> ELSE <<0, 0>>

\* infix_bp
InfixBp(t) ==
    CASE t = "or" -> <<2, 3>>
      [] t = "and" -> <<4, 5>>
      [] t \in {"=", "+="} -> <<6, 6>>
      [] t = "?" -> <<8, 7>>
      [] t = ".." -> <<8, 9>>
      [] t = "||" -> <<10, 11>>
      [] t = "&&" -> <<12, 13>>
      [] t = "==" -> <<14, 15>>
      [] t \in {"<", "<=>"} -> <<16, 17>>
      [] t = "|" -> <<18, 19>>
      [] t = "^" -> <<20, 21>>
      [] t = "&" -> <<22, 23>>
      [] t = "<<" -> <<24, 25>>
      [] t \in {"+", "-", " -"} -> <<26, 27>>
      [] t \in {"*", "/"} -> <<28, 29>>
      [] t = "**" -> <<32, 31>>
      [] t = "." -> <<40, 41>>
      [] t \in {"[", " ["} -> <<42, 43>>
      [] OTHER -> <<0, 0>>

\* prefix_bp
PrefixBp(t) == CASE t = "not" -> 6 [] t \in {"!", "-", " -"} -> 30 [] t = "*" -> 2 [] OTHER -> 0

\* The name an operator has in the tree (token_kind_name).
Symbol(t) == IF t = " -" THEN "-" ELSE t

\* range_rhs_omitted
RhsOmitted(t) == t \in {")", "]", ",", "EOF", "do", "if"}

\* token_can_start_expr, unary_prefix_arg and the can_be_arg of a name: the next
\* token begins an argument of a call without parentheses.
StartsExpr(t) == IsIdent(t) \/ t \in {"1", "(", " (", "[", " [", "{}", "-", " -", "!"}
CanBeArg(p, i) ==
    \/ Tok(p, i) \in {" (", " [", "1", "!"} \/ IsIdent(Tok(p, i))
    \/ Tok(p, i) = " -" /\ StartsExpr(Tok(p, i + 1))

-----------------------------------------------------------------------------
(***************************************************************************)
(* depth is command_arg_depth, commas is allow_command_arg_commas: may a   *)
(* call without parentheses take a second argument?  Both are put back on  *)
(* the way out, so that they are parameters here.                          *)
(***************************************************************************)
\* What follows an operand is read without it and put around it: `by` is a node that
\* lacks its first child.  The attributes x.m and the elements x[1] that are
\* assigned to become calls of m= and []=.
Attribute(n) == n.k = "call" /\ n.v = ".m" /\ Len(n.c) = 1
Around(left, by) ==
    IF by.k = "assign" /\ left.k = "call" /\ left.v = "[]" THEN [left EXCEPT !.v = "[]=", !.c = @ \o by.c]
    ELSE IF by.k = "assign" /\ Attribute(left) THEN [left EXCEPT !.v = ".m=", !.c = @ \o by.c]
    ELSE [by EXCEPT !.c = <<left>> \o @]
Followed(left, rest) == Got(FoldLeft(Around, left, rest.n.c), rest.i)

\* attach_pending_do_block
AttachPending(p, r, depth, commas) ==
    IF r.ok /\ Tok(p, r.i) = "do" /\ r.n.k = "call" /\ ~r.n.b
    THEN Then(Following(p, r.i + 1, 0, depth, commas), LAMBDA rest : Followed(WithBlock(r.n), rest)) ELSE r

\* parse_arg_expr; a name before a colon is the key of a hash.
ArgExpr(p, i, depth) ==
    IF Tok(p, i) = "**"
    THEN Then(Expr(p, i + 1, 0, depth, FALSE), LAMBDA r : Got(Node("unop", "**", <<r.n>>), r.i))
    ELSE Then(Expr(p, i, 0, depth + 1, FALSE),
              LAMBDA a : IF a.n.k = "lvar" /\ Tok(p, a.i) = ":"
                         THEN Then(Expr(p, a.i + 1, 0, depth, FALSE),
                                   LAMBDA v : Got(Node("hash", a.n.v, <<v.n>>), v.i))
                         ELSE a)

\* One argument of either kind of list; a splat takes its own block.
Argument(p, i, depth, commas) ==
    IF Tok(p, i) = "&"
    THEN Then(Expr(p, i + 1, 0, depth, commas), LAMBDA r : Got(Node("pass", "", <<r.n>>), r.i))
    ELSE IF Tok(p, i) = "*"
    THEN Then(AttachPending(p, Expr(p, i + 1, 0, depth, commas), depth, commas),
              LAMBDA r : Got(Node("unop", "*", <<r.n>>), r.i))
    ELSE ArgExpr(p, i, depth)

\* A list of what item reads at each position, separated by commas, that end ends.
ListOf(p, i, item(_), end) ==
    LET from[j \in 1 .. Len(p.tokens) + 1] ==
            IF Tok(p, j) = end THEN Got(Node("args", "", <<>>), j + 1)
            ELSE Then(item(j),
                      LAMBDA r : IF Tok(p, r.i) = "," /\ r.n.k # "pass"
                                 THEN Then(from[r.i + 1], LAMBDA s : Got(Node("args", "", <<r.n>> \o s.n.c), s.i))
                                 ELSE Expect(end, p, Got(Node("args", "", <<r.n>>), r.i)))
    IN  IF i <= Len(p.tokens) THEN from[i] ELSE NotParsed

\* parse_args, from after the parenthesis, added to those of `made`.
ParenArgs(p, i, depth, made) ==
    Then(ListOf(p, i, LAMBDA j : AttachPending(p, Arg(p, j, depth, FALSE), depth, FALSE), ")"),
         LAMBDA r : Got([made EXCEPT !.c = @ \o r.n.c], r.i))

\* parse_command_args; commas says whether more than one can be taken.
CommandArgs(p, i, depth, commas) ==
    LET from[j \in 1 .. Len(p.tokens) + 1] ==
            LET r == Arg(p, j, depth, FALSE)
            IN  IF ~r.ok THEN NotParsed
                ELSE IF commas /\ Tok(p, r.i) = "," /\ r.n.k # "pass"
                THEN Then(from[r.i + 1], LAMBDA rest : Got(Node("args", "", <<r.n>> \o rest.n.c), rest.i))
                ELSE Got(Node("args", "", <<r.n>>), r.i)
    IN  IF i <= Len(p.tokens) THEN from[i] ELSE NotParsed

\* A call that has its arguments takes the block that follows, if it may.
TakeBlock(p, r, may) ==
    IF r.ok /\ (Tok(p, r.i) = "{}" \/ (Tok(p, r.i) = "do" /\ may)) THEN Got(WithBlock(r.n), r.i + 1) ELSE r

\* The end of parse_stmt: an expression, then a rescue, then one if.  The rescue
\* of an assignment is that of its right side.
Rescued(n, by) ==
    IF n.k \in {"assign", "opassign"} THEN [n EXCEPT !.c[2] = Node("begin", "", <<@, by>>)]
    ELSE Node("begin", "", <<n, by>>)
WholeStatement(p, i, depth, commas) ==
    LET e == Expr(p, i, 0, depth, commas)
        r == IF e.ok /\ Tok(p, e.i) = "rescue"
             THEN Then(Expr(p, e.i + 1, 0, depth, commas), LAMBDA by : Got(Rescued(e.n, by.n), by.i)) ELSE e
    IN  IF r.ok /\ Tok(p, r.i) = "if"
        THEN Then(Expr(p, r.i + 1, 0, depth, commas), LAMBDA c : Got(Node("if", "", <<c.n, r.n, Absent>>), c.i))
        ELSE r

-----------------------------------------------------------------------------
(***************************************************************************)
(* parse_primary                                                           *)
(***************************************************************************)
Prefixed(p, i, depth, commas) ==
    Then(Expr(p, i + 1, PrefixBp(Tok(p, i)), depth, commas),
         LAMBDA r : Got(Node("unop", Symbol(Tok(p, i)), <<r.n>>), r.i))

Ident(p, i, depth, commas) ==
    LET name == Tok(p, i)  next == Tok(p, i + 1)  calls == Node("call", name, <<>>)
    IN  IF next = "(" THEN TakeBlock(p, ParenArgs(p, i + 2, depth, calls), TRUE)
        ELSE IF next = "{}" \/ (next = "do" /\ depth = 0) THEN Got(WithBlock(calls), i + 2)
        ELSE IF CanBeArg(p, i + 1)
        THEN TakeBlock(p, Then(CommandArgs(p, i + 1, depth, commas),
                                LAMBDA r : Got([calls EXCEPT !.c = r.n.c], r.i)), depth <= 1)
        ELSE Got(Node("lvar", name, <<>>), i + 1)

\* ( statement ); a list of names to assign to is left out.
Group(p, i, depth, commas) ==
    Expect(")", p, AttachPending(p, Statement(p, i + 1, depth, commas), depth, commas))

Beginless(p, i, depth, commas) ==
    IF RhsOmitted(Tok(p, i + 1)) THEN Got(Node("range", "", <<Absent, Absent>>), i + 1)
    ELSE Then(Expr(p, i + 1, InfixBp("..")[2], depth, commas),
              LAMBDA r : Got(Node("range", "", <<Absent, r.n>>), r.i))

Primary(p, i, depth, commas) ==
    LET t == Tok(p, i)
    IN  CASE PrefixBp(t) > 0 -> Prefixed(p, i, depth, commas)
          [] t = "1" -> Got(Node("int", "1", <<>>), i + 1)
          [] IsIdent(t) -> Ident(p, i, depth, commas)
          [] t \in {"(", " ("} -> Group(p, i, depth, commas)
          [] t \in {"[", " ["} -> Then(ListOf(p, i + 1, LAMBDA j : Expr(p, j, 0, depth, FALSE), "]"),
                                        LAMBDA r : Got(Node("array", "", r.n.c), r.i))
          [] t = ".." -> Beginless(p, i, depth, commas)
          [] OTHER -> NotParsed

-----------------------------------------------------------------------------
(***************************************************************************)
(* parse_expr_continue: what may follow an operand, from its operator at i  *)
(***************************************************************************)
Ternary(p, i, depth, commas) ==
    Then(Expect(":", p, Expr(p, i + 1, 0, depth, commas)),
         LAMBDA yes : Then(Expr(p, yes.i, InfixBp("?")[2], depth, commas),
                           LAMBDA no : Got(Node("if", "", <<yes.n, no.n>>), no.i)))

BracketCall(p, i, depth, commas) ==
    Then(ListOf(p, i + 1, LAMBDA j : Expr(p, j, 0, depth, commas), "]"),
         LAMBDA r : IF Tok(p, r.i - 2) = "," THEN NotParsed ELSE Got(Node("call", "[]", r.n.c), r.i))

\* The right side of an operator: `=`, `+=` or one that takes two operands.
RightSide(p, i, depth, commas) ==
    LET t == Tok(p, i)
    IN  Then(Expr(p, i + 1, InfixBp(t)[2], depth, commas),
             LAMBDA r : Got(CASE t = "=" -> Node("assign", "", <<r.n>>)
                              [] t = "+=" -> Node("opassign", t, <<r.n>>)
                              [] OTHER -> Node("binop", Symbol(t), <<r.n>>), r.i))

\* .m, with its arguments, or .(arguments).  A call with arguments but no
\* parentheses takes a do block only where no argument is being read.
DotCall(p, i, depth, commas) ==
    LET name == Tok(p, i + 1)  next == Tok(p, i + 2)
        sent == Node("call", IF name = "(" THEN ".call" ELSE "." \o name, <<>>)
    IN  IF name = "(" THEN TakeBlock(p, ParenArgs(p, i + 2, depth, sent), TRUE)
        ELSE IF ~IsIdent(name) THEN NotParsed
        ELSE IF next = "(" THEN TakeBlock(p, ParenArgs(p, i + 3, depth, sent), TRUE)
        ELSE IF CanBeArg(p, i + 2)
        THEN TakeBlock(p, Then(CommandArgs(p, i + 2, depth, commas), LAMBDA a : Got([sent EXCEPT !.c = a.n.c], a.i)),
                       depth = 0)
        ELSE TakeBlock(p, Got(sent, i + 2), depth = 0)

RangeEnd(p, i, depth, commas) ==
    IF RhsOmitted(Tok(p, i + 1)) THEN Got(Node("range", "", <<Absent>>), i + 1)
    ELSE Then(Expr(p, i + 1, InfixBp("..")[2], depth, commas),
              LAMBDA r : Got(Node("range", "", <<r.n>>), r.i))

Infix(p, i, depth, commas) ==
    LET t == Tok(p, i)
    IN  CASE t = "?" -> Ternary(p, i, depth, commas)
          [] t \in {"[", " ["} -> BracketCall(p, i, depth, commas)
          [] t = "." -> DotCall(p, i, depth, commas)
          [] t = ".." -> RangeEnd(p, i, depth, commas)
          [] OTHER -> RightSide(p, i, depth, commas)

Continue(p, i, min, depth, commas) ==
    LET lbp == InfixBp(Tok(p, i))[1]
    IN  IF lbp = 0 \/ lbp < min THEN Got(Node("rest", "", <<>>), i)
        ELSE Then(Infix(p, i, depth, commas),
                  LAMBDA by : Then(Following(p, by.i, min, depth, commas),
                                   LAMBDA rest : Got(Node("rest", "", <<by.n>> \o rest.n.c), rest.i)))

\* parse_expr
Whole(p, i, min, depth, commas) ==
    Then(Primary(p, i, depth, commas),
         LAMBDA left : Then(Following(p, left.i, min, depth, commas), LAMBDA rest : Followed(left.n, rest)))

\* A program of one line, as parser_init starts it.
Parse(tokens) ==
    LET parse[what \in {"expr", "rest", "statement", "arg"}, i \in 1 .. Len(tokens) + 1,
              min \in 0 .. 43, depth \in 0 .. Len(tokens), commas \in BOOLEAN] ==
            LET p == [tokens |-> tokens, parse |-> parse]
            IN  CASE what = "expr" -> Whole(p, i, min, depth, commas)
                  [] what = "rest" -> Continue(p, i, min, depth, commas)
                  [] what = "statement" -> WholeStatement(p, i, depth, commas)
                  [] what = "arg" -> Argument(p, i, depth, commas)
        line == parse["statement", 1, 0, 0, TRUE]
    IN  IF line.ok /\ line.i = Len(tokens) + 1 THEN line.n ELSE Absent

-----------------------------------------------------------------------------
(***************************************************************************)
(* Trees, and how one writes them                                          *)
(***************************************************************************)
\* The operators, those that bind loosest first; then what needs no parentheses.
Ranks == <<{"or"}, {"and"}, {"=", "not"}, {"?"}, {".."}, {"||"}, {"&&"}, {"=="}, {"<"}, {"|"}, {"^"}, {"&"},
           {"<<"}, {"+"}, {"*"}, {"!", "-"}, {"**"}, {"atom"}>>
RankOf(op) == CHOOSE k \in DOMAIN Ranks : op \in Ranks[k]
FromRight == {"=", "?", "**", "not", "!", "-"}

Assigns(t) == t.k \in {"assign", "opassign"} \/ (t.k = "call" /\ t.v \in {"[]=", ".m="})
IsModified(t) == t.k = "begin" \/ (t.k = "if" /\ t.c[3] = Absent)
\* 0: not an operand without parentheses.
Rank(t) == CASE IsModified(t) -> 0
             [] t.k = "range" -> IF t.c[2] = Absent THEN 0 ELSE RankOf("..")
             [] Assigns(t) -> RankOf("=")
             [] t.k = "if" -> RankOf("?")
             [] t.k \in {"binop", "unop"} -> RankOf(t.v)
             [] OTHER -> RankOf("atom")

RECURSIVE Show(_, _), Written(_)
List(s) == IF s = <<>> THEN <<>>
           ELSE FoldLeft(LAMBDA all, e : all \o <<",">> \o Show(e, 0), Show(s[1], 0), Tail(s))
\* t, in parentheses unless it binds at least as tight as rank.
Show(t, rank) == IF Rank(t) < rank \/ IsModified(t) THEN <<"(">> \o Written(t) \o <<")">> ELSE Written(t)
Written(t) ==
    LET k == Rank(t)
        left == Show(t.c[1], IF t.v \in FromRight THEN k + 1 ELSE k)
        right == Show(t.c[2], IF t.v \in FromRight THEN k ELSE k + 1)
        block == IF t.b THEN <<"{}">> ELSE <<>>
    IN  CASE t.k = "int" -> <<"1">>
          [] t.k = "lvar" -> <<t.v>>
          [] t.k = "binop" -> left \o <<t.v>> \o right
          [] t.k = "unop" -> <<t.v>> \o Show(t.c[1], k)
          [] t.k = "range" -> (IF t.c[1] = Absent THEN <<>> ELSE Show(t.c[1], RankOf(".."))) \o <<"..">>
                              \o (IF t.c[2] = Absent THEN <<>> ELSE Show(t.c[2], RankOf("..") + 1))
          [] t.k = "assign" -> <<"x", "=">> \o Show(t.c[2], k)
          [] t.k = "opassign" -> <<"x", "+=">> \o Show(t.c[2], k)
          [] t.k = "begin" -> Show(t.c[1], RankOf("?")) \o <<"rescue">> \o Show(t.c[2], 1)
          [] t.k = "if" /\ IsModified(t) -> Show(t.c[2], 1) \o <<"if">> \o Show(t.c[1], 1)
          [] t.k = "if" -> Show(t.c[1], k + 1) \o <<"?">> \o Show(t.c[2], 1) \o <<":">> \o Show(t.c[3], k)
          [] t.k = "array" -> <<"[">> \o List(t.c) \o <<"]">>
          [] t.k = "hash" -> <<t.v, ":">> \o Show(t.c[1], 0)
          [] t.v = "[]" -> Show(t.c[1], RankOf("atom")) \o <<"[">> \o List(Tail(t.c)) \o <<"]">>
          [] t.v = "[]=" -> Show(t.c[1], RankOf("atom")) \o <<"[">> \o Show(t.c[2], 0) \o <<"]", "=">> \o Show(t.c[3], k)
          [] t.v = ".m=" -> Show(t.c[1], RankOf("atom")) \o <<".", "m", "=">> \o Show(t.c[2], k)
          [] t.v = ".m" -> Show(t.c[1], RankOf("atom")) \o <<".", "m", "(">> \o List(Tail(t.c)) \o <<")">> \o block
          [] t.v = "f" -> <<"f", "(">> \o List(t.c) \o <<")">> \o block

\* A call without its parentheses: f or x.m, a space, the arguments, a do block.
\* The arguments are put in parentheses where they could be read as something else:
\* a call that ends them would take the block.
Opened(s) == IF s[1] \in {"(", "[", "-"} THEN <<" " \o s[1]>> \o Tail(s)
             ELSE IF IsIdent(s[1]) \/ s[1] \in {"1", "!"} THEN s ELSE <<" (">> \o s \o <<")">>
Command(t) ==
    LET args == IF t.v = "f" THEN t.c ELSE Tail(t.c)
    IN  (IF t.v = "f" THEN <<"f">> ELSE Show(t.c[1], RankOf("atom")) \o <<".", "m">>)
            \o Opened(List(args)) \o (IF t.b THEN <<"do">> ELSE <<>>)
CanBeCommand(t) == t.k = "call" /\ ((t.v = "f" /\ t.c # <<>>) \/ (t.v = ".m" /\ Len(t.c) > 1))
                   /\ (t.b => t.c[Len(t.c)].k \in {"lvar", "int", "hash", "binop"} /\ Command(t)[Len(Command(t)) - 1] # ")")

-----------------------------------------------------------------------------
Operators == {"or", "and", "||", "&&", "==", "<", "|", "^", "&", "<<", "+", "*", "**"}
LX == Node("lvar", "x", <<>>)
LitOne == Node("int", "1", <<>>)
CallF(args) == Node("call", "f", args)

Over(a) ==
    {Node("unop", op, <<a>>) : op \in {"not", "!", "-"}}
    \cup {CallF(<<a>>), WithBlock(CallF(<<LitOne, a>>)), CallF(<<Node("hash", "x", <<a>>)>>),
          Node("call", ".m", <<a, LitOne>>), Node("call", ".m", <<LX, a>>), WithBlock(Node("call", ".m", <<LX, a>>)),
          Node("array", "", <<a, LitOne>>), Node("range", "", <<a, Absent>>), Node("range", "", <<Absent, a>>),
          Node("assign", "", <<LX, a>>), Node("opassign", "+=", <<LX, a>>)}
\* (x = 1) rescue 2 is left out: it is read as x = (1 rescue 2).
Combined(a, b) ==
    {Node("binop", op, <<a, b>>) : op \in Operators}
    \cup {Node("range", "", <<a, b>>), Node("call", "[]", <<a, b>>), Node("call", "[]=", <<a, LitOne, b>>),
          Node("call", ".m=", <<a, b>>), Node("if", "", <<a, b, Absent>>), Node("if", "", <<LX, a, b>>),
          Node("if", "", <<a, LitOne, b>>)}
    \cup (IF Assigns(a) THEN {} ELSE {Node("begin", "", <<a, b>>)})
Shallow == {LX} \cup Over(LX) \cup Combined(LX, LitOne)
Mixed == {LX, Node("unop", "not", <<LX>>), Node("unop", "-", <<LX>>), Node("assign", "", <<LX, LitOne>>),
          Node("range", "", <<LX, LitOne>>), Node("if", "", <<LX, LitOne, LX>>)}
         \cup {Node("binop", op, <<LX, LitOne>>) : op \in {"or", "+", "*", "**"}}

\* The ways to write t.
Writings(t) ==
    {Written(t)}
    \cup (IF CanBeCommand(t) THEN {Command(t)} ELSE {})
    \cup (IF t.k = "assign" /\ t.c[2].k = "begin" THEN {<<"x", "=">> \o Written(t.c[2])} ELSE {})

Ask(t) == \E text \in Writings(t) :
              Make([op |-> "expression", tree |-> t, text |-> text, res |-> Parse(text)])

ExpressionCall ==
    /\ NoCall
    /\ \/ \E a \in Shallow : \E t \in Over(a) : Ask(t)
       \/ \E a \in Shallow, b \in Mixed : \E t \in Combined(a, b) \cup Combined(b, a) : Ask(t)
       \/ \E a \in Mixed : \E s \in Combined(a, LX) : \E t \in Combined(s, LX) : Ask(t)
       \/ \E a \in Mixed : \E s \in Combined(LX, a) : \E t \in Combined(LX, s) : Ask(t)

\* Every expression is read back as the tree it was written from, with no more
\* parentheses than the operators' ranks ask for: operators group by rank and side,
\* and an argument list, a block or a modifier goes to the call or statement it was
\* written for.
ExpressionsAgree == call.op = "expression" => call.res = call.tree
=============================================================================
