----------------------------- MODULE MCTestExpr -----------------------------
(***************************************************************************)
(* Instances of TestExpr: lines generated from trees, whose value is known *)
(* from the tree, lines that are sequences of tokens in any order, and     *)
(* sequences of lines of which some are refused.                           *)
(***************************************************************************)
EXTENDS TestExpr

CONSTANT NoTree

MCVarType == [i |-> OPRINT, f |-> OPRFLOAT, d |-> OPRDOUBLE, a |-> OPRINT, b |-> OPRDOUBLE,
              x |-> OPRINT, y |-> OPRDOUBLE, z |-> OPRFLOAT, result |-> OPRDOUBLE]
MCVarInit == [i |-> <<Whole(2)>>, f |-> <<<<3, 2>>>>, d |-> <<<<-5, 2>>>>,
              a |-> <<Whole(5), Whole(0), Whole(-7)>>, b |-> <<<<1, 2>>, Whole(6)>>,
              x |-> <<Whole(9)>>, y |-> <<Whole(9)>>, z |-> <<Whole(9)>>,
              result |-> <<Whole(9)>>]

(***************************************************************************)
(* Trees: <<"num", type, value>>, <<"var", v>>, <<"idx", v, "(" or "[", e>>,*)
(* <<"abs", e>>, <<"un", op, e>>, <<"bin", op, l, r>>, <<"set", v, e>>     *)
(***************************************************************************)

UnaryOps == {"-", "!", "~"}
UnaryCode == [s \in UnaryOps |-> CASE s = "-" -> "OPNEG" [] s = "!" -> "OPNOT" [] s = "~" -> "OPCOMP"]

\* The levels of C, with ^^ between || and &&
Levels == <<{"||"}, {"^^"}, {"&&"}, {"|"}, {"^"}, {"&"}, {"==", "!="}, {"<", "<=", ">", ">="},
            {"<<", ">>"}, {"+", "-"}, {"*", "/", "//", "%"}>>
LevelOf(e) == CASE e[1] = "set" -> 0
                [] e[1] = "bin" -> CHOOSE n \in 1 .. Len(Levels) : e[2] \in Levels[n]
                [] e[1] = "un" -> 12
                [] OTHER -> 13

\* The line for a tree, with the parentheses it needs
RECURSIVE Show(_)
Above(n, e) == IF LevelOf(e) >= n THEN Show(e) ELSE <<OpTok("(")>> \o Show(e) \o <<OpTok(")")>>
Show(e) ==
  CASE e[1] \in {"num", "var"} -> <<e>>
    [] e[1] = "idx" -> <<<<"var", e[2]>>, OpTok(e[3])>> \o Show(e[4])
                         \o <<OpTok(IF e[3] = "(" THEN ")" ELSE "]")>>
    [] e[1] = "abs" -> <<<<"fun", Whole(0)>>, OpTok("(")>> \o Show(e[2]) \o <<OpTok(")")>>
    [] e[1] = "un" -> <<OpTok(e[2])>> \o Above(13, e[3])
    [] e[1] = "bin" -> Above(LevelOf(e), e[3]) \o <<OpTok(e[2])>> \o Above(LevelOf(e) + 1, e[4])
    [] e[1] = "set" -> <<<<"var", e[2]>>, OpTok("=")>> \o Show(e[3])

Store(type, tv) == IF type = OPRINT THEN AsInt(tv[1], tv[2]) ELSE tv[2]

\* <<type, value>>: a comparison, a bit or logic operation and // give an integer,
\* / a real number, the rest an integer when both operands are.
RECURSIVE Eval(_)
Eval(e) ==
  CASE e[1] = "num" -> <<e[2], e[3]>>
    [] e[1] = "var" -> <<TypeOf(e[2]), MCVarInit[e[2]][1]>>
    [] e[1] = "idx" -> LET k == Eval(e[4])
                           n == AsInt(k[1], k[2])[1] + (IF e[3] = "(" THEN 0 ELSE 1)
                       IN <<TypeOf(e[2]), MCVarInit[e[2]][n]>>
    [] e[1] = "abs" -> LET k == Eval(e[2]) IN <<k[1], <<AbsVal(k[2][1]), k[2][2]>>>>
    [] e[1] = "un" -> LET k == Eval(e[3])
                      IN <<IF e[2] = "-" THEN k[1] ELSE OPRINT, OnOne(UnaryCode[e[2]], k[1], k[2])>>
    [] e[1] = "bin" -> LET l == Eval(e[3])
                           r == Eval(e[4])
                           real == \/ e[2] = "/"
                                   \/ /\ e[2] \in {"+", "-", "*", "%"}
                                      /\ ~(l[1] = OPRINT /\ r[1] = OPRINT)
                       IN <<IF real THEN OPRDOUBLE ELSE OPRINT,
                            Binary(OPTABLE[e[2]], l[1], r[1], l[2], r[2])>>
    [] e[1] = "set" -> <<TypeOf(e[2]), Store(TypeOf(e[2]), Eval(e[3]))>>

\* No shift by a negative or large number, no remainder of a division by zero
RECURSIVE Defined(_)
Defined(e) ==
  CASE e[1] = "bin" ->
         /\ Defined(e[3]) /\ Defined(e[4])
         /\ e[2] \in {"<<", ">>"} => LET r == Eval(e[4]) IN AsInt(r[1], r[2])[1] \in 0 .. 4
         /\ e[2] = "%" => Eval(e[4])[2][1] # 0
    [] e[1] \in {"un", "set"} -> Defined(e[3])
    [] OTHER -> TRUE

\* Variables that a tree sets on the way, and their values
RECURSIVE Sets(_)
Sets(e) == CASE e[1] = "set" -> {<<e[2], Eval(e)[2]>>} \cup Sets(e[3])
             [] e[1] = "bin" -> Sets(e[3]) \cup Sets(e[4])
             [] e[1] = "un" -> Sets(e[3])
             [] OTHER -> {}

Num(n) == <<"num", OPRINT, Whole(n)>>
Half == <<"num", OPRFLOAT, <<1, 2>>>>
V(v) == <<"var", v>>
Triples == {<<V("i"), V("f"), Num(3)>>, <<V("d"), Num(1), V("i")>>,
            <<<<"idx", "a", "(", Num(3)>>, <<"idx", "b", "[", Half>>, <<"abs", V("d")>>>>}
Chosen == {"||", "^^", "&&", "|", "^", "&", "==", "<", ">=", "<<", "+", "-", "*", "/", "//", "%"}
Trees ==
  LET pairs == {<<"bin", o, <<"bin", p, t[1], t[2]>>, t[3]>> : o, p \in Chosen, t \in Triples}
      right == {<<"bin", o, t[1], <<"bin", p, t[2], t[3]>>>> : o, p \in Chosen, t \in Triples}
      unary == {<<"un", u, <<"bin", o, t[1], t[2]>>>> : u \in UnaryOps, o \in Chosen, t \in Triples}
      inner == {<<"bin", o, <<"un", u, t[1]>>, <<"un", w, t[2]>>>> :
                  u, w \in UnaryOps, o \in Chosen, t \in Triples}
      nested == {<<"bin", o, <<"set", "y", t[1]>>, <<"set", "z", t[2]>>>> :
                   o \in {"+", "&&"}, t \in Triples}
      indexed == {<<"bin", o, <<"idx", "a", s, <<"bin", "-", Num(3), Num(1)>>>>, Num(2)>> :
                   o \in {"+", "*"}, s \in {"(", "["}}
  IN {e \in pairs \cup right \cup unary \cup inner \cup nested \cup indexed : Defined(e)}

(***************************************************************************)
(* Items                                                                   *)
(***************************************************************************)

Item(imm, line, lhs, tree) == [imm |-> imm, line |-> line, lhs |-> lhs, tree |-> tree]
Statement(v, e) == Item(FALSE, Show(<<"set", v, e>>), <<v, 1>>, e)
Element1(e) == Item(FALSE, Show(<<"idx", "a", "(", <<"bin", "-", Num(3), Num(1)>>>>)
                             \o <<OpTok("=")>> \o Show(e), <<"a", 2>>, e)
Expression(e) == Item(TRUE, Show(e), <<"result", 1>>, e)
Tokens(imm, line) == Item(imm, line, <<"x", 1>>, NoTree)

Anything == {OpTok(s) : s \in {"=", "(", ")", "-", "/", ","}} \cup {V("x"), V("n"), Num(1), <<"fun", Whole(0)>>}
Lines(S, n) == UNION {[1 .. k -> S] : k \in 0 .. n}
HasEqual(l) == \E k \in DOMAIN l : l[k] = OpTok("=")

Bad == {<<V("x"), OpTok("="), Num(1), OpTok(")")>>,
        <<V("x"), OpTok("="), OpTok("("), Num(1)>>,
        <<V("x"), OpTok("="), V("u")>>,
        <<V("y"), OpTok("="), Num(1), OpTok(","), V("n"), OpTok("=")>>}
Simple == {<<"bin", "-", V("i"), Num(3)>>, <<"un", "-", V("f")>>}

\* An expression, a statement and an element of an array with the tree's value
TreeJobs == {<<Expression(e), Statement("x", e), Element1(e)>> : e \in Trees}

\* All lines of three tokens, and "x =" with all of four; a name that is new is
\* an integer from its first "=" on.
TokenJobs == {<<Tokens(FALSE, l)>> : l \in {m \in Lines(Anything, 3) : HasEqual(m)}}
AssignmentJobs == {<<Tokens(FALSE, <<V("x"), OpTok("=")>> \o l)>> :
                     l \in Lines(Anything, 4)}
\* All assignments of up to seven tokens, with brackets of both kinds
Written == {OpTok(s) : s \in {"=", "(", ")", "[", "]", "-", "!", "&&", "<", "/", ","}}
             \cup {V("x"), V("b"), Num(1), <<"fun", Whole(0)>>}
RECURSIVE Begun(_)
Begun(n) ==
  IF n = 2 THEN {<<V("n"), OpTok("=")>>}
  ELSE {l \in {Append(m, t) : m \in Begun(n - 1), t \in Written} : Follows(l, n)}
WrittenJobs == {<<Tokens(FALSE, l)>> : l \in {m \in UNION {Begun(n) : n \in 3 .. 7} : Assignment(m)}}
ListJobs == {<<Tokens(FALSE, Show(<<"set", v, e>>) \o sep \o Show(<<"set", w, g>>))>> :
               v, w \in {"n", "x", "y"}, e, g \in Simple, sep \in {<<OpTok(",")>>, <<OpTok("+"), OpTok("(")>>}}
\* A line that is refused, and what follows it
BadJobs == {<<Tokens(imm, l), Statement("y", e), Element1(g)>> : imm \in BOOLEAN, l \in Bad, e, g \in Simple}
\* Assignments at the beginning of an index or an argument, and behind a "(" there
Inner(v) == {<<V(v), OpTok("="), Num(1)>>, <<OpTok("("), V(v), OpTok("="), Num(1), OpTok(")")>>}
Call(t, open) == {<<V("x"), OpTok("="), t, OpTok(open)>> \o e \o <<OpTok(IF open = "[" THEN "]" ELSE ")")>> :
                    e \in Inner("n") \cup Inner("i")}
IndexJobs == {<<Tokens(FALSE, l)>> : l \in Call(V("a"), "(") \cup Call(V("b"), "[") \cup Call(<<"fun", Whole(0)>>, "(")}
\* A "+" with an operand, and without one at the end of the line or of an item of a
\* list, before an operator, and before a bracket, which then is an index of 0
Plus(l) == <<V("x"), OpTok("="), OpTok("+")>> \o l
PlusLines == {Plus(l) : l \in {<<Num(1)>>, <<V("u")>>, <<>>, <<OpTok("+"), Num(1)>>, <<OpTok("-"), Num(1)>>,
                              <<OpTok(",")>> \o Show(<<"set", "y", Num(1)>>)}}
PlusJobs == {<<Tokens(imm, l), Statement("y", e)>> : imm \in BOOLEAN, l \in PlusLines, e \in Simple}
              \cup {<<Tokens(imm, Plus(<<OpTok("("), Num(1), OpTok(")")>>))>> : imm \in BOOLEAN}
MCJobs == TreeJobs \cup TokenJobs \cup AssignmentJobs \cup WrittenJobs \cup ListJobs \cup IndexJobs
            \cup BadJobs \cup PlusJobs

\* An item's value is its tree's, in the variable or the answer it is for, and
\* so are the values of the variables it sets on the way.
ValueIsRight ==
  phase = "done" =>
    \A k \in 1 .. Len(job) :
      (accepted[k] = "S_SUCCESS" /\ job[k].tree # NoTree) =>
        LET it == job[k]
            v == Store(TypeOf(it.lhs[1]), Eval(it.tree))
        IN /\ ~undefined
           /\ IF it.imm THEN answers[Cardinality({m \in 1 .. k : job[m].imm})] = v
                        ELSE mem[it.lhs[1]][it.lhs[2]] = v
           /\ \A s \in Sets(it.tree) : mem[s[1]] = <<s[2]>>

\* The results that an accepted line assigns have their trees' values, and those of
\* a block are in its list.
ResultsAreRight == ValueIsRight /\ AssignedAreListed
=============================================================================
