------------------------------ MODULE MCDaVar -------------------------------
(***************************************************************************)
(* DaVar with variables of the program in and out of the class "parm", one *)
(* below another, arrays that lines make, and requests in either case.     *)
(***************************************************************************)
EXTENDS DaVar

MCLower == [c \in {"parm", "n", "N", "x", "X", "f", "s", "value", "size"} |->
              CASE c = "N" -> "n" [] c = "X" -> "x" [] OTHER -> c]

Short == {<<"n">>, <<"N">>, <<"x">>, <<"X">>, <<"f">>, <<"s">>}
MCNames == Short \cup {<<"parm">> \o n : n \in Short} \cup {<<"n", "f">>, <<"n", "size">>}
\* Some names share a chain.
Weight == [c \in DOMAIN MCLower |-> CASE c \in {"n", "f"} -> 1 [] c = "N" -> 2 [] c = "X" -> 1 [] OTHER -> 0]
MCHash == [n \in MCNames |-> FoldLeft(LAMBDA a, c : a + Weight[c], 0, n) % 2]

Of(name, type, size) == [name |-> name, type |-> type, size |-> size]
MCRegistrations == {Of(<<"parm", "N">>, "int", 2), Of(<<"n">>, "float", 1), Of(<<"n", "f">>, "double", 2),
                    Of(<<"parm", "s">>, "fstring", 3)}

Arg(kind, v) == [kind |-> kind, v |-> v]
Line(name, ix, args) == [var |-> name, ix |-> ix, args |-> args, len |-> 1 + 3 * Len(args), number |-> FALSE]
One == Arg("int", 2)
Two == Arg("int", 4)
Point == Arg("float", 6)       \* 3.0
Half == Arg("expr", -5)        \* -2.5
MCLines == {Line(<<"x">>, 0, <<>>), Line(<<"X">>, 0, <<One, Two>>), Line(<<"x">>, 1, <<Half>>),
            Line(<<"n">>, 1, <<Half>>), Line(<<"parm", "n">>, 0, <<One, Half, Two>>),
            Line(<<"s">>, 0, <<One>>), Line(<<"n", "f">>, 0, <<Half>>),
            Line(<<>>, 0, <<Two, One>>), Line(<<>>, 0, <<Point>>),
            [Line(<<"x">>, 0, <<One>>) EXCEPT !.number = TRUE]}

MCDeclarations == {Of(<<"x">>, "int", 3), Of(<<"X">>, "float", 1), Of(<<"x">>, "double", 2)}

Ix(path, ix) == [path |-> path, ix |-> ix]
MCReads == {Ix(<<"parm", "x">>, -101), Ix(<<"parm", "X">>, 1), Ix(<<"n", "value">>, -101),
            Ix(<<"n", "f", "value">>, 0), Ix(<<"n", "size">>, -101), Ix(<<"N", "x">>, -101)}
Write(path, ix, kind, values) == [path |-> path, ix |-> ix, kind |-> kind, values |-> values]
MCWrites == {Write(<<"parm", "x", "value">>, 1, "float", <<5, -5>>), Write(<<"n">>, -101, "int", <<8>>),
             Write(<<"n", "f", "value">>, 1, "float", <<5>>), Write(<<"parm", "n">>, -101, "float", <<-5, 5>>),
             Write(<<"parm", "s">>, 1, "text", <<Character, Character>>),
             Write(<<"parm", "n", "size">>, -101, "int", <<2>>), Write(<<"n", "f">>, 2, "int", <<2>>),
             Write(<<"parm", "x">>, -1, "int", <<2, 4>>), Write(<<"parm", "x">>, -2, "int", <<2>>)}
MCPatterns == {[name |-> <<"n">>, wild |-> FALSE], [name |-> <<"parm">>, wild |-> TRUE]}
=============================================================================
