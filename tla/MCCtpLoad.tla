----------------------------- MODULE MCCtpLoad -----------------------------
(***************************************************************************)
(* Two files of at most four and two lines, the first of which may include *)
(* the second or a file that does not exist, or three that include one     *)
(* another, loaded in any order.                                           *)
(***************************************************************************)
EXTENDS CtpLoad, FiniteSets

Ends == {End("test"), End("hist")}
Begins == {Begin(<<"test", "a">>, <<>>),
           Begin(<<"test", "a">>, <<Group("g"), Word, Group("h")>>),
           Begin(<<"test", "b">>, <<BareGroup>>),
           Begin(<<"hist", "a">>, <<Group("g")>>)}
Upto(S, n) == UNION {[1 .. k -> S] : k \in 0 .. n}

Inner == {Begin(<<"test", "a">>, <<>>), Begin(<<"test", "b">>, <<Word>>), End("test"), Text("y")}
MCLines == Begins \cup Ends \cup Inner \cup {Include("inc"), Include("sub"), Include("gone")}

Included == Upto(Inner, 2)
Tops == Upto(Begins \cup Ends \cup {Include("inc")}, 4)
Absent == {<<Include("gone")>>, <<Begin(<<"test", "a">>, <<>>), Include("gone"), End("test")>>}
Nested == {[top |-> <<Include("inc"), x>>, inc |-> <<y, Include("sub"), z>>, sub |-> s] :
             x \in Ends, y \in Begins, z \in Ends \cup {Text("y")}, s \in Included}

MCTexts == {[top |-> t, inc |-> i] : t \in Tops \cup Absent, i \in Included} \cup Nested

=============================================================================
