---------------------------- MODULE MCCtpBlocks ----------------------------
(***************************************************************************)
(* Two blocks of tests, two of histograms and one of histograms the user   *)
(* fills, each with a few titles: flags that follow another, are dropped   *)
(* or read one that the other block gives, known only when that has been   *)
(* booked, a histogram with another flag or other bins, one that two       *)
(* blocks give and one whose flag may not be known.                        *)
(***************************************************************************)
EXTENDS CtpBlocks

T1 == <<"test", "t1">>
T2 == <<"test", "t2">>
H1 == <<"hist", "h1">>
H2 == <<"hist", "h2">>
U == <<"uhist", "u">>
MCTestBlocks == {T1, T2}
MCHistBlocks == {H1, H2, U}
MCInputs == {"x"}

f(neg) == Test("f", "x", neg)
MCTitles ==
  [b \in Blocks |->
     CASE b = T1 -> {<<f(FALSE)>>, <<Test("g", "k", FALSE), f(TRUE)>>}
       [] b = T2 -> {<<Test("k", "x", TRUE), Test("k", "k", TRUE)>>, <<f(FALSE)>>}
       [] b = H1 -> {<<Hist("a", FALSE, "f", 1)>>,
                     <<Hist("b", FALSE, NoTest, 1), Hist("a", FALSE, "k", 2)>>}
       [] b = H2 -> {<<Hist("c", FALSE, "g", 1)>>, <<Hist("b", FALSE, NoTest, 1)>>}
       [] b = U -> {<<Hist("u", TRUE, NoTest, 1)>>}]
=============================================================================
