----------------------------- MODULE CtpProofs -----------------------------
(***************************************************************************)
(* Proofs about the setup files, and the test and histogram blocks that    *)
(* they define.                                                            *)
(*                                                                         *)
(* The blocks (CtpBlocks), for all blocks, titles and inputs: what a       *)
(* client reads of a histogram is current, the scalers count what the      *)
(* titles say, and so do the histograms.  The invariant relates a block,   *)
(* once booked, to its title: its code and its list of results, its list   *)
(* of histograms and their definitions; and the blocks to each other: a    *)
(* name that two of them give is in "shared".                              *)
(*                                                                         *)
(* The files (CtpLoad), for all files: every block has as its title the    *)
(* lines that the files, with what they include, have for it, and is in    *)
(* the groups that its begin line names.                                   *)
(***************************************************************************)
EXTENDS CtpBlocks, CtpLoad, FiniteSetTheorems, SequenceTheorems, WellFoundedInduction, TLAPS

-----------------------------------------------------------------------------
(* The inductive invariant.                                                *)

IsBooked(b) == varptr[b] # NotBooked

TitlesOK ==
  /\ DOMAIN title = Blocks
  /\ \A b \in TestBlocks : title[b] \in Seq(TestLines)
  /\ \A b \in HistBlocks : title[b] \in Seq(HistLines)

\* A block that is booked is in the list of its class, and between bookings all
\* blocks in the lists are booked.
ListsOK ==
  /\ phase \in {"setup", "ready", "tested", "counted"}
  /\ list \in [{"test", "hist", "uhist"} -> Seq(Blocks)]
  /\ \A c \in {"test", "hist", "uhist"} : \A b \in ToSet(list[c]) : b[1] = c
  /\ DOMAIN varptr = Blocks
  /\ \A b \in Blocks : IsBooked(b) => b \in ToSet(list[b[1]])
  /\ phase # "setup" =>
       \A c \in {"test", "hist", "uhist"} : \A b \in ToSet(list[c]) : IsBooked(b)

\* Every flag is zero or one and has its scaler.
FlagsOK ==
  /\ flag \in [DOMAIN flag -> {0, 1}]
  /\ DOMAIN scaler = DOMAIN flag /\ DOMAIN dueS = DOMAIN flag

\* Lines that read inputs, flags and zero
Runs(lines, F) ==
  /\ Len(lines) \in Nat /\ DOMAIN lines = 1 .. Len(lines)
  /\ \A i \in 1 .. Len(lines) :
       /\ lines[i].dst \in F /\ lines[i].src \in Inputs \cup {Zero} \cup F
       /\ lines[i].neg \in BOOLEAN

\* A block of tests, once booked, is what its title says.
TestsBooked ==
  /\ DOMAIN code = TestBlocks /\ vlist \in [TestBlocks -> Seq(STRING)] /\ DOMAIN taken = Blocks
  /\ \A b \in TestBlocks : IsBooked(b) =>
       /\ code[b] = BookedLines(b) /\ Runs(code[b], DOMAIN flag)
       /\ ToSet(vlist[b]) = Flags(b)

\* Two blocks give no flag that is not shared.
FlagsApart ==
  \A b, c \in TestBlocks : b # c /\ IsBooked(b) /\ IsBooked(c) => Flags(b) \cap Flags(c) \subseteq shared

\* The scalers, with what has been found and not yet counted
ScalersDue ==
  \A b \in TestBlocks : IsBooked(b) =>
    \A f \in Flags(b) \ shared :
      dueS[f] = IF phase = "tested" THEN scaler[f] + flag[f] ELSE scaler[f]

\* Every histogram has an identifier of its own.
Numbered(hv, hb, m) ==
  /\ m \in Nat
  /\ hv = [h \in DOMAIN hv |-> [id |-> hv[h].id, def |-> hv[h].def]]
  /\ \A h \in DOMAIN hv : hv[h].id \in 1 .. m
  /\ \A g, h \in DOMAIN hv : hv[g].id = hv[h].id => g = h
  /\ hb = [id \in DOMAIN hb |-> [n |-> hb[id].n, nx |-> hb[id].nx]]
  /\ DOMAIN hb \subseteq 1 .. m

NumbersOK == Numbered(hvar, hbook, maxID) /\ DOMAIN dueH = DOMAIN hvar

\* The list of a block names histograms that are known.
SpecsOK ==
  /\ specs \in [HistBlocks -> [p : {"null", "list", "freed"}, of : Seq(STRING)]]
  /\ \A b \in HistBlocks : ToSet(specs[b].of) \subseteq DOMAIN hvar
  /\ hblocks \in Seq(HistBlocks)

\* Two lists, or two lines of one, name no histogram that is not shared.
HistsApart ==
  /\ \A b, c \in HistBlocks : b # c => ToSet(specs[b].of) \cap ToSet(specs[c].of) \subseteq shared
  /\ \A b \in HistBlocks : \A p, q \in DOMAIN specs[b].of : p # q /\ specs[b].of[p] = specs[b].of[q] => specs[b].of[p] \in shared

\* The lines i of the block b that CTP fills a histogram by
ByCTP(b, i) == i \in taken[b] /\ ~title[b][i].user
NameAt(b, i) == title[b][i].h

\* A block of histograms, once booked, is what its title says.
HistsBooked ==
  \A b \in HistBlocks : IsBooked(b) =>
    /\ taken[b] \subseteq DOMAIN title[b]
    /\ taken[b] # {} => ToSet(specs[b].of) = Named(b, taken[b])
    /\ \A i, j \in taken[b] : i # j /\ NameAt(b, i) = NameAt(b, j) => NameAt(b, i) \in shared
    /\ \A i \in taken[b] : ByCTP(b, i) =>
         /\ title[b][i].test = NoTest \/ title[b][i].test \in DOMAIN flag
         /\ NameAt(b, i) \notin shared => hvar[NameAt(b, i)].def = <<title[b][i].test>>

\* The histograms of a block with a name of its own are in HBOOK.
InHbook ==
  \A b \in HistBlocks : IsBooked(b) /\ Alone(b) =>
    \A i \in taken[b] : NameAt(b, i) \notin shared => hvar[NameAt(b, i)].id \in DOMAIN hbook

\* The histograms, with what is still to be filled
HistogramsDue ==
  \A b \in HistBlocks : IsBooked(b) /\ Alone(b) /\ b[1] = "hist" =>
    \A i \in taken[b] : ByCTP(b, i) /\ NameAt(b, i) \notin shared =>
      /\ hbook[hvar[NameAt(b, i)].id].n \in Nat
      /\ dueH[NameAt(b, i)] =
           hbook[hvar[NameAt(b, i)].id].n
             + IF phase \in {"tested", "counted"} /\ Fills(NameAt(b, i)) THEN 1 ELSE 0

CacheOK == /\ cache = [id |-> cache.id, nx |-> cache.nx]
           /\ (cache.id \in DOMAIN hbook => cache.nx = hbook[cache.id].nx)

Structure == TitlesOK /\ ListsOK /\ FlagsOK /\ TestsBooked /\ NumbersOK /\ SpecsOK
TestInv == FlagsApart /\ ScalersDue
HistInv == HistsApart /\ HistsBooked /\ InHbook /\ HistogramsDue
IInv == Structure /\ TestInv /\ HistInv /\ CacheOK

-----------------------------------------------------------------------------
(* Induction up to a number, and what the folds over lines work out.       *)

\* The naturals are well founded by their order.
LEMMA NaturalsWellFounded == IsWellFoundedOn({p \in Nat \X Nat : p[1] < p[2]}, Nat)
<1>1. OpToRel(<, Nat) = {p \in Nat \X Nat : p[1] < p[2]}
  BY DEF OpToRel
<1> QED
  BY <1>1, NatLessThanWellFounded

\* A set of naturals has a least one.
LEMMA LeastOf ==
  ASSUME NEW S \in SUBSET Nat, S # {}
  PROVE  \E m \in S : \A n \in S : m <= n
<1> DEFINE R == {p \in Nat \X Nat : p[1] < p[2]}
<1> HIDE DEF R
<1>1. IsWellFoundedOn(R, Nat)
  BY NaturalsWellFounded DEF R
<1>2. PICK m \in S : \A n \in S : ~(<<n, m>> \in R)
  BY <1>1, WFMin
<1>3. \A n \in S : ~(n < m)
  BY <1>2 DEF R
<1> QED
  BY <1>3

\* What holds of 0, and of i + 1 when it holds of i, holds up to n.
LEMMA UpTo ==
  ASSUME NEW n \in Nat, NEW S, 0 \in S, \A i \in 0 .. n - 1 : i \in S => i + 1 \in S
  PROVE  \A i \in 0 .. n : i \in S
<1> DEFINE T == {i \in 0 .. n : i \notin S}
<1> SUFFICES ASSUME T # {} PROVE FALSE
  OBVIOUS
<1>1. T \in SUBSET Nat
  OBVIOUS
<1>2. PICK t \in T : \A u \in T : t <= u
  <2> HIDE DEF T
  <2> QED
    BY <1>1, LeastOf
<1>3. t \in 0 .. n /\ t # 0 /\ t \notin S
  BY <1>2
<1>4. t - 1 \in 0 .. n - 1 /\ t - 1 \notin T
  <2>1. t - 1 \in 0 .. n - 1 /\ ~(t <= t - 1)
    BY <1>3
  <2> QED
    BY <1>2, <2>1
<1>5. t - 1 \in S
  BY <1>4
<1>6. (t - 1) + 1 \in S
  BY <1>4, <1>5
<1> QED
  BY <1>3, <1>6

\* h is what RunLines works out, up to the value m.
LineSteps(h, flags, lines, x, m) ==
  h = [i \in 0 .. m |-> IF i = 0 THEN flags ELSE Run(h[i - 1], lines[i], x)]

LEMMA LineStepsNext ==
  ASSUME NEW flags, NEW lines, NEW x, Len(lines) \in Nat, NEW m \in 0 .. Len(lines) - 1, \E h : LineSteps(h, flags, lines, x, m)
  PROVE  \E h : LineSteps(h, flags, lines, x, m + 1)
<1>1. PICK g : LineSteps(g, flags, lines, x, m)
  OBVIOUS
<1> DEFINE h == [i \in 0 .. m + 1 |-> IF i = m + 1 THEN Run(g[m], lines[m + 1], x) ELSE g[i]]
<1>2. \A i \in 0 .. m + 1 : h[i] = IF i = 0 THEN flags ELSE Run(h[i - 1], lines[i], x)
  <2> SUFFICES ASSUME NEW i \in 0 .. m + 1
               PROVE  h[i] = IF i = 0 THEN flags ELSE Run(h[i - 1], lines[i], x)
    OBVIOUS
  <2>1. CASE i = m + 1
    <3>1. h[i] = Run(g[m], lines[m + 1], x) /\ h[m] = g[m] /\ i - 1 = m /\ i # 0
      BY <2>1
    <3> QED
      BY <2>1, <3>1
  <2>2. CASE i # m + 1
    <3>1. i \in 0 .. m /\ h[i] = g[i]
      BY <2>2
    <3>2. g[i] = IF i = 0 THEN flags ELSE Run(g[i - 1], lines[i], x)
      BY <1>1, <3>1 DEF LineSteps
    <3>3. i # 0 => h[i - 1] = g[i - 1]
      BY <3>1
    <3> QED
      BY <3>1, <3>2, <3>3
  <2> QED
    BY <2>1, <2>2
<1>3. LineSteps(h, flags, lines, x, m + 1)
  BY <1>2 DEF LineSteps
<1> HIDE DEF h
<1> QED
  BY <1>3

LEMMA LineStepsIs ==
  ASSUME NEW flags, NEW lines, NEW x, Len(lines) \in Nat
  PROVE  \E h : LineSteps(h, flags, lines, x, Len(lines)) /\ RunLines(flags, lines, x) = h[Len(lines)]
<1> DEFINE n == Len(lines)
           S == {m \in 0 .. n : \E h : LineSteps(h, flags, lines, x, m)}
<1>1. 0 \in S
  <2>1. LineSteps([i \in 0 .. 0 |-> flags], flags, lines, x, 0)
    BY DEF LineSteps
  <2>2. 0 \in 0 .. n /\ \E h : LineSteps(h, flags, lines, x, 0)
    BY <2>1
  <2> QED
    BY <2>2
<1>2. \A m \in 0 .. n - 1 : m \in S => m + 1 \in S
  <2> SUFFICES ASSUME NEW m \in 0 .. n - 1, m \in S PROVE m + 1 \in S
    OBVIOUS
  <2>1. \E h : LineSteps(h, flags, lines, x, m + 1)
    BY LineStepsNext
  <2> QED
    BY <2>1
<1>3. n \in S
  <2>1. \A i \in 0 .. n : i \in S
    <3> HIDE DEF S
    <3> QED
      BY <1>1, <1>2, UpTo
  <2> QED
    BY <2>1
<1>4. \E h : LineSteps(h, flags, lines, x, n)
  BY <1>3
<1>5. LineSteps(CHOOSE h : LineSteps(h, flags, lines, x, n), flags, lines, x, n)
  BY <1>4
<1>6. RunLines(flags, lines, x) = (CHOOSE h : LineSteps(h, flags, lines, x, n))[n]
  BY DEF RunLines, LineSteps
<1> QED
  BY <1>5, <1>6

\* h is what RunBlocks works out, up to the value m.
BlockSteps(h, of, x, m) ==
  h = [i \in 0 .. m |-> IF i = 0 THEN flag ELSE RunLines(h[i - 1], of[list["test"][i]], x)]

LEMMA BlockStepsNext ==
  ASSUME NEW of, NEW x, Len(list["test"]) \in Nat, NEW m \in 0 .. Len(list["test"]) - 1, \E h : BlockSteps(h, of, x, m)
  PROVE  \E h : BlockSteps(h, of, x, m + 1)
<1>1. PICK g : BlockSteps(g, of, x, m)
  OBVIOUS
<1> DEFINE h == [i \in 0 .. m + 1 |-> IF i = m + 1 THEN RunLines(g[m], of[list["test"][m + 1]], x) ELSE g[i]]
<1>2. \A i \in 0 .. m + 1 : h[i] = IF i = 0 THEN flag ELSE RunLines(h[i - 1], of[list["test"][i]], x)
  <2> SUFFICES ASSUME NEW i \in 0 .. m + 1
               PROVE  h[i] = IF i = 0 THEN flag ELSE RunLines(h[i - 1], of[list["test"][i]], x)
    OBVIOUS
  <2>1. CASE i = m + 1
    <3>1. h[i] = RunLines(g[m], of[list["test"][m + 1]], x) /\ h[m] = g[m] /\ i - 1 = m /\ i # 0
      BY <2>1
    <3> QED
      BY <2>1, <3>1
  <2>2. CASE i # m + 1
    <3>1. i \in 0 .. m /\ h[i] = g[i]
      BY <2>2
    <3>2. g[i] = IF i = 0 THEN flag ELSE RunLines(g[i - 1], of[list["test"][i]], x)
      BY <1>1, <3>1 DEF BlockSteps
    <3>3. i # 0 => h[i - 1] = g[i - 1]
      BY <3>1
    <3> QED
      BY <3>1, <3>2, <3>3
  <2> QED
    BY <2>1, <2>2
<1>3. BlockSteps(h, of, x, m + 1)
  BY <1>2 DEF BlockSteps
<1> HIDE DEF h
<1> QED
  BY <1>3

LEMMA BlockStepsIs ==
  ASSUME NEW of, NEW x, Len(list["test"]) \in Nat
  PROVE  \E h : BlockSteps(h, of, x, Len(list["test"])) /\ RunBlocks(of, x) = h[Len(list["test"])]
<1> DEFINE n == Len(list["test"])
           S == {m \in 0 .. n : \E h : BlockSteps(h, of, x, m)}
<1>1. 0 \in S
  <2>1. BlockSteps([i \in 0 .. 0 |-> flag], of, x, 0)
    BY DEF BlockSteps
  <2>2. 0 \in 0 .. n /\ \E h : BlockSteps(h, of, x, 0)
    BY <2>1
  <2> QED
    BY <2>2
<1>2. \A m \in 0 .. n - 1 : m \in S => m + 1 \in S
  <2> SUFFICES ASSUME NEW m \in 0 .. n - 1, m \in S PROVE m + 1 \in S
    OBVIOUS
  <2>1. \E h : BlockSteps(h, of, x, m + 1)
    BY BlockStepsNext
  <2> QED
    BY <2>1
<1>3. n \in S
  <2>1. \A i \in 0 .. n : i \in S
    <3> HIDE DEF S
    <3> QED
      BY <1>1, <1>2, UpTo
  <2> QED
    BY <2>1
<1>4. \E h : BlockSteps(h, of, x, n)
  BY <1>3
<1>5. BlockSteps(CHOOSE h : BlockSteps(h, of, x, n), of, x, n)
  BY <1>4
<1>6. RunBlocks(of, x) = (CHOOSE h : BlockSteps(h, of, x, n))[n]
  BY DEF RunBlocks, BlockSteps
<1> QED
  BY <1>5, <1>6

\* h is what BookedTests works out, up to the value m.
TestSteps(h, b, junk, m) ==
  h = [i \in 0 .. m |-> IF i = 0 THEN [code |-> <<>>, vlist |-> <<>>, flag |-> flag, scaler |-> scaler] ELSE thBookaTest(h[i - 1], title[b][i], junk)]

LEMMA TestStepsNext ==
  ASSUME NEW b, NEW junk, Len(title[b]) \in Nat, NEW m \in 0 .. Len(title[b]) - 1, \E h : TestSteps(h, b, junk, m)
  PROVE  \E h : TestSteps(h, b, junk, m + 1)
<1>1. PICK g : TestSteps(g, b, junk, m)
  OBVIOUS
<1> DEFINE h == [i \in 0 .. m + 1 |-> IF i = m + 1 THEN thBookaTest(g[m], title[b][m + 1], junk) ELSE g[i]]
<1>2. \A i \in 0 .. m + 1 : h[i] = IF i = 0 THEN [code |-> <<>>, vlist |-> <<>>, flag |-> flag, scaler |-> scaler] ELSE thBookaTest(h[i - 1], title[b][i], junk)
  <2> SUFFICES ASSUME NEW i \in 0 .. m + 1
               PROVE  h[i] = IF i = 0 THEN [code |-> <<>>, vlist |-> <<>>, flag |-> flag, scaler |-> scaler] ELSE thBookaTest(h[i - 1], title[b][i], junk)
    OBVIOUS
  <2>1. CASE i = m + 1
    <3>1. h[i] = thBookaTest(g[m], title[b][m + 1], junk) /\ h[m] = g[m] /\ i - 1 = m /\ i # 0
      BY <2>1
    <3> QED
      BY <2>1, <3>1
  <2>2. CASE i # m + 1
    <3>1. i \in 0 .. m /\ h[i] = g[i]
      BY <2>2
    <3>2. g[i] = IF i = 0 THEN [code |-> <<>>, vlist |-> <<>>, flag |-> flag, scaler |-> scaler] ELSE thBookaTest(g[i - 1], title[b][i], junk)
      BY <1>1, <3>1 DEF TestSteps
    <3>3. i # 0 => h[i - 1] = g[i - 1]
      BY <3>1
    <3> QED
      BY <3>1, <3>2, <3>3
  <2> QED
    BY <2>1, <2>2
<1>3. TestSteps(h, b, junk, m + 1)
  BY <1>2 DEF TestSteps
<1> HIDE DEF h
<1> QED
  BY <1>3

LEMMA TestStepsIs ==
  ASSUME NEW b, NEW junk, Len(title[b]) \in Nat
  PROVE  \E h : TestSteps(h, b, junk, Len(title[b])) /\ BookedTests(b, junk) = h
<1> DEFINE n == Len(title[b])
           S == {m \in 0 .. n : \E h : TestSteps(h, b, junk, m)}
<1>1. 0 \in S
  <2>1. TestSteps([i \in 0 .. 0 |-> [code |-> <<>>, vlist |-> <<>>, flag |-> flag, scaler |-> scaler]], b, junk, 0)
    BY DEF TestSteps
  <2>2. 0 \in 0 .. n /\ \E h : TestSteps(h, b, junk, 0)
    BY <2>1
  <2> QED
    BY <2>2
<1>2. \A m \in 0 .. n - 1 : m \in S => m + 1 \in S
  <2> SUFFICES ASSUME NEW m \in 0 .. n - 1, m \in S PROVE m + 1 \in S
    OBVIOUS
  <2>1. \E h : TestSteps(h, b, junk, m + 1)
    BY TestStepsNext
  <2> QED
    BY <2>1
<1>3. n \in S
  <2>1. \A i \in 0 .. n : i \in S
    <3> HIDE DEF S
    <3> QED
      BY <1>1, <1>2, UpTo
  <2> QED
    BY <2>1
<1>4. \E h : TestSteps(h, b, junk, n)
  BY <1>3
<1>5. TestSteps(CHOOSE h : TestSteps(h, b, junk, n), b, junk, n)
  BY <1>4
<1>6. BookedTests(b, junk) = (CHOOSE h : TestSteps(h, b, junk, n))
  BY DEF BookedTests, TestSteps
<1> QED
  BY <1>5, <1>6

FirstHists(rem) ==
  [of |-> <<>>, maxID |-> maxID, hvar |-> hvar, hbook |-> rem.hbook, undefined |-> rem.undefined]

\* h is what BookedHists works out, up to the value m.
HistSteps(h, b, rem, m) ==
  h = [i \in 0 .. m |-> IF i = 0 THEN FirstHists(rem) ELSE thBookaHist(h[i - 1], title[b][i])]

LEMMA HistStepsNext ==
  ASSUME NEW b, NEW rem, Len(title[b]) \in Nat, NEW m \in 0 .. Len(title[b]) - 1, \E h : HistSteps(h, b, rem, m)
  PROVE  \E h : HistSteps(h, b, rem, m + 1)
<1>1. PICK g : HistSteps(g, b, rem, m)
  OBVIOUS
<1> DEFINE h == [i \in 0 .. m + 1 |-> IF i = m + 1 THEN thBookaHist(g[m], title[b][m + 1]) ELSE g[i]]
<1>2. \A i \in 0 .. m + 1 : h[i] = IF i = 0 THEN FirstHists(rem) ELSE thBookaHist(h[i - 1], title[b][i])
  <2> SUFFICES ASSUME NEW i \in 0 .. m + 1
               PROVE  h[i] = IF i = 0 THEN FirstHists(rem) ELSE thBookaHist(h[i - 1], title[b][i])
    OBVIOUS
  <2>1. CASE i = m + 1
    <3>1. h[i] = thBookaHist(g[m], title[b][m + 1]) /\ h[m] = g[m] /\ i - 1 = m /\ i # 0
      BY <2>1
    <3> QED
      BY <2>1, <3>1
  <2>2. CASE i # m + 1
    <3>1. i \in 0 .. m /\ h[i] = g[i]
      BY <2>2
    <3>2. g[i] = IF i = 0 THEN FirstHists(rem) ELSE thBookaHist(g[i - 1], title[b][i])
      BY <1>1, <3>1 DEF HistSteps
    <3>3. i # 0 => h[i - 1] = g[i - 1]
      BY <3>1
    <3> QED
      BY <3>1, <3>2, <3>3
  <2> QED
    BY <2>1, <2>2
<1>3. HistSteps(h, b, rem, m + 1)
  BY <1>2 DEF HistSteps
<1> HIDE DEF h
<1> QED
  BY <1>3

LEMMA HistStepsIs ==
  ASSUME NEW b, NEW rem, Len(title[b]) \in Nat
  PROVE  \E h : HistSteps(h, b, rem, Len(title[b])) /\ BookedHists(b, rem) = h[Len(title[b])]
<1> DEFINE n == Len(title[b])
           S == {m \in 0 .. n : \E h : HistSteps(h, b, rem, m)}
<1>1. 0 \in S
  <2>1. HistSteps([i \in 0 .. 0 |-> FirstHists(rem)], b, rem, 0)
    BY DEF HistSteps
  <2>2. 0 \in 0 .. n /\ \E h : HistSteps(h, b, rem, 0)
    BY <2>1
  <2> QED
    BY <2>2
<1>2. \A m \in 0 .. n - 1 : m \in S => m + 1 \in S
  <2> SUFFICES ASSUME NEW m \in 0 .. n - 1, m \in S PROVE m + 1 \in S
    OBVIOUS
  <2>1. \E h : HistSteps(h, b, rem, m + 1)
    BY HistStepsNext
  <2> QED
    BY <2>1
<1>3. n \in S
  <2>1. \A i \in 0 .. n : i \in S
    <3> HIDE DEF S
    <3> QED
      BY <1>1, <1>2, UpTo
  <2> QED
    BY <2>1
<1>4. \E h : HistSteps(h, b, rem, n)
  BY <1>3
<1>5. HistSteps(CHOOSE h : HistSteps(h, b, rem, n), b, rem, n)
  BY <1>4
<1>6. BookedHists(b, rem) = (CHOOSE h : HistSteps(h, b, rem, n))[n]
  BY DEF BookedHists, HistSteps, FirstHists
<1> QED
  BY <1>5, <1>6

-----------------------------------------------------------------------------
(* Running the tests leaves every flag zero or one.                        *)

LEMMA RunType ==
  ASSUME NEW F, NEW flags \in [F -> {0, 1}], NEW line, line.dst \in F,
         line.src \in Inputs \cup {Zero} \cup F, NEW x \in [Inputs -> {0, 1}]
  PROVE  Run(flags, line, x) \in [F -> {0, 1}]
<1> DEFINE v == IF line.src \in Inputs THEN x[line.src] ELSE IF line.src = Zero THEN 0 ELSE flags[line.src]
           w == IF line.neg THEN 1 - v ELSE v
<1>1. v \in {0, 1}
  OBVIOUS
<1>2. w \in {0, 1}
  <2> HIDE DEF v
  <2>1. 1 - v \in {0, 1}
    BY <1>1
  <2> QED
    BY <1>1, <2>1
<1>3. Run(flags, line, x) = [flags EXCEPT ![line.dst] = w]
  BY DEF Run
<1> HIDE DEF w
<1> QED
  BY <1>2, <1>3

LEMMA RunLinesType ==
  ASSUME NEW F, NEW flags \in [F -> {0, 1}], NEW lines, Runs(lines, F), NEW x \in [Inputs -> {0, 1}]
  PROVE  RunLines(flags, lines, x) \in [F -> {0, 1}]
<1> DEFINE n == Len(lines)
<1>1. n \in Nat
  BY DEF Runs
<1>2. PICK h : LineSteps(h, flags, lines, x, n) /\ RunLines(flags, lines, x) = h[n]
  BY <1>1, LineStepsIs
<1> DEFINE S == {i \in 0 .. n : h[i] \in [F -> {0, 1}]}
<1>3. 0 \in S
  BY <1>1, <1>2 DEF LineSteps
<1>4. \A i \in 0 .. n - 1 : i \in S => i + 1 \in S
  <2> SUFFICES ASSUME NEW i \in 0 .. n - 1, i \in S PROVE i + 1 \in S
    OBVIOUS
  <2>1. i + 1 \in 0 .. n /\ i + 1 # 0 /\ (i + 1) - 1 = i /\ i + 1 \in 1 .. n
    BY <1>1
  <2>2. h[i + 1] = Run(h[i], lines[i + 1], x)
    <3> HIDE DEF n
    <3> QED
      BY <1>2, <2>1 DEF LineSteps
  <2>3. lines[i + 1].dst \in F /\ lines[i + 1].src \in Inputs \cup {Zero} \cup F
    BY <2>1 DEF Runs
  <2>4. h[i] \in [F -> {0, 1}]
    OBVIOUS
  <2>5. h[i + 1] \in [F -> {0, 1}]
    BY <2>2, <2>3, <2>4, RunType
  <2> QED
    BY <2>1, <2>5
<1>5. \A i \in 0 .. n : i \in S
  <2> HIDE DEF S, n
  <2> QED
    BY <1>1, <1>3, <1>4, UpTo
<1> QED
  BY <1>1, <1>2, <1>5

LEMMA RunBlocksType ==
  ASSUME NEW of, Len(list["test"]) \in Nat, flag \in [DOMAIN flag -> {0, 1}],
         \A i \in 1 .. Len(list["test"]) : Runs(of[list["test"][i]], DOMAIN flag),
         NEW x \in [Inputs -> {0, 1}]
  PROVE  RunBlocks(of, x) \in [DOMAIN flag -> {0, 1}]
<1> DEFINE n == Len(list["test"])
           F == DOMAIN flag
<1>1. n \in Nat
  OBVIOUS
<1>2. PICK h : BlockSteps(h, of, x, n) /\ RunBlocks(of, x) = h[n]
  BY <1>1, BlockStepsIs
<1> DEFINE S == {i \in 0 .. n : h[i] \in [F -> {0, 1}]}
<1>3. 0 \in S
  BY <1>1, <1>2 DEF BlockSteps
<1>4. \A i \in 0 .. n - 1 : i \in S => i + 1 \in S
  <2> SUFFICES ASSUME NEW i \in 0 .. n - 1, i \in S PROVE i + 1 \in S
    OBVIOUS
  <2>1. i + 1 \in 0 .. n /\ i + 1 # 0 /\ (i + 1) - 1 = i /\ i + 1 \in 1 .. n
    BY <1>1
  <2>2. h[i + 1] = RunLines(h[i], of[list["test"][i + 1]], x)
    <3> HIDE DEF n
    <3> QED
      BY <1>2, <2>1 DEF BlockSteps
  <2>3. Runs(of[list["test"][i + 1]], F)
    BY <2>1
  <2>4. h[i] \in [F -> {0, 1}]
    OBVIOUS
  <2>5. h[i + 1] \in [F -> {0, 1}]
    <3> HIDE DEF F
    <3> QED
      BY <2>2, <2>3, <2>4, RunLinesType
  <2> QED
    BY <2>1, <2>5
<1>5. \A i \in 0 .. n : i \in S
  <2> HIDE DEF S, n
  <2> QED
    BY <1>1, <1>3, <1>4, UpTo
<1> QED
  BY <1>1, <1>2, <1>5

-----------------------------------------------------------------------------
(* Booking a block of tests, line by line.                                 *)

LEMMA WithFacts ==
  ASSUME NEW g, NEW z, NEW v
  PROVE  /\ DOMAIN With(g, z, v) = DOMAIN g \cup {z}
         /\ With(g, z, v)[z] = v
         /\ \A y \in DOMAIN g : y # z => With(g, z, v)[y] = g[y]
  BY DEF With

\* The results of the first i lines
FlagsTo(b, i) == {title[b][j].dst : j \in 1 .. i}

\* A line as it is booked, when the flags F are there
BookedLine(line, F) == IF line.src \in Inputs \cup F THEN line ELSE WithZero(line)

CodeLines == TestLines \cup {WithZero(line) : line \in TestLines}

\* What booking has made of the first i lines, when h[j] was there after the line j
TestsTo(h, b, i) ==
  /\ h[i].code \in Seq(CodeLines) /\ Len(h[i].code) = i
  /\ \A j \in 1 .. i : h[i].code[j] = BookedLine(title[b][j], DOMAIN h[j].flag)
  /\ \A j \in 1 .. i : DOMAIN h[j].flag \subseteq DOMAIN h[i].flag
  /\ h[i].vlist \in Seq(STRING) /\ ToSet(h[i].vlist) = FlagsTo(b, i)
  /\ h[i].flag \in [DOMAIN flag \cup FlagsTo(b, i) -> {0, 1}]
  /\ DOMAIN h[i].scaler = DOMAIN flag \cup FlagsTo(b, i)
  /\ \A y \in DOMAIN h[i].scaler : h[i].scaler[y] = IF y \in FlagsTo(b, i) THEN 0 ELSE scaler[y]

LEMMA AppendFacts ==
  ASSUME NEW T, NEW s \in Seq(T), NEW e \in T
  PROVE  /\ Append(s, e) \in Seq(T) /\ Len(Append(s, e)) = Len(s) + 1
         /\ DOMAIN Append(s, e) = 1 .. Len(s) + 1
         /\ \A i \in 1 .. Len(s) : Append(s, e)[i] = s[i]
         /\ Append(s, e)[Len(s) + 1] = e
         /\ ToSet(Append(s, e)) = ToSet(s) \cup {e}
  BY DEF ToSet

LEMMA AddVarFacts ==
  ASSUME NEW T, NEW s \in Seq(T), NEW e \in T
  PROVE  thAddVarToList(s, e) \in Seq(T) /\ ToSet(thAddVarToList(s, e)) = ToSet(s) \cup {e}
<1>1. CASE e \in ToSet(s)
  BY <1>1 DEF thAddVarToList
<1>2. CASE e \notin ToSet(s)
  BY <1>2, AppendFacts DEF thAddVarToList
<1> QED
  BY <1>1, <1>2

LEMMA LineIs ==
  ASSUME NEW line \in TestLines, NEW F
  PROVE  /\ BookedLine(line, F) \in CodeLines
         /\ BookedLine(line, F).dst = line.dst /\ BookedLine(line, F).neg = line.neg
         /\ BookedLine(line, F).src \in Inputs \cup {Zero} \cup F
<1>1. line = [dst |-> line.dst, src |-> line.src, neg |-> line.neg]
  BY DEF TestLines
<1>2. WithZero(line) = [dst |-> line.dst, src |-> Zero, neg |-> line.neg]
  BY <1>1 DEF WithZero
<1>3. CASE line.src \in Inputs \cup F
  BY <1>3 DEF BookedLine, CodeLines
<1>4. CASE line.src \notin Inputs \cup F
  BY <1>2, <1>4 DEF BookedLine, CodeLines
<1> QED
  BY <1>3, <1>4

LEMMA FlagsToNext ==
  ASSUME NEW b, NEW i \in Nat
  PROVE  FlagsTo(b, i + 1) = FlagsTo(b, i) \cup {title[b][i + 1].dst}
<1>1. 1 .. i + 1 = (1 .. i) \cup {i + 1}
  OBVIOUS
<1> QED
  BY <1>1 DEF FlagsTo

LEMMA TestsToNext ==
  ASSUME NEW h, NEW b, NEW i \in Nat, NEW junk \in {0, 1}, TestsTo(h, b, i), title[b][i + 1] \in TestLines,
         h[i + 1] = thBookaTest(h[i], title[b][i + 1], junk)
  PROVE  TestsTo(h, b, i + 1)
<1> DEFINE line == title[b][i + 1]
           F == DOMAIN flag \cup FlagsTo(b, i)
           G == DOMAIN flag \cup FlagsTo(b, i + 1)
           flags == NewFlag(h[i].flag, line.dst, junk)
<1>1. line.dst \in STRING
  BY DEF TestLines
<1>2. FlagsTo(b, i + 1) = FlagsTo(b, i) \cup {line.dst} /\ G = F \cup {line.dst}
  BY FlagsToNext
<1>3. h[i].flag \in [F -> {0, 1}] /\ DOMAIN h[i].scaler = F
  BY DEF TestsTo
<1>4. /\ h[i + 1].flag = flags /\ h[i + 1].vlist = thAddVarToList(h[i].vlist, line.dst)
      /\ h[i + 1].scaler = With(h[i].scaler, line.dst, 0)
      /\ h[i + 1].code = Append(h[i].code, IF Resolved(flags, line) THEN line ELSE WithZero(line))
  BY DEF thBookaTest, ZeroScaler
<1>5. flags \in [G -> {0, 1}] /\ DOMAIN flags = G
  <2> HIDE DEF line, F, G
  <2>1. CASE line.dst \in F
    <3>1. flags = h[i].flag /\ G = F
      BY <1>2, <1>3, <2>1 DEF NewFlag
    <3> QED
      BY <1>3, <3>1
  <2>2. CASE line.dst \notin F
    <3>1. flags = With(h[i].flag, line.dst, junk)
      BY <1>3, <2>2 DEF NewFlag
    <3>2. flags = [y \in G |-> IF y = line.dst THEN junk ELSE h[i].flag[y]]
      BY <1>2, <1>3, <3>1 DEF With
    <3>3. \A y \in G : (IF y = line.dst THEN junk ELSE h[i].flag[y]) \in {0, 1}
      BY <1>2, <1>3
    <3> QED
      BY <3>2, <3>3
  <2> QED
    BY <2>1, <2>2
<1>6. h[i + 1].vlist \in Seq(STRING) /\ ToSet(h[i + 1].vlist) = FlagsTo(b, i + 1)
  <2>1. h[i].vlist \in Seq(STRING) /\ ToSet(h[i].vlist) = FlagsTo(b, i)
    BY DEF TestsTo
  <2>2. PICK s \in Seq(STRING) : s = h[i].vlist
    BY <2>1
  <2>3. thAddVarToList(s, line.dst) \in Seq(STRING) /\ ToSet(thAddVarToList(s, line.dst)) = ToSet(s) \cup {line.dst}
    <3> HIDE DEF line
    <3> QED
      BY <1>1, AddVarFacts
  <2> HIDE DEF line, F, G, flags
  <2> QED
    BY <1>2, <1>4, <2>1, <2>2, <2>3
<1>7. /\ DOMAIN h[i + 1].scaler = G
      /\ \A y \in G : h[i + 1].scaler[y] = IF y \in FlagsTo(b, i + 1) THEN 0 ELSE scaler[y]
  <2>1. \A y \in F : h[i].scaler[y] = IF y \in FlagsTo(b, i) THEN 0 ELSE scaler[y]
    BY <1>3 DEF TestsTo
  <2> HIDE DEF line, F, G, flags
  <2>2. h[i + 1].scaler = [y \in G |-> IF y = line.dst THEN 0 ELSE h[i].scaler[y]]
    BY <1>2, <1>3, <1>4 DEF With
  <2> QED
    BY <1>2, <2>1, <2>2
<1>8. /\ h[i + 1].code \in Seq(CodeLines) /\ Len(h[i + 1].code) = i + 1
      /\ \A j \in 1 .. i + 1 : h[i + 1].code[j] = BookedLine(title[b][j], DOMAIN h[j].flag)
  <2>1. h[i].code \in Seq(CodeLines) /\ Len(h[i].code) = i
        /\ \A j \in 1 .. i : h[i].code[j] = BookedLine(title[b][j], DOMAIN h[j].flag)
    BY DEF TestsTo
  <2>2. h[i + 1].code = Append(h[i].code, BookedLine(line, DOMAIN h[i + 1].flag))
    BY <1>4 DEF Resolved, BookedLine
  <2>3. BookedLine(line, DOMAIN h[i + 1].flag) \in CodeLines
    BY LineIs
  <2>4. /\ h[i + 1].code \in Seq(CodeLines) /\ Len(h[i + 1].code) = i + 1
        /\ \A j \in 1 .. i : h[i + 1].code[j] = h[i].code[j]
        /\ h[i + 1].code[i + 1] = BookedLine(line, DOMAIN h[i + 1].flag)
    <3> HIDE DEF line
    <3> QED
      BY <2>1, <2>2, <2>3, AppendFacts
  <2>5. \A j \in 1 .. i + 1 : j \in 1 .. i \/ j = i + 1
    OBVIOUS
  <2> QED
    BY <2>1, <2>4, <2>5
<1>9. \A j \in 1 .. i + 1 : DOMAIN h[j].flag \subseteq DOMAIN h[i + 1].flag
  <2>1. \A j \in 1 .. i : DOMAIN h[j].flag \subseteq F
    BY <1>3 DEF TestsTo
  <2>2. \A j \in 1 .. i + 1 : j \in 1 .. i \/ j = i + 1
    OBVIOUS
  <2>3. DOMAIN h[i + 1].flag = G /\ F \subseteq G
    BY <1>2, <1>4, <1>5
  <2> QED
    BY <2>1, <2>2, <2>3
<1> HIDE DEF line, F, flags
<1> QED
  BY <1>4, <1>5, <1>6, <1>7, <1>8, <1>9 DEF TestsTo

\* What booking the block b of tests comes to, when acc[i] was there after the line i
TestsDone(acc, b) ==
  LET end == acc[Len(title[b])]
      S == {i \in DOMAIN title[b] : Resolved(acc[i].flag, title[b][i])}
  IN /\ end.code = [i \in DOMAIN title[b] |-> IF i \in S THEN title[b][i] ELSE WithZero(title[b][i])]
     /\ Runs(end.code, DOMAIN end.flag)
     /\ end.vlist \in Seq(STRING) /\ ToSet(end.vlist) = Flags(b)
     /\ end.flag \in [DOMAIN flag \cup Flags(b) -> {0, 1}]
     /\ DOMAIN end.scaler = DOMAIN flag \cup Flags(b)
     /\ \A y \in DOMAIN end.scaler : end.scaler[y] = IF y \in Flags(b) THEN 0 ELSE scaler[y]

LEMMA BookedTestsIs ==
  ASSUME TitlesOK, FlagsOK, NEW b \in TestBlocks, NEW junk \in {0, 1}
  PROVE  TestsDone(BookedTests(b, junk), b)
<1> DEFINE n == Len(title[b])
           h == BookedTests(b, junk)
<1>1. title[b] \in Seq(TestLines) /\ n \in Nat /\ DOMAIN title[b] = 1 .. n
      /\ \A i \in 1 .. n : title[b][i] \in TestLines
  BY DEF TitlesOK
<1>2. TestSteps(h, b, junk, n)
  BY <1>1, TestStepsIs
<1> HIDE DEF h
<1> DEFINE S == {i \in 0 .. n : TestsTo(h, b, i)}
<1>3. 0 \in S
  <2>1. h[0] = [code |-> <<>>, vlist |-> <<>>, flag |-> flag, scaler |-> scaler]
    BY <1>1, <1>2 DEF TestSteps
  <2>2. FlagsTo(b, 0) = {} /\ ToSet(<<>>) = {} /\ Len(<<>>) = 0
    BY DEF FlagsTo, ToSet
  <2>3. flag \in [DOMAIN flag -> {0, 1}] /\ DOMAIN scaler = DOMAIN flag
    BY DEF FlagsOK
  <2>4. \A T : <<>> \in Seq(T)
    OBVIOUS
  <2>5. \A j : j \notin 1 .. 0
    OBVIOUS
  <2>6. h[0].code = <<>> /\ h[0].vlist = <<>> /\ h[0].flag = flag /\ h[0].scaler = scaler
    BY <2>1
  <2>7. h[0].code \in Seq(CodeLines) /\ Len(h[0].code) = 0 /\ h[0].vlist \in Seq(STRING)
        /\ ToSet(h[0].vlist) = FlagsTo(b, 0)
    BY <2>2, <2>4, <2>6
  <2>8. DOMAIN flag \cup FlagsTo(b, 0) = DOMAIN flag
    BY <2>2
  <2>9. /\ h[0].flag \in [DOMAIN flag \cup FlagsTo(b, 0) -> {0, 1}]
        /\ DOMAIN h[0].scaler = DOMAIN flag \cup FlagsTo(b, 0)
        /\ \A y \in DOMAIN h[0].scaler : h[0].scaler[y] = IF y \in FlagsTo(b, 0) THEN 0 ELSE scaler[y]
    BY <2>2, <2>3, <2>6, <2>8
  <2>10. TestsTo(h, b, 0)
    BY <2>5, <2>7, <2>9 DEF TestsTo
  <2> QED
    BY <1>1, <2>10
<1>4. \A i \in 0 .. n - 1 : i \in S => i + 1 \in S
  <2> SUFFICES ASSUME NEW i \in 0 .. n - 1, i \in S PROVE i + 1 \in S
    OBVIOUS
  <2>1. i \in Nat /\ i + 1 \in 0 .. n /\ i + 1 # 0 /\ (i + 1) - 1 = i /\ i + 1 \in 1 .. n
    BY <1>1
  <2>2. h[i + 1] = thBookaTest(h[i], title[b][i + 1], junk)
    <3> HIDE DEF n
    <3> QED
      BY <1>2, <2>1 DEF TestSteps
  <2>3. TestsTo(h, b, i + 1)
    <3>1. TestsTo(h, b, i) /\ title[b][i + 1] \in TestLines
      BY <1>1, <2>1
    <3> QED
      BY <2>1, <2>2, <3>1, TestsToNext
  <2> QED
    BY <2>1, <2>3
<1>5. \A i \in 0 .. n : TestsTo(h, b, i)
  <2>1. \A i \in 0 .. n : i \in S
    <3> HIDE DEF S, n
    <3> QED
      BY <1>1, <1>3, <1>4, UpTo
  <2> QED
    BY <2>1
<1>6. TestsTo(h, b, n)
  BY <1>1, <1>5
<1>7. FlagsTo(b, n) = Flags(b)
  BY <1>1 DEF FlagsTo, Flags
<1>8. DOMAIN h[n].flag = DOMAIN flag \cup Flags(b)
  BY <1>6, <1>7 DEF TestsTo
<1> DEFINE R == {i \in DOMAIN title[b] : Resolved(h[i].flag, title[b][i])}
           booked == [i \in DOMAIN title[b] |-> IF i \in R THEN title[b][i] ELSE WithZero(title[b][i])]
<1>9. h[n].code \in Seq(CodeLines) /\ Len(h[n].code) = n /\ DOMAIN h[n].code = 1 .. n
      /\ \A i \in 1 .. n : h[n].code[i] = BookedLine(title[b][i], DOMAIN h[i].flag)
  BY <1>1, <1>6 DEF TestsTo
<1>10. h[n].code = booked
  <2>1. \A i \in 1 .. n : BookedLine(title[b][i], DOMAIN h[i].flag) = booked[i]
    BY <1>1 DEF BookedLine, Resolved
  <2>2. DOMAIN booked = 1 .. n
    BY <1>1
  <2>3. h[n].code = [i \in 1 .. n |-> h[n].code[i]]
    BY <1>9
  <2>4. booked = [i \in 1 .. n |-> booked[i]]
    BY <1>1
  <2> HIDE DEF booked
  <2> QED
    BY <1>9, <2>1, <2>3, <2>4
<1>11. Runs(h[n].code, DOMAIN h[n].flag)
  <2> SUFFICES ASSUME NEW i \in 1 .. n
               PROVE  /\ h[n].code[i].dst \in DOMAIN h[n].flag
                      /\ h[n].code[i].src \in Inputs \cup {Zero} \cup DOMAIN h[n].flag
                      /\ h[n].code[i].neg \in BOOLEAN
    BY <1>1, <1>9 DEF Runs
  <2>1. title[b][i] \in TestLines /\ title[b][i].neg \in BOOLEAN /\ title[b][i].dst \in Flags(b)
    BY <1>1 DEF TestLines, Flags
  <2>2. DOMAIN h[i].flag \subseteq DOMAIN h[n].flag
    BY <1>6 DEF TestsTo
  <2>3. /\ h[n].code[i].dst = title[b][i].dst /\ h[n].code[i].neg = title[b][i].neg
        /\ h[n].code[i].src \in Inputs \cup {Zero} \cup DOMAIN h[i].flag
    BY <1>9, <2>1, LineIs
  <2> QED
    BY <1>8, <2>1, <2>2, <2>3
<1>12. /\ h[n].vlist \in Seq(STRING) /\ ToSet(h[n].vlist) = Flags(b)
       /\ h[n].flag \in [DOMAIN flag \cup Flags(b) -> {0, 1}]
       /\ DOMAIN h[n].scaler = DOMAIN flag \cup Flags(b)
       /\ \A y \in DOMAIN h[n].scaler : h[n].scaler[y] = IF y \in Flags(b) THEN 0 ELSE scaler[y]
  BY <1>6, <1>7 DEF TestsTo
<1> QED
  BY <1>10, <1>11, <1>12 DEF TestsDone, h

-----------------------------------------------------------------------------
(* What a step keeps that leaves the booked blocks of B alone.             *)

Kept(B) ==
  \A b \in B : varptr'[b] # NotBooked =>
    varptr[b] # NotBooked /\ title'[b] = title[b] /\ taken'[b] = taken[b]

\* Blocks of tests and of histograms are of different classes.
LEMMA Classes ==
  /\ \A b \in TestBlocks : b \in Blocks /\ b[1] = "test" /\ b \notin HistBlocks
  /\ \A b \in HistBlocks : b \in Blocks /\ b[1] \in {"hist", "uhist"} /\ b \notin TestBlocks
  BY CtpBlocksAssumption DEF Blocks

\* The flags a booked block gives are registered.
LEMMA FlagsKnown ==
  ASSUME TitlesOK, TestsBooked, NEW b \in TestBlocks, IsBooked(b)
  PROVE  Flags(b) \subseteq DOMAIN flag
<1> DEFINE n == Len(title[b])
<1>1. title[b] \in Seq(TestLines) /\ n \in Nat /\ DOMAIN title[b] = 1 .. n
  BY DEF TitlesOK
<1>2. code[b] = BookedLines(b) /\ Runs(code[b], DOMAIN flag)
  BY DEF TestsBooked
<1>3. DOMAIN BookedLines(b) = 1 .. n
  BY <1>1 DEF BookedLines
<1>4. \A i \in 1 .. n : BookedLines(b)[i].dst \in DOMAIN flag
  BY <1>2, <1>3 DEF Runs
<1>5. \A i \in 1 .. n : BookedLines(b)[i].dst = title[b][i].dst
  <2> SUFFICES ASSUME NEW i \in 1 .. n PROVE BookedLines(b)[i].dst = title[b][i].dst
    OBVIOUS
  <2>1. PICK line \in TestLines : line = title[b][i]
    BY <1>1
  <2>2. WithZero(line).dst = line.dst
    <3>1. line = [dst |-> line.dst, src |-> line.src, neg |-> line.neg]
      BY DEF TestLines
    <3> QED
      BY <3>1 DEF WithZero
  <2>3. BookedLines(b)[i] = IF i \in taken[b] THEN title[b][i] ELSE WithZero(title[b][i])
    BY <1>1 DEF BookedLines
  <2> QED
    BY <2>1, <2>2, <2>3
<1> QED
  BY <1>1, <1>4, <1>5 DEF Flags

LEMMA TestsFrame ==
  ASSUME TestsBooked, FlagsApart, Kept(TestBlocks), UNCHANGED <<code, vlist>>, DOMAIN taken' = Blocks,
         DOMAIN flag \subseteq DOMAIN flag', shared \subseteq shared'
  PROVE  TestsBooked' /\ FlagsApart'
<1>1. \A b \in TestBlocks : varptr'[b] # NotBooked => IsBooked(b) /\ Flags(b)' = Flags(b) /\ BookedLines(b)' = BookedLines(b)
  BY DEF Kept, IsBooked, Flags, BookedLines
<1>2. FlagsApart'
  BY <1>1 DEF FlagsApart, IsBooked
<1>3. \A lines : Runs(lines, DOMAIN flag) => Runs(lines, DOMAIN flag')
  BY DEF Runs
<1>4. ASSUME NEW b \in TestBlocks, IsBooked(b)'
      PROVE  (code[b] = BookedLines(b) /\ Runs(code[b], DOMAIN flag) /\ ToSet(vlist[b]) = Flags(b))'
  <2>1. code[b] = BookedLines(b) /\ Runs(code[b], DOMAIN flag) /\ ToSet(vlist[b]) = Flags(b)
    BY <1>1, <1>4 DEF TestsBooked, IsBooked
  <2>2. code'[b] = BookedLines(b)' /\ ToSet(vlist'[b]) = Flags(b)'
    BY <1>1, <1>4, <2>1 DEF IsBooked
  <2>3. Runs(code'[b], DOMAIN flag')
    BY <1>3, <2>1
  <2>4. (Runs(code[b], DOMAIN flag))'
    BY <2>3 DEF Runs
  <2> QED
    BY <2>2, <2>4
<1>5. DOMAIN code' = TestBlocks /\ vlist' \in [TestBlocks -> Seq(STRING)]
  BY DEF TestsBooked
<1> QED
  BY <1>2, <1>4, <1>5 DEF TestsBooked

LEMMA ScalersFrame ==
  ASSUME ScalersDue, Kept(TestBlocks), UNCHANGED <<scaler, dueS>>, shared \subseteq shared',
         \/ UNCHANGED <<phase, flag>>
         \/ phase # "tested" /\ phase' # "tested"
  PROVE  ScalersDue'
<1>1. \A b \in TestBlocks : varptr'[b] # NotBooked => IsBooked(b) /\ Flags(b)' = Flags(b)
  BY DEF Kept, IsBooked, Flags
<1> QED
  BY <1>1 DEF ScalersDue, IsBooked

LEMMA HistsFrame ==
  ASSUME HistsApart, HistsBooked, InHbook, Kept(HistBlocks), UNCHANGED <<specs, hvar>>,
         DOMAIN hbook' = DOMAIN hbook, DOMAIN flag \subseteq DOMAIN flag', shared \subseteq shared'
  PROVE  HistsApart' /\ HistsBooked' /\ InHbook'
<1>1. HistsApart'
  BY DEF HistsApart
<1>2. ASSUME NEW b \in HistBlocks, IsBooked(b)'
      PROVE  /\ IsBooked(b) /\ title'[b] = title[b] /\ taken'[b] = taken[b]
  BY <1>2 DEF Kept, IsBooked
<1>3. HistsBooked'
  BY SMTT(30), <1>2 DEF HistsBooked, Named, NameAt, ByCTP
<1>4. InHbook'
  BY <1>2 DEF InHbook, NameAt, Alone
<1> QED
  BY <1>1, <1>3, <1>4

LEMMA HistogramsFrame ==
  ASSUME HistogramsDue, Kept(HistBlocks), UNCHANGED <<hvar, hbook, dueH>>, shared \subseteq shared',
         \/ UNCHANGED <<phase, flag>>
         \/ phase \notin {"tested", "counted"} /\ phase' \notin {"tested", "counted"}
  PROVE  HistogramsDue'
<1>1. ASSUME NEW b \in HistBlocks, IsBooked(b)'
      PROVE  /\ IsBooked(b) /\ title'[b] = title[b] /\ taken'[b] = taken[b]
  BY <1>1 DEF Kept, IsBooked
<1>2. CASE UNCHANGED <<phase, flag>>
  BY <1>1, <1>2 DEF HistogramsDue, NameAt, ByCTP, Alone, Fills
<1>3. CASE phase \notin {"tested", "counted"} /\ phase' \notin {"tested", "counted"}
  BY <1>1, <1>3 DEF HistogramsDue, NameAt, ByCTP, Alone
<1> QED
  BY <1>2, <1>3

-----------------------------------------------------------------------------
(* The steps that book nothing.                                            *)

LEMMA InitIs ==
  ASSUME Init
  PROVE  IInv
<1>1. \A T : <<>> \in Seq(T)
  OBVIOUS
<1>2. \A b \in Blocks : ~IsBooked(b)
  BY DEF Init, IsBooked
<1>3. DOMAIN Empty = {}
  BY DEF Empty
<1>4. ToSet(<<>>) = {}
  BY DEF ToSet
<1>5. TitlesOK
  BY <1>1, Classes DEF Init, TitlesOK
<1>6. ListsOK
  BY <1>1, <1>2, <1>4 DEF Init, ListsOK
<1>7. FlagsOK
  BY <1>3 DEF Init, FlagsOK
<1>8. TestsBooked
  BY <1>1, <1>2, Classes DEF Init, TestsBooked
<1>9. NumbersOK
  <2>1. hvar = Empty /\ hbook = Empty /\ dueH = Empty /\ maxID = 0
    BY DEF Init
  <2>2. hvar = [h \in DOMAIN hvar |-> [id |-> hvar[h].id, def |-> hvar[h].def]]
    BY <1>3, <2>1 DEF Empty
  <2>3. hbook = [id \in DOMAIN hbook |-> [n |-> hbook[id].n, nx |-> hbook[id].nx]]
    BY <1>3, <2>1 DEF Empty
  <2>4. Numbered(hvar, hbook, maxID)
    BY <1>3, <2>1, <2>2, <2>3 DEF Numbered
  <2> QED
    BY <1>3, <2>1, <2>4 DEF NumbersOK
<1>10. SpecsOK
  BY <1>1, <1>4 DEF Init, SpecsOK
<1>11. FlagsApart /\ ScalersDue
  BY <1>2, Classes DEF FlagsApart, ScalersDue
<1>12. HistsApart
  BY <1>4 DEF Init, HistsApart
<1>13. HistsBooked /\ InHbook /\ HistogramsDue
  BY <1>2, Classes DEF HistsBooked, InHbook, HistogramsDue
<1>14. CacheOK
  BY <1>3 DEF Init, CacheOK
<1> QED
  BY <1>5, <1>6, <1>7, <1>8, <1>9, <1>10, <1>11, <1>12, <1>13, <1>14
     DEF IInv, Structure, TestInv, HistInv

\* What the histograms keep when nothing of them changes.
LEMMA HistsSame ==
  ASSUME IInv, UNCHANGED <<hists, dueH>>, Kept(HistBlocks), DOMAIN flag \subseteq DOMAIN flag', shared \subseteq shared',
         phase \notin {"tested", "counted"} /\ phase' \notin {"tested", "counted"}
  PROVE  NumbersOK' /\ SpecsOK' /\ HistInv' /\ CacheOK'
<1>1. NumbersOK'
  BY DEF IInv, Structure, NumbersOK, Numbered, hists
<1>2. SpecsOK'
  BY DEF IInv, Structure, SpecsOK, hists
<1>3. CacheOK'
  BY DEF IInv, CacheOK, hists
<1>4. HistsApart' /\ HistsBooked' /\ InHbook'
  BY HistsFrame DEF IInv, HistInv, hists
<1>5. HistogramsDue'
  BY HistogramsFrame DEF IInv, HistInv, hists
<1> QED
  BY <1>1, <1>2, <1>3, <1>4, <1>5 DEF HistInv

LEMMA LoadKeeps ==
  ASSUME IInv, NEW b \in Blocks, Load(b)
  PROVE  IInv'
<1> USE DEF Load, tests, hists, history
<1>1. TitlesOK'
  BY CtpBlocksAssumption, Classes DEF IInv, Structure, TitlesOK
<1>2. b[1] \in {"test", "hist", "uhist"}
  BY Classes DEF Blocks
<1>3. list'[b[1]] \in Seq(Blocks) /\ ToSet(list'[b[1]]) = ToSet(list[b[1]]) \cup {b}
  <2>1. list \in [{"test", "hist", "uhist"} -> Seq(Blocks)]
    BY DEF IInv, Structure, ListsOK
  <2>2. PICK s \in Seq(Blocks) : s = list[b[1]]
    BY <1>2, <2>1
  <2>3. thAddVarToList(s, b) \in Seq(Blocks) /\ ToSet(thAddVarToList(s, b)) = ToSet(s) \cup {b}
    BY AddVarFacts
  <2>4. list'[b[1]] = thAddVarToList(s, b)
    BY <1>2, <2>1, <2>2
  <2> QED
    BY <2>2, <2>3, <2>4
<1>4. \A c \in {"test", "hist", "uhist"} \ {b[1]} : list'[c] = list[c]
  BY DEF IInv, Structure, ListsOK
<1>5. DOMAIN varptr = Blocks /\ varptr' = [varptr EXCEPT ![b] = NotBooked]
  BY DEF IInv, Structure, ListsOK
<1>6. ListsOK'
  <2>1. DOMAIN list' = {"test", "hist", "uhist"} /\ list' = [c \in {"test", "hist", "uhist"} |-> list'[c]]
    BY DEF IInv, Structure, ListsOK
  <2>2. \A c \in {"test", "hist", "uhist"} : list'[c] \in Seq(Blocks)
    BY <1>3, <1>4 DEF IInv, Structure, ListsOK
  <2>3. list' \in [{"test", "hist", "uhist"} -> Seq(Blocks)]
    BY <2>1, <2>2
  <2>4. \A c \in {"test", "hist", "uhist"} : \A d \in ToSet(list'[c]) : d[1] = c
    BY <1>3, <1>4 DEF IInv, Structure, ListsOK
  <2>5. \A d \in Blocks : varptr'[d] # NotBooked => d \in ToSet(list'[d[1]])
    <3> SUFFICES ASSUME NEW d \in Blocks, varptr'[d] # NotBooked PROVE d \in ToSet(list'[d[1]])
      OBVIOUS
    <3>1. d # b /\ IsBooked(d)
      BY <1>5 DEF IsBooked
    <3>2. d \in ToSet(list[d[1]]) /\ d[1] \in {"test", "hist", "uhist"}
      BY <3>1, Classes DEF IInv, Structure, ListsOK, Blocks
    <3> QED
      BY <1>3, <1>4, <3>2
  <2> QED
    BY <1>5, <2>3, <2>4, <2>5 DEF ListsOK, IsBooked
<1>7. FlagsOK'
  BY DEF IInv, Structure, FlagsOK
<1>8. Kept(Blocks)
  BY <1>1, <1>5 DEF Kept, IInv, Structure, TitlesOK
<1>9. Kept(TestBlocks) /\ Kept(HistBlocks)
  BY <1>8 DEF Kept, Blocks
<1>10. TestsBooked' /\ FlagsApart'
  BY <1>9, TestsFrame DEF IInv, Structure, TestInv, TestsBooked
<1>11. ScalersDue'
  BY <1>9, ScalersFrame DEF IInv, TestInv
<1>12. NumbersOK' /\ SpecsOK' /\ HistInv' /\ CacheOK'
  BY <1>9, HistsSame
<1> QED
  BY <1>1, <1>6, <1>7, <1>10, <1>11, <1>12 DEF IInv, Structure, TestInv

\* A step that leaves the titles, the lists and what is booked, and all that
\* belongs to the tests but the flags' values and their scalers
LEMMA SameBlocks ==
  ASSUME IInv, UNCHANGED <<list, title, taken, code, vlist, shared>>,
         phase' \in {"ready", "tested", "counted"},
         phase = "setup" => ToBook = {},
         DOMAIN varptr' = Blocks, \A b \in Blocks : varptr'[b] = NotBooked <=> varptr[b] = NotBooked,
         DOMAIN flag' = DOMAIN flag
  PROVE  TitlesOK' /\ ListsOK' /\ TestsBooked' /\ FlagsApart' /\ Kept(TestBlocks) /\ Kept(HistBlocks)
<1>1. TitlesOK'
  BY DEF IInv, Structure, TitlesOK
<1>2. Kept(TestBlocks) /\ Kept(HistBlocks)
  BY DEF Kept, Blocks
<1>3. TestsBooked' /\ FlagsApart'
  BY <1>2, TestsFrame DEF IInv, Structure, TestInv, TestsBooked
<1>4. \A c \in {"test", "hist", "uhist"} : \A b \in ToSet(list[c]) : b \in Blocks
  BY DEF IInv, Structure, ListsOK, ToSet
<1>5. \A c \in {"test", "hist", "uhist"} : \A b \in ToSet(list[c]) : IsBooked(b)
  <2>1. CASE phase # "setup"
    BY <2>1 DEF IInv, Structure, ListsOK
  <2>2. CASE phase = "setup"
    <3>1. PICK l1, l2, l3 \in Seq(Blocks) : l1 = list["test"] /\ l2 = list["hist"] /\ l3 = list["uhist"]
      BY DEF IInv, Structure, ListsOK
    <3>2. Order = l1 \o l2 \o l3
      BY <3>1 DEF Order
    <3>3. \A s, t \in Seq(Blocks) : s \o t \in Seq(Blocks) /\ ToSet(s) \cup ToSet(t) \subseteq ToSet(s \o t)
      <4> TAKE s, t \in Seq(Blocks)
      <4>1. /\ s \o t \in Seq(Blocks) /\ Len(s \o t) = Len(s) + Len(t)
            /\ Len(s) \in Nat /\ Len(t) \in Nat
            /\ \A i \in 1 .. Len(s) : (s \o t)[i] = s[i]
            /\ \A i \in 1 .. Len(t) : (s \o t)[Len(s) + i] = t[i]
        OBVIOUS
      <4>2. \A i \in 1 .. Len(s) : i \in 1 .. Len(s \o t)
        BY <4>1
      <4>3. \A i \in 1 .. Len(t) : Len(s) + i \in 1 .. Len(s \o t)
        BY <4>1
      <4>4. DOMAIN s = 1 .. Len(s) /\ DOMAIN t = 1 .. Len(t) /\ DOMAIN (s \o t) = 1 .. Len(s \o t)
        BY <4>1
      <4> QED
        BY ZenonT(30), <4>1, <4>2, <4>3, <4>4 DEF ToSet
    <3>4. ToSet(l1) \cup ToSet(l2) \cup ToSet(l3) \subseteq ToSet(Order)
      BY <3>2, <3>3
    <3>5. \A b \in ToSet(Order) : varptr[b] # NotBooked
      BY <2>2 DEF ToBook, ToSet
    <3> QED
      BY <3>1, <3>4, <3>5 DEF IsBooked
  <2> QED
    BY <2>1, <2>2
<1>6. ListsOK'
  <2>1. \A c \in {"test", "hist", "uhist"} : \A b \in ToSet(list[c]) : varptr'[b] # NotBooked
    BY <1>4, <1>5 DEF IsBooked
  <2>2. \A b \in Blocks : varptr'[b] # NotBooked => b \in ToSet(list[b[1]])
    BY DEF IInv, Structure, ListsOK, IsBooked
  <2> QED
    BY <2>1, <2>2 DEF ListsOK, IInv, Structure, IsBooked
<1> QED
  BY <1>1, <1>2, <1>3, <1>6

LEMMA BookedKeeps ==
  ASSUME IInv, Booked
  PROVE  IInv'
<1> USE DEF Booked, tests, hists, history
<1>1. DOMAIN varptr' = Blocks
  BY DEF IInv, Structure, ListsOK
<1>2. TitlesOK' /\ ListsOK' /\ TestsBooked' /\ FlagsApart' /\ Kept(TestBlocks) /\ Kept(HistBlocks)
  BY <1>1, SameBlocks
<1>3. FlagsOK'
  BY DEF IInv, Structure, FlagsOK
<1>4. ScalersDue'
  BY <1>2, ScalersFrame DEF IInv, TestInv
<1>5. NumbersOK' /\ SpecsOK' /\ HistInv' /\ CacheOK'
  BY <1>2, HistsSame
<1> QED
  BY <1>2, <1>3, <1>4, <1>5 DEF IInv, Structure, TestInv

LEMMA HandlerKeeps ==
  ASSUME IInv, NEW h \in DOMAIN hvar, thHistRHandler(h)
  PROVE  IInv'
<1> USE DEF thHistRHandler, tests, history
<1>1. DOMAIN varptr' = Blocks
  BY DEF IInv, Structure, ListsOK
<1>2. TitlesOK' /\ ListsOK' /\ TestsBooked' /\ FlagsApart' /\ Kept(TestBlocks) /\ Kept(HistBlocks)
  BY <1>1, SameBlocks
<1>3. FlagsOK'
  BY DEF IInv, Structure, FlagsOK
<1>4. ScalersDue'
  BY <1>2, ScalersFrame DEF IInv, TestInv
<1>5. NumbersOK'
  BY DEF IInv, Structure, NumbersOK, Numbered
<1>6. SpecsOK'
  BY DEF IInv, Structure, SpecsOK
<1>7. HistInv'
  BY <1>2, HistsFrame, HistogramsFrame DEF IInv, HistInv
<1>8. CacheOK'
  BY DEF CacheOK
<1> QED
  BY <1>2, <1>3, <1>4, <1>5, <1>6, <1>7, <1>8 DEF IInv, Structure, TestInv

LEMMA ClearTestFlagsKeeps ==
  ASSUME IInv, thClearTestFlags
  PROVE  IInv'
<1> USE DEF thClearTestFlags, hists, history
<1>1. DOMAIN varptr' = Blocks
  BY DEF IInv, Structure, ListsOK
<1>2. flag' \in [DOMAIN flag -> {0, 1}]
  BY DEF IInv, Structure, FlagsOK
<1>3. TitlesOK' /\ ListsOK' /\ TestsBooked' /\ FlagsApart' /\ Kept(TestBlocks) /\ Kept(HistBlocks)
  BY <1>1, <1>2, SameBlocks
<1>4. FlagsOK'
  BY <1>2 DEF IInv, Structure, FlagsOK
<1>5. ScalersDue'
  BY <1>3, ScalersFrame DEF IInv, TestInv
<1>6. NumbersOK' /\ SpecsOK' /\ HistInv' /\ CacheOK'
  BY <1>2, <1>3, HistsSame
<1> QED
  BY <1>3, <1>4, <1>5, <1>6 DEF IInv, Structure, TestInv

\* The blocks of a class that are booked are those in its list, outside "setup".
LEMMA ListedIsBooked ==
  ASSUME IInv, phase # "setup", NEW b \in Blocks
  PROVE  b \in ToSet(list[b[1]]) <=> IsBooked(b)
<1>1. b[1] \in {"test", "hist", "uhist"}
  BY Classes DEF Blocks
<1> QED
  BY <1>1 DEF IInv, Structure, ListsOK

LEMMA TestsListed ==
  ASSUME IInv
  PROVE  \A c \in ToSet(list["test"]) : c \in TestBlocks
<1>1. \A c \in ToSet(list["test"]) : c \in Blocks /\ c[1] = "test"
  BY DEF IInv, Structure, ListsOK, ToSet
<1> QED
  BY <1>1, Classes DEF Blocks

LEMMA HistsListed ==
  ASSUME IInv
  PROVE  \A c \in ToSet(list["hist"]) : c \in HistBlocks
<1>1. \A c \in ToSet(list["hist"]) : c \in Blocks /\ c[1] = "hist"
  BY DEF IInv, Structure, ListsOK, ToSet
<1> QED
  BY <1>1, Classes DEF Blocks

LEMMA ClearTestScalersKeeps ==
  ASSUME IInv, thClearTestScalers
  PROVE  IInv'
<1> USE DEF thClearTestScalers, hists
<1>1. DOMAIN varptr' = Blocks
  BY DEF IInv, Structure, ListsOK
<1>2. DOMAIN scaler' = DOMAIN scaler /\ DOMAIN dueS' = DOMAIN dueS
  OBVIOUS
<1>3. TitlesOK' /\ ListsOK' /\ TestsBooked' /\ FlagsApart' /\ Kept(TestBlocks) /\ Kept(HistBlocks)
  BY <1>1, SameBlocks
<1>4. FlagsOK'
  BY <1>2 DEF IInv, Structure, FlagsOK
<1>5. \A b \in TestBlocks : IsBooked(b) => ToSet(vlist[b]) = Flags(b) /\ Flags(b) \subseteq DOMAIN flag
  BY FlagsKnown DEF IInv, Structure, TestsBooked
<1>6. \A b \in ToSet(list["test"]) : IsBooked(b) /\ b \in TestBlocks
  BY TestsListed DEF IInv, Structure, ListsOK
<1>7. Results = Given
  BY <1>5, <1>6 DEF Results, Given
<1>8. ScalersDue'
  <2> SUFFICES ASSUME NEW b \in TestBlocks, varptr'[b] # NotBooked, NEW f \in Flags(b)', f \notin shared'
               PROVE  dueS'[f] = scaler'[f]
    BY DEF ScalersDue, IsBooked
  <2>1. IsBooked(b) /\ Flags(b)' = Flags(b)
    BY DEF IsBooked, Flags
  <2>2. f \in Flags(b) /\ f \in DOMAIN dueS /\ f \in DOMAIN scaler
    BY <1>5, <2>1 DEF IInv, Structure, FlagsOK
  <2>3. dueS[f] = scaler[f]
    BY <2>1, <2>2 DEF IInv, TestInv, ScalersDue
  <2> QED
    BY <1>7, <2>2, <2>3
<1>9. NumbersOK' /\ SpecsOK' /\ HistInv' /\ CacheOK'
  BY <1>3, HistsSame
<1> QED
  BY <1>3, <1>4, <1>8, <1>9 DEF IInv, Structure, TestInv

LEMMA IncrementScalersKeeps ==
  ASSUME IInv, IncrementScalers
  PROVE  IInv'
<1> USE DEF IncrementScalers, hists, history
<1>1. DOMAIN varptr' = Blocks
  BY DEF IInv, Structure, ListsOK
<1>2. DOMAIN scaler' = DOMAIN scaler
  OBVIOUS
<1>3. TitlesOK' /\ ListsOK' /\ TestsBooked' /\ FlagsApart' /\ Kept(TestBlocks) /\ Kept(HistBlocks)
  BY <1>1, SameBlocks
<1>4. FlagsOK'
  BY <1>2 DEF IInv, Structure, FlagsOK
<1>5. ScalersDue'
  <2> SUFFICES ASSUME NEW b \in TestBlocks, varptr'[b] # NotBooked, NEW f \in Flags(b)', f \notin shared'
               PROVE  dueS'[f] = scaler'[f]
    BY DEF ScalersDue, IsBooked
  <2>1. IsBooked(b) /\ f \in Flags(b) /\ f \notin shared
    BY DEF IsBooked, Flags
  <2>2. f \in DOMAIN flag /\ f \in DOMAIN scaler /\ flag[f] \in {0, 1}
    BY <2>1, FlagsKnown DEF IInv, Structure, FlagsOK
  <2>3. dueS[f] = scaler[f] + flag[f]
    BY <2>1 DEF IInv, TestInv, ScalersDue
  <2>4. {c \in ToSet(list["test"]) : f \in ToSet(vlist[c])} = {b}
    <3>1. b \in ToSet(list["test"])
      BY <2>1, ListedIsBooked, Classes
    <3>2. f \in ToSet(vlist[b])
      BY <2>1 DEF IInv, Structure, TestsBooked
    <3>3. ASSUME NEW c \in ToSet(list["test"]), f \in ToSet(vlist[c]) PROVE c = b
      <4>1. c \in TestBlocks /\ IsBooked(c)
        BY TestsListed DEF IInv, Structure, ListsOK
      <4>2. f \in Flags(c)
        BY <3>3, <4>1 DEF IInv, Structure, TestsBooked
      <4> QED
        BY <2>1, <4>1, <4>2 DEF IInv, TestInv, FlagsApart
    <3> QED
      BY <3>1, <3>2, <3>3
  <2>5. scaler'[f] = scaler[f] + flag[f] * 1
    BY <2>2, <2>4, FS_Singleton
  <2>6. flag[f] * 1 = flag[f]
    BY <2>2
  <2> QED
    BY <2>3, <2>5, <2>6
<1>6. NumbersOK' /\ SpecsOK' /\ CacheOK'
  BY DEF IInv, Structure, NumbersOK, Numbered, SpecsOK, CacheOK
<1>7. HistsApart' /\ HistsBooked' /\ InHbook'
  BY <1>3, HistsFrame DEF IInv, HistInv
<1>8. HistogramsDue'
  <2>1. \A b \in HistBlocks : varptr'[b] # NotBooked => IsBooked(b) /\ title'[b] = title[b] /\ taken'[b] = taken[b]
    BY <1>3 DEF Kept, IsBooked
  <2> QED
    BY <2>1 DEF IInv, HistInv, HistogramsDue, NameAt, ByCTP, Alone, Fills, IsBooked
<1> QED
  BY <1>3, <1>4, <1>5, <1>6, <1>7, <1>8 DEF IInv, Structure, TestInv, HistInv

\* The blocks after their executions are counted
LEMMA CountedSame ==
  ASSUME NEW class, varptr' = Counted(class)
  PROVE  DOMAIN varptr' = Blocks /\ \A b \in Blocks : varptr'[b] = NotBooked <=> varptr[b] = NotBooked
<1>1. \A v : <<v>> # <<>>
  OBVIOUS
<1> QED
  BY <1>1 DEF Counted, NotBooked

\* A line that fills a histogram of its own has its name in the list of its block.
LEMMA OwnName ==
  ASSUME IInv, NEW b \in HistBlocks, IsBooked(b), NEW i \in taken[b]
  PROVE  /\ NameAt(b, i) \in ToSet(specs[b].of) /\ NameAt(b, i) \in DOMAIN hvar /\ NameAt(b, i) \in DOMAIN dueH
         /\ NameAt(b, i) \in Named(b, taken[b])
<1>1. NameAt(b, i) \in Named(b, taken[b])
  BY DEF Named, NameAt
<1>2. ToSet(specs[b].of) = Named(b, taken[b])
  BY DEF IInv, HistInv, HistsBooked
<1> QED
  BY <1>1, <1>2 DEF IInv, Structure, SpecsOK, NumbersOK

\* The one entry of the lists that has the identifier of such a histogram
LEMMA OwnEntry ==
  ASSUME IInv, phase # "setup", NEW b \in HistBlocks, b[1] = "hist", IsBooked(b), NEW i \in taken[b],
         NameAt(b, i) \notin shared
  PROVE  \E e : /\ NameOf(e) = NameAt(b, i)
                /\ {d \in Entries(list["hist"]) : hvar[NameOf(d)].id = hvar[NameAt(b, i)].id} = {e}
<1> DEFINE h == NameAt(b, i)
           of(c) == specs[c].of
<1>1. h \in ToSet(specs[b].of) /\ h \in DOMAIN hvar
  BY OwnName
<1>2. PICK p \in DOMAIN of(b) : of(b)[p] = h
  <2>1. h \in ToSet(of(b))
    BY <1>1
  <2> HIDE DEF of, h
  <2> QED
    BY <2>1 DEF ToSet
<1>3. b \in ToSet(list["hist"])
  BY ListedIsBooked, Classes
<1>4. <<b, p>> \in Entries(list["hist"]) /\ NameOf(<<b, p>>) = h
  BY <1>2, <1>3 DEF Entries, NameOf
<1>5. ASSUME NEW d \in Entries(list["hist"]), hvar[NameOf(d)].id = hvar[h].id
      PROVE  d = <<b, p>>
  <2>1. PICK c \in ToSet(list["hist"]) : \E q \in DOMAIN of(c) : d = <<c, q>>
    BY DEF Entries
  <2>2. PICK q \in DOMAIN of(c) : d = <<c, q>>
    BY <2>1
  <2>3. c \in HistBlocks /\ NameOf(d) = of(c)[q] /\ of(c)[q] \in ToSet(specs[c].of)
    BY <2>2, HistsListed DEF NameOf, ToSet
  <2>4. NameOf(d) \in DOMAIN hvar
    BY <2>3 DEF IInv, Structure, SpecsOK
  <2>5. NameOf(d) = h
    BY <1>1, <1>5, <2>4 DEF IInv, Structure, NumbersOK, Numbered
  <2>6. c = b
    <3> SUFFICES ASSUME c # b PROVE FALSE
      OBVIOUS
    <3>1. h \in ToSet(specs[b].of) \cap ToSet(specs[c].of)
      BY <1>1, <2>3, <2>5
    <3> QED
      BY <2>3, <3>1 DEF IInv, HistInv, HistsApart
  <2>7. q = p
    <3>1. of(b)[q] = h /\ of(b)[p] = h /\ q \in DOMAIN of(b) /\ h \notin shared
      BY <1>2, <2>1, <2>3, <2>5, <2>6
    <3> QED
      BY <1>2, <3>1 DEF IInv, HistInv, HistsApart
  <2> QED
    BY <2>2, <2>6, <2>7
<1> QED
  BY <1>4, <1>5

LEMMA ExecuteHistsKeeps ==
  ASSUME IInv, ExecuteHists
  PROVE  IInv'
<1> USE DEF ExecuteHists, tests, history
<1>1. DOMAIN varptr' = Blocks /\ \A b \in Blocks : varptr'[b] = NotBooked <=> varptr[b] = NotBooked
  BY CountedSame
<1>2. TitlesOK' /\ ListsOK' /\ TestsBooked' /\ FlagsApart' /\ Kept(TestBlocks) /\ Kept(HistBlocks)
  BY <1>1, SameBlocks
<1>3. FlagsOK'
  BY DEF IInv, Structure, FlagsOK
<1>4. ScalersDue'
  BY <1>2, ScalersFrame DEF IInv, TestInv
<1>5. Numbered(hvar, hbook, maxID) /\ hbook = [id \in DOMAIN hbook |-> [n |-> hbook[id].n, nx |-> hbook[id].nx]]
  BY DEF IInv, Structure, NumbersOK, Numbered
<1> DEFINE fills(id) == Cardinality({e \in Entries(list["hist"]) : hvar[NameOf(e)].id = id /\ Fills(NameOf(e))})
<1>6. hbook' = [id \in DOMAIN hbook |-> [n |-> hbook[id].n + fills(id), nx |-> hbook[id].nx]]
  <2>1. \A id \in DOMAIN hbook : [hbook[id] EXCEPT !.n = @ + fills(id)] = [n |-> hbook[id].n + fills(id), nx |-> hbook[id].nx]
    <3> SUFFICES ASSUME NEW id \in DOMAIN hbook
                 PROVE  [hbook[id] EXCEPT !.n = @ + fills(id)] = [n |-> hbook[id].n + fills(id), nx |-> hbook[id].nx]
      OBVIOUS
    <3>1. PICK r : r = hbook[id]
      OBVIOUS
    <3>2. r = [n |-> r.n, nx |-> r.nx]
      BY <1>5, <3>1
    <3>3. PICK m : m = fills(id)
      OBVIOUS
    <3>4. [r EXCEPT !.n = @ + m] = [n |-> r.n + m, nx |-> r.nx]
      BY <3>2
    <3> HIDE DEF fills
    <3> QED
      BY <3>1, <3>3, <3>4, Zenon
  <2>2. hbook' = [id \in DOMAIN hbook |-> [hbook[id] EXCEPT !.n = @ + fills(id)]]
    BY DEF Filled
  <2> HIDE DEF fills
  <2> QED
    BY <2>1, <2>2, Zenon
<1>7. DOMAIN hbook' = DOMAIN hbook
      /\ \A id \in DOMAIN hbook : hbook'[id].nx = hbook[id].nx /\ hbook'[id].n = hbook[id].n + fills(id)
  <2> HIDE DEF fills
  <2> QED
    BY <1>6
<1>8. NumbersOK'
  <2>1. hbook' = [id \in DOMAIN hbook' |-> [n |-> hbook'[id].n, nx |-> hbook'[id].nx]]
    <3> HIDE DEF fills
    <3> QED
      BY <1>6
  <2> QED
    BY <1>5, <1>7, <2>1 DEF NumbersOK, Numbered, IInv, Structure
<1>9. SpecsOK'
  BY DEF IInv, Structure, SpecsOK
<1>10. CacheOK'
  BY <1>7 DEF IInv, CacheOK
<1>11. HistsApart' /\ HistsBooked' /\ InHbook'
  BY <1>2, <1>7, HistsFrame DEF IInv, HistInv
<1>12. HistogramsDue'
  <2> SUFFICES ASSUME NEW b \in HistBlocks, varptr'[b] # NotBooked, Alone(b), b[1] = "hist",
                      NEW i \in taken'[b], ~title'[b][i].user, NameAt(b, i)' \notin shared'
               PROVE  /\ hbook'[hvar'[NameAt(b, i)'].id].n \in Nat
                      /\ dueH'[NameAt(b, i)'] = hbook'[hvar'[NameAt(b, i)'].id].n + 0
    BY DEF HistogramsDue, IsBooked, ByCTP, Alone
  <2>1. IsBooked(b) /\ i \in taken[b] /\ ByCTP(b, i) /\ NameAt(b, i)' = NameAt(b, i) /\ NameAt(b, i) \notin shared
    BY <1>2 DEF Kept, IsBooked, ByCTP, NameAt
  <2> DEFINE h == NameAt(b, i)
             id == hvar[h].id
  <2>2. id \in DOMAIN hbook
    BY <2>1 DEF IInv, HistInv, InHbook
  <2>3. hbook[id].n \in Nat /\ dueH[h] = hbook[id].n + IF Fills(h) THEN 1 ELSE 0
    BY <2>1 DEF IInv, HistInv, HistogramsDue
  <2>4. PICK e : NameOf(e) = h /\ {d \in Entries(list["hist"]) : hvar[NameOf(d)].id = id} = {e}
    BY <2>1, OwnEntry
  <2>5. {d \in Entries(list["hist"]) : hvar[NameOf(d)].id = id /\ Fills(NameOf(d))} = IF Fills(h) THEN {e} ELSE {}
    <3> HIDE DEF h, id
    <3> QED
      BY <2>4
  <2>6. fills(id) = IF Fills(h) THEN 1 ELSE 0
    <3> HIDE DEF h, id
    <3> QED
      BY <2>5, FS_Singleton, FS_EmptySet
  <2>7. hbook'[id].n = hbook[id].n + IF Fills(h) THEN 1 ELSE 0
    BY <1>7, <2>2, <2>6
  <2>8. dueH'[NameAt(b, i)'] = dueH[h] /\ hvar'[NameAt(b, i)'].id = id
    BY <2>1
  <2> HIDE DEF h, id, fills
  <2> QED
    BY <2>3, <2>7, <2>8
<1> QED
  BY <1>2, <1>3, <1>4, <1>8, <1>9, <1>10, <1>11, <1>12 DEF IInv, Structure, TestInv, HistInv

LEMMA ClearHistsKeeps ==
  ASSUME IInv, thClearHists
  PROVE  IInv'
<1> USE DEF thClearHists, tests
<1>0. phase = "ready"
  OBVIOUS
<1>1. DOMAIN varptr' = Blocks /\ \A b \in Blocks : varptr'[b] = NotBooked <=> varptr[b] = NotBooked
  BY DEF NotBooked
<1>2. TitlesOK' /\ ListsOK' /\ TestsBooked' /\ FlagsApart' /\ Kept(TestBlocks) /\ Kept(HistBlocks)
  BY <1>1, SameBlocks
<1>3. FlagsOK'
  BY DEF IInv, Structure, FlagsOK
<1>4. ScalersDue'
  BY <1>2, ScalersFrame DEF IInv, TestInv
<1>5. Numbered(hvar, hbook, maxID) /\ hbook = [id \in DOMAIN hbook |-> [n |-> hbook[id].n, nx |-> hbook[id].nx]]
  BY DEF IInv, Structure, NumbersOK, Numbered
<1> DEFINE ids == {hvar[NameOf(e)].id : e \in Entries(list["hist"])}
<1>6. hbook' = [id \in DOMAIN hbook |-> [n |-> IF id \in ids THEN 0 ELSE hbook[id].n, nx |-> hbook[id].nx]]
  <2>1. hbook' = [id \in DOMAIN hbook |-> IF id \in ids THEN [hbook[id] EXCEPT !.n = 0] ELSE hbook[id]]
    OBVIOUS
  <2> HIDE DEF ids
  <2>2. ASSUME NEW id \in DOMAIN hbook
        PROVE  (IF id \in ids THEN [hbook[id] EXCEPT !.n = 0] ELSE hbook[id])
                 = [n |-> IF id \in ids THEN 0 ELSE hbook[id].n, nx |-> hbook[id].nx]
    <3>1. PICK r : r = hbook[id]
      OBVIOUS
    <3>2. r = [n |-> r.n, nx |-> r.nx]
      BY <1>5, <3>1
    <3>3. [r EXCEPT !.n = 0] = [n |-> 0, nx |-> r.nx]
      BY <3>2
    <3>4. (IF id \in ids THEN [r EXCEPT !.n = 0] ELSE r) = [n |-> IF id \in ids THEN 0 ELSE r.n, nx |-> r.nx]
      BY <3>2, <3>3
    <3> QED
      BY <3>1, <3>4, Zenon
  <2> QED
    BY <2>1, <2>2, Zenon
<1>7. DOMAIN hbook' = DOMAIN hbook
      /\ \A id \in DOMAIN hbook : hbook'[id].nx = hbook[id].nx /\ hbook'[id].n = IF id \in ids THEN 0 ELSE hbook[id].n
  <2> HIDE DEF ids
  <2> QED
    BY <1>6
<1>8. NumbersOK'
  <2>1. hbook' = [id \in DOMAIN hbook' |-> [n |-> hbook'[id].n, nx |-> hbook'[id].nx]]
    <3> HIDE DEF ids
    <3> QED
      BY <1>6
  <2>2. DOMAIN dueH' = DOMAIN dueH
    OBVIOUS
  <2> QED
    BY <1>5, <1>7, <2>1, <2>2 DEF NumbersOK, Numbered, IInv, Structure
<1>9. SpecsOK'
  BY DEF IInv, Structure, SpecsOK
<1>10. CacheOK'
  BY <1>7 DEF IInv, CacheOK
<1>11. HistsApart' /\ HistsBooked' /\ InHbook'
  BY <1>2, <1>7, HistsFrame DEF IInv, HistInv
<1>12. /\ phase' \notin {"tested", "counted"} /\ UNCHANGED <<hvar, shared, list>>
       /\ dueH' = [h \in DOMAIN dueH |-> IF \E b \in ToSet(list["hist"]) : h \in Named(b, taken[b]) THEN 0 ELSE dueH[h]]
  OBVIOUS
<1> HIDE DEF thClearHists
<1>13. HistogramsDue'
  <2> SUFFICES ASSUME NEW b \in HistBlocks, varptr'[b] # NotBooked, Alone(b), b[1] = "hist",
                      NEW i \in taken'[b], ~title'[b][i].user, NameAt(b, i)' \notin shared'
               PROVE  /\ hbook'[hvar'[NameAt(b, i)'].id].n \in Nat
                      /\ dueH'[NameAt(b, i)'] = hbook'[hvar'[NameAt(b, i)'].id].n + 0
    BY <1>12 DEF HistogramsDue, IsBooked, ByCTP, Alone
  <2>1. IsBooked(b) /\ i \in taken[b] /\ ByCTP(b, i) /\ NameAt(b, i)' = NameAt(b, i) /\ NameAt(b, i) \notin shared
    BY <1>2, <1>12 DEF Kept, IsBooked, ByCTP, NameAt
  <2> DEFINE h == NameAt(b, i)
             id == hvar[h].id
  <2>2. id \in DOMAIN hbook
    BY <2>1 DEF IInv, HistInv, InHbook
  <2>3. PICK e : NameOf(e) = h /\ {d \in Entries(list["hist"]) : hvar[NameOf(d)].id = id} = {e}
    BY <1>0, <2>1, OwnEntry
  <2>4. id \in ids
    BY <2>3
  <2>5. hbook'[id].n = 0
    BY <1>7, <2>2, <2>4
  <2>6. h \in Named(b, taken[b]) /\ h \in DOMAIN dueH
    BY <2>1, OwnName
  <2>7. b \in ToSet(list["hist"])
    BY <1>0, <2>1, ListedIsBooked, Classes
  <2>8. dueH'[h] = 0
    <3> HIDE DEF h, id, ids
    <3> QED
      BY <1>12, <2>6, <2>7
  <2>9. dueH'[NameAt(b, i)'] = dueH'[h] /\ hvar'[NameAt(b, i)'].id = id
    BY <1>12, <2>1
  <2> HIDE DEF h, id, ids
  <2> QED
    BY <2>5, <2>8, <2>9
<1> QED
  BY <1>2, <1>3, <1>4, <1>8, <1>9, <1>10, <1>11, <1>13 DEF IInv, Structure, TestInv, HistInv

\* The tests run the same from code that is the same for the blocks of the list.
LEMMA RunSame ==
  ASSUME NEW of, NEW as, NEW x, Len(list["test"]) \in Nat,
         \A i \in 1 .. Len(list["test"]) : of[list["test"][i]] = as[list["test"][i]]
  PROVE  RunBlocks(of, x) = RunBlocks(as, x)
<1> DEFINE n == Len(list["test"])
<1>1. n \in Nat
  OBVIOUS
<1>2. PICK g : BlockSteps(g, of, x, n) /\ RunBlocks(of, x) = g[n]
  BY <1>1, BlockStepsIs
<1>3. PICK h : BlockSteps(h, as, x, n) /\ RunBlocks(as, x) = h[n]
  BY <1>1, BlockStepsIs
<1> DEFINE S == {i \in 0 .. n : g[i] = h[i]}
<1>4. 0 \in S
  BY <1>1, <1>2, <1>3 DEF BlockSteps
<1>5. \A i \in 0 .. n - 1 : i \in S => i + 1 \in S
  <2> SUFFICES ASSUME NEW i \in 0 .. n - 1, i \in S PROVE i + 1 \in S
    OBVIOUS
  <2>1. i + 1 \in 0 .. n /\ i + 1 # 0 /\ (i + 1) - 1 = i /\ i + 1 \in 1 .. n
    BY <1>1
  <2>2. g[i + 1] = RunLines(g[i], of[list["test"][i + 1]], x)
    <3> HIDE DEF n
    <3> QED
      BY <1>2, <2>1 DEF BlockSteps
  <2>3. h[i + 1] = RunLines(h[i], as[list["test"][i + 1]], x)
    <3> HIDE DEF n
    <3> QED
      BY <1>3, <2>1 DEF BlockSteps
  <2>4. of[list["test"][i + 1]] = as[list["test"][i + 1]] /\ g[i] = h[i]
    BY <2>1
  <2>5. g[i + 1] = h[i + 1]
    BY <2>2, <2>3, <2>4
  <2> QED
    BY <2>1, <2>5
<1>6. \A i \in 0 .. n : i \in S
  <2> HIDE DEF S, n
  <2> QED
    BY <1>1, <1>4, <1>5, UpTo
<1> QED
  BY <1>1, <1>2, <1>3, <1>6

\* The flags come out as the titles say, each zero or one.
LEMMA FlagsAsTitled ==
  ASSUME IInv, phase = "ready", NEW x \in [Inputs -> {0, 1}]
  PROVE  RunBlocks(code, x) = TitleFlags(x) /\ RunBlocks(code, x) \in [DOMAIN flag -> {0, 1}]
<1> DEFINE n == Len(list["test"])
<1>1. list["test"] \in Seq(Blocks) /\ n \in Nat /\ DOMAIN list["test"] = 1 .. n
  BY DEF IInv, Structure, ListsOK
<1>2. \A i \in 1 .. n : list["test"][i] \in ToSet(list["test"])
  BY <1>1 DEF ToSet
<1>3. \A i \in 1 .. n : list["test"][i] \in TestBlocks /\ IsBooked(list["test"][i])
  BY <1>2, TestsListed DEF IInv, Structure, ListsOK
<1>4. \A i \in 1 .. n : /\ code[list["test"][i]] = BookedLines(list["test"][i])
                        /\ Runs(code[list["test"][i]], DOMAIN flag)
  BY <1>3 DEF IInv, Structure, TestsBooked
<1>5. RunBlocks(code, x) = TitleFlags(x)
  <2> DEFINE as == [b \in TestBlocks |-> BookedLines(b)]
  <2>1. \A i \in 1 .. n : code[list["test"][i]] = as[list["test"][i]]
    BY <1>3, <1>4
  <2>2. RunBlocks(code, x) = RunBlocks(as, x)
    <3> HIDE DEF as
    <3> QED
      BY <1>1, <2>1, RunSame
  <2> QED
    BY <2>2 DEF TitleFlags
<1>6. flag \in [DOMAIN flag -> {0, 1}]
  BY DEF IInv, Structure, FlagsOK
<1> QED
  BY <1>1, <1>4, <1>5, <1>6, RunBlocksType

LEMMA ExecuteTestsKeeps ==
  ASSUME IInv, NEW x \in [Inputs -> {0, 1}], ExecuteTests(x)
  PROVE  IInv'
<1> DEFINE ref == TitleFlags(x)
<1>1. phase = "ready" /\ phase' = "tested" /\ varptr' = Counted("test")
      /\ UNCHANGED <<list, title, code, vlist, scaler, hists, taken, shared>>
  BY DEF ExecuteTests
<1>2. flag' = ref /\ ref \in [DOMAIN flag -> {0, 1}]
  BY <1>1, FlagsAsTitled DEF ExecuteTests
<1>3. dueS' = [f \in DOMAIN dueS |-> dueS[f] + (IF f \in Given THEN ref[f] ELSE 0)]
  BY DEF ExecuteTests
<1> DEFINE found(h) == {e \in Fillers(h, ToSet(list["hist"])) :
                          \E test \in {title[e[1]][e[2]].test} : test = NoTest \/ ref[test] = 1}
<1>4. dueH' = [h \in DOMAIN dueH |-> dueH[h] + Cardinality(found(h))]
  BY DEF ExecuteTests
<1> HIDE DEF ref
<1>5. DOMAIN varptr' = Blocks /\ \A b \in Blocks : varptr'[b] = NotBooked <=> varptr[b] = NotBooked
  BY <1>1, CountedSame
<1>6. TitlesOK' /\ ListsOK' /\ TestsBooked' /\ FlagsApart' /\ Kept(TestBlocks) /\ Kept(HistBlocks)
  BY <1>1, <1>2, <1>5, SameBlocks
<1>7. FlagsOK'
  <2>1. DOMAIN flag' = DOMAIN flag /\ flag' \in [DOMAIN flag' -> {0, 1}] /\ DOMAIN dueS' = DOMAIN dueS
    BY <1>2, <1>3
  <2> QED
    BY <1>1, <2>1 DEF IInv, Structure, FlagsOK
<1>8. ScalersDue'
  <2> SUFFICES ASSUME NEW b \in TestBlocks, varptr'[b] # NotBooked, NEW f \in Flags(b)', f \notin shared'
               PROVE  dueS'[f] = scaler'[f] + flag'[f]
    BY <1>1 DEF ScalersDue, IsBooked
  <2>1. IsBooked(b) /\ f \in Flags(b) /\ f \notin shared
    BY <1>1, <1>6 DEF Kept, IsBooked, Flags
  <2>2. f \in DOMAIN flag /\ f \in DOMAIN dueS
    BY <2>1, FlagsKnown DEF IInv, Structure, FlagsOK
  <2>3. dueS[f] = scaler[f]
    BY <1>1, <2>1 DEF IInv, TestInv, ScalersDue
  <2>4. b \in ToSet(list["test"])
    BY <1>1, <2>1, ListedIsBooked, Classes
  <2>5. f \in Given
    BY <2>1, <2>4 DEF Given
  <2> QED
    BY <1>1, <1>2, <1>3, <2>2, <2>3, <2>5
<1>9. NumbersOK'
  <2>1. DOMAIN dueH' = DOMAIN dueH
    BY <1>4
  <2> QED
    BY <1>1, <2>1 DEF IInv, Structure, NumbersOK, Numbered, hists
<1>10. SpecsOK' /\ CacheOK'
  BY <1>1 DEF IInv, Structure, SpecsOK, CacheOK, hists
<1>11. HistsApart' /\ HistsBooked' /\ InHbook'
  BY <1>1, <1>2, <1>6, HistsFrame DEF IInv, HistInv, hists
<1>12. HistogramsDue'
  <2> SUFFICES ASSUME NEW b \in HistBlocks, varptr'[b] # NotBooked, Alone(b), b[1] = "hist",
                      NEW i \in taken'[b], ~title'[b][i].user, NameAt(b, i)' \notin shared'
               PROVE  /\ hbook'[hvar'[NameAt(b, i)'].id].n \in Nat
                      /\ dueH'[NameAt(b, i)'] = hbook'[hvar'[NameAt(b, i)'].id].n
                                                  + IF Fills(NameAt(b, i))' THEN 1 ELSE 0
    BY <1>1 DEF HistogramsDue, IsBooked, ByCTP, Alone
  <2>1. IsBooked(b) /\ i \in taken[b] /\ ByCTP(b, i) /\ NameAt(b, i)' = NameAt(b, i) /\ NameAt(b, i) \notin shared
        /\ ~title[b][i].user
    BY <1>1, <1>6 DEF Kept, IsBooked, ByCTP, NameAt
  <2> DEFINE h == NameAt(b, i)
             test == title[b][i].test
  <2>2. hbook[hvar[h].id].n \in Nat /\ dueH[h] = hbook[hvar[h].id].n
    BY <1>1, <2>1 DEF IInv, HistInv, HistogramsDue
  <2>3. hvar[h].def = <<test>> /\ (test = NoTest \/ test \in DOMAIN flag)
    BY <2>1 DEF IInv, HistInv, HistsBooked
  <2>4. h \in ToSet(specs[b].of) /\ h \in DOMAIN dueH
    BY <2>1, OwnName
  <2>5. b \in ToSet(list["hist"])
    BY <1>1, <2>1, ListedIsBooked, Classes
  <2>6. <<b, i>> \in Fillers(h, ToSet(list["hist"]))
    BY <2>1, <2>5 DEF Fillers, NameAt
  <2>7. ASSUME NEW e \in Fillers(h, ToSet(list["hist"])) PROVE e = <<b, i>>
    <3>1. PICK c \in ToSet(list["hist"]) : \E j \in taken[c] : e = <<c, j>> /\ title[c][j].h = h /\ ~title[c][j].user
      BY DEF Fillers
    <3>2. PICK j \in taken[c] : e = <<c, j>> /\ NameAt(c, j) = h
      BY <3>1 DEF NameAt
    <3>3. c \in HistBlocks /\ IsBooked(c)
      BY <1>1, HistsListed DEF IInv, Structure, ListsOK
    <3>4. h \in ToSet(specs[c].of)
      BY <3>2, <3>3, OwnName
    <3>5. c = b
      <4> SUFFICES ASSUME c # b PROVE FALSE
        OBVIOUS
      <4>1. h \in ToSet(specs[b].of) \cap ToSet(specs[c].of)
        BY <2>4, <3>4
      <4> QED
        BY <2>1, <3>3, <4>1 DEF IInv, HistInv, HistsApart
    <3>6. j = i
      <4>1. j \in taken[b] /\ NameAt(b, j) = NameAt(b, i)
        BY <3>2, <3>5
      <4> QED
        BY <2>1, <4>1 DEF IInv, HistInv, HistsBooked
    <3> QED
      BY <3>2, <3>5, <3>6
  <2>8. found(h) = IF test = NoTest \/ ref[test] = 1 THEN {<<b, i>>} ELSE {}
    <3> HIDE DEF h
    <3> QED
      BY <2>6, <2>7
  <2>9. Cardinality(found(h)) = IF test = NoTest \/ ref[test] = 1 THEN 1 ELSE 0
    <3> HIDE DEF h, test, found
    <3> QED
      BY <2>8, FS_Singleton, FS_EmptySet
  <2>10. Fills(NameAt(b, i))' <=> (test = NoTest \/ ref[test] = 1)
    <3>1. hvar'[NameAt(b, i)'].def = <<test>> /\ <<test>> # <<>> /\ <<test>>[1] = test
      BY <1>1, <2>1, <2>3 DEF hists
    <3>2. Fills(NameAt(b, i))' <=> (test = NoTest \/ flag'[test] # 0)
      BY <3>1 DEF Fills, NoDef
    <3>3. test # NoTest => ref[test] \in {0, 1}
      BY <1>2, <2>3
    <3> QED
      BY <1>2, <3>2, <3>3
  <2>11. dueH'[h] = dueH[h] + IF test = NoTest \/ ref[test] = 1 THEN 1 ELSE 0
    <3> HIDE DEF h, test, found
    <3> QED
      BY <1>4, <2>4, <2>9
  <2>12. NameAt(b, i)' = h /\ hvar'[h].id = hvar[h].id /\ hbook' = hbook
    BY <1>1, <2>1 DEF hists
  <2> HIDE DEF h, test
  <2> QED
    BY <2>2, <2>10, <2>11, <2>12
<1> QED
  BY <1>6, <1>7, <1>8, <1>9, <1>10, <1>11, <1>12 DEF IInv, Structure, TestInv, HistInv

-----------------------------------------------------------------------------
(* Booking.                                                                *)

\* What thBook takes is a listed block.
LEMMA OrderedIsListed ==
  ASSUME ListsOK, NEW i \in DOMAIN Order
  PROVE  Order[i] \in Blocks /\ Order[i] \in ToSet(list[Order[i][1]])
<1>1. PICK l1, l2, l3 \in Seq(Blocks) : l1 = list["test"] /\ l2 = list["hist"] /\ l3 = list["uhist"]
  BY DEF ListsOK
<1>2. \A s, t \in Seq(Blocks) : /\ s \o t \in Seq(Blocks)
                                /\ \A k \in DOMAIN (s \o t) : (s \o t)[k] \in ToSet(s) \cup ToSet(t)
  <2> TAKE s, t \in Seq(Blocks)
  <2>1. /\ s \o t \in Seq(Blocks) /\ Len(s \o t) = Len(s) + Len(t) /\ DOMAIN (s \o t) = 1 .. Len(s \o t)
        /\ Len(s) \in Nat /\ Len(t) \in Nat /\ DOMAIN s = 1 .. Len(s) /\ DOMAIN t = 1 .. Len(t)
        /\ \A k \in 1 .. Len(s) : (s \o t)[k] = s[k]
        /\ \A k \in 1 .. Len(t) : (s \o t)[Len(s) + k] = t[k]
    OBVIOUS
  <2> SUFFICES ASSUME NEW k \in DOMAIN (s \o t) PROVE (s \o t)[k] \in ToSet(s) \cup ToSet(t)
    BY <2>1
  <2>2. k \in 1 .. Len(s) + Len(t)
    BY <2>1
  <2>3. CASE k <= Len(s)
    <3>1. k \in DOMAIN s /\ (s \o t)[k] = s[k]
      BY <2>1, <2>2, <2>3
    <3> QED
      BY <3>1 DEF ToSet
  <2>4. CASE ~(k <= Len(s))
    <3>1. k - Len(s) \in 1 .. Len(t) /\ Len(s) + (k - Len(s)) = k
      BY <2>1, <2>2, <2>4
    <3>2. PICK j \in 1 .. Len(t) : Len(s) + j = k
      BY <3>1
    <3>3. (s \o t)[k] = t[j] /\ j \in DOMAIN t
      BY <2>1, <3>2
    <3> QED
      BY <3>3 DEF ToSet
  <2> QED
    BY <2>3, <2>4
<1>3. \A s, t \in Seq(Blocks) : ToSet(s \o t) \subseteq ToSet(s) \cup ToSet(t)
  BY <1>2 DEF ToSet
<1>4. Order = (l1 \o l2) \o l3 /\ Order[i] \in ToSet(Order)
  BY <1>1 DEF Order, ToSet
<1>5. Order[i] \in ToSet(l1) \cup ToSet(l2) \cup ToSet(l3)
  BY <1>2, <1>3, <1>4
<1>6. PICK c \in {"test", "hist", "uhist"} : Order[i] \in ToSet(list[c])
  BY <1>1, <1>5
<1>7. Order[i] \in Blocks
  BY <1>6 DEF ListsOK, ToSet
<1>8. Order[i][1] = c
  BY <1>6 DEF ListsOK
<1> QED
  BY <1>6, <1>7, <1>8

\* A block is booked and the others left.
LEMMA OneBooked ==
  ASSUME ListsOK, phase = "setup", NEW b \in Blocks, b \in ToSet(list[b[1]]),
         varptr' = [varptr EXCEPT ![b] = << 0 >>], UNCHANGED <<phase, list>>
  PROVE  /\ ListsOK' /\ DOMAIN varptr' = Blocks /\ varptr'[b] # NotBooked
         /\ \A c \in Blocks : c # b => varptr'[c] = varptr[c]
<1>1. DOMAIN varptr = Blocks /\ << 0 >> # <<>>
  BY DEF ListsOK
<1>2. DOMAIN varptr' = Blocks /\ varptr'[b] # NotBooked /\ \A c \in Blocks : c # b => varptr'[c] = varptr[c]
  BY <1>1 DEF NotBooked
<1> QED
  BY <1>2 DEF ListsOK, IsBooked

LEMMA BookTestsKeeps ==
  ASSUME IInv, phase = "setup", NEW b \in TestBlocks, b \in ToSet(list[b[1]]), ~IsBooked(b),
         varptr' = [varptr EXCEPT ![b] = << 0 >>], UNCHANGED <<phase, list, title>>, thBookTests(b)
  PROVE  IInv'
<1>1. PICK junk \in {0, 1} :
        /\ code' = [code EXCEPT ![b] = BookedTests(b, junk)[Len(title[b])].code]
        /\ vlist' = [vlist EXCEPT ![b] = BookedTests(b, junk)[Len(title[b])].vlist]
        /\ flag' = BookedTests(b, junk)[Len(title[b])].flag
        /\ scaler' = BookedTests(b, junk)[Len(title[b])].scaler
        /\ taken' = [taken EXCEPT ![b] = {i \in DOMAIN title[b] : Resolved(BookedTests(b, junk)[i].flag, title[b][i])}]
        /\ dueS' = [f \in DOMAIN BookedTests(b, junk)[Len(title[b])].flag |-> IF f \in Flags(b) THEN 0 ELSE Held(dueS, f)]
        /\ shared' = shared \cup (Flags(b) \cap OtherFlags(b))
        /\ UNCHANGED <<hists, undefined, dueH>>
  BY ZenonT(30) DEF thBookTests
<1> DEFINE acc == BookedTests(b, junk)
           end == acc[Len(title[b])]
           S == {i \in DOMAIN title[b] : Resolved(acc[i].flag, title[b][i])}
<1>2. /\ end.code = [i \in DOMAIN title[b] |-> IF i \in S THEN title[b][i] ELSE WithZero(title[b][i])]
      /\ Runs(end.code, DOMAIN end.flag)
      /\ end.vlist \in Seq(STRING) /\ ToSet(end.vlist) = Flags(b)
      /\ end.flag \in [DOMAIN flag \cup Flags(b) -> {0, 1}]
      /\ DOMAIN end.scaler = DOMAIN flag \cup Flags(b)
      /\ \A y \in DOMAIN end.scaler : end.scaler[y] = IF y \in Flags(b) THEN 0 ELSE scaler[y]
  BY BookedTestsIs DEF TestsDone, IInv, Structure
<1>3. /\ code' = [code EXCEPT ![b] = end.code] /\ vlist' = [vlist EXCEPT ![b] = end.vlist]
      /\ flag' = end.flag /\ scaler' = end.scaler /\ taken' = [taken EXCEPT ![b] = S]
      /\ dueS' = [f \in DOMAIN flag' |-> IF f \in Flags(b) THEN 0 ELSE Held(dueS, f)]
      /\ shared' = shared \cup (Flags(b) \cap OtherFlags(b))
      /\ UNCHANGED <<hists, undefined, dueH>>
  BY <1>1
<1> HIDE DEF end
<1>4. TitlesOK'
  BY DEF IInv, Structure, TitlesOK
<1>5. b \in Blocks
  BY Classes
<1>6. /\ ListsOK' /\ DOMAIN varptr' = Blocks /\ varptr'[b] # NotBooked
      /\ \A c \in Blocks : c # b => varptr'[c] = varptr[c]
  BY <1>5, OneBooked DEF IInv, Structure
<1>7. DOMAIN flag' = DOMAIN flag \cup Flags(b) /\ DOMAIN dueS' = DOMAIN flag' /\ DOMAIN scaler' = DOMAIN flag'
      /\ flag' \in [DOMAIN flag' -> {0, 1}]
  BY <1>2, <1>3
<1>8. FlagsOK'
  BY <1>7 DEF FlagsOK
<1>9. DOMAIN code = TestBlocks /\ vlist \in [TestBlocks -> Seq(STRING)] /\ DOMAIN taken = Blocks
  BY DEF IInv, Structure, TestsBooked
<1>10. /\ code'[b] = end.code /\ vlist'[b] = end.vlist /\ taken'[b] = S
       /\ \A c \in TestBlocks : c # b => code'[c] = code[c] /\ vlist'[c] = vlist[c] /\ taken'[c] = taken[c]
       /\ \A c \in HistBlocks : taken'[c] = taken[c]
       /\ DOMAIN code' = TestBlocks /\ vlist' \in [TestBlocks -> Seq(STRING)] /\ DOMAIN taken' = Blocks
  <2> HIDE DEF S
  <2> QED
    BY <1>2, <1>3, <1>5, <1>9, Classes
<1>11. \A lines : Runs(lines, DOMAIN flag) => Runs(lines, DOMAIN flag')
  BY <1>7 DEF Runs
<1>12. \A c \in TestBlocks : c # b /\ varptr'[c] # NotBooked => IsBooked(c)
  BY <1>6, Classes DEF IsBooked
<1>13. TestsBooked'
  <2> SUFFICES ASSUME NEW c \in TestBlocks, varptr'[c] # NotBooked
               PROVE  (code[c] = BookedLines(c) /\ Runs(code[c], DOMAIN flag) /\ ToSet(vlist[c]) = Flags(c))'
    BY <1>10 DEF TestsBooked, IsBooked
  <2>1. CASE c = b
    <3>1. BookedLines(b)' = [i \in DOMAIN title[b] |-> IF i \in taken'[b] THEN title[b][i] ELSE WithZero(title[b][i])]
      BY DEF BookedLines, WithZero
    <3>2. code'[b] = BookedLines(b)'
      BY <1>2, <1>10, <3>1
    <3>3. ToSet(vlist'[b]) = Flags(b)'
      BY <1>2, <1>10 DEF Flags
    <3>4. Runs(code'[b], DOMAIN flag')
      BY <1>2, <1>3, <1>10
    <3>5. (Runs(code[b], DOMAIN flag))'
      BY <3>4 DEF Runs
    <3> QED
      BY <2>1, <3>2, <3>3, <3>5
  <2>2. CASE c # b
    <3>1. code[c] = BookedLines(c) /\ Runs(code[c], DOMAIN flag) /\ ToSet(vlist[c]) = Flags(c)
      BY <1>12, <2>2 DEF IInv, Structure, TestsBooked
    <3>2. BookedLines(c)' = BookedLines(c) /\ Flags(c)' = Flags(c)
      BY <1>10, <2>2 DEF BookedLines, Flags, WithZero
    <3>3. Runs(code'[c], DOMAIN flag')
      BY <1>10, <1>11, <2>2, <3>1
    <3>4. (Runs(code[c], DOMAIN flag))'
      BY <3>3 DEF Runs
    <3>5. code'[c] = BookedLines(c)' /\ ToSet(vlist'[c]) = Flags(c)'
      BY <1>10, <2>2, <3>1, <3>2
    <3> QED
      BY <3>4, <3>5
  <2> QED
    BY <2>1, <2>2
<1>14. \A c \in TestBlocks : Flags(c)' = Flags(c)
  BY DEF Flags
<1>15. \A c \in TestBlocks : c # b /\ varptr'[c] # NotBooked => Flags(c) \subseteq OtherFlags(b)
  BY <1>12 DEF OtherFlags, IsBooked
<1>16. FlagsApart'
  <2> SUFFICES ASSUME NEW c \in TestBlocks, NEW d \in TestBlocks, c # d, varptr'[c] # NotBooked, varptr'[d] # NotBooked
               PROVE  Flags(c) \cap Flags(d) \subseteq shared'
    BY <1>14 DEF FlagsApart, IsBooked
  <2>1. CASE c = b
    BY <1>3, <1>15, <2>1
  <2>2. CASE d = b
    BY <1>3, <1>15, <2>2
  <2>3. CASE c # b /\ d # b
    BY <1>3, <1>12, <2>3 DEF IInv, TestInv, FlagsApart
  <2> QED
    BY <2>1, <2>2, <2>3
<1>17. ScalersDue'
  <2> SUFFICES ASSUME NEW c \in TestBlocks, varptr'[c] # NotBooked, NEW f \in Flags(c), f \notin shared'
               PROVE  dueS'[f] = scaler'[f]
    BY <1>14 DEF ScalersDue, IsBooked
  <2>1. CASE c = b
    <3>1. f \in DOMAIN flag'
      BY <1>7, <2>1
    <3> QED
      BY <1>2, <1>3, <1>7, <2>1, <3>1
  <2>2. CASE c # b
    <3>1. f \notin Flags(b)
      BY <1>3, <1>15, <2>2
    <3>2. f \in DOMAIN flag
      BY <1>12, <2>2, FlagsKnown DEF IInv, Structure
    <3>3. dueS'[f] = dueS[f]
      BY <1>3, <1>7, <3>1, <3>2 DEF Held, IInv, Structure, FlagsOK
    <3>4. scaler'[f] = scaler[f]
      BY <1>2, <1>3, <1>7, <3>1, <3>2
    <3>5. dueS[f] = scaler[f]
      BY <1>3, <1>12, <2>2 DEF IInv, TestInv, ScalersDue
    <3> QED
      BY <3>3, <3>4, <3>5
  <2> QED
    BY <2>1, <2>2
<1>18. Kept(HistBlocks)
  BY <1>6, <1>10, Classes DEF Kept
<1>19. NumbersOK' /\ SpecsOK' /\ HistInv' /\ CacheOK'
  BY <1>3, <1>7, <1>18, HistsSame
<1> QED
  BY <1>4, <1>6, <1>8, <1>13, <1>16, <1>17, <1>19 DEF IInv, Structure, TestInv

-----------------------------------------------------------------------------
(* Booking a block of histograms, line by line.                            *)

\* The lines that can be booked among the first i, and what has been made of
\* them: acc, from what thRemoveHists left, rem
Taken(b, i) == {j \in 1 .. i : CanBook(title[b][j])}

HistsTo(acc, b, rem, S) ==
  /\ Numbered(acc.hvar, acc.hbook, acc.maxID) /\ acc.maxID >= maxID
  /\ DOMAIN acc.hvar = DOMAIN hvar \cup Named(b, S)
  /\ acc.of \in Seq(STRING) /\ ToSet(acc.of) = Named(b, S)
  /\ \A p, q \in DOMAIN acc.of : p # q /\ acc.of[p] = acc.of[q] => acc.of[p] \in Twice(b, S)
  /\ \A g \in DOMAIN hvar \ Named(b, S) :
       /\ acc.hvar[g] = hvar[g]
       /\ hvar[g].id \in DOMAIN acc.hbook <=> hvar[g].id \in DOMAIN rem.hbook
       /\ hvar[g].id \in DOMAIN rem.hbook => acc.hbook[hvar[g].id] = rem.hbook[hvar[g].id]
  /\ \A j \in S : \A g \in {title[b][j].h} :
       /\ acc.hvar[g].id \in DOMAIN acc.hbook /\ acc.hbook[acc.hvar[g].id].n = 0
       /\ ~title[b][j].user /\ g \notin Twice(b, S) => acc.hvar[g].def = <<title[b][j].test>>

\* r is acc with the line booked, under the identifier id.
OneMore(r, acc, line, id, def, m) ==
  /\ m >= acc.maxID /\ id \in 1 .. m
  /\ r.of = Append(acc.of, line.h) /\ r.maxID = m
  /\ r.hvar = With(acc.hvar, line.h, [id |-> id, def |-> def])
  /\ r.hbook = With(acc.hbook, id, [n |-> 0, nx |-> line.nx])
  /\ ~line.user => def = <<line.test>>
  /\ \A g \in DOMAIN acc.hvar : g # line.h => acc.hvar[g].id # id

\* One line gives its histogram an identifier that no other has.
LEMMA BookaHistIs ==
  ASSUME NEW acc, Numbered(acc.hvar, acc.hbook, acc.maxID), NEW line, CanBook(line)
  PROVE  \E id, def : \E m \in Nat : OneMore(thBookaHist(acc, line), acc, line, id, def, m)
<1> DEFINE new == line.h \notin DOMAIN acc.hvar
           old == IF new THEN [id |-> acc.maxID + 1, def |-> NoDef] ELSE acc.hvar[line.h]
           first == IF new THEN acc.maxID + 1 ELSE acc.maxID
           exists == old.id \in DOMAIN acc.hbook
           id == IF exists THEN first + 1 ELSE old.id
           def == IF line.user THEN old.def ELSE Definition(old.def, line)
           m == IF exists THEN first + 1 ELSE first
           und == acc.undefined \/ (~line.user /\ ~new /\ old.def = NoDef)
<1>1. thBookaHist(acc, line) =
        [of |-> Append(acc.of, line.h), maxID |-> m,
         hvar |-> With(acc.hvar, line.h, [id |-> id, def |-> def]),
         hbook |-> With(acc.hbook, id, [n |-> 0, nx |-> line.nx]),
         undefined |-> und]
  BY Zenon DEF thBookaHist
<1>2. /\ acc.maxID \in Nat /\ DOMAIN acc.hbook \subseteq 1 .. acc.maxID
      /\ \A g \in DOMAIN acc.hvar : acc.hvar[g].id \in 1 .. acc.maxID
      /\ \A g, h \in DOMAIN acc.hvar : acc.hvar[g].id = acc.hvar[h].id => g = h
  BY DEF Numbered
<1>3. /\ m \in Nat /\ m >= acc.maxID /\ id \in 1 .. m
      /\ \A g \in DOMAIN acc.hvar : g # line.h => acc.hvar[g].id # id
  <2>1. CASE new
    <3>1. old.id = acc.maxID + 1 /\ first = acc.maxID + 1 /\ acc.maxID + 1 \notin 1 .. acc.maxID
      BY <1>2, <2>1
    <3>2. ~exists
      BY <1>2, <3>1
    <3>3. id = acc.maxID + 1 /\ m = acc.maxID + 1
      BY <3>1, <3>2
    <3> HIDE DEF id, m
    <3> QED
      BY <1>2, <3>1, <3>3
  <2>2. CASE ~new /\ exists
    <3>1. id = acc.maxID + 1 /\ m = acc.maxID + 1
      BY <2>2
    <3> HIDE DEF id, m
    <3> QED
      BY <1>2, <3>1
  <2>3. CASE ~new /\ ~exists
    <3>1. id = acc.hvar[line.h].id /\ m = acc.maxID /\ line.h \in DOMAIN acc.hvar
      BY <2>3
    <3> HIDE DEF id, m
    <3> QED
      BY <1>2, <3>1
  <2> QED
    BY <2>1, <2>2, <2>3
<1>4. ~line.user => def = <<line.test>>
  BY DEF Definition
<1> HIDE DEF id, def, m, und
<1>5. /\ thBookaHist(acc, line).of = Append(acc.of, line.h)
      /\ thBookaHist(acc, line).maxID = m
      /\ thBookaHist(acc, line).hvar = With(acc.hvar, line.h, [id |-> id, def |-> def])
      /\ thBookaHist(acc, line).hbook = With(acc.hbook, id, [n |-> 0, nx |-> line.nx])
  BY <1>1
<1> QED
  BY <1>3, <1>4, <1>5 DEF OneMore

\* The identifiers stay apart when a histogram takes one that no other has.
LEMMA NumberedNext ==
  ASSUME NEW hv, NEW hb, NEW m, Numbered(hv, hb, m), NEW l \in Nat, l >= m,
         NEW z, NEW id \in 1 .. l, NEW def, NEW nx,
         \A g \in DOMAIN hv : g # z => hv[g].id # id
  PROVE  Numbered(With(hv, z, [id |-> id, def |-> def]), With(hb, id, [n |-> 0, nx |-> nx]), l)
<1>1. /\ m \in Nat
      /\ hv = [h \in DOMAIN hv |-> [id |-> hv[h].id, def |-> hv[h].def]]
      /\ \A h \in DOMAIN hv : hv[h].id \in 1 .. m
      /\ \A g, h \in DOMAIN hv : hv[g].id = hv[h].id => g = h
      /\ hb = [i \in DOMAIN hb |-> [n |-> hb[i].n, nx |-> hb[i].nx]]
      /\ DOMAIN hb \subseteq 1 .. m
  BY DEF Numbered
<1> DEFINE w == With(hv, z, [id |-> id, def |-> def])
           v == With(hb, id, [n |-> 0, nx |-> nx])
<1>2. w = [y \in DOMAIN hv \cup {z} |-> IF y = z THEN [id |-> id, def |-> def] ELSE hv[y]]
      /\ v = [y \in DOMAIN hb \cup {id} |-> IF y = id THEN [n |-> 0, nx |-> nx] ELSE hb[y]]
  BY DEF With
<1> HIDE DEF w, v
<1>3. DOMAIN w = DOMAIN hv \cup {z} /\ w[z].id = id /\ \A g \in DOMAIN hv : g # z => w[g] = hv[g]
  BY <1>2
<1>4. w = [h \in DOMAIN w |-> [id |-> w[h].id, def |-> w[h].def]]
  BY <1>1, <1>2
<1>5. v = [i \in DOMAIN v |-> [n |-> v[i].n, nx |-> v[i].nx]]
  BY <1>1, <1>2
<1>6. \A h \in DOMAIN w : w[h].id \in 1 .. l
  BY <1>1, <1>3
<1>7. \A g, h \in DOMAIN w : w[g].id = w[h].id => g = h
  BY <1>1, <1>3
<1>8. DOMAIN v \subseteq 1 .. l
  BY <1>1, <1>2
<1> QED
  BY <1>4, <1>5, <1>6, <1>7, <1>8 DEF Numbered, w, v

LEMMA TakenNext ==
  ASSUME NEW b, NEW i \in Nat
  PROVE  /\ CanBook(title[b][i + 1]) => Taken(b, i + 1) = Taken(b, i) \cup {i + 1}
         /\ ~CanBook(title[b][i + 1]) => Taken(b, i + 1) = Taken(b, i)
         /\ \A j \in Taken(b, i) : j < i + 1
<1>1. 1 .. i + 1 = (1 .. i) \cup {i + 1}
  OBVIOUS
<1> QED
  BY <1>1 DEF Taken

LEMMA HistsToNext ==
  ASSUME NEW acc, NEW b, NEW rem, NEW i \in Nat, HistsTo(acc, b, rem, Taken(b, i)), title[b][i + 1] \in HistLines,
         Numbered(hvar, rem.hbook, maxID)
  PROVE  HistsTo(thBookaHist(acc, title[b][i + 1]), b, rem, Taken(b, i + 1))
<1> DEFINE line == title[b][i + 1]
           S == Taken(b, i)
           R == Taken(b, i + 1)
<1>1. CASE ~CanBook(line)
  <2>1. thBookaHist(acc, line) = acc
    BY <1>1 DEF thBookaHist
  <2>2. R = S
    BY <1>1, TakenNext
  <2> QED
    BY <2>1, <2>2
<1>2. CASE CanBook(line)
  <2>1. Numbered(acc.hvar, acc.hbook, acc.maxID)
    BY DEF HistsTo
  <2>2. PICK id, def : \E m \in Nat : OneMore(thBookaHist(acc, line), acc, line, id, def, m)
    <3> HIDE DEF line
    <3> QED
      BY <1>2, <2>1, BookaHistIs
  <2>3. PICK m \in Nat : OneMore(thBookaHist(acc, line), acc, line, id, def, m)
    BY <2>2
  <2>4. PICK r : r = thBookaHist(acc, line)
    OBVIOUS
  <2>5. /\ r.of = Append(acc.of, line.h) /\ r.maxID = m /\ m >= acc.maxID /\ id \in 1 .. m
        /\ r.hvar = With(acc.hvar, line.h, [id |-> id, def |-> def])
        /\ r.hbook = With(acc.hbook, id, [n |-> 0, nx |-> line.nx])
        /\ ~line.user => def = <<line.test>>
        /\ \A g \in DOMAIN acc.hvar : g # line.h => acc.hvar[g].id # id
    BY <2>3, <2>4 DEF OneMore
  <2>6. R = S \cup {i + 1} /\ \A j \in S : j < i + 1
    BY <1>2, TakenNext
  <2>7. line.h \in STRING
    BY DEF HistLines
  <2>8. Named(b, R) = Named(b, S) \cup {line.h}
    BY <2>6 DEF Named
  <2>9. Twice(b, S) \subseteq Twice(b, R) /\ (line.h \in Named(b, S) => line.h \in Twice(b, R))
    <3>1. i + 1 \in R /\ S \subseteq R /\ \A j \in S : j \in R /\ j < i + 1
      BY <2>6
    <3>2. Twice(b, S) \subseteq Twice(b, R)
      BY <3>1 DEF Twice
    <3>3. ASSUME line.h \in Named(b, S) PROVE line.h \in Twice(b, R)
      <4>1. PICK j \in S : title[b][j].h = line.h
        BY <3>3 DEF Named
      <4> QED
        BY <3>1, <4>1 DEF Twice
    <3> QED
      BY <3>2, <3>3
  <2>10. Numbered(r.hvar, r.hbook, r.maxID) /\ r.maxID >= maxID
    <3>1. acc.maxID >= maxID /\ maxID \in Nat /\ acc.maxID \in Nat
      BY <2>1 DEF HistsTo, Numbered
    <3>2. r.maxID >= maxID
      BY <2>5, <3>1
    <3>3. PICK n : n = acc.maxID
      OBVIOUS
    <3>4. Numbered(With(acc.hvar, line.h, [id |-> id, def |-> def]), With(acc.hbook, id, [n |-> 0, nx |-> line.nx]), m)
      <4> HIDE DEF line
      <4> QED
        BY <2>1, <2>5, NumberedNext
    <3> QED
      BY SMTT(30), <2>5, <3>2, <3>4
  <2>11. /\ DOMAIN r.hvar = DOMAIN acc.hvar \cup {line.h} /\ r.hvar[line.h] = [id |-> id, def |-> def]
         /\ \A g \in DOMAIN acc.hvar : g # line.h => r.hvar[g] = acc.hvar[g]
    <3>1. PICK v : v = [id |-> id, def |-> def]
      OBVIOUS
    <3>2. PICK z, w : z = line.h /\ w = With(acc.hvar, z, v)
      OBVIOUS
    <3>3. DOMAIN w = DOMAIN acc.hvar \cup {z} /\ w[z] = v /\ \A g \in DOMAIN acc.hvar : g # z => w[g] = acc.hvar[g]
      BY <3>2 DEF With
    <3> HIDE DEF line
    <3> QED
      BY <2>5, <3>1, <3>2, <3>3
  <2>12. /\ DOMAIN r.hbook = DOMAIN acc.hbook \cup {id} /\ r.hbook[id] = [n |-> 0, nx |-> line.nx]
         /\ \A k \in DOMAIN acc.hbook : k # id => r.hbook[k] = acc.hbook[k]
    <3>1. PICK v : v = [n |-> 0, nx |-> line.nx]
      OBVIOUS
    <3>2. PICK w : w = With(acc.hbook, id, v)
      OBVIOUS
    <3>3. DOMAIN w = DOMAIN acc.hbook \cup {id} /\ w[id] = v /\ \A k \in DOMAIN acc.hbook : k # id => w[k] = acc.hbook[k]
      BY <3>2 DEF With
    <3> HIDE DEF line
    <3> QED
      BY <2>5, <3>1, <3>2, <3>3
  <2>13. DOMAIN acc.hvar = DOMAIN hvar \cup Named(b, S)
    BY DEF HistsTo
  <2>14. DOMAIN r.hvar = DOMAIN hvar \cup Named(b, R)
    BY <2>8, <2>11, <2>13
  <2>15. PICK s \in Seq(STRING) : s = acc.of
    BY DEF HistsTo
  <2>16. r.of \in Seq(STRING) /\ ToSet(r.of) = Named(b, R) /\ DOMAIN r.of = 1 .. Len(s) + 1
         /\ (\A p \in 1 .. Len(s) : r.of[p] = s[p]) /\ r.of[Len(s) + 1] = line.h
    <3>1. ToSet(s) = Named(b, S)
      BY <2>15 DEF HistsTo
    <3>2. PICK e \in STRING : e = line.h
      BY <2>7
    <3>3. /\ Append(s, e) \in Seq(STRING) /\ DOMAIN Append(s, e) = 1 .. Len(s) + 1
          /\ (\A p \in 1 .. Len(s) : Append(s, e)[p] = s[p]) /\ Append(s, e)[Len(s) + 1] = e
          /\ ToSet(Append(s, e)) = ToSet(s) \cup {e}
      BY AppendFacts
    <3>4. r.of = Append(s, e)
      BY <2>5, <2>15, <3>2
    <3> HIDE DEF line
    <3> QED
      BY <2>8, <3>1, <3>2, <3>3, <3>4
  <2>17. \A p, q \in DOMAIN r.of : p # q /\ r.of[p] = r.of[q] => r.of[p] \in Twice(b, R)
    <3>1. \A p, q \in DOMAIN s : p # q /\ s[p] = s[q] => s[p] \in Twice(b, S)
      BY <2>15 DEF HistsTo
    <3>2. ToSet(s) = Named(b, S)
      BY <2>15 DEF HistsTo
    <3>3. Len(s) \in Nat /\ DOMAIN s = 1 .. Len(s)
      OBVIOUS
    <3>4. \A p \in 1 .. Len(s) : s[p] \in Named(b, S)
      BY <3>2, <3>3 DEF ToSet
    <3> SUFFICES ASSUME NEW p \in DOMAIN r.of, NEW q \in DOMAIN r.of, p # q, r.of[p] = r.of[q]
                 PROVE  r.of[p] \in Twice(b, R)
      OBVIOUS
    <3>5. p \in 1 .. Len(s) \/ p = Len(s) + 1
      BY <2>16, <3>3
    <3>6. q \in 1 .. Len(s) \/ q = Len(s) + 1
      BY <2>16, <3>3
    <3>7. CASE p \in 1 .. Len(s) /\ q \in 1 .. Len(s)
      BY <2>9, <2>16, <3>1, <3>3, <3>7
    <3>8. CASE p \in 1 .. Len(s) /\ q = Len(s) + 1
      BY <2>9, <2>16, <3>4, <3>8
    <3>9. CASE p = Len(s) + 1 /\ q \in 1 .. Len(s)
      BY <2>9, <2>16, <3>4, <3>9
    <3> QED
      BY <3>5, <3>6, <3>7, <3>8, <3>9
  <2>18. ASSUME NEW g \in DOMAIN hvar \ Named(b, R)
         PROVE  /\ r.hvar[g] = hvar[g]
                /\ hvar[g].id \in DOMAIN r.hbook <=> hvar[g].id \in DOMAIN rem.hbook
                /\ hvar[g].id \in DOMAIN rem.hbook => r.hbook[hvar[g].id] = rem.hbook[hvar[g].id]
    <3>1. g \notin Named(b, S) /\ g # line.h /\ g \in DOMAIN acc.hvar
      BY <2>8, <2>13
    <3>2. /\ acc.hvar[g] = hvar[g]
          /\ hvar[g].id \in DOMAIN acc.hbook <=> hvar[g].id \in DOMAIN rem.hbook
          /\ hvar[g].id \in DOMAIN rem.hbook => acc.hbook[hvar[g].id] = rem.hbook[hvar[g].id]
      BY <3>1 DEF HistsTo
    <3>3. hvar[g].id # id
      BY <2>5, <3>1, <3>2
    <3> QED
      BY <2>11, <2>12, <3>1, <3>2, <3>3
  <2>19. ASSUME NEW j \in R, NEW g \in {title[b][j].h}
         PROVE  /\ r.hvar[g].id \in DOMAIN r.hbook /\ r.hbook[r.hvar[g].id].n = 0
                /\ ~title[b][j].user /\ g \notin Twice(b, R) => r.hvar[g].def = <<title[b][j].test>>
    <3>1. CASE g = line.h
      <4>1. r.hvar[g].id \in DOMAIN r.hbook /\ r.hbook[r.hvar[g].id].n = 0 /\ r.hvar[g].def = def
        BY <2>11, <2>12, <3>1
      <4>2. CASE j = i + 1
        BY SMTT(30), <2>5, <4>1, <4>2
      <4>3. CASE j # i + 1
        <5>1. j \in S /\ line.h \in Named(b, S)
          BY <2>6, <3>1, <4>3 DEF Named
        <5> QED
          BY <2>9, <3>1, <4>1, <5>1
      <4> QED
        BY SMTT(30), <4>2, <4>3
    <3>2. CASE g # line.h
      <4>1. j \in S /\ g \in Named(b, S)
        BY <2>6, <3>2 DEF Named
      <4>2. g \in DOMAIN acc.hvar /\ r.hvar[g] = acc.hvar[g] /\ acc.hvar[g].id # id
        BY <2>5, <2>11, <2>13, <3>2, <4>1
      <4>3. /\ acc.hvar[g].id \in DOMAIN acc.hbook /\ acc.hbook[acc.hvar[g].id].n = 0
            /\ ~title[b][j].user /\ g \notin Twice(b, S) => acc.hvar[g].def = <<title[b][j].test>>
        BY SMTT(30), <4>1 DEF HistsTo
      <4> QED
        BY <2>9, <2>12, <4>2, <4>3
    <3> QED
      BY <3>1, <3>2
  <2> HIDE DEF line
  <2>20. HistsTo(r, b, rem, Taken(b, i + 1))
    BY <2>10, <2>14, <2>16, <2>17, <2>18, <2>19 DEF HistsTo
  <2> QED
    BY <2>4, <2>20 DEF line
<1> QED
  BY <1>1, <1>2

LEMMA BookedHistsIs ==
  ASSUME TitlesOK, NEW b \in HistBlocks, NEW rem, Numbered(hvar, rem.hbook, maxID)
  PROVE  HistsTo(BookedHists(b, rem), b, rem, {i \in DOMAIN title[b] : CanBook(title[b][i])})
<1> DEFINE n == Len(title[b])
<1>1. title[b] \in Seq(HistLines) /\ n \in Nat /\ DOMAIN title[b] = 1 .. n
      /\ \A i \in 1 .. n : title[b][i] \in HistLines
  BY DEF TitlesOK
<1>2. PICK h : HistSteps(h, b, rem, n) /\ BookedHists(b, rem) = h[n]
  BY <1>1, HistStepsIs
<1> DEFINE S == {i \in 0 .. n : HistsTo(h[i], b, rem, Taken(b, i))}
<1>3. 0 \in S
  <2>1. h[0] = FirstHists(rem)
    BY <1>1, <1>2 DEF HistSteps
  <2>2. PICK r : r = FirstHists(rem)
    OBVIOUS
  <2>3. r.of = <<>> /\ r.maxID = maxID /\ r.hvar = hvar /\ r.hbook = rem.hbook
    BY <2>2 DEF FirstHists
  <2>4. Taken(b, 0) = {} /\ Named(b, {}) = {} /\ ToSet(<<>>) = {} /\ DOMAIN <<>> = {}
    BY DEF Taken, Named, ToSet
  <2>5. \A T : <<>> \in Seq(T)
    OBVIOUS
  <2>6. maxID \in Nat /\ maxID >= maxID
    BY DEF Numbered
  <2>7. Numbered(r.hvar, r.hbook, r.maxID) /\ r.maxID >= maxID /\ DOMAIN r.hvar = DOMAIN hvar \cup Named(b, {})
    BY <2>3, <2>4, <2>6
  <2>8. r.of \in Seq(STRING) /\ ToSet(r.of) = Named(b, {}) /\ DOMAIN r.of = {}
    BY <2>3, <2>4, <2>5
  <2>9. \A g \in DOMAIN hvar \ Named(b, {}) : r.hvar[g] = hvar[g] /\ r.hbook = rem.hbook
    BY <2>3
  <2>10. HistsTo(r, b, rem, {})
    <3>1. \A p, q \in DOMAIN r.of : p # q /\ r.of[p] = r.of[q] => r.of[p] \in Twice(b, {})
      BY <2>8
    <3>2. \A g \in DOMAIN hvar \ Named(b, {}) :
            /\ r.hvar[g] = hvar[g]
            /\ hvar[g].id \in DOMAIN r.hbook <=> hvar[g].id \in DOMAIN rem.hbook
            /\ hvar[g].id \in DOMAIN rem.hbook => r.hbook[hvar[g].id] = rem.hbook[hvar[g].id]
      BY <2>9
    <3>3. \A j \in {} : \A g \in {title[b][j].h} :
            /\ r.hvar[g].id \in DOMAIN r.hbook /\ r.hbook[r.hvar[g].id].n = 0
            /\ ~title[b][j].user /\ g \notin Twice(b, {}) => r.hvar[g].def = <<title[b][j].test>>
      OBVIOUS
    <3> QED
      BY <2>7, <2>8, <3>1, <3>2, <3>3 DEF HistsTo
  <2>11. HistsTo(h[0], b, rem, Taken(b, 0))
    BY <2>1, <2>2, <2>4, <2>10
  <2> QED
    BY <1>1, <2>11
<1>4. \A i \in 0 .. n - 1 : i \in S => i + 1 \in S
  <2> SUFFICES ASSUME NEW i \in 0 .. n - 1, i \in S PROVE i + 1 \in S
    OBVIOUS
  <2>1. i \in Nat /\ i + 1 \in 0 .. n /\ i + 1 # 0 /\ (i + 1) - 1 = i /\ i + 1 \in 1 .. n
    BY <1>1
  <2>2. h[i + 1] = thBookaHist(h[i], title[b][i + 1])
    <3> HIDE DEF n
    <3> QED
      BY <1>2, <2>1 DEF HistSteps
  <2>3. title[b][i + 1] \in HistLines /\ HistsTo(h[i], b, rem, Taken(b, i))
    BY <1>1, <2>1
  <2>4. HistsTo(h[i + 1], b, rem, Taken(b, i + 1))
    BY <2>1, <2>2, <2>3, HistsToNext
  <2> QED
    BY <2>1, <2>4
<1>5. n \in S
  <2>1. \A i \in 0 .. n : i \in S
    <3> HIDE DEF S, n
    <3> QED
      BY <1>1, <1>3, <1>4, UpTo
  <2> QED
    BY <1>1, <2>1
<1>6. Taken(b, n) = {i \in DOMAIN title[b] : CanBook(title[b][i])}
  BY <1>1 DEF Taken
<1> QED
  BY <1>2, <1>5, <1>6

\* What thRemoveHists leaves: only histograms in the list of one block are deleted.
Removed(rem, c) ==
  /\ rem.hblocks \in Seq(HistBlocks)
  /\ rem.specs \in [HistBlocks -> [p : {"null", "list", "freed"}, of : Seq(STRING)]]
  /\ \A d \in HistBlocks : rem.specs[d].of = specs[d].of
  /\ DOMAIN rem.hbook \subseteq DOMAIN hbook /\ rem.hbook = [id \in DOMAIN rem.hbook |-> hbook[id]]
  /\ \A id \in DOMAIN hbook \ DOMAIN rem.hbook : \E h \in ToSet(specs[c].of) : hvar[h].id = id

LEMMA RemoveAtType ==
  ASSUME NEW T, NEW s \in Seq(T), NEW k \in 1 .. Len(s)
  PROVE  RemoveAt(s, k) \in Seq(T)
<1>1. Len(s) \in Nat /\ k \in Nat
  OBVIOUS
<1>2. SubSeq(s, 1, k - 1) \in Seq(T)
  BY <1>1
<1>3. SubSeq(s, k + 1, Len(s)) \in Seq(T)
  BY <1>1
<1>4. \A t, u \in Seq(T) : t \o u \in Seq(T)
  OBVIOUS
<1> QED
  BY <1>2, <1>3, <1>4 DEF RemoveAt

\* The block that thRemoveHists finds has the name of the one that is booked.
LEMMA RemoveHistsIs ==
  ASSUME SpecsOK, NumbersOK, NEW b \in HistBlocks
  PROVE  \E c \in HistBlocks : c[2] = b[2] /\ Removed(thRemoveHists(b), c)
<1> DEFINE found == SelectInSeq(hblocks, LAMBDA c : c[2] = b[2])
           I == {i \in 1 .. Len(hblocks) : hblocks[i][2] = b[2]}
<1>1. hblocks \in Seq(HistBlocks) /\ Len(hblocks) \in Nat
      /\ specs \in [HistBlocks -> [p : {"null", "list", "freed"}, of : Seq(STRING)]]
  BY DEF SpecsOK
<1>2. hbook = [id \in DOMAIN hbook |-> hbook[id]]
  BY DEF NumbersOK, Numbered
<1>3. found = IF I # {} THEN CHOOSE x \in I : \A y \in I : x =< y ELSE 0
  BY Zenon DEF SelectInSeq, Min
<1>4. I # {} => found \in I
  <2>1. I \in SUBSET Nat
    BY <1>1
  <2>2. I # {} => \E x \in I : \A y \in I : x <= y
    <3> HIDE DEF I
    <3> QED
      BY <2>1, LeastOf
  <2> HIDE DEF I, found
  <2> QED
    BY <1>3, <2>2
<1>5. CASE specs[b].p = "null" \/ found = 0
  <2>1. thRemoveHists(b) = [specs |-> specs, hblocks |-> hblocks, hbook |-> hbook, undefined |-> undefined]
    BY <1>5, Zenon DEF thRemoveHists
  <2>2. Removed(thRemoveHists(b), b)
    BY <1>1, <1>2, <2>1 DEF Removed
  <2> QED
    BY <2>2
<1>6. CASE ~(specs[b].p = "null" \/ found = 0)
  <2> DEFINE d == hblocks[found]
             ids == {hvar[h].id : h \in ToSet(specs[d].of)}
             und == undefined \/ specs[d].p = "freed"
  <2>1. thRemoveHists(b) =
          [specs |-> [specs EXCEPT ![d].p = "freed"], hblocks |-> RemoveAt(hblocks, found),
           hbook |-> Without(hbook, ids), undefined |-> und]
    BY <1>6, Zenon DEF thRemoveHists
  <2>2. found \in I
    BY <1>3, <1>4, <1>6
  <2>3. found \in 1 .. Len(hblocks) /\ d[2] = b[2]
    BY <2>2
  <2>4. d \in HistBlocks
    BY <1>1, <2>3
  <2>5. RemoveAt(hblocks, found) \in Seq(HistBlocks)
    <3> HIDE DEF found
    <3> QED
      BY <1>1, <2>3, RemoveAtType
  <2> HIDE DEF found, d
  <2>6. /\ [specs EXCEPT ![d].p = "freed"] \in [HistBlocks -> [p : {"null", "list", "freed"}, of : Seq(STRING)]]
        /\ \A e \in HistBlocks : [specs EXCEPT ![d].p = "freed"][e].of = specs[e].of
    BY <1>1, <2>4
  <2>7. /\ DOMAIN Without(hbook, ids) = DOMAIN hbook \ ids
        /\ Without(hbook, ids) = [id \in DOMAIN hbook \ ids |-> hbook[id]]
    BY DEF Without
  <2>8. \A id \in DOMAIN hbook \ DOMAIN Without(hbook, ids) : \E h \in ToSet(specs[d].of) : hvar[h].id = id
    BY <2>7
  <2> HIDE DEF ids, und
  <2>9. Removed(thRemoveHists(b), d)
    <3>1. PICK r : r = thRemoveHists(b)
      OBVIOUS
    <3>2. r.specs = [specs EXCEPT ![d].p = "freed"] /\ r.hblocks = RemoveAt(hblocks, found) /\ r.hbook = Without(hbook, ids)
      BY <2>1, <3>1
    <3>3. r.hblocks \in Seq(HistBlocks)
      BY <2>5, <3>2
    <3>4. r.specs \in [HistBlocks -> [p : {"null", "list", "freed"}, of : Seq(STRING)]]
          /\ \A e \in HistBlocks : r.specs[e].of = specs[e].of
      BY <2>6, <3>2
    <3>5. /\ DOMAIN r.hbook \subseteq DOMAIN hbook /\ r.hbook = [id \in DOMAIN r.hbook |-> hbook[id]]
          /\ \A id \in DOMAIN hbook \ DOMAIN r.hbook : \E h \in ToSet(specs[d].of) : hvar[h].id = id
      BY <2>7, <2>8, <3>2
    <3> QED
      BY <3>1, <3>3, <3>4, <3>5 DEF Removed
  <2> QED
    BY <2>3, <2>4, <2>9
<1> QED
  BY <1>5, <1>6

LEMMA BookHistsKeeps ==
  ASSUME IInv, phase = "setup", NEW b \in HistBlocks, b \in ToSet(list[b[1]]), ~IsBooked(b),
         varptr' = [varptr EXCEPT ![b] = << 0 >>], UNCHANGED <<phase, list, title>>, thBookHists(b)
  PROVE  IInv'
<1> DEFINE S == {i \in DOMAIN title[b] : CanBook(title[b][i])}
           N == Named(b, S)
<1>1. PICK rem, end :
        /\ rem = thRemoveHists(b) /\ end = BookedHists(b, rem)
        /\ specs' = IF end.of = <<>> THEN rem.specs ELSE [rem.specs EXCEPT ![b] = [p |-> "list", of |-> end.of]]
        /\ hblocks' = thAddVarToList(rem.hblocks, b)
        /\ hvar' = end.hvar /\ hbook' = end.hbook /\ maxID' = end.maxID
        /\ cache' = thHistZeroLastId(cache)
        /\ taken' = [taken EXCEPT ![b] = S]
        /\ dueH' = [h \in DOMAIN end.hvar |-> IF h \in N THEN 0 ELSE Held(dueH, h)]
        /\ shared' = shared \cup Twice(b, S) \cup (N \cap OtherHists(b))
        /\ UNCHANGED <<tests, dueS>>
  BY ZenonT(60) DEF thBookHists
<1>2. SpecsOK /\ NumbersOK /\ TitlesOK /\ HistsApart
  BY DEF IInv, Structure, HistInv
<1>3. PICK c \in HistBlocks : c[2] = b[2] /\ Removed(rem, c)
  BY <1>1, <1>2, RemoveHistsIs
<1>4. /\ maxID \in Nat /\ DOMAIN hbook \subseteq 1 .. maxID
      /\ \A g, h \in DOMAIN hvar : hvar[g].id = hvar[h].id => g = h
      /\ hbook = [id \in DOMAIN hbook |-> [n |-> hbook[id].n, nx |-> hbook[id].nx]]
      /\ DOMAIN dueH = DOMAIN hvar
  BY <1>2 DEF NumbersOK, Numbered
<1>5. Numbered(hvar, rem.hbook, maxID)
  <2>1. DOMAIN rem.hbook \subseteq DOMAIN hbook /\ rem.hbook = [id \in DOMAIN rem.hbook |-> hbook[id]]
    BY <1>3 DEF Removed
  <2>2. rem.hbook = [id \in DOMAIN rem.hbook |-> [n |-> rem.hbook[id].n, nx |-> rem.hbook[id].nx]]
    <3>1. PICK r : r = rem.hbook
      OBVIOUS
    <3>2. DOMAIN r \subseteq DOMAIN hbook /\ r = [id \in DOMAIN r |-> hbook[id]]
      BY <2>1, <3>1
    <3>3. \A id \in DOMAIN r : r[id] = [n |-> r[id].n, nx |-> r[id].nx]
      BY <1>4, <3>2
    <3>4. r = [id \in DOMAIN r |-> [n |-> r[id].n, nx |-> r[id].nx]]
      BY <3>2, <3>3
    <3> QED
      BY <3>1, <3>4
  <2> QED
    BY <1>2, <1>4, <2>1, <2>2 DEF NumbersOK, Numbered
<1>6. HistsTo(end, b, rem, S)
  BY <1>1, <1>2, <1>5, BookedHistsIs
<1> HIDE DEF S, N
<1>7. N = Named(b, S)
  BY DEF N
<1>8. /\ Numbered(hvar', hbook', maxID')
      /\ DOMAIN hvar' = DOMAIN hvar \cup N
      /\ end.of \in Seq(STRING) /\ ToSet(end.of) = N
      /\ \A p, q \in DOMAIN end.of : p # q /\ end.of[p] = end.of[q] => end.of[p] \in Twice(b, S)
      /\ \A j \in S : \A g \in {title[b][j].h} :
           /\ hvar'[g].id \in DOMAIN hbook' /\ hbook'[hvar'[g].id].n = 0
           /\ ~title[b][j].user /\ g \notin Twice(b, S) => hvar'[g].def = <<title[b][j].test>>
  BY ZenonT(30), <1>1, <1>6, <1>7 DEF HistsTo
<1>9. \A g \in DOMAIN hvar \ N :
        /\ hvar'[g] = hvar[g]
        /\ hvar[g].id \in DOMAIN rem.hbook => hvar[g].id \in DOMAIN hbook' /\ hbook'[hvar[g].id] = rem.hbook[hvar[g].id]
  BY <1>1, <1>6, <1>7 DEF HistsTo
<1>10. /\ dueH' = [h \in DOMAIN hvar' |-> IF h \in N THEN 0 ELSE Held(dueH, h)]
       /\ shared' = shared \cup Twice(b, S) \cup (N \cap OtherHists(b))
  BY <1>1
<1>11. b \in Blocks /\ \A d \in HistBlocks : d \in Blocks
  BY Classes
<1>12. /\ ListsOK' /\ DOMAIN varptr' = Blocks /\ varptr'[b] # NotBooked
       /\ \A d \in Blocks : d # b => varptr'[d] = varptr[d]
  BY <1>11, OneBooked DEF IInv, Structure
<1>13. taken'[b] = S /\ DOMAIN taken' = Blocks /\ \A d \in Blocks : d # b => taken'[d] = taken[d]
  <2>1. DOMAIN taken = Blocks
    BY DEF IInv, Structure, TestsBooked
  <2> QED
    BY <1>1, <1>11, <2>1
<1>14. TitlesOK'
  BY <1>2 DEF TitlesOK
<1>15. Kept(TestBlocks)
  BY <1>12, <1>13, Classes DEF Kept
<1>16. UNCHANGED <<code, vlist, flag, scaler, dueS>> /\ shared \subseteq shared'
  BY <1>1, <1>10 DEF tests
<1>17. FlagsOK'
  BY <1>16 DEF FlagsOK, IInv, Structure
<1>18. TestsBooked' /\ FlagsApart'
  BY <1>13, <1>15, <1>16, TestsFrame DEF IInv, Structure, TestInv
<1>19. ScalersDue'
  BY <1>15, <1>16, ScalersFrame DEF IInv, TestInv
<1>20. NumbersOK'
  <2>1. DOMAIN dueH' = DOMAIN hvar'
    BY <1>10
  <2>2. Numbered(hvar, hbook, maxID)'
    BY <1>8 DEF Numbered
  <2> QED
    BY <2>1, <2>2 DEF NumbersOK
<1>21. CacheOK'
  <2>1. cache = [id |-> cache.id, nx |-> cache.nx]
    BY DEF IInv, CacheOK
  <2>2. cache' = [id |-> 0, nx |-> cache.nx]
    BY <1>1, <2>1 DEF thHistZeroLastId
  <2>3. 0 \notin DOMAIN hbook'
    BY <1>8 DEF Numbered
  <2> QED
    BY <2>2, <2>3 DEF CacheOK
<1>22. /\ rem.specs \in [HistBlocks -> [p : {"null", "list", "freed"}, of : Seq(STRING)]]
       /\ \A d \in HistBlocks : rem.specs[d].of = specs[d].of
       /\ rem.hblocks \in Seq(HistBlocks)
  BY <1>3 DEF Removed
<1>23. /\ specs' \in [HistBlocks -> [p : {"null", "list", "freed"}, of : Seq(STRING)]]
       /\ \A d \in HistBlocks : d # b => specs'[d].of = specs[d].of
       /\ specs'[b].of = IF end.of = <<>> THEN specs[b].of ELSE end.of
  <2>1. CASE end.of = <<>>
    <3>1. specs' = rem.specs
      BY <1>1, <2>1
    <3> QED
      BY <1>22, <2>1, <3>1
  <2>2. CASE end.of # <<>>
    <3>1. specs' = [rem.specs EXCEPT ![b] = [p |-> "list", of |-> end.of]]
      BY <1>1, <2>2
    <3>2. [p |-> "list", of |-> end.of] \in [p : {"null", "list", "freed"}, of : Seq(STRING)]
      BY <1>8
    <3> QED
      BY <1>22, <2>2, <3>1, <3>2
  <2> QED
    BY <2>1, <2>2
<1>24. \A d \in HistBlocks : ToSet(specs[d].of) \subseteq DOMAIN hvar
  BY <1>2 DEF SpecsOK
<1>25. SpecsOK'
  <2>1. hblocks' \in Seq(HistBlocks)
    <3>1. PICK s \in Seq(HistBlocks) : s = rem.hblocks
      BY <1>22
    <3>2. thAddVarToList(s, b) \in Seq(HistBlocks)
      BY AddVarFacts
    <3> QED
      BY <1>1, <3>1, <3>2
  <2>2. \A d \in HistBlocks : ToSet(specs'[d].of) \subseteq DOMAIN hvar'
    BY <1>8, <1>23, <1>24
  <2> QED
    BY <1>23, <2>1, <2>2 DEF SpecsOK
<1>26. \A d \in HistBlocks : d # b => ToSet(specs[d].of) \subseteq OtherHists(b)
  BY DEF OtherHists
<1>27. HistsApart'
  <2>1. ASSUME NEW d \in HistBlocks, d # b
        PROVE  ToSet(specs'[b].of) \cap ToSet(specs'[d].of) \subseteq shared'
    <3>1. specs'[d].of = specs[d].of
      BY <1>23, <2>1
    <3>2. CASE end.of = <<>>
      <4>1. ToSet(specs[b].of) \cap ToSet(specs[d].of) \subseteq shared
        BY <1>2, <2>1 DEF HistsApart
      <4> QED
        BY <1>16, <1>23, <3>1, <3>2, <4>1
    <3>3. CASE end.of # <<>>
      BY <1>8, <1>10, <1>23, <1>26, <2>1, <3>1, <3>3
    <3> QED
      BY <3>2, <3>3
  <2>2. ASSUME NEW d \in HistBlocks, NEW e \in HistBlocks, d # e
        PROVE  ToSet(specs'[d].of) \cap ToSet(specs'[e].of) \subseteq shared'
    <3>1. CASE d = b
      BY <2>1, <2>2, <3>1
    <3>2. CASE e = b
      BY <2>1, <2>2, <3>2
    <3>3. CASE d # b /\ e # b
      <4>1. ToSet(specs[d].of) \cap ToSet(specs[e].of) \subseteq shared
        BY <1>2, <2>2 DEF HistsApart
      <4> QED
        BY <1>16, <1>23, <3>3, <4>1
    <3> QED
      BY <3>1, <3>2, <3>3
  <2>3. ASSUME NEW d \in HistBlocks, NEW p \in DOMAIN specs'[d].of, NEW q \in DOMAIN specs'[d].of,
               p # q, specs'[d].of[p] = specs'[d].of[q]
        PROVE  specs'[d].of[p] \in shared'
    <3>1. CASE d = b /\ end.of # <<>>
      <4>1. specs'[d].of = end.of
        BY <1>23, <3>1
      <4>2. end.of[p] \in Twice(b, S)
        BY <1>8, <2>3, <4>1
      <4> QED
        BY <1>10, <4>1, <4>2
    <3>2. CASE ~(d = b /\ end.of # <<>>)
      <4>1. specs'[d].of = specs[d].of
        BY <1>23, <3>2
      <4>2. specs[d].of[p] \in shared
        BY <1>2, <2>3, <4>1 DEF HistsApart
      <4> QED
        BY <1>16, <4>1, <4>2
    <3> QED
      BY <3>1, <3>2
  <2> QED
    BY <2>2, <2>3 DEF HistsApart
<1>28. DOMAIN title[b] \subseteq Nat
  BY <1>2 DEF TitlesOK
<1>29. S \subseteq DOMAIN title[b] /\ \A i \in S : CanBook(title[b][i])
  BY DEF S
\* The block that is booked
<1>30. /\ S # {} => ToSet(specs'[b].of) = N
       /\ \A i, j \in S : i # j /\ title[b][i].h = title[b][j].h => title[b][i].h \in shared'
       /\ \A i \in S : /\ title[b][i].h \in N
                       /\ ~title[b][i].user => title[b][i].test = NoTest \/ title[b][i].test \in DOMAIN flag
  <2>1. \A i \in S : title[b][i].h \in N
    BY <1>7 DEF Named
  <2>2. ToSet(<<>>) = {}
    BY DEF ToSet
  <2>3. S # {} => ToSet(specs'[b].of) = N
    BY <1>8, <1>23, <2>1, <2>2
  <2>4. ASSUME NEW i \in S, NEW j \in S, i # j, title[b][i].h = title[b][j].h
        PROVE  title[b][i].h \in shared'
    <3>1. i < j \/ j < i
      BY <1>28, <1>29, <2>4
    <3>2. title[b][i].h \in Twice(b, S)
      BY <2>4, <3>1 DEF Twice
    <3> QED
      BY <1>10, <3>2
  <2>5. \A i \in S : ~title[b][i].user => title[b][i].test = NoTest \/ title[b][i].test \in DOMAIN flag
    BY <1>29 DEF CanBook
  <2> QED
    BY <2>1, <2>3, <2>4, <2>5
\* The other blocks
<1>31. ASSUME NEW d \in HistBlocks, d # b, varptr'[d] # NotBooked
       PROVE  IsBooked(d) /\ taken'[d] = taken[d] /\ title'[d] = title[d] /\ specs'[d].of = specs[d].of
  BY <1>11, <1>12, <1>13, <1>23, <1>31 DEF IsBooked
<1>32. ASSUME NEW d \in HistBlocks, d # b, varptr'[d] # NotBooked, NEW i \in taken[d], NameAt(d, i) \notin shared'
       PROVE  /\ NameAt(d, i) \in DOMAIN hvar /\ NameAt(d, i) \notin N /\ NameAt(d, i) \notin shared
              /\ NameAt(d, i) \in ToSet(specs[d].of)
              /\ hvar'[NameAt(d, i)] = hvar[NameAt(d, i)]
              /\ dueH'[NameAt(d, i)] = dueH[NameAt(d, i)]
  <2>1. NameAt(d, i) \in ToSet(specs[d].of) /\ NameAt(d, i) \in DOMAIN hvar
    BY <1>31, <1>32, OwnName
  <2>2. NameAt(d, i) \notin N /\ NameAt(d, i) \notin shared
    BY <1>10, <1>26, <1>32, <2>1
  <2>3. hvar'[NameAt(d, i)] = hvar[NameAt(d, i)]
    BY <1>9, <2>1, <2>2
  <2>4. dueH'[NameAt(d, i)] = dueH[NameAt(d, i)]
    BY <1>4, <1>8, <1>10, <2>1, <2>2 DEF Held
  <2> QED
    BY <2>1, <2>2, <2>3, <2>4
<1>33. ASSUME NEW d \in HistBlocks, d # b, varptr'[d] # NotBooked, Alone(d), NEW i \in taken[d], NameAt(d, i) \notin shared'
       PROVE  /\ hvar[NameAt(d, i)].id \in DOMAIN hbook'
              /\ hbook'[hvar[NameAt(d, i)].id] = hbook[hvar[NameAt(d, i)].id]
  <2> DEFINE g == NameAt(d, i)
             id == hvar[g].id
  <2>1. g \in DOMAIN hvar /\ g \notin N /\ g \notin shared /\ g \in ToSet(specs[d].of)
    BY <1>32, <1>33
  <2>2. id \in DOMAIN hbook
    BY <1>31, <1>33, <2>1 DEF IInv, HistInv, InHbook
  <2>3. c # d
    BY <1>3, <1>33 DEF Alone
  <2> HIDE DEF g
  <2>4. id \in DOMAIN rem.hbook
    <3> SUFFICES ASSUME id \notin DOMAIN rem.hbook PROVE FALSE
      OBVIOUS
    <3>1. PICK h \in ToSet(specs[c].of) : hvar[h].id = id
      BY <1>3, <2>2 DEF Removed
    <3>2. h = g
      BY <1>4, <1>24, <2>1, <3>1
    <3>3. g \in ToSet(specs[c].of) \cap ToSet(specs[d].of)
      BY <2>1, <3>1, <3>2
    <3> QED
      BY <1>2, <2>1, <2>3, <3>3 DEF HistsApart
  <2>5. rem.hbook[id] = hbook[id]
    BY <1>3, <2>4 DEF Removed
  <2>6. id \in DOMAIN hbook' /\ hbook'[id] = rem.hbook[id]
    BY <1>9, <2>1, <2>4
  <2> QED
    BY <2>5, <2>6 DEF g
<1>34. HistsBooked'
  <2> SUFFICES ASSUME NEW d \in HistBlocks, varptr'[d] # NotBooked
               PROVE  /\ taken'[d] \subseteq DOMAIN title'[d]
                      /\ taken'[d] # {} => ToSet(specs'[d].of) = Named(d, taken[d])'
                      /\ \A i, j \in taken'[d] : i # j /\ title'[d][i].h = title'[d][j].h => title'[d][i].h \in shared'
                      /\ \A i \in taken'[d] : ~title'[d][i].user =>
                           /\ title'[d][i].test = NoTest \/ title'[d][i].test \in DOMAIN flag'
                           /\ title'[d][i].h \notin shared' => hvar'[title'[d][i].h].def = <<title'[d][i].test>>
    BY DEF HistsBooked, IsBooked, ByCTP, NameAt
  <2>1. CASE d = b
    <3>1. Named(b, taken[b])' = N
      BY <1>7, <1>13 DEF Named
    <3>2. \A i \in S : ~title[b][i].user /\ title[b][i].h \notin shared' => hvar'[title[b][i].h].def = <<title[b][i].test>>
      BY <1>8, <1>10
    <3> QED
      BY <1>13, <1>16, <1>29, <1>30, <2>1, <3>1, <3>2
  <2>2. CASE d # b
    <3>1. IsBooked(d) /\ taken'[d] = taken[d] /\ title'[d] = title[d] /\ specs'[d].of = specs[d].of
      BY <1>31, <2>2
    <3>2. Named(d, taken[d])' = Named(d, taken[d])
      BY <3>1 DEF Named
    <3>3. /\ taken[d] \subseteq DOMAIN title[d]
          /\ taken[d] # {} => ToSet(specs[d].of) = Named(d, taken[d])
          /\ \A i, j \in taken[d] : i # j /\ NameAt(d, i) = NameAt(d, j) => NameAt(d, i) \in shared
          /\ \A i \in taken[d] : ByCTP(d, i) =>
               /\ title[d][i].test = NoTest \/ title[d][i].test \in DOMAIN flag
               /\ NameAt(d, i) \notin shared => hvar[NameAt(d, i)].def = <<title[d][i].test>>
      BY <3>1 DEF IInv, HistInv, HistsBooked
    <3>4. ASSUME NEW i \in taken[d], ~title[d][i].user
          PROVE  /\ title[d][i].test = NoTest \/ title[d][i].test \in DOMAIN flag
                 /\ title[d][i].h \notin shared' => hvar'[title[d][i].h].def = <<title[d][i].test>>
      <4>1. ByCTP(d, i)
        BY <3>4 DEF ByCTP
      <4>2. NameAt(d, i) \notin shared' => hvar'[NameAt(d, i)].def = <<title[d][i].test>>
        BY <1>32, <2>2, <3>3, <4>1
      <4> QED
        BY <3>3, <4>1, <4>2 DEF NameAt
    <3>5. \A i, j \in taken[d] : i # j /\ title[d][i].h = title[d][j].h => title[d][i].h \in shared'
      BY <1>16, <3>3 DEF NameAt
    <3> QED
      BY <1>16, <3>1, <3>2, <3>3, <3>4, <3>5
  <2> QED
    BY <2>1, <2>2
<1>35. InHbook'
  <2> SUFFICES ASSUME NEW d \in HistBlocks, varptr'[d] # NotBooked, Alone(d),
                      NEW i \in taken'[d], title'[d][i].h \notin shared'
               PROVE  hvar'[title'[d][i].h].id \in DOMAIN hbook'
    BY DEF InHbook, IsBooked, Alone, NameAt
  <2>1. CASE d = b
    BY <1>8, <1>13, <2>1
  <2>2. CASE d # b
    <3>1. taken'[d] = taken[d] /\ title'[d] = title[d]
      BY <1>31, <2>2
    <3>2. NameAt(d, i) = title'[d][i].h /\ i \in taken[d]
      BY <3>1 DEF NameAt
    <3> QED
      BY <1>32, <1>33, <2>2, <3>2
  <2> QED
    BY <2>1, <2>2
<1>36. HistogramsDue'
  <2> SUFFICES ASSUME NEW d \in HistBlocks, varptr'[d] # NotBooked, Alone(d), d[1] = "hist",
                      NEW i \in taken'[d], ~title'[d][i].user, title'[d][i].h \notin shared'
               PROVE  /\ hbook'[hvar'[title'[d][i].h].id].n \in Nat
                      /\ dueH'[title'[d][i].h] = hbook'[hvar'[title'[d][i].h].id].n + 0
    BY DEF HistogramsDue, IsBooked, Alone, ByCTP, NameAt
  <2>1. CASE d = b
    <3>1. hbook'[hvar'[title[b][i].h].id].n = 0 /\ i \in S
      BY <1>8, <1>13, <2>1
    <3>2. dueH'[title[b][i].h] = 0
      BY <1>8, <1>10, <1>30, <3>1
    <3> QED
      BY <2>1, <3>1, <3>2
  <2>2. CASE d # b
    <3>1. IsBooked(d) /\ taken'[d] = taken[d] /\ title'[d] = title[d]
      BY <1>31, <2>2
    <3>2. NameAt(d, i) = title'[d][i].h /\ ByCTP(d, i) /\ i \in taken[d]
      BY <3>1 DEF NameAt, ByCTP
    <3>3. NameAt(d, i) \notin shared
      BY <1>16, <3>2
    <3>4. /\ hbook[hvar[NameAt(d, i)].id].n \in Nat
          /\ dueH[NameAt(d, i)] = hbook[hvar[NameAt(d, i)].id].n + 0
      BY <3>1, <3>2, <3>3 DEF IInv, HistInv, HistogramsDue
    <3>5. hvar'[NameAt(d, i)] = hvar[NameAt(d, i)] /\ dueH'[NameAt(d, i)] = dueH[NameAt(d, i)]
      BY <1>32, <2>2, <3>2
    <3>6. hbook'[hvar[NameAt(d, i)].id] = hbook[hvar[NameAt(d, i)].id]
      BY <1>33, <2>2, <3>2
    <3> QED
      BY <3>2, <3>4, <3>5, <3>6
  <2> QED
    BY <2>1, <2>2
<1> QED
  BY <1>12, <1>14, <1>17, <1>18, <1>19, <1>20, <1>21, <1>25, <1>27, <1>34, <1>35, <1>36
     DEF IInv, Structure, TestInv, HistInv

-----------------------------------------------------------------------------
(* Every step keeps the invariant.                                         *)

LEMMA SameKeeps ==
  ASSUME IInv, UNCHANGED vars
  PROVE  IInv'
<1> USE DEF vars, tests, hists, history
<1>1. TitlesOK'
  BY DEF IInv, Structure, TitlesOK
<1>2. ListsOK'
  BY DEF IInv, Structure, ListsOK, IsBooked
<1>3. FlagsOK'
  BY DEF IInv, Structure, FlagsOK
<1>4. Kept(TestBlocks) /\ Kept(HistBlocks)
  BY DEF Kept
<1>5. TestsBooked' /\ FlagsApart'
  BY <1>4, TestsFrame DEF IInv, Structure, TestInv, TestsBooked
<1>6. ScalersDue'
  BY <1>4, ScalersFrame DEF IInv, TestInv
<1>7. NumbersOK' /\ SpecsOK' /\ CacheOK'
  BY DEF IInv, Structure, NumbersOK, Numbered, SpecsOK, CacheOK
<1>8. HistInv'
  BY <1>4, HistsFrame, HistogramsFrame DEF IInv, HistInv
<1> QED
  BY <1>1, <1>2, <1>3, <1>5, <1>6, <1>7, <1>8 DEF IInv, Structure, TestInv

LEMMA BookGroupKeeps ==
  ASSUME IInv, thBookGroup
  PROVE  IInv'
<1>1. PICK i \in ToBook :
        /\ varptr' = [varptr EXCEPT ![Order[i]] = << 0 >>]
        /\ IF Order[i] \in TestBlocks THEN thBookTests(Order[i]) ELSE thBookHists(Order[i])
  BY DEF thBookGroup
<1>2. phase = "setup" /\ UNCHANGED <<phase, list, title>>
  BY DEF thBookGroup
<1>3. PICK b : b = Order[i]
  OBVIOUS
<1>4. i \in DOMAIN Order /\ ~IsBooked(b)
  BY <1>3 DEF ToBook, IsBooked
<1>5. b \in Blocks /\ b \in ToSet(list[b[1]])
  BY <1>3, <1>4, OrderedIsListed DEF IInv, Structure
<1>6. varptr' = [varptr EXCEPT ![b] = << 0 >>] /\ IF b \in TestBlocks THEN thBookTests(b) ELSE thBookHists(b)
  BY <1>1, <1>3
<1>7. CASE b \in TestBlocks
  BY <1>2, <1>4, <1>5, <1>6, <1>7, BookTestsKeeps
<1>8. CASE b \notin TestBlocks
  <2>1. b \in HistBlocks
    BY <1>5, <1>8 DEF Blocks
  <2> QED
    BY <1>2, <1>4, <1>5, <1>6, <1>8, <2>1, BookHistsKeeps
<1> QED
  BY <1>7, <1>8

LEMMA NextKeeps ==
  ASSUME IInv, [Next]_vars
  PROVE  IInv'
<1>1. ASSUME NEW b \in Blocks, Load(b) PROVE IInv'
  BY <1>1, LoadKeeps
<1>2. CASE thBookGroup
  BY <1>2, BookGroupKeeps
<1>3. CASE Booked
  BY <1>3, BookedKeeps
<1>4. ASSUME NEW x \in [Inputs -> {0, 1}], ExecuteTests(x) PROVE IInv'
  BY <1>4, ExecuteTestsKeeps
<1>5. CASE IncrementScalers
  BY <1>5, IncrementScalersKeeps
<1>6. CASE ExecuteHists
  BY <1>6, ExecuteHistsKeeps
<1>7. CASE thClearTestFlags
  BY <1>7, ClearTestFlagsKeeps
<1>8. CASE thClearTestScalers
  BY <1>8, ClearTestScalersKeeps
<1>9. CASE thClearHists
  BY <1>9, ClearHistsKeeps
<1>10. ASSUME NEW h \in DOMAIN hvar, thHistRHandler(h) PROVE IInv'
  BY <1>10, HandlerKeeps
<1>11. CASE UNCHANGED vars
  BY <1>11, SameKeeps
<1> QED
  BY <1>1, <1>2, <1>3, <1>4, <1>5, <1>6, <1>7, <1>8, <1>9, <1>10, <1>11 DEF Next

\* The invariant holds in every state that can be reached.
THEOREM BlocksInvariant == Spec => []IInv
<1>1. Init => IInv
  BY InitIs
<1>2. IInv /\ [Next]_vars => IInv'
  BY NextKeeps
<1> QED
  BY <1>1, <1>2, PTL DEF Spec

\* The invariant gives the three properties.
LEMMA InvariantGives ==
  ASSUME IInv
  PROVE  ReadsAreCurrent /\ ScalersCount /\ HistogramsCount
<1>1. ReadsAreCurrent
  BY DEF IInv, CacheOK, ReadsAreCurrent
<1>2. ScalersCount
  <2> SUFFICES ASSUME phase = "ready", NEW f \in Given \ shared PROVE scaler[f] = dueS[f]
    BY DEF ScalersCount
  <2>1. PICK b \in ToSet(list["test"]) : f \in Flags(b)
    BY DEF Given
  <2>2. b \in TestBlocks /\ IsBooked(b)
    BY TestsListed DEF IInv, Structure, ListsOK
  <2> QED
    BY <2>1, <2>2 DEF IInv, TestInv, ScalersDue
<1>3. HistogramsCount
  <2> SUFFICES ASSUME phase = "ready", NEW b \in ToSet(list["hist"]), Alone(b),
                      NEW i \in taken[b], ~title[b][i].user, title[b][i].h \notin shared
               PROVE  /\ hvar[title[b][i].h].id \in DOMAIN hbook
                      /\ hbook[hvar[title[b][i].h].id].n = dueH[title[b][i].h]
                      /\ \A g \in DOMAIN hvar \ {title[b][i].h} : hvar[g].id # hvar[title[b][i].h].id
    BY DEF HistogramsCount
  <2>1. b \in HistBlocks /\ IsBooked(b) /\ b[1] = "hist" /\ ByCTP(b, i) /\ NameAt(b, i) = title[b][i].h
    BY HistsListed DEF IInv, Structure, ListsOK, ByCTP, NameAt
  <2>2. hvar[NameAt(b, i)].id \in DOMAIN hbook
    BY <2>1 DEF IInv, HistInv, InHbook
  <2>3. hbook[hvar[NameAt(b, i)].id].n \in Nat /\ dueH[NameAt(b, i)] = hbook[hvar[NameAt(b, i)].id].n + 0
    BY <2>1 DEF IInv, HistInv, HistogramsDue
  <2>4. NameAt(b, i) \in DOMAIN hvar
    BY <2>1, OwnName
  <2>5. \A g \in DOMAIN hvar : hvar[g].id = hvar[NameAt(b, i)].id => g = NameAt(b, i)
    BY <2>4 DEF IInv, Structure, NumbersOK, Numbered
  <2> QED
    BY <2>1, <2>2, <2>3, <2>5
<1> QED
  BY <1>1, <1>2, <1>3

\* What a client reads of a histogram is what HBOOK has for its identifier.
THEOREM ReadsCurrent == Spec => []ReadsAreCurrent
<1>1. IInv => ReadsAreCurrent
  BY InvariantGives
<1> QED
  BY <1>1, BlocksInvariant, PTL

\* The scaler of a flag that one block gives is what the titles make it since
\* it was booked or cleared.
THEOREM ScalersAsTitled == Spec => []ScalersCount
<1>1. IInv => ScalersCount
  BY InvariantGives
<1> QED
  BY <1>1, BlocksInvariant, PTL

\* A histogram that one line gives holds one entry for each event that satisfied
\* the line since it was booked or cleared.
THEOREM HistogramsAsTitled == Spec => []HistogramsCount
<1>1. IInv => HistogramsCount
  BY InvariantGives
<1> QED
  BY <1>1, BlocksInvariant, PTL

-----------------------------------------------------------------------------
(* Setup files: functions that are defined step by step.                   *)

\* h begins with a, and g[i] takes what it has for i - 1 to what it has for i.
Steps(h, n, a, g) == h[0] = a /\ \A i \in 1 .. n : h[i] = g[i][h[i - 1]]
\* f and h begin alike, and go on alike.
Alike(f, h, n) == f[0] = h[0] /\ \A i \in 1 .. n : f[i - 1] = h[i - 1] => f[i] = h[i]

\* A function may be defined by its value at 0 and the step from one number to the next.
LEMMA Recursion ==
  ASSUME NEW n \in Nat, NEW S, NEW a \in S, NEW g \in [1 .. n -> [S -> S]]
  PROVE  \E h \in [0 .. n -> S] : Steps(h, n, a, g)
<1> DEFINE To(k, h) == h[0] = a /\ \A i \in 1 .. k : h[i] = g[i][h[i - 1]]
           Z == {k \in 0 .. n : \E h \in [0 .. k -> S] : To(k, h)}
<1>1. 0 \in Z
  <2> DEFINE h0 == [i \in 0 .. 0 |-> a]
  <2>1. h0 \in [0 .. 0 -> S] /\ To(0, h0)
    OBVIOUS
  <2> HIDE DEF h0, To
  <2> QED
    BY <2>1
<1>2. ASSUME NEW k \in 0 .. n - 1, k \in Z PROVE k + 1 \in Z
  <2>1. PICK h \in [0 .. k -> S] : To(k, h)
    BY <1>2
  <2> DEFINE h1 == [i \in 0 .. k + 1 |-> IF i = k + 1 THEN g[k + 1][h[k]] ELSE h[i]]
  <2>2. h1 \in [0 .. k + 1 -> S]
    <3>1. k + 1 \in 1 .. n /\ h[k] \in S
      OBVIOUS
    <3>2. g[k + 1][h[k]] \in S
      BY <3>1
    <3>3. \A i \in 0 .. k + 1 : i # k + 1 => i \in 0 .. k
      OBVIOUS
    <3> QED
      BY <3>2, <3>3
  <2>3. h1[0] = a
    BY <2>1
  <2>4. ASSUME NEW i \in 1 .. k + 1 PROVE h1[i] = g[i][h1[i - 1]]
    <3>1. CASE i = k + 1
      <4>1. h1[i] = g[k + 1][h[k]] /\ h1[i - 1] = h[k]
        BY <3>1
      <4> QED
        BY <3>1, <4>1
    <3>2. CASE i # k + 1
      <4>1. i \in 1 .. k /\ i - 1 \in 0 .. k /\ i - 1 # k + 1
        BY <3>2
      <4>2. h1[i] = h[i] /\ h1[i - 1] = h[i - 1]
        BY <4>1
      <4> QED
        BY <2>1, <4>1, <4>2
    <3> QED
      BY <3>1, <3>2
  <2>5. To(k + 1, h1)
    <3> HIDE DEF h1
    <3> QED
      BY <2>3, <2>4
  <2> HIDE DEF h1, To
  <2> QED
    BY <2>2, <2>5
<1>3. \A k \in 0 .. n : k \in Z
  <2> HIDE DEF Z
  <2> QED
    BY <1>1, <1>2, UpTo
<1>4. n \in Z
  <2> HIDE DEF Z
  <2> QED
    BY <1>3
<1> QED
  BY <1>4 DEF Steps

\* Two functions with the same value at 0 and the same steps are the same.
LEMMA SameRecursion ==
  ASSUME NEW n \in Nat, NEW f, NEW h, Alike(f, h, n)
  PROVE  \A i \in 0 .. n : f[i] = h[i]
<1> DEFINE Z == {i \in 0 .. n : f[i] = h[i]}
<1>1. 0 \in Z
  BY DEF Alike
<1>2. ASSUME NEW i \in 0 .. n - 1, i \in Z PROVE i + 1 \in Z
  <2>1. i + 1 \in 1 .. n /\ (i + 1) - 1 = i
    OBVIOUS
  <2> QED
    BY <1>2, <2>1 DEF Alike
<1>3. \A i \in 0 .. n : i \in Z
  <2> HIDE DEF Z
  <2> QED
    BY <1>1, <1>2, UpTo
<1> QED
  BY <1>3

-----------------------------------------------------------------------------
(* Setup files: what a reader of the files expects, line by line.          *)

\* What a file shows of a line is lines.
LEMMA ShownType ==
  ASSUME NEW line \in Lines, NEW D, NEW flat \in [D -> Seq(Lines)]
  PROVE  Shown(line, flat) \in Seq(Lines)
<1>1. CASE line.k # "include"
  <2>1. <<line>> \in Seq(Lines)
    OBVIOUS
  <2> QED
    BY <1>1, <2>1 DEF Shown
<1>2. CASE line.k = "include" /\ line.file \in D
  BY <1>2 DEF Shown
<1>3. CASE line.k = "include" /\ line.file \notin D
  <2>1. Shown(line, flat) = <<>> /\ <<>> \in Seq(Lines)
    BY <1>3 DEF Shown
  <2> QED
    BY <2>1
<1> QED
  BY <1>1, <1>2, <1>3

\* rest is what Spliced works out, for the last lines of a file.
SpliceSteps(rest, lines, flat) ==
  /\ rest \in [0 .. Len(lines) -> Seq(Lines)]
  /\ rest[0] = <<>>
  /\ \A i \in 1 .. Len(lines) : rest[i] = Shown(lines[Len(lines) - i + 1], flat) \o rest[i - 1]

LEMMA SplicedIs ==
  ASSUME NEW lines \in Seq(Lines), NEW D, NEW flat \in [D -> Seq(Lines)]
  PROVE  \E rest : SpliceSteps(rest, lines, flat) /\ Spliced(lines, flat) = rest[Len(lines)]
<1> DEFINE m == Len(lines)
           show(i) == Shown(lines[m - i + 1], flat)
           Does(h) == h = [i \in 0 .. m |-> IF i = 0 THEN <<>> ELSE show(i) \o h[i - 1]]
           rest == CHOOSE h : Does(h)
           g == [i \in 1 .. m |-> [x \in Seq(Lines) |-> show(i) \o x]]
<1>1. m \in Nat
  OBVIOUS
<1>2. ASSUME NEW i \in 1 .. m PROVE show(i) \in Seq(Lines)
  <2>1. m - i + 1 \in DOMAIN lines
    BY <1>1
  <2>2. lines[m - i + 1] \in Lines
    BY <2>1
  <2> QED
    BY <2>2, ShownType
<1> HIDE DEF m, show
<1>3. g \in [1 .. m -> [Seq(Lines) -> Seq(Lines)]]
  <2>1. \A i \in 1 .. m : \A x \in Seq(Lines) : show(i) \o x \in Seq(Lines)
    BY <1>2
  <2> QED
    BY <2>1
<1>4. <<>> \in Seq(Lines)
  OBVIOUS
<1>5. PICK h \in [0 .. m -> Seq(Lines)] : h[0] = <<>> /\ \A i \in 1 .. m : h[i] = g[i][h[i - 1]]
  <2> HIDE DEF g
  <2>1. \E h \in [0 .. m -> Seq(Lines)] : Steps(h, m, <<>>, g)
    BY Zenon, <1>1, <1>3, <1>4, Recursion
  <2> QED
    BY <2>1 DEF Steps
<1>6. ASSUME NEW i \in 1 .. m PROVE h[i] = show(i) \o h[i - 1]
  <2>1. i - 1 \in 0 .. m
    BY <1>1
  <2>2. h[i - 1] \in Seq(Lines)
    BY <2>1
  <2> QED
    BY <1>5, <2>2
<1> HIDE DEF g
<1>7. Does(h)
  <2>1. \A i \in 0 .. m : i # 0 => i \in 1 .. m
    BY <1>1
  <2>2. \A i \in 0 .. m : h[i] = IF i = 0 THEN <<>> ELSE show(i) \o h[i - 1]
    BY <1>5, <1>6, <2>1
  <2>3. h = [i \in 0 .. m |-> h[i]]
    OBVIOUS
  <2> QED
    BY <2>2, <2>3
<1>8. Does(rest)
  <2> HIDE DEF Does
  <2> QED
    BY <1>7
<1>9. Spliced(lines, flat) = rest[m]
  BY DEF Spliced, m, show
<1> HIDE DEF rest
<1>10. rest[0] = <<>> /\ \A i \in 1 .. m : rest[i] = show(i) \o rest[i - 1]
  <2>1. 0 \in 0 .. m /\ \A i \in 1 .. m : i \in 0 .. m /\ i # 0
    BY <1>1
  <2> QED
    BY <1>8, <2>1
<1>11. \A i \in 0 .. m : rest[i] = h[i]
  <2>1. \A i \in 1 .. m : rest[i - 1] = h[i - 1] => rest[i] = h[i]
    BY <1>6, <1>10
  <2>2. rest[0] = h[0]
    BY <1>5, <1>10
  <2>3. Alike(rest, h, m)
    BY <2>1, <2>2 DEF Alike
  <2> QED
    BY <1>1, <2>3, SameRecursion
<1>12. m \in 0 .. m
  BY <1>1
<1>13. SpliceSteps(h, lines, flat)
  BY <1>5, <1>6 DEF SpliceSteps, m, show
<1> QED
  BY <1>9, <1>11, <1>12, <1>13 DEF m

LEMMA SplicedType ==
  ASSUME NEW lines \in Seq(Lines), NEW D, NEW flat \in [D -> Seq(Lines)]
  PROVE  Spliced(lines, flat) \in Seq(Lines)
<1>1. PICK rest : SpliceSteps(rest, lines, flat) /\ Spliced(lines, flat) = rest[Len(lines)]
  BY SplicedIs
<1>2. Len(lines) \in 0 .. Len(lines)
  OBVIOUS
<1> QED
  BY <1>1, <1>2 DEF SpliceSteps

\* A file shows the same of files that it does not include.
LEMMA SplicedSame ==
  ASSUME NEW lines \in Seq(Lines), NEW D, NEW flat1 \in [D -> Seq(Lines)], NEW flat2 \in [D -> Seq(Lines)],
         \A i \in DOMAIN lines :
           lines[i].k = "include" /\ lines[i].file \in D => flat1[lines[i].file] = flat2[lines[i].file]
  PROVE  Spliced(lines, flat1) = Spliced(lines, flat2)
<1>1. PICK m \in Nat : m = Len(lines)
  OBVIOUS
<1>2. PICK r1 : SpliceSteps(r1, lines, flat1) /\ Spliced(lines, flat1) = r1[m]
  BY <1>1, SplicedIs
<1>3. PICK r2 : SpliceSteps(r2, lines, flat2) /\ Spliced(lines, flat2) = r2[m]
  BY <1>1, SplicedIs
<1>4. ASSUME NEW i \in 1 .. m PROVE Shown(lines[m - i + 1], flat1) = Shown(lines[m - i + 1], flat2)
  <2>1. m - i + 1 \in DOMAIN lines
    BY <1>1
  <2> QED
    BY <2>1 DEF Shown
<1>5. \A i \in 1 .. m : r1[i - 1] = r2[i - 1] => r1[i] = r2[i]
  BY <1>1, <1>2, <1>3, <1>4 DEF SpliceSteps
<1>6. \A i \in 0 .. m : r1[i] = r2[i]
  <2>1. r1[0] = r2[0]
    BY <1>2, <1>3 DEF SpliceSteps
  <2>2. Alike(r1, r2, m)
    BY <1>5, <2>1 DEF Alike
  <2> QED
    BY <2>2, SameRecursion
<1>7. m \in 0 .. m
  OBVIOUS
<1> QED
  BY <1>2, <1>3, <1>6, <1>7

\* The text of the files: each is its lines, with the text of those it includes.
LEMMA FlatIs ==
  ASSUME NEW files \in Texts
  PROVE  /\ Flat(files) \in [DOMAIN files -> Seq(Lines)]
         /\ \A f \in DOMAIN files : Flat(files)[f] = Spliced(files[f], Flat(files))
<1> DEFINE D == DOMAIN files
           F == [D -> Seq(Lines)]
           m == Depth + 1
           next(fl) == [f \in D |-> Spliced(files[f], fl)]
           Does(h) == h = [n \in 0 .. m |-> [f \in D |-> IF n = 0 THEN <<>> ELSE Spliced(files[f], h[n - 1])]]
           flat == CHOOSE h : Does(h)
           g == [n \in 1 .. m |-> [fl \in F |-> next(fl)]]
           a == [f \in D |-> <<>>]
<1>1. /\ Depth \in Nat
      /\ \A f \in D : files[f] \in Seq(Lines)
      /\ \E level \in [D -> 0 .. Depth] :
            \A f \in D : \A i \in DOMAIN files[f] :
              files[f][i].k = "include" /\ files[f][i].file \in D => level[files[f][i].file] < level[f]
  BY FilesAssumption
<1>2. PICK level \in [D -> 0 .. Depth] :
        \A f \in D : \A i \in DOMAIN files[f] :
          files[f][i].k = "include" /\ files[f][i].file \in D => level[files[f][i].file] < level[f]
  BY <1>1
<1>3. ASSUME NEW fl \in F PROVE next(fl) \in F /\ \A f \in D : next(fl)[f] = Spliced(files[f], fl)
  <2>1. \A f \in D : Spliced(files[f], fl) \in Seq(Lines)
    BY <1>1, SplicedType
  <2> QED
    BY <2>1
<1>4. m \in Nat /\ m >= 1 /\ m - 1 = Depth
  BY <1>1
<1>5. a \in F
  <2>1. <<>> \in Seq(Lines)
    OBVIOUS
  <2> QED
    BY <2>1
<1>6. g \in [1 .. m -> [F -> F]]
  <2>1. \A fl \in F : next(fl) \in F
    BY <1>3
  <2> HIDE DEF next, F, m
  <2> QED
    BY <2>1
<1>7. PICK h \in [0 .. m -> F] : h[0] = a /\ \A n \in 1 .. m : h[n] = g[n][h[n - 1]]
  <2> HIDE DEF g, m, F, a
  <2>1. \E h \in [0 .. m -> F] : Steps(h, m, a, g)
    BY Zenon, <1>4, <1>5, <1>6, Recursion
  <2> QED
    BY <2>1 DEF Steps
<1>8. ASSUME NEW n \in 1 .. m PROVE h[n] = next(h[n - 1]) /\ h[n - 1] \in F
  <2>1. n - 1 \in 0 .. m
    BY <1>4
  <2>2. h[n - 1] \in F
    BY <2>1
  <2> HIDE DEF next, F, m
  <2> QED
    BY <1>7, <2>2
<1>9. Does(h)
  <2>1. \A n \in 0 .. m : n # 0 => n \in 1 .. m
    BY <1>4
  <2>2. ASSUME NEW n \in 0 .. m PROVE h[n] = [f \in D |-> IF n = 0 THEN <<>> ELSE Spliced(files[f], h[n - 1])]
    <3>1. CASE n = 0
      BY <1>7, <3>1
    <3>2. CASE n # 0
      <4>1. h[n] = next(h[n - 1])
        BY <1>8, <2>1, <3>2
      <4> QED
        BY <3>2, <4>1
    <3> QED
      BY <3>1, <3>2
  <2>3. h = [n \in 0 .. m |-> h[n]]
    OBVIOUS
  <2> HIDE DEF m, F
  <2> QED
    BY <2>2, <2>3
<1>10. Does(flat)
  <2> HIDE DEF Does
  <2> QED
    BY <1>9
<1>11. Flat(files) = flat[m]
  BY DEF Flat
<1> HIDE DEF flat, g
<1>12. \A n \in 0 .. m : flat[n] = h[n]
  <2>1. flat[0] = a /\ \A n \in 1 .. m : flat[n] = next(flat[n - 1])
    <3>1. 0 \in 0 .. m /\ \A n \in 1 .. m : n \in 0 .. m /\ n # 0
      BY <1>4
    <3> HIDE DEF m
    <3>2. flat[0] = a
      BY <1>10, <3>1
    <3>3. ASSUME NEW n \in 1 .. m PROVE flat[n] = next(flat[n - 1])
      BY <1>10, <3>1
    <3> QED
      BY <3>2, <3>3
  <2> HIDE DEF m, F, a, next
  <2>2. \A n \in 1 .. m : flat[n - 1] = h[n - 1] => flat[n] = h[n]
    BY <1>8, <2>1
  <2>3. flat[0] = h[0]
    BY <1>7, <2>1
  <2>4. Alike(flat, h, m)
    BY <2>2, <2>3 DEF Alike
  <2> QED
    BY <1>4, <2>4, SameRecursion
<1>13. Flat(files) = h[m] /\ h[m] \in F /\ h[m - 1] \in F /\ h[m] = next(h[m - 1])
  <2>1. m \in 0 .. m /\ m - 1 \in 0 .. m /\ m \in 1 .. m
    BY <1>4
  <2> HIDE DEF m, F, next
  <2> QED
    BY <1>7, <1>8, <1>11, <1>12, <2>1
\* From level n on nothing changes in the files of a level below n
<1> DEFINE Z == {n \in 0 .. Depth : \A f \in D : level[f] < n => h[n][f] = h[n + 1][f]}
<1>14. 0 \in Z
  <2>1. \A f \in D : ~(level[f] < 0)
    BY <1>1, <1>2
  <2> QED
    BY <1>1, <2>1
<1>15. ASSUME NEW n \in 0 .. Depth - 1, n \in Z PROVE n + 1 \in Z
  <2>1. /\ n + 1 \in 1 .. m /\ (n + 1) + 1 \in 1 .. m /\ (n + 1) - 1 = n /\ ((n + 1) + 1) - 1 = n + 1
        /\ n + 1 \in 0 .. Depth
    BY <1>1
  <2>2. PICK h0 \in F, h1 \in F, h2 \in F :
          h0 = h[n] /\ h1 = h[n + 1] /\ h2 = h[(n + 1) + 1] /\ h1 = next(h0) /\ h2 = next(h1)
    <3>1. h[n] \in F /\ h[n + 1] \in F /\ h[n + 1] = next(h[n]) /\ h[(n + 1) + 1] = next(h[n + 1])
      <4> HIDE DEF m, F, next
      <4> QED
        BY <1>8, <2>1
    <3>2. next(h[n + 1]) \in F
      BY <1>3, <3>1
    <3> HIDE DEF F, next
    <3> QED
      BY <3>1, <3>2
  <2>3. ASSUME NEW f \in D, level[f] < n + 1 PROVE h1[f] = h2[f]
    <3>1. \A i \in DOMAIN files[f] :
            files[f][i].k = "include" /\ files[f][i].file \in D => h0[files[f][i].file] = h1[files[f][i].file]
      <4> SUFFICES ASSUME NEW i \in DOMAIN files[f], files[f][i].k = "include", files[f][i].file \in D
                   PROVE  h0[files[f][i].file] = h1[files[f][i].file]
        OBVIOUS
      <4>1. PICK e \in D : e = files[f][i].file
        OBVIOUS
      <4>2. level[e] < level[f]
        BY <1>2, <4>1
      <4>5. level[e] \in 0 .. Depth /\ level[f] \in 0 .. Depth
        BY <1>2
      <4>3. level[e] < n
        BY <1>1, <2>3, <4>2, <4>5
      <4>4. h[n][e] = h[n + 1][e]
        BY <1>15, <4>3
      <4> QED
        BY <2>2, <4>1, <4>4
    <3>2. files[f] \in Seq(Lines)
      BY <1>1
    <3>3. Spliced(files[f], h0) = Spliced(files[f], h1)
      BY ZenonT(30), <3>1, <3>2, SplicedSame
    <3> QED
      BY <1>3, <2>2, <3>3
  <2> QED
    BY <2>1, <2>2, <2>3
<1>16. \A n \in 0 .. Depth : n \in Z
  <2> HIDE DEF Z
  <2> QED
    BY <1>1, <1>14, <1>15, UpTo
<1>17. ASSUME NEW f \in D PROVE h[m][f] = Spliced(files[f], h[m])
  <2>1. PICK h1 \in F, h2 \in F : h1 = h[Depth] /\ h2 = h[m] /\ h2 = next(h1)
    BY <1>4, <1>13
  <2>2. \A i \in DOMAIN files[f] :
          files[f][i].k = "include" /\ files[f][i].file \in D => h1[files[f][i].file] = h2[files[f][i].file]
    <3> SUFFICES ASSUME NEW i \in DOMAIN files[f], files[f][i].k = "include", files[f][i].file \in D
                 PROVE  h1[files[f][i].file] = h2[files[f][i].file]
      OBVIOUS
    <3>1. PICK e \in D : e = files[f][i].file
      OBVIOUS
    <3>2. level[e] < level[f]
      BY <1>2, <3>1
    <3>5. level[e] \in 0 .. Depth /\ level[f] \in 0 .. Depth
      BY <1>2
    <3>3. level[e] < Depth /\ Depth \in 0 .. Depth
      BY <1>1, <3>2, <3>5
    <3>4. h[Depth][e] = h[Depth + 1][e]
      BY <1>16, <3>3
    <3> QED
      BY <2>1, <3>1, <3>4
  <2>3. files[f] \in Seq(Lines)
    BY <1>1
  <2>4. Spliced(files[f], h1) = Spliced(files[f], h2)
    BY ZenonT(30), <2>2, <2>3, SplicedSame
  <2> QED
    BY <1>3, <2>1, <2>4
<1> QED
  BY <1>13, <1>17

\* The block that is open and those that were ended
ReaderStates == [open : Seq(Lines), blocks : Seq(Seq(Lines))]
Unread == [open |-> <<>>, blocks |-> <<>>]

LEMMA ReadLineType ==
  ASSUME NEW acc \in ReaderStates, NEW line \in Lines
  PROVE  ReadLine(acc, line) \in ReaderStates
<1>1. /\ acc.open \in Seq(Lines) /\ acc.blocks \in Seq(Seq(Lines))
      /\ <<>> \in Seq(Lines) /\ <<line>> \in Seq(Lines)
  BY DEF ReaderStates
<1>2. Append(acc.open, line) \in Seq(Lines)
  BY <1>1
<1>3. Append(acc.blocks, Append(acc.open, line)) \in Seq(Seq(Lines))
  BY <1>1, <1>2
<1>4. ASSUME NEW x \in Seq(Lines) PROVE [acc EXCEPT !.open = x] \in ReaderStates
  BY DEF ReaderStates
<1>5. CASE acc.open = <<>> /\ line.k = "begin"
  BY <1>1, <1>4, <1>5 DEF ReadLine
<1>6. CASE acc.open = <<>> /\ line.k # "begin"
  BY <1>1, <1>4, <1>6 DEF ReadLine
<1>7. CASE acc.open # <<>> /\ ~(line.k = "end" /\ line.type = BlockOf(acc.open)[1])
  BY <1>2, <1>4, <1>7 DEF ReadLine
<1>8. CASE acc.open # <<>> /\ line.k = "end" /\ line.type = BlockOf(acc.open)[1]
  <2>1. ReadLine(acc, line) = [open |-> <<>>, blocks |-> Append(acc.blocks, Append(acc.open, line))]
    BY <1>8 DEF ReadLine
  <2> QED
    BY <1>1, <1>3, <2>1 DEF ReaderStates
<1> QED
  BY <1>5, <1>6, <1>7, <1>8

\* acc is what Reading works out, line by line.
ReadSteps(acc, lines) ==
  /\ acc \in [0 .. Len(lines) -> ReaderStates]
  /\ acc[0] = Unread
  /\ \A i \in 1 .. Len(lines) : acc[i] = ReadLine(acc[i - 1], lines[i])

LEMMA ReadingIs ==
  ASSUME NEW lines \in Seq(Lines)
  PROVE  \E acc : ReadSteps(acc, lines) /\ Reading(lines) = acc[Len(lines)]
<1> DEFINE m == Len(lines)
           Does(h) == h = [i \in 0 .. m |-> IF i = 0 THEN [open |-> <<>>, blocks |-> <<>>]
                                             ELSE ReadLine(h[i - 1], lines[i])]
           acc == CHOOSE h : Does(h)
           g == [i \in 1 .. m |-> [x \in ReaderStates |-> ReadLine(x, lines[i])]]
<1>1. m \in Nat
  OBVIOUS
<1>2. \A i \in 1 .. m : lines[i] \in Lines
  OBVIOUS
<1> HIDE DEF m
<1>3. g \in [1 .. m -> [ReaderStates -> ReaderStates]]
  <2>1. \A i \in 1 .. m : \A x \in ReaderStates : ReadLine(x, lines[i]) \in ReaderStates
    BY <1>2, ReadLineType
  <2> QED
    BY <2>1
<1>4. Unread \in ReaderStates
  <2>1. <<>> \in Seq(Lines) /\ <<>> \in Seq(Seq(Lines))
    OBVIOUS
  <2> QED
    BY <2>1 DEF Unread, ReaderStates
<1>5. PICK h \in [0 .. m -> ReaderStates] : h[0] = Unread /\ \A i \in 1 .. m : h[i] = g[i][h[i - 1]]
  <2> HIDE DEF g
  <2>1. \E h \in [0 .. m -> ReaderStates] : Steps(h, m, Unread, g)
    BY Zenon, <1>1, <1>3, <1>4, Recursion
  <2> QED
    BY <2>1 DEF Steps
<1>6. ASSUME NEW i \in 1 .. m PROVE h[i] = ReadLine(h[i - 1], lines[i])
  <2>1. i - 1 \in 0 .. m
    BY <1>1
  <2>2. h[i - 1] \in ReaderStates
    BY <2>1
  <2> QED
    BY <1>5, <2>2
<1> HIDE DEF g
<1>7. Does(h)
  <2>1. \A i \in 0 .. m : i # 0 => i \in 1 .. m
    BY <1>1
  <2>2. \A i \in 0 .. m : h[i] = IF i = 0 THEN [open |-> <<>>, blocks |-> <<>>] ELSE ReadLine(h[i - 1], lines[i])
    BY <1>5, <1>6, <2>1 DEF Unread
  <2>3. h = [i \in 0 .. m |-> h[i]]
    OBVIOUS
  <2> QED
    BY <2>2, <2>3
<1>8. Does(acc)
  <2> HIDE DEF Does
  <2> QED
    BY <1>7
<1>9. Reading(lines) = acc[m]
  BY DEF Reading, m
<1> HIDE DEF acc
<1>10. acc[0] = Unread /\ \A i \in 1 .. m : acc[i] = ReadLine(acc[i - 1], lines[i])
  <2>1. 0 \in 0 .. m /\ \A i \in 1 .. m : i \in 0 .. m /\ i # 0
    BY <1>1
  <2> QED
    BY <1>8, <2>1 DEF Unread
<1>11. \A i \in 0 .. m : acc[i] = h[i]
  <2>1. Alike(acc, h, m)
    BY <1>5, <1>6, <1>10 DEF Alike
  <2> QED
    BY <1>1, <2>1, SameRecursion
<1>12. m \in 0 .. m
  BY <1>1
<1>13. ReadSteps(h, lines)
  BY <1>5, <1>6 DEF ReadSteps, m
<1> QED
  BY <1>9, <1>11, <1>12, <1>13 DEF m

LEMMA ReadingNone == Reading(<<>>) = Unread
<1>1. <<>> \in Seq(Lines) /\ Len(<<>>) = 0
  OBVIOUS
<1>2. PICK acc : ReadSteps(acc, <<>>) /\ Reading(<<>>) = acc[Len(<<>>)]
  BY <1>1, ReadingIs
<1> QED
  BY <1>1, <1>2 DEF ReadSteps

LEMMA ReadingNext ==
  ASSUME NEW lines \in Seq(Lines), NEW line \in Lines
  PROVE  /\ Reading(lines) \in ReaderStates
         /\ Reading(Append(lines, line)) = ReadLine(Reading(lines), line)
<1>1. PICK m \in Nat, more \in Seq(Lines) : m = Len(lines) /\ more = Append(lines, line)
  <2>1. Len(lines) \in Nat /\ Append(lines, line) \in Seq(Lines)
    OBVIOUS
  <2> QED
    BY <2>1
<1>2. Len(more) = m + 1 /\ more[m + 1] = line /\ \A i \in 1 .. m : more[i] = lines[i]
  BY <1>1
<1>3. PICK a1 : ReadSteps(a1, lines) /\ Reading(lines) = a1[m]
  BY <1>1, ReadingIs
<1>4. PICK a2 : ReadSteps(a2, more) /\ Reading(more) = a2[m + 1]
  BY <1>1, <1>2, ReadingIs
<1>5. \A i \in 0 .. m : a1[i] = a2[i]
  <2>1. a1[0] = a2[0]
    BY <1>3, <1>4 DEF ReadSteps
  <2>2. ASSUME NEW i \in 1 .. m PROVE a1[i] = ReadLine(a1[i - 1], lines[i]) /\ a2[i] = ReadLine(a2[i - 1], lines[i])
    <3>1. i \in 1 .. m + 1
      OBVIOUS
    <3> QED
      BY <1>1, <1>2, <1>3, <1>4, <3>1 DEF ReadSteps
  <2>3. Alike(a1, a2, m)
    BY <2>1, <2>2 DEF Alike
  <2> QED
    BY <2>3, SameRecursion
<1>6. m \in 0 .. m /\ m + 1 \in 1 .. m + 1 /\ (m + 1) - 1 = m
  OBVIOUS
<1>7. a2[m + 1] = ReadLine(a2[m], line)
  BY <1>2, <1>4, <1>6 DEF ReadSteps
<1>8. a1[m] \in ReaderStates
  BY <1>1, <1>3, <1>6 DEF ReadSteps
<1> QED
  BY <1>1, <1>3, <1>4, <1>5, <1>6, <1>7, <1>8

\* read is what BlocksOf works out, file by file.
FileSteps(read, flat, names) ==
  /\ read \in [0 .. Len(names) -> Seq(Seq(Lines))]
  /\ read[0] = <<>>
  /\ \A i \in 1 .. Len(names) : read[i] = read[i - 1] \o Reading(flat[names[i]]).blocks

LEMMA BlocksOfIs ==
  ASSUME NEW D, NEW flat \in [D -> Seq(Lines)], NEW names \in Seq(D)
  PROVE  \E read : FileSteps(read, flat, names) /\ BlocksOf(flat, names) = read[Len(names)]
<1> DEFINE m == Len(names)
           blocks(i) == Reading(flat[names[i]]).blocks
           Does(h) == h = [i \in 0 .. m |-> IF i = 0 THEN <<>> ELSE h[i - 1] \o blocks(i)]
           read == CHOOSE h : Does(h)
           g == [i \in 1 .. m |-> [x \in Seq(Seq(Lines)) |-> x \o blocks(i)]]
<1>1. m \in Nat
  OBVIOUS
<1>2. ASSUME NEW i \in 1 .. m PROVE blocks(i) \in Seq(Seq(Lines))
  <2>1. names[i] \in D
    OBVIOUS
  <2>2. PICK acc : ReadSteps(acc, flat[names[i]]) /\ Reading(flat[names[i]]) = acc[Len(flat[names[i]])]
    BY <2>1, ReadingIs
  <2>3. Len(flat[names[i]]) \in 0 .. Len(flat[names[i]])
    BY <2>1
  <2> QED
    BY <2>2, <2>3 DEF ReadSteps, ReaderStates
<1> HIDE DEF m, blocks
<1>3. g \in [1 .. m -> [Seq(Seq(Lines)) -> Seq(Seq(Lines))]]
  <2>1. \A i \in 1 .. m : \A x \in Seq(Seq(Lines)) : x \o blocks(i) \in Seq(Seq(Lines))
    BY <1>2
  <2> QED
    BY <2>1
<1>4. <<>> \in Seq(Seq(Lines))
  OBVIOUS
<1>5. PICK h \in [0 .. m -> Seq(Seq(Lines))] : h[0] = <<>> /\ \A i \in 1 .. m : h[i] = g[i][h[i - 1]]
  <2> HIDE DEF g
  <2>1. \E h \in [0 .. m -> Seq(Seq(Lines))] : Steps(h, m, <<>>, g)
    BY Zenon, <1>1, <1>3, <1>4, Recursion
  <2> QED
    BY <2>1 DEF Steps
<1>6. ASSUME NEW i \in 1 .. m PROVE h[i] = h[i - 1] \o blocks(i)
  <2>1. i - 1 \in 0 .. m
    BY <1>1
  <2>2. h[i - 1] \in Seq(Seq(Lines))
    BY <2>1
  <2> QED
    BY <1>5, <2>2
<1> HIDE DEF g
<1>7. Does(h)
  <2>1. \A i \in 0 .. m : i # 0 => i \in 1 .. m
    BY <1>1
  <2>2. \A i \in 0 .. m : h[i] = IF i = 0 THEN <<>> ELSE h[i - 1] \o blocks(i)
    BY <1>5, <1>6, <2>1
  <2>3. h = [i \in 0 .. m |-> h[i]]
    OBVIOUS
  <2> QED
    BY <2>2, <2>3
<1>8. Does(read)
  <2> HIDE DEF Does
  <2> QED
    BY <1>7
<1>9. BlocksOf(flat, names) = read[m]
  BY DEF BlocksOf, m, blocks
<1> HIDE DEF read
<1>10. read[0] = <<>> /\ \A i \in 1 .. m : read[i] = read[i - 1] \o blocks(i)
  <2>1. 0 \in 0 .. m /\ \A i \in 1 .. m : i \in 0 .. m /\ i # 0
    BY <1>1
  <2> QED
    BY <1>8, <2>1
<1>11. \A i \in 0 .. m : read[i] = h[i]
  <2>1. Alike(read, h, m)
    BY <1>5, <1>6, <1>10 DEF Alike
  <2> QED
    BY <1>1, <2>1, SameRecursion
<1>12. m \in 0 .. m
  BY <1>1
<1>13. FileSteps(h, flat, names)
  BY <1>5, <1>6 DEF FileSteps, m, blocks
<1> QED
  BY <1>9, <1>11, <1>12, <1>13 DEF m

LEMMA BlocksOfNone ==
  ASSUME NEW D, NEW flat \in [D -> Seq(Lines)]
  PROVE  BlocksOf(flat, <<>>) = <<>>
<1>1. <<>> \in Seq(D) /\ Len(<<>>) = 0
  OBVIOUS
<1>2. PICK read : FileSteps(read, flat, <<>>) /\ BlocksOf(flat, <<>>) = read[Len(<<>>)]
  BY <1>1, BlocksOfIs
<1> QED
  BY <1>1, <1>2 DEF FileSteps

LEMMA BlocksOfNext ==
  ASSUME NEW D, NEW flat \in [D -> Seq(Lines)], NEW names \in Seq(D), NEW file \in D
  PROVE  /\ BlocksOf(flat, names) \in Seq(Seq(Lines))
         /\ BlocksOf(flat, Append(names, file)) = BlocksOf(flat, names) \o Reading(flat[file]).blocks
<1>1. PICK m \in Nat, more \in Seq(D) : m = Len(names) /\ more = Append(names, file)
  <2>1. Len(names) \in Nat /\ Append(names, file) \in Seq(D)
    OBVIOUS
  <2> QED
    BY <2>1
<1>2. Len(more) = m + 1 /\ more[m + 1] = file /\ \A i \in 1 .. m : more[i] = names[i]
  BY <1>1
<1>3. PICK r1 : FileSteps(r1, flat, names) /\ BlocksOf(flat, names) = r1[m]
  BY <1>1, BlocksOfIs
<1>4. PICK r2 : FileSteps(r2, flat, more) /\ BlocksOf(flat, more) = r2[m + 1]
  BY <1>1, <1>2, BlocksOfIs
<1>5. \A i \in 0 .. m : r1[i] = r2[i]
  <2>1. r1[0] = r2[0]
    BY <1>3, <1>4 DEF FileSteps
  <2>2. ASSUME NEW i \in 1 .. m
        PROVE  /\ r1[i] = r1[i - 1] \o Reading(flat[names[i]]).blocks
               /\ r2[i] = r2[i - 1] \o Reading(flat[names[i]]).blocks
    <3>1. i \in 1 .. m + 1
      OBVIOUS
    <3> QED
      BY <1>1, <1>2, <1>3, <1>4, <3>1 DEF FileSteps
  <2>3. Alike(r1, r2, m)
    BY <2>1, <2>2 DEF Alike
  <2> QED
    BY <2>3, SameRecursion
<1>6. m \in 0 .. m /\ m + 1 \in 1 .. m + 1 /\ (m + 1) - 1 = m
  OBVIOUS
<1>7. r2[m + 1] = r2[m] \o Reading(flat[file]).blocks
  BY <1>2, <1>4, <1>6 DEF FileSteps
<1>8. r1[m] \in Seq(Seq(Lines))
  BY <1>1, <1>3, <1>6 DEF FileSteps
<1> QED
  BY <1>1, <1>3, <1>4, <1>5, <1>6, <1>7, <1>8

(***************************************************************************)
(* What is still to be read: of a file from a line on, and of the open     *)
(* files.                                                                  *)
(***************************************************************************)

FromLine(lines, at, flat) ==
  (CHOOSE rest : SpliceSteps(rest, lines, flat) /\ Spliced(lines, flat) = rest[Len(lines)])[Len(lines) + 1 - at]

LEMMA FromLineIs ==
  ASSUME NEW lines \in Seq(Lines), NEW D, NEW flat \in [D -> Seq(Lines)]
  PROVE  /\ \A at \in 1 .. Len(lines) + 1 : FromLine(lines, at, flat) \in Seq(Lines)
         /\ FromLine(lines, 1, flat) = Spliced(lines, flat)
         /\ FromLine(lines, Len(lines) + 1, flat) = <<>>
         /\ \A at \in 1 .. Len(lines) :
              FromLine(lines, at, flat) = Shown(lines[at], flat) \o FromLine(lines, at + 1, flat)
<1> DEFINE Is(r) == SpliceSteps(r, lines, flat) /\ Spliced(lines, flat) = r[Len(lines)]
           rest == CHOOSE r : Is(r)
<1>1. \E r : Is(r)
  BY SplicedIs
<1>2. Is(rest)
  <2> HIDE DEF Is
  <2> QED
    BY <1>1
<1>3. \A at : FromLine(lines, at, flat) = rest[Len(lines) + 1 - at]
  BY DEF FromLine
<1> HIDE DEF rest
<1>4. PICK m \in Nat : m = Len(lines)
  OBVIOUS
<1>5. rest \in [0 .. m -> Seq(Lines)] /\ rest[0] = <<>> /\ Spliced(lines, flat) = rest[m]
  BY <1>2, <1>4 DEF SpliceSteps
<1>6. ASSUME NEW at \in 1 .. m + 1 PROVE FromLine(lines, at, flat) \in Seq(Lines)
  <2>1. m + 1 - at \in 0 .. m
    OBVIOUS
  <2> QED
    BY <1>3, <1>4, <1>5, <2>1
<1>7. FromLine(lines, 1, flat) = Spliced(lines, flat)
  <2>1. m + 1 - 1 = m
    OBVIOUS
  <2> QED
    BY <1>3, <1>4, <1>5, <2>1
<1>8. FromLine(lines, m + 1, flat) = <<>>
  <2>1. m + 1 - (m + 1) = 0
    OBVIOUS
  <2> QED
    BY <1>3, <1>4, <1>5, <2>1
<1>9. ASSUME NEW at \in 1 .. m
      PROVE  FromLine(lines, at, flat) = Shown(lines[at], flat) \o FromLine(lines, at + 1, flat)
  <2>1. PICK i \in 1 .. m : i = m + 1 - at /\ m - i + 1 = at /\ i - 1 = m + 1 - (at + 1)
    <3>1. m + 1 - at \in 1 .. m /\ m - (m + 1 - at) + 1 = at /\ (m + 1 - at) - 1 = m + 1 - (at + 1)
      OBVIOUS
    <3> QED
      BY <3>1
  <2>2. rest[i] = Shown(lines[m - i + 1], flat) \o rest[i - 1]
    BY <1>2, <1>4 DEF SpliceSteps
  <2>3. FromLine(lines, at, flat) = rest[i] /\ FromLine(lines, at + 1, flat) = rest[i - 1]
    BY <1>3, <1>4, <2>1
  <2> QED
    BY <2>1, <2>2, <2>3
<1> QED
  BY <1>4, <1>6, <1>7, <1>8, <1>9

\* An open file, and what is to be read of it
Opened(files) == {e \in [file : DOMAIN files, at : Nat] : e.at \in 1 .. Len(files[e.file]) + 1}
ToRead(e, files) == FromLine(files[e.file], e.at, Flat(files))

LEMMA ToReadIs ==
  ASSUME NEW files \in Texts, NEW e \in Opened(files)
  PROVE  /\ e = [file |-> e.file, at |-> e.at] /\ e.file \in DOMAIN files /\ e.at \in Nat
         /\ files[e.file] \in Seq(Lines)
         /\ ToRead(e, files) \in Seq(Lines)
         /\ e.at > Len(files[e.file]) => ToRead(e, files) = <<>>
         /\ ~(e.at > Len(files[e.file])) =>
              /\ files[e.file][e.at] \in Lines
              /\ [e EXCEPT !.at = @ + 1] \in Opened(files)
              /\ ToRead(e, files) = Shown(files[e.file][e.at], Flat(files)) \o ToRead([e EXCEPT !.at = @ + 1], files)
<1>1. Flat(files) \in [DOMAIN files -> Seq(Lines)]
  BY FlatIs
<1>2. e.file \in DOMAIN files /\ e.at \in 1 .. Len(files[e.file]) + 1 /\ e \in [file : DOMAIN files, at : Nat]
  BY DEF Opened
<1>3. PICK lines \in Seq(Lines), at \in Nat, f \in DOMAIN files :
        lines = files[f] /\ at = e.at /\ f = e.file /\ e = [file |-> f, at |-> at] /\ at \in 1 .. Len(lines) + 1
  <2>1. files[e.file] \in Seq(Lines)
    BY <1>2, FilesAssumption
  <2>2. e = [file |-> e.file, at |-> e.at] /\ e.at \in Nat
    BY <1>2
  <2> QED
    BY <1>2, <2>1, <2>2
<1>4. ToRead(e, files) = FromLine(lines, at, Flat(files))
  BY <1>3 DEF ToRead
<1>5. PICK m \in Nat : m = Len(lines)
  OBVIOUS
<1>6. CASE at > m
  <2>1. at = m + 1
    BY <1>3, <1>5, <1>6
  <2>2. ToRead(e, files) = <<>>
    BY <1>1, <1>4, <1>5, <2>1, FromLineIs
  <2>3. <<>> \in Seq(Lines)
    OBVIOUS
  <2> QED
    BY <1>3, <1>5, <1>6, <2>2, <2>3
<1>7. CASE ~(at > m)
  <2>1. at \in 1 .. m /\ at + 1 \in 1 .. m + 1 /\ at + 1 \in Nat /\ at \in 1 .. m + 1
    BY <1>3, <1>5, <1>7
  <2>2. lines[at] \in Lines
    BY <1>5, <2>1
  <2>3. [e EXCEPT !.at = @ + 1] = [file |-> f, at |-> at + 1]
    BY <1>3
  <2>4. [file |-> f, at |-> at + 1] \in Opened(files)
    BY <1>3, <1>5, <2>1 DEF Opened
  <2>5. ToRead([file |-> f, at |-> at + 1], files) = FromLine(lines, at + 1, Flat(files))
    BY <1>3 DEF ToRead
  <2>6. FromLine(lines, at, Flat(files)) = Shown(lines[at], Flat(files)) \o FromLine(lines, at + 1, Flat(files))
    BY <1>1, <1>5, <2>1, FromLineIs
  <2>7. FromLine(lines, at, Flat(files)) \in Seq(Lines)
    BY <1>1, <1>5, <2>1, FromLineIs
  <2> QED
    BY <1>3, <1>4, <1>5, <1>7, <2>2, <2>3, <2>4, <2>5, <2>6, <2>7
<1> QED
  BY <1>6, <1>7

\* t is what is to be read of the open files.
Ahead(t, open, files) ==
  \E r \in [1 .. Len(open) + 1 -> Seq(Lines)] :
    /\ r[1] = t /\ r[Len(open) + 1] = <<>>
    /\ \A i \in 1 .. Len(open) : r[i] = ToRead(open[i], files) \o r[i + 1]

LEMMA AheadType ==
  ASSUME NEW files, NEW open, Len(open) \in Nat, NEW t, Ahead(t, open, files)
  PROVE  t \in Seq(Lines)
<1>1. 1 \in 1 .. Len(open) + 1
  OBVIOUS
<1> QED
  BY <1>1 DEF Ahead

LEMMA AheadNone ==
  ASSUME NEW files
  PROVE  Ahead(<<>>, <<>>, files) /\ \A t : Ahead(t, <<>>, files) => t = <<>>
<1>1. Len(<<>>) = 0 /\ <<>> \in Seq(Lines)
  OBVIOUS
<1> DEFINE r == [i \in 1 .. 1 |-> <<>>]
<1>2. r \in [1 .. 1 -> Seq(Lines)] /\ r[1] = <<>>
  BY <1>1
<1>3. Ahead(<<>>, <<>>, files)
  <2> HIDE DEF r
  <2> QED
    BY <1>1, <1>2 DEF Ahead
<1> QED
  BY <1>1, <1>3 DEF Ahead

\* One more file is opened.
LEMMA AheadMore ==
  ASSUME NEW files \in Texts, NEW open \in Seq(Opened(files)), NEW t, Ahead(t, open, files), NEW e \in Opened(files)
  PROVE  Ahead(ToRead(e, files) \o t, <<e>> \o open, files)
<1>1. PICK m \in Nat : m = Len(open)
  OBVIOUS
<1>2. PICK r \in [1 .. m + 1 -> Seq(Lines)] :
        /\ r[1] = t /\ r[m + 1] = <<>>
        /\ \A i \in 1 .. m : r[i] = ToRead(open[i], files) \o r[i + 1]
  BY <1>1 DEF Ahead
<1>3. ToRead(e, files) \in Seq(Lines)
  BY ToReadIs
<1>4. PICK more \in Seq(Opened(files)) : more = <<e>> \o open
  <2>1. <<e>> \in Seq(Opened(files))
    OBVIOUS
  <2>2. <<e>> \o open \in Seq(Opened(files))
    BY <2>1
  <2> QED
    BY <2>2
<1>5. Len(more) = m + 1 /\ more[1] = e /\ \A i \in 1 .. m : more[i + 1] = open[i]
  BY <1>1, <1>4
<1>6. PICK first \in Seq(Lines) : first = ToRead(e, files) \o t
  <2>1. 1 \in 1 .. m + 1
    OBVIOUS
  <2>2. t \in Seq(Lines)
    BY <1>2, <2>1
  <2>3. ToRead(e, files) \o t \in Seq(Lines)
    BY <1>3, <2>2
  <2> QED
    BY <2>3
<1> DEFINE s == [i \in 1 .. m + 2 |-> IF i = 1 THEN first ELSE r[i - 1]]
<1>7. s \in [1 .. m + 2 -> Seq(Lines)] /\ s[1] = first /\ \A i \in 1 .. m + 1 : s[i + 1] = r[i]
  <2>1. \A i \in 1 .. m + 2 : i # 1 => i - 1 \in 1 .. m + 1
    OBVIOUS
  <2>2. \A i \in 1 .. m + 2 : i # 1 => r[i - 1] \in Seq(Lines)
    BY <2>1
  <2>3. s \in [1 .. m + 2 -> Seq(Lines)]
    BY <2>2
  <2>4. 1 \in 1 .. m + 2
    OBVIOUS
  <2>5. ASSUME NEW i \in 1 .. m + 1 PROVE s[i + 1] = r[i]
    <3>1. i + 1 \in 1 .. m + 2 /\ i + 1 # 1 /\ (i + 1) - 1 = i
      OBVIOUS
    <3> QED
      BY <3>1
  <2> QED
    BY <2>3, <2>4, <2>5
<1> HIDE DEF s
<1>8. s[m + 2] = <<>>
  <2>1. m + 1 \in 1 .. m + 1 /\ (m + 1) + 1 = m + 2
    OBVIOUS
  <2> QED
    BY <1>2, <1>7, <2>1
<1>9. ASSUME NEW i \in 1 .. m + 1 PROVE s[i] = ToRead(more[i], files) \o s[i + 1]
  <2>1. CASE i = 1
    BY <1>2, <1>5, <1>6, <1>7, <2>1
  <2>2. CASE i # 1
    <3>1. PICK j \in 1 .. m : i = j + 1
      <4>1. i - 1 \in 1 .. m /\ i = (i - 1) + 1
        BY <2>2
      <4> QED
        BY <4>1
    <3>2. j \in 1 .. m + 1 /\ j + 1 \in 1 .. m + 1
      OBVIOUS
    <3>3. s[i] = r[j] /\ s[i + 1] = r[j + 1] /\ more[i] = open[j]
      BY <1>5, <1>7, <3>1, <3>2
    <3> QED
      BY <1>2, <3>3
  <2> QED
    BY <2>1, <2>2
<1>10. Len(more) + 1 = m + 2
  BY <1>5
<1> QED
  BY <1>4, <1>5, <1>6, <1>7, <1>8, <1>9, <1>10 DEF Ahead

\* The first file and those under it.
LEMMA AheadFirst ==
  ASSUME NEW files \in Texts, NEW open \in Seq(Opened(files)), open # <<>>, NEW t, Ahead(t, open, files)
  PROVE  \E u \in Seq(Lines) : t = ToRead(Head(open), files) \o u /\ Ahead(u, Tail(open), files)
<1>1. PICK m \in Nat : m = Len(open) /\ m >= 1
  <2>1. Len(open) \in Nat /\ Len(open) >= 1
    OBVIOUS
  <2> QED
    BY <2>1
<1>2. PICK r \in [1 .. m + 1 -> Seq(Lines)] :
        /\ r[1] = t /\ r[m + 1] = <<>>
        /\ \A i \in 1 .. m : r[i] = ToRead(open[i], files) \o r[i + 1]
  BY <1>1 DEF Ahead
<1>3. PICK under : under = Tail(open)
  OBVIOUS
<1>4. Len(under) = m - 1 /\ Head(open) = open[1] /\ \A i \in 1 .. m - 1 : under[i] = open[i + 1]
  BY <1>1, <1>3
<1> DEFINE s == [i \in 1 .. m |-> r[i + 1]]
<1>5. s \in [1 .. m -> Seq(Lines)] /\ \A i \in 1 .. m : s[i] = r[i + 1]
  <2>1. \A i \in 1 .. m : i + 1 \in 1 .. m + 1
    OBVIOUS
  <2> QED
    BY <2>1
<1> HIDE DEF s
<1>6. s[1] = r[2] /\ s[m] = <<>> /\ r[2] \in Seq(Lines)
  <2>1. 1 \in 1 .. m /\ m \in 1 .. m /\ 1 + 1 = 2
    BY <1>1
  <2> QED
    BY <1>2, <1>5, <2>1
<1>7. ASSUME NEW i \in 1 .. m - 1 PROVE s[i] = ToRead(under[i], files) \o s[i + 1]
  <2>1. i \in 1 .. m /\ i + 1 \in 1 .. m
    BY <1>1
  <2>2. r[i + 1] = ToRead(open[i + 1], files) \o r[(i + 1) + 1]
    BY <1>2, <2>1
  <2> QED
    BY <1>4, <1>5, <2>1, <2>2
<1>8. Len(under) + 1 = m
  BY <1>1, <1>4
<1>9. Ahead(r[2], under, files)
  BY <1>4, <1>5, <1>6, <1>7, <1>8 DEF Ahead
<1>10. t = ToRead(Head(open), files) \o r[2]
  <2>1. 1 \in 1 .. m /\ 1 + 1 = 2
    BY <1>1
  <2> QED
    BY <1>2, <1>4, <2>1
<1> QED
  BY <1>3, <1>6, <1>9, <1>10

\* A line is read: what it shows comes first of what was ahead.
LEMMA LineTaken ==
  ASSUME content \in Texts, stack \in Seq(Opened(content)), stack # <<>>, ~AtEnd,
         NEW t, Ahead(t, stack, content)
  PROVE  /\ Line \in Lines /\ Advanced \in Seq(Opened(content)) /\ Advanced # <<>>
         /\ \E u \in Seq(Lines) : Ahead(u, Advanced, content) /\ t = Shown(Line, Flat(content)) \o u
<1>1. PICK e \in Opened(content), open \in Seq(Opened(content)) :
        e = Head(stack) /\ open = Tail(stack) /\ stack = <<e>> \o open /\ stack[1] = e
  <2>1. Head(stack) \in Opened(content) /\ Tail(stack) \in Seq(Opened(content))
        /\ stack = <<Head(stack)>> \o Tail(stack) /\ stack[1] = Head(stack)
    OBVIOUS
  <2> QED
    BY <2>1
<1>2. ~(e.at > Len(content[e.file])) /\ Line = content[e.file][e.at]
  BY <1>1 DEF AtEnd, Line
<1>3. PICK n \in Opened(content) : n = [e EXCEPT !.at = @ + 1]
  BY <1>2, ToReadIs
<1>4. Line \in Lines /\ ToRead(e, content) = Shown(Line, Flat(content)) \o ToRead(n, content)
  BY <1>2, <1>3, ToReadIs
<1>5. Advanced = <<n>> \o open
  <2>1. Advanced = [stack EXCEPT ![1] = n]
    BY <1>1, <1>3 DEF Advanced
  <2>2. Len(stack) \in Nat /\ Len(stack) >= 1 /\ Len(<<n>> \o open) = Len(stack)
    BY <1>1
  <2>3. PICK s \in Seq(Opened(content)) : s = <<n>> \o open
    <3>1. <<n>> \in Seq(Opened(content))
      OBVIOUS
    <3>2. <<n>> \o open \in Seq(Opened(content))
      BY <3>1
    <3> QED
      BY <3>2
  <2>4. \A i \in 1 .. Len(stack) : s[i] = IF i = 1 THEN n ELSE stack[i]
    BY <1>1, <2>3
  <2>5. Len(s) = Len(stack)
    BY <2>2, <2>3
  <2>6. s = [i \in 1 .. Len(stack) |-> s[i]]
    BY <2>5
  <2>7. DOMAIN stack = 1 .. Len(stack)
    OBVIOUS
  <2>8. [stack EXCEPT ![1] = n] = [i \in DOMAIN stack |-> IF i = 1 THEN n ELSE stack[i]]
    OBVIOUS
  <2> QED
    BY <2>1, <2>3, <2>4, <2>6, <2>7, <2>8
<1>6. PICK u0 \in Seq(Lines) : t = ToRead(e, content) \o u0 /\ Ahead(u0, open, content)
  BY <1>1, AheadFirst
<1>7. PICK x \in Seq(Lines), y \in Seq(Lines) : x = Shown(Line, Flat(content)) /\ y = ToRead(n, content)
  <2>1. ToRead(n, content) \in Seq(Lines)
    BY ToReadIs
  <2>2. Flat(content) \in [DOMAIN content -> Seq(Lines)]
    BY FlatIs
  <2>3. Shown(Line, Flat(content)) \in Seq(Lines)
    BY <1>4, <2>2, ShownType
  <2> QED
    BY <2>1, <2>3
<1>8. y \o u0 \in Seq(Lines) /\ t = x \o (y \o u0)
  <2>1. t = (x \o y) \o u0
    BY <1>4, <1>6, <1>7
  <2>2. y \o u0 \in Seq(Lines)
    OBVIOUS
  <2> QED
    BY <2>1, <2>2, ConcatAssociative
<1>9. Ahead(y \o u0, <<n>> \o open, content)
  BY <1>6, <1>7, AheadMore
<1>10. <<n>> \o open \in Seq(Opened(content)) /\ <<n>> \o open # <<>>
  <2>1. <<n>> \in Seq(Opened(content))
    OBVIOUS
  <2>2. <<n>> \o open \in Seq(Opened(content)) /\ Len(<<n>> \o open) = 1 + Len(open)
    BY <2>1, ConcatProperties
  <2>3. Len(<<>>) = 0 /\ Len(open) \in Nat
    OBVIOUS
  <2> QED
    BY <2>2, <2>3
<1> QED
  BY <1>4, <1>5, <1>7, <1>8, <1>9, <1>10

\* An included file comes first of what is ahead.
LEMMA FileIncluded ==
  ASSUME NEW files \in Texts, NEW open \in Seq(Opened(files)), NEW u \in Seq(Lines), Ahead(u, open, files),
         NEW f \in DOMAIN files
  PROVE  /\ myopen(f, open) \in Seq(Opened(files)) /\ myopen(f, open) # <<>>
         /\ Flat(files)[f] \in Seq(Lines)
         /\ Ahead(Flat(files)[f] \o u, myopen(f, open), files)
<1>1. PICK e : e = [file |-> f, at |-> 1]
  OBVIOUS
<1>2. files[f] \in Seq(Lines)
  BY FilesAssumption
<1>3. e \in Opened(files)
  <2>1. 1 \in 1 .. Len(files[f]) + 1
    BY <1>2
  <2> QED
    BY <1>1, <2>1 DEF Opened
<1>4. /\ Flat(files) \in [DOMAIN files -> Seq(Lines)]
      /\ Flat(files)[f] = Spliced(files[f], Flat(files))
  BY FlatIs
<1>5. ToRead(e, files) = Flat(files)[f]
  <2>1. FromLine(files[f], 1, Flat(files)) = Spliced(files[f], Flat(files))
    BY <1>2, <1>4, FromLineIs
  <2> QED
    BY <1>1, <1>4, <2>1 DEF ToRead
<1>6. Ahead(Flat(files)[f] \o u, <<e>> \o open, files)
  BY <1>3, <1>5, AheadMore
<1>7. <<e>> \o open \in Seq(Opened(files)) /\ <<e>> \o open # <<>>
  <2>1. <<e>> \in Seq(Opened(files))
    BY <1>3
  <2>2. <<e>> \o open \in Seq(Opened(files)) /\ Len(<<e>> \o open) = 1 + Len(open)
    BY <2>1, ConcatProperties
  <2>3. Len(<<>>) = 0 /\ Len(open) \in Nat
    OBVIOUS
  <2> QED
    BY <2>2, <2>3
<1> QED
  BY <1>1, <1>4, <1>6, <1>7 DEF myopen

\* A file that was read to its end is closed.
LEMMA FileClosed ==
  ASSUME content \in Texts, stack \in Seq(Opened(content)), stack # <<>>, AtEnd,
         NEW t, Ahead(t, stack, content)
  PROVE  Tail(stack) \in Seq(Opened(content)) /\ t \in Seq(Lines) /\ Ahead(t, Tail(stack), content)
<1>1. PICK e \in Opened(content) : e = Head(stack)
  OBVIOUS
<1>2. e.at > Len(content[e.file])
  BY <1>1 DEF AtEnd
<1>3. ToRead(e, content) = <<>>
  BY <1>2, ToReadIs
<1>4. PICK u \in Seq(Lines) : t = <<>> \o u /\ Ahead(u, Tail(stack), content)
  BY <1>1, <1>3, AheadFirst
<1>5. t = u
  BY <1>4, ConcatEmptySeq
<1>6. Tail(stack) \in Seq(Opened(content))
  OBVIOUS
<1> QED
  BY <1>4, <1>5, <1>6

\* The titles are those of the last of the blocks with the same name.
TitlesAre(tt, read) ==
  /\ DOMAIN tt = {BlockOf(read[i]) : i \in DOMAIN read}
  /\ \A b \in DOMAIN tt : \E i \in DOMAIN read :
       BlockOf(read[i]) = b /\ (\A j \in i + 1 .. Len(read) : BlockOf(read[j]) # b) /\ tt[b] = read[i]

LEMMA TitlesNext ==
  ASSUME NEW S, NEW read \in Seq(S), NEW lines \in S, NEW tt, TitlesAre(tt, read)
  PROVE  TitlesAre([b \in DOMAIN tt \cup {BlockOf(lines)} |-> IF b = BlockOf(lines) THEN lines ELSE tt[b]],
                   Append(read, lines))
<1> DEFINE b0 == BlockOf(lines)
           t2 == [b \in DOMAIN tt \cup {b0} |-> IF b = b0 THEN lines ELSE tt[b]]
<1>1. PICK n \in Nat, more \in Seq(S) : n = Len(read) /\ more = Append(read, lines)
  <2>1. Len(read) \in Nat /\ Append(read, lines) \in Seq(S)
    OBVIOUS
  <2> QED
    BY <2>1
<1>2. Len(more) = n + 1 /\ more[n + 1] = lines /\ \A i \in 1 .. n : more[i] = read[i]
  BY <1>1
<1>3. DOMAIN more = 1 .. n + 1 /\ DOMAIN read = 1 .. n
  BY <1>1, <1>2
<1> HIDE DEF b0
<1>4. DOMAIN t2 = {BlockOf(more[i]) : i \in DOMAIN more}
  <2>1. DOMAIN t2 = DOMAIN tt \cup {b0}
    OBVIOUS
  <2>2. DOMAIN tt = {BlockOf(read[i]) : i \in 1 .. n}
    BY <1>3 DEF TitlesAre
  <2>3. ASSUME NEW x \in DOMAIN tt \cup {b0} PROVE \E i \in 1 .. n + 1 : x = BlockOf(more[i])
    <3>1. CASE x = b0
      <4>1. n + 1 \in 1 .. n + 1
        OBVIOUS
      <4> QED
        BY <1>2, <3>1, <4>1 DEF b0
    <3>2. CASE x \in DOMAIN tt
      <4>1. PICK i \in 1 .. n : x = BlockOf(read[i])
        BY <2>2, <3>2
      <4>2. i \in 1 .. n + 1 /\ more[i] = read[i]
        BY <1>2
      <4> QED
        BY <4>1, <4>2
    <3> QED
      BY <3>1, <3>2
  <2>4. ASSUME NEW i \in 1 .. n + 1 PROVE BlockOf(more[i]) \in DOMAIN tt \cup {b0}
    <3>1. CASE i = n + 1
      BY <1>2, <3>1 DEF b0
    <3>2. CASE i # n + 1
      <4>1. i \in 1 .. n /\ more[i] = read[i]
        BY <1>2, <3>2
      <4> QED
        BY <2>2, <4>1
    <3> QED
      BY <3>1, <3>2
  <2> HIDE DEF t2
  <2> QED
    BY ZenonT(30), <1>3, <2>1, <2>3, <2>4
<1>5. ASSUME NEW b \in DOMAIN t2
      PROVE  \E i \in DOMAIN more :
               BlockOf(more[i]) = b /\ (\A j \in i + 1 .. Len(more) : BlockOf(more[j]) # b) /\ t2[b] = more[i]
  <2>1. CASE b = b0
    <3>1. n + 1 \in DOMAIN more /\ \A j \in (n + 1) + 1 .. Len(more) : FALSE
      BY <1>2, <1>3
    <3>2. t2[b] = more[n + 1] /\ BlockOf(more[n + 1]) = b
      BY <1>2, <2>1 DEF b0
    <3> QED
      BY <3>1, <3>2
  <2>2. CASE b # b0
    <3>1. b \in DOMAIN tt /\ t2[b] = tt[b]
      BY <2>2
    <3>2. PICK i \in 1 .. n :
            BlockOf(read[i]) = b /\ (\A j \in i + 1 .. n : BlockOf(read[j]) # b) /\ tt[b] = read[i]
      BY <1>1, <1>3, <3>1 DEF TitlesAre
    <3>3. i \in 1 .. n + 1 /\ more[i] = read[i]
      BY <1>2
    <3>4. ASSUME NEW j \in i + 1 .. n + 1 PROVE BlockOf(more[j]) # b
      <4>1. CASE j = n + 1
        BY <1>2, <2>2, <4>1 DEF b0
      <4>2. CASE j # n + 1
        <5>1. j \in 1 .. n /\ j \in i + 1 .. n
          BY <4>2
        <5> QED
          BY <1>2, <3>2, <5>1
      <4> QED
        BY <4>1, <4>2
    <3> HIDE DEF t2
    <3> QED
      BY <1>2, <1>3, <3>1, <3>2, <3>3, <3>4
  <2> QED
    BY <2>1, <2>2
<1> HIDE DEF t2
<1>6. TitlesAre(t2, more)
  BY <1>4, <1>5 DEF TitlesAre
<1> QED
  BY <1>1, <1>6 DEF t2, b0

\* What TitlesAre says of one block, with the last of its name.
LEMMA TitlesLast ==
  ASSUME NEW S, NEW read \in Seq(S), NEW tt, TitlesAre(tt, read), NEW b \in DOMAIN tt
  PROVE  tt[b] = read[LastOf(b, read)]
<1> DEFINE IsLast(i) == i \in DOMAIN read /\ BlockOf(read[i]) = b /\ \A j \in i + 1 .. Len(read) : BlockOf(read[j]) # b
<1>1. PICK i : IsLast(i) /\ tt[b] = read[i]
  BY DEF TitlesAre
<1>2. LastOf(b, read) = CHOOSE k \in DOMAIN read : BlockOf(read[k]) = b /\ \A j \in k + 1 .. Len(read) : BlockOf(read[j]) # b
  BY DEF LastOf
<1>3. IsLast(LastOf(b, read))
  BY <1>1, <1>2
<1>4. ASSUME NEW k, IsLast(k), ~(k = i) PROVE FALSE
  <2>1. k \in 1 .. Len(read) /\ i \in 1 .. Len(read) /\ Len(read) \in Nat
    BY <1>1, <1>4
  <2>2. CASE k < i
    <3>1. i \in k + 1 .. Len(read)
      BY <2>1, <2>2
    <3> QED
      BY <1>1, <1>4, <3>1
  <2>3. CASE i < k
    <3>1. k \in i + 1 .. Len(read)
      BY <2>1, <2>3
    <3> QED
      BY <1>1, <1>4, <3>1
  <2> QED
    BY <1>4, <2>1, <2>2, <2>3
<1> HIDE DEF IsLast
<1> QED
  BY <1>1, <1>3, <1>4

-----------------------------------------------------------------------------
(* Setup files: the group names of a begin line.                           *)

GroupNames ==
  {Null} \cup UNION {{AllGroup(line.block[1]), DefaultGroup(line.block[1])}
                       \cup {<<line.block[1], line.toks[i].name>> : i \in DOMAIN line.toks} :
                     line \in {l \in Lines : l.k = "begin"}}

Names == [0 .. MaxGroups -> GroupNames]
ScanStates == [names : Names, ig : Nat]

\* What one token does
Token(s, type, tok) ==
  IF tok.k # "group" THEN s
  ELSE [names |-> IF tok = BareGroup THEN s.names ELSE [s.names EXCEPT ![s.ig] = <<type, tok.name>>],
        ig |-> s.ig + 1]

ScanBegun(old, type) == [names |-> [old EXCEPT ![0] = AllGroup(type)], ig |-> 1]

\* scan is what Scanned works out, token by token.
ScanSteps(scan, old, type, toks) ==
  /\ scan \in [0 .. Len(toks) -> ScanStates]
  /\ scan[0] = ScanBegun(old, type)
  /\ \A i \in 1 .. Len(toks) : scan[i] = Token(scan[i - 1], type, toks[i])

LEMMA NamesOf ==
  ASSUME NEW line \in Lines, line.k = "begin"
  PROVE  /\ AllGroup(line.block[1]) \in GroupNames /\ DefaultGroup(line.block[1]) \in GroupNames
         /\ Null \in GroupNames
         /\ \A i \in DOMAIN line.toks : <<line.block[1], line.toks[i].name>> \in GroupNames
<1> DEFINE Of(l) == {AllGroup(l.block[1]), DefaultGroup(l.block[1])}
                      \cup {<<l.block[1], l.toks[i].name>> : i \in DOMAIN l.toks}
<1>1. \A x \in Of(line) : x \in GroupNames
  BY DEF GroupNames
<1>2. Null \in GroupNames
  BY DEF GroupNames
<1> QED
  BY <1>1, <1>2

LEMMA ScannedIs ==
  ASSUME NEW line \in Lines, line.k = "begin", NEW old \in Names
  PROVE  \E scan : /\ ScanSteps(scan, old, line.block[1], line.toks)
                   /\ Scanned(old, line.block[1], line.toks) = scan[Len(line.toks)]
<1> DEFINE type == line.block[1]
           toks == line.toks
           m == Len(toks)
           Does(h) == h = [n \in 0 .. m |->
             IF n = 0 THEN [names |-> [old EXCEPT ![0] = AllGroup(type)], ig |-> 1]
             ELSE IF toks[n].k # "group" THEN h[n - 1]
             ELSE [names |-> IF toks[n] = BareGroup THEN h[n - 1].names
                             ELSE [h[n - 1].names EXCEPT ![h[n - 1].ig] = <<type, toks[n].name>>],
                   ig |-> h[n - 1].ig + 1]]
           scan == CHOOSE h : Does(h)
           g == [i \in 1 .. m |-> [s \in ScanStates |-> Token(s, type, toks[i])]]
<1>1. m \in Nat /\ DOMAIN toks = 1 .. m /\ MaxGroups \in Nat
  BY GroupsAssumption
<1>2. Scanned(old, type, toks) = scan[m]
  BY DEF Scanned
<1>3. \A i \in 1 .. m : <<type, toks[i].name>> \in GroupNames
  BY <1>1, NamesOf
<1>4. AllGroup(type) \in GroupNames
  BY NamesOf
<1> HIDE DEF m, toks, type
<1>5. ScanBegun(old, type) \in ScanStates
  <2>1. [old EXCEPT ![0] = AllGroup(type)] \in Names
    BY <1>4 DEF Names
  <2> QED
    BY <2>1 DEF ScanBegun, ScanStates
<1>6. g \in [1 .. m -> [ScanStates -> ScanStates]]
  <2>1. ASSUME NEW i \in 1 .. m, NEW s \in ScanStates PROVE Token(s, type, toks[i]) \in ScanStates
    <3>1. s.names \in Names /\ s.ig \in Nat
      BY DEF ScanStates
    <3>2. [s.names EXCEPT ![s.ig] = <<type, toks[i].name>>] \in Names
      BY <1>3, <3>1 DEF Names
    <3>3. s.ig + 1 \in Nat
      BY <3>1
    <3> QED
      BY <3>1, <3>2, <3>3 DEF Token, ScanStates
  <2> QED
    BY <2>1
<1>7. PICK h \in [0 .. m -> ScanStates] : h[0] = ScanBegun(old, type) /\ \A i \in 1 .. m : h[i] = g[i][h[i - 1]]
  <2> HIDE DEF g
  <2>1. \E h \in [0 .. m -> ScanStates] : Steps(h, m, ScanBegun(old, type), g)
    BY Zenon, <1>1, <1>5, <1>6, Recursion
  <2> QED
    BY <2>1 DEF Steps
<1>8. ASSUME NEW i \in 1 .. m PROVE h[i] = Token(h[i - 1], type, toks[i])
  <2>1. i - 1 \in 0 .. m
    BY <1>1
  <2>2. h[i - 1] \in ScanStates
    BY <2>1
  <2> QED
    BY <1>7, <2>2
<1> HIDE DEF g
<1>9. Does(h)
  <2>1. \A i \in 0 .. m : i # 0 => i \in 1 .. m
    BY <1>1
  <2>2. h = [i \in 0 .. m |-> h[i]]
    OBVIOUS
  <2> QED
    BY <1>7, <1>8, <2>1, <2>2 DEF Token, ScanBegun
<1>10. Does(scan)
  <2> HIDE DEF Does
  <2> QED
    BY <1>9
<1> HIDE DEF scan
<1>11. scan[0] = ScanBegun(old, type) /\ \A i \in 1 .. m : scan[i] = Token(scan[i - 1], type, toks[i])
  <2>1. 0 \in 0 .. m /\ \A i \in 1 .. m : i \in 0 .. m /\ i # 0
    BY <1>1
  <2> QED
    BY <1>10, <2>1 DEF Token, ScanBegun
<1>12. \A i \in 0 .. m : scan[i] = h[i]
  <2>1. Alike(scan, h, m)
    BY <1>7, <1>8, <1>11 DEF Alike
  <2> QED
    BY <1>1, <2>1, SameRecursion
<1>13. m \in 0 .. m
  BY <1>1
<1>14. ScanSteps(h, old, type, toks)
  BY <1>7, <1>8 DEF ScanSteps, m
<1> QED
  BY <1>2, <1>12, <1>13, <1>14 DEF m, toks, type

\* The first ig names are there, and are those that the first n tokens name.
ScannedSoFar(s, type, toks, n) ==
  /\ s.ig \in 1 .. n + 1
  /\ \A i \in 0 .. s.ig - 1 : s.names[i] # Null
  /\ \A x : (\E i \in 0 .. s.ig - 1 : x = s.names[i])
       <=> (x = AllGroup(type) \/ \E j \in 1 .. n : toks[j].k = "group" /\ x = <<type, toks[j].name>>)

LEMMA ScanGoesOn ==
  ASSUME NEW line \in Lines, line.k = "begin", NEW s \in ScanStates, NEW n \in 0 .. Len(line.toks) - 1,
         line.toks[n + 1] # BareGroup, ScannedSoFar(s, line.block[1], line.toks, n)
  PROVE  ScannedSoFar(Token(s, line.block[1], line.toks[n + 1]), line.block[1], line.toks, n + 1)
<1> DEFINE type == line.block[1]
           toks == line.toks
           s2 == Token(s, type, toks[n + 1])
<1>1. n \in Nat /\ n + 1 \in 0 .. MaxGroups - 1 /\ MaxGroups \in Nat
  BY GroupsAssumption
<1>2. PICK ig \in 1 .. n + 1 : ig = s.ig
  BY DEF ScannedSoFar
<1>3. DOMAIN s.names = 0 .. MaxGroups
  BY DEF ScanStates, Names
<1> HIDE DEF toks, type
<1>4. /\ \A i \in 0 .. ig - 1 : s.names[i] # Null
      /\ \A x : (\E i \in 0 .. ig - 1 : x = s.names[i])
           <=> (x = AllGroup(type) \/ \E j \in 1 .. n : toks[j].k = "group" /\ x = <<type, toks[j].name>>)
  BY <1>2 DEF ScannedSoFar, toks, type
<1>5. CASE toks[n + 1].k # "group"
  <2>1. s2 = s
    BY <1>5 DEF Token
  <2>2. ig \in 1 .. (n + 1) + 1
    BY <1>1
  <2>3. \A j \in 1 .. n + 1 : toks[j].k = "group" => j \in 1 .. n
    BY <1>1, <1>5
  <2>4. \A j \in 1 .. n : j \in 1 .. n + 1
    BY <1>1
  <2> HIDE DEF s2
  <2>5. ScannedSoFar(s2, type, toks, n + 1)
    BY SMTT(30), <1>2, <1>4, <2>1, <2>2, <2>3, <2>4 DEF ScannedSoFar
  <2> QED
    BY <2>5 DEF s2, toks, type
<1>6. CASE toks[n + 1].k = "group"
  <2>1. s2 = [names |-> [s.names EXCEPT ![ig] = <<type, toks[n + 1].name>>], ig |-> ig + 1]
    BY <1>2, <1>6 DEF Token, toks
  <2>2. /\ s2.ig = ig + 1 /\ ig + 1 \in 1 .. (n + 1) + 1 /\ (ig + 1) - 1 = ig
        /\ s2.names[ig] = <<type, toks[n + 1].name>>
        /\ \A i \in 0 .. ig - 1 : s2.names[i] = s.names[i]
    BY <1>1, <1>3, <2>1
  <2>3. <<type, toks[n + 1].name>> # Null
    BY DEF Null
  <2>4. \A i \in 0 .. ig : i = ig \/ i \in 0 .. ig - 1
    OBVIOUS
  <2>5. ig \in 0 .. ig /\ (\A i \in 0 .. ig - 1 : i \in 0 .. ig)
    OBVIOUS
  <2>6. n + 1 \in 1 .. n + 1 /\ (\A j \in 1 .. n : j \in 1 .. n + 1) /\ \A j \in 1 .. n + 1 : j = n + 1 \/ j \in 1 .. n
    BY <1>1
  <2> HIDE DEF s2
  <2>7. ASSUME NEW x
        PROVE  (\E i \in 0 .. ig : x = s2.names[i])
                 <=> (x = AllGroup(type) \/ \E j \in 1 .. n + 1 : toks[j].k = "group" /\ x = <<type, toks[j].name>>)
    <3>1. (\E i \in 0 .. ig : x = s2.names[i])
            <=> x = <<type, toks[n + 1].name>> \/ \E i \in 0 .. ig - 1 : x = s.names[i]
      BY <2>2, <2>4, <2>5
    <3>2. (\E j \in 1 .. n + 1 : toks[j].k = "group" /\ x = <<type, toks[j].name>>)
            <=> x = <<type, toks[n + 1].name>> \/ \E j \in 1 .. n : toks[j].k = "group" /\ x = <<type, toks[j].name>>
      BY <1>6, <2>6
    <3> QED
      BY <1>4, <3>1, <3>2
  <2>8. \A i \in 0 .. ig : s2.names[i] # Null
    BY <1>4, <2>2, <2>3, <2>4
  <2>9. ScannedSoFar(s2, type, toks, n + 1)
    BY <2>2, <2>7, <2>8 DEF ScannedSoFar
  <2> QED
    BY <2>9 DEF s2, toks, type
<1> QED
  BY <1>5, <1>6

\* A begin line that names its groups in full gives just these, whatever the array had.
LEMMA NamesGiven ==
  ASSUME NEW line \in Lines, line.k = "begin", NEW old \in Names
  PROVE  /\ NamedGroups(old, line.block[1], line.toks) \in Names
         /\ BareGroup \notin ToSet(line.toks) =>
              UpToNull(NamedGroups(old, line.block[1], line.toks)) = NamedBy(<<line>>)
<1> DEFINE type == line.block[1]
           toks == line.toks
           new == NamedGroups(old, type, toks)
<1>1. /\ DOMAIN toks = 1 .. Len(toks) /\ Len(toks) \in 0 .. MaxGroups - 1
      /\ MaxGroups \in Nat /\ 0 \in 0 .. MaxGroups /\ 1 \in 0 .. MaxGroups /\ 2 \in 0 .. MaxGroups
  BY GroupsAssumption
<1>2. AllGroup(type) \in GroupNames /\ DefaultGroup(type) \in GroupNames /\ Null \in GroupNames
  BY NamesOf
<1>3. AllGroup(type) # Null /\ DefaultGroup(type) # Null
  BY DEF AllGroup, DefaultGroup, Null
<1>4. NamedBy(<<line>>) = {AllGroup(type)} \cup
        IF toks = <<>> THEN {DefaultGroup(type)}
        ELSE {<<type, t.name>> : t \in {u \in ToSet(toks) : u.k = "group"}}
  BY DEF NamedBy, BlockOf
<1>5. PICK scan : ScanSteps(scan, old, type, toks) /\ Scanned(old, type, toks) = scan[Len(toks)]
  BY ScannedIs
<1> HIDE DEF toks, type
<1>6. CASE toks = <<>>
  <2>1. new = [old EXCEPT ![0] = AllGroup(type), ![1] = DefaultGroup(type), ![2] = Null]
    BY <1>6 DEF NamedGroups
  <2>2. DOMAIN old = 0 .. MaxGroups
    BY DEF Names
  <2>3. /\ DOMAIN new = 0 .. MaxGroups
        /\ new[0] = AllGroup(type) /\ new[1] = DefaultGroup(type) /\ new[2] = Null
    BY <1>1, <2>1, <2>2
  <2>4. new \in Names
    BY <1>1, <1>2, <2>1 DEF Names
  <2> HIDE DEF new
  <2>5. ASSUME NEW j \in DOMAIN new PROVE (\A k \in 0 .. j : new[k] # Null) <=> j \in {0, 1}
    <3>1. j \in 0 .. MaxGroups
      BY <2>3
    <3>2. CASE j = 0
      <4>1. \A k \in 0 .. 0 : k = 0
        OBVIOUS
      <4> QED
        BY <1>3, <2>3, <3>2, <4>1
    <3>3. CASE j = 1
      <4>1. \A k \in 0 .. 1 : k = 0 \/ k = 1
        OBVIOUS
      <4> QED
        BY <1>3, <2>3, <3>3, <4>1
    <3>4. CASE j # 0 /\ j # 1
      <4>1. 2 \in 0 .. j
        BY <1>1, <3>1, <3>4
      <4> QED
        BY <2>3, <3>4, <4>1
    <3> QED
      BY <3>2, <3>3, <3>4
  <2>6. {j \in DOMAIN new : \A k \in 0 .. j : new[k] # Null} = {0, 1}
    <3>1. 0 \in DOMAIN new /\ 1 \in DOMAIN new
      BY <1>1, <2>3
    <3> QED
      BY <2>5, <3>1
  <2>7. UpToNull(new) = {new[0], new[1]}
    BY <2>6 DEF UpToNull
  <2> QED
    BY <1>4, <1>6, <2>3, <2>4, <2>7 DEF new, toks, type
<1>7. CASE toks # <<>>
  <2>1. PICK s \in ScanStates : s = Scanned(old, type, toks) /\ s = scan[Len(toks)]
    <3>1. Len(toks) \in 0 .. Len(toks)
      BY <1>1
    <3> QED
      BY <1>5, <3>1 DEF ScanSteps
  <2>2. new = [s.names EXCEPT ![s.ig] = Null]
    BY <1>7, <2>1 DEF NamedGroups
  <2>3. new \in Names
    BY <1>2, <2>1, <2>2 DEF Names, ScanStates
  <2>4. ASSUME BareGroup \notin ToSet(toks) PROVE UpToNull(new) = NamedBy(<<line>>)
    <3> DEFINE Z == {n \in 0 .. Len(toks) : ScannedSoFar(scan[n], type, toks, n)}
    <3>1. PICK m \in Nat : m = Len(toks) /\ m \in 0 .. m
      <4>1. Len(toks) \in Nat
        BY <1>1
      <4>2. \A n \in Nat : n \in 0 .. n
        OBVIOUS
      <4> QED
        BY <4>1, <4>2
    <3>2. \A i \in 1 .. m : toks[i] # BareGroup
      BY <1>1, <2>4, <3>1 DEF ToSet
    <3>3. 0 \in Z
      <4>1. scan[0] = [names |-> [old EXCEPT ![0] = AllGroup(type)], ig |-> 1]
        BY <1>5 DEF ScanSteps, ScanBegun
      <4>2. scan[0].ig = 1 /\ scan[0].names[0] = AllGroup(type)
        BY <1>1, <4>1 DEF Names
      <4>3. (\A i \in 0 .. 1 - 1 : i = 0) /\ 0 \in 0 .. 1 - 1 /\ 1 \in 1 .. 0 + 1 /\ \A j \in 1 .. 0 : FALSE
        OBVIOUS
      <4>4. ScannedSoFar(scan[0], type, toks, 0)
        BY <1>3, <4>2, <4>3 DEF ScannedSoFar
      <4> QED
        BY <3>1, <4>4
    <3>4. ASSUME NEW n \in 0 .. m - 1, n \in Z PROVE n + 1 \in Z
      <4>1. n \in 0 .. m /\ n + 1 \in 1 .. m /\ n + 1 \in 0 .. m /\ (n + 1) - 1 = n
        BY <3>1
      <4>2. scan[n] \in ScanStates /\ scan[n + 1] = Token(scan[n], type, toks[n + 1])
        BY <1>5, <3>1, <4>1 DEF ScanSteps
      <4>3. toks[n + 1] # BareGroup /\ ScannedSoFar(scan[n], type, toks, n) /\ n \in 0 .. Len(toks) - 1
        BY <3>1, <3>2, <3>4, <4>1
      <4>4. ScannedSoFar(Token(scan[n], type, toks[n + 1]), type, toks, n + 1)
        BY <4>2, <4>3, ScanGoesOn DEF toks, type
      <4> QED
        BY <3>1, <4>1, <4>2, <4>4
    <3>5. m \in Z
      <4> HIDE DEF Z
      <4> QED
        BY <3>1, <3>3, <3>4, UpTo
    <3>6. ScannedSoFar(s, type, toks, m)
      BY <2>1, <3>1, <3>5
    <3>7. PICK ig \in 1 .. m + 1 : ig = s.ig
      BY <3>6 DEF ScannedSoFar
    <3>8. /\ \A i \in 0 .. ig - 1 : s.names[i] # Null
          /\ \A x : (\E i \in 0 .. ig - 1 : x = s.names[i])
               <=> (x = AllGroup(type) \/ \E j \in 1 .. m : toks[j].k = "group" /\ x = <<type, toks[j].name>>)
      BY <3>6, <3>7 DEF ScannedSoFar
    <3>9. ig \in 0 .. MaxGroups /\ DOMAIN s.names = 0 .. MaxGroups /\ \A i \in 0 .. ig - 1 : i \in 0 .. MaxGroups
      BY <1>1, <3>1 DEF ScanStates, Names
    <3>10. DOMAIN new = 0 .. MaxGroups /\ new[ig] = Null /\ \A i \in 0 .. ig - 1 : new[i] = s.names[i]
      <4>1. PICK names : names = s.names
        OBVIOUS
      <4>2. new = [names EXCEPT ![ig] = Null] /\ DOMAIN names = 0 .. MaxGroups
        BY <2>2, <3>7, <3>9, <4>1
      <4>3. \A i \in 0 .. ig - 1 : i # ig
        OBVIOUS
      <4> HIDE DEF new
      <4> QED
        BY <3>9, <4>1, <4>2, <4>3
    <3> HIDE DEF new
    <3>11. ASSUME NEW j \in DOMAIN new PROVE (\A k \in 0 .. j : new[k] # Null) <=> j \in 0 .. ig - 1
      <4>1. j \in 0 .. MaxGroups
        BY <3>10
      <4>2. CASE j \in 0 .. ig - 1
        <5>1. \A k \in 0 .. j : k \in 0 .. ig - 1
          BY <4>2
        <5> QED
          BY <3>8, <3>10, <4>2, <5>1
      <4>3. CASE j \notin 0 .. ig - 1
        <5>1. ig \in 0 .. j
          BY <1>1, <4>1, <4>3
        <5> QED
          BY <3>10, <4>3, <5>1
      <4> QED
        BY <4>2, <4>3
    <3>12. UpToNull(new) = {s.names[i] : i \in 0 .. ig - 1}
      <4>1. {j \in DOMAIN new : \A k \in 0 .. j : new[k] # Null} = 0 .. ig - 1
        BY <3>9, <3>10, <3>11
      <4> QED
        BY <3>10, <4>1 DEF UpToNull
    <3>13. ASSUME NEW x PROVE x \in UpToNull(new) <=> x \in NamedBy(<<line>>)
      <4>1. x \in UpToNull(new) <=> (x = AllGroup(type) \/ \E j \in 1 .. m : toks[j].k = "group" /\ x = <<type, toks[j].name>>)
        BY <3>8, <3>12
      <4>2. (\E j \in 1 .. m : toks[j].k = "group" /\ x = <<type, toks[j].name>>)
              <=> x \in {<<type, t.name>> : t \in {u \in ToSet(toks) : u.k = "group"}}
        BY <1>1, <3>1 DEF ToSet
      <4> QED
        BY <1>4, <1>7, <4>1, <4>2
    <3> QED
      BY <3>13
  <2> QED
    BY <2>3, <2>4 DEF new, toks, type
<1> QED
  BY <1>6, <1>7

-----------------------------------------------------------------------------
(* Setup files: the lists of the groups.                                   *)

BlockNames == {line.block : line \in Lines}

\* A block whose begin lines name their groups in full does so before the last of them.
LEMMA PlainBefore ==
  ASSUME NEW S, NEW read \in Seq(S), NEW lines \in S, NEW b, Plain(b, Append(read, lines))
  PROVE  Plain(b, read) /\ (b = BlockOf(lines) => BareGroup \notin ToSet(lines[1].toks))
<1>1. PICK n \in Nat, more \in Seq(S) : n = Len(read) /\ more = Append(read, lines)
  <2>1. Len(read) \in Nat /\ Append(read, lines) \in Seq(S)
    OBVIOUS
  <2> QED
    BY <2>1
<1>2. DOMAIN read = 1 .. n /\ DOMAIN more = 1 .. n + 1 /\ more[n + 1] = lines /\ \A i \in 1 .. n : more[i] = read[i]
  BY <1>1
<1>3. n + 1 \in 1 .. n + 1 /\ \A i \in 1 .. n : i \in 1 .. n + 1
  OBVIOUS
<1>4. Plain(b, more)
  BY <1>1
<1> QED
  BY <1>2, <1>3, <1>4 DEF Plain

\* What was put in a group, with one block more.
LEMMA PutBefore ==
  ASSUME NEW S, NEW read \in Seq(S), NEW lines \in S, NEW b, NEW g
  PROVE  (\E i \in DOMAIN Append(read, lines) : PutIn(Append(read, lines)[i], b, g))
           <=> (\E i \in DOMAIN read : PutIn(read[i], b, g)) \/ PutIn(lines, b, g)
<1>1. PICK n \in Nat, more \in Seq(S) : n = Len(read) /\ more = Append(read, lines)
  <2>1. Len(read) \in Nat /\ Append(read, lines) \in Seq(S)
    OBVIOUS
  <2> QED
    BY <2>1
<1>2. DOMAIN read = 1 .. n /\ DOMAIN more = 1 .. n + 1 /\ more[n + 1] = lines /\ \A i \in 1 .. n : more[i] = read[i]
  BY <1>1
<1>3. /\ n + 1 \in 1 .. n + 1 /\ (\A i \in 1 .. n : i \in 1 .. n + 1)
      /\ \A i \in 1 .. n + 1 : i = n + 1 \/ i \in 1 .. n
  OBVIOUS
<1> QED
  BY <1>1, <1>2, <1>3

\* A block that is put in a group, or is not, as its begin line says.
LEMMA ListNext ==
  ASSUME NEW S, NEW read \in Seq(S), NEW lines \in S, NEW g, NEW ls \in Seq(BlockNames),
         BlockOf(lines) \in BlockNames, HasInOrder(ls, g, read), NEW put \in BOOLEAN,
         BareGroup \notin ToSet(lines[1].toks) => (put <=> g \in NamedBy(lines))
  PROVE  /\ (IF put THEN AddedToList(ls, BlockOf(lines)) ELSE ls) \in Seq(BlockNames)
         /\ HasInOrder(IF put THEN AddedToList(ls, BlockOf(lines)) ELSE ls, g, Append(read, lines))
<1> DEFINE b0 == BlockOf(lines)
           l2 == IF put THEN AddedToList(ls, b0) ELSE ls
           more == Append(read, lines)
           Put(b) == \E i \in DOMAIN read : PutIn(read[i], b, g)
<1>1. PICK n \in Nat : n = Len(read) /\ DOMAIN read = 1 .. n
  OBVIOUS
<1>2. DOMAIN more = 1 .. n + 1 /\ \A i \in 1 .. n : more[i] = read[i]
  BY <1>1
<1>3. PICK m \in Nat : m = Len(ls) /\ DOMAIN ls = 1 .. m
  OBVIOUS
<1>4. \A b : (\E i \in DOMAIN more : PutIn(more[i], b, g)) <=> Put(b) \/ PutIn(lines, b, g)
  BY PutBefore
<1>5. \A b : Plain(b, more) => Plain(b, read) /\ (b = b0 => BareGroup \notin ToSet(lines[1].toks))
  BY PlainBefore
<1>6. \A b : PutIn(lines, b, g) <=> b = b0 /\ g \in NamedBy(lines)
  BY DEF PutIn
<1>7. b0 \in BlockNames
  OBVIOUS
<1> HIDE DEF b0, more
<1>8. l2 = IF put /\ b0 \notin ToSet(ls) THEN Append(ls, b0) ELSE ls
  BY DEF AddedToList
<1>9. Append(ls, b0) \in Seq(BlockNames) /\ DOMAIN Append(ls, b0) = 1 .. m + 1
      /\ Append(ls, b0)[m + 1] = b0 /\ \A p \in 1 .. m : Append(ls, b0)[p] = ls[p]
  BY <1>3, <1>7
<1> HIDE DEF l2
<1>10. /\ l2 \in Seq(BlockNames) /\ DOMAIN l2 \in {1 .. m, 1 .. m + 1}
       /\ \A p \in 1 .. m : l2[p] = ls[p]
       /\ DOMAIN l2 = 1 .. m + 1 \/ DOMAIN l2 = 1 .. m
       /\ m + 1 \in DOMAIN l2 <=> put /\ b0 \notin ToSet(ls)
       /\ m + 1 \in DOMAIN l2 => l2[m + 1] = b0
  <2>1. m + 1 \in 1 .. m + 1 /\ m + 1 \notin 1 .. m
    OBVIOUS
  <2> QED
    BY <1>3, <1>8, <1>9, <2>1
<1>11. \A p \in DOMAIN l2 : p = m + 1 \/ p \in 1 .. m
  BY <1>10
<1>12. \A p \in 1 .. m : p \in DOMAIN l2
  BY <1>10
<1>13. \A b : b \in ToSet(l2) <=> b \in ToSet(ls) \/ (put /\ b = b0)
  <2>1. \A b : b \in ToSet(ls) <=> \E p \in 1 .. m : b = ls[p]
    BY <1>3 DEF ToSet
  <2>2. \A b : b \in ToSet(l2) <=> \E p \in DOMAIN l2 : b = l2[p]
    BY DEF ToSet
  <2>3. ASSUME NEW b PROVE b \in ToSet(l2) <=> b \in ToSet(ls) \/ (m + 1 \in DOMAIN l2 /\ b = b0)
    <3>1. ASSUME b \in ToSet(l2) PROVE b \in ToSet(ls) \/ (m + 1 \in DOMAIN l2 /\ b = b0)
      <4>1. PICK p \in DOMAIN l2 : b = l2[p]
        BY <2>2, <3>1
      <4>2. CASE p = m + 1
        BY <1>10, <4>1, <4>2
      <4>3. CASE p \in 1 .. m
        BY <1>10, <2>1, <4>1, <4>3
      <4> QED
        BY <1>11, <4>2, <4>3
    <3>2. ASSUME b \in ToSet(ls) PROVE b \in ToSet(l2)
      <4>1. PICK p \in 1 .. m : b = ls[p]
        BY <2>1, <3>2
      <4> QED
        BY <1>10, <1>12, <2>2, <4>1
    <3>3. ASSUME m + 1 \in DOMAIN l2, b = b0 PROVE b \in ToSet(l2)
      BY <1>10, <2>2, <3>3
    <3> QED
      BY <3>1, <3>2, <3>3
  <2> QED
    BY <1>10, <2>3
<1>14. \A b : Plain(b, read) => (b \in ToSet(ls) <=> Put(b))
  <2>1. ASSUME NEW b, Plain(b, read), b \in ToSet(ls) \/ Put(b) PROVE b \in ToSet(ls) <=> Put(b)
    <3>1. b \in ToSet(ls) \cup {BlockOf(read[i]) : i \in DOMAIN read}
      BY <2>1 DEF PutIn
    <3> QED
      BY <2>1, <3>1 DEF HasInOrder
  <2> QED
    BY <2>1
<1>15. ASSUME NEW p \in DOMAIN l2, NEW q \in DOMAIN l2, p # q PROVE l2[p] # l2[q]
  <2>1. \A i, j \in 1 .. m : i # j => ls[i] # ls[j]
    BY <1>3 DEF HasInOrder
  <2>2. ASSUME NEW i \in 1 .. m, m + 1 \in DOMAIN l2 PROVE l2[i] # l2[m + 1]
    <3>1. ls[i] \in ToSet(ls)
      BY <1>3 DEF ToSet
    <3> QED
      BY <1>10, <2>2, <3>1
  <2> QED
    BY <1>10, <1>11, <1>15, <2>1, <2>2
<1>16. ASSUME NEW b, Plain(b, more) PROVE b \in ToSet(l2) <=> \E i \in DOMAIN more : PutIn(more[i], b, g)
  <2>1. b \in ToSet(ls) <=> Put(b)
    BY <1>5, <1>14, <1>16
  <2>2. b = b0 => (put <=> g \in NamedBy(lines))
    BY <1>5, <1>16
  <2> QED
    BY <1>4, <1>6, <1>13, <2>1, <2>2
<1>17. ASSUME NEW p \in DOMAIN l2, NEW q \in DOMAIN l2, p < q, Plain(l2[p], more), Plain(l2[q], more)
       PROVE  \E i \in DOMAIN more : PutIn(more[i], l2[p], g) /\ \A j \in 1 .. i : ~PutIn(more[j], l2[q], g)
  <2>1. Plain(l2[p], read) /\ Plain(l2[q], read)
    BY <1>5, <1>17
  <2>2. p \in 1 .. m /\ l2[p] = ls[p]
    <3>1. p \in 1 .. m \/ p = m + 1
      BY <1>11
    <3>2. q \in 1 .. m \/ q = m + 1
      BY <1>11
    <3>3. p # m + 1
      BY <1>17, <3>1, <3>2
    <3> QED
      BY <1>10, <3>1, <3>3
  <2>3. PICK i \in 1 .. n : PutIn(read[i], l2[p], g) /\ \A j \in 1 .. i : ~PutIn(read[j], l2[q], g)
    <3>1. CASE q \in 1 .. m
      <4>1. l2[q] = ls[q]
        BY <1>10, <3>1
      <4> QED
        BY <1>1, <1>3, <1>17, <2>1, <2>2, <3>1, <4>1 DEF HasInOrder
    <3>2. CASE q = m + 1
      <4>1. l2[q] = b0 /\ b0 \notin ToSet(ls)
        BY <1>10, <3>2
      <4>2. ~Put(l2[q])
        BY <1>14, <2>1, <4>1
      <4>3. l2[p] \in ToSet(ls)
        BY <1>3, <2>2 DEF ToSet
      <4>4. PICK i \in DOMAIN read : PutIn(read[i], l2[p], g)
        BY <1>14, <2>1, <4>3
      <4>5. \A j \in 1 .. i : j \in DOMAIN read
        BY <1>1, <4>4
      <4> QED
        BY <1>1, <4>2, <4>4, <4>5
    <3> QED
      BY <1>11, <3>1, <3>2
  <2>4. i \in DOMAIN more /\ more[i] = read[i] /\ \A j \in 1 .. i : more[j] = read[j]
    <3>1. i \in 1 .. n + 1 /\ \A j \in 1 .. i : j \in 1 .. n
      OBVIOUS
    <3> QED
      BY <1>2, <3>1
  <2> QED
    BY <2>3, <2>4
<1>18. HasInOrder(l2, g, more)
  BY <1>15, <1>16, <1>17 DEF HasInOrder
<1> QED
  BY <1>10, <1>18 DEF l2, b0, more

\* The lists have what the blocks were put in.
GroupsAre(gg, read) ==
  /\ \A i \in DOMAIN read : Plain(BlockOf(read[i]), read) => NamedBy(read[i]) \subseteq DOMAIN gg
  /\ \A g \in DOMAIN gg : gg[g] \in Seq(BlockNames) /\ HasInOrder(gg[g], g, read)

LEMMA GroupsNext ==
  ASSUME NEW S, NEW read \in Seq(S), NEW lines \in S, BlockOf(lines) \in BlockNames, NEW gg, GroupsAre(gg, read),
         NEW G, BareGroup \notin ToSet(lines[1].toks) => G = NamedBy(lines)
  PROVE  GroupsAre([g \in DOMAIN gg \cup G |->
                      IF g \in G THEN AddedToList(IF g \in DOMAIN gg THEN gg[g] ELSE <<>>, BlockOf(lines)) ELSE gg[g]],
                   Append(read, lines))
<1> DEFINE b0 == BlockOf(lines)
           Old(g) == IF g \in DOMAIN gg THEN gg[g] ELSE <<>>
           g2 == [g \in DOMAIN gg \cup G |-> IF g \in G THEN AddedToList(Old(g), b0) ELSE gg[g]]
           more == Append(read, lines)
<1>1. ASSUME NEW g PROVE Old(g) \in Seq(BlockNames) /\ HasInOrder(Old(g), g, read)
  <2>1. CASE g \in DOMAIN gg
    BY <2>1 DEF GroupsAre
  <2>2. CASE g \notin DOMAIN gg
    <3>1. ASSUME NEW i \in DOMAIN read, NEW b, Plain(b, read) PROVE ~PutIn(read[i], b, g)
      BY <2>2, <3>1 DEF GroupsAre, PutIn
    <3>2. DOMAIN <<>> = {} /\ ToSet(<<>>) = {}
      BY DEF ToSet
    <3>3. HasInOrder(<<>>, g, read)
      BY <3>1, <3>2 DEF HasInOrder
    <3>4. <<>> \in Seq(BlockNames)
      OBVIOUS
    <3> QED
      BY <2>2, <3>3, <3>4
  <2> QED
    BY <2>1, <2>2
<1>2. ASSUME NEW g \in DOMAIN gg \cup G PROVE g2[g] \in Seq(BlockNames) /\ HasInOrder(g2[g], g, more)
  <2>1. PICK ls \in Seq(BlockNames) : ls = Old(g) /\ HasInOrder(ls, g, read)
    BY <1>1
  <2>2. PICK put \in BOOLEAN : put <=> g \in G
    OBVIOUS
  <2>3. g2[g] = IF put THEN AddedToList(ls, b0) ELSE ls
    BY <1>2, <2>1, <2>2
  <2>4. BareGroup \notin ToSet(lines[1].toks) => (put <=> g \in NamedBy(lines))
    BY <2>2
  <2>5. /\ (IF put THEN AddedToList(ls, b0) ELSE ls) \in Seq(BlockNames)
        /\ HasInOrder(IF put THEN AddedToList(ls, b0) ELSE ls, g, more)
    BY <2>1, <2>4, ListNext
  <2> QED
    BY <2>3, <2>5
<1>3. ASSUME NEW i \in DOMAIN more, Plain(BlockOf(more[i]), more) PROVE NamedBy(more[i]) \subseteq DOMAIN g2
  <2>1. PICK n \in Nat : n = Len(read) /\ DOMAIN read = 1 .. n
    OBVIOUS
  <2>2. DOMAIN more = 1 .. n + 1 /\ more[n + 1] = lines /\ \A j \in 1 .. n : more[j] = read[j]
    BY <2>1
  <2>3. DOMAIN g2 = DOMAIN gg \cup G
    OBVIOUS
  <2>4. /\ Plain(BlockOf(more[i]), read)
        /\ BlockOf(more[i]) = BlockOf(lines) => BareGroup \notin ToSet(lines[1].toks)
    BY <1>3, PlainBefore
  <2> HIDE DEF g2, more
  <2>5. CASE i = n + 1
    BY <2>2, <2>3, <2>4, <2>5
  <2>6. CASE i # n + 1
    <3>1. i \in 1 .. n
      BY <2>2, <2>6
    <3> QED
      BY <2>1, <2>2, <2>3, <2>4, <3>1 DEF GroupsAre
  <2> QED
    BY <2>5, <2>6
<1>4. DOMAIN g2 = DOMAIN gg \cup G
  OBVIOUS
<1> HIDE DEF g2, more, b0
<1>5. GroupsAre(g2, more)
  BY <1>2, <1>3, <1>4 DEF GroupsAre
<1> QED
  BY <1>5 DEF g2, more, b0

(***************************************************************************)
(* The invariant of a load.  While a file is loaded, what was read of its  *)
(* text (c) and what is ahead in the open files (t) make up the text of    *)
(* the file; the block that is open is the one that a reader of c has      *)
(* open, and the titles and the lists are those of the blocks that he has  *)
(* read.                                                                   *)
(***************************************************************************)

Registered(tt, gg, read) == TitlesAre(tt, read) /\ GroupsAre(gg, read)

\* The array has the groups of the block that is open, or was just completed.
Begun ==
  /\ block = BlockOf(text) /\ block \in BlockNames
  /\ BareGroup \notin ToSet(text[1].toks) => GroupList = NamedBy(text)

LoadTypeInv ==
  /\ content \in Texts /\ stack \in Seq(Opened(content)) /\ loaded \in Seq(DOMAIN content)
  /\ mode \in {"idle", "scan", "body", "register", "crashed"} /\ groups \in Names

At(before, file, c, t, blocks) ==
  /\ loaded = Append(before, file)
  /\ c \o t = Flat(content)[file]
  /\ Ahead(t, stack, content)
  /\ Reading(c) = [open |-> IF mode = "body" THEN text ELSE <<>>,
                   blocks |-> IF mode = "register" THEN Append(blocks, text) ELSE blocks]
  /\ Registered(titles, lists, BlocksOf(Flat(content), before) \o blocks)

ReadingInv ==
  mode \in {"scan", "body", "register"} /\ stack # <<>> =>
    \E before \in Seq(DOMAIN content), file \in DOMAIN content, c \in Seq(Lines), t \in Seq(Lines),
       blocks \in Seq(Seq(Lines)) : At(before, file, c, t, blocks)

OpenInv ==
  /\ mode \in {"scan", "body"} => stack # <<>>
  /\ mode = "body" => text # <<>> /\ Begun
  /\ mode = "register" /\ stack # <<>> => text \in Seq(Lines) /\ Begun

IdleInv == mode = "idle" => stack = <<>> /\ Registered(titles, lists, Read)

LoadInv == LoadTypeInv /\ ReadingInv /\ OpenInv /\ IdleInv

LEMMA LoadBegins == LoadInit => LoadInv
<1> SUFFICES ASSUME LoadInit PROVE LoadInv
  OBVIOUS
<1>1. LoadTypeInv /\ ReadingInv /\ OpenInv
  <2>1. groups \in Names
    BY DEF LoadInit, Names, GroupNames
  <2> QED
    BY <2>1 DEF LoadInit, LoadTypeInv, ReadingInv, OpenInv
<1>2. Registered(titles, lists, Read)
  <2>1. Flat(content) \in [DOMAIN content -> Seq(Lines)]
    BY FlatIs DEF LoadInit
  <2>2. Read = <<>>
    BY <2>1, BlocksOfNone DEF Read, LoadInit
  <2>3. DOMAIN titles = {} /\ DOMAIN lists = {} /\ DOMAIN <<>> = {}
    BY DEF LoadInit
  <2> QED
    BY <2>2, <2>3 DEF Registered, TitlesAre, GroupsAre
<1> QED
  BY <1>1, <1>2 DEF LoadInv, IdleInv, LoadInit

LEMMA LoadStep ==
  ASSUME LoadInv, NEW file \in DOMAIN content, thLoad(file)
  PROVE  LoadInv'
<1>1. /\ content' = content /\ titles' = titles /\ lists' = lists /\ groups' = groups
      /\ mode' = "scan" /\ loaded' = Append(loaded, file)
      /\ stack' = myopen(file, stack) /\ stack = <<>> /\ Registered(titles, lists, Read)
      /\ content \in Texts /\ loaded \in Seq(DOMAIN content) /\ groups \in Names
  BY DEF thLoad, LoadInv, IdleInv, LoadTypeInv
<1>2. <<>> \in Seq(Opened(content)) /\ <<>> \in Seq(Lines) /\ <<>> \in Seq(Seq(Lines))
  OBVIOUS
<1>3. Ahead(<<>>, <<>>, content)
  BY AheadNone
<1>4. PICK t \in Seq(Lines) :
        /\ t = Flat(content)[file] /\ Ahead(t, stack', content)
        /\ stack' \in Seq(Opened(content)) /\ stack' # <<>>
  <2>1. /\ stack' \in Seq(Opened(content)) /\ stack' # <<>>
        /\ Flat(content)[file] \in Seq(Lines)
        /\ Ahead(Flat(content)[file] \o <<>>, stack', content)
    BY <1>1, <1>2, <1>3, FileIncluded
  <2>2. Flat(content)[file] \o <<>> = Flat(content)[file]
    BY <2>1, ConcatEmptySeq
  <2> QED
    BY <2>1, <2>2
<1>5. LoadTypeInv'
  <2>1. Append(loaded, file) \in Seq(DOMAIN content)
    BY <1>1
  <2> QED
    BY <1>1, <1>4, <2>1 DEF LoadTypeInv
<1>6. PICK before \in Seq(DOMAIN content) : before = loaded
  BY <1>1
<1>7. At(before, file, <<>>, t, <<>>)'
  <2>1. <<>> \o t = t
    BY ConcatEmptySeq
  <2>2. Reading(<<>>) = [open |-> <<>>, blocks |-> <<>>]
    BY ReadingNone DEF Unread
  <2>3. BlocksOf(Flat(content), before) \o <<>> = Read
    <3>1. BlocksOf(Flat(content), before) \in Seq(Seq(Lines))
      BY <1>1, FlatIs, BlocksOfNext
    <3> QED
      BY <1>6, <3>1, ConcatEmptySeq DEF Read
  <2>4. Registered(titles', lists', BlocksOf(Flat(content'), before) \o <<>>)
    BY <1>1, <2>3
  <2>5. <<>> \o t = Flat(content')[file] /\ Ahead(t, stack', content')
    BY <1>1, <1>4, <2>1
  <2>6. mode' # "body" /\ mode' # "register"
    BY <1>1
  <2> QED
    BY <1>1, <1>6, <2>2, <2>4, <2>5, <2>6 DEF At
<1>8. ReadingInv'
  BY <1>1, <1>2, <1>7 DEF ReadingInv
<1>9. OpenInv' /\ IdleInv'
  BY <1>1, <1>4 DEF OpenInv, IdleInv
<1> QED
  BY <1>5, <1>8, <1>9 DEF LoadInv

\* What was read, with a line that is not an include.
LEMMA LineRead ==
  ASSUME LoadInv, stack # <<>>, ~AtEnd, Line.k # "include",
         NEW before, NEW file, NEW c \in Seq(Lines), NEW t \in Seq(Lines), NEW blocks,
         At(before, file, c, t, blocks)
  PROVE  /\ Line \in Lines /\ Advanced \in Seq(Opened(content)) /\ Advanced # <<>>
         /\ Reading(c) \in ReaderStates
         /\ \E d \in Seq(Lines), u \in Seq(Lines) :
              /\ d \o u = Flat(content)[file] /\ Ahead(u, Advanced, content)
              /\ Reading(d) = ReadLine(Reading(c), Line)
<1>1. content \in Texts /\ stack \in Seq(Opened(content))
  BY DEF LoadInv, LoadTypeInv
<1>2. c \o t = Flat(content)[file] /\ Ahead(t, stack, content)
  BY DEF At
<1>3. Line \in Lines /\ Advanced \in Seq(Opened(content)) /\ Advanced # <<>>
  BY <1>1, <1>2, LineTaken
<1>4. PICK u \in Seq(Lines) : Ahead(u, Advanced, content) /\ t = Shown(Line, Flat(content)) \o u
  BY <1>1, <1>2, LineTaken
<1>5. PICK d \in Seq(Lines) : d = Append(c, Line)
  BY <1>3, AppendProperties
<1>6. d \o u = c \o t
  <2>1. t = <<Line>> \o u
    BY <1>4 DEF Shown
  <2>2. <<Line>> \in Seq(Lines)
    BY <1>3
  <2>3. d = c \o <<Line>>
    BY <1>3, <1>5, AppendIsConcat
  <2> QED
    BY <2>1, <2>2, <2>3, ConcatAssociative
<1>7. Reading(c) \in ReaderStates /\ Reading(d) = ReadLine(Reading(c), Line)
  BY <1>3, <1>5, ReadingNext
<1> QED
  BY <1>2, <1>3, <1>4, <1>6, <1>7

LEMMA ScanBeginStep == LoadInv /\ ScanBegin => LoadInv'
<1> SUFFICES ASSUME LoadInv, ScanBegin PROVE LoadInv'
  OBVIOUS
<1>1. /\ mode = "scan" /\ ~AtEnd /\ Line.k = "begin" /\ mode' = "body"
      /\ block' = Line.block /\ text' = <<Line>> /\ stack' = Advanced
      /\ content' = content /\ titles' = titles /\ lists' = lists /\ loaded' = loaded
      /\ groups' = NamedGroups(groups, Line.block[1], Line.toks)
  BY DEF ScanBegin
<1>2. content \in Texts /\ loaded \in Seq(DOMAIN content) /\ groups \in Names /\ stack # <<>>
  BY <1>1 DEF LoadInv, LoadTypeInv, OpenInv
<1>3. PICK before \in Seq(DOMAIN content), file \in DOMAIN content, c \in Seq(Lines), t \in Seq(Lines),
           blocks \in Seq(Seq(Lines)) : At(before, file, c, t, blocks)
  BY <1>1, <1>2 DEF LoadInv, ReadingInv
<1>4. Line \in Lines /\ stack' \in Seq(Opened(content)) /\ stack' # <<>>
  BY <1>1, <1>2, <1>3, LineRead
<1>5. PICK d \in Seq(Lines), u \in Seq(Lines) :
        /\ d \o u = Flat(content)[file] /\ Ahead(u, stack', content)
        /\ Reading(d) = ReadLine(Reading(c), Line)
  BY <1>1, <1>2, <1>3, LineRead
<1>6. Reading(d) = [open |-> text', blocks |-> blocks]
  <2>1. Reading(c) = [open |-> <<>>, blocks |-> blocks]
    BY <1>1, <1>3 DEF At
  <2> QED
    BY <1>1, <1>5, <2>1 DEF ReadLine
<1>7. At(before, file, d, u, blocks)'
  <2>1. loaded' = Append(before, file) /\ Registered(titles', lists', BlocksOf(Flat(content'), before) \o blocks)
    BY <1>1, <1>3 DEF At
  <2>2. d \o u = Flat(content')[file] /\ Ahead(u, stack', content')
    BY <1>1, <1>5
  <2> QED
    BY <1>1, <1>6, <2>1, <2>2 DEF At
<1>8. ReadingInv'
  BY <1>1, <1>7 DEF ReadingInv
<1>9. groups' \in Names /\ Begun'
  <2>1. /\ groups' \in Names
        /\ BareGroup \notin ToSet(Line.toks) => UpToNull(groups') = NamedBy(<<Line>>)
    BY <1>1, <1>2, <1>4, NamesGiven
  <2>2. text'[1] = Line /\ block' = BlockOf(text') /\ block' \in BlockNames
    BY <1>1, <1>4 DEF BlockOf, BlockNames
  <2>3. GroupList' = UpToNull(groups')
    BY DEF GroupList
  <2> QED
    BY <1>1, <2>1, <2>2, <2>3 DEF Begun
<1>10. LoadTypeInv' /\ IdleInv'
  BY <1>1, <1>2, <1>4, <1>9 DEF LoadTypeInv, IdleInv
<1>11. OpenInv'
  <2>1. text' # <<>>
    BY <1>1
  <2> QED
    BY <1>1, <1>4, <1>9, <2>1 DEF OpenInv
<1> QED
  BY <1>8, <1>10, <1>11 DEF LoadInv

LEMMA BegunKept == Begun /\ UNCHANGED <<text, block, groups>> => Begun'
BY DEF Begun, GroupList

\* An include, wherever it is
LEMMA IncludeStep ==
  ASSUME LoadInv, mode \in {"scan", "body"}, ~AtEnd, Line.k = "include", do_include(Line.file),
         UNCHANGED <<content, text, block, groups, titles, lists, loaded>>
  PROVE  LoadInv'
<1>1. content \in Texts /\ loaded \in Seq(DOMAIN content) /\ groups \in Names /\ stack # <<>> /\ stack \in Seq(Opened(content))
  BY DEF LoadInv, LoadTypeInv, OpenInv
<1>2. PICK before \in Seq(DOMAIN content), file \in DOMAIN content, c \in Seq(Lines), t \in Seq(Lines),
           blocks \in Seq(Seq(Lines)) : At(before, file, c, t, blocks)
  BY <1>1 DEF LoadInv, ReadingInv
<1>3. c \o t = Flat(content)[file] /\ Ahead(t, stack, content)
  BY <1>2 DEF At
<1>4. Line \in Lines /\ Advanced \in Seq(Opened(content)) /\ Advanced # <<>>
  BY <1>1, <1>3, LineTaken
<1>5. CASE Line.file \notin DOMAIN content
  <2>1. stack' = Advanced /\ mode' = "crashed"
    BY <1>5 DEF do_include
  <2> QED
    BY <1>1, <1>4, <2>1 DEF LoadInv, LoadTypeInv, ReadingInv, OpenInv, IdleInv
<1>6. CASE Line.file \in DOMAIN content
  <2>1. stack' = myopen(Line.file, Advanced) /\ mode' = mode
    BY <1>6 DEF do_include
  <2>2. PICK u \in Seq(Lines) : Ahead(u, Advanced, content) /\ t = Flat(content)[Line.file] \o u
    <3>1. PICK u \in Seq(Lines) : Ahead(u, Advanced, content) /\ t = Shown(Line, Flat(content)) \o u
      BY <1>1, <1>3, LineTaken
    <3>2. Shown(Line, Flat(content)) = Flat(content)[Line.file]
      <4>1. DOMAIN Flat(content) = DOMAIN content
        BY <1>1, FlatIs
      <4> QED
        BY <1>6, <4>1 DEF Shown
    <3> QED
      BY <3>1, <3>2
  <2>3. stack' \in Seq(Opened(content)) /\ stack' # <<>> /\ Ahead(t, stack', content)
    BY <1>1, <1>4, <1>6, <2>1, <2>2, FileIncluded
  <2>4. At(before, file, c, t, blocks)'
    <3>1. /\ loaded' = Append(before, file) /\ Registered(titles', lists', BlocksOf(Flat(content'), before) \o blocks)
          /\ c \o t = Flat(content')[file]
          /\ Reading(c) = [open |-> IF mode' = "body" THEN text' ELSE <<>>,
                           blocks |-> IF mode' = "register" THEN Append(blocks, text') ELSE blocks]
      BY <1>2, <2>1 DEF At
    <3>2. Ahead(t, stack', content')
      BY <2>3
    <3> QED
      BY <3>1, <3>2 DEF At
  <2>5. ReadingInv'
    BY <2>4 DEF ReadingInv
  <2>6. LoadTypeInv' /\ IdleInv'
    BY <1>1, <2>1, <2>3 DEF LoadInv, LoadTypeInv, IdleInv
  <2>7. OpenInv'
    <3>1. Begun => Begun'
      BY BegunKept
    <3> QED
      BY <2>1, <2>3, <3>1 DEF LoadInv, OpenInv
  <2> QED
    BY <2>5, <2>6, <2>7 DEF LoadInv
<1> QED
  BY <1>5, <1>6

LEMMA ScanOtherStep == LoadInv /\ ScanOther => LoadInv'
<1> SUFFICES ASSUME LoadInv, ScanOther PROVE LoadInv'
  OBVIOUS
<1>1. /\ mode = "scan" /\ ~AtEnd /\ Line.k # "begin"
      /\ content' = content /\ titles' = titles /\ lists' = lists /\ groups' = groups /\ loaded' = loaded /\ text' = text /\ block' = block
  BY DEF ScanOther
<1>2. CASE Line.k = "include"
  <2>1. do_include(Line.file)
    BY <1>2 DEF ScanOther
  <2> QED
    BY <1>1, <1>2, <2>1, IncludeStep
<1>3. CASE Line.k # "include"
  <2>1. stack' = Advanced /\ mode' = "scan"
    BY <1>1, <1>3 DEF ScanOther
  <2>2. content \in Texts /\ loaded \in Seq(DOMAIN content) /\ groups \in Names /\ stack # <<>>
    BY <1>1 DEF LoadInv, LoadTypeInv, OpenInv
  <2>3. PICK before \in Seq(DOMAIN content), file \in DOMAIN content, c \in Seq(Lines), t \in Seq(Lines),
             blocks \in Seq(Seq(Lines)) : At(before, file, c, t, blocks)
    BY <1>1, <2>2 DEF LoadInv, ReadingInv
  <2>4. stack' \in Seq(Opened(content)) /\ stack' # <<>>
    BY <1>1, <1>3, <2>1, <2>2, <2>3, LineRead
  <2>5. PICK d \in Seq(Lines), u \in Seq(Lines) :
          /\ d \o u = Flat(content)[file] /\ Ahead(u, stack', content)
          /\ Reading(d) = ReadLine(Reading(c), Line)
    BY ZenonT(30), <1>1, <1>3, <2>1, <2>2, <2>3, LineRead
  <2>6. Reading(d) = [open |-> <<>>, blocks |-> blocks]
    <3>1. Reading(c) = [open |-> <<>>, blocks |-> blocks]
      BY <1>1, <2>3 DEF At
    <3> QED
      BY <1>1, <2>5, <3>1 DEF ReadLine
  <2>7. At(before, file, d, u, blocks)'
    <3>1. loaded' = Append(before, file) /\ Registered(titles', lists', BlocksOf(Flat(content'), before) \o blocks)
      BY <1>1, <2>3 DEF At
    <3>2. d \o u = Flat(content')[file] /\ Ahead(u, stack', content')
      BY <1>1, <2>5
    <3> QED
      BY <2>1, <2>6, <3>1, <3>2 DEF At
  <2>8. ReadingInv'
    BY <1>1, <2>7 DEF ReadingInv
  <2>9. LoadTypeInv' /\ IdleInv' /\ OpenInv'
    BY <1>1, <2>1, <2>2, <2>4 DEF LoadTypeInv, IdleInv, OpenInv
  <2> QED
    BY <2>8, <2>9 DEF LoadInv
<1> QED
  BY <1>2, <1>3

LEMMA BodyIncludeStep == LoadInv /\ BodyInclude => LoadInv'
<1> SUFFICES ASSUME LoadInv, BodyInclude PROVE LoadInv'
  OBVIOUS
<1> QED
  BY IncludeStep DEF BodyInclude

LEMMA ScanEndStep == LoadInv /\ ScanEnd => LoadInv'
<1> SUFFICES ASSUME LoadInv, ScanEnd PROVE LoadInv'
  OBVIOUS
<1>1. /\ mode = "scan" /\ AtEnd /\ stack' = Tail(stack)
      /\ mode' = IF stack' = <<>> THEN "idle" ELSE "scan"
      /\ content' = content /\ titles' = titles /\ lists' = lists /\ groups' = groups /\ loaded' = loaded
  BY DEF ScanEnd, myclose
<1>2. content \in Texts /\ loaded \in Seq(DOMAIN content) /\ groups \in Names /\ stack # <<>> /\ stack \in Seq(Opened(content))
  BY <1>1 DEF LoadInv, LoadTypeInv, OpenInv
<1>3. PICK before \in Seq(DOMAIN content), file \in DOMAIN content, c \in Seq(Lines), t \in Seq(Lines),
           blocks \in Seq(Seq(Lines)) : At(before, file, c, t, blocks)
  BY <1>1, <1>2 DEF LoadInv, ReadingInv
<1>4. c \o t = Flat(content)[file] /\ Ahead(t, stack, content) /\ loaded = Append(before, file)
  BY <1>3 DEF At
<1>5. stack' \in Seq(Opened(content)) /\ Ahead(t, stack', content)
  BY <1>1, <1>2, <1>4, FileClosed
<1>6. Reading(c) = [open |-> <<>>, blocks |-> blocks]
  BY <1>1, <1>3 DEF At
<1>7. LoadTypeInv'
  BY <1>1, <1>2, <1>5 DEF LoadTypeInv
<1>8. CASE stack' = <<>>
  <2>1. t = <<>>
    BY <1>5, <1>8, AheadNone
  <2>2. c = Flat(content)[file]
    BY <1>4, <2>1, ConcatEmptySeq
  <2>3. BlocksOf(Flat(content), loaded) = BlocksOf(Flat(content), before) \o blocks
    <3>1. Flat(content) \in [DOMAIN content -> Seq(Lines)]
      BY <1>2, FlatIs
    <3>2. BlocksOf(Flat(content), Append(before, file)) = BlocksOf(Flat(content), before) \o Reading(c).blocks
      BY <2>2, <3>1, BlocksOfNext
    <3> QED
      BY <1>4, <1>6, <3>2
  <2>4. Registered(titles', lists', Read')
    <3>1. Registered(titles, lists, BlocksOf(Flat(content), before) \o blocks)
      BY <1>3 DEF At
    <3>2. Read' = BlocksOf(Flat(content), loaded)
      BY <1>1 DEF Read
    <3> QED
      BY <1>1, <2>3, <3>1, <3>2
  <2>5. IdleInv' /\ OpenInv' /\ ReadingInv'
    BY <1>1, <1>8, <2>4 DEF IdleInv, OpenInv, ReadingInv
  <2> QED
    BY <1>7, <2>5 DEF LoadInv
<1>9. CASE stack' # <<>>
  <2>1. At(before, file, c, t, blocks)'
    <3>1. loaded' = Append(before, file) /\ Registered(titles', lists', BlocksOf(Flat(content'), before) \o blocks)
      BY <1>1, <1>3 DEF At
    <3>2. c \o t = Flat(content')[file] /\ Ahead(t, stack', content')
      BY <1>1, <1>4, <1>5
    <3> QED
      BY <1>1, <1>6, <1>9, <3>1, <3>2 DEF At
  <2>2. ReadingInv'
    BY <1>1, <2>1 DEF ReadingInv
  <2>3. IdleInv' /\ OpenInv'
    BY <1>1, <1>9 DEF IdleInv, OpenInv
  <2> QED
    BY <1>7, <2>2, <2>3 DEF LoadInv
<1> QED
  BY <1>8, <1>9

LEMMA BodyLineStep == LoadInv /\ BodyLine => LoadInv'
<1> SUFFICES ASSUME LoadInv, BodyLine PROVE LoadInv'
  OBVIOUS
<1>1. /\ mode = "body" /\ ~AtEnd /\ Line.k # "include"
      /\ text' = Append(text, Line) /\ stack' = Advanced /\ block' = block
      /\ mode' = IF EndsBlock(Line) THEN "register" ELSE "body"
      /\ content' = content /\ titles' = titles /\ lists' = lists /\ groups' = groups /\ loaded' = loaded
  BY DEF BodyLine
<1>2. /\ content \in Texts /\ loaded \in Seq(DOMAIN content) /\ groups \in Names /\ stack # <<>>
      /\ text # <<>> /\ Begun /\ block = BlockOf(text)
  BY <1>1 DEF LoadInv, LoadTypeInv, OpenInv, Begun
<1>3. PICK before \in Seq(DOMAIN content), file \in DOMAIN content, c \in Seq(Lines), t \in Seq(Lines),
           blocks \in Seq(Seq(Lines)) : At(before, file, c, t, blocks)
  BY <1>1, <1>2 DEF LoadInv, ReadingInv
<1>4. /\ Line \in Lines /\ stack' \in Seq(Opened(content)) /\ stack' # <<>>
      /\ Reading(c) \in ReaderStates
  BY <1>1, <1>2, <1>3, LineRead
<1>5. PICK d \in Seq(Lines), u \in Seq(Lines) :
        /\ d \o u = Flat(content)[file] /\ Ahead(u, stack', content)
        /\ Reading(d) = ReadLine(Reading(c), Line)
  BY ZenonT(30), <1>1, <1>2, <1>3, LineRead
<1>6. Reading(c) = [open |-> text, blocks |-> blocks]
  BY <1>1, <1>3 DEF At
<1>7. text \in Seq(Lines) /\ text' \in Seq(Lines) /\ text' # <<>> /\ text'[1] = text[1]
  <2>1. text \in Seq(Lines)
    BY <1>4, <1>6 DEF ReaderStates
  <2>2. text' \in Seq(Lines) /\ text' # <<>>
    BY <1>1, <1>4, <2>1, AppendProperties
  <2>3. text'[1] = text[1]
    <3>1. 1 \in 1 .. Len(text)
      BY <1>2, <2>1
    <3> QED
      BY <1>1, <1>4, <2>1, <3>1
  <2> QED
    BY <2>1, <2>2, <2>3
<1>8. Reading(d) = [open |-> IF mode' = "body" THEN text' ELSE <<>>,
                    blocks |-> IF mode' = "register" THEN Append(blocks, text') ELSE blocks]
  <2>1. CASE EndsBlock(Line)
    <3>1. Line.k = "end" /\ Line.type = BlockOf(text)[1]
      BY <1>2, <2>1 DEF EndsBlock
    <3>2. Reading(d) = [open |-> <<>>, blocks |-> Append(blocks, text')]
      BY <1>1, <1>2, <1>5, <1>6, <3>1 DEF ReadLine
    <3> QED
      BY <1>1, <2>1, <3>2
  <2>2. CASE ~EndsBlock(Line)
    <3>1. ~(Line.k = "end" /\ Line.type = BlockOf(text)[1])
      BY <1>2, <2>2 DEF EndsBlock
    <3>2. ReadLine(Reading(c), Line) = [Reading(c) EXCEPT !.open = Append(text, Line)]
      BY <1>2, <1>6, <3>1 DEF ReadLine
    <3>3. [Reading(c) EXCEPT !.open = Append(text, Line)] = [open |-> Append(text, Line), blocks |-> blocks]
      <4>1. PICK new : new = Append(text, Line)
        OBVIOUS
      <4>2. [[open |-> text, blocks |-> blocks] EXCEPT !.open = new] = [open |-> new, blocks |-> blocks]
        OBVIOUS
      <4> QED
        BY <1>6, <4>1, <4>2
    <3>4. Reading(d) = [open |-> text', blocks |-> blocks]
      BY <1>1, <1>5, <3>2, <3>3
    <3> QED
      BY <1>1, <2>2, <3>4
  <2> QED
    BY <2>1, <2>2
<1>9. At(before, file, d, u, blocks)'
  <2>1. loaded' = Append(before, file) /\ Registered(titles', lists', BlocksOf(Flat(content'), before) \o blocks)
    BY <1>1, <1>3 DEF At
  <2>2. d \o u = Flat(content')[file] /\ Ahead(u, stack', content')
    BY <1>1, <1>5
  <2> QED
    BY <1>8, <2>1, <2>2 DEF At
<1>10. ReadingInv'
  BY <1>1, <1>9 DEF ReadingInv
<1>11. LoadTypeInv' /\ IdleInv'
  BY <1>1, <1>2, <1>4 DEF LoadTypeInv, IdleInv
<1>12. OpenInv'
  <2>1. Begun'
    <3>1. BlockOf(text') = BlockOf(text) /\ NamedBy(text') = NamedBy(text)
      BY <1>7 DEF BlockOf, NamedBy
    <3>2. GroupList' = GroupList
      BY <1>1 DEF GroupList
    <3> QED
      BY <1>1, <1>2, <1>7, <3>1, <3>2 DEF Begun
  <2> QED
    BY <1>1, <1>4, <1>7, <2>1 DEF OpenInv
<1> QED
  BY <1>10, <1>11, <1>12 DEF LoadInv

LEMMA BodyEndStep == LoadInv /\ BodyEnd => LoadInv'
<1> SUFFICES ASSUME LoadInv, BodyEnd PROVE LoadInv'
  OBVIOUS
<1>1. /\ mode = "body" /\ AtEnd /\ stack' = Tail(stack) /\ block' = block
      /\ IF stack' = <<>> THEN mode' = "register" ELSE mode' = mode /\ text' = text
      /\ content' = content /\ titles' = titles /\ lists' = lists /\ groups' = groups /\ loaded' = loaded
  BY DEF BodyEnd, myclose
<1>2. /\ content \in Texts /\ loaded \in Seq(DOMAIN content) /\ groups \in Names /\ stack # <<>> /\ stack \in Seq(Opened(content))
      /\ text # <<>> /\ Begun
  BY <1>1 DEF LoadInv, LoadTypeInv, OpenInv
<1>3. PICK before \in Seq(DOMAIN content), file \in DOMAIN content, c \in Seq(Lines), t \in Seq(Lines),
           blocks \in Seq(Seq(Lines)) : At(before, file, c, t, blocks)
  BY <1>1, <1>2 DEF LoadInv, ReadingInv
<1>4. c \o t = Flat(content)[file] /\ Ahead(t, stack, content)
  BY <1>3 DEF At
<1>5. stack' \in Seq(Opened(content)) /\ Ahead(t, stack', content)
  BY <1>1, <1>2, <1>4, FileClosed
<1>6. LoadTypeInv' /\ IdleInv'
  BY <1>1, <1>2, <1>5 DEF LoadTypeInv, IdleInv
<1>7. CASE stack' = <<>>
  BY <1>1, <1>6, <1>7 DEF LoadInv, ReadingInv, OpenInv
<1>8. CASE stack' # <<>>
  <2>1. At(before, file, c, t, blocks)'
    <3>1. /\ loaded' = Append(before, file) /\ Registered(titles', lists', BlocksOf(Flat(content'), before) \o blocks)
          /\ Reading(c) = [open |-> IF mode' = "body" THEN text' ELSE <<>>,
                           blocks |-> IF mode' = "register" THEN Append(blocks, text') ELSE blocks]
      BY <1>1, <1>3, <1>8 DEF At
    <3>2. c \o t = Flat(content')[file] /\ Ahead(t, stack', content')
      BY <1>1, <1>4, <1>5
    <3> QED
      BY <3>1, <3>2 DEF At
  <2>2. Begun'
    BY <1>1, <1>2, <1>8, BegunKept
  <2>3. ReadingInv' /\ OpenInv'
    BY <1>1, <1>2, <1>8, <2>1, <2>2 DEF ReadingInv, OpenInv
  <2> QED
    BY <1>6, <2>3 DEF LoadInv
<1> QED
  BY <1>7, <1>8

LEMMA RegisterStep == LoadInv /\ Register => LoadInv'
<1> SUFFICES ASSUME LoadInv, Register PROVE LoadInv'
  OBVIOUS
<1>1. /\ mode = "register" /\ stack' = stack /\ content' = content /\ loaded' = loaded
      /\ text' = text /\ block' = block /\ groups' = groups
      /\ titles' = [b \in DOMAIN titles \cup {block} |-> IF b = block THEN text ELSE titles[b]]
      /\ lists' = [g \in DOMAIN lists \cup GroupList |->
                     IF g \in GroupList THEN AddedToList(IF g \in DOMAIN lists THEN lists[g] ELSE <<>>, block)
                     ELSE lists[g]]
      /\ mode' = IF stack = <<>> THEN "crashed" ELSE "scan"
  BY DEF Register, ListOf
<1>2. content \in Texts /\ loaded \in Seq(DOMAIN content) /\ groups \in Names /\ stack \in Seq(Opened(content))
  BY DEF LoadInv, LoadTypeInv
<1>3. LoadTypeInv' /\ IdleInv'
  BY <1>1, <1>2 DEF LoadTypeInv, IdleInv
<1>4. CASE stack = <<>>
  BY <1>1, <1>3, <1>4 DEF LoadInv, ReadingInv, OpenInv
<1>5. CASE stack # <<>>
  <2>1. /\ text \in Seq(Lines) /\ block = BlockOf(text) /\ BlockOf(text) \in BlockNames
        /\ BareGroup \notin ToSet(text[1].toks) => GroupList = NamedBy(text)
    BY <1>1, <1>5 DEF LoadInv, OpenInv, Begun
  <2>2. PICK before \in Seq(DOMAIN content), file \in DOMAIN content, c \in Seq(Lines), t \in Seq(Lines),
             blocks \in Seq(Seq(Lines)) : At(before, file, c, t, blocks)
    BY <1>1, <1>5 DEF LoadInv, ReadingInv
  <2>3. PICK more \in Seq(Seq(Lines)) : more = Append(blocks, text)
    BY <2>1, AppendProperties
  <2>4. BlocksOf(Flat(content), before) \in Seq(Seq(Lines))
    BY <1>2, FlatIs, BlocksOfNext
  <2>5. Registered(titles', lists', BlocksOf(Flat(content), before) \o more)
    <3>1. PICK x \in Seq(Seq(Lines)) : x = BlocksOf(Flat(content), before)
      BY <2>4
    <3>2. x \o blocks \in Seq(Seq(Lines))
      BY ConcatProperties
    <3>3. TitlesAre(titles, x \o blocks) /\ GroupsAre(lists, x \o blocks)
      BY <2>2, <3>1 DEF At, Registered
    <3>4. TitlesAre(titles', Append(x \o blocks, text))
      BY <1>1, <2>1, <3>2, <3>3, TitlesNext
    <3>5. GroupsAre(lists', Append(x \o blocks, text))
      BY <1>1, <2>1, <3>2, <3>3, GroupsNext
    <3>6. Append(x \o blocks, text) = x \o Append(blocks, text)
      <4>1. <<text>> \in Seq(Seq(Lines))
        BY <2>1
      <4>2. Append(x \o blocks, text) = (x \o blocks) \o <<text>> /\ Append(blocks, text) = blocks \o <<text>>
        BY <2>1, <3>2, AppendIsConcat
      <4>3. PICK one \in Seq(Seq(Lines)) : one = <<text>>
        BY <4>1
      <4>4. (x \o blocks) \o one = x \o (blocks \o one)
        BY SMTT(30), ConcatAssociative
      <4> QED
        BY <4>2, <4>3, <4>4
    <3> QED
      BY <2>3, <3>1, <3>4, <3>5, <3>6 DEF Registered
  <2>6. At(before, file, c, t, more)'
    <3>1. /\ loaded' = Append(before, file) /\ c \o t = Flat(content')[file] /\ Ahead(t, stack', content')
          /\ Reading(c) = [open |-> <<>>, blocks |-> more]
      BY <1>1, <2>2, <2>3 DEF At
    <3>2. mode' # "body" /\ mode' # "register" /\ Registered(titles', lists', BlocksOf(Flat(content'), before) \o more)
      BY <1>1, <2>5
    <3> QED
      BY <3>1, <3>2 DEF At
  <2>7. ReadingInv' /\ OpenInv'
    BY <1>1, <1>5, <2>6 DEF ReadingInv, OpenInv
  <2> QED
    BY <1>3, <2>7 DEF LoadInv
<1> QED
  BY <1>4, <1>5

LEMMA LoadKept == LoadInv /\ UNCHANGED loadVars => LoadInv'
<1> SUFFICES ASSUME LoadInv, UNCHANGED loadVars PROVE LoadInv'
  OBVIOUS
<1>1. UNCHANGED <<content, stack, mode, text, block, groups, titles, lists, loaded>>
  BY DEF loadVars
<1>2. LoadTypeInv' /\ OpenInv'
  <2>1. Begun => Begun'
    BY <1>1, BegunKept
  <2> QED
    BY <1>1, <2>1 DEF LoadInv, LoadTypeInv, OpenInv
<1>3. Read' = Read
  BY <1>1 DEF Read
<1>4. IdleInv'
  BY <1>1, <1>3 DEF LoadInv, IdleInv
<1>5. \A before, file, c, t, blocks : At(before, file, c, t, blocks) => At(before, file, c, t, blocks)'
  BY <1>1 DEF At
<1>6. ReadingInv'
  BY <1>1, <1>5 DEF LoadInv, ReadingInv
<1> QED
  BY <1>2, <1>4, <1>6 DEF LoadInv

LEMMA LoadHolds == LoadSpec => []LoadInv
<1>1. LoadInit => LoadInv
  BY LoadBegins
<1>2. LoadInv /\ [LoadNext]_loadVars => LoadInv'
  <2> SUFFICES ASSUME LoadInv, [LoadNext]_loadVars PROVE LoadInv'
    OBVIOUS
  <2>1. CASE UNCHANGED loadVars
    BY <2>1, LoadKept
  <2>2. CASE LoadNext
    BY <2>2, LoadKept, LoadStep, ScanBeginStep, ScanOtherStep, ScanEndStep, BodyIncludeStep,
       BodyLineStep, BodyEndStep, RegisterStep DEF LoadNext, Done
  <2> QED
    BY <2>1, <2>2
<1> QED
  BY <1>1, <1>2, PTL DEF LoadSpec

LEMMA ReadType ==
  ASSUME content \in Texts, loaded \in Seq(DOMAIN content)
  PROVE  Read \in Seq(Seq(Lines))
<1>1. Flat(content) \in [DOMAIN content -> Seq(Lines)]
  BY FlatIs
<1>2. CASE DOMAIN content = {}
  <2>1. loaded = <<>>
    BY <1>2
  <2>2. <<>> \in Seq(Seq(Lines))
    OBVIOUS
  <2> QED
    BY <1>1, <2>1, <2>2, BlocksOfNone DEF Read
<1>3. CASE DOMAIN content # {}
  BY <1>1, <1>3, BlocksOfNext DEF Read
<1> QED
  BY <1>2, <1>3

\* Between loads the titles are the blocks of the texts, whatever the files are, how
\* far they include one another, and how often and in which order they are loaded
\* (thLoad and getblock, thLoad.c:264-311 and 408-646).
THEOREM TitlesAsWritten == LoadSpec => []LoadedIsFlat
<1>1. LoadInv => LoadedIsFlat
  <2> SUFFICES ASSUME LoadInv, mode = "idle" PROVE
          /\ DOMAIN titles = {BlockOf(Read[i]) : i \in DOMAIN Read}
          /\ \A b \in DOMAIN titles : titles[b] = Read[LastOf(b, Read)]
    BY DEF LoadedIsFlat
  <2>1. PICK read \in Seq(Seq(Lines)) : read = Read
    BY ReadType DEF LoadInv, LoadTypeInv
  <2>2. TitlesAre(titles, read)
    BY <2>1 DEF LoadInv, IdleInv, Registered
  <2>3. DOMAIN titles = {BlockOf(read[i]) : i \in DOMAIN read}
    BY <2>2 DEF TitlesAre
  <2>4. \A b \in DOMAIN titles : titles[b] = read[LastOf(b, read)]
    BY <2>2, TitlesLast
  <2> QED
    BY <2>1, <2>3, <2>4
<1> QED
  BY <1>1, LoadHolds, PTL

\* Between loads every group lists the blocks that were put in it, once and in the
\* order in which they first were, whatever the begin lines name and whatever the
\* array of names had before (getblock, thLoad.c:501-578; thLoad, 307-337;
\* thAddVarToList, thUtils.c:848-867).
THEOREM GroupsAsNamed == LoadSpec => []GroupsInOrder
<1>1. LoadInv => GroupsInOrder
  <2> SUFFICES ASSUME LoadInv, mode = "idle" PROVE
          /\ \A i \in DOMAIN Read : Plain(BlockOf(Read[i]), Read) => NamedBy(Read[i]) \subseteq DOMAIN lists
          /\ \A g \in DOMAIN lists : HasInOrder(lists[g], g, Read)
    BY DEF GroupsInOrder
  <2>1. GroupsAre(lists, Read)
    BY DEF LoadInv, IdleInv, Registered
  <2> QED
    BY <2>1 DEF GroupsAre
<1> QED
  BY <1>1, LoadHolds, PTL
=============================================================================
