----------------------------- MODULE CtpBlocks -----------------------------
(***************************************************************************)
(* The life of the test and histogram blocks of CTP.  thLoad gives a block *)
(* its title and marks it as not booked; thBook (thGroup.c) calls the hook *)
(* of the class of every block that is not booked: thBookTests compiles    *)
(* the lines and lists their results, thBookHists creates the HBOOK        *)
(* histograms.  For every event the engine then executes the test blocks,  *)
(* adds the flags to their scalers and fills the histograms                *)
(* (ENGINE/g_keep_results.f).  A block may be loaded again at any time and *)
(* is booked anew.  The test lines are reduced to a copy of an input (they *)
(* are the subject of TestExpr), the reading of files to the blocks they   *)
(* give (CtpLoad), HBOOK to its set of histograms.                         *)
(***************************************************************************)
EXTENDS Naturals, Sequences, SequencesExt, FiniteSets

CONSTANTS TestBlocks, HistBlocks,  \* <<class, name>>, of the classes "test", and "hist" and "uhist"
          Titles,                  \* the titles a block may have, a function of the block
          Inputs,                  \* the event variables the test lines read
          MaxLoads, MaxEvents      \* bounds: blocks loaded, events analyzed

\* The lines.  A source that is neither an input nor a flag is not registered,
\* and stands for zero.
Test(dst, src, neg) == [dst |-> dst, src |-> src, neg |-> neg]
Hist(h, user, test, nx) == [h |-> h, user |-> user, test |-> test, nx |-> nx]
TestLines == [dst : STRING, src : STRING, neg : BOOLEAN]
HistLines == [h : STRING, user : BOOLEAN, test : STRING, nx : Nat]
NoTest == "none"
Zero == "0"
NoDef == <<>>
NotBooked == <<>>
Blocks == TestBlocks \cup HistBlocks

ASSUME CtpBlocksAssumption ==
  /\ Zero \notin Inputs
  /\ \A b \in TestBlocks : b[1] = "test" /\ Titles[b] \subseteq Seq(TestLines)
  /\ \A b \in HistBlocks : b[1] \in {"hist", "uhist"} /\ Titles[b] \subseteq Seq(HistLines)

VARIABLES
  phase,     \* "setup", "ready", and in an event "tested" and "counted"
  list,      \* the blocks of each class, in the order they were first loaded
  title, varptr,   \* of a block: title, and <<number of executions>> or NotBooked
  code, vlist,     \* of a test block: the compiled lines and the results
  flag, scaler,    \* the registered flags and their scalers
  specs,     \* opaque of a histogram block: [p |-> "null", "list" or "freed", of |-> histograms]
  hblocks,   \* thHBlockListP
  hvar,      \* hist.NAME: the identifier, and the definition if it is filled by CTP
  hbook,     \* the histograms of HBOOK: entries and bins by identifier
  maxID,     \* thMaxID
  cache,     \* thLastIdRhandled and the static copy of the bins
  undefined, \* freed memory was read or a null pointer followed
  taken,     \* history: the lines of a block, by number, whose source or test was registered
             \* when they were booked
  dueS, dueH,  \* history: what scalers and histograms should hold
  shared,    \* history: names that two blocks, as booked, gave at a time, or two lines of one
  loads, events

tests == <<code, vlist, flag, scaler>>
hists == <<specs, hblocks, hvar, hbook, maxID, cache>>
history == <<taken, dueS, dueH, shared>>
vars == <<phase, list, title, varptr, tests, hists, undefined, history, loads, events>>

Empty == [x \in {} |-> 0]
With(f, x, v) == [y \in DOMAIN f \cup {x} |-> IF y = x THEN v ELSE f[y]]
Without(f, S) == [y \in DOMAIN f \ S |-> f[y]]
Held(f, x) == IF x \in DOMAIN f THEN f[x] ELSE 0

Init ==
  /\ phase = "setup"
  /\ list = [c \in {"test", "hist", "uhist"} |-> <<>>]
  /\ title = [b \in Blocks |-> <<>>] /\ varptr = [b \in Blocks |-> NotBooked]
  /\ code = [b \in TestBlocks |-> <<>>] /\ vlist = [b \in TestBlocks |-> <<>>]
  /\ flag = Empty /\ scaler = Empty
  /\ specs = [b \in HistBlocks |-> [p |-> "null", of |-> <<>>]]
  /\ hblocks = <<>> /\ hvar = Empty /\ hbook = Empty /\ maxID = 0
  /\ cache = [id |-> 0, nx |-> 0]
  /\ undefined = FALSE
  /\ taken = [b \in Blocks |-> {}] /\ dueS = Empty /\ dueH = Empty /\ shared = {}
  /\ loads = 0 /\ events = 0

thAddVarToList(seq, x) == IF x \in ToSet(seq) THEN seq ELSE Append(seq, x)

\* thLoad: the block is as one that was never booked, but for its opaque
Load(b) ==
  /\ phase \in {"setup", "ready"} /\ loads < MaxLoads
  /\ \E t \in Titles[b] : title' = [title EXCEPT ![b] = t]
  /\ varptr' = [varptr EXCEPT ![b] = NotBooked]
  /\ list' = [list EXCEPT ![b[1]] = thAddVarToList(@, b)]
  /\ phase' = "setup"
  /\ loads' = loads + 1
  /\ UNCHANGED <<tests, hists, undefined, history, events>>

-----------------------------------------------------------------------------
(* Booking a block of tests. *)

\* (slip) the scaler of a flag that exists goes on
OldScaler(acc, f) == With(acc.scaler, f, Held(acc.scaler, f))
\* A result, created if there is none, has its scaler zeroed
ZeroScaler(acc, f) == With(acc.scaler, f, 0)

\* A new flag is an uninitialized word
NewFlag(flags, f, junk) == IF f \in DOMAIN flags THEN flags ELSE With(flags, f, junk)

\* The result comes before the source.  A source that is not registered is
\* reported and compiled as the number zero, and stays so.
Resolved(flags, line) == line.src \in Inputs \cup DOMAIN flags
WithZero(line) == [line EXCEPT !.src = Zero]

thBookaTest(acc, line, junk) ==
  LET flags == NewFlag(acc.flag, line.dst, junk)
  IN [code |-> Append(acc.code, IF Resolved(flags, line) THEN line ELSE WithZero(line)),
      vlist |-> thAddVarToList(acc.vlist, line.dst),
      flag |-> flags,
      scaler |-> ZeroScaler(acc, line.dst)]

\* The block, line by line
BookedTests(b, junk) ==
  LET acc[i \in 0 .. Len(title[b])] ==
        IF i = 0 THEN [code |-> <<>>, vlist |-> <<>>, flag |-> flag, scaler |-> scaler]
        ELSE thBookaTest(acc[i - 1], title[b][i], junk)
  IN acc

Flags(b) == {title[b][i].dst : i \in DOMAIN title[b]}
OtherFlags(b) == UNION {Flags(c) : c \in {c \in TestBlocks \ {b} : varptr[c] # NotBooked}}

thBookTests(b) ==
  \E junk \in {0, 1} : \E acc \in {BookedTests(b, junk)} : \E end \in {acc[Len(title[b])]} :
    /\ code' = [code EXCEPT ![b] = end.code]
    /\ vlist' = [vlist EXCEPT ![b] = end.vlist]
    /\ flag' = end.flag /\ scaler' = end.scaler
    /\ taken' = [taken EXCEPT ![b] = {i \in DOMAIN title[b] : Resolved(acc[i].flag, title[b][i])}]
    /\ dueS' = [f \in DOMAIN end.flag |-> IF f \in Flags(b) THEN 0 ELSE Held(dueS, f)]
    /\ shared' = shared \cup (Flags(b) \cap OtherFlags(b))
    /\ UNCHANGED <<hists, undefined, dueH>>

-----------------------------------------------------------------------------
(* Booking a block of histograms. *)

\* The old histograms of the block are deleted, with its entry in the list of
\* blocks, which is found by the name without the class
thRemoveHists(b) ==
  LET found == SelectInSeq(hblocks, LAMBDA c : c[2] = b[2])
      c == hblocks[found]
  IN IF specs[b].p = "null" \/ found = 0
     THEN [specs |-> specs, hblocks |-> hblocks, hbook |-> hbook, undefined |-> undefined]
     ELSE [specs |-> [specs EXCEPT ![c].p = "freed"],
           hblocks |-> RemoveAt(hblocks, found),
           hbook |-> Without(hbook, {hvar[h].id : h \in ToSet(specs[c].of)}),
           undefined |-> undefined \/ specs[c].p = "freed"]

CanBook(line) == line.user \/ line.test = NoTest \/ line.test \in DOMAIN flag

\* (slip) the definition of a histogram that exists is left
FirstDefinition(old, line) == IF old = NoDef THEN <<line.test>> ELSE old
\* The definition of a line that CTP fills replaces any other
Definition(old, line) == <<line.test>>

\* A new histogram gets the next identifier, and so does one whose identifier
\* HBOOK still knows.  The definition of an existing one is overwritten, in
\* memory that a histogram filled by the user does not have.
thBookaHist(acc, line) ==
  IF ~CanBook(line) THEN acc
  ELSE LET new == line.h \notin DOMAIN acc.hvar
           old == IF new THEN [id |-> acc.maxID + 1, def |-> NoDef] ELSE acc.hvar[line.h]
           first == IF new THEN acc.maxID + 1 ELSE acc.maxID
           exists == old.id \in DOMAIN acc.hbook
           id == IF exists THEN first + 1 ELSE old.id
       IN [of |-> Append(acc.of, line.h),
           maxID |-> IF exists THEN first + 1 ELSE first,
           hvar |-> With(acc.hvar, line.h,
                         [id |-> id, def |-> IF line.user THEN old.def ELSE Definition(old.def, line)]),
           hbook |-> With(acc.hbook, id, [n |-> 0, nx |-> line.nx]),
           undefined |-> acc.undefined \/ (~line.user /\ ~new /\ old.def = NoDef)]

\* (slip) nothing to forget
KeepCache(c) == c
thHistZeroLastId(c) == [c EXCEPT !.id = 0]

BookedHists(b, rem) ==
  LET acc[i \in 0 .. Len(title[b])] ==
        IF i = 0 THEN [of |-> <<>>, maxID |-> maxID, hvar |-> hvar, hbook |-> rem.hbook, undefined |-> rem.undefined]
        ELSE thBookaHist(acc[i - 1], title[b][i])
  IN acc[Len(title[b])]

Named(b, S) == {title[b][i].h : i \in S}
Twice(b, S) == {title[b][i].h : i \in {i \in S : \E j \in S : j < i /\ title[b][j].h = title[b][i].h}}
OtherHists(b) == UNION {ToSet(specs[c].of) : c \in HistBlocks \ {b}}

\* With no line that can be booked the pointer to the old list stays
thBookHists(b) ==
  \E rem \in {thRemoveHists(b)}, S \in {{i \in DOMAIN title[b] : CanBook(title[b][i])}} :
  \E end \in {BookedHists(b, rem)} :
    /\ specs' = IF end.of = <<>> THEN rem.specs
                ELSE [rem.specs EXCEPT ![b] = [p |-> "list", of |-> end.of]]
    /\ hblocks' = thAddVarToList(rem.hblocks, b)
    /\ hvar' = end.hvar /\ hbook' = end.hbook /\ maxID' = end.maxID
    /\ cache' = thHistZeroLastId(cache)
    /\ undefined' = end.undefined
    /\ taken' = [taken EXCEPT ![b] = S]
    /\ dueH' = [h \in DOMAIN end.hvar |-> IF h \in Named(b, S) THEN 0 ELSE Held(dueH, h)]
    /\ shared' = shared \cup Twice(b, S) \cup (Named(b, S) \cap OtherHists(b))
    /\ UNCHANGED <<tests, dueS>>

-----------------------------------------------------------------------------
\* thBook: class by class, the blocks in the order of the files, only those
\* that are not booked
Order == list["test"] \o list["hist"] \o list["uhist"]
ToBook == {i \in DOMAIN Order : varptr[Order[i]] = NotBooked}

thBookGroup ==
  /\ phase = "setup"
  /\ \E i \in ToBook :
       /\ \A j \in ToBook : i <= j
       /\ varptr' = [varptr EXCEPT ![Order[i]] = <<0>>]
       /\ IF Order[i] \in TestBlocks THEN thBookTests(Order[i]) ELSE thBookHists(Order[i])
  /\ UNCHANGED <<phase, list, title, loads, events>>

Booked ==
  /\ phase = "setup" /\ ToBook = {} /\ loads > 0
  /\ phase' = "ready"
  /\ UNCHANGED <<list, title, varptr, tests, hists, undefined, history, loads, events>>

Run(flags, line, x) ==
  LET v == IF line.src \in Inputs THEN x[line.src] ELSE IF line.src = Zero THEN 0 ELSE flags[line.src]
  IN [flags EXCEPT ![line.dst] = IF line.neg THEN 1 - v ELSE v]

RunLines(flags, lines, x) ==
  LET after[i \in 0 .. Len(lines)] == IF i = 0 THEN flags ELSE Run(after[i - 1], lines[i], x)
  IN after[Len(lines)]

RunBlocks(of, x) ==
  LET after[i \in 0 .. Len(list["test"])] ==
        IF i = 0 THEN flag ELSE RunLines(after[i - 1], of[list["test"][i]], x)
  IN after[Len(list["test"])]

Counted(class) == [b \in Blocks |-> IF b[1] = class /\ varptr[b] # NotBooked THEN <<varptr[b][1] + 1>> ELSE varptr[b]]

\* The lines of a title, as they were booked
BookedLines(b) ==
  [i \in DOMAIN title[b] |-> IF i \in taken[b] THEN title[b][i] ELSE WithZero(title[b][i])]

\* What the flags should be, from the titles
TitleFlags(x) == RunBlocks([b \in TestBlocks |-> BookedLines(b)], x)

\* The flags the titles give, and the lines that fill a histogram
Given == UNION {Flags(b) : b \in ToSet(list["test"])}
Fillers(h, S) == UNION {{<<b, i>> : i \in {i \in taken[b] : title[b][i].h = h /\ ~title[b][i].user}} : b \in S}

\* thtstexeg
ExecuteTests(x) ==
  /\ phase = "ready" /\ events < MaxEvents
  /\ flag' = RunBlocks(code, x)
  /\ varptr' = Counted("test")
  /\ events' = events + 1
  /\ phase' = "tested"
  /\ \E ref \in {TitleFlags(x)} :
       /\ dueS' = [f \in DOMAIN dueS |-> dueS[f] + (IF f \in Given THEN ref[f] ELSE 0)]
       /\ dueH' = [h \in DOMAIN dueH |->
                     dueH[h] + Cardinality({e \in Fillers(h, ToSet(list["hist"])) :
                       \E test \in {title[e[1]][e[2]].test} : test = NoTest \/ ref[test] = 1})]
  /\ UNCHANGED <<list, title, code, vlist, scaler, hists, undefined, taken, shared, loads>>

\* thtstinsg
IncrementScalers ==
  /\ phase = "tested"
  /\ scaler' = [f \in DOMAIN scaler |->
                  scaler[f] + flag[f] * Cardinality({b \in ToSet(list["test"]) : f \in ToSet(vlist[b])})]
  /\ phase' = "counted"
  /\ UNCHANGED <<list, title, varptr, code, vlist, flag, hists, undefined, history, loads, events>>

\* thExecuteaHist
Fills(h) ==
  /\ hvar[h].def # NoDef
  /\ hvar[h].def[1] = NoTest \/ flag[hvar[h].def[1]] # 0

\* The entries of the lists of some blocks
Entries(blocks) == UNION {{<<b, i>> : i \in DOMAIN specs[b].of} : b \in ToSet(blocks)}
NameOf(e) == specs[e[1]].of[e[2]]

\* HF1 for each entry of the lists; HBOOK refuses an identifier it does not know
Filled(blocks) ==
  [id \in DOMAIN hbook |->
     [hbook[id] EXCEPT !.n = @ + Cardinality({e \in Entries(blocks) : hvar[NameOf(e)].id = id /\ Fills(NameOf(e))})]]

Dangling(blocks) == \E b \in ToSet(blocks) : specs[b].p = "freed"

\* thhstexeg, for the class "hist" only
ExecuteHists ==
  /\ phase = "counted"
  /\ hbook' = Filled(list["hist"])
  /\ varptr' = Counted("hist")
  /\ undefined' = (undefined \/ Dangling(list["hist"]))
  /\ phase' = "ready"
  /\ UNCHANGED <<list, title, tests, specs, hblocks, hvar, maxID, cache, history, loads, events>>

\* thtstclrg, thtstclsg and thhstclrg
Results == UNION {ToSet(vlist[b]) : b \in ToSet(list["test"])}

thClearTestFlags ==
  /\ phase = "ready"
  /\ flag' = [f \in DOMAIN flag |-> IF f \in Results THEN 0 ELSE flag[f]]
  /\ UNCHANGED <<phase, list, title, varptr, code, vlist, scaler, hists, undefined, history, loads, events>>

thClearTestScalers ==
  /\ phase = "ready"
  /\ scaler' = [f \in DOMAIN scaler |-> IF f \in Results THEN 0 ELSE scaler[f]]
  /\ dueS' = [f \in DOMAIN dueS |-> IF f \in Given THEN 0 ELSE dueS[f]]
  /\ UNCHANGED <<phase, list, title, varptr, code, vlist, flag, hists, undefined, taken, dueH, shared, loads, events>>

thClearHists ==
  /\ phase = "ready"
  /\ \E ids \in {{hvar[NameOf(e)].id : e \in Entries(list["hist"])}} :
       hbook' = [id \in DOMAIN hbook |-> IF id \in ids THEN [hbook[id] EXCEPT !.n = 0] ELSE hbook[id]]
  /\ varptr' = [b \in Blocks |-> IF b[1] = "hist" /\ varptr[b] # NotBooked THEN <<0>> ELSE varptr[b]]
  /\ undefined' = (undefined \/ Dangling(list["hist"]))
  /\ dueH' = [h \in DOMAIN dueH |-> IF \E b \in ToSet(list["hist"]) : h \in Named(b, taken[b]) THEN 0 ELSE dueH[h]]
  /\ UNCHANGED <<phase, list, title, tests, specs, hblocks, hvar, maxID, cache, taken, dueS, shared, loads, events>>

\* thHistRHandler answers a client from the bins of the last histogram asked for
thHistRHandler(h) ==
  /\ phase = "ready" /\ cache.id # hvar[h].id
  /\ cache' = [id |-> hvar[h].id, nx |-> IF hvar[h].id \in DOMAIN hbook THEN hbook[hvar[h].id].nx ELSE cache.nx]
  /\ UNCHANGED <<phase, list, title, varptr, tests, specs, hblocks, hvar, hbook, maxID, undefined, history, loads, events>>

Next == \/ \E b \in Blocks : Load(b)
        \/ thBookGroup \/ Booked
        \/ \E x \in [Inputs -> {0, 1}] : ExecuteTests(x)
        \/ IncrementScalers \/ ExecuteHists
        \/ thClearTestFlags \/ thClearTestScalers \/ thClearHists
        \/ \E h \in DOMAIN hvar : thHistRHandler(h)

Spec == Init /\ [][Next]_vars

-----------------------------------------------------------------------------
\* Between events the scaler of every flag that only one block gives holds the
\* number of events since it was booked or cleared for which the present title
\* makes the flag true, what it did not know when it was booked being zero: a
\* block loaded again counts from its new definition, and the flags of the other
\* blocks go on undisturbed (thTest.c:92-296, thTestParse.c:477-511 and 801-807).
ScalersCount ==
  phase = "ready" => \A f \in Given \ shared : scaler[f] = dueS[f]

\* The blocks of a class whose names tell them apart
Alone(b) == \A c \in HistBlocks \ {b} : c[2] # b[2]

\* Between events every histogram that only one line gives, and CTP fills, has
\* an identifier of its own that HBOOK knows, and holds one entry for each event
\* since it was booked or cleared whose flags, from the titles, satisfy the
\* present line: it is filled after the tests of the same event, never twice,
\* and never by a definition that was replaced (thHist.c:180-474 and 615-731).
\* Blocks of the same name in two classes are left out, one may be deleted for
\* the other (thHist.c:785).
HistogramsCount ==
  phase = "ready" /\ ~undefined =>
    \A b \in {b \in ToSet(list["hist"]) : specs[b].p = "list" /\ Alone(b)} :
    \A i \in {i \in taken[b] : ~title[b][i].user} : \A h \in {title[b][i].h} \ shared :
      /\ hvar[h].id \in DOMAIN hbook
      /\ hbook[hvar[h].id].n = dueH[h]
      /\ \A g \in DOMAIN hvar \ {h} : hvar[g].id # hvar[h].id

\* What is kept of the histogram a client asked for last is what HBOOK has for
\* that identifier, although an identifier is used again for a histogram booked
\* with other bins (thHandlers.c:119-205, thHist.c:187-189).
ReadsAreCurrent ==
  phase = "ready" /\ cache.id \in DOMAIN hbook => cache.nx = hbook[cache.id].nx
=============================================================================
