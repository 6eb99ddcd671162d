------------------------ MODULE FilteredReplayProofs ------------------------
(***************************************************************************)
(* The filter first (SyncFilter): whatever the events of a run and however *)
(* they are divided into segments, every event is passed on once, under    *)
(* the flag that its interval deserves, and an overflow withholds a part   *)
(* of one interval.  What is held is a tail of the input, beginning after  *)
(* a synchronization event; the rest was passed on, each event once.       *)
(*                                                                         *)
(* Then the filter and the engine that reads its output: the yield of a    *)
(* filtered run and the charge it is normalized to are of the same         *)
(* intervals, for every run, every division of it into segments, every     *)
(* pace of the two programs, and wherever the filter stops.                *)
(*                                                                         *)
(* What the engine relies on of the filter's output is added to the        *)
(* invariants of the filter: a flag lies between a synchronization event   *)
(* and what is under OUTSYNC after it (OutputInv).  The engine is then     *)
(* looked at alone, as the reader of any sequence S of events and flag     *)
(* events (EngineInv): insync is the last flag, or 0 when that came before *)
(* the GO event, as the first one does; the current and the charge are     *)
(* those of the last reading, and what was due under them has been         *)
(* analyzed, and nothing else.  The sums in which the readings were put    *)
(* are found by counting back from the last one (SumsInv).  The order of   *)
(* the filter's output, last, says that the last reading before an event   *)
(* is the one that ends its interval.                                      *)
(***************************************************************************)
EXTENDS FilteredReplay, FiniteSetTheorems, SequenceTheorems, TLAPS

-----------------------------------------------------------------------------
(* Sequences of copies and flags                                           *)

\* The copies in o are those of the events of S, each once.
Copies(o, S) ==
  /\ \A i \in DOMAIN o : o[i].flag = "none" => o[i] = Copy(o[i].n) /\ o[i].n \in S
  /\ \A n \in S : \E i \in DOMAIN o : o[i] = Copy(n)
  /\ \A i, j \in DOMAIN o : o[i].flag = "none" /\ o[i] = o[j] => i = j

\* f is the last flag in o before place i.
UnderIn(o, f, i) == \E j \in 1..i : o[j] = f /\ \A k \in (j + 1)..i : o[k].flag = "none"

Flags == {INSYNC, OUTSYNC, EARLYEND}

\* No flag is in w.
Quiet(w) == \A i \in DOMAIN w : w[i].flag = "none"

\* Copies of events and flags are different entries.
LEMMA EntryFacts ==
  /\ \A n \in Nat : Copy(n) \in Entry /\ Copy(n).flag = "none" /\ Copy(n).n = n
  /\ \A f \in Flags : f \in Entry /\ f.flag # "none"
  /\ INSYNC # OUTSYNC /\ INSYNC # EARLYEND /\ OUTSYNC # EARLYEND
  /\ \A n \in Nat : Copy(n) \notin Flags
  BY DEF Copy, Entry, Flags, INSYNC, OUTSYNC, EARLYEND

\* The elements of a concatenation
LEMMA Elements ==
  ASSUME NEW o \in Seq(Entry), NEW w \in Seq(Entry)
  PROVE /\ o \o w \in Seq(Entry)
        /\ Len(o \o w) = Len(o) + Len(w)
        /\ DOMAIN (o \o w) = 1..(Len(o) + Len(w))
        /\ \A i \in 1..Len(o) : (o \o w)[i] = o[i]
        /\ \A i \in 1..Len(w) : (o \o w)[Len(o) + i] = w[i]
        /\ \A i \in DOMAIN (o \o w) :
             i \in 1..Len(o) \/ (i - Len(o) \in 1..Len(w) /\ (o \o w)[i] = w[i - Len(o)])
  OBVIOUS

\* Copies of different events, one after the other
LEMMA CopiesConcat ==
  ASSUME NEW o \in Seq(Entry), NEW w \in Seq(Entry), NEW S, NEW T,
         Copies(o, S), Copies(w, T), S \cap T = {}
  PROVE Copies(o \o w, S \cup T)
  <1> DEFINE c == o \o w
  <1>e. /\ DOMAIN o = 1..Len(o) /\ DOMAIN w = 1..Len(w) /\ Len(o) \in Nat /\ Len(w) \in Nat
        /\ DOMAIN c = 1..(Len(o) + Len(w))
        /\ \A i \in 1..Len(o) : c[i] = o[i]
        /\ \A i \in 1..Len(w) : c[Len(o) + i] = w[i]
        /\ \A i \in DOMAIN c : i \in 1..Len(o) \/ (i - Len(o) \in 1..Len(w) /\ c[i] = w[i - Len(o)])
    BY Elements
  <1> HIDE DEF c
  <1>1. ASSUME NEW i \in DOMAIN c, c[i].flag = "none"
        PROVE c[i] = Copy(c[i].n) /\ c[i].n \in S \cup T
    BY <1>1, <1>e DEF Copies
  <1>2. ASSUME NEW n \in S \cup T PROVE \E i \in DOMAIN c : c[i] = Copy(n)
    <2>1. CASE n \in S
      <3>1. PICK i \in DOMAIN o : o[i] = Copy(n)
        BY <2>1 DEF Copies
      <3> QED BY <3>1, <1>e
    <2>2. CASE n \in T
      <3>1. PICK i \in DOMAIN w : w[i] = Copy(n)
        BY <2>2 DEF Copies
      <3>2. Len(o) + i \in DOMAIN c /\ c[Len(o) + i] = Copy(n)
        BY <3>1, <1>e
      <3> QED BY <3>2
    <2> QED BY <2>1, <2>2
  <1>3. ASSUME NEW i \in DOMAIN c, NEW j \in DOMAIN c, c[i].flag = "none", c[i] = c[j]
        PROVE i = j
    <2>1. CASE i \in 1..Len(o) /\ j \in 1..Len(o)
      BY <2>1, <1>3, <1>e DEF Copies
    <2>2. CASE i \notin 1..Len(o) /\ j \notin 1..Len(o)
      <3>1. i - Len(o) = j - Len(o)
        BY <2>2, <1>3, <1>e DEF Copies
      <3> QED BY <3>1, <1>e
    <2>3. CASE i \in 1..Len(o) /\ j \notin 1..Len(o)
      BY <2>3, <1>3, <1>e DEF Copies
    <2>4. CASE i \notin 1..Len(o) /\ j \in 1..Len(o)
      BY <2>4, <1>3, <1>e DEF Copies
    <2> QED BY <2>1, <2>2, <2>3, <2>4
  <1> QED BY <1>1, <1>2, <1>3 DEF Copies, c

\* A flag alone is the copy of nothing.
LEMMA CopiesFlag == ASSUME NEW f \in Flags PROVE Copies(<<f>>, {})
  BY EntryFacts DEF Copies

\* One copy is that of one event.
LEMMA CopiesOne == ASSUME NEW n \in Nat PROVE Copies(<<Copy(n)>>, {n})
  BY EntryFacts DEF Copies

\* What is in force in o is so in any continuation, and stays in force until
\* the next flag.
LEMMA UnderKept ==
  ASSUME NEW o \in Seq(Entry), NEW w \in Seq(Entry), NEW f, NEW i \in 1..Len(o)
  PROVE UnderIn(o \o w, f, i) <=> UnderIn(o, f, i)
  <1>1. i \in Nat /\ Len(o) \in Nat /\ \A k \in 1..i : (o \o w)[k] = o[k]
    BY Elements
  <1>2. \A j \in 1..i : \A k \in (j + 1)..i : k \in 1..i
    BY <1>1
  <1> QED BY <1>1, <1>2 DEF UnderIn

\* Without a flag, what was in force stays in force.
LEMMA UnderQuiet ==
  ASSUME NEW o \in Seq(Entry), NEW w \in Seq(Entry), NEW f \in Flags, Quiet(w), NEW i \in 0..Len(w)
  PROVE UnderIn(o \o w, f, Len(o) + i) <=> UnderIn(o, f, Len(o))
  <1> DEFINE c == o \o w
  <1>e. /\ Len(o) \in Nat /\ Len(w) \in Nat
        /\ \A j \in 1..Len(o) : c[j] = o[j]
        /\ \A j \in 1..Len(w) : c[Len(o) + j] = w[j] /\ w[j].flag = "none"
    BY Elements DEF Quiet
  <1> HIDE DEF c
  <1>f. f.flag # "none"
    BY EntryFacts
  <1>q. ASSUME NEW k \in (Len(o) + 1)..(Len(o) + i) PROVE c[k].flag = "none"
    <2>1. k - Len(o) \in 1..Len(w) /\ k = Len(o) + (k - Len(o))
      BY <1>e
    <2> QED BY <2>1, <1>e
  <1>1. ASSUME UnderIn(c, f, Len(o) + i) PROVE UnderIn(o, f, Len(o))
    <2>1. PICK j \in 1..(Len(o) + i) : c[j] = f /\ \A k \in (j + 1)..(Len(o) + i) : c[k].flag = "none"
      BY <1>1 DEF UnderIn
    <2>2. j \in 1..Len(o)
      BY <2>1, <1>q, <1>f, <1>e
    <2> QED BY SMTT(30), <2>1, <2>2, <1>e DEF UnderIn
  <1>2. ASSUME UnderIn(o, f, Len(o)) PROVE UnderIn(c, f, Len(o) + i)
    <2>1. PICK j \in 1..Len(o) : o[j] = f /\ \A k \in (j + 1)..Len(o) : o[k].flag = "none"
      BY <1>2 DEF UnderIn
    <2>2. \A k \in (j + 1)..(Len(o) + i) : c[k].flag = "none"
      BY SMTT(30), <2>1, <1>q, <1>e
    <2>3. j \in 1..(Len(o) + i) /\ c[j] = f
      BY <2>1, <1>e
    <2> QED BY <2>2, <2>3 DEF UnderIn
  <1> QED BY <1>1, <1>2 DEF c

\* A flag is in force where it stands.
LEMMA UnderFlag ==
  ASSUME NEW o \in Seq(Entry), NEW g \in Flags, NEW f \in Flags
  PROVE UnderIn(o \o <<g>>, f, Len(o) + 1) <=> f = g
  <1> DEFINE c == o \o <<g>>
  <1>1. c[Len(o) + 1] = g /\ Len(o) \in Nat
    OBVIOUS
  <1>2. g.flag # "none"
    BY EntryFacts
  <1> HIDE DEF c
  <1>3. ASSUME UnderIn(c, f, Len(o) + 1) PROVE f = g
    <2>1. PICK j \in 1..(Len(o) + 1) : c[j] = f /\ \A k \in (j + 1)..(Len(o) + 1) : c[k].flag = "none"
      BY <1>3 DEF UnderIn
    <2>2. j = Len(o) + 1
      BY <2>1, <1>1, <1>2
    <2> QED BY <2>1, <2>2, <1>1
  <1>4. ASSUME f = g PROVE UnderIn(c, f, Len(o) + 1)
    BY <1>1, <1>4 DEF UnderIn
  <1> QED BY <1>3, <1>4 DEF c

-----------------------------------------------------------------------------
(* Intervals of a sequence v of events                                     *)

SameIn(v, m, n) ==
  \A k \in DOMAIN v : (m <= k /\ k < n) \/ (n <= k /\ k < m) => ~IsSync(v[k])
SuspectIn(v, n) == \E m \in DOMAIN v : SameIn(v, m, n) /\ problems(v[m])
CompleteIn(v, n) == \E m \in n..Len(v) : IsSync(v[m]) \/ v[m].type = ENDEVENT

\* Intervals are those of the input.
LEMMA InInput ==
  \A n : /\ Suspect(n) <=> SuspectIn(input, n)
         /\ Complete(n) <=> CompleteIn(input, n)
         /\ Suspect(n)' <=> SuspectIn(input', n)
         /\ Complete(n)' <=> CompleteIn(input', n)
  BY DEF Suspect, SameInterval, SuspectIn, SameIn, Complete, CompleteIn

\* The elements of a sequence with one more
LEMMA Appended ==
  ASSUME NEW v \in Seq(Events), NEW e \in Events
  PROVE /\ Append(v, e) \in Seq(Events)
        /\ Len(v) \in Nat /\ Len(Append(v, e)) = Len(v) + 1
        /\ DOMAIN v = 1..Len(v) /\ DOMAIN Append(v, e) = 1..(Len(v) + 1)
        /\ \A m \in 1..Len(v) : Append(v, e)[m] = v[m]
        /\ Append(v, e)[Len(v) + 1] = e
  OBVIOUS

\* Of an event that a synchronization event has followed, nothing changes.
LEMMA PastIsPast ==
  ASSUME NEW v \in Seq(Events), NEW e \in Events, NEW n \in 1..Len(v),
         NEW s \in n..Len(v), IsSync(v[s])
  PROVE /\ CompleteIn(v, n) /\ CompleteIn(Append(v, e), n)
        /\ SuspectIn(Append(v, e), n) <=> SuspectIn(v, n)
  <1> DEFINE N == Len(v) + 1
             a == Append(v, e)
  <1>a. /\ DOMAIN v = 1..Len(v) /\ DOMAIN a = 1..N /\ Len(v) \in Nat /\ Len(a) = N
        /\ \A m \in 1..Len(v) : a[m] = v[m]
    BY Appended
  <1> HIDE DEF a
  <1>1. CompleteIn(v, n) /\ CompleteIn(a, n)
    BY <1>a DEF CompleteIn
  <1>2. ASSUME NEW m \in 1..N, SameIn(a, m, n) PROVE m \in 1..Len(v)
    BY <1>2, <1>a DEF SameIn
  <1>3. ASSUME NEW m \in 1..Len(v) PROVE SameIn(a, m, n) <=> SameIn(v, m, n)
    BY <1>a DEF SameIn
  <1>4. SuspectIn(a, n) <=> SuspectIn(v, n)
    BY <1>2, <1>3, <1>a DEF SuspectIn
  <1> QED BY <1>1, <1>4 DEF a

\* The events from p on, after a synchronization event and before any but the
\* last of all: they are one interval, with a problem if one of them has one.
LEMMA OneInterval ==
  ASSUME NEW v \in Seq(Events), NEW p \in 1..(Len(v) + 1),
         p > 1 => IsSync(v[p - 1]),
         \A m \in p..(Len(v) - 1) : ~IsSync(v[m]),
         NEW n \in p..Len(v)
  PROVE SuspectIn(v, n) <=> \E m \in p..Len(v) : problems(v[m])
  <1>1. Len(v) \in Nat /\ DOMAIN v = 1..Len(v)
    OBVIOUS
  <1>2. ASSUME NEW m \in p..Len(v) PROVE SameIn(v, m, n) /\ m \in DOMAIN v
    BY <1>1 DEF SameIn
  <1>3. ASSUME NEW m \in DOMAIN v, SameIn(v, m, n) PROVE m \in p..Len(v)
    <2> SUFFICES ASSUME m < p PROVE FALSE
      BY <1>1
    <2>1. p > 1 /\ p - 1 \in DOMAIN v /\ m <= p - 1 /\ p - 1 < n
      BY <1>1
    <2> QED BY <2>1, <1>3 DEF SameIn
  <1> QED BY <1>2, <1>3 DEF SuspectIn

-----------------------------------------------------------------------------
(* Output o under the right flags, for the input v                         *)

Right(o, v) ==
  \A i \in DOMAIN o :
    o[i].flag = "none" =>
      /\ UnderIn(o, EARLYEND, i) <=> ~CompleteIn(v, o[i].n)
      /\ UnderIn(o, OUTSYNC, i) <=> CompleteIn(v, o[i].n) /\ SuspectIn(v, o[i].n)

\* FlagsAreRight is about the output and the input alone.
LEMMA FlagsRight == (FlagsAreRight <=> Right(out, input)) /\ (FlagsAreRight' <=> Right(out', input'))
  BY InInput DEF FlagsAreRight, Right, Under, UnderIn

\* f is the flag under which what is appended to o goes.
LastFlag(o, f) == UnderIn(o, f, Len(o))

\* There is only one last flag.
LEMMA OneLastFlag ==
  ASSUME NEW o \in Seq(Entry), NEW f \in Flags, NEW g \in Flags, LastFlag(o, f), LastFlag(o, g)
  PROVE f = g
  <1>1. f.flag # "none" /\ g.flag # "none" /\ Len(o) \in Nat
    BY EntryFacts
  <1>2. PICK i \in 1..Len(o) : o[i] = f /\ \A k \in (i + 1)..Len(o) : o[k].flag = "none"
    BY DEF LastFlag, UnderIn
  <1>3. PICK j \in 1..Len(o) : o[j] = g /\ \A k \in (j + 1)..Len(o) : o[k].flag = "none"
    BY DEF LastFlag, UnderIn
  <1>4. i = j
    BY <1>1, <1>2, <1>3
  <1> QED BY <1>2, <1>3, <1>4

\* A flag may be written at any time.
LEMMA RightFlag ==
  ASSUME NEW o \in Seq(Entry), NEW v, Right(o, v), NEW g \in Flags
  PROVE o \o <<g>> \in Seq(Entry) /\ Right(o \o <<g>>, v) /\ LastFlag(o \o <<g>>, g)
  <1>0. g \in Entry /\ g.flag # "none" /\ EARLYEND \in Flags /\ OUTSYNC \in Flags
    BY EntryFacts DEF Flags
  <1>1. /\ <<g>> \in Seq(Entry) /\ Len(<<g>>) = 1 /\ <<g>>[1] = g
        /\ DOMAIN o = 1..Len(o) /\ Len(o) \in Nat
    BY <1>0
  <1>2. /\ o \o <<g>> \in Seq(Entry) /\ Len(o \o <<g>>) = Len(o) + 1
        /\ DOMAIN (o \o <<g>>) = 1..(Len(o) + 1)
        /\ (o \o <<g>>)[Len(o) + 1] = g
        /\ \A i \in 1..Len(o) : (o \o <<g>>)[i] = o[i]
    BY <1>1, Elements
  <1>3. \A i \in 1..Len(o) : \A f : UnderIn(o \o <<g>>, f, i) <=> UnderIn(o, f, i)
    BY <1>1, UnderKept
  <1>4. Right(o \o <<g>>, v)
    BY <1>0, <1>1, <1>2, <1>3 DEF Right
  <1>5. LastFlag(o \o <<g>>, g)
    BY <1>2, UnderFlag DEF LastFlag
  <1> QED BY <1>2, <1>4, <1>5

\* Copies may be written under the flag that they deserve.
LEMMA RightBlock ==
  ASSUME NEW o \in Seq(Entry), NEW v, Right(o, v), NEW f \in Flags, LastFlag(o, f),
         NEW w \in Seq(Entry), Quiet(w),
         \A i \in DOMAIN w : /\ f = EARLYEND <=> ~CompleteIn(v, w[i].n)
                             /\ f = OUTSYNC <=> CompleteIn(v, w[i].n) /\ SuspectIn(v, w[i].n)
  PROVE o \o w \in Seq(Entry) /\ Right(o \o w, v) /\ LastFlag(o \o w, f)
  <1>0. EARLYEND \in Flags /\ OUTSYNC \in Flags
    BY DEF Flags
  <1> DEFINE c == o \o w
  <1>1. /\ DOMAIN o = 1..Len(o) /\ DOMAIN w = 1..Len(w) /\ Len(o) \in Nat /\ Len(w) \in Nat
        /\ c \in Seq(Entry) /\ Len(c) = Len(o) + Len(w)
        /\ \A i \in 1..Len(o) : c[i] = o[i]
        /\ \A i \in DOMAIN c : i \in 1..Len(o) \/ (i - Len(o) \in 1..Len(w) /\ c[i] = w[i - Len(o)])
    BY Elements
  <1>2. \A i \in 1..Len(o) : \A g : UnderIn(c, g, i) <=> UnderIn(o, g, i)
    BY UnderKept
  <1>3. \A i \in 0..Len(w) : \A g \in Flags : UnderIn(c, g, Len(o) + i) <=> LastFlag(o, g)
    BY UnderQuiet DEF LastFlag
  <1>4. \A g \in Flags : LastFlag(o, g) <=> f = g
    BY OneLastFlag
  <1> HIDE DEF c
  <1>5. ASSUME NEW i \in DOMAIN c, c[i].flag = "none"
        PROVE /\ UnderIn(c, EARLYEND, i) <=> ~CompleteIn(v, c[i].n)
              /\ UnderIn(c, OUTSYNC, i) <=> CompleteIn(v, c[i].n) /\ SuspectIn(v, c[i].n)
    <2>1. CASE i \in 1..Len(o)
      BY <2>1, <1>1, <1>2, <1>5 DEF Right
    <2>2. CASE i - Len(o) \in 1..Len(w) /\ c[i] = w[i - Len(o)]
      <3>1. i - Len(o) \in 0..Len(w) /\ i = Len(o) + (i - Len(o))
        BY <2>2, <1>1
      <3>2. \A g \in Flags : UnderIn(c, g, i) <=> f = g
        BY <3>1, <1>3, <1>4
      <3> QED BY <3>2, <2>2, <1>0, <1>1
    <2> QED BY <2>1, <2>2, <1>1
  <1>6. LastFlag(c, f)
    <2>1. Len(w) \in 0..Len(w)
      BY <1>1
    <2> QED BY <2>1, <1>1, <1>3 DEF LastFlag
  <1> QED BY <1>1, <1>5, <1>6 DEF Right, c

\* A longer input, in which nothing has changed for the events of o
LEMMA RightSame ==
  ASSUME NEW o \in Seq(Entry), NEW v, NEW a, Right(o, v),
         \A i \in DOMAIN o : o[i].flag = "none" =>
           /\ CompleteIn(a, o[i].n) <=> CompleteIn(v, o[i].n)
           /\ SuspectIn(a, o[i].n) <=> SuspectIn(v, o[i].n)
  PROVE Right(o, a)
  BY DEF Right

-----------------------------------------------------------------------------
(* The invariant                                                           *)

\* The types, but for the counters
TypeInv ==
  /\ pc \in {"opening", "reading", "flushing", "closing", "stopped"}
  /\ input \in Seq(Events)
  /\ bigbuf \in Seq(Nat)
  /\ endpointer \in Nat
  /\ outofsync \in BOOLEAN
  /\ out \in Seq(Entry)

LastHeld == FirstHeld + Len(bigbuf) - 1

\* The buffer is in use when there are words in it; it holds events without a
\* gap up to the last one read, or the last but one when that had no room.
HeldInv ==
  /\ bigbuf = <<>> <=> endpointer = 0
  /\ FirstHeld \in Nat \ {0}
  /\ \A i \in DOMAIN bigbuf : bigbuf[i] = FirstHeld + i - 1
  /\ LastHeld <= Len(input)
  /\ pc # "stopped" => LastHeld = Len(input)
  /\ pc = "stopped" => Len(input) <= LastHeld + 1
  /\ pc = "closing" => bigbuf = <<>>

\* What was passed on is the rest.
CopiedInv == Copies(out, 1..(FirstHeld - 1))

Loop == pc \in {"opening", "reading", "flushing"}

\* No synchronization event is held; while events are read, the one before
\* those held is one, outofsync tells of a problem in one of them, an END event
\* is the last, and INSYNC was the last flag.
IntervalInv ==
  /\ \A m \in FirstHeld..LastHeld : ~IsSync(input[m])
  /\ Loop =>
       /\ FirstHeld > 1 => IsSync(input[FirstHeld - 1])
       /\ outofsync <=> \E m \in FirstHeld..LastHeld : problems(input[m])
       /\ \A m \in FirstHeld..LastHeld :
            input[m].type = ENDEVENT => pc = "flushing" /\ m = LastHeld
       /\ LastFlag(out, INSYNC)

IInv == TypeInv /\ HeldInv /\ CopiedInv /\ IntervalInv /\ FlagsAreRight

\* Nothing is held or passed on at first but the flag of a run in step.
LEMMA InitInv ==
  ASSUME Init
  PROVE IInv
  <1>0. INSYNC \in Entry /\ INSYNC.flag # "none"
    BY EntryFacts DEF Flags
  <1>1. TypeInv
    <2>1. <<>> \in Seq(Events) /\ <<>> \in Seq(Nat) /\ <<INSYNC>> \in Seq(Entry)
      BY <1>0
    <2> QED BY <2>1 DEF Init, TypeInv
  <1>2. FirstHeld = 1 /\ LastHeld = 0 /\ Len(out) = 1 /\ out[1] = INSYNC /\ DOMAIN out = {1}
    BY DEF Init, FirstHeld, LastHeld
  <1>3. HeldInv
    BY <1>2 DEF Init, HeldInv
  <1>4. CopiedInv
    BY <1>0, <1>2 DEF CopiedInv, Copies
  <1>5. LastFlag(out, INSYNC)
    BY <1>2 DEF UnderIn, LastFlag
  <1>6. IntervalInv
    BY <1>2, <1>5 DEF Init, IntervalInv
  <1>7. FlagsAreRight
    BY <1>0, <1>2 DEF FlagsAreRight
  <1> QED BY <1>1, <1>3, <1>4, <1>6, <1>7 DEF IInv

\* What is held, as a part of the input
LEMMA HeldFacts ==
  ASSUME TypeInv, HeldInv
  PROVE /\ Len(input) \in Nat /\ DOMAIN input = 1..Len(input)
        /\ Len(bigbuf) \in Nat /\ DOMAIN bigbuf = 1..Len(bigbuf)
        /\ bigbuf = <<>> <=> Len(bigbuf) = 0
        /\ FirstHeld \in 1..(Len(input) + 1) /\ LastHeld \in Nat /\ LastHeld <= Len(input)
        /\ LastHeld = FirstHeld + Len(bigbuf) - 1
  <1>1. /\ Len(input) \in Nat /\ DOMAIN input = 1..Len(input)
        /\ Len(bigbuf) \in Nat /\ DOMAIN bigbuf = 1..Len(bigbuf)
        /\ bigbuf = <<>> <=> Len(bigbuf) = 0
    BY DEF TypeInv
  <1> QED BY <1>1 DEF HeldInv, LastHeld

\* What is written from the buffer are copies of what is held.
LEMMA HeldCopies ==
  ASSUME TypeInv, HeldInv
  PROVE /\ Held \in Seq(Entry) /\ DOMAIN Held = 1..Len(bigbuf) /\ Quiet(Held)
        /\ \A i \in DOMAIN Held : Held[i].n \in FirstHeld..LastHeld
        /\ Copies(Held, FirstHeld..LastHeld)
  <1>1. /\ Len(bigbuf) \in Nat /\ DOMAIN bigbuf = 1..Len(bigbuf)
        /\ FirstHeld \in Nat \ {0} /\ LastHeld = FirstHeld + Len(bigbuf) - 1
    BY HeldFacts
  <1>2. \A i \in 1..Len(bigbuf) : FirstHeld + i - 1 \in FirstHeld..LastHeld /\ FirstHeld + i - 1 \in Nat
    BY <1>1
  <1>3. DOMAIN Held = 1..Len(bigbuf) /\ \A i \in 1..Len(bigbuf) : Held[i] = Copy(FirstHeld + i - 1)
    BY <1>1 DEF Held, HeldInv
  <1>4. \A i \in 1..Len(bigbuf) : /\ Held[i] \in Entry /\ Held[i].flag = "none"
                                 /\ Held[i].n = FirstHeld + i - 1
    BY <1>2, <1>3, EntryFacts
  <1>5. Held \in Seq(Entry)
    BY <1>1, <1>3, <1>4 DEF Held
  <1>6. \A n \in FirstHeld..LastHeld : n - FirstHeld + 1 \in 1..Len(bigbuf)
                                       /\ FirstHeld + (n - FirstHeld + 1) - 1 = n
    BY <1>1
  <1>7. Copies(Held, FirstHeld..LastHeld)
    <2>1. \A i \in DOMAIN Held : Held[i] = Copy(Held[i].n) /\ Held[i].n \in FirstHeld..LastHeld
      BY <1>2, <1>3, <1>4
    <2>2. \A n \in FirstHeld..LastHeld : \E i \in DOMAIN Held : Held[i] = Copy(n)
      BY <1>3, <1>6
    <2>3. \A i, j \in DOMAIN Held : Held[i] = Held[j] => i = j
      BY <1>1, <1>3, <1>4
    <2> QED BY <2>1, <2>2, <2>3 DEF Copies
  <1> QED BY <1>2, <1>3, <1>4, <1>5, <1>7 DEF Quiet

-----------------------------------------------------------------------------
(* Steps that neither read, pass on nor forget                             *)

Moves == \/ pc' = pc
         \/ pc \in {"opening", "reading"} /\ pc' \in {"reading", "flushing"}
         \/ pc = "closing" /\ pc' = "stopped"

\* Steps without an event change nothing that the invariant is about.
LEMMA Idle ==
  ASSUME IInv, Moves, UNCHANGED <<input, bigbuf, endpointer, outofsync, out>>
  PROVE IInv'
  <1>1. TypeInv'
    BY DEF IInv, TypeInv, Moves
  <1>2. FirstHeld' = FirstHeld /\ LastHeld' = LastHeld
    BY DEF FirstHeld, LastHeld
  <1>3. HeldInv'
    BY <1>2, HeldFacts DEF IInv, HeldInv, Moves
  <1>4. CopiedInv'
    BY <1>2 DEF IInv, CopiedInv
  <1>5. IntervalInv'
    BY <1>2 DEF IInv, IntervalInv, Loop, Moves
  <1>6. FlagsAreRight'
    BY FlagsRight DEF IInv
  <1> QED BY <1>1, <1>3, <1>4, <1>5, <1>6 DEF IInv

-----------------------------------------------------------------------------
(* Steps that read an event and pass nothing on                            *)

\* Another event changes nothing for those that were passed on.
LEMMA KeepsRight ==
  ASSUME IInv, Loop, NEW e \in Events
  PROVE Right(out, Append(input, e))
  <1>1. /\ input \in Seq(Events) /\ Len(input) \in Nat /\ out \in Seq(Entry)
        /\ FirstHeld \in 1..(Len(input) + 1)
    BY HeldFacts DEF IInv, TypeInv
  <1>2. Right(out, input)
    BY FlagsRight DEF IInv
  <1>3. ASSUME NEW i \in DOMAIN out, out[i].flag = "none"
        PROVE /\ CompleteIn(Append(input, e), out[i].n) <=> CompleteIn(input, out[i].n)
              /\ SuspectIn(Append(input, e), out[i].n) <=> SuspectIn(input, out[i].n)
    <2>1. out[i].n \in 1..(FirstHeld - 1)
      BY <1>3 DEF IInv, CopiedInv, Copies
    <2>2. /\ out[i].n \in 1..Len(input) /\ FirstHeld - 1 \in out[i].n..Len(input)
          /\ FirstHeld > 1
      BY <2>1, <1>1
    <2>3. IsSync(input[FirstHeld - 1])
      BY <2>2 DEF IInv, IntervalInv
    <2> QED BY <2>2, <2>3, <1>1, PastIsPast
  <1> QED BY <1>1, <1>2, <1>3, RightSame

\* An event that is held comes at the end of what is held.
LEMMA HoldStep ==
  ASSUME IInv, NEW e \in Events, Hold(e) \/ HoldEnd(e)
  PROVE IInv'
  <1> DEFINE N == Len(input) + 1
  <1>1. /\ pc = "reading" /\ pc' = (IF e.type = ENDEVENT THEN "flushing" ELSE "reading")
        /\ input' = Append(input, e) /\ bigbuf' = Append(bigbuf, N)
        /\ endpointer' = endpointer + e.len + 1
        /\ outofsync' = (outofsync \/ problems(e)) /\ out' = out
        /\ ~IsSync(e)
    BY DEF Hold, HoldEnd, Read, appendevent, NowOutOfSync, IsSync, TIMEDSYNC, GOEVENT,
           ENDEVENT, SCALERSYNC
  <1>2. /\ input \in Seq(Events) /\ bigbuf \in Seq(Nat) /\ endpointer \in Nat
        /\ outofsync \in BOOLEAN /\ out \in Seq(Entry)
    BY DEF IInv, TypeInv
  <1>3. /\ Len(input) \in Nat /\ Len(bigbuf) \in Nat /\ DOMAIN bigbuf = 1..Len(bigbuf)
        /\ bigbuf = <<>> <=> Len(bigbuf) = 0
        /\ FirstHeld \in 1..N /\ LastHeld = Len(input) /\ LastHeld = FirstHeld + Len(bigbuf) - 1
    BY <1>1, HeldFacts DEF IInv, HeldInv
  <1>4. e.len \in Nat
    BY EventsAssumption
  <1>5. /\ input' \in Seq(Events) /\ Len(input') = N /\ input'[N] = e
        /\ \A m \in 1..Len(input) : input'[m] = input[m]
    BY <1>1, <1>2, Appended
  <1>6. /\ bigbuf' \in Seq(Nat) /\ Len(bigbuf') = Len(bigbuf) + 1 /\ bigbuf' # <<>>
        /\ \A i \in 1..Len(bigbuf) : bigbuf'[i] = bigbuf[i]
        /\ bigbuf'[Len(bigbuf) + 1] = N /\ DOMAIN bigbuf' = 1..(Len(bigbuf) + 1)
    BY SMTT(30), <1>1, <1>2, <1>3
  <1>7. FirstHeld' = FirstHeld
    BY <1>3, <1>6 DEF FirstHeld
  <1>8. LastHeld' = N
    BY <1>3, <1>6, <1>7 DEF LastHeld
  <1>9. TypeInv'
    BY <1>1, <1>2, <1>4, <1>5, <1>6 DEF TypeInv, problems
  <1>10. HeldInv'
    <2>0. \A i \in 1..Len(bigbuf) : bigbuf[i] = FirstHeld + i - 1
      BY <1>3 DEF IInv, HeldInv
    <2>1. ASSUME NEW i \in DOMAIN bigbuf' PROVE bigbuf'[i] = FirstHeld + i - 1
      <3>1. CASE i \in 1..Len(bigbuf)
        BY <3>1, <2>0, <1>6
      <3>2. CASE i = Len(bigbuf) + 1
        <4>1. N = FirstHeld + Len(bigbuf) /\ FirstHeld \in Nat
          BY <1>3
        <4>2. bigbuf'[i] = N
          BY <3>2, <1>6
        <4> HIDE DEF N
        <4> QED BY <3>2, <4>1, <4>2, <1>3
      <3> QED BY <3>1, <3>2, <1>3, <1>6
    <2>2. endpointer' # 0
      BY <1>1, <1>2, <1>4
    <2> QED BY SMTT(30), <2>1, <2>2, <1>1, <1>3, <1>5, <1>6, <1>7, <1>8 DEF HeldInv
  <1>11. CopiedInv'
    BY <1>1, <1>7 DEF IInv, CopiedInv
  <1>12. IntervalInv'
    <2>1. \A m \in FirstHeld..N : (m \in FirstHeld..LastHeld /\ input'[m] = input[m]) \/ (m = N /\ input'[m] = e)
      BY <1>3, <1>5
    <2>2. \A m \in FirstHeld..LastHeld : m \in FirstHeld..N /\ input'[m] = input[m]
      BY <1>3, <1>5
    <2>3. N \in FirstHeld..N
      BY <1>3
    <2>4. \A m \in FirstHeld..N : ~IsSync(input'[m])
      BY <2>1, <1>1 DEF IInv, IntervalInv
    <2>5. FirstHeld > 1 => IsSync(input'[FirstHeld - 1])
      BY <1>1, <1>3, <1>5 DEF IInv, IntervalInv, Loop
    <2>6. outofsync' <=> \E m \in FirstHeld..N : problems(input'[m])
      BY <2>1, <2>2, <2>3, <1>1, <1>5 DEF IInv, IntervalInv, Loop
    <2>7. \A m \in FirstHeld..N : input'[m].type = ENDEVENT => pc' = "flushing" /\ m = N
      BY <2>1, <1>1 DEF IInv, IntervalInv, Loop
    <2>8. LastFlag(out', INSYNC)
      BY <1>1 DEF IInv, IntervalInv, Loop
    <2> QED BY <2>4, <2>5, <2>6, <2>7, <2>8, <1>7, <1>8 DEF IntervalInv
  <1>13. FlagsAreRight'
    BY <1>1, KeepsRight, FlagsRight DEF Loop
  <1> QED BY <1>9, <1>10, <1>11, <1>12, <1>13 DEF IInv

\* Only an event for which there is no room is neither held nor passed on.
LEMMA OverflowStep ==
  ASSUME IInv, NEW e \in Events, Overflow(e)
  PROVE IInv'
  <1>1. /\ pc = "reading" /\ pc' = "stopped" /\ input' = Append(input, e)
        /\ UNCHANGED <<bigbuf, endpointer, out>>
        /\ outofsync' = (outofsync \/ problems(e))
        /\ endpointer + e.len + 1 > MAX_REALLYBIGBUFFER
    BY DEF Overflow, Read, NowOutOfSync
  <1>2. /\ input \in Seq(Events) /\ outofsync \in BOOLEAN /\ endpointer \in Nat
        /\ e.len \in Nat /\ e.len + 1 <= MAX_REALLYBIGBUFFER /\ MAX_REALLYBIGBUFFER \in Nat
    BY EventsAssumption, BoundsAssumption DEF IInv, TypeInv
  <1>3. bigbuf # <<>>
    BY <1>1, <1>2 DEF IInv, HeldInv
  <1>4. FirstHeld' = FirstHeld /\ LastHeld' = LastHeld
    BY <1>1, <1>3 DEF FirstHeld, LastHeld
  <1>5. /\ Len(input) \in Nat /\ LastHeld = Len(input) /\ LastHeld \in Nat
        /\ FirstHeld \in 1..(Len(input) + 1)
    BY <1>1, HeldFacts DEF IInv, HeldInv
  <1>6. /\ input' \in Seq(Events) /\ Len(input') = Len(input) + 1
        /\ \A m \in 1..Len(input) : input'[m] = input[m]
    BY <1>1, <1>2, Appended
  <1>7. TypeInv'
    BY <1>1, <1>2, <1>6 DEF IInv, TypeInv, problems
  <1>8. HeldInv'
    BY <1>1, <1>3, <1>4, <1>5, <1>6 DEF IInv, HeldInv
  <1>9. CopiedInv'
    BY <1>1, <1>4 DEF IInv, CopiedInv
  <1>10. IntervalInv'
    BY <1>1, <1>4, <1>5, <1>6 DEF IInv, IntervalInv, Loop
  <1>11. FlagsAreRight'
    BY <1>1, KeepsRight, FlagsRight DEF Loop
  <1> QED BY <1>7, <1>8, <1>9, <1>10, <1>11 DEF IInv

-----------------------------------------------------------------------------
(* Steps that pass the events held on                                      *)

\* The synchronization event e ends the interval held, itself included.
LEMMA EndedInterval ==
  ASSUME IInv, pc = "reading", NEW e \in Events, IsSync(e)
  PROVE \A n \in FirstHeld..(Len(input) + 1) :
          /\ CompleteIn(Append(input, e), n)
          /\ SuspectIn(Append(input, e), n) <=> outofsync \/ problems(e)
  <1> DEFINE N == Len(input) + 1
             a == Append(input, e)
  <1>1. input \in Seq(Events)
    BY DEF IInv, TypeInv
  <1>2. /\ a \in Seq(Events) /\ Len(input) \in Nat /\ Len(a) = N /\ DOMAIN a = 1..N
        /\ \A m \in 1..Len(input) : a[m] = input[m]
        /\ a[N] = e
    BY <1>1, Appended
  <1>3. FirstHeld \in 1..N /\ LastHeld = Len(input)
    BY HeldFacts DEF IInv, HeldInv
  <1>4. /\ FirstHeld > 1 => IsSync(input[FirstHeld - 1])
        /\ outofsync <=> \E m \in FirstHeld..Len(input) : problems(input[m])
        /\ \A m \in FirstHeld..Len(input) : ~IsSync(input[m])
    BY <1>3 DEF IInv, IntervalInv, Loop
  <1> HIDE DEF a
  <1>5. /\ FirstHeld > 1 => IsSync(a[FirstHeld - 1])
        /\ \A m \in FirstHeld..(Len(a) - 1) : ~IsSync(a[m])
    BY <1>2, <1>3, <1>4
  <1>6. (\E m \in FirstHeld..N : problems(a[m])) <=> outofsync \/ problems(e)
    <2>1. \A m \in FirstHeld..N : (m \in FirstHeld..Len(input) /\ a[m] = input[m]) \/ (m = N /\ a[m] = e)
      BY <1>2, <1>3
    <2>2. \A m \in FirstHeld..Len(input) : m \in FirstHeld..N /\ a[m] = input[m]
      BY <1>2, <1>3
    <2>3. N \in FirstHeld..N
      BY <1>2, <1>3
    <2> QED BY <2>1, <2>2, <2>3, <1>2, <1>4
  <1>7. ASSUME NEW n \in FirstHeld..N PROVE CompleteIn(a, n)
    <2>1. N \in n..Len(a)
      BY <1>2, <1>3
    <2> QED BY <2>1, <1>2 DEF CompleteIn
  <1>8. ASSUME NEW n \in FirstHeld..N
        PROVE SuspectIn(a, n) <=> \E m \in FirstHeld..N : problems(a[m])
    <2>1. FirstHeld \in 1..(Len(a) + 1) /\ n \in FirstHeld..Len(a)
      BY <1>2, <1>3
    <2>2. SuspectIn(a, n) <=> \E m \in FirstHeld..Len(a) : problems(a[m])
      BY <2>1, <1>2, <1>5, OneInterval
    <2> QED BY <2>2, <1>2
  <1> QED BY <1>6, <1>7, <1>8 DEF a

\* Nothing is held after a step that clears the buffer.
LEMMA ClearedFacts ==
  ASSUME Cleared, input' \in Seq(Events)
  PROVE FirstHeld' = Len(input') + 1 /\ LastHeld' = Len(input') /\ Len(input') \in Nat
  <1>1. bigbuf' = <<>> /\ Len(bigbuf') = 0 /\ Len(input') \in Nat
    BY DEF Cleared
  <1>2. FirstHeld' = Len(input') + 1
    BY <1>1 DEF FirstHeld
  <1> QED BY <1>1, <1>2 DEF LastHeld

\* A synchronization event leaves an output o that copies the whole input
\* under the right flags, and ends under INSYNC.
LEMMA SyncInv ==
  ASSUME IInv, pc = "reading", pc' = pc, NEW e \in Events, IsSync(e),
         input' = Append(input, e), Cleared, outofsync' = FALSE,
         out' \in Seq(Entry), Copies(out', 1..(Len(input) + 1)),
         Right(out', Append(input, e)), LastFlag(out', INSYNC)
  PROVE IInv'
  <1>1. input \in Seq(Events)
    BY DEF IInv, TypeInv
  <1>2. input' \in Seq(Events) /\ Len(input') = Len(input) + 1 /\ input'[Len(input) + 1] = e
    BY <1>1, Appended
  <1>3. FirstHeld' = Len(input') + 1 /\ LastHeld' = Len(input') /\ Len(input') \in Nat
    BY <1>2, ClearedFacts
  <1>c. bigbuf' = <<>> /\ endpointer' = 0 /\ DOMAIN bigbuf' = {}
    BY DEF Cleared
  <1>4. TypeInv'
    <2>1. <<>> \in Seq(Nat)
      OBVIOUS
    <2> QED BY <2>1, <1>2, <1>c DEF TypeInv
  <1>5. HeldInv'
    BY <1>3, <1>c DEF HeldInv
  <1>6. CopiedInv'
    BY <1>2, <1>3 DEF CopiedInv
  <1>7. IntervalInv'
    BY <1>2, <1>3 DEF IntervalInv
  <1>8. FlagsAreRight'
    BY FlagsRight
  <1> QED BY <1>4, <1>5, <1>6, <1>7, <1>8 DEF IInv

\* What is written of an interval that ended: the events held and e, the
\* latter on the side the filter chooses
LEMMA EndedEntries ==
  ASSUME IInv, pc = "reading", NEW e \in Events, IsSync(e)
  PROVE /\ Len(input) + 1 \in Nat
        /\ <<Copy(Len(input) + 1)>> \in Seq(Entry) /\ Quiet(<<Copy(Len(input) + 1)>>)
        /\ Held \in Seq(Entry) /\ Quiet(Held)
        /\ Copies(<<Copy(Len(input) + 1)>>, {Len(input) + 1})
        /\ Copies(Held, FirstHeld..Len(input))
        /\ FirstHeld \in 1..(Len(input) + 1)
        /\ \A w \in {<<Copy(Len(input) + 1)>>, Held} : \A i \in DOMAIN w :
             /\ CompleteIn(Append(input, e), w[i].n)
             /\ SuspectIn(Append(input, e), w[i].n) <=> outofsync \/ problems(e)
  <1> DEFINE N == Len(input) + 1
             one == <<Copy(N)>>
  <1>1. TypeInv /\ HeldInv
    BY DEF IInv
  <1>2. Len(input) \in Nat /\ N \in Nat /\ FirstHeld \in 1..N /\ LastHeld = Len(input)
    BY <1>1, HeldFacts DEF HeldInv
  <1>3. Copy(N) \in Entry /\ Copy(N).flag = "none" /\ Copy(N).n = N
    BY <1>2, EntryFacts
  <1>4. Copies(one, {N})
    BY <1>2, CopiesOne
  <1>5. /\ Held \in Seq(Entry) /\ Quiet(Held) /\ Copies(Held, FirstHeld..LastHeld)
        /\ \A i \in DOMAIN Held : Held[i].n \in FirstHeld..LastHeld
    BY <1>1, HeldCopies
  <1>6. /\ one \in Seq(Entry) /\ DOMAIN one = {1} /\ one[1] = Copy(N)
    BY <1>3
  <1>7. Quiet(one)
    BY <1>3, <1>6 DEF Quiet
  <1> HIDE DEF one
  <1>8. \A i \in DOMAIN Held : Held[i].n \in FirstHeld..N
    BY <1>2, <1>5
  <1>9. \A i \in DOMAIN one : one[i].n \in FirstHeld..N
    BY <1>2, <1>3, <1>6
  <1>10. \A w \in {one, Held} : \A i \in DOMAIN w : w[i].n \in FirstHeld..N
    BY <1>8, <1>9
  <1>11. \A n \in FirstHeld..N :
           /\ CompleteIn(Append(input, e), n)
           /\ SuspectIn(Append(input, e), n) <=> outofsync \/ problems(e)
    BY EndedInterval
  <1>12. \A w \in {one, Held} : \A i \in DOMAIN w :
             /\ CompleteIn(Append(input, e), w[i].n)
             /\ SuspectIn(Append(input, e), w[i].n) <=> outofsync \/ problems(e)
    BY <1>10, <1>11
  <1> QED BY <1>2, <1>4, <1>5, <1>6, <1>7, <1>12 DEF one

\* A synchronization event that finds a problem
LEMMA SyncProblemStep ==
  ASSUME IInv, NEW e \in Events, SyncAfterProblem(e)
  PROVE IInv'
  <1> DEFINE N == Len(input) + 1
             a == Append(input, e)
             one == <<Copy(N)>>
             o1 == out \o <<OUTSYNC>>
             o2 == o1 \o one
             o3 == o2 \o Held
             o4 == o3 \o <<INSYNC>>
  <1>0. /\ pc = "reading" /\ pc' = pc /\ IsSync(e) /\ input' = a /\ Cleared
        /\ outofsync' = FALSE
    BY DEF SyncAfterProblem, Read
  <1>1. /\ pc = "reading" /\ IsSync(e) /\ (outofsync \/ problems(e))
        /\ out' = out \o <<OUTSYNC, Copy(N)>> \o Held \o <<INSYNC>>
    BY DEF SyncAfterProblem, Read, NowOutOfSync
  <1>2. /\ N \in Nat /\ one \in Seq(Entry) /\ Quiet(one) /\ Held \in Seq(Entry) /\ Quiet(Held)
        /\ Copies(one, {N}) /\ Copies(Held, FirstHeld..Len(input))
        /\ FirstHeld \in 1..N
        /\ \A w \in {one, Held} : \A i \in DOMAIN w :
             CompleteIn(a, w[i].n) /\ SuspectIn(a, w[i].n)
    BY <1>1, EndedEntries
  <1>3. out \in Seq(Entry) /\ Right(out, a)
    BY <1>1, KeepsRight DEF IInv, TypeInv, Loop
  <1>4. /\ OUTSYNC \in Flags /\ INSYNC \in Flags /\ OUTSYNC # EARLYEND
        /\ <<OUTSYNC>> \in Seq(Entry) /\ <<INSYNC>> \in Seq(Entry)
    BY EntryFacts DEF Flags
  <1>5. out' = o4
    <2>1. Copy(N) \in Entry /\ OUTSYNC \in Entry
      BY <1>2, EntryFacts DEF Flags
    <2>2. <<OUTSYNC, Copy(N)>> = <<OUTSYNC>> \o <<Copy(N)>>
      BY <2>1
    <2>3. out \o (<<OUTSYNC>> \o <<Copy(N)>>) = (out \o <<OUTSYNC>>) \o <<Copy(N)>>
      BY <1>2, <1>3, <1>4, ConcatAssociative
    <2> QED BY <2>2, <2>3, <1>1
  <1> HIDE DEF o1, o2, o3, o4, one, a
  <1>6. o1 \in Seq(Entry) /\ Right(o1, a) /\ LastFlag(o1, OUTSYNC)
    BY <1>3, <1>4, RightFlag DEF o1
  <1>7. o2 \in Seq(Entry) /\ Right(o2, a) /\ LastFlag(o2, OUTSYNC)
    BY <1>2, <1>4, <1>6, RightBlock DEF o2
  <1>8. o3 \in Seq(Entry) /\ Right(o3, a) /\ LastFlag(o3, OUTSYNC)
    BY <1>2, <1>4, <1>7, RightBlock DEF o3
  <1>9. o4 \in Seq(Entry) /\ Right(o4, a) /\ LastFlag(o4, INSYNC)
    BY <1>4, <1>8, RightFlag DEF o4
  <1>10. Copies(out, 1..(FirstHeld - 1))
    BY DEF IInv, CopiedInv
  <1>11. Copies(o1, 1..(FirstHeld - 1))
    <2>1. Copies(<<OUTSYNC>>, {}) /\ 1..(FirstHeld - 1) \cup {} = 1..(FirstHeld - 1)
      BY <1>4, CopiesFlag
    <2>2. Copies(o1, 1..(FirstHeld - 1) \cup {})
      BY <2>1, <1>3, <1>4, <1>10, CopiesConcat DEF o1
    <2> QED BY <2>1, <2>2
  <1>12. Copies(o2, 1..(FirstHeld - 1) \cup {N})
    <2>1. 1..(FirstHeld - 1) \cap {N} = {}
      BY <1>2
    <2> QED BY <2>1, <1>2, <1>6, <1>11, CopiesConcat DEF o2
  <1>13. Copies(o3, 1..N)
    <2>1. /\ (1..(FirstHeld - 1) \cup {N}) \cap (FirstHeld..Len(input)) = {}
          /\ (1..(FirstHeld - 1) \cup {N}) \cup (FirstHeld..Len(input)) = 1..N
      BY <1>2
    <2>2. Copies(o3, (1..(FirstHeld - 1) \cup {N}) \cup (FirstHeld..Len(input)))
      BY <2>1, <1>2, <1>7, <1>12, CopiesConcat DEF o3
    <2> QED BY <2>1, <2>2
  <1>14. Copies(o4, 1..N)
    <2>1. Copies(<<INSYNC>>, {}) /\ 1..N \cup {} = 1..N
      BY <1>4, CopiesFlag
    <2>2. Copies(o4, 1..N \cup {})
      BY <2>1, <1>4, <1>8, <1>13, CopiesConcat DEF o4
    <2> QED BY <2>1, <2>2
  <1>15. out' \in Seq(Entry) /\ Copies(out', 1..N) /\ Right(out', a) /\ LastFlag(out', INSYNC)
    BY ONLY <1>5, <1>9, <1>14
  <1> QED BY <1>0, <1>15, SyncInv DEF a

\* A synchronization event in step
LEMMA SyncInStepStep ==
  ASSUME IInv, NEW e \in Events, SyncInStep(e)
  PROVE IInv'
  <1> DEFINE N == Len(input) + 1
             a == Append(input, e)
             one == <<Copy(N)>>
  <1>1. /\ pc = "reading" /\ pc' = pc /\ IsSync(e) /\ input' = a /\ Cleared
        /\ outofsync' = FALSE /\ ~(outofsync \/ problems(e))
        /\ out' = (out \o one) \o Held \/ out' = (out \o Held) \o one
    BY DEF SyncInStep, Read, NowOutOfSync, IInv, TypeInv
  <1>2. /\ N \in Nat /\ one \in Seq(Entry) /\ Quiet(one) /\ Held \in Seq(Entry) /\ Quiet(Held)
        /\ Copies(one, {N}) /\ Copies(Held, FirstHeld..Len(input))
        /\ FirstHeld \in 1..N
        /\ \A w \in {one, Held} : \A i \in DOMAIN w :
             CompleteIn(a, w[i].n) /\ ~SuspectIn(a, w[i].n)
    BY <1>1, EndedEntries
  <1>3. out \in Seq(Entry) /\ Right(out, a) /\ LastFlag(out, INSYNC)
    BY <1>1, KeepsRight DEF IInv, TypeInv, IntervalInv, Loop
  <1>4. INSYNC \in Flags /\ INSYNC # OUTSYNC /\ INSYNC # EARLYEND
    BY EntryFacts DEF Flags
  <1> HIDE DEF one, a
  <1>5. ASSUME NEW o \in Seq(Entry), Right(o, a), LastFlag(o, INSYNC), NEW w \in {one, Held}
        PROVE o \o w \in Seq(Entry) /\ Right(o \o w, a) /\ LastFlag(o \o w, INSYNC)
    BY <1>5, <1>2, <1>4, RightBlock
  <1>6. out' \in Seq(Entry) /\ Right(out', a) /\ LastFlag(out', INSYNC)
    <2>1. CASE out' = (out \o one) \o Held
      BY <2>1, <1>3, <1>5
    <2>2. CASE out' = (out \o Held) \o one
      BY <2>2, <1>3, <1>5
    <2> QED BY <2>1, <2>2, <1>1
  <1>7. Copies(out, 1..(FirstHeld - 1))
    BY DEF IInv, CopiedInv
  <1>8. Copies(out', 1..N)
    <2>1. CASE out' = (out \o one) \o Held
      <3>1. /\ 1..(FirstHeld - 1) \cap {N} = {}
            /\ (1..(FirstHeld - 1) \cup {N}) \cap (FirstHeld..Len(input)) = {}
            /\ (1..(FirstHeld - 1) \cup {N}) \cup (FirstHeld..Len(input)) = 1..N
        BY <1>2
      <3>2. Copies(out \o one, 1..(FirstHeld - 1) \cup {N})
        BY <3>1, <1>2, <1>3, <1>7, CopiesConcat
      <3>3. out \o one \in Seq(Entry)
        BY <1>3, <1>5
      <3>4. Copies((out \o one) \o Held, (1..(FirstHeld - 1) \cup {N}) \cup (FirstHeld..Len(input)))
        BY <3>1, <3>2, <3>3, <1>2, CopiesConcat
      <3> QED BY <2>1, <3>1, <3>4
    <2>2. CASE out' = (out \o Held) \o one
      <3>1. /\ 1..(FirstHeld - 1) \cap (FirstHeld..Len(input)) = {}
            /\ (1..(FirstHeld - 1) \cup (FirstHeld..Len(input))) \cap {N} = {}
            /\ (1..(FirstHeld - 1) \cup (FirstHeld..Len(input))) \cup {N} = 1..N
        BY <1>2
      <3>2. Copies(out \o Held, 1..(FirstHeld - 1) \cup (FirstHeld..Len(input)))
        BY <3>1, <1>2, <1>3, <1>7, CopiesConcat
      <3>3. out \o Held \in Seq(Entry)
        BY <1>3, <1>5
      <3>4. Copies((out \o Held) \o one, (1..(FirstHeld - 1) \cup (FirstHeld..Len(input))) \cup {N})
        BY <3>1, <3>2, <3>3, <1>2, CopiesConcat
      <3> QED BY <2>2, <3>1, <3>4
    <2> QED BY <2>1, <2>2, <1>1
  <1> QED BY <1>1, <1>6, <1>8, SyncInv DEF a

\* The events still held at the end go under the flag they deserve.
LEMMA FlushStep ==
  ASSUME IInv, FlushRest
  PROVE IInv'
  <1> DEFINE L == Len(input)
  <1>1. pc = "flushing" /\ pc' = "closing" /\ UNCHANGED <<input, outofsync>> /\ Cleared
    BY DEF FlushRest
  <1>2. /\ input \in Seq(Events) /\ outofsync \in BOOLEAN /\ out \in Seq(Entry)
        /\ Right(out, input) /\ LastFlag(out, INSYNC) /\ Copies(out, 1..(FirstHeld - 1))
    BY <1>1, FlagsRight DEF IInv, TypeInv, IntervalInv, CopiedInv, Loop
  <1>3. /\ L \in Nat /\ DOMAIN input = 1..L /\ FirstHeld \in 1..(L + 1) /\ LastHeld = L
        /\ LastHeld = FirstHeld + Len(bigbuf) - 1 /\ (bigbuf = <<>> <=> Len(bigbuf) = 0)
        /\ (bigbuf = <<>> <=> endpointer = 0) /\ endpointer \in Nat /\ Len(bigbuf) \in Nat
    BY <1>1, HeldFacts DEF IInv, HeldInv, TypeInv
  <1>4. /\ FirstHeld > 1 => IsSync(input[FirstHeld - 1])
        /\ \A m \in FirstHeld..L : ~IsSync(input[m])
        /\ outofsync <=> \E m \in FirstHeld..L : problems(input[m])
        /\ \A m \in FirstHeld..L : input[m].type = ENDEVENT => m = L
    BY <1>1, <1>3 DEF IInv, IntervalInv, Loop
  <1>5. /\ Held \in Seq(Entry) /\ Quiet(Held) /\ Copies(Held, FirstHeld..L)
        /\ \A i \in DOMAIN Held : Held[i].n \in FirstHeld..L
    BY <1>3, HeldCopies DEF IInv
  <1>6. /\ INSYNC \in Flags /\ OUTSYNC \in Flags /\ EARLYEND \in Flags
        /\ INSYNC # OUTSYNC /\ INSYNC # EARLYEND /\ OUTSYNC # EARLYEND
        /\ \A f \in Flags : f \in Entry
    BY EntryFacts DEF Flags
  <1>7. \A n \in FirstHeld..L : SuspectIn(input, n) <=> outofsync
    <2>1. \A m \in FirstHeld..(L - 1) : ~IsSync(input[m])
      BY <1>3, <1>4
    <2>2. \A n \in FirstHeld..L : SuspectIn(input, n) <=> \E m \in FirstHeld..L : problems(input[m])
      BY <2>1, <1>2, <1>3, <1>4, OneInterval
    <2> QED BY <2>2, <1>4
  <1>8. ASSUME FirstHeld <= L
        PROVE \A n \in FirstHeld..L : CompleteIn(input, n) <=> EndSeen
    <2>1. input # <<>>
      BY <1>3, <1>8
    <2>2. ASSUME NEW n \in FirstHeld..L, EndSeen PROVE CompleteIn(input, n)
      <3>1. L \in n..L /\ input[L].type = ENDEVENT
        BY <2>2, <1>3 DEF EndSeen
      <3> QED BY <3>1 DEF CompleteIn
    <2>3. ASSUME NEW n \in FirstHeld..L, CompleteIn(input, n) PROVE EndSeen
      <3>1. PICK m \in n..L : IsSync(input[m]) \/ input[m].type = ENDEVENT
        BY <2>3 DEF CompleteIn
      <3>2. m \in FirstHeld..L
        BY <3>1, <1>3
      <3>3. input[L].type = ENDEVENT
        BY <3>1, <3>2, <1>4
      <3> QED BY <3>3, <2>1 DEF EndSeen
    <2> QED BY <2>2, <2>3
  <1>9. ASSUME NEW o \in Seq(Entry), Right(o, input), Copies(o, 1..(FirstHeld - 1)),
               NEW f \in Flags, LastFlag(o, f), FirstHeld <= L,
               f = EARLYEND <=> ~EndSeen,
               f = OUTSYNC <=> EndSeen /\ outofsync
        PROVE o \o Held \in Seq(Entry) /\ Right(o \o Held, input) /\ Copies(o \o Held, 1..L)
    <2>1. /\ 1..(FirstHeld - 1) \cap (FirstHeld..L) = {}
          /\ 1..(FirstHeld - 1) \cup (FirstHeld..L) = 1..L
      BY <1>3
    <2>2. Copies(o \o Held, 1..(FirstHeld - 1) \cup (FirstHeld..L))
      BY <2>1, <1>5, <1>9, CopiesConcat
    <2>3. \A i \in DOMAIN Held :
            /\ f = EARLYEND <=> ~CompleteIn(input, Held[i].n)
            /\ f = OUTSYNC <=> CompleteIn(input, Held[i].n) /\ SuspectIn(input, Held[i].n)
      BY <1>5, <1>7, <1>8, <1>9
    <2>4. o \o Held \in Seq(Entry) /\ Right(o \o Held, input)
      BY <2>3, <1>5, <1>9, RightBlock
    <2> QED BY <2>1, <2>2, <2>4
  <1>10. ASSUME NEW f \in Flags
         PROVE /\ out \o <<f>> \in Seq(Entry) /\ Right(out \o <<f>>, input)
               /\ LastFlag(out \o <<f>>, f) /\ Copies(out \o <<f>>, 1..(FirstHeld - 1))
    <2>1. /\ Copies(<<f>>, {}) /\ 1..(FirstHeld - 1) \cup {} = 1..(FirstHeld - 1)
          /\ <<f>> \in Seq(Entry)
      BY <1>6, CopiesFlag
    <2>2. Copies(out \o <<f>>, 1..(FirstHeld - 1) \cup {})
      BY <2>1, <1>2, CopiesConcat
    <2>3. /\ out \o <<f>> \in Seq(Entry) /\ Right(out \o <<f>>, input)
          /\ LastFlag(out \o <<f>>, f)
      BY <1>2, RightFlag
    <2> QED BY <2>1, <2>2, <2>3
  <1>11. out' \in Seq(Entry) /\ Right(out', input) /\ Copies(out', 1..L)
    <2>1. CASE endpointer = 0 /\ out' = out
      <3>1. 1..(FirstHeld - 1) = 1..L
        BY <2>1, <1>3
      <3> QED BY <3>1, <2>1, <1>2
    <2>2. CASE endpointer > 0 /\ ~EndSeen /\ out' = (out \o <<EARLYEND>>) \o Held
      <3>1. FirstHeld <= L
        BY <2>2, <1>3
      <3> QED BY <3>1, <2>2, <1>6, <1>9, <1>10
    <2>3. CASE endpointer > 0 /\ EndSeen /\ outofsync /\ out' = (out \o <<OUTSYNC>>) \o Held
      <3>1. FirstHeld <= L
        BY <2>3, <1>3
      <3> QED BY <3>1, <2>3, <1>6, <1>9, <1>10
    <2>4. CASE endpointer > 0 /\ EndSeen /\ ~outofsync /\ out' = out \o Held
      <3>1. FirstHeld <= L
        BY <2>4, <1>3
      <3> QED BY <3>1, <2>4, <1>2, <1>6, <1>9
    <2> QED BY <2>1, <2>2, <2>3, <2>4 DEF FlushRest
  <1>12. FirstHeld' = L + 1 /\ LastHeld' = L
    BY <1>1, <1>2, ClearedFacts
  <1>c. bigbuf' = <<>> /\ endpointer' = 0 /\ DOMAIN bigbuf' = {} /\ <<>> \in Seq(Nat)
    BY <1>1 DEF Cleared
  <1>13. TypeInv'
    BY <1>1, <1>2, <1>11, <1>c DEF TypeInv
  <1>14. HeldInv'
    BY <1>1, <1>3, <1>12, <1>c DEF HeldInv
  <1>15. CopiedInv'
    BY <1>3, <1>11, <1>12 DEF CopiedInv
  <1>16. IntervalInv'
    BY <1>1, <1>3, <1>12 DEF IntervalInv, Loop
  <1>17. FlagsAreRight'
    BY <1>1, <1>11, FlagsRight
  <1> QED BY <1>13, <1>14, <1>15, <1>16, <1>17 DEF IInv

-----------------------------------------------------------------------------
(* The theorems                                                            *)

\* Every step keeps the invariant.
LEMMA NextInv ==
  ASSUME IInv, [Next]_vars
  PROVE IInv'
  <1>1. CASE OpenFirst
    BY <1>1, Idle DEF OpenFirst, Moves
  <1>2. CASE SwitchSegment
    BY <1>2, Idle DEF SwitchSegment, Moves
  <1>3. CASE EndOfInput
    BY <1>3, Idle DEF EndOfInput, Moves
  <1>4. ASSUME NEW e \in Events,
               Hold(e) \/ HoldEnd(e) \/ Overflow(e) \/ SyncAfterProblem(e) \/ SyncInStep(e)
        PROVE IInv'
    BY <1>4, HoldStep, OverflowStep, SyncProblemStep, SyncInStepStep
  <1>5. CASE FlushRest
    BY <1>5, FlushStep
  <1>6. CASE Close
    BY <1>6, Idle DEF Close, Moves
  <1>7. CASE UNCHANGED vars
    BY <1>7, Idle DEF vars, Moves
  <1> QED BY <1>1, <1>2, <1>3, <1>4, <1>5, <1>6, <1>7 DEF Next

\* The invariant holds throughout.
LEMMA FilterInv == Spec => []IInv
  BY InitInv, NextInv, PTL DEF Spec

\* What was passed on is copied once.
LEMMA CopiedNow == ASSUME IInv PROVE CopiedOnce
  <1>1. /\ Len(input) \in Nat /\ DOMAIN input = 1..Len(input) /\ FirstHeld \in Nat
        /\ Copies(out, 1..(FirstHeld - 1))
    BY HeldFacts DEF IInv, CopiedInv
  <1> SUFFICES ASSUME NEW n \in DOMAIN input
               PROVE LET places == {i \in DOMAIN out : out[i] = Copy(n)}
                     IN IF n < FirstHeld THEN \E i \in places : places = {i} ELSE places = {}
    BY DEF CopiedOnce
  <1> DEFINE places == {i \in DOMAIN out : out[i] = Copy(n)}
  <1>2. n \in Nat /\ n >= 1 /\ Copy(n).flag = "none" /\ Copy(n).n = n
    BY <1>1, EntryFacts
  <1>3. CASE n < FirstHeld
    <2>1. PICK i \in DOMAIN out : out[i] = Copy(n)
      BY <1>1, <1>2, <1>3 DEF Copies
    <2>2. \A j \in places : i = j
      BY <2>1, <1>1, <1>2 DEF Copies
    <2> QED BY <2>1, <2>2, <1>3
  <1>4. CASE ~(n < FirstHeld)
    <2>1. places = {}
      BY <1>1, <1>2, <1>4 DEF Copies
    <2> QED BY <2>1, <1>4
  <1> QED BY <1>3, <1>4

\* Every event of the run reaches the output once and no event twice, except
\* those still in really_big_buffer when the filter has given up
\* (appendevent, writeoutthebigbuffer).
THEOREM EveryEventOnce == Spec => []CopiedOnce
  <1>1. IInv => CopiedOnce
    BY CopiedNow
  <1> QED BY <1>1, FilterInv, PTL

\* The last flag before an event says whether its interval can be trusted:
\* OUTSYNC when one of its events shows a problem, EARLYEND when the run ended
\* before it, INSYNC otherwise (main).
THEOREM FlagsTellTheTruth == Spec => []FlagsAreRight
  <1>1. IInv => FlagsAreRight
    BY DEF IInv
  <1> QED BY <1>1, FilterInv, PTL

\* What is held when the filter stops is of one interval.
LEMMA HeldIsOneInterval == ASSUME IInv PROVE OverflowWithholdsOneInterval
  <1>1. /\ Len(input) \in Nat /\ DOMAIN input = 1..Len(input) /\ FirstHeld \in Nat
        /\ LastHeld \in Nat
        /\ \A m \in FirstHeld..LastHeld : ~IsSync(input[m])
    BY HeldFacts DEF IInv, IntervalInv
  <1>2. pc = "stopped" => Len(input) <= LastHeld + 1
    BY DEF IInv, HeldInv
  <1> QED BY <1>1, <1>2 DEF OverflowWithholdsOneInterval

\* When appendevent finds no room, everything up to the last synchronization event
\* has been handed to evWrite (syncfilter.c:303); what of it evio still has in its
\* buffer is not written.
THEOREM OneIntervalWithheld == Spec => []OverflowWithholdsOneInterval
  <1>1. IInv => OverflowWithholdsOneInterval
    BY HeldIsOneInterval
  <1> QED BY <1>1, FilterInv, PTL

-----------------------------------------------------------------------------
(* The order of the output                                                 *)

\* Event m may come before event n in the output.
Before(v, m, n) ==
  IF IsSync(v[m]) /\ SameIn(v, n, m) /\ n # m
  THEN n < m /\ (v[m].type = SCALERSYNC \/ SuspectIn(v, m))
  ELSE m < n /\ ~(SameIn(v, m, n) /\ IsSync(v[n]) /\ v[n].type = SCALERSYNC)

\* Output o in an order that the input v allows
Ordered(o, v) ==
  \A i, j \in DOMAIN o :
    o[i].flag = "none" /\ o[j].flag = "none" /\ i < j => Before(v, o[i].n, o[j].n)

\* Only events of S are copied in o.
Within(o, S) == \A i \in DOMAIN o : o[i].flag = "none" => o[i].n \in S

\* OrderKept is about the output and the input alone.
LEMMA OrderIsOrdered == (OrderKept <=> Ordered(out, input)) /\ (OrderKept' <=> Ordered(out', input'))
  <1>1. \A m, n : /\ SameInterval(m, n) <=> SameIn(input, m, n)
                  /\ SameInterval(m, n)' <=> SameIn(input', m, n)
    BY DEF SameInterval, SameIn
  <1> QED BY <1>1, InInput DEF OrderKept, Ordered, Before

\* Output of which each part is in order, and what is appended may come later
LEMMA OrderedConcat ==
  ASSUME NEW o \in Seq(Entry), NEW w \in Seq(Entry), NEW v, NEW S, NEW T,
         Ordered(o, v), Ordered(w, v), Within(o, S), Within(w, T),
         \A m \in S : \A n \in T : Before(v, m, n)
  PROVE Ordered(o \o w, v) /\ Within(o \o w, S \cup T)
  <1> DEFINE c == o \o w
  <1>e. /\ DOMAIN o = 1..Len(o) /\ DOMAIN w = 1..Len(w) /\ Len(o) \in Nat /\ Len(w) \in Nat
        /\ DOMAIN c = 1..(Len(o) + Len(w))
        /\ \A i \in 1..Len(o) : c[i] = o[i]
        /\ \A i \in DOMAIN c : i \in 1..Len(o) \/ (i - Len(o) \in 1..Len(w) /\ c[i] = w[i - Len(o)])
    BY Elements
  <1> HIDE DEF c
  <1>1. Within(c, S \cup T)
    BY <1>e DEF Within
  <1>2. ASSUME NEW i \in DOMAIN c, NEW j \in DOMAIN c,
               c[i].flag = "none", c[j].flag = "none", i < j
        PROVE Before(v, c[i].n, c[j].n)
    <2>0. i \in Nat /\ j \in Nat
      BY <1>e
    <2>1. CASE i \in 1..Len(o) /\ j \in 1..Len(o)
      BY <2>1, <1>2, <1>e DEF Ordered
    <2>2. CASE i \in 1..Len(o) /\ j \notin 1..Len(o)
      <3>1. c[i].n \in S /\ c[j].n \in T
        BY <2>2, <1>2, <1>e DEF Within
      <3> QED BY <3>1
    <2>3. CASE i \notin 1..Len(o) /\ j \notin 1..Len(o)
      <3>1. /\ i - Len(o) \in DOMAIN w /\ j - Len(o) \in DOMAIN w
            /\ c[i] = w[i - Len(o)] /\ c[j] = w[j - Len(o)]
        BY <2>3, <1>e
      <3>2. i - Len(o) < j - Len(o)
        BY <1>2, <2>0, <1>e
      <3> QED BY <3>1, <3>2, <1>2 DEF Ordered
    <2>4. i \in 1..Len(o) \/ j \notin 1..Len(o)
      BY <1>2, <2>0, <1>e
    <2> QED BY <2>1, <2>2, <2>3, <2>4
  <1> QED BY <1>1, <1>2 DEF Ordered, c

\* A flag does not disturb the order.
LEMMA OrderedFlag ==
  ASSUME NEW o \in Seq(Entry), NEW v, NEW S, Ordered(o, v), Within(o, S), NEW f \in Flags
  PROVE o \o <<f>> \in Seq(Entry) /\ Ordered(o \o <<f>>, v) /\ Within(o \o <<f>>, S)
  <1>1. <<f>> \in Seq(Entry) /\ DOMAIN <<f>> = {1} /\ <<f>>[1].flag # "none"
    BY EntryFacts
  <1>2. Ordered(<<f>>, v) /\ Within(<<f>>, {})
    BY <1>1 DEF Ordered, Within
  <1>3. Ordered(o \o <<f>>, v) /\ Within(o \o <<f>>, S \cup {})
    BY <1>1, <1>2, OrderedConcat
  <1>4. o \o <<f>> \in Seq(Entry)
    BY <1>1
  <1> QED BY <1>3, <1>4

\* An event up to a synchronization event and one after it are in order.
LEMMA PastFirst ==
  ASSUME NEW v \in Seq(Events), NEW s \in 1..Len(v), IsSync(v[s]),
         NEW m \in 1..s, NEW n \in (s + 1)..Len(v)
  PROVE Before(v, m, n)
  <1>1. Len(v) \in Nat /\ DOMAIN v = 1..Len(v) /\ s \in DOMAIN v /\ m < n /\ m <= s /\ s < n
    OBVIOUS
  <1>2. ~SameIn(v, m, n) /\ ~SameIn(v, n, m)
    BY <1>1 DEF SameIn
  <1> QED BY <1>1, <1>2 DEF Before

\* Among events none of which is a synchronization event, the order is theirs.
LEMMA HeldOrder ==
  ASSUME NEW v, NEW m \in Int, NEW n \in Int, m < n, ~IsSync(v[m]), ~IsSync(v[n])
  PROVE Before(v, m, n)
  BY DEF Before

\* The events held are written in order.
LEMMA HeldOrdered ==
  ASSUME IInv, NEW v, \A m \in FirstHeld..LastHeld : ~IsSync(v[m])
  PROVE Ordered(Held, v) /\ Within(Held, FirstHeld..LastHeld)
  <1>1. /\ Len(bigbuf) \in Nat /\ DOMAIN bigbuf = 1..Len(bigbuf)
        /\ FirstHeld \in Nat \ {0} /\ LastHeld = FirstHeld + Len(bigbuf) - 1
    BY HeldFacts DEF IInv
  <1>2. /\ DOMAIN Held = 1..Len(bigbuf)
        /\ \A i \in DOMAIN Held : Held[i].n \in FirstHeld..LastHeld
    BY HeldCopies DEF IInv
  <1>3. \A i \in 1..Len(bigbuf) : Held[i].n = FirstHeld + i - 1
    <2>1. ASSUME NEW i \in 1..Len(bigbuf) PROVE Held[i].n = FirstHeld + i - 1
      <3>1. FirstHeld + i - 1 \in Nat
        BY <1>1
      <3>2. Held[i] = Copy(FirstHeld + i - 1)
        BY <1>1 DEF IInv, HeldInv, Held
      <3> QED BY <3>1, <3>2, EntryFacts
    <2> QED BY <2>1
  <1>4. ASSUME NEW i \in DOMAIN Held, NEW j \in DOMAIN Held, i < j
        PROVE Before(v, Held[i].n, Held[j].n)
    <2>1. Held[i].n \in Int /\ Held[j].n \in Int /\ Held[i].n < Held[j].n
      BY <1>1, <1>2, <1>3, <1>4
    <2>2. ~IsSync(v[Held[i].n]) /\ ~IsSync(v[Held[j].n])
      BY <1>2
    <2> QED BY <2>1, <2>2, HeldOrder
  <1> QED BY <1>2, <1>4 DEF Ordered, Within

\* Another event changes nothing for the order of those that were passed on.
LEMMA KeepsOrdered ==
  ASSUME IInv, Loop, Ordered(out, input), NEW e \in Events
  PROVE Ordered(out, Append(input, e)) /\ Within(out, 1..(FirstHeld - 1))
  <1> DEFINE a == Append(input, e)
  <1>1. /\ input \in Seq(Events) /\ Len(input) \in Nat /\ DOMAIN input = 1..Len(input)
        /\ FirstHeld \in 1..(Len(input) + 1)
    BY HeldFacts DEF IInv, TypeInv
  <1>2. /\ DOMAIN a = 1..(Len(input) + 1) /\ \A m \in 1..Len(input) : a[m] = input[m]
    BY <1>1, Appended
  <1>3. Within(out, 1..(FirstHeld - 1))
    BY DEF IInv, CopiedInv, Copies, Within
  <1>4. \A n \in 1..(FirstHeld - 1) : SuspectIn(a, n) <=> SuspectIn(input, n)
    <2>1. ASSUME NEW n \in 1..(FirstHeld - 1) PROVE SuspectIn(a, n) <=> SuspectIn(input, n)
      <3>1. n \in 1..Len(input) /\ FirstHeld - 1 \in n..Len(input) /\ FirstHeld > 1
        BY <1>1
      <3>2. IsSync(input[FirstHeld - 1])
        BY <3>1 DEF IInv, IntervalInv
      <3> QED BY <3>1, <3>2, <1>1, PastIsPast
    <2> QED BY <2>1
  <1> HIDE DEF a
  <1>5. \A m, n \in 1..Len(input) : SameIn(a, m, n) <=> SameIn(input, m, n)
    BY <1>1, <1>2 DEF SameIn
  <1>6. ASSUME NEW m \in 1..(FirstHeld - 1), NEW n \in 1..(FirstHeld - 1)
        PROVE Before(a, m, n) <=> Before(input, m, n)
    <2>1. m \in 1..Len(input) /\ n \in 1..Len(input)
      BY <1>1
    <2> QED BY <2>1, <1>2, <1>4, <1>5 DEF Before
  <1>7. Ordered(out, a)
    BY <1>3, <1>6 DEF Ordered, Within
  <1> QED BY <1>3, <1>7 DEF a

\* What a synchronization event e may come before and after
LEMMA SyncOrder ==
  ASSUME IInv, pc = "reading", NEW e \in Events, IsSync(e)
  PROVE LET N == Len(input) + 1
            a == Append(input, e)
        IN /\ Len(input) \in Nat /\ FirstHeld \in 1..N /\ LastHeld = Len(input)
           /\ \A m \in FirstHeld..LastHeld : ~IsSync(a[m])
           /\ \A m \in 1..(FirstHeld - 1) : \A n \in FirstHeld..N : Before(a, m, n)
           /\ e.type # SCALERSYNC => \A m \in FirstHeld..LastHeld : Before(a, m, N)
           /\ e.type = SCALERSYNC \/ outofsync \/ problems(e) =>
                \A n \in FirstHeld..LastHeld : Before(a, N, n)
  <1> DEFINE N == Len(input) + 1
             a == Append(input, e)
  <1>1. /\ input \in Seq(Events) /\ Len(input) \in Nat /\ FirstHeld \in 1..N
        /\ LastHeld = Len(input)
    BY HeldFacts DEF IInv, HeldInv, TypeInv
  <1>2. /\ a \in Seq(Events) /\ Len(a) = N /\ DOMAIN a = 1..N
        /\ \A m \in 1..Len(input) : a[m] = input[m]
        /\ a[N] = e
    BY <1>1, Appended
  <1>s. SuspectIn(a, N) <=> outofsync \/ problems(e)
    <2>1. N \in FirstHeld..N
      BY <1>1
    <2> QED BY <2>1, EndedInterval
  <1> HIDE DEF a
  <1>3. \A m \in FirstHeld..LastHeld : ~IsSync(a[m])
    BY <1>1, <1>2 DEF IInv, IntervalInv
  <1>4. ASSUME NEW m \in 1..(FirstHeld - 1), NEW n \in FirstHeld..N PROVE Before(a, m, n)
    <2>1. /\ FirstHeld > 1 /\ FirstHeld - 1 \in 1..Len(a) /\ m \in 1..(FirstHeld - 1)
          /\ n \in ((FirstHeld - 1) + 1)..Len(a) /\ FirstHeld - 1 \in 1..Len(input)
      BY <1>1, <1>2
    <2>2. IsSync(a[FirstHeld - 1])
      BY <2>1, <1>2 DEF IInv, IntervalInv, Loop
    <2> QED BY <2>1, <2>2, <1>2, PastFirst
  <1>5. ASSUME e.type # SCALERSYNC, NEW m \in FirstHeld..LastHeld PROVE Before(a, m, N)
    BY <1>1, <1>2, <1>3, <1>5 DEF Before
  <1>6. ASSUME e.type = SCALERSYNC \/ outofsync \/ problems(e), NEW n \in FirstHeld..LastHeld
        PROVE Before(a, N, n)
    <2>1. n \in Int /\ n < N /\ n # N
      BY <1>1
    <2>2. \A k \in DOMAIN a : (n <= k /\ k < N) \/ (N <= k /\ k < n) => k \in FirstHeld..LastHeld
      BY <1>1, <1>2
    <2>3. SameIn(a, n, N)
      BY <2>2, <1>3 DEF SameIn
    <2>4. IsSync(a[N]) /\ a[N].type = e.type
      BY <1>2
    <2> QED BY <2>1, <2>3, <2>4, <1>6, <1>s DEF Before
  <1> QED BY <1>1, <1>3, <1>4, <1>5, <1>6 DEF a

\* What is passed on when an interval ends is in order.
LEMMA SyncOrdered ==
  ASSUME IInv, Ordered(out, input), NEW e \in Events, SyncAfterProblem(e) \/ SyncInStep(e)
  PROVE Ordered(out', input')
  <1> DEFINE N == Len(input) + 1
             a == Append(input, e)
             one == <<Copy(N)>>
             past == 1..(FirstHeld - 1)
             held == FirstHeld..LastHeld
             last == {N}
  <1>1. pc = "reading" /\ IsSync(e) /\ input' = a
    BY DEF SyncAfterProblem, SyncInStep, Read
  <1>2. /\ Len(input) \in Nat /\ N \in Nat /\ FirstHeld \in 1..N /\ LastHeld = Len(input)
        /\ \A m \in held : ~IsSync(a[m])
        /\ \A m \in past : \A n \in FirstHeld..N : Before(a, m, n)
        /\ e.type # SCALERSYNC => \A m \in held : Before(a, m, N)
        /\ e.type = SCALERSYNC \/ outofsync \/ problems(e) => \A n \in held : Before(a, N, n)
    BY <1>1, SyncOrder
  <1>3. N \in FirstHeld..N /\ (\A n \in held : n \in FirstHeld..N) /\ \A n \in last : n = N
    BY <1>2
  <1>4. out \in Seq(Entry) /\ Ordered(out, a) /\ Within(out, past)
    BY <1>1, KeepsOrdered DEF IInv, TypeInv, Loop
  <1>5. Held \in Seq(Entry) /\ Ordered(Held, a) /\ Within(Held, held)
    BY <1>2, HeldOrdered, HeldCopies DEF IInv
  <1>6. one \in Seq(Entry) /\ Ordered(one, a) /\ Within(one, last)
    <2>1. Copy(N) \in Entry /\ Copy(N).n = N
      BY <1>2, EntryFacts
    <2>2. one \in Seq(Entry) /\ DOMAIN one = {1} /\ one[1] = Copy(N)
      BY <2>1
    <2> QED BY <2>1, <2>2 DEF Ordered, Within
  <1>7. OUTSYNC \in Flags /\ INSYNC \in Flags
    BY DEF Flags
  <1>8. CASE SyncAfterProblem(e)
    <2> DEFINE o1 == out \o <<OUTSYNC>>
               o2 == o1 \o one
               o3 == o2 \o Held
               o4 == o3 \o <<INSYNC>>
    <2>1. outofsync \/ problems(e)
      BY <1>8 DEF SyncAfterProblem, NowOutOfSync
    <2>2. out' = o4
      <3>1. Copy(N) \in Entry /\ OUTSYNC \in Entry /\ <<OUTSYNC>> \in Seq(Entry)
        BY <1>2, EntryFacts DEF Flags
      <3>2. <<OUTSYNC, Copy(N)>> = <<OUTSYNC>> \o <<Copy(N)>>
        BY <3>1
      <3>3. out \o (<<OUTSYNC>> \o <<Copy(N)>>) = (out \o <<OUTSYNC>>) \o <<Copy(N)>>
        BY <3>1, <1>4, <1>6, ConcatAssociative
      <3>4. out' = out \o <<OUTSYNC, Copy(N)>> \o Held \o <<INSYNC>>
        BY <1>8 DEF SyncAfterProblem
      <3> QED BY <3>2, <3>3, <3>4
    <2> HIDE DEF o1, o2, o3, o4, one, a, past, held, N, last
    <2>3. o1 \in Seq(Entry) /\ Ordered(o1, a) /\ Within(o1, past)
      BY <1>4, <1>7, OrderedFlag DEF o1
    <2>4. o2 \in Seq(Entry) /\ Ordered(o2, a) /\ Within(o2, past \cup last)
      <3>1. \A m \in past : \A n \in last : Before(a, m, n)
        BY <1>2, <1>3
      <3>2. o2 \in Seq(Entry)
        BY <2>3, <1>6 DEF o2
      <3> QED BY <3>1, <3>2, <2>3, <1>6, OrderedConcat DEF o2
    <2>5. o3 \in Seq(Entry) /\ Ordered(o3, a) /\ Within(o3, (past \cup last) \cup held)
      <3>1. \A m \in past \cup last : \A n \in held : Before(a, m, n)
        BY <2>1, <1>2, <1>3
      <3>2. o3 \in Seq(Entry)
        BY <2>4, <1>5 DEF o3
      <3> QED BY <3>1, <3>2, <2>4, <1>5, OrderedConcat DEF o3
    <2>6. Ordered(o4, a)
      BY <2>5, <1>7, OrderedFlag DEF o4
    <2> QED BY <2>2, <2>6, <1>1
  <1>9. CASE SyncInStep(e) /\ e.type = SCALERSYNC
    <2>1. out' = (out \o one) \o Held
      BY <1>9 DEF SyncInStep
    <2> HIDE DEF one, a, past, held, N, last
    <2>2. out \o one \in Seq(Entry) /\ Ordered(out \o one, a) /\ Within(out \o one, past \cup last)
      <3>1. \A m \in past : \A n \in last : Before(a, m, n)
        BY <1>2, <1>3
      <3>2. out \o one \in Seq(Entry)
        BY <1>4, <1>6
      <3> QED BY <3>1, <3>2, <1>4, <1>6, OrderedConcat
    <2>3. Ordered((out \o one) \o Held, a)
      <3>1. \A m \in past \cup last : \A n \in held : Before(a, m, n)
        BY <1>2, <1>3, <1>9
      <3> QED BY <3>1, <2>2, <1>5, OrderedConcat
    <2> QED BY <2>1, <2>3, <1>1
  <1>10. CASE SyncInStep(e) /\ e.type # SCALERSYNC
    <2>1. out' = (out \o Held) \o one
      BY <1>10 DEF SyncInStep
    <2> HIDE DEF one, a, past, held, N, last
    <2>2. /\ out \o Held \in Seq(Entry) /\ Ordered(out \o Held, a)
          /\ Within(out \o Held, past \cup held)
      <3>1. \A m \in past : \A n \in held : Before(a, m, n)
        BY <1>2, <1>3
      <3>2. out \o Held \in Seq(Entry)
        BY <1>4, <1>5
      <3> QED BY <3>1, <3>2, <1>4, <1>5, OrderedConcat
    <2>3. Ordered((out \o Held) \o one, a)
      <3>1. \A m \in past \cup held : \A n \in last : Before(a, m, n)
        BY <1>2, <1>3, <1>10
      <3> QED BY <3>1, <2>2, <1>6, OrderedConcat
    <2> QED BY <2>1, <2>3, <1>1
  <1> QED BY <1>8, <1>9, <1>10

\* What is still held at the end is passed on in order.
LEMMA FlushOrdered ==
  ASSUME IInv, Ordered(out, input), FlushRest
  PROVE Ordered(out', input')
  <1> DEFINE past == 1..(FirstHeld - 1)
             held == FirstHeld..LastHeld
  <1>1. pc = "flushing" /\ input' = input
    BY DEF FlushRest
  <1>2. /\ input \in Seq(Events) /\ out \in Seq(Entry) /\ Len(input) \in Nat
        /\ FirstHeld \in 1..(Len(input) + 1) /\ LastHeld <= Len(input) /\ LastHeld \in Nat
    BY HeldFacts DEF IInv, TypeInv
  <1>3. /\ \A m \in held : ~IsSync(input[m])
        /\ FirstHeld > 1 => IsSync(input[FirstHeld - 1])
    BY <1>1 DEF IInv, IntervalInv, Loop
  <1>4. Within(out, past)
    BY DEF IInv, CopiedInv, Copies, Within
  <1>5. Held \in Seq(Entry) /\ Ordered(Held, input) /\ Within(Held, held)
    BY <1>3, HeldOrdered, HeldCopies DEF IInv
  <1>6. \A m \in past : \A n \in held : Before(input, m, n)
    <2>1. ASSUME NEW m \in past, NEW n \in held PROVE Before(input, m, n)
      <3>1. /\ FirstHeld > 1 /\ FirstHeld - 1 \in 1..Len(input) /\ m \in 1..(FirstHeld - 1)
            /\ n \in ((FirstHeld - 1) + 1)..Len(input)
        BY <1>2
      <3> QED BY <3>1, <1>2, <1>3, PastFirst
    <2> QED BY <2>1
  <1> HIDE DEF past, held
  <1>7. ASSUME NEW o \in Seq(Entry), Ordered(o, input), Within(o, past)
        PROVE Ordered(o \o Held, input)
    BY <1>5, <1>6, <1>7, OrderedConcat
  <1>8. \A f \in Flags : Ordered((out \o <<f>>) \o Held, input)
    BY <1>2, <1>4, <1>7, OrderedFlag
  <1>9. EARLYEND \in Flags /\ OUTSYNC \in Flags
    BY DEF Flags
  <1>10. \/ out' = out
         \/ out' = (out \o <<EARLYEND>>) \o Held
         \/ out' = (out \o <<OUTSYNC>>) \o Held
         \/ out' = out \o Held
    BY DEF FlushRest
  <1> QED BY <1>1, <1>2, <1>4, <1>7, <1>8, <1>9, <1>10

\* Every step keeps the output in order.
LEMMA NextOrdered ==
  ASSUME IInv, Ordered(out, input), [Next]_vars
  PROVE Ordered(out', input')
  <1>1. ASSUME NEW e \in Events, Hold(e) \/ HoldEnd(e) \/ Overflow(e)
        PROVE Ordered(out', input')
    <2>1. pc = "reading" /\ input' = Append(input, e) /\ out' = out
      BY <1>1 DEF Hold, HoldEnd, Overflow, Read
    <2> QED BY <2>1, KeepsOrdered DEF Loop
  <1>2. ASSUME NEW e \in Events, SyncAfterProblem(e) \/ SyncInStep(e)
        PROVE Ordered(out', input')
    BY <1>2, SyncOrdered
  <1>3. CASE FlushRest
    BY <1>3, FlushOrdered
  <1>4. CASE OpenFirst \/ SwitchSegment \/ EndOfInput \/ Close \/ UNCHANGED vars
    <2>1. input' = input /\ out' = out
      BY <1>4 DEF OpenFirst, SwitchSegment, EndOfInput, Close, invars, vars
    <2> QED BY <2>1
  <1> QED BY <1>1, <1>2, <1>3, <1>4 DEF Next

\* Events keep their order in the output, except that a scaler event, or the
\* synchronization event that finds a problem, is written before the interval
\* it ends (writeoutthebigbuffer, main).
THEOREM OrderIsKept == Spec => []OrderKept
  <1>1. Init => Ordered(out, input)
    <2> SUFFICES ASSUME Init PROVE Ordered(out, input)
      OBVIOUS
    <2>1. DOMAIN out = {1} /\ out[1] = INSYNC /\ INSYNC.flag # "none"
      BY EntryFacts DEF Init, Flags
    <2> QED BY <2>1 DEF Ordered
  <1>2. IInv /\ Ordered(out, input) /\ [Next]_vars => Ordered(out, input)'
    BY NextOrdered
  <1>3. Ordered(out, input) => OrderKept
    BY OrderIsOrdered
  <1> QED BY <1>1, <1>2, <1>3, FilterInv, PTL DEF Spec

-----------------------------------------------------------------------------
(* The types, the counters included                                        *)

\* What is written from the buffer, and how it is counted, has its type.
LEMMA HeldTypes ==
  ASSUME TypeOK
  PROVE /\ Held \in Seq(Entry)
        /\ \A c \in [CountedTypes -> Nat] : Counted(c) \in [CountedTypes -> Nat]
  <1>1. /\ Len(bigbuf) \in Nat /\ DOMAIN bigbuf = 1..Len(bigbuf)
        /\ \A i \in 1..Len(bigbuf) : bigbuf[i] \in Nat
    BY DEF TypeOK
  <1>2. Held \in Seq(Entry)
    <2>1. \A i \in 1..Len(bigbuf) : Copy(bigbuf[i]) \in Entry
      BY <1>1, EntryFacts
    <2> QED BY <2>1, <1>1 DEF Held
  <1>3. \A t : Cardinality(OfType(t)) \in Nat
    <2>1. IsFiniteSet(DOMAIN bigbuf)
      BY <1>1, FS_Interval
    <2>2. \A t : OfType(t) \subseteq DOMAIN bigbuf
      BY DEF OfType
    <2> QED BY <2>1, <2>2, FS_Subset, FS_CardinalityType
  <1> QED BY <1>2, <1>3 DEF Counted

\* Every step keeps the types, those of the counters included.
LEMMA TypeNext ==
  ASSUME TypeOK, [Next]_vars
  PROVE TypeOK'
  <1>1. CASE OpenFirst
    BY <1>1 DEF TypeOK, OpenFirst, counters
  <1>2. CASE SwitchSegment
    <2>1. /\ UNCHANGED <<nsegs, input, bigbuf, endpointer, outofsync, out, ofile, counters>>
          /\ segno' = segno + 1 /\ ihandle' \in {"open", "null"}
          /\ pc' \in {"reading", "flushing"}
      BY <1>2 DEF SwitchSegment
    <2>2. fresh' \in BOOLEAN
      BY <1>2 DEF SwitchSegment, TypeOK
    <2>3. segno' \in Int
      BY <2>1 DEF TypeOK
    <2> QED BY <2>1, <2>2, <2>3 DEF TypeOK, counters
  <1>3. CASE EndOfInput
    BY <1>3 DEF TypeOK, EndOfInput, counters
  <1>n. Len(input) + 1 \in Nat /\ Copy(Len(input) + 1) \in Entry
    BY EntryFacts DEF TypeOK
  <1>f. OUTSYNC \in Entry /\ INSYNC \in Entry /\ EARLYEND \in Entry
    BY EntryFacts DEF Flags
  <1>4. ASSUME NEW e \in Events, Hold(e) \/ HoldEnd(e) \/ Overflow(e)
        PROVE TypeOK'
    <2>1. e.len \in Nat
      BY EventsAssumption
    <2>2. /\ input' = Append(input, e) /\ outofsync' = (outofsync \/ problems(e))
          /\ UNCHANGED <<segno, nsegs, ihandle, out, counters>> /\ fresh' = FALSE
          /\ pc' \in {"reading", "flushing", "stopped"} /\ ofile' \in {ofile, "cut"}
      BY <1>4 DEF Hold, HoldEnd, Overflow, Read, NowOutOfSync
    <2>3. \/ bigbuf' = bigbuf /\ endpointer' = endpointer
          \/ bigbuf' = Append(bigbuf, Len(input) + 1) /\ endpointer' = endpointer + e.len + 1
      BY <1>4 DEF Hold, HoldEnd, Overflow, appendevent
    <2>4. input' \in Seq(Events) /\ bigbuf' \in Seq(Nat) /\ endpointer' \in Nat
      <3>1. input \in Seq(Events) /\ bigbuf \in Seq(Nat) /\ endpointer \in Nat
        BY DEF TypeOK
      <3>2. input' \in Seq(Events)
        BY <3>1, <2>2
      <3>3. CASE bigbuf' = bigbuf /\ endpointer' = endpointer
        BY <3>1, <3>2, <3>3
      <3>4. CASE bigbuf' = Append(bigbuf, Len(input) + 1) /\ endpointer' = endpointer + e.len + 1
        BY <3>1, <3>2, <3>4, <2>1, <1>n
      <3> QED BY <3>3, <3>4, <2>3
    <2>5. outofsync' \in BOOLEAN
      BY <2>2 DEF TypeOK, problems
    <2>6. ofile' \in {"open", "closed", "cut"}
      BY <2>2 DEF TypeOK
    <2> QED BY <2>2, <2>4, <2>5, <2>6 DEF TypeOK, counters
  <1>5. ASSUME NEW e \in Events, SyncAfterProblem(e) \/ SyncInStep(e)
        PROVE TypeOK'
    <2>1. /\ input' = Append(input, e) /\ outofsync' \in {outofsync, FALSE}
          /\ UNCHANGED <<pc, segno, nsegs, ihandle, ofile>> /\ fresh' = FALSE
          /\ bigbuf' = <<>> /\ endpointer' = 0
          /\ goodevs' \in {goodevs, Counted(goodevs)}
          /\ badevs' \in {badevs, Counted(badevs)}
          /\ endevs' = endevs
      BY <1>5 DEF SyncAfterProblem, SyncInStep, Read, Cleared
    <2>2. out' \in Seq(Entry)
      <3> DEFINE one == <<Copy(Len(input) + 1)>>
                 two == <<OUTSYNC, Copy(Len(input) + 1)>>
                 held == Held
      <3>1. out \in Seq(Entry) /\ held \in Seq(Entry)
        BY HeldTypes DEF TypeOK
      <3>2. one \in Seq(Entry) /\ two \in Seq(Entry) /\ <<INSYNC>> \in Seq(Entry)
        BY <1>n, <1>f
      <3>3. \/ out' = ((out \o two) \o held) \o <<INSYNC>>
            \/ out' = (out \o one) \o held
            \/ out' = (out \o held) \o one
        BY <1>5 DEF SyncAfterProblem, SyncInStep
      <3> HIDE DEF one, two, held
      <3>4. /\ ((out \o two) \o held) \o <<INSYNC>> \in Seq(Entry)
            /\ (out \o one) \o held \in Seq(Entry)
            /\ (out \o held) \o one \in Seq(Entry)
        BY <3>1, <3>2
      <3> QED BY <3>3, <3>4
    <2>3. /\ goodevs' \in [CountedTypes -> Nat] /\ badevs' \in [CountedTypes -> Nat]
          /\ endevs' \in [CountedTypes -> Nat]
      BY <2>1, HeldTypes DEF TypeOK
    <2>4. input' \in Seq(Events) /\ bigbuf' \in Seq(Nat) /\ endpointer' \in Nat
      <3>1. input \in Seq(Events)
        BY DEF TypeOK
      <3> QED BY <3>1, <2>1
    <2>5. outofsync' \in BOOLEAN
      BY <2>1 DEF TypeOK
    <2> QED BY <2>1, <2>2, <2>3, <2>4, <2>5 DEF TypeOK
  <1>6. CASE FlushRest
    <2>1. /\ UNCHANGED <<segno, nsegs, ihandle, fresh, input, outofsync, ofile>>
          /\ pc' = "closing" /\ bigbuf' = <<>> /\ endpointer' = 0
          /\ goodevs' \in {goodevs, Counted(goodevs)}
          /\ badevs' \in {badevs, Counted(badevs)}
          /\ endevs' \in {endevs, Counted(endevs)}
      BY <1>6 DEF FlushRest, Cleared, invars, counters
    <2>2. out' \in Seq(Entry)
      <3> DEFINE held == Held
      <3>1. out \in Seq(Entry) /\ held \in Seq(Entry)
        BY HeldTypes DEF TypeOK
      <3>2. <<EARLYEND>> \in Seq(Entry) /\ <<OUTSYNC>> \in Seq(Entry)
        BY <1>f
      <3>3. \/ out' = out
            \/ out' = (out \o <<EARLYEND>>) \o held
            \/ out' = (out \o <<OUTSYNC>>) \o held
            \/ out' = out \o held
        BY <1>6 DEF FlushRest, counters
      <3> HIDE DEF held
      <3>4. /\ (out \o <<EARLYEND>>) \o held \in Seq(Entry)
            /\ (out \o <<OUTSYNC>>) \o held \in Seq(Entry)
            /\ out \o held \in Seq(Entry)
        BY <3>1, <3>2
      <3> QED BY <3>1, <3>3, <3>4
    <2>3. /\ goodevs' \in [CountedTypes -> Nat] /\ badevs' \in [CountedTypes -> Nat]
          /\ endevs' \in [CountedTypes -> Nat]
      BY <2>1, HeldTypes DEF TypeOK
    <2>4. bigbuf' \in Seq(Nat) /\ endpointer' \in Nat
      BY <2>1
    <2> QED BY <2>1, <2>2, <2>3, <2>4 DEF TypeOK
  <1>7. CASE Close
    BY <1>7 DEF TypeOK, Close, invars, counters
  <1>8. CASE UNCHANGED vars
    BY <1>8 DEF TypeOK, vars, invars, counters
  <1> QED BY <1>1, <1>2, <1>3, <1>4, <1>5, <1>6, <1>7, <1>8 DEF Next

\* Each variable keeps its type.
THEOREM TypeCorrect == Spec => []TypeOK
  <1>1. Init => TypeOK
    <2> SUFFICES ASSUME Init PROVE TypeOK
      OBVIOUS
    <2>1. INSYNC \in Entry
      BY EntryFacts DEF Flags
    <2>2. <<>> \in Seq(Events) /\ <<>> \in Seq(Nat) /\ <<INSYNC>> \in Seq(Entry)
      BY <2>1
    <2>3. nsegs \in Nat
      BY BoundsAssumption DEF Init
    <2>4. /\ input \in Seq(Events) /\ bigbuf \in Seq(Nat) /\ out \in Seq(Entry)
      BY <2>2 DEF Init
    <2>5. /\ goodevs \in [CountedTypes -> Nat] /\ badevs \in [CountedTypes -> Nat]
          /\ endevs \in [CountedTypes -> Nat]
      BY DEF Init
    <2>6. /\ pc = "opening" /\ segno \in Int /\ ihandle = "unopened" /\ fresh = FALSE
          /\ endpointer \in Nat /\ outofsync = FALSE /\ ofile = "open"
      BY DEF Init
    <2> QED BY <2>3, <2>4, <2>5, <2>6 DEF TypeOK
  <1> QED BY <1>1, TypeNext, PTL DEF Spec

-----------------------------------------------------------------------------
(* What the engine relies on of the filter's output                        *)

\* A flag lies between a synchronization event and a later event under OUTSYNC.
Fenced(o, v) ==
  \A i, j \in DOMAIN o :
    /\ i < j /\ o[i].flag = "none" /\ o[j].flag = "none"
    /\ IsSync(v[o[i].n]) /\ o[i].n < o[j].n /\ UnderIn(o, OUTSYNC, j)
    => \E k \in (i + 1)..j : o[k].flag # "none"

\* The flags in o are the three flags, and INSYNC is the first entry.
Flagged(o) ==
  /\ 1 \in DOMAIN o /\ o[1] = INSYNC
  /\ \A i \in DOMAIN o : o[i].flag # "none" => o[i] \in Flags

OutputInv ==
  /\ Flagged(out)
  /\ Fenced(out, input)
  /\ \A m \in FirstHeld..Len(input) : ~IsSync(input[m])

\* Output that has been continued
Continues(o, p) ==
  Len(o) <= Len(p) /\ \A i \in 1..Len(o) : p[i] = o[i]

\* Appending to a fenced output copies that are under another flag, or that
\* follow an OUTSYNC at once and hold no synchronization event but their last.
LEMMA FencedConcat ==
  ASSUME NEW o \in Seq(Entry), NEW v, NEW w \in Seq(Entry), Fenced(o, v), Quiet(w),
         \/ ~LastFlag(o, OUTSYNC)
         \/ /\ o # <<>> /\ o[Len(o)].flag # "none"
            /\ \A i, j \in DOMAIN w : IsSync(v[w[i].n]) => ~(w[i].n < w[j].n)
  PROVE Fenced(o \o w, v)
  <1> DEFINE c == o \o w
  <1>e. /\ DOMAIN o = 1..Len(o) /\ DOMAIN w = 1..Len(w) /\ Len(o) \in Nat /\ Len(w) \in Nat
        /\ DOMAIN c = 1..(Len(o) + Len(w))
        /\ \A i \in 1..Len(o) : c[i] = o[i]
        /\ \A i \in DOMAIN c : i \in 1..Len(o) \/ (i - Len(o) \in 1..Len(w) /\ c[i] = w[i - Len(o)])
    BY Elements
  <1>1. \A i \in 1..Len(o) : UnderIn(c, OUTSYNC, i) <=> UnderIn(o, OUTSYNC, i)
    BY UnderKept
  <1>2. \A i \in 0..Len(w) : UnderIn(c, OUTSYNC, Len(o) + i) <=> LastFlag(o, OUTSYNC)
    BY UnderQuiet DEF LastFlag, Flags
  <1> HIDE DEF c
  <1>3. ASSUME NEW i \in DOMAIN c, NEW j \in DOMAIN c,
               i < j, c[i].flag = "none", c[j].flag = "none",
               IsSync(v[c[i].n]), c[i].n < c[j].n, UnderIn(c, OUTSYNC, j)
        PROVE \E k \in (i + 1)..j : c[k].flag # "none"
    <2>0. i \in Nat /\ j \in Nat
      BY <1>e
    <2>1. CASE j \in 1..Len(o)
      <3>1. i \in DOMAIN o /\ j \in DOMAIN o /\ c[i] = o[i] /\ c[j] = o[j] /\ UnderIn(o, OUTSYNC, j)
        BY <2>0, <2>1, <1>1, <1>3, <1>e
      <3>2. PICK k \in (i + 1)..j : o[k].flag # "none"
        BY <3>1, <1>3 DEF Fenced
      <3>3. c[k] = o[k]
        BY <2>0, <2>1, <1>e
      <3> QED BY <3>2, <3>3
    <2>2. CASE j \notin 1..Len(o)
      <3>1. j - Len(o) \in 0..Len(w) /\ j = Len(o) + (j - Len(o)) /\ j > Len(o)
        <4>1. j > Len(o)
          BY <2>0, <2>2, <1>e
        <4>2. j - Len(o) \in 1..Len(w)
          BY SMTT(30), <2>2, <1>e
        <4>3. PICK L \in Nat : L = Len(o)
          BY <1>e
        <4>4. j = L + (j - L)
          BY <2>0, <4>3
        <4>5. j - Len(o) \in 0..Len(w)
          BY <4>2, <1>e
        <4> QED BY <4>1, <4>3, <4>4, <4>5
      <3>2. LastFlag(o, OUTSYNC)
        BY <3>1, <1>2, <1>3
      <3>3. /\ Len(o) > 0 /\ o[Len(o)].flag # "none"
            /\ \A a, b \in DOMAIN w : IsSync(v[w[a].n]) => ~(w[a].n < w[b].n)
        BY <3>2, <1>e
      <3>4. Len(o) \in 1..Len(o) /\ c[Len(o)].flag # "none"
        BY <3>3, <1>e
      <3>5. CASE i < Len(o)
        BY <3>1, <3>4, <3>5, <2>0, <1>e
      <3>6. i # Len(o)
        BY <3>4, <1>3
      <3>7. CASE i > Len(o)
        <4>1. i - Len(o) \in DOMAIN w /\ c[i] = w[i - Len(o)]
          BY <3>7, <2>0, <1>e
        <4>2. j - Len(o) \in DOMAIN w /\ c[j] = w[j - Len(o)]
          BY <2>2, <2>0, <1>e
        <4> QED BY <4>1, <4>2, <3>3, <1>3
      <3> QED BY <3>5, <3>6, <3>7, <2>0, <1>e
    <2> QED BY <2>1, <2>2
  <1> QED BY <1>3 DEF Fenced, c

\* A flag may be appended at any time.
LEMMA FencedFlag ==
  ASSUME NEW o \in Seq(Entry), NEW v, Fenced(o, v), NEW f \in Flags
  PROVE Fenced(o \o <<f>>, v)
  <1> DEFINE c == o \o <<f>>
  <1>1. f \in Entry /\ f.flag # "none"
    BY EntryFacts
  <1>2. /\ DOMAIN o = 1..Len(o) /\ Len(o) \in Nat /\ DOMAIN c = 1..(Len(o) + 1)
        /\ c[Len(o) + 1] = f
        /\ \A i \in 1..Len(o) : c[i] = o[i]
    BY <1>1
  <1>3. \A i \in 1..Len(o) : UnderIn(c, OUTSYNC, i) <=> UnderIn(o, OUTSYNC, i)
    BY <1>1, UnderKept
  <1> HIDE DEF c
  <1>4. ASSUME NEW i \in DOMAIN c, NEW j \in DOMAIN c,
               i < j, c[i].flag = "none", c[j].flag = "none",
               IsSync(v[c[i].n]), c[i].n < c[j].n, UnderIn(c, OUTSYNC, j)
        PROVE \E k \in (i + 1)..j : c[k].flag # "none"
    <2>1. i \in DOMAIN o /\ j \in DOMAIN o /\ c[i] = o[i] /\ c[j] = o[j] /\ UnderIn(o, OUTSYNC, j)
      BY <1>1, <1>2, <1>3, <1>4
    <2>2. PICK k \in (i + 1)..j : o[k].flag # "none"
      BY <2>1, <1>4 DEF Fenced
    <2>3. c[k] = o[k]
      BY <2>1, <1>2
    <2> QED BY <2>2, <2>3
  <1> QED BY <1>4 DEF Fenced, c

\* Copies and flags may be appended to a flagged output.
LEMMA FlaggedConcat ==
  ASSUME NEW o \in Seq(Entry), Flagged(o), NEW w \in Seq(Entry),
         Quiet(w) \/ \E f \in Flags : w = <<f>>
  PROVE Flagged(o \o w) /\ Continues(o, o \o w)
  <1> DEFINE c == o \o w
  <1>e. /\ DOMAIN o = 1..Len(o) /\ DOMAIN w = 1..Len(w) /\ Len(o) \in Nat /\ Len(w) \in Nat
        /\ DOMAIN c = 1..(Len(o) + Len(w)) /\ Len(c) = Len(o) + Len(w)
        /\ \A i \in 1..Len(o) : c[i] = o[i]
        /\ \A i \in DOMAIN c : i \in 1..Len(o) \/ (i - Len(o) \in 1..Len(w) /\ c[i] = w[i - Len(o)])
    BY Elements
  <1>1. \A i \in DOMAIN w : w[i].flag # "none" => w[i] \in Flags
    <2>1. CASE Quiet(w)
      BY <2>1 DEF Quiet
    <2>2. ASSUME NEW f \in Flags, w = <<f>>
          PROVE \A i \in DOMAIN w : w[i] \in Flags
      BY <2>2
    <2> QED BY <2>1, <2>2
  <1> HIDE DEF c
  <1>2. Flagged(c)
    BY <1>e, <1>1 DEF Flagged
  <1>3. Continues(o, c)
    BY <1>e DEF Continues
  <1> QED BY <1>2, <1>3 DEF c

\* Continuing twice
LEMMA ContinuesOn ==
  ASSUME NEW o \in Seq(Entry), NEW p \in Seq(Entry), NEW q \in Seq(Entry),
         Continues(o, p), Continues(p, q)
  PROVE Continues(o, q)
  BY DEF Continues

-----------------------------------------------------------------------------
(* The filter keeps it                                                     *)

\* Another event changes nothing for what was passed on.
LEMMA KeepsFenced ==
  ASSUME IInv, Fenced(out, input), NEW e \in Events
  PROVE Fenced(out, Append(input, e))
  <1>1. /\ input \in Seq(Events) /\ Len(input) \in Nat /\ FirstHeld \in 1..(Len(input) + 1)
    BY HeldFacts DEF IInv, TypeInv
  <1>2. \A i \in DOMAIN out : out[i].flag = "none" =>
          out[i].n \in 1..Len(input) /\ Append(input, e)[out[i].n] = input[out[i].n]
    <2>1. \A i \in DOMAIN out : out[i].flag = "none" => out[i].n \in 1..(FirstHeld - 1)
      BY DEF IInv, CopiedInv, Copies
    <2>2. 1..(FirstHeld - 1) \subseteq 1..Len(input)
      BY <1>1
    <2>3. \A m \in 1..Len(input) : Append(input, e)[m] = input[m]
      BY <1>1, Appended
    <2> QED BY <2>1, <2>2, <2>3
  <1> QED BY <1>2 DEF Fenced

\* The synchronization event N is the last of those that end with it.
LEMMA EndsItsInterval ==
  ASSUME IInv, pc = "reading", NEW e \in Events, IsSync(e)
  PROVE LET one == <<Copy(Len(input) + 1)>>
            a == Append(input, e)
            w == one \o Held
        IN /\ w \in Seq(Entry) /\ Quiet(w)
           /\ \A i, j \in DOMAIN w : IsSync(a[w[i].n]) => ~(w[i].n < w[j].n)
  <1> DEFINE N == Len(input) + 1
             one == <<Copy(N)>>
             a == Append(input, e)
             w == one \o Held
  <1>1. /\ Len(input) \in Nat /\ FirstHeld \in 1..N /\ LastHeld = Len(input)
        /\ \A m \in FirstHeld..LastHeld : ~IsSync(a[m])
    BY SyncOrder
  <1>2. /\ one \in Seq(Entry) /\ Quiet(one) /\ Held \in Seq(Entry) /\ Quiet(Held)
        /\ \A i \in DOMAIN Held : Held[i].n \in FirstHeld..LastHeld
    BY EndedEntries, HeldCopies DEF IInv
  <1>3. DOMAIN one = {1} /\ Len(one) = 1 /\ one[1].n = N
    BY <1>1, EntryFacts
  <1>4. /\ w \in Seq(Entry)
        /\ \A i \in DOMAIN w : \/ i \in 1..Len(one) /\ w[i] = one[i]
                               \/ i - Len(one) \in DOMAIN Held /\ w[i] = Held[i - Len(one)]
    BY <1>2, Elements
  <1> HIDE DEF one, w, a, N
  <1>a. \A i \in DOMAIN w : \/ w[i] = one[1]
                           \/ \E j \in DOMAIN Held : w[i] = Held[j]
    BY SMTT(30), <1>3, <1>4
  <1>5. \A i \in DOMAIN w : w[i].flag = "none"
    BY <1>a, <1>2, <1>3 DEF Quiet
  <1>6. \A i \in DOMAIN w : w[i].n = N \/ w[i].n \in FirstHeld..LastHeld
    BY <1>a, <1>2, <1>3
  <1>7. N \in Nat /\ \A m \in FirstHeld..LastHeld : ~(N < m)
    BY <1>1 DEF N
  <1>8. \A i, j \in DOMAIN w : IsSync(a[w[i].n]) => ~(w[i].n < w[j].n)
    BY <1>1, <1>6, <1>7
  <1> QED BY <1>4, <1>5, <1>8 DEF Quiet, one, w, a, N

\* What is passed on when an interval ends
LEMMA SyncOutput ==
  ASSUME IInv, OutputInv, NEW e \in Events, SyncAfterProblem(e) \/ SyncInStep(e)
  PROVE Flagged(out') /\ Fenced(out', input') /\ Continues(out, out')
  <1> DEFINE one == <<Copy(Len(input) + 1)>>
             a == Append(input, e)
  <1>1. pc = "reading" /\ IsSync(e) /\ input' = a
    BY DEF SyncAfterProblem, SyncInStep, Read
  <1>2. /\ one \in Seq(Entry) /\ Quiet(one) /\ Held \in Seq(Entry) /\ Quiet(Held)
        /\ Len(input) + 1 \in Nat
    BY <1>1, EndedEntries
  <1>3. /\ out \in Seq(Entry) /\ Flagged(out) /\ Fenced(out, a) /\ LastFlag(out, INSYNC)
    BY <1>1, KeepsFenced DEF IInv, TypeInv, IntervalInv, Loop, OutputInv
  <1>4. OUTSYNC \in Flags /\ INSYNC \in Flags /\ OUTSYNC # INSYNC /\ OUTSYNC.flag # "none"
    BY EntryFacts DEF Flags
  <1>5. ~LastFlag(out, OUTSYNC)
    BY <1>3, <1>4, OneLastFlag
  <1>6. CASE SyncAfterProblem(e)
    <2> DEFINE o1 == out \o <<OUTSYNC>>
               w == one \o Held
               o2 == o1 \o w
               o3 == o2 \o <<INSYNC>>
    <2>0. /\ <<OUTSYNC>> \in Seq(Entry) /\ <<INSYNC>> \in Seq(Entry)
      BY <1>4, EntryFacts
    <2>1. /\ w \in Seq(Entry) /\ Quiet(w)
          /\ \A i, j \in DOMAIN w : IsSync(a[w[i].n]) => ~(w[i].n < w[j].n)
      BY <1>1, EndsItsInterval
    <2>2. out' = o3
      <3>1. Copy(Len(input) + 1) \in Entry /\ OUTSYNC \in Entry
        BY <1>2, <1>4, EntryFacts
      <3>2. <<OUTSYNC, Copy(Len(input) + 1)>> = <<OUTSYNC>> \o one
        BY <3>1
      <3>3. out \o (<<OUTSYNC>> \o one) = o1 \o one
        BY <2>0, <1>2, <1>3, ConcatAssociative
      <3>4. o1 \in Seq(Entry)
        BY <2>0, <1>3
      <3>5. (o1 \o one) \o Held = o2
        BY SMTT(30), <3>4, <1>2, ConcatAssociative
      <3>6. out' = ((out \o <<OUTSYNC, Copy(Len(input) + 1)>>) \o Held) \o <<INSYNC>>
        BY <1>6 DEF SyncAfterProblem
      <3> QED BY <3>2, <3>3, <3>5, <3>6
    <2>3. o1 \in Seq(Entry) /\ o1 # <<>> /\ o1[Len(o1)] = OUTSYNC
      BY <2>0, <1>3
    <2> HIDE DEF o1, o2, o3, w, one, a
    <2>4. Flagged(o1) /\ Fenced(o1, a) /\ Continues(out, o1)
      BY <2>0, <1>3, <1>4, FencedFlag, FlaggedConcat DEF o1
    <2>5. o2 \in Seq(Entry) /\ Flagged(o2) /\ Continues(o1, o2)
      BY <2>1, <2>3, <2>4, FlaggedConcat DEF o2
    <2>6. Fenced(o2, a)
      BY <2>1, <2>3, <2>4, <1>4, FencedConcat DEF o2
    <2>7. o3 \in Seq(Entry) /\ Flagged(o3) /\ Fenced(o3, a) /\ Continues(o2, o3)
      <3>1. o3 \in Seq(Entry)
        BY <2>0, <2>5 DEF o3
      <3>2. Fenced(o3, a)
        BY <2>5, <2>6, <1>4, FencedFlag DEF o3
      <3>3. Flagged(o3) /\ Continues(o2, o3)
        BY <2>0, <2>5, <1>4, FlaggedConcat DEF o3
      <3> QED BY <3>1, <3>2, <3>3
    <2>8. Continues(out, o3)
      BY <2>3, <2>4, <2>5, <2>7, <1>3, ContinuesOn
    <2> QED BY <2>2, <2>7, <2>8, <1>1
  <1>7. CASE SyncInStep(e)
    <2>1. \E w \in {one \o Held, Held \o one} : out' = out \o w
      <3>1. (out \o one) \o Held = out \o (one \o Held) /\ (out \o Held) \o one = out \o (Held \o one)
        BY SMTT(30), <1>2, <1>3, ConcatAssociative
      <3> QED BY <3>1, <1>7 DEF SyncInStep
    <2>2. PICK w \in {one \o Held, Held \o one} : out' = out \o w
      BY <2>1
    <2>3. w \in Seq(Entry) /\ Quiet(w)
      <3>1. ASSUME NEW x \in Seq(Entry), NEW y \in Seq(Entry), Quiet(x), Quiet(y)
            PROVE x \o y \in Seq(Entry) /\ Quiet(x \o y)
        <4>1. /\ x \o y \in Seq(Entry) /\ DOMAIN x = 1..Len(x) /\ DOMAIN y = 1..Len(y)
              /\ \A i \in DOMAIN (x \o y) : \/ i \in 1..Len(x) /\ (x \o y)[i] = x[i]
                                            \/ i - Len(x) \in 1..Len(y) /\ (x \o y)[i] = y[i - Len(x)]
          BY Elements
        <4> QED BY <4>1, <3>1 DEF Quiet
      <3> HIDE DEF one
      <3> QED BY <3>1, <1>2
    <2> HIDE DEF one, a
    <2>4. Fenced(out \o w, a)
      BY <2>3, <1>3, <1>5, FencedConcat
    <2>5. Flagged(out \o w) /\ Continues(out, out \o w)
      BY <2>3, <1>3, FlaggedConcat
    <2> QED BY <2>2, <2>4, <2>5, <1>1
  <1> QED BY <1>6, <1>7

\* What is passed on at the end
LEMMA FlushOutput ==
  ASSUME IInv, OutputInv, FlushRest
  PROVE Flagged(out') /\ Fenced(out', input') /\ Continues(out, out')
  <1>1. pc = "flushing" /\ input' = input
    BY DEF FlushRest
  <1>2. /\ out \in Seq(Entry) /\ Flagged(out) /\ Fenced(out, input) /\ LastFlag(out, INSYNC)
        /\ \A m \in FirstHeld..LastHeld : ~IsSync(input[m])
    BY <1>1 DEF IInv, TypeInv, IntervalInv, Loop, OutputInv
  <1>3. /\ Held \in Seq(Entry) /\ Quiet(Held)
        /\ \A i \in DOMAIN Held : Held[i].n \in FirstHeld..LastHeld
    BY HeldCopies DEF IInv
  <1>4. /\ OUTSYNC \in Flags /\ INSYNC \in Flags /\ EARLYEND \in Flags /\ OUTSYNC # INSYNC
        /\ \A f \in Flags : f \in Entry /\ f.flag # "none"
    BY EntryFacts DEF Flags
  <1>5. ~LastFlag(out, OUTSYNC)
    BY <1>2, <1>4, OneLastFlag
  <1>6. Len(out) \in Nat /\ Continues(out, out)
    BY <1>2 DEF Continues
  <1>7. Flagged(out \o Held) /\ Fenced(out \o Held, input) /\ Continues(out, out \o Held)
    BY <1>2, <1>3, <1>5, FencedConcat, FlaggedConcat
  <1>8. ASSUME NEW f \in Flags
        PROVE LET o == (out \o <<f>>) \o Held
              IN Flagged(o) /\ Fenced(o, input) /\ Continues(out, o)
    <2> DEFINE o1 == out \o <<f>>
    <2>1. <<f>> \in Seq(Entry) /\ o1 \in Seq(Entry) /\ o1 # <<>> /\ o1[Len(o1)] = f
      BY <1>2, <1>4
    <2>2. Flagged(o1) /\ Fenced(o1, input) /\ Continues(out, o1)
      BY <2>1, <1>2, FencedFlag, FlaggedConcat
    <2> HIDE DEF o1
    <2>3. Fenced(o1 \o Held, input)
      BY <2>1, <2>2, <1>2, <1>3, <1>4, FencedConcat
    <2>4. o1 \o Held \in Seq(Entry) /\ Flagged(o1 \o Held) /\ Continues(o1, o1 \o Held)
      BY <2>1, <2>2, <1>3, FlaggedConcat
    <2>5. Continues(out, o1 \o Held)
      BY <2>1, <2>2, <2>4, <1>2, ContinuesOn
    <2> QED BY <2>3, <2>4, <2>5 DEF o1
  <1>9. \/ out' = out
        \/ out' = (out \o <<EARLYEND>>) \o Held
        \/ out' = (out \o <<OUTSYNC>>) \o Held
        \/ out' = out \o Held
    BY DEF FlushRest
  <1> QED BY <1>1, <1>2, <1>4, <1>6, <1>7, <1>8, <1>9

\* Every step of the filter keeps the invariant of its output, which grows at
\* its end only, as does the input.
LEMMA NextOutput ==
  ASSUME IInv, OutputInv, [Next]_vars
  PROVE /\ OutputInv'
        /\ Continues(out, out') /\ Len(input) <= Len(input')
        /\ \A n \in 1..Len(input) : input'[n] = input[n]
  <1>0. IInv'
    BY NextInv
  <1>1. /\ input \in Seq(Events) /\ out \in Seq(Entry) /\ Len(input) \in Nat /\ Len(out) \in Nat
    BY DEF IInv, TypeInv
  <1>2. \/ input' = input
        \/ pc = "reading" /\ \E e \in Events : input' = Append(input, e)
    BY DEF Next, OpenFirst, SwitchSegment, EndOfInput, Hold, HoldEnd, Overflow,
           SyncAfterProblem, SyncInStep, Read, FlushRest, Close, vars
  <1>3. Len(input) <= Len(input') /\ \A n \in 1..Len(input) : input'[n] = input[n]
    BY <1>1, <1>2, Appended
  <1>4. Flagged(out') /\ Fenced(out', input') /\ Continues(out, out')
    <2>1. ASSUME NEW e \in Events, Hold(e) \/ HoldEnd(e) \/ Overflow(e)
          PROVE Flagged(out') /\ Fenced(out', input') /\ Continues(out, out')
      <3>1. input' = Append(input, e) /\ out' = out
        BY <2>1 DEF Hold, HoldEnd, Overflow, Read
      <3> QED BY <3>1, <1>1, KeepsFenced DEF OutputInv, Continues
    <2>2. CASE OpenFirst \/ SwitchSegment \/ EndOfInput \/ Close \/ UNCHANGED vars
      <3>1. input' = input /\ out' = out
        BY <2>2 DEF OpenFirst, SwitchSegment, EndOfInput, Close, invars, vars
      <3> QED BY <3>1, <1>1 DEF OutputInv, Continues
    <2> QED BY <2>1, <2>2, SyncOutput, FlushOutput DEF Next
  <1>5. \A m \in FirstHeld'..Len(input') : ~IsSync(input'[m])
    <2>1. CASE pc' # "stopped"
      <3>1. LastHeld' = Len(input')
        BY <2>1, <1>0 DEF IInv, HeldInv
      <3> QED BY <3>1, <1>0 DEF IInv, IntervalInv
    <2>2. CASE pc' = "stopped" /\ pc # "stopped" /\ \E e \in Events : Overflow(e)
      <3>1. PICK e \in Events : Overflow(e)
        BY <2>2
      <3>2. input' = Append(input, e) /\ bigbuf' = bigbuf /\ ~IsSync(e)
        BY <3>1 DEF Overflow, Read
      <3>3. /\ input'[Len(input) + 1] = e /\ Len(input') = Len(input) + 1
            /\ \A n \in 1..Len(input) : input'[n] = input[n]
        BY <3>2, <1>1, Appended
      <3>4. FirstHeld \in 1..(Len(input) + 1)
        BY HeldFacts DEF IInv
      <3>5. FirstHeld' \in Nat /\ FirstHeld' >= FirstHeld
        BY <3>2, <3>3, <3>4, <1>1 DEF FirstHeld
      <3>6. ASSUME NEW m \in FirstHeld'..Len(input') PROVE ~IsSync(input'[m])
        <4>1. m \in FirstHeld..Len(input) \/ m = Len(input) + 1
          BY <3>3, <3>4, <3>5, <1>1
        <4>2. m \in FirstHeld..Len(input) => m \in 1..Len(input)
          BY <3>4, <1>1
        <4> QED BY <4>1, <4>2, <3>2, <3>3 DEF OutputInv
      <3> QED BY <3>6
    <2>3. CASE input' = input /\ bigbuf' = bigbuf
      <3>1. FirstHeld' = FirstHeld
        BY <2>3 DEF FirstHeld
      <3> QED BY <3>1, <2>3 DEF OutputInv
    <2>4. pc' = "stopped" => \/ input' = input /\ bigbuf' = bigbuf
                             \/ pc # "stopped" /\ \E e \in Events : Overflow(e)
      <3> SUFFICES ASSUME pc' = "stopped" PROVE \/ input' = input /\ bigbuf' = bigbuf
                                                \/ pc # "stopped" /\ \E e \in Events : Overflow(e)
        OBVIOUS
      <3>1. CASE \E e \in Events : Overflow(e)
        BY <3>1 DEF Overflow, Read
      <3>2. CASE Close \/ UNCHANGED vars
        BY <3>2 DEF Close, vars
      <3>3. CASE OpenFirst \/ SwitchSegment \/ EndOfInput \/ FlushRest
        BY <3>3 DEF OpenFirst, SwitchSegment, EndOfInput, FlushRest
      <3>4. CASE \E e \in Events : Hold(e) \/ HoldEnd(e) \/ SyncAfterProblem(e) \/ SyncInStep(e)
        BY <3>4 DEF Hold, HoldEnd, SyncAfterProblem, SyncInStep, Read
      <3> QED BY <3>1, <3>2, <3>3, <3>4 DEF Next
    <2> QED BY <2>1, <2>2, <2>3, <2>4
  <1> QED BY <1>3, <1>4, <1>5 DEF OutputInv

\* It holds at first.
LEMMA InitOutput ==
  ASSUME Init
  PROVE OutputInv
  <1>1. DOMAIN out = {1} /\ out[1] = INSYNC /\ INSYNC.flag # "none" /\ INSYNC \in Flags
    BY EntryFacts DEF Init, Flags
  <1>2. Len(input) = 0 /\ FirstHeld = 1
    BY DEF Init, FirstHeld
  <1> QED BY <1>1, <1>2 DEF OutputInv, Flagged, Fenced

-----------------------------------------------------------------------------
(* What the engine makes of a sequence S of events and flag events         *)

FLAG == 251

\* The last flag event, the last scaler event up to place p
LastFlagAt(S, j, p) ==
  j \in 1..p /\ S[j].type = FLAG /\ \A k \in (j + 1)..p : S[k].type # FLAG
LastReadingAt(S, q, p) ==
  q \in 1..p /\ S[q].type = SCALERSYNC /\ \A k \in (q + 1)..p : S[k].type # SCALERSYNC

\* A GO event, and a scaler event after a GO event, come before place q.
Started(S, q) == \E a \in 1..(q - 1) : S[a].type = GOEVENT
Ready(S, q) == \E b \in 1..(q - 1) : S[b].type = SCALERSYNC /\ Started(S, b)

\* No other flag than INSYNC is in force at place q.
InStep(S, q) == \A j : LastFlagAt(S, j, q) => S[j].flag = 0

\* The main loop has seen an OUTSYNC that is in force at place q.
OutOfStep(S, q) == \E j : LastFlagAt(S, j, q) /\ Started(S, j) /\ S[j].flag = 1

\* The readings after place q, up to place p
Later(S, q, p) == {x \in (q + 1)..p : S[x].type = SCALERSYNC}

\* The scaler event at q yields a current, and charge.
Usable(S, q) == S[q].type = SCALERSYNC /\ Ready(S, q) /\ S[q].bcm # -1
Charged(S, q) == InStep(S, q) /\ S[q].bcm >= Threshold /\ ~S[q].long

\* The types that the proof needs
EngineType ==
  /\ phase \in {"runinfo", "analysis", "ended"}
  /\ total_event_count \in Nat
  /\ syncfilter_on \in BOOLEAN
  /\ insync \in Nat
  /\ analyzed_events \in [E!TrigTypes -> Nat]
  /\ num_events_skipped \in Nat
  /\ ave_current_bcm \in Int
  /\ skip_events \in BOOLEAN
  /\ results \in Seq([n : Nat, read : Nat])

\* The filter is known to be on from the first event; before the GO event the
\* flags pass unnoticed.
StartInv(S) ==
  LET p == total_event_count
  IN /\ p = 0 => phase # "analysis" /\ insync = 0
     /\ p > 0 => syncfilter_on
     /\ phase = "runinfo" => insync = 0 /\ \A q \in 1..p : S[q].type # GOEVENT

\* insync is the last flag, or 0 when that was met before the GO event.
InsyncInv(S) ==
  LET p == total_event_count
  IN /\ insync # 0 => \E j : LastFlagAt(S, j, p) /\ S[j].flag = insync
     /\ \A j : LastFlagAt(S, j, p) /\ Started(S, j) => insync = S[j].flag

\* The last reading, if it can be used, is in force and its charge counted.
ReadingInv(S) ==
  LET p == total_event_count
  IN /\ \A q \in 1..p : S[q].type = SCALERSYNC /\ Started(S, q) => analyzed_events[0] >= 1
     /\ \A q : LastReadingAt(S, q, p) /\ Ready(S, q) => analyzed_events[0] >= 2
     /\ \A q : LastReadingAt(S, q, p) /\ Usable(S, q) =>
          /\ ave_current_bcm = S[q].bcm /\ skip_events = S[q].long
          /\ Charged(S, q) => analyzed_events[0] \in beam_on

\* No event was analyzed under OUTSYNC; if the reading in force yields charge,
\* its charge was counted.
ResultsInv(S) ==
  \A i \in DOMAIN results :
    LET r == results[i].n
    IN /\ r \in 1..total_event_count /\ S[r].type # FLAG
       /\ S[r].type \notin {0, 4} =>
            /\ \A j : LastFlagAt(S, j, r) /\ Started(S, j) => S[j].flag # 1
            /\ \A q : LastReadingAt(S, q, r) /\ Usable(S, q) /\ InStep(S, q) =>
                 results[i].read \in beam_on

\* The events that a reading with charge speaks for have been analyzed.
KeptInv(S) ==
  \A p \in 1..total_event_count :
    /\ S[p].type \in (Enabled \cap 1..8) \ {4} /\ ~S[p].fault /\ InStep(S, p)
    /\ \E q : LastReadingAt(S, q, p) /\ Usable(S, q) /\ S[q].bcm >= Threshold /\ ~S[q].long
    => \E i \in DOMAIN results : results[i].n = p

\* The reading at place q is in the sums that it deserves, under the number k.
SummedAs(S, q, k) ==
  /\ InStep(S, q) =>
       /\ k \in gscaler_saved <=> S[q].bcm > Threshold /\ ~S[q].long
       /\ k \in gscaler_skipped <=> ~(S[q].bcm > Threshold /\ ~S[q].long)
       /\ k \in beam_on <=> S[q].bcm >= Threshold /\ ~S[q].long
  /\ OutOfStep(S, q) =>
       k \in gscaler_skipped /\ k \notin gscaler_saved /\ k \notin beam_on

\* What is in the sums has a number that was given, and all readings that can be
\* used are in those that they deserve.
SumsInv(S) ==
  LET p == total_event_count
  IN /\ gscaler_saved \cup gscaler_skipped \cup beam_on \subseteq 1..analyzed_events[0]
     /\ \A q \in 1..p : Usable(S, q) =>
          SummedAs(S, q, analyzed_events[0] - Cardinality(Later(S, q, p)))

EngineInv(S) ==
  EngineType /\ StartInv(S) /\ InsyncInv(S) /\ ReadingInv(S) /\ ResultsInv(S) /\ KeptInv(S)

\* An event that the engine may read
EventOk(e) ==
  /\ e.type \in Nat /\ e.bcm \in Int /\ e.flag \in Nat /\ e.long \in BOOLEAN

(* What the ways of Process have in common                                 *)

\* In the run information loop an event changes the phase and syncfilter_on.
Informed(e) ==
  /\ phase = "runinfo"
  /\ phase' \in {"runinfo", "analysis"}
  /\ e.type = GOEVENT => phase' = "analysis"
  /\ syncfilter_on' = (syncfilter_on \/ e.type = FLAG)
  /\ UNCHANGED <<insync, analyzed_events, num_events_skipped, ave_current_bcm, skip_events,
                 gscaler_saved, gscaler_skipped, beam_on, results>>

\* A scaler event in the main loop
ReadingTaken(e) ==
  /\ phase = "analysis" /\ e.type = SCALERSYNC
  /\ phase' \in {"analysis", "ended"}
  /\ analyzed_events' = [analyzed_events EXCEPT ![0] = @ + 1]
  /\ E!Reading(e, analyzed_events[0] + 1)
  /\ IF syncfilter_on THEN E!SortReading(analyzed_events[0] + 1)
                      ELSE UNCHANGED <<gscaler_saved, gscaler_skipped>>
  /\ UNCHANGED <<syncfilter_on, insync, num_events_skipped, results>>

\* A trigger event that is not analyzed, and why
Dropped(e) ==
  /\ phase = "analysis" /\ E!TypeOf(e) \in 1..15
  /\ phase' \in {"analysis", "ended"}
  /\ \/ E!TooEarly(e)
     \/ E!TypeOf(e) \notin Enabled
     \/ insync = 1 \/ skip_events \/ E!NoBeam
     \/ num_events_skipped < 0
  /\ num_events_skipped' \in {num_events_skipped, num_events_skipped + 1}
  /\ UNCHANGED <<syncfilter_on, insync, analyzed_events, ave_current_bcm, skip_events,
                 gscaler_saved, gscaler_skipped, beam_on, results>>

\* A trigger event that is analyzed
Analyzed(e) ==
  /\ phase = "analysis" /\ E!TypeOf(e) \in 1..15
  /\ phase' \in {"analysis", "ended"}
  /\ syncfilter_on /\ E!TypeOf(e) # 4 => insync # 1 /\ ~skip_events /\ ~E!NoBeam
  /\ analyzed_events' = [analyzed_events EXCEPT ![E!TypeOf(e)] = @ + 1]
  /\ results' = IF E!TypeOf(e) \in 1..8 /\ ~e.fault
                THEN Append(results, [n |-> total_event_count + 1, read |-> analyzed_events[0]])
                ELSE results
  /\ UNCHANGED <<syncfilter_on, insync, num_events_skipped, ave_current_bcm, skip_events,
                 gscaler_saved, gscaler_skipped, beam_on>>

\* A flag event, or one of another type
Passed(e) ==
  /\ phase = "analysis" /\ e.type > 15
  /\ phase' \in {"analysis", "ended"}
  /\ insync' = IF e.type = FLAG THEN e.flag ELSE insync
  /\ UNCHANGED <<syncfilter_on, analyzed_events, num_events_skipped, ave_current_bcm, skip_events,
                 gscaler_saved, gscaler_skipped, beam_on, results>>

\* Every way of Process is one of these.
LEMMA ProcessCases ==
  ASSUME NEW e, e.type \in Nat, E!Process(e)
  PROVE /\ total_event_count' = total_event_count + 1
        /\ Informed(e) \/ ReadingTaken(e) \/ Dropped(e) \/ Analyzed(e) \/ Passed(e)
  <1>1. total_event_count' = total_event_count + 1
    BY DEF E!Process, E!RunInfo, E!ScalerEvent, E!SkipBeforeScaler, E!SkipDisabled,
           E!SkipBadSync, E!SkipLowCurrent, E!SkipToStart, E!Analyze, E!OtherEvent,
           E!ControlEvent, E!Examined, E!Trigger, E!Get
  <1>2. CASE E!RunInfo(e)
    <2>1. Informed(e)
      BY <1>2 DEF Informed, E!RunInfo, E!scalers, E!SyncfilterEvent, FLAG, GOEVENT
    <2> QED BY <2>1, <1>1
  <1>3. CASE E!ScalerEvent(e)
    <2>1. ReadingTaken(e)
      BY <1>3 DEF ReadingTaken, E!ScalerEvent, E!LoopEnds, E!Increment, SCALERSYNC
    <2> QED BY <2>1, <1>1
  <1>4. CASE E!SkipBeforeScaler(e) \/ E!SkipDisabled(e) \/ E!SkipBadSync(e) \/ E!SkipLowCurrent(e)
    <2>1. Dropped(e)
      BY <1>4 DEF Dropped, E!SkipBeforeScaler, E!SkipDisabled, E!SkipBadSync, E!SkipLowCurrent,
                  E!Trigger, E!NotReconstructed, E!LoopEnds, E!scalers
    <2> QED BY <2>1, <1>1
  <1>5. CASE E!SkipToStart(e)
    <2>1. Dropped(e)
      BY <1>5 DEF Dropped, E!SkipToStart, E!Examined, E!Trigger, E!NotReconstructed,
                  E!LoopEnds, E!scalers
    <2> QED BY <2>1, <1>1
  <1>6. CASE E!Analyze(e)
    <2>1. Analyzed(e)
      BY <1>6 DEF Analyzed, E!Analyze, E!Examined, E!Filtered, E!Trigger, E!LoopEnds,
                  E!scalers, E!Increment
    <2> QED BY <2>1, <1>1
  <1>7. CASE E!OtherEvent(e)
    <2>1. Passed(e)
      BY <1>7 DEF Passed, E!OtherEvent, E!LoopEnds, E!counts, E!scalers, E!SyncfilterEvent, FLAG
    <2> QED BY <2>1, <1>1
  <1>8. CASE E!ControlEvent(e)
    <2>1. e.type > 15 /\ e.type # FLAG
      BY <1>8 DEF E!ControlEvent, FLAG
    <2>2. Passed(e)
      BY <2>1, <1>8 DEF Passed, E!ControlEvent, E!LoopEnds, E!counts, E!scalers
    <2> QED BY <2>2, <1>1
  <1> QED BY <1>2, <1>3, <1>4, <1>5, <1>6, <1>7, <1>8 DEF E!Process

-----------------------------------------------------------------------------
(* Every event keeps the invariant                                         *)

\* One event more
LEMMA LastNow ==
  ASSUME NEW S, NEW p \in Nat
  PROVE /\ \A j : LastFlagAt(S, j, p + 1) <=>
             IF S[p + 1].type = FLAG THEN j = p + 1 ELSE LastFlagAt(S, j, p)
        /\ \A j : LastReadingAt(S, j, p + 1) <=>
             IF S[p + 1].type = SCALERSYNC THEN j = p + 1 ELSE LastReadingAt(S, j, p)
  <1>1. \A j : j \in 1..(p + 1) <=> j \in 1..p \/ j = p + 1
    OBVIOUS
  <1>2. ASSUME NEW j \in 1..p
        PROVE \A k : k \in (j + 1)..(p + 1) <=> k \in (j + 1)..p \/ k = p + 1
    OBVIOUS
  <1>3. \A k \in ((p + 1) + 1)..(p + 1) : FALSE
    OBVIOUS
  <1>4. ASSUME NEW j
        PROVE LastFlagAt(S, j, p + 1) <=>
                IF S[p + 1].type = FLAG THEN j = p + 1 ELSE LastFlagAt(S, j, p)
    <2>1. CASE j = p + 1
      BY <2>1, <1>1, <1>3 DEF LastFlagAt
    <2>2. CASE j # p + 1
      BY <2>2, <1>1, <1>2 DEF LastFlagAt
    <2> QED BY <2>1, <2>2
  <1>5. ASSUME NEW j
        PROVE LastReadingAt(S, j, p + 1) <=>
                IF S[p + 1].type = SCALERSYNC THEN j = p + 1 ELSE LastReadingAt(S, j, p)
    <2>1. CASE j = p + 1
      BY <2>1, <1>1, <1>3 DEF LastReadingAt
    <2>2. CASE j # p + 1
      BY <2>2, <1>1, <1>2 DEF LastReadingAt
    <2> QED BY <2>1, <2>2
  <1> QED BY <1>4, <1>5

\* What is known when the engine comes to place p + 1
LEMMA InForce ==
  ASSUME NEW S, EngineInv(S)
  PROVE LET p == total_event_count
        IN /\ (\E q : LastReadingAt(S, q, p) /\ Ready(S, q)) => phase # "runinfo"
           /\ Started(S, p + 1) => phase # "runinfo"
           /\ (\A j : LastFlagAt(S, j, p) => S[j].flag = 0) => insync = 0
  <1> DEFINE p == total_event_count
  <1>1. p \in Nat
    BY DEF EngineInv, EngineType
  <1>2. Started(S, p + 1) => phase # "runinfo"
    BY <1>1 DEF EngineInv, StartInv, Started
  <1>3. ASSUME NEW q, LastReadingAt(S, q, p), Ready(S, q) PROVE phase # "runinfo"
    <2>1. PICK b \in 1..(q - 1) : Started(S, b)
      BY <1>3 DEF Ready
    <2>2. PICK a \in 1..(b - 1) : S[a].type = GOEVENT
      BY <2>1 DEF Started
    <2>3. a \in 1..p
      BY <1>1, <1>3 DEF LastReadingAt
    <2> QED BY <2>2, <2>3 DEF EngineInv, StartInv
  <1>4. (\A j : LastFlagAt(S, j, p) => S[j].flag = 0) => insync = 0
    BY DEF EngineInv, InsyncInv
  <1> QED BY <1>2, <1>3, <1>4

\* The results of earlier events stay what they were.
LEMMA ResultsStay ==
  ASSUME NEW S, ResultsInv(S), total_event_count \in Nat,
         total_event_count' = total_event_count + 1, UNCHANGED results, beam_on \subseteq beam_on'
  PROVE ResultsInv(S)'
  BY DEF ResultsInv

\* Places that nothing was due for at place p + 1
LEMMA KeptStays ==
  ASSUME NEW S, KeptInv(S), total_event_count \in Nat,
         total_event_count' = total_event_count + 1,
         \A i \in DOMAIN results : i \in DOMAIN results' /\ results'[i] = results[i],
         LET p == total_event_count + 1
         IN /\ S[p].type \in (Enabled \cap 1..8) \ {4} /\ ~S[p].fault /\ InStep(S, p)
            /\ \E q : LastReadingAt(S, q, p) /\ Usable(S, q) /\ S[q].bcm >= Threshold /\ ~S[q].long
            => \E i \in DOMAIN results' : results'[i].n = p
  PROVE KeptInv(S)'
  <1> DEFINE N == total_event_count + 1
  <1>1. \A p \in 1..N : p \in 1..total_event_count \/ p = N
    OBVIOUS
  <1> HIDE DEF N
  <1>2. ASSUME NEW p \in 1..N,
               S[p].type \in (Enabled \cap 1..8) \ {4}, ~S[p].fault, InStep(S, p),
               \E q : LastReadingAt(S, q, p) /\ Usable(S, q) /\ S[q].bcm >= Threshold /\ ~S[q].long
        PROVE \E i \in DOMAIN results' : results'[i].n = p
    <2>1. CASE p \in 1..total_event_count
      <3>1. PICK i \in DOMAIN results : results[i].n = p
        BY <2>1, <1>2 DEF KeptInv
      <3> QED BY <3>1
    <2>2. CASE p = N
      BY <2>2, <1>2 DEF N
    <2> QED BY <2>1, <2>2, <1>1
  <1>3. total_event_count' = N
    BY DEF N
  <1> QED BY <1>2, <1>3 DEF KeptInv

\* An event of the run information loop
LEMMA InformedStep ==
  ASSUME NEW S, EngineInv(S), total_event_count' = total_event_count + 1,
         total_event_count = 0 => S[1].type = FLAG,
         EventOk(S[total_event_count + 1]), Informed(S[total_event_count + 1])
  PROVE EngineInv(S)'
  <1> DEFINE p == total_event_count
             e == S[p + 1]
  <1>0. EngineType /\ StartInv(S) /\ InsyncInv(S) /\ ReadingInv(S) /\ ResultsInv(S) /\ KeptInv(S)
    BY DEF EngineInv
  <1>1. /\ p \in Nat /\ total_event_count' = p + 1 /\ phase = "runinfo" /\ insync = 0
        /\ \A q \in 1..p : S[q].type # GOEVENT
        /\ \A q \in 1..(p + 1) : q \in 1..p \/ q = p + 1
        /\ p + 1 > 0 /\ p + 1 # 0
    BY <1>0 DEF EngineType, StartInv, Informed
  <1>2. /\ insync' = 0 /\ UNCHANGED <<analyzed_events, num_events_skipped, ave_current_bcm,
                                     skip_events, beam_on, results>>
    BY <1>1 DEF Informed
  <1>3. EngineType'
    BY <1>0, <1>1, <1>2 DEF EngineType, Informed
  <1>4. StartInv(S)'
    <2>1. syncfilter_on'
      <3>1. syncfilter_on' = (syncfilter_on \/ e.type = FLAG)
        BY DEF Informed
      <3>2. syncfilter_on \/ e.type = FLAG
        <4>1. CASE p = 0
          BY <4>1
        <4>2. CASE p > 0
          BY <4>2, <1>0 DEF StartInv
        <4> QED BY <4>1, <4>2, <1>1
      <3> QED BY <3>1, <3>2
    <2>2. phase' = "runinfo" => \A q \in 1..(p + 1) : S[q].type # GOEVENT
      BY <1>1 DEF Informed
    <2> QED BY <2>1, <2>2, <1>1, <1>2 DEF StartInv
  <1>5. \A q \in 1..(p + 1) : ~Started(S, q)
    BY <1>1 DEF Started
  <1>6. \A q \in 1..(p + 1) : ~Ready(S, q)
    <2>1. ASSUME NEW q \in 1..(p + 1), NEW b \in 1..(q - 1) PROVE ~Started(S, b)
      <3>1. b \in 1..(p + 1)
        BY <1>1
      <3> QED BY <3>1, <1>5
    <2> QED BY <2>1 DEF Ready
  <1>7. InsyncInv(S)'
    <2>1. \A j : ~(LastFlagAt(S, j, p + 1) /\ Started(S, j))
      BY <1>5 DEF LastFlagAt
    <2> QED BY <2>1, <1>1, <1>2 DEF InsyncInv
  <1>8. ReadingInv(S)'
    <2>1. \A q : ~(LastReadingAt(S, q, p + 1) /\ Ready(S, q))
      BY <1>6 DEF LastReadingAt
    <2> QED BY <2>1, <1>1, <1>5 DEF ReadingInv, Usable
  <1>9. ResultsInv(S)'
    BY <1>0, <1>1, <1>2, ResultsStay
  <1>10. KeptInv(S)'
    <2>1. \A q : ~(LastReadingAt(S, q, p + 1) /\ Usable(S, q))
      BY <1>6 DEF LastReadingAt, Usable
    <2> QED BY <2>1, <1>0, <1>1, <1>2, KeptStays
  <1> QED BY <1>3, <1>4, <1>7, <1>8, <1>9, <1>10 DEF EngineInv

\* An event in step that a reading with charge speaks for has none of the
\* reasons for which the main loop would drop it.
LEMMA DueNow ==
  ASSUME NEW S, EngineInv(S), EventOk(S[total_event_count + 1]), phase = "analysis",
         LET p == total_event_count + 1
         IN /\ S[p].type \in (Enabled \cap 1..8) \ {4} /\ InStep(S, p)
            /\ \E q : LastReadingAt(S, q, p) /\ Usable(S, q) /\ S[q].bcm >= Threshold /\ ~S[q].long
  PROVE LET e == S[total_event_count + 1]
        IN /\ E!TypeOf(e) = e.type /\ e.type \in Enabled /\ e.type \in 1..8
           /\ ~E!TooEarly(e) /\ insync = 0 /\ ~skip_events /\ ~E!NoBeam
  <1> DEFINE p == total_event_count
             e == S[p + 1]
  <1>0. EngineType /\ StartInv(S) /\ InsyncInv(S) /\ ReadingInv(S)
    BY DEF EngineInv
  <1>1. p \in Nat /\ e.type \in Enabled /\ e.type \in 1..8
    BY <1>0 DEF EngineType
  <1>2. E!TypeOf(e) = e.type /\ e.type # FLAG /\ e.type # SCALERSYNC
    BY <1>1 DEF E!TypeOf, FLAG, SCALERSYNC
  <1>3. PICK q : /\ LastReadingAt(S, q, p + 1) /\ Usable(S, q)
                 /\ S[q].bcm >= Threshold /\ ~S[q].long
    OBVIOUS
  <1>4. LastReadingAt(S, q, p)
    BY <1>1, <1>2, <1>3, LastNow
  <1>5. Ready(S, q) /\ ave_current_bcm = S[q].bcm /\ skip_events = S[q].long /\ analyzed_events[0] >= 2
    BY <1>0, <1>3, <1>4 DEF ReadingInv, Usable
  <1>6. \A j : LastFlagAt(S, j, p) => S[j].flag = 0
    BY <1>1, <1>2, LastNow DEF InStep
  <1>7. insync = 0
    BY <1>6, InForce
  <1>8. ~E!TooEarly(e)
    <2>1. PICK n \in Nat : n = analyzed_events[0]
      BY <1>0 DEF EngineType, E!TrigTypes
    <2> QED BY <2>1, <1>5 DEF E!TooEarly
  <1>9. ~E!NoBeam
    <2>1. ave_current_bcm \in Int
      BY <1>0 DEF EngineType
    <2> QED BY <2>1, <1>3, <1>5, ReplayAssumption DEF E!NoBeam
  <1> QED BY <1>1, <1>2, <1>3, <1>5, <1>7, <1>8, <1>9

\* In the main loop, for an event that is no flag and no scaler event, insync,
\* the reading and its charge stay as they are.
LEMMA QuietEvent ==
  ASSUME NEW S, EngineInv(S), total_event_count' = total_event_count + 1,
         phase = "analysis", phase' \in {"analysis", "ended"},
         S[total_event_count + 1].type \notin {FLAG, SCALERSYNC},
         UNCHANGED <<syncfilter_on, insync, ave_current_bcm, skip_events, beam_on>>,
         analyzed_events'[0] = analyzed_events[0]
  PROVE StartInv(S)' /\ InsyncInv(S)' /\ ReadingInv(S)'
  <1> DEFINE p == total_event_count
  <1>0. EngineType /\ StartInv(S) /\ InsyncInv(S) /\ ReadingInv(S)
    BY DEF EngineInv
  <1>1. p \in Nat /\ total_event_count' = p + 1 /\ p > 0 /\ p + 1 > 0 /\ syncfilter_on
    BY <1>0 DEF EngineType, StartInv
  <1>2. /\ \A j : LastFlagAt(S, j, p + 1) <=> LastFlagAt(S, j, p)
        /\ \A j : LastReadingAt(S, j, p + 1) <=> LastReadingAt(S, j, p)
    BY <1>1, LastNow
  <1> HIDE DEF p
  <1>3. StartInv(S)'
    BY <1>1 DEF StartInv
  <1>4. InsyncInv(S)'
    BY <1>0, <1>1, <1>2 DEF InsyncInv, p
  <1>5. ReadingInv(S)'
    <2>1. \A q \in 1..(p + 1) : S[q].type = SCALERSYNC => q \in 1..p
      <3>1. \A q \in 1..(p + 1) : q \in 1..p \/ q = p + 1
        BY <1>1
      <3> QED BY <3>1 DEF p
    <2> QED BY <2>1, <1>0, <1>1, <1>2 DEF ReadingInv, p
  <1> QED BY <1>3, <1>4, <1>5

\* A trigger event that is not analyzed
LEMMA DroppedStep ==
  ASSUME NEW S, EngineInv(S), total_event_count' = total_event_count + 1,
         EventOk(S[total_event_count + 1]), Dropped(S[total_event_count + 1])
  PROVE EngineInv(S)'
  <1> DEFINE p == total_event_count
             e == S[p + 1]
  <1>0. EngineType /\ ResultsInv(S) /\ KeptInv(S)
    BY DEF EngineInv
  <1>1. /\ p \in Nat /\ phase = "analysis" /\ phase' \in {"analysis", "ended"}
        /\ num_events_skipped \in Nat
        /\ UNCHANGED <<syncfilter_on, insync, analyzed_events, ave_current_bcm, skip_events,
                       beam_on, results>>
    BY <1>0 DEF Dropped, EngineType
  <1>2. e.type \notin {FLAG, SCALERSYNC}
    BY DEF Dropped, E!TypeOf, FLAG, SCALERSYNC
  <1>3. EngineType'
    BY <1>0, <1>1 DEF EngineType, Dropped
  <1>4. StartInv(S)' /\ InsyncInv(S)' /\ ReadingInv(S)'
    BY <1>1, <1>2, QuietEvent
  <1>5. ResultsInv(S)'
    BY <1>0, <1>1, ResultsStay
  <1>6. KeptInv(S)'
    <2>1. ~(/\ e.type \in (Enabled \cap 1..8) \ {4} /\ InStep(S, p + 1)
            /\ \E q : LastReadingAt(S, q, p + 1) /\ Usable(S, q) /\ S[q].bcm >= Threshold
                      /\ ~S[q].long)
      <3> SUFFICES ASSUME e.type \in (Enabled \cap 1..8) \ {4}, InStep(S, p + 1),
                          \E q : /\ LastReadingAt(S, q, p + 1) /\ Usable(S, q)
                                 /\ S[q].bcm >= Threshold /\ ~S[q].long
                   PROVE FALSE
        OBVIOUS
      <3>1. /\ E!TypeOf(e) = e.type /\ e.type \in Enabled
            /\ ~E!TooEarly(e) /\ insync = 0 /\ ~skip_events /\ ~E!NoBeam
        BY <1>1, DueNow
      <3>2. \/ E!TooEarly(e)
            \/ E!TypeOf(e) \notin Enabled
            \/ insync = 1 \/ skip_events \/ E!NoBeam
            \/ num_events_skipped < 0
        BY DEF Dropped
      <3> QED BY <3>1, <3>2, <1>1
    <2> QED BY <2>1, <1>0, <1>1, KeptStays
  <1> QED BY <1>3, <1>4, <1>5, <1>6 DEF EngineInv

\* A trigger event that is analyzed
LEMMA AnalyzedStep ==
  ASSUME NEW S, EngineInv(S), total_event_count' = total_event_count + 1,
         EventOk(S[total_event_count + 1]), Analyzed(S[total_event_count + 1])
  PROVE EngineInv(S)'
  <1> DEFINE p == total_event_count
             e == S[p + 1]
             res == [n |-> p + 1, read |-> analyzed_events[0]]
  <1>0. EngineType /\ StartInv(S) /\ InsyncInv(S) /\ ReadingInv(S) /\ ResultsInv(S) /\ KeptInv(S)
    BY DEF EngineInv
  <1>1. /\ p \in Nat /\ phase = "analysis" /\ phase' \in {"analysis", "ended"}
        /\ E!TypeOf(e) \in 1..15 /\ e.type \in Nat
        /\ UNCHANGED <<syncfilter_on, insync, num_events_skipped, ave_current_bcm, skip_events,
                       beam_on>>
    BY <1>0 DEF Analyzed, EngineType, EventOk
  <1>2. e.type \notin {FLAG, SCALERSYNC}
    BY <1>1 DEF E!TypeOf, FLAG, SCALERSYNC
  <1>3. analyzed_events'[0] = analyzed_events[0] /\ analyzed_events' \in [E!TrigTypes -> Nat]
    <2>1. PICK t \in 1..15 : t = E!TypeOf(e)
      BY <1>1
    <2>2. analyzed_events' = [analyzed_events EXCEPT ![t] = @ + 1]
      BY <2>1 DEF Analyzed
    <2>3. analyzed_events \in [E!TrigTypes -> Nat]
      BY <1>0 DEF EngineType
    <2>4. t \in E!TrigTypes /\ 0 \in E!TrigTypes /\ t # 0
      BY DEF E!TrigTypes
    <2>5. analyzed_events[t] + 1 \in Nat
      BY <2>3, <2>4
    <2> QED BY <2>2, <2>3, <2>4, <2>5
  <1>4. results' = IF E!TypeOf(e) \in 1..8 /\ ~e.fault THEN Append(results, res) ELSE results
    BY DEF Analyzed
  <1>5. /\ results \in Seq([n : Nat, read : Nat]) /\ res \in [n : Nat, read : Nat]
        /\ res.n = p + 1 /\ res.read = analyzed_events[0]
    <2>1. results \in Seq([n : Nat, read : Nat]) /\ analyzed_events \in [E!TrigTypes -> Nat]
      BY <1>0 DEF EngineType
    <2>2. 0 \in E!TrigTypes
      BY DEF E!TrigTypes
    <2>3. analyzed_events[0] \in Nat /\ p + 1 \in Nat
      BY <2>1, <2>2, <1>1
    <2> QED BY <2>1, <2>3
  <1>6. EngineType'
    <2>1. results' \in Seq([n : Nat, read : Nat])
      <3>1. PICK r \in [n : Nat, read : Nat] : r = res
        BY <1>5
      <3>2. Append(results, r) \in Seq([n : Nat, read : Nat])
        BY <1>5
      <3>3. results' = Append(results, r) \/ results' = results
        BY <1>4, <3>1
      <3> QED BY <3>2, <3>3, <1>5
    <2>2. /\ total_event_count' \in Nat /\ syncfilter_on' \in BOOLEAN /\ insync' \in Nat
          /\ num_events_skipped' \in Nat /\ ave_current_bcm' \in Int /\ skip_events' \in BOOLEAN
          /\ phase' \in {"runinfo", "analysis", "ended"}
      BY <1>0, <1>1 DEF EngineType
    <2> QED BY <2>1, <2>2, <1>3 DEF EngineType
  <1>7. StartInv(S)' /\ InsyncInv(S)' /\ ReadingInv(S)'
    BY <1>1, <1>2, <1>3, QuietEvent
  <1>8. /\ Len(results) \in Nat /\ DOMAIN results = 1..Len(results)
        /\ \A i \in DOMAIN results : i \in DOMAIN results' /\ results'[i] = results[i]
        /\ E!TypeOf(e) \in 1..8 /\ ~e.fault => \E i \in DOMAIN results' : results'[i].n = p + 1
        /\ \A i \in DOMAIN results' : i \in DOMAIN results \/ results'[i] = res
    <2>1. Len(results) \in Nat /\ DOMAIN results = 1..Len(results)
      BY <1>5
    <2> HIDE DEF res
    <2>2. CASE results' = results /\ ~(E!TypeOf(e) \in 1..8 /\ ~e.fault)
      BY <2>1, <2>2
    <2>3. CASE results' = Append(results, res)
      <3>1. /\ DOMAIN results' = 1..(Len(results) + 1) /\ results'[Len(results) + 1] = res
            /\ \A i \in 1..Len(results) : results'[i] = results[i]
        BY <2>1, <2>3, <1>5
      <3>2. \A i \in 1..(Len(results) + 1) : i \in 1..Len(results) \/ i = Len(results) + 1
        BY <2>1
      <3>3. Len(results) + 1 \in DOMAIN results' /\ \A i \in 1..Len(results) : i \in DOMAIN results'
        BY <2>1, <3>1
      <3> QED BY <2>1, <3>1, <3>2, <3>3, <1>5
    <2> QED BY <2>2, <2>3, <1>4
  <1>9. KeptInv(S)'
    <2>1. ASSUME e.type \in (Enabled \cap 1..8) \ {4}, ~e.fault
          PROVE \E i \in DOMAIN results' : results'[i].n = p + 1
      <3>1. E!TypeOf(e) \in 1..8
        BY <2>1 DEF E!TypeOf
      <3> QED BY <3>1, <2>1, <1>8
    <2> QED BY <2>1, <1>0, <1>1, <1>8, KeptStays
  <1>10. ASSUME e.type \notin {0, 4}
         PROVE /\ \A j : LastFlagAt(S, j, p + 1) /\ Started(S, j) => S[j].flag # 1
               /\ \A q : LastReadingAt(S, q, p + 1) /\ Usable(S, q) /\ InStep(S, q) =>
                    analyzed_events[0] \in beam_on
    <2>1. insync # 1 /\ ~skip_events /\ ~E!NoBeam
      <3>1. E!TypeOf(e) # 4 /\ syncfilter_on
        BY <1>0, <1>1, <1>10 DEF E!TypeOf, StartInv
      <3> QED BY <3>1 DEF Analyzed
    <2>2. \A j : LastFlagAt(S, j, p + 1) /\ Started(S, j) => S[j].flag # 1
      BY <2>1, <1>0, <1>1, <1>2, LastNow DEF InsyncInv
    <2>3. ASSUME NEW q, LastReadingAt(S, q, p + 1), Usable(S, q), InStep(S, q)
          PROVE analyzed_events[0] \in beam_on
      <3>1. LastReadingAt(S, q, p)
        BY <2>3, <1>1, <1>2, LastNow
      <3>2. /\ ave_current_bcm = S[q].bcm /\ skip_events = S[q].long
            /\ Charged(S, q) => analyzed_events[0] \in beam_on
        BY <3>1, <2>3, <1>0 DEF ReadingInv
      <3>3. S[q].bcm >= Threshold
        <4>1. ave_current_bcm \in Int
          BY <1>0 DEF EngineType
        <4> QED BY <4>1, <3>2, <2>1, ReplayAssumption DEF E!NoBeam
      <3>4. Charged(S, q)
        BY <3>2, <3>3, <2>1, <2>3 DEF Charged
      <3> QED BY <3>2, <3>4
    <2> QED BY <2>2, <2>3
  <1>11. ResultsInv(S)'
    <2>1. total_event_count' = p + 1 /\ beam_on' = beam_on
      BY <1>1
    <2>2. ASSUME NEW i \in DOMAIN results'
          PROVE LET r == results'[i].n
                IN /\ r \in 1..(p + 1) /\ S[r].type # FLAG
                   /\ S[r].type \notin {0, 4} =>
                        /\ \A j : LastFlagAt(S, j, r) /\ Started(S, j) => S[j].flag # 1
                        /\ \A q : LastReadingAt(S, q, r) /\ Usable(S, q) /\ InStep(S, q) =>
                             results'[i].read \in beam_on
      <3>1. CASE i \in DOMAIN results
        <4>1. results'[i] = results[i]
          BY <3>1, <1>8
        <4>2. 1..p \subseteq 1..(p + 1)
          BY <1>1
        <4> QED BY <3>1, <4>1, <4>2, <1>0 DEF ResultsInv
      <3>2. CASE results'[i] = res
        <4> HIDE DEF res
        <4>1. p + 1 \in 1..(p + 1)
          BY <1>1
        <4> QED BY <3>2, <4>1, <1>2, <1>5, <1>10
      <3> QED BY <3>1, <3>2, <1>8
    <2> HIDE DEF p
    <2> QED BY <2>1, <2>2 DEF ResultsInv
  <1> QED BY <1>6, <1>7, <1>9, <1>11 DEF EngineInv

\* A flag event, a control event or one of another type
LEMMA PassedStep ==
  ASSUME NEW S, EngineInv(S), total_event_count' = total_event_count + 1,
         EventOk(S[total_event_count + 1]), Passed(S[total_event_count + 1])
  PROVE EngineInv(S)'
  <1> DEFINE p == total_event_count
             e == S[p + 1]
  <1>0. EngineType /\ StartInv(S) /\ InsyncInv(S) /\ ReadingInv(S) /\ ResultsInv(S) /\ KeptInv(S)
    BY DEF EngineInv
  <1>1. /\ p \in Nat /\ phase = "analysis" /\ phase' \in {"analysis", "ended"}
        /\ e.type \in Nat /\ e.type > 15 /\ e.flag \in Nat
        /\ UNCHANGED <<syncfilter_on, analyzed_events, num_events_skipped, ave_current_bcm,
                       skip_events, beam_on, results>>
        /\ insync' = IF e.type = FLAG THEN e.flag ELSE insync
    BY <1>0 DEF Passed, EngineType, EventOk
  <1>2. e.type # SCALERSYNC /\ e.type \notin 1..8
    BY <1>1 DEF SCALERSYNC
  <1>3. EngineType'
    BY <1>0, <1>1 DEF EngineType
  <1>4. StartInv(S)' /\ InsyncInv(S)' /\ ReadingInv(S)'
    <2>1. CASE e.type # FLAG
      BY <2>1, <1>1, <1>2, QuietEvent
    <2>2. CASE e.type = FLAG
      <3>1. insync' = e.flag
        BY <2>2, <1>1
      <3>2. /\ \A j : LastFlagAt(S, j, p + 1) <=> j = p + 1
            /\ \A j : LastReadingAt(S, j, p + 1) <=> LastReadingAt(S, j, p)
        BY <2>2, <1>1, <1>2, LastNow
      <3>3. StartInv(S)'
        BY <1>0, <1>1 DEF StartInv
      <3>4. InsyncInv(S)'
        BY <3>1, <3>2 DEF InsyncInv
      <3>5. \A q \in 1..(p + 1) : S[q].type = SCALERSYNC => q \in 1..p
        <4>1. \A q \in 1..(p + 1) : q \in 1..p \/ q = p + 1
          BY <1>1
        <4> QED BY <4>1, <1>2
      <3>6. ReadingInv(S)'
        <4> HIDE DEF e
        <4> QED BY <3>2, <3>5, <1>0, <1>1 DEF ReadingInv
      <3> QED BY <3>3, <3>4, <3>6
    <2> QED BY <2>1, <2>2
  <1>5. ResultsInv(S)'
    BY <1>0, <1>1, ResultsStay
  <1>6. KeptInv(S)'
    BY <1>0, <1>1, <1>2, KeptStays
  <1> QED BY <1>3, <1>4, <1>5, <1>6 DEF EngineInv

\* A scaler event in the main loop
LEMMA ReadingStep ==
  ASSUME NEW S, EngineInv(S), total_event_count' = total_event_count + 1,
         EventOk(S[total_event_count + 1]), ReadingTaken(S[total_event_count + 1])
  PROVE EngineInv(S)'
  <1> DEFINE p == total_event_count
             e == S[p + 1]
  <1>0. EngineType /\ StartInv(S) /\ InsyncInv(S) /\ ReadingInv(S) /\ ResultsInv(S) /\ KeptInv(S)
    BY DEF EngineInv
  <1>1. /\ p \in Nat /\ phase = "analysis" /\ phase' \in {"analysis", "ended"}
        /\ e.type = SCALERSYNC /\ e.bcm \in Int /\ e.long \in BOOLEAN
        /\ UNCHANGED <<syncfilter_on, insync, num_events_skipped, results>>
    BY <1>0 DEF ReadingTaken, EngineType, EventOk
  <1>2. e.type # FLAG /\ e.type \notin 1..8
    BY <1>1 DEF SCALERSYNC, FLAG
  <1>3. PICK c \in Nat : c = analyzed_events[0]
    BY <1>0 DEF EngineType, E!TrigTypes
  <1>4. analyzed_events' \in [E!TrigTypes -> Nat] /\ analyzed_events'[0] = c + 1
    <2>1. analyzed_events \in [E!TrigTypes -> Nat] /\ 0 \in E!TrigTypes
      BY <1>0 DEF EngineType, E!TrigTypes
    <2>2. analyzed_events' = [analyzed_events EXCEPT ![0] = c + 1]
      BY <1>3 DEF ReadingTaken
    <2> QED BY <2>1, <2>2
  <1>5. syncfilter_on = TRUE /\ p > 0
    BY <1>0, <1>1 DEF EngineType, StartInv
  <1>6. IF c + 1 > 1 /\ e.bcm # -1
        THEN /\ ave_current_bcm' = e.bcm
             /\ skip_events' = e.long
             /\ beam_on' = IF e.bcm >= Threshold /\ insync = 0 /\ ~skip_events'
                           THEN beam_on \cup {c + 1} ELSE beam_on
        ELSE UNCHANGED <<ave_current_bcm, skip_events, beam_on>>
    BY <1>1, <1>3, <1>5 DEF ReadingTaken, E!Reading, E!NoBcm
  <1>7. beam_on \subseteq beam_on'
    BY <1>6
  <1>8. EngineType'
    <2>1. ave_current_bcm' \in Int /\ skip_events' \in BOOLEAN
      BY <1>0, <1>1, <1>6 DEF EngineType
    <2> QED BY <2>1, <1>0, <1>1, <1>4 DEF EngineType
  <1>9. StartInv(S)'
    BY <1>0, <1>1 DEF StartInv
  <1>10. /\ \A j : LastFlagAt(S, j, p + 1) <=> LastFlagAt(S, j, p)
         /\ \A j : LastReadingAt(S, j, p + 1) <=> j = p + 1
    BY <1>1, <1>2, LastNow
  <1>11. InsyncInv(S)'
    BY <1>0, <1>1, <1>10 DEF InsyncInv
  <1>12. ReadingInv(S)'
    <2>1. Ready(S, p + 1) => c >= 1
      <3>1. ASSUME NEW b \in 1..((p + 1) - 1), S[b].type = SCALERSYNC, Started(S, b)
            PROVE c >= 1
        <4>1. b \in 1..p
          BY <1>1
        <4> QED BY <4>1, <3>1, <1>0, <1>3 DEF ReadingInv
      <3> QED BY <3>1 DEF Ready
    <2>2. Usable(S, p + 1) => /\ ave_current_bcm' = e.bcm /\ skip_events' = e.long
                              /\ Charged(S, p + 1) => c + 1 \in beam_on'
      <3> SUFFICES ASSUME Usable(S, p + 1)
                   PROVE /\ ave_current_bcm' = e.bcm /\ skip_events' = e.long
                         /\ Charged(S, p + 1) => c + 1 \in beam_on'
        OBVIOUS
      <3>1. c + 1 > 1 /\ e.bcm # -1
        BY <2>1 DEF Usable
      <3>2. Charged(S, p + 1) => insync = 0
        <4>1. Charged(S, p + 1) => \A j : LastFlagAt(S, j, p) => S[j].flag = 0
          BY <1>10 DEF Charged, InStep
        <4> QED BY <4>1, InForce
      <3>3. Charged(S, p + 1) => e.bcm >= Threshold /\ ~e.long
        BY DEF Charged
      <3> QED BY <3>1, <3>2, <3>3, <1>6
    <2>3. analyzed_events'[0] >= 1 /\ (Ready(S, p + 1) => analyzed_events'[0] >= 2)
      BY <2>1, <1>4
    <2> HIDE DEF p
    <2>4. total_event_count' = p + 1
      BY DEF p
    <2> QED BY <2>2, <2>3, <2>4, <1>4, <1>10 DEF ReadingInv
  <1>13. ResultsInv(S)'
    BY <1>0, <1>1, <1>7, ResultsStay
  <1>14. KeptInv(S)'
    BY <1>0, <1>1, <1>2, KeptStays
  <1> QED BY <1>8, <1>9, <1>11, <1>12, <1>13, <1>14 DEF EngineInv

\* Every event keeps the invariant.
LEMMA ProcessStep ==
  ASSUME NEW S, EngineInv(S), total_event_count = 0 => S[1].type = FLAG,
         EventOk(S[total_event_count + 1]), E!Process(S[total_event_count + 1])
  PROVE EngineInv(S)'
  <1>1. S[total_event_count + 1].type \in Nat
    BY DEF EventOk
  <1> QED BY <1>1, ProcessCases, InformedStep, ReadingStep, DroppedStep, AnalyzedStep, PassedStep

\* The end of the data changes the phase only.
LEMMA EndStep ==
  ASSUME NEW S, EngineInv(S), E!EndOfData
  PROVE EngineInv(S)'
  <1>1. phase' = "ended" /\ UNCHANGED <<total_event_count, syncfilter_on, insync, analyzed_events,
          num_events_skipped, ave_current_bcm, skip_events, beam_on, results>>
    BY DEF E!EndOfData, E!counts, E!scalers
  <1>2. EngineType' /\ StartInv(S)'
    BY <1>1 DEF EngineInv, EngineType, StartInv
  <1>3. InsyncInv(S)' /\ ReadingInv(S)'
    BY <1>1 DEF EngineInv, InsyncInv, ReadingInv
  <1>4. ResultsInv(S)' /\ KeptInv(S)'
    BY <1>1 DEF EngineInv, ResultsInv, KeptInv
  <1> QED BY <1>2, <1>3, <1>4 DEF EngineInv

\* It holds at first.
LEMMA InitEngine ==
  ASSUME NEW S, E!Init
  PROVE EngineInv(S)
  <1>1. /\ phase = "runinfo" /\ total_event_count = 0 /\ syncfilter_on = FALSE /\ insync = 0
        /\ analyzed_events = [t \in E!TrigTypes |-> 0] /\ num_events_skipped = 0
        /\ ave_current_bcm = 0 /\ skip_events = FALSE /\ results = <<>> /\ DOMAIN results = {}
    BY DEF E!Init
  <1>2. EngineType
    <2>1. analyzed_events \in [E!TrigTypes -> Nat]
      BY <1>1
    <2>2. results \in Seq([n : Nat, read : Nat])
      <3>1. \A T : <<>> \in Seq(T)
        OBVIOUS
      <3> QED BY <3>1, <1>1
    <2>3. phase \in {"runinfo", "analysis", "ended"} /\ total_event_count \in Nat
          /\ insync \in Nat /\ num_events_skipped \in Nat /\ ave_current_bcm \in Int
      BY <1>1
    <2>4. syncfilter_on \in BOOLEAN /\ skip_events \in BOOLEAN
      BY <1>1
    <2> QED BY <2>1, <2>2, <2>3, <2>4 DEF EngineType
  <1>3. \A q : q \notin 1..0
    OBVIOUS
  <1>4. StartInv(S) /\ InsyncInv(S)
    BY <1>1, <1>3 DEF StartInv, InsyncInv, LastFlagAt
  <1>5. ReadingInv(S)
    BY <1>1, <1>3 DEF ReadingInv, LastReadingAt
  <1>6. ResultsInv(S) /\ KeptInv(S)
    BY <1>1, <1>3 DEF ResultsInv, KeptInv
  <1> QED BY <1>2, <1>4, <1>5, <1>6 DEF EngineInv

\* It is about the events that the engine has read.
LEMMA SameEvents ==
  ASSUME NEW S, NEW T, EngineInv(S), \A q \in 1..total_event_count : T[q] = S[q]
  PROVE EngineInv(T)
  <1> DEFINE p == total_event_count
  <1>1. p \in Nat
    BY DEF EngineInv, EngineType
  <1>2. \A q \in 1..p : \A k \in 1..q : T[k] = S[k]
    <2>1. \A q \in 1..p : \A k \in 1..q : k \in 1..p
      BY <1>1
    <2> QED BY <2>1
  <1>3. \A q \in 1..p : \A j : /\ LastFlagAt(T, j, q) <=> LastFlagAt(S, j, q)
                               /\ LastReadingAt(T, j, q) <=> LastReadingAt(S, j, q)
    <2>1. \A q \in 1..p : \A j \in 1..q : \A k \in (j + 1)..q : k \in 1..q
      BY <1>1
    <2> QED BY <2>1, <1>2 DEF LastFlagAt, LastReadingAt
  <1>4. \A j : /\ LastFlagAt(T, j, p) <=> LastFlagAt(S, j, p)
               /\ LastReadingAt(T, j, p) <=> LastReadingAt(S, j, p)
    <2>1. CASE p = 0
      <3>1. \A j : j \notin 1..p
        BY <2>1
      <3> QED BY <3>1 DEF LastFlagAt, LastReadingAt
    <2>2. CASE p # 0
      <3>1. p \in 1..p
        BY <2>2, <1>1
      <3> QED BY <3>1, <1>3
    <2> QED BY <2>1, <2>2
  <1>5. \A q \in 1..p : Started(T, q) <=> Started(S, q)
    <2>1. \A q \in 1..p : \A a \in 1..(q - 1) : a \in 1..p
      BY <1>1
    <2> QED BY <2>1 DEF Started
  <1>6. \A q \in 1..p : Ready(T, q) <=> Ready(S, q)
    <2>1. \A q \in 1..p : \A a \in 1..(q - 1) : a \in 1..p
      BY <1>1
    <2> QED BY <2>1, <1>5 DEF Ready
  <1>7. \A q \in 1..p : InStep(T, q) <=> InStep(S, q)
    <2>1. \A q \in 1..p : \A j : LastFlagAt(S, j, q) => T[j] = S[j]
      BY <1>2 DEF LastFlagAt
    <2> QED BY <2>1, <1>3 DEF InStep
  <1>8. \A q \in 1..p : /\ Usable(T, q) <=> Usable(S, q)
                        /\ Charged(T, q) <=> Charged(S, q)
    BY <1>6, <1>7 DEF Usable, Charged
  <1>9. \A q \in 1..p : \A j \in 1..q : j \in 1..p
    BY <1>1
  <1>10. EngineType /\ StartInv(T)
    BY DEF EngineInv, StartInv
  <1>11. InsyncInv(T)
    <2>1. \A j : LastFlagAt(S, j, p) => j \in 1..p
      BY DEF LastFlagAt
    <2> QED BY <2>1, <1>4, <1>5 DEF EngineInv, InsyncInv
  <1>12. ReadingInv(T)
    <2>1. \A j : LastReadingAt(S, j, p) => j \in 1..p
      BY DEF LastReadingAt
    <2> HIDE DEF p
    <2> QED BY <2>1, <1>4, <1>5, <1>6, <1>8 DEF EngineInv, ReadingInv, p
  <1>13. ResultsInv(T)
    <2>1. \A r \in 1..p : \A j : LastReadingAt(S, j, r) \/ LastFlagAt(S, j, r) => j \in 1..p
      BY <1>9 DEF LastReadingAt, LastFlagAt
    <2> QED BY <2>1, <1>3, <1>5, <1>7, <1>8 DEF EngineInv, ResultsInv
  <1>14. KeptInv(T)
    <2>1. \A r \in 1..p : \A j : LastReadingAt(S, j, r) => j \in 1..p
      BY <1>9 DEF LastReadingAt
    <2> QED BY <2>1, <1>3, <1>7, <1>8 DEF EngineInv, KeptInv
  <1> QED BY <1>10, <1>11, <1>12, <1>13, <1>14 DEF EngineInv

-----------------------------------------------------------------------------
(* The sums of the readings                                                *)

\* One event more adds itself to the readings after an earlier place, or nothing.
LEMMA LaterNow ==
  ASSUME NEW S, NEW p \in Nat, NEW q \in 1..p
  PROVE /\ Cardinality(Later(S, q, p)) \in Nat
        /\ Cardinality(Later(S, q, p + 1)) =
             IF S[p + 1].type = SCALERSYNC THEN Cardinality(Later(S, q, p)) + 1
             ELSE Cardinality(Later(S, q, p))
  <1>1. IsFiniteSet((q + 1)..p)
    BY FS_Interval
  <1>2. Later(S, q, p) \in SUBSET ((q + 1)..p)
    BY DEF Later
  <1>3. IsFiniteSet(Later(S, q, p)) /\ Cardinality(Later(S, q, p)) \in Nat
    BY <1>1, <1>2, FS_Subset, FS_CardinalityType
  <1>4. p + 1 \notin Later(S, q, p)
    BY DEF Later
  <1>5. \A x : x \in (q + 1)..(p + 1) <=> x \in (q + 1)..p \/ x = p + 1
    OBVIOUS
  <1>6. CASE S[p + 1].type = SCALERSYNC
    <2>1. Later(S, q, p + 1) = Later(S, q, p) \cup {p + 1}
      BY <1>5, <1>6 DEF Later
    <2> QED BY <2>1, <1>3, <1>4, <1>6, FS_AddElement
  <1>7. CASE S[p + 1].type # SCALERSYNC
    <2>1. Later(S, q, p + 1) = Later(S, q, p)
      BY <1>5, <1>7 DEF Later
    <2> QED BY <2>1, <1>3, <1>7
  <1> QED BY <1>6, <1>7

\* The last place has no reading after it.
LEMMA LaterNone ==
  ASSUME NEW S, NEW p \in Nat
  PROVE Cardinality(Later(S, p, p)) = 0
  <1>1. \A x : x \notin (p + 1)..p
    OBVIOUS
  <1>2. Later(S, p, p) = {}
    BY <1>1 DEF Later
  <1> QED BY <1>2, FS_EmptySet

\* An event that is no reading of the main loop leaves the sums alone.
LEMMA SumsQuiet ==
  ASSUME NEW S, SumsInv(S), total_event_count \in Nat,
         total_event_count' = total_event_count + 1,
         Usable(S, total_event_count + 1) => FALSE,
         \/ S[total_event_count + 1].type # SCALERSYNC
         \/ \A q \in 1..total_event_count : ~Usable(S, q),
         UNCHANGED <<gscaler_saved, gscaler_skipped, beam_on>>,
         analyzed_events'[0] = analyzed_events[0]
  PROVE SumsInv(S)'
  <1>0. PICK p \in Nat : p = total_event_count
    OBVIOUS
  <1>c. PICK c : c = analyzed_events[0] /\ c = analyzed_events'[0]
    OBVIOUS
  <1>1. \A q \in 1..(p + 1) : q \in 1..p \/ q = p + 1
    OBVIOUS
  <1>2. ASSUME NEW q \in 1..(p + 1), Usable(S, q)
        PROVE SummedAs(S, q, c - Cardinality(Later(S, q, p + 1)))
    <2>1. q \in 1..p
      BY <1>0, <1>1, <1>2
    <2>2. SummedAs(S, q, c - Cardinality(Later(S, q, p)))
      BY <2>1, <1>0, <1>c, <1>2 DEF SumsInv
    <2>3. Cardinality(Later(S, q, p + 1)) = Cardinality(Later(S, q, p))
      BY <2>1, <1>0, <1>2, LaterNow DEF Usable
    <2> QED BY <2>2, <2>3
  <1>3. ASSUME NEW q, NEW k, SummedAs(S, q, k) PROVE SummedAs(S, q, k)'
    BY <1>3 DEF SummedAs
  <1>4. total_event_count' = p + 1
    BY <1>0
  <1>5. \A q \in 1..(p + 1) : Usable(S, q) =>
          SummedAs(S, q, c - Cardinality(Later(S, q, p + 1)))'
    BY <1>2, <1>3
  <1>6. (gscaler_saved \cup gscaler_skipped \cup beam_on)' \subseteq 1..analyzed_events'[0]
    BY DEF SumsInv
  <1> QED BY <1>4, <1>5, <1>6, <1>c DEF SumsInv

\* A reading of the main loop goes where it deserves; those before stay where
\* they are, counted from one reading more.
LEMMA SumsReading ==
  ASSUME NEW S, EngineInv(S), SumsInv(S), total_event_count' = total_event_count + 1,
         EventOk(S[total_event_count + 1]), ReadingTaken(S[total_event_count + 1])
  PROVE SumsInv(S)'
  <1>p. PICK p \in Nat : p = total_event_count
    BY DEF EngineInv, EngineType
  <1> DEFINE e == S[p + 1]
  <1>0. EngineType /\ StartInv(S) /\ InsyncInv(S) /\ ReadingInv(S)
    BY DEF EngineInv
  <1>1. /\ p \in Nat /\ phase = "analysis" /\ e.type = SCALERSYNC /\ e.bcm \in Int
        /\ e.long \in BOOLEAN /\ insync \in Nat /\ insync' = insync
        /\ ave_current_bcm \in Int /\ skip_events \in BOOLEAN /\ Threshold \in Int
    BY <1>0, <1>p, ReplayAssumption DEF ReadingTaken, EngineType, EventOk
  <1>2. PICK c \in Nat : c = analyzed_events[0]
    BY <1>0 DEF EngineType, E!TrigTypes
  <1>d. PICK d \in Nat : d = c + 1
    BY <1>2
  <1>3. analyzed_events'[0] = c + 1
    <2>1. analyzed_events \in [E!TrigTypes -> Nat] /\ 0 \in E!TrigTypes
      BY <1>0 DEF EngineType, E!TrigTypes
    <2> QED BY <2>1, <1>2, <1>p DEF ReadingTaken
  <1>4. syncfilter_on = TRUE
    BY <1>0, <1>1, <1>p DEF EngineType, StartInv
  <1>5. IF c + 1 > 1 /\ e.bcm # -1
        THEN /\ ave_current_bcm' = e.bcm
             /\ skip_events' = e.long
             /\ beam_on' = IF e.bcm >= Threshold /\ insync = 0 /\ ~skip_events'
                           THEN beam_on \cup {c + 1} ELSE beam_on
        ELSE UNCHANGED <<ave_current_bcm, skip_events, beam_on>>
    BY <1>1, <1>2, <1>4, <1>p DEF ReadingTaken, E!Reading, E!NoBcm
  <1>6. IF ave_current_bcm' <= Threshold \/ insync = 1 \/ skip_events'
        THEN gscaler_skipped' = gscaler_skipped \cup {c + 1} /\ gscaler_saved' = gscaler_saved
        ELSE gscaler_saved' = gscaler_saved \cup {c + 1} /\ gscaler_skipped' = gscaler_skipped
    BY <1>2, <1>4, <1>p DEF ReadingTaken, E!SortReading
  <1>7. gscaler_saved \cup gscaler_skipped \cup beam_on \subseteq 1..c
    BY <1>2 DEF SumsInv
  <1>8. (gscaler_saved \cup gscaler_skipped \cup beam_on)' \subseteq 1..(c + 1)
    <2>1. 1..c \subseteq 1..(c + 1) /\ c + 1 \in 1..(c + 1)
      BY <1>2
    <2> QED BY <2>1, <1>5, <1>6, <1>7
  <1>9. ASSUME NEW k, k # c + 1
        PROVE /\ k \in gscaler_saved' <=> k \in gscaler_saved
              /\ k \in gscaler_skipped' <=> k \in gscaler_skipped
              /\ k \in beam_on' <=> k \in beam_on
    BY <1>5, <1>6, <1>9
  <1>10. ASSUME NEW q \in 1..p, Usable(S, q)
         PROVE SummedAs(S, q, d - Cardinality(Later(S, q, p + 1)))'
    <2>1. PICK l \in Nat : l = Cardinality(Later(S, q, p))
      BY <1>1, LaterNow
    <2>2. Cardinality(Later(S, q, p + 1)) = l + 1
      BY <2>1, <1>1, LaterNow
    <2>3. SummedAs(S, q, c - l)
      BY <2>1, <1>2, <1>10, <1>p DEF SumsInv
    <2>4. d - (l + 1) = c - l /\ c - l # c + 1
      BY <1>d
    <2>5. SummedAs(S, q, c - l)'
      BY <2>3, <2>4, <1>9 DEF SummedAs
    <2> QED BY <2>2, <2>4, <2>5
  <1>11. ASSUME Usable(S, p + 1) PROVE SummedAs(S, p + 1, c + 1)'
    <2>1. c + 1 > 1 /\ e.bcm # -1
      <3>1. PICK b \in 1..((p + 1) - 1) : S[b].type = SCALERSYNC /\ Started(S, b)
        BY <1>11 DEF Usable, Ready
      <3>2. b \in 1..p
        BY <1>1
      <3> QED BY <3>1, <3>2, <1>0, <1>2, <1>11, <1>p DEF ReadingInv, Usable
    <2>2. \A j : LastFlagAt(S, j, p + 1) <=> LastFlagAt(S, j, p)
      BY <1>1, LastNow DEF SCALERSYNC, FLAG
    <2>3. InStep(S, p + 1) => insync = 0
      <3>1. InStep(S, p + 1) => \A j : LastFlagAt(S, j, p) => S[j].flag = 0
        BY <2>2 DEF InStep
      <3> QED BY <3>1, <1>p, InForce
    <2>4. OutOfStep(S, p + 1) => insync = 1
      BY <2>2, <1>0, <1>p DEF OutOfStep, InsyncInv
    <2>5. c + 1 \notin gscaler_saved /\ c + 1 \notin gscaler_skipped /\ c + 1 \notin beam_on
      <3>1. c + 1 \notin 1..c
        BY <1>2
      <3> QED BY <3>1, <1>7
    <2>6. /\ ave_current_bcm' = e.bcm /\ skip_events' = e.long
          /\ beam_on' = IF e.bcm >= Threshold /\ insync = 0 /\ ~e.long
                        THEN beam_on \cup {c + 1} ELSE beam_on
      BY <2>1, <1>5
    <2>7. /\ c + 1 \in beam_on' <=> e.bcm >= Threshold /\ insync = 0 /\ ~e.long
          /\ c + 1 \in gscaler_skipped' <=> e.bcm <= Threshold \/ insync = 1 \/ e.long
          /\ c + 1 \in gscaler_saved' <=> ~(e.bcm <= Threshold \/ insync = 1 \/ e.long)
      BY <2>5, <2>6, <1>6
    <2>8. (e.bcm <= Threshold) <=> ~(e.bcm > Threshold)
      BY <1>1
    <2> QED BY <2>3, <2>4, <2>7, <2>8 DEF SummedAs
  <1>12. \A q \in 1..(p + 1) : q \in 1..p \/ q = p + 1
    BY <1>1
  <1>13. ASSUME NEW q \in 1..(p + 1), Usable(S, q)
         PROVE SummedAs(S, q, d - Cardinality(Later(S, q, p + 1)))'
    <2>1. CASE q \in 1..p
      BY <2>1, <1>10, <1>13
    <2>2. CASE q = p + 1
      <3>1. p + 1 \in Nat
        BY <1>1
      <3>2. Cardinality(Later(S, q, p + 1)) = 0
        BY <3>1, <2>2, LaterNone
      <3>3. d - 0 = c + 1
        BY <1>d
      <3> QED BY <3>2, <3>3, <2>2, <1>11, <1>13
    <2> QED BY <2>1, <2>2, <1>12
  <1>14. total_event_count' = p + 1
    BY <1>p
  <1>15. \A q \in 1..(p + 1) : Usable(S, q) =>
           SummedAs(S, q, d - Cardinality(Later(S, q, p + 1)))'
    BY <1>13
  <1>16. (gscaler_saved \cup gscaler_skipped \cup beam_on)' \subseteq 1..analyzed_events'[0]
    BY <1>3, <1>8
  <1>17. analyzed_events'[0] = d
    BY <1>3, <1>d
  <1> QED BY <1>14, <1>15, <1>16, <1>17 DEF SumsInv

\* Every event keeps the sums right.
LEMMA SumsStep ==
  ASSUME NEW S, EngineInv(S), SumsInv(S), EventOk(S[total_event_count + 1]),
         E!Process(S[total_event_count + 1])
  PROVE SumsInv(S)'
  <1> DEFINE p == total_event_count
             e == S[p + 1]
  <1>1. e.type \in Nat /\ p \in Nat /\ EngineType /\ StartInv(S)
    BY DEF EventOk, EngineInv, EngineType
  <1>2. /\ total_event_count' = total_event_count + 1
        /\ Informed(e) \/ ReadingTaken(e) \/ Dropped(e) \/ Analyzed(e) \/ Passed(e)
    BY <1>1, ProcessCases
  <1>3. CASE Informed(e)
    <2>1. ASSUME NEW q \in 1..(p + 1), Usable(S, q) PROVE FALSE
      <3>1. PICK b \in 1..(q - 1) : Started(S, b)
        BY <2>1 DEF Usable, Ready
      <3>2. PICK a \in 1..(b - 1) : S[a].type = GOEVENT
        BY <3>1 DEF Started
      <3>3. a \in 1..p
        BY <1>1
      <3> QED BY <3>2, <3>3, <1>1, <1>3 DEF StartInv, Informed
    <2>2. \A q \in 1..p : q \in 1..(p + 1)
      BY <1>1
    <2>3. p + 1 \in 1..(p + 1)
      BY <1>1
    <2> QED BY <2>1, <2>2, <2>3, <1>1, <1>2, <1>3, SumsQuiet DEF Informed
  <1>4. CASE ReadingTaken(e)
    BY <1>2, <1>4, SumsReading
  <1>5. CASE Dropped(e) \/ Passed(e)
    <2>1. e.type # SCALERSYNC
      BY <1>1, <1>5 DEF Dropped, Passed, E!TypeOf, SCALERSYNC
    <2> QED BY <2>1, <1>1, <1>2, <1>5, SumsQuiet DEF Dropped, Passed, Usable
  <1>6. CASE Analyzed(e)
    <2>1. PICK t \in 1..15 : t = E!TypeOf(e)
      BY <1>6 DEF Analyzed
    <2>2. e.type # SCALERSYNC
      BY <2>1 DEF E!TypeOf, SCALERSYNC
    <2>3. analyzed_events'[0] = analyzed_events[0]
      <3>1. analyzed_events' = [analyzed_events EXCEPT ![t] = @ + 1]
        BY <2>1, <1>6 DEF Analyzed
      <3>2. analyzed_events \in [E!TrigTypes -> Nat] /\ 0 \in E!TrigTypes /\ t # 0
        BY <1>1 DEF EngineType, E!TrigTypes
      <3> QED BY <3>1, <3>2
    <2> QED BY <2>2, <2>3, <1>1, <1>2, <1>6, SumsQuiet DEF Analyzed, Usable
  <1> QED BY <1>2, <1>3, <1>4, <1>5, <1>6

\* The end of the data leaves them alone.
LEMMA SumsEnd ==
  ASSUME NEW S, SumsInv(S), E!EndOfData
  PROVE SumsInv(S)'
  BY DEF SumsInv, SummedAs, E!EndOfData, E!counts, E!scalers

\* They are about the events that the engine has read.
LEMMA SameSums ==
  ASSUME NEW S, NEW T, total_event_count \in Nat, SumsInv(S),
         \A q \in 1..total_event_count : T[q] = S[q]
  PROVE SumsInv(T)
  <1> DEFINE p == total_event_count
  <1>1. \A q \in 1..p : \A k \in 1..q : T[k] = S[k]
    <2>1. \A q \in 1..p : \A k \in 1..q : k \in 1..p
      OBVIOUS
    <2> QED BY <2>1
  <1>2. ASSUME NEW q \in 1..p PROVE \A j : LastFlagAt(T, j, q) <=> LastFlagAt(S, j, q)
    <2>1. \A j \in 1..q : \A k \in (j + 1)..q : k \in 1..q
      OBVIOUS
    <2> QED BY <2>1, <1>1 DEF LastFlagAt
  <1>3. \A q \in 1..p : Started(T, q) <=> Started(S, q)
    <2>1. \A q \in 1..p : \A a \in 1..(q - 1) : a \in 1..p
      OBVIOUS
    <2> QED BY <2>1 DEF Started
  <1>4. \A q \in 1..p : Ready(T, q) <=> Ready(S, q)
    <2>1. \A q \in 1..p : \A a \in 1..(q - 1) : a \in 1..p
      OBVIOUS
    <2> QED BY <2>1, <1>3 DEF Ready
  <1>5. ASSUME NEW q \in 1..p
        PROVE (InStep(T, q) <=> InStep(S, q)) /\ (OutOfStep(T, q) <=> OutOfStep(S, q))
    <2>1. \A j : LastFlagAt(S, j, q) => T[j] = S[j] /\ j \in 1..p
      <3>1. \A j \in 1..q : j \in 1..p
        OBVIOUS
      <3> QED BY <3>1, <1>1 DEF LastFlagAt
    <2> QED BY <2>1, <1>2, <1>3 DEF InStep, OutOfStep
  <1>6. ASSUME NEW q \in 1..p PROVE Later(T, q, p) = Later(S, q, p)
    <2>1. \A x \in (q + 1)..p : x \in 1..p
      OBVIOUS
    <2> QED BY <2>1 DEF Later
  <1>7. ASSUME NEW q \in 1..p, Usable(T, q)
        PROVE SummedAs(T, q, analyzed_events[0] - Cardinality(Later(T, q, p)))
    <2>1. Usable(S, q) /\ T[q] = S[q]
      BY <1>4, <1>7 DEF Usable
    <2>2. SummedAs(S, q, analyzed_events[0] - Cardinality(Later(S, q, p)))
      BY <2>1 DEF SumsInv
    <2> QED BY <2>1, <2>2, <1>5, <1>6 DEF SummedAs
  <1> QED BY <1>7 DEF SumsInv

-----------------------------------------------------------------------------
(* The engine behind the filter                                            *)

Reads == [q \in 1..Len(out) |-> ReadAs(out[q])]

\* The filter's invariant, and the engine's of the output
ReplayInv ==
  /\ IInv /\ Ordered(out, input) /\ OutputInv
  /\ total_event_count <= Len(out)
  /\ EngineInv(Reads) /\ SumsInv(Reads)

\* The events that flags are read as
LEMMA FlagEvents ==
  /\ FlagEvent(INSYNC).flag = 0 /\ FlagEvent(OUTSYNC).flag = 1 /\ FlagEvent(EARLYEND).flag = 2
  /\ \A f : FlagEvent(f).type = 251 /\ FlagEvent(f).bcm \in Int /\ FlagEvent(f).long \in BOOLEAN
  BY EntryFacts DEF FlagEvent

\* What the engine reads are the events copied, and the flags.
LEMMA ReadsFacts ==
  ASSUME IInv, OutputInv, NEW q \in 1..Len(out)
  PROVE /\ Reads[q] = ReadAs(out[q]) /\ EventOk(Reads[q]) /\ q \in DOMAIN out
        /\ out[q].flag = "none" =>
             /\ out[q] = Copy(out[q].n)
             /\ out[q].n \in 1..Len(input) /\ out[q].n \in DOMAIN input
             /\ Reads[q] = input[out[q].n] /\ Reads[q].type # FLAG
        /\ out[q].flag # "none" =>
             /\ out[q] \in Flags /\ Reads[q].type = FLAG
             /\ Reads[q].flag = 0 => out[q] = INSYNC
             /\ Reads[q].flag = 1 <=> out[q] = OUTSYNC
  <1>1. Reads[q] = ReadAs(out[q]) /\ q \in DOMAIN out
    BY DEF Reads, IInv, TypeInv
  <1>2. ASSUME out[q].flag = "none"
        PROVE /\ out[q] = Copy(out[q].n) /\ EventOk(Reads[q])
              /\ out[q].n \in 1..Len(input) /\ out[q].n \in DOMAIN input
              /\ Reads[q] = input[out[q].n] /\ Reads[q].type # FLAG
    <2>1. out[q] = Copy(out[q].n) /\ out[q].n \in 1..(FirstHeld - 1)
      BY <1>1, <1>2 DEF IInv, CopiedInv, Copies
    <2>2. Len(input) \in Nat /\ DOMAIN input = 1..Len(input) /\ FirstHeld \in 1..(Len(input) + 1)
      BY HeldFacts DEF IInv
    <2>3. out[q].n \in 1..Len(input)
      BY <2>1, <2>2
    <2>4. input[out[q].n] \in Events
      BY <2>3 DEF IInv, TypeInv
    <2>5. Reads[q] = input[out[q].n]
      BY <1>1, <1>2 DEF ReadAs
    <2>6. EventOk(Reads[q]) /\ Reads[q].type # FLAG
      BY <2>4, <2>5, EventsAssumption, ReplayAssumption DEF EventOk, FLAG
    <2> QED BY <2>1, <2>2, <2>3, <2>5, <2>6
  <1>3. ASSUME out[q].flag # "none"
        PROVE /\ out[q] \in Flags /\ Reads[q].type = FLAG /\ EventOk(Reads[q])
              /\ Reads[q].flag = 0 => out[q] = INSYNC
              /\ Reads[q].flag = 1 <=> out[q] = OUTSYNC
    <2>1. out[q] \in Flags
      BY <1>1, <1>3 DEF OutputInv, Flagged
    <2>2. Reads[q] = FlagEvent(out[q])
      BY <1>1, <1>3 DEF ReadAs
    <2>3. ASSUME out[q] = INSYNC
          PROVE /\ Reads[q].flag = 0 => out[q] = INSYNC
                /\ Reads[q].flag = 1 <=> out[q] = OUTSYNC
      <3>1. Reads[q].flag = 0
        BY <2>2, <2>3, FlagEvents
      <3> QED BY <3>1, <2>3, EntryFacts
    <2>4. ASSUME out[q] = OUTSYNC
          PROVE /\ Reads[q].flag = 0 => out[q] = INSYNC
                /\ Reads[q].flag = 1 <=> out[q] = OUTSYNC
      <3>1. Reads[q].flag = 1
        BY <2>2, <2>4, FlagEvents
      <3> QED BY <3>1, <2>4, EntryFacts
    <2>5. ASSUME out[q] = EARLYEND
          PROVE /\ Reads[q].flag = 0 => out[q] = INSYNC
                /\ Reads[q].flag = 1 <=> out[q] = OUTSYNC
      <3>1. Reads[q].flag = 2
        BY <2>2, <2>5, FlagEvents
      <3> QED BY <3>1, <2>5, EntryFacts
    <2>6. EventOk(Reads[q]) /\ Reads[q].type = FLAG
      <3>1. Reads[q].type = 251 /\ Reads[q].bcm \in Int /\ Reads[q].long \in BOOLEAN
        BY <2>2, FlagEvents
      <3>2. Reads[q].flag \in {0, 1, 2}
        <4>1. \A f \in Flags : FlagEvent(f).flag \in {0, 1, 2}
          BY FlagEvents DEF Flags
        <4> QED BY <4>1, <2>1, <2>2
      <3> QED BY <3>1, <3>2 DEF EventOk, FLAG
    <2> QED BY <2>1, <2>3, <2>4, <2>5, <2>6 DEF Flags
  <1> QED BY <1>1, <1>2, <1>3

\* It holds at first.
LEMMA InitReplay ==
  ASSUME ReplayInit
  PROVE ReplayInv
  <1>1. IInv /\ OutputInv
    BY InitInv, InitOutput DEF ReplayInit
  <1>2. DOMAIN out = {1} /\ out[1] = INSYNC /\ INSYNC.flag # "none" /\ Len(out) = 1
    BY EntryFacts DEF ReplayInit, Init, Flags
  <1>3. Ordered(out, input)
    BY <1>2 DEF Ordered
  <1>4. total_event_count <= Len(out)
    BY <1>2 DEF ReplayInit, E!Init
  <1>5. EngineInv(Reads)
    BY InitEngine DEF ReplayInit
  <1>6. SumsInv(Reads)
    <2>1. total_event_count = 0 /\ gscaler_saved = {} /\ gscaler_skipped = {} /\ beam_on = {}
      BY DEF ReplayInit, E!Init
    <2>2. \A q : q \notin 1..0
      OBVIOUS
    <2> QED BY <2>1, <2>2 DEF SumsInv
  <1> QED BY <1>1, <1>3, <1>4, <1>5, <1>6 DEF ReplayInv

\* A step of the filter goes on with what the engine is to read.
LEMMA FilterKeeps ==
  ASSUME ReplayInv, [Next]_vars, UNCHANGED enginevars
  PROVE ReplayInv'
  <1>1. /\ OutputInv' /\ Continues(out, out')
        /\ IInv' /\ Ordered(out, input)'
        /\ \A n \in 1..Len(input) : input'[n] = input[n]
    BY NextInv, NextOrdered, NextOutput DEF ReplayInv
  <1>2. /\ out \in Seq(Entry) /\ out' \in Seq(Entry) /\ Len(out) \in Nat /\ Len(out') \in Nat
        /\ Len(out) <= Len(out') /\ \A i \in 1..Len(out) : out'[i] = out[i]
    BY <1>1 DEF ReplayInv, IInv, TypeInv, Continues
  <1>3. total_event_count \in Nat /\ total_event_count <= Len(out)
    BY DEF ReplayInv, EngineInv, EngineType
  <1>4. ASSUME NEW q \in 1..total_event_count PROVE Reads'[q] = Reads[q]
    <2>1. q \in 1..Len(out) /\ q \in 1..Len(out') /\ out'[q] = out[q]
      BY <1>2, <1>3
    <2>2. Reads[q] = ReadAs(out[q])
      BY <2>1 DEF Reads
    <2>3. Reads'[q] = ReadAs(out[q])'
      BY <2>1 DEF Reads
    <2>4. CASE out[q].flag = "none"
      <3>1. Reads[q] = input[out[q].n] /\ out[q].n \in 1..Len(input)
        BY <2>1, <2>4, ReadsFacts DEF ReplayInv
      <3>2. Reads'[q] = input'[out[q].n]
        BY <2>1, <2>3, <2>4 DEF ReadAs
      <3> QED BY <3>1, <3>2, <1>1
    <2>5. CASE out[q].flag # "none"
      <3>1. Reads[q] = FlagEvent(out[q])
        BY <2>2, <2>5 DEF ReadAs
      <3>2. Reads'[q] = FlagEvent(out[q])
        BY ZenonT(30), <2>1, <2>3, <2>5 DEF ReadAs, FlagEvent
      <3> QED BY <3>1, <3>2
    <2> QED BY <2>4, <2>5
  <1>5. EngineInv(Reads')
    <2>1. EngineInv(Reads)
      BY DEF ReplayInv
    <2> HIDE DEF Reads
    <2> QED BY <2>1, <1>4, SameEvents
  <1>6. EngineInv(Reads)'
    <2>1. PICK T : T = Reads'
      OBVIOUS
    <2>2. EngineInv(T)
      BY <2>1, <1>5
    <2>3. EngineInv(Reads)' <=> EngineInv(T)
      BY <2>1 DEF enginevars, EngineInv, EngineType, StartInv, InsyncInv, ReadingInv, ResultsInv, KeptInv
    <2> QED BY <2>2, <2>3
  <1>7. total_event_count' <= Len(out')
    BY <1>2, <1>3 DEF enginevars
  <1>8. SumsInv(Reads')
    <2>1. SumsInv(Reads)
      BY DEF ReplayInv
    <2> HIDE DEF Reads
    <2> QED BY <2>1, <1>3, <1>4, SameSums
  <1>9. SumsInv(Reads)'
    <2>1. PICK T : T = Reads'
      OBVIOUS
    <2>2. SumsInv(T)
      BY <2>1, <1>8
    <2>3. SumsInv(Reads)' <=> SumsInv(T)
      BY <2>1 DEF enginevars, SumsInv, SummedAs
    <2> QED BY <2>2, <2>3
  <1> QED BY <1>1, <1>6, <1>7, <1>9 DEF ReplayInv

\* A step of the engine reads the next of it.
LEMMA EngineKeeps ==
  ASSUME ReplayInv, EngineStep
  PROVE ReplayInv'
  <1>1. UNCHANGED vars
    BY DEF EngineStep
  <1>2. IInv' /\ Ordered(out, input)' /\ OutputInv'
    BY <1>1, NextInv, NextOrdered, NextOutput DEF ReplayInv
  <1>3. out' = out /\ input' = input
    BY <1>1 DEF vars
  <1>4. Reads' = Reads
    BY <1>3 DEF Reads, ReadAs, FlagEvent
  <1>5. total_event_count \in Nat /\ Len(out) \in Nat /\ total_event_count <= Len(out)
    BY DEF ReplayInv, EngineInv, EngineType, IInv, TypeInv
  <1>6. CASE total_event_count < Len(out) /\ E!Process(ReadAs(out[total_event_count + 1]))
    <2>1. total_event_count + 1 \in 1..Len(out)
      BY <1>5, <1>6
    <2>2. E!Process(Reads[total_event_count + 1]) /\ EventOk(Reads[total_event_count + 1])
      BY <2>1, <1>6, ReadsFacts DEF ReplayInv
    <2>3. Reads[1].type = FLAG
      <3>1. 1 \in 1..Len(out) /\ out[1] = INSYNC /\ INSYNC.flag # "none"
        BY EntryFacts DEF ReplayInv, OutputInv, Flagged, Flags, IInv, TypeInv
      <3> QED BY <3>1, ReadsFacts DEF ReplayInv
    <2>4. total_event_count' = total_event_count + 1
      BY <2>2, ProcessCases DEF EventOk
    <2>5. \E S : S = Reads /\ EngineInv(S)' /\ SumsInv(S)'
      <3>1. PICK S : S = Reads
        OBVIOUS
      <3>2. EngineInv(S) /\ SumsInv(S) /\ S[1].type = FLAG /\ EventOk(S[total_event_count + 1])
            /\ E!Process(S[total_event_count + 1])
        BY <3>1, <2>2, <2>3 DEF ReplayInv
      <3>3. EngineInv(S)' /\ SumsInv(S)'
        BY <3>2, ProcessStep, SumsStep
      <3> QED BY <3>1, <3>3
    <2>6. EngineInv(Reads)' /\ SumsInv(Reads)'
      BY <2>5, <1>4
    <2>7. total_event_count' <= Len(out')
      BY <2>4, <1>3, <1>5, <1>6
    <2> QED BY <2>6, <2>7, <1>2 DEF ReplayInv
  <1>7. CASE E!EndOfData
    <2>1. total_event_count' <= Len(out')
      BY <1>3, <1>5, <1>7 DEF E!EndOfData, E!counts, E!scalers
    <2>2. \E S : S = Reads /\ EngineInv(S)' /\ SumsInv(S)'
      <3>1. PICK S : S = Reads
        OBVIOUS
      <3>2. EngineInv(S) /\ SumsInv(S)
        BY <3>1 DEF ReplayInv
      <3>3. EngineInv(S)' /\ SumsInv(S)'
        BY <3>2, <1>7, EndStep, SumsEnd
      <3> QED BY <3>1, <3>3
    <2>3. EngineInv(Reads)' /\ SumsInv(Reads)'
      BY <2>2, <1>4
    <2> QED BY <2>1, <2>3, <1>2 DEF ReplayInv
  <1> QED BY <1>6, <1>7 DEF EngineStep

\* The invariant of the replay holds throughout.
LEMMA ReplayHolds == ReplaySpec => []ReplayInv
  <1>1. ReplayInv /\ [ReplayNext]_allvars => ReplayInv'
    <2>1. ASSUME ReplayInv, FilterStep PROVE ReplayInv'
      BY <2>1, FilterKeeps DEF FilterStep
    <2>2. ASSUME ReplayInv, EngineStep PROVE ReplayInv'
      BY <2>2, EngineKeeps
    <2>3. ASSUME ReplayInv, UNCHANGED allvars PROVE ReplayInv'
      BY <2>3, FilterKeeps DEF allvars
    <2> QED BY <2>1, <2>2, <2>3 DEF ReplayNext
  <1> QED BY <1>1, InitReplay, PTL DEF ReplaySpec

-----------------------------------------------------------------------------
(* What follows for the charge and the yield                               *)

\* i is the place of a copy, which is of event out[i].n.
CopyAt(i) == i \in DOMAIN out /\ out[i].flag = "none"

\* The output at the places of copies
LEMMA CopyFacts ==
  ASSUME ReplayInv
  PROVE /\ DOMAIN out = 1..Len(out) /\ Len(out) \in Nat
        /\ DOMAIN input = 1..Len(input) /\ Len(input) \in Nat
        /\ \A i : CopyAt(i) => i \in Nat /\ out[i].n \in DOMAIN input /\ out[i].n \in Nat
        /\ \A i, j : CopyAt(i) /\ CopyAt(j) => (out[i].n = out[j].n <=> i = j)
        /\ \A i, j : CopyAt(i) /\ CopyAt(j) /\ i < j => Before(input, out[i].n, out[j].n)
        /\ \A n \in DOMAIN input : IsSync(input[n]) => \E i : CopyAt(i) /\ out[i] = Copy(n)
  <1>1. /\ DOMAIN out = 1..Len(out) /\ Len(out) \in Nat
        /\ DOMAIN input = 1..Len(input) /\ Len(input) \in Nat
        /\ FirstHeld \in 1..(Len(input) + 1)
    BY HeldFacts DEF ReplayInv, IInv, TypeInv
  <1>2. \A i : CopyAt(i) => out[i].n \in 1..(FirstHeld - 1) /\ out[i] = Copy(out[i].n)
    BY DEF ReplayInv, IInv, CopiedInv, Copies, CopyAt
  <1>3. \A n \in 1..(FirstHeld - 1) : n \in DOMAIN input /\ n \in Nat
    BY <1>1
  <1>4. \A i, j : CopyAt(i) /\ CopyAt(j) => (out[i].n = out[j].n <=> i = j)
    <2>1. \A i, j : CopyAt(i) /\ CopyAt(j) /\ out[i] = out[j] => i = j
      BY DEF ReplayInv, IInv, CopiedInv, Copies, CopyAt
    <2> QED BY <2>1, <1>2
  <1>5. \A i, j : CopyAt(i) /\ CopyAt(j) /\ i < j => Before(input, out[i].n, out[j].n)
    BY DEF ReplayInv, Ordered, CopyAt
  <1>6. ASSUME NEW n \in DOMAIN input, IsSync(input[n])
        PROVE \E i : CopyAt(i) /\ out[i] = Copy(n)
    <2>1. n \in 1..(FirstHeld - 1)
      <3>1. n \notin FirstHeld..Len(input)
        BY <1>6 DEF ReplayInv, OutputInv
      <3> QED BY <3>1, <1>1
    <2>2. PICK i \in DOMAIN out : out[i] = Copy(n)
      BY <2>1 DEF ReplayInv, IInv, CopiedInv, Copies
    <2>3. out[i].flag = "none"
      BY <2>2, <2>1, <1>3, EntryFacts
    <2> QED BY <2>2, <2>3 DEF CopyAt
  <1>7. \A i : CopyAt(i) => i \in Nat
    BY <1>1 DEF CopyAt
  <1> QED BY <1>1, <1>2, <1>3, <1>4, <1>5, <1>6, <1>7

\* A synchronization event comes before every later one, and before a later
\* event whose interval a reading ends.
LEMMA SyncsInOrder ==
  ASSUME ReplayInv, NEW i, NEW j, CopyAt(i), CopyAt(j),
         out[i].n < out[j].n, IsSync(input[out[i].n]),
         \/ IsSync(input[out[j].n])
         \/ \E m \in DOMAIN input : EndedByReading(out[j].n, m)
  PROVE i < j
  <1> DEFINE m == out[i].n
             n == out[j].n
  <1>1. m \in DOMAIN input /\ n \in DOMAIN input /\ m \in Nat /\ n \in Nat /\ i \in Nat /\ j \in Nat
    BY CopyFacts
  <1>2. i # j
    BY <1>1
  <1>3. ASSUME j < i PROVE FALSE
    <2>1. Before(input, n, m)
      BY <1>3, CopyFacts
    <2>2. ~SameIn(input, m, n)
      <3>1. IsSync(input[n])
        BY <2>1, <1>1 DEF Before
      <3> QED BY <2>1, <1>1 DEF Before, SameIn
    <2> QED BY <2>1, <2>2, <1>1 DEF Before, SameIn
  <1> QED BY <1>1, <1>2, <1>3

\* The reading that ends the interval of an event is the last before it.
LEMMA ReadingComesFirst ==
  ASSUME ReplayInv, NEW i, CopyAt(i), NEW m \in DOMAIN input, EndedByReading(out[i].n, m)
  PROVE \E j \in 1..(i - 1) :
          /\ CopyAt(j) /\ out[j] = Copy(m) /\ out[j].n = m
          /\ \A k \in (j + 1)..i : out[k].flag = "none" => input[out[k].n].type # SCALERSYNC
  <1> DEFINE n == out[i].n
  <1>1. /\ DOMAIN out = 1..Len(out) /\ Len(out) \in Nat /\ i \in 1..Len(out)
        /\ DOMAIN input = 1..Len(input) /\ Len(input) \in Nat
        /\ n \in DOMAIN input /\ n \in Nat /\ m \in Nat
    BY CopyFacts DEF CopyAt
  <1>2. /\ n < m /\ input[m].type = SCALERSYNC /\ IsSync(input[m])
        /\ \A k \in DOMAIN input : n <= k /\ k < m => ~IsSync(input[k])
    BY DEF EndedByReading, SameInterval, IsSync
  <1>3. ~IsSync(input[n])
    BY <1>1, <1>2
  <1>4. PICK j : CopyAt(j) /\ out[j] = Copy(m)
    BY <1>2, CopyFacts
  <1>5. j \in DOMAIN out /\ out[j].n = m /\ j \in Nat
    BY <1>1, <1>4, EntryFacts DEF CopyAt
  <1>6. j < i
    <2>1. j # i
      BY <1>1, <1>2, <1>5
    <2>2. ASSUME i < j PROVE FALSE
      <3>1. Before(input, n, m)
        BY <2>2, <1>4, <1>5, CopyFacts
      <3>2. SameIn(input, n, m)
        BY <1>1, <1>2 DEF SameIn
      <3> QED BY <3>1, <3>2, <1>2, <1>3 DEF Before
    <2> QED BY <2>1, <2>2, <1>1, <1>5
  <1>7. ASSUME NEW k \in (j + 1)..i, out[k].flag = "none", input[out[k].n].type = SCALERSYNC
        PROVE FALSE
    <2> DEFINE p == out[k].n
    <2>1. CopyAt(k) /\ j < k
      BY <1>1, <1>5, <1>7 DEF CopyAt
    <2>2. IsSync(input[p]) /\ p \in DOMAIN input /\ p \in Nat
      BY <2>1, <1>7, CopyFacts DEF IsSync
    <2>3. p # n /\ p # m
      <3>1. p # n
        BY <2>2, <1>3
      <3>2. p # m
        BY <2>1, <1>4, <1>5, CopyFacts
      <3> QED BY <3>1, <3>2
    <2>4. k < i
      <3>1. k # i
        BY <2>3
      <3> QED BY <3>1, <1>1, <1>5, <1>7
    <2>5. Before(input, m, p) /\ Before(input, p, n)
      BY <2>1, <2>4, <1>4, <1>5, CopyFacts
    <2>6. CASE p < n
      <3>1. ~SameIn(input, p, m)
        BY SMTT(30), <2>2, <2>6, <1>1, <1>2 DEF SameIn
      <3>2. m < p
        BY <3>1, <2>5 DEF Before
      <3> QED BY <3>2, <2>2, <2>6, <1>1, <1>2
    <2>7. CASE n < p
      <3>1. SameIn(input, n, p)
        BY <2>2, <2>3, <2>5, <2>7, <1>1 DEF Before
      <3> QED BY SMTT(30), <3>1, <2>2, <2>3, <2>7, <1>1, <1>2 DEF SameIn
    <2> QED BY <2>2, <2>3, <2>6, <2>7, <1>1
  <1> QED BY <1>1, <1>4, <1>5, <1>6, <1>7

\* It is as suspect as they are.
LEMMA ReadingIsSuspect ==
  ASSUME NEW n \in DOMAIN input, NEW m \in DOMAIN input, EndedByReading(n, m),
         input \in Seq(Events)
  PROVE /\ Suspect(n) <=> Suspect(m)
        /\ Complete(n) /\ Complete(m)
  <1>1. DOMAIN input = 1..Len(input) /\ Len(input) \in Nat
    OBVIOUS
  <1>2. /\ n < m /\ IsSync(input[m])
        /\ \A k \in DOMAIN input : n <= k /\ k < m => ~IsSync(input[k])
    BY DEF EndedByReading, SameInterval, IsSync
  <1>3. \A z \in DOMAIN input : SameInterval(z, n) <=> SameInterval(z, m)
    BY <1>1, <1>2 DEF SameInterval
  <1>4. \A z \in DOMAIN input : SameInterval(n, z) <=> SameInterval(z, n)
    BY DEF SameInterval
  <1>5. Suspect(n) <=> Suspect(m)
    BY <1>3, <1>4 DEF Suspect, SameInterval
  <1>6. m \in n..Len(input) /\ m \in m..Len(input)
    BY <1>1, <1>2
  <1> QED BY <1>2, <1>5, <1>6 DEF Complete

\* The engine is in step where the filter's flags are.
LEMMA InStepThere ==
  ASSUME ReplayInv, NEW i, CopyAt(i), Complete(out[i].n), ~Suspect(out[i].n)
  PROVE InStep(Reads, i)
  <1>1. DOMAIN out = 1..Len(out) /\ Len(out) \in Nat /\ i \in 1..Len(out) /\ out[i].flag = "none"
    BY CopyFacts DEF CopyAt
  <1>2. ~Under(OUTSYNC, i) /\ ~Under(EARLYEND, i)
    BY <1>1 DEF ReplayInv, IInv, FlagsAreRight
  <1>3. ASSUME NEW j, LastFlagAt(Reads, j, i) PROVE Reads[j].flag = 0
    <2>1. j \in 1..i /\ j \in 1..Len(out) /\ Reads[j].type = FLAG
      BY <1>1, <1>3 DEF LastFlagAt
    <2>2. out[j].flag # "none" /\ out[j] \in Flags
      BY <2>1, ReadsFacts DEF ReplayInv
    <2>3. \A k \in (j + 1)..i : out[k].flag = "none"
      <3>1. ASSUME NEW k \in (j + 1)..i PROVE out[k].flag = "none"
        <4>1. k \in 1..Len(out)
          BY <1>1, <2>1
        <4>2. Reads[k].type # FLAG
          BY <1>3 DEF LastFlagAt
        <4> QED BY <4>1, <4>2, ReadsFacts DEF ReplayInv
      <3> QED BY <3>1
    <2>4. out[j] = INSYNC
      BY <2>1, <2>2, <2>3, <1>2 DEF Under, Flags
    <2> QED BY <2>4, <2>1, FlagEvents, EntryFacts DEF Reads, ReadAs, Flags
  <1> QED BY <1>3 DEF InStep

\* The first reading before an event, as the engine meets it
LEMMA FirstReadingRead ==
  ASSUME ReplayInv, NEW i, CopyAt(i), NEW m \in DOMAIN input, EndedByReading(out[i].n, m),
         PastFirstReading(out[i].n)
  PROVE \E j \in 1..(i - 1) :
          /\ CopyAt(j) /\ out[j] = Copy(m) /\ out[j].n = m
          /\ \A k \in (j + 1)..i : out[k].flag = "none" => input[out[k].n].type # SCALERSYNC
          /\ LastReadingAt(Reads, j, i) /\ Reads[j] = input[m] /\ Ready(Reads, j)
          /\ \E a \in 1..(j - 1) : /\ CopyAt(a) /\ Reads[a].type = GOEVENT
                                   /\ IsSync(input[out[a].n]) /\ out[a].n < out[i].n
  <1>1. /\ DOMAIN out = 1..Len(out) /\ Len(out) \in Nat /\ i \in 1..Len(out)
        /\ DOMAIN input = 1..Len(input) /\ Len(input) \in Nat
        /\ out[i].n \in 1..Len(input) /\ out[i].n \in Nat /\ m \in Nat
    BY CopyFacts DEF CopyAt
  <1>2. out[i].n < m /\ input[m].type = SCALERSYNC /\ IsSync(input[m])
    BY DEF EndedByReading, IsSync
  <1>3. PICK j \in 1..(i - 1) :
          /\ CopyAt(j) /\ out[j] = Copy(m) /\ out[j].n = m
          /\ \A k \in (j + 1)..i : out[k].flag = "none" => input[out[k].n].type # SCALERSYNC
    BY ReadingComesFirst
  <1>4. Reads[j] = input[m] /\ Reads[j].type = SCALERSYNC /\ j \in 1..i /\ j \in Nat /\ i \in Nat
    <2>1. j \in 1..Len(out) /\ j \in 1..i /\ j \in Nat /\ i \in Nat
      BY <1>1
    <2> QED BY <2>1, <1>2, <1>3, ReadsFacts DEF ReplayInv, CopyAt
  <1>5. LastReadingAt(Reads, j, i)
    <2>1. ASSUME NEW k \in (j + 1)..i PROVE Reads[k].type # SCALERSYNC
      <3>1. k \in 1..Len(out)
        BY <1>1, <1>4
      <3>2. CASE out[k].flag = "none"
        BY <3>1, <3>2, <1>3, ReadsFacts DEF ReplayInv
      <3>3. CASE out[k].flag # "none"
        BY <3>1, <3>3, ReadsFacts DEF ReplayInv, FLAG, SCALERSYNC
      <3> QED BY <3>2, <3>3
    <2> QED BY <2>1, <1>4 DEF LastReadingAt
  <1>6. PICK g \in 1..(out[i].n - 1), r \in 1..(out[i].n - 1) :
          g < r /\ input[g].type = GOEVENT /\ input[r].type = SCALERSYNC
    BY DEF PastFirstReading
  <1>7. /\ g \in DOMAIN input /\ r \in DOMAIN input /\ IsSync(input[g]) /\ IsSync(input[r])
        /\ g < r /\ r < m /\ g < out[i].n
    BY <1>1, <1>2, <1>6 DEF IsSync
  <1>8. PICK a : CopyAt(a) /\ out[a] = Copy(g)
    BY <1>7, CopyFacts
  <1>9. PICK b : CopyAt(b) /\ out[b] = Copy(r)
    BY <1>7, CopyFacts
  <1>10. /\ out[a].n = g /\ out[b].n = r /\ a \in 1..Len(out) /\ b \in 1..Len(out)
         /\ Reads[a].type = GOEVENT /\ Reads[b].type = SCALERSYNC
    <2>1. g \in Nat /\ r \in Nat
      BY <1>6, <1>1
    <2>2. out[a].n = g /\ out[b].n = r
      BY <2>1, <1>8, <1>9, EntryFacts
    <2>3. a \in 1..Len(out) /\ b \in 1..Len(out)
      BY <1>1, <1>8, <1>9 DEF CopyAt
    <2> QED BY <2>2, <2>3, <1>6, <1>8, <1>9, ReadsFacts DEF ReplayInv, CopyAt
  <1>11. a < b /\ b < j
    <2>1. a < b
      BY <1>7, <1>8, <1>9, <1>10, SyncsInOrder
    <2>2. b < j
      BY <1>2, <1>3, <1>7, <1>9, <1>10, SyncsInOrder
    <2> QED BY <2>1, <2>2
  <1>12. a \in 1..(b - 1) /\ b \in 1..(j - 1) /\ a \in 1..(j - 1)
    BY <1>10, <1>11, <1>4, <1>1
  <1>13. Ready(Reads, j)
    BY <1>10, <1>12 DEF Ready, Started
  <1> QED BY <1>3, <1>4, <1>5, <1>7, <1>8, <1>10, <1>12, <1>13

\* The flag over a suspect event whose interval is complete, once a GO event has
\* been passed on before it: an OUTSYNC that the engine's main loop has seen
LEMMA OutOfStepThere ==
  ASSUME ReplayInv, NEW i, CopyAt(i), Complete(out[i].n), Suspect(out[i].n),
         NEW a \in 1..(i - 1), CopyAt(a), Reads[a].type = GOEVENT,
         IsSync(input[out[a].n]), out[a].n < out[i].n
  PROVE OutOfStep(Reads, i)
  <1>1. DOMAIN out = 1..Len(out) /\ Len(out) \in Nat /\ i \in 1..Len(out) /\ i \in Nat
    BY CopyFacts DEF CopyAt
  <1>2. Under(OUTSYNC, i)
    BY <1>1 DEF ReplayInv, IInv, FlagsAreRight, CopyAt
  <1>3. PICK j \in 1..i : out[j] = OUTSYNC /\ \A k \in (j + 1)..i : out[k].flag = "none"
    BY <1>2 DEF Under
  <1>4. UnderIn(out, OUTSYNC, i)
    BY <1>3 DEF UnderIn
  <1>5. PICK k \in (a + 1)..i : out[k].flag # "none"
    <2>1. a < i /\ a \in DOMAIN out /\ i \in DOMAIN out /\ out[a].flag = "none" /\ out[i].flag = "none"
      BY <1>1 DEF CopyAt
    <2> QED BY <2>1, <1>4 DEF ReplayInv, OutputInv, Fenced
  <1>6. a \in 1..(j - 1) /\ j \in 1..Len(out)
    <2>1. a \in Nat /\ j \in Nat /\ k \in Nat
      BY <1>1
    <2>2. ~(k > j)
      BY <2>1, <1>3, <1>5, <1>1
    <2> QED BY <2>1, <2>2, <1>1
  <1>7. LastFlagAt(Reads, j, i)
    <2>1. Reads[j].type = FLAG
      BY <1>3, <1>6, EntryFacts, ReadsFacts DEF ReplayInv, Flags
    <2>2. ASSUME NEW q \in (j + 1)..i PROVE Reads[q].type # FLAG
      <3>1. q \in 1..Len(out) /\ out[q].flag = "none"
        BY <1>3, <1>1
      <3> QED BY <3>1, ReadsFacts DEF ReplayInv
    <2> QED BY <2>1, <2>2 DEF LastFlagAt
  <1>8. Started(Reads, j)
    BY <1>6 DEF Started
  <1>9. Reads[j].flag = 1
    BY <1>3, <1>6, EntryFacts, ReadsFacts DEF ReplayInv, Flags
  <1> QED BY <1>7, <1>8, <1>9 DEF OutOfStep

\* No event of a suspect interval has a result.
LEMMA ResultNotSuspect ==
  ASSUME ReplayInv, NEW t \in DOMAIN results, CopyAt(results[t].n), IsBeam(out[results[t].n].n),
         Complete(out[results[t].n].n),
         NEW a \in 1..(results[t].n - 1), CopyAt(a), Reads[a].type = GOEVENT,
         IsSync(input[out[a].n]), out[a].n < out[results[t].n].n
  PROVE ~Suspect(out[results[t].n].n)
  <1> DEFINE i == results[t].n
             n == out[i].n
  <1>1. i \in 1..Len(out)
    BY CopyFacts DEF CopyAt
  <1>2. Reads[i] = input[n] /\ Reads[i].type \notin {0, 4}
    BY <1>1, ReadsFacts DEF ReplayInv, CopyAt, IsBeam
  <1>3. ~OutOfStep(Reads, i)
    BY <1>2 DEF ReplayInv, EngineInv, ResultsInv, OutOfStep
  <1> QED BY <1>3, OutOfStepThere

\* What was analyzed was charged.
LEMMA AnalyzedCharged ==
  ASSUME ReplayInv
  PROVE AnalyzedIsCharged
  <1> SUFFICES ASSUME NEW t \in DOMAIN results, IsBeam(Source(results[t])),
                      PastFirstReading(Source(results[t])),
                      NEW m \in DOMAIN input, EndedByReading(Source(results[t]), m),
                      input[m].bcm # -1
               PROVE LastReading(m, results[t].n) /\ results[t].read \in beam_on
    BY DEF AnalyzedIsCharged
  <1> DEFINE i == results[t].n
             n == out[i].n
  <1>0. Source(results[t]) = n
    BY DEF Source
  <1>1. i \in 1..total_event_count /\ Reads[i].type # FLAG
    BY DEF ReplayInv, EngineInv, ResultsInv
  <1>2. CopyAt(i) /\ i \in 1..Len(out)
    <2>1. Len(out) \in Nat /\ total_event_count \in Nat /\ total_event_count <= Len(out)
      BY DEF ReplayInv, EngineInv, EngineType, IInv, TypeInv
    <2>2. i \in 1..Len(out)
      BY <2>1, <1>1
    <2> QED BY <2>2, <1>1, ReadsFacts DEF ReplayInv, CopyAt
  <1>3. PICK j \in 1..(i - 1) :
          /\ CopyAt(j) /\ out[j] = Copy(m) /\ out[j].n = m
          /\ \A k \in (j + 1)..i : out[k].flag = "none" => input[out[k].n].type # SCALERSYNC
          /\ LastReadingAt(Reads, j, i) /\ Reads[j] = input[m] /\ Ready(Reads, j)
          /\ \E a \in 1..(j - 1) : /\ CopyAt(a) /\ Reads[a].type = GOEVENT
                                   /\ IsSync(input[out[a].n]) /\ out[a].n < n
    BY <1>0, <1>2, FirstReadingRead
  <1>4. PICK a \in 1..(j - 1) : /\ CopyAt(a) /\ Reads[a].type = GOEVENT
                                /\ IsSync(input[out[a].n]) /\ out[a].n < n
    BY <1>3
  <1>5. a \in 1..(i - 1) /\ j \in 1..i
    BY <1>2
  <1>6. n \in DOMAIN input /\ input \in Seq(Events)
    BY <1>2, CopyFacts DEF ReplayInv, IInv, TypeInv
  <1>7. (Suspect(n) <=> Suspect(m)) /\ Complete(n) /\ Complete(m)
    BY <1>0, <1>6, ReadingIsSuspect
  <1>8. ~Suspect(n)
    BY <1>0, <1>2, <1>4, <1>5, <1>7, ResultNotSuspect
  <1>9. InStep(Reads, j)
    BY <1>3, <1>7, <1>8, InStepThere
  <1>10. Usable(Reads, j)
    BY <1>3 DEF Usable, EndedByReading
  <1>11. Reads[i].type \notin {0, 4}
    BY <1>0, <1>2, ReadsFacts DEF ReplayInv, CopyAt, IsBeam
  <1>12. results[t].read \in beam_on
    BY <1>3, <1>9, <1>10, <1>11 DEF ReplayInv, EngineInv, ResultsInv
  <1>13. LastReading(m, i)
    BY <1>3, <1>5 DEF LastReading
  <1> QED BY <1>12, <1>13

\* What was charged was analyzed.
LEMMA ChargedAnalyzed ==
  ASSUME ReplayInv
  PROVE ChargedIsAnalyzed
  <1> SUFFICES ASSUME NEW p \in 1..total_event_count, out[p].flag = "none", IsBeam(out[p].n),
                      input[out[p].n].type \in Enabled \cap 1..8, ~input[out[p].n].fault,
                      PastFirstReading(out[p].n), ~Suspect(out[p].n),
                      NEW m \in DOMAIN input, EndedByReading(out[p].n, m),
                      input[m].bcm >= Threshold, input[m].bcm # -1, ~input[m].long
               PROVE \E i \in DOMAIN results : results[i].n = p
    BY DEF ChargedIsAnalyzed
  <1> DEFINE n == out[p].n
  <1>1. CopyAt(p) /\ p \in 1..Len(out)
    <2>1. /\ Len(out) \in Nat /\ total_event_count \in Nat /\ total_event_count <= Len(out)
          /\ DOMAIN out = 1..Len(out)
      BY DEF ReplayInv, EngineInv, EngineType, IInv, TypeInv
    <2> QED BY <2>1 DEF CopyAt
  <1>2. Reads[p] = input[n]
    BY <1>1, ReadsFacts DEF ReplayInv
  <1>3. PICK j : LastReadingAt(Reads, j, p) /\ Reads[j] = input[m] /\ Ready(Reads, j)
    BY <1>1, FirstReadingRead
  <1>4. n \in DOMAIN input /\ input \in Seq(Events)
    BY <1>1, CopyFacts DEF ReplayInv, IInv, TypeInv
  <1>5. InStep(Reads, p)
    <2>1. Complete(n)
      BY <1>4, ReadingIsSuspect
    <2> QED BY <2>1, <1>1, InStepThere
  <1>6. Usable(Reads, j) /\ Reads[j].bcm >= Threshold /\ ~Reads[j].long
    BY <1>3 DEF Usable, EndedByReading
  <1>7. Reads[p].type \in (Enabled \cap 1..8) \ {4} /\ ~Reads[p].fault
    BY <1>2 DEF IsBeam
  <1>8. KeptInv(Reads)
    BY DEF ReplayInv, EngineInv
  <1> QED BY <1>3, <1>5, <1>6, <1>7, <1>8 DEF KeptInv

\* A reading after the first one is met by the engine after a GO event and a reading.
LEMMA ReadingReady ==
  ASSUME ReplayInv, NEW i, CopyAt(i), input[out[i].n].type = SCALERSYNC,
         PastFirstReading(out[i].n)
  PROVE /\ Ready(Reads, i)
        /\ \E a \in 1..(i - 1) : /\ CopyAt(a) /\ Reads[a].type = GOEVENT
                                 /\ IsSync(input[out[a].n]) /\ out[a].n < out[i].n
  <1>1. /\ DOMAIN out = 1..Len(out) /\ Len(out) \in Nat /\ i \in 1..Len(out)
        /\ DOMAIN input = 1..Len(input) /\ Len(input) \in Nat
        /\ out[i].n \in 1..Len(input) /\ out[i].n \in Nat /\ IsSync(input[out[i].n])
    BY CopyFacts DEF CopyAt, IsSync
  <1>2. PICK g \in 1..(out[i].n - 1), r \in 1..(out[i].n - 1) :
          g < r /\ input[g].type = GOEVENT /\ input[r].type = SCALERSYNC
    BY DEF PastFirstReading
  <1>3. /\ g \in DOMAIN input /\ r \in DOMAIN input /\ IsSync(input[g]) /\ IsSync(input[r])
        /\ g < r /\ r < out[i].n /\ g < out[i].n
    BY <1>1, <1>2 DEF IsSync
  <1>4. PICK a : CopyAt(a) /\ out[a] = Copy(g)
    BY <1>3, CopyFacts
  <1>5. PICK b : CopyAt(b) /\ out[b] = Copy(r)
    BY <1>3, CopyFacts
  <1>6. /\ out[a].n = g /\ out[b].n = r /\ a \in 1..Len(out) /\ b \in 1..Len(out)
        /\ Reads[a].type = GOEVENT /\ Reads[b].type = SCALERSYNC
    <2>1. g \in Nat /\ r \in Nat
      BY <1>2, <1>1
    <2>2. out[a].n = g /\ out[b].n = r
      BY <2>1, <1>4, <1>5, EntryFacts
    <2>3. a \in 1..Len(out) /\ b \in 1..Len(out)
      BY <1>1, <1>4, <1>5 DEF CopyAt
    <2> QED BY <2>2, <2>3, <1>2, <1>4, <1>5, ReadsFacts DEF ReplayInv, CopyAt
  <1>7. a < b /\ b < i
    <2>1. a < b
      BY <1>3, <1>4, <1>5, <1>6, SyncsInOrder
    <2>2. b < i
      BY <1>1, <1>3, <1>5, <1>6, SyncsInOrder
    <2> QED BY <2>1, <2>2
  <1>8. a \in 1..(b - 1) /\ b \in 1..(i - 1) /\ a \in 1..(i - 1)
    BY <1>6, <1>7, <1>1
  <1>9. Ready(Reads, i)
    BY <1>6, <1>8 DEF Ready, Started
  <1> QED BY <1>3, <1>4, <1>6, <1>8, <1>9

\* The sums have what the intervals deserve.
LEMMA SumsAreSound ==
  ASSUME ReplayInv
  PROVE ChargeIsSound
  <1> SUFFICES ASSUME NEW p \in 1..total_event_count, out[p].flag = "none",
                      input[out[p].n].type = SCALERSYNC, input[out[p].n].bcm # -1,
                      PastFirstReading(out[p].n)
               PROVE LET m == out[p].n
                         sound == ~Suspect(m) /\ ~input[m].long
                     IN /\ NumberAt(p) \in gscaler_saved <=> sound /\ input[m].bcm > Threshold
                        /\ NumberAt(p) \in gscaler_skipped <=> ~(sound /\ input[m].bcm > Threshold)
                        /\ NumberAt(p) \in beam_on <=> sound /\ input[m].bcm >= Threshold
    BY DEF ChargeIsSound
  <1> DEFINE m == out[p].n
             N == total_event_count
  <1>1. /\ Len(out) \in Nat /\ N \in Nat /\ N <= Len(out) /\ DOMAIN out = 1..Len(out)
        /\ input \in Seq(Events)
    BY DEF ReplayInv, EngineInv, EngineType, IInv, TypeInv
  <1>2. CopyAt(p) /\ p \in 1..Len(out) /\ p \in Nat
    BY <1>1 DEF CopyAt
  <1>3. Reads[p] = input[m] /\ m \in DOMAIN input /\ m \in Nat
    BY <1>2, ReadsFacts, CopyFacts DEF ReplayInv
  <1>4. /\ Ready(Reads, p)
        /\ \E a \in 1..(p - 1) : /\ CopyAt(a) /\ Reads[a].type = GOEVENT
                                 /\ IsSync(input[out[a].n]) /\ out[a].n < m
    BY <1>2, ReadingReady
  <1>5. Usable(Reads, p)
    BY <1>3, <1>4 DEF Usable
  <1>6. NumberAt(p) = analyzed_events[0] - Cardinality(Later(Reads, p, N))
    <2>1. ASSUME NEW q \in (p + 1)..N
          PROVE Reads[q].type = SCALERSYNC <=>
                  out[q].flag = "none" /\ input[out[q].n].type = SCALERSYNC
      <3>1. q \in 1..Len(out)
        BY <1>1, <1>2
      <3> QED BY <3>1, ReadsFacts DEF ReplayInv, FLAG, SCALERSYNC
    <2>2. Later(Reads, p, N) =
            {q \in (p + 1)..N : out[q].flag = "none" /\ input[out[q].n].type = SCALERSYNC}
      BY <2>1 DEF Later
    <2> QED BY <2>2 DEF NumberAt
  <1>7. SummedAs(Reads, p, NumberAt(p))
    BY <1>5, <1>6 DEF ReplayInv, SumsInv
  <1>8. Complete(m)
    <2>1. IsSync(input[m]) /\ m \in m..Len(input)
      BY <1>1, <1>3 DEF IsSync
    <2> QED BY <2>1 DEF Complete
  <1>9. CASE ~Suspect(m)
    <2>1. InStep(Reads, p)
      BY <1>2, <1>8, <1>9, InStepThere
    <2> QED BY <2>1, <1>3, <1>7, <1>9 DEF SummedAs
  <1>10. CASE Suspect(m)
    <2>1. OutOfStep(Reads, p)
      BY <1>2, <1>4, <1>8, <1>10, OutOfStepThere
    <2> QED BY <2>1, <1>7, <1>10 DEF SummedAs
  <1> QED BY <1>9, <1>10

\* No charge of a suspect, late or beamless interval is in the sums that the yield
\* is normalized to, and none of a good one is missing (engine.f:866-877,
\* g_analyze_scaler_bank.f:323), whatever the filter and the engine put between.
THEOREM ChargeIsOfSoundIntervals == ReplaySpec => []ChargeIsSound
  <1> QED BY SumsAreSound, ReplayHolds, PTL

\* The yield and the charge it is normalized to are of the same intervals: what
\* was analyzed of an interval was judged by its own reading, whose charge was
\* counted; and what a counted reading speaks for was analyzed, whatever flags,
\* skips and readings the two programs put between (syncfilter.c main,
\* engine.f's main loop).
THEOREM AnalyzedIsAsCharged == ReplaySpec => []AnalyzedAsCharged
  <1>1. ReplayInv => AnalyzedAsCharged
    BY AnalyzedCharged, ChargedAnalyzed DEF AnalyzedAsCharged
  <1> QED BY <1>1, ReplayHolds, PTL

\* The engine's reading leaves the filter alone: what is proved of its runs, above,
\* is true of those that an engine reads.
THEOREM FilterIsFree == ReplaySpec => Spec
  <1>1. ReplayInit => Init
    BY DEF ReplayInit
  <1>2. [ReplayNext]_allvars => [Next]_vars
    BY DEF ReplayNext, FilterStep, EngineStep, allvars
  <1> QED BY <1>1, <1>2, PTL DEF ReplaySpec, Spec
=============================================================================
