----------------------------- MODULE SyncFilter -----------------------------
(***************************************************************************)
(* SYNCFILTER/syncfilter.c: a program between the event file and the       *)
(* engine.  It holds back the events that follow a synchronization event   *)
(* until the next one shows whether the front ends were still in step, and *)
(* then passes them on between flag events (type 251) which tell the       *)
(* engine whether the interval can be trusted.                             *)
(*                                                                         *)
(* An event is [type, len, roc]: its CODA event type, its length word, and *)
(* the ROC (0 if none) one of whose words begins with 0xdc or 0xfb, the    *)
(* codes of problems().  Events are named by their place in the input.     *)
(* What is passed to evWrite is the sequence out; EvFile shows how it      *)
(* reaches its reader, whole when the file is closed and as a prefix when  *)
(* the program stops without evClose.                                      *)
(***************************************************************************)
EXTENDS Integers, Sequences, FiniteSets

CONSTANTS
  Events,               \* the events a run may contain
  MAX_REALLYBIGBUFFER,  \* words of really_big_buffer (3000000 in the code)
  Digits,               \* segment extensions that fit in infileext: ".0" ..
                        \* ".9", 10 in the code
  MaxSegments,          \* bound on the number of segments of a run
  MaxEvents             \* bound on the number of events of a run

TIMEDSYNC == 16
GOEVENT == 18
ENDEVENT == 20
SCALERSYNC == 0

ASSUME EventsAssumption ==
  \A e \in Events : /\ e.type \in Nat /\ e.len \in Nat /\ e.roc \in Nat
                    /\ e.len + 1 <= MAX_REALLYBIGBUFFER
ASSUME BoundsAssumption ==
  /\ MAX_REALLYBIGBUFFER \in Nat
  /\ Digits \in Nat \ {0}
  /\ MaxSegments \in Nat
  /\ MaxEvents \in Nat

VARIABLES
  pc,          \* "opening", "reading", "flushing", "closing", "stopped"
  segno,       \* -1 for a single file, else the segment that is open
  nsegs,       \* the segments of the run that exist: fname.0, fname.1, ...
  ihandle,     \* "unopened" (-1), "open", "closed" (stale), "null" (0)
  fresh,       \* a further segment is open and nothing has been read from it
  input,       \* history: the events GetNextEvent has returned
  bigbuf,      \* really_big_buffer: the numbers of the events held back
  endpointer,  \* the words of really_big_buffer in use
  outofsync,   \* a problem has been seen since the last sync event
  out,         \* the events passed to evWrite
  ofile,       \* the output file: "open", "closed", or "cut" (no evClose)
  goodevs, badevs, endevs   \* counters by event type, printed at the end

invars == <<segno, nsegs, ihandle, fresh>>
counters == <<goodevs, badevs, endevs>>
vars == <<pc, invars, input, bigbuf, endpointer, outofsync, out, ofile, counters>>

CountedTypes == 0..15

\* Entries of the output: a copied event, or one of the three flags.
Copy(n) == [flag |-> "none", n |-> n]
INSYNC == [flag |-> "INSYNC", n |-> 0]
OUTSYNC == [flag |-> "OUTSYNC", n |-> 0]
EARLYEND == [flag |-> "EARLYEND", n |-> 0]

IsSync(e) == e.type \in {TIMEDSYNC, SCALERSYNC, GOEVENT}

\* Only the banks of ROCs 1 to 4 are looked at.
problems(e) == e.roc > 0 /\ e.roc <= 4

(***************************************************************************)
(* GetNextEvent                                                            *)
(***************************************************************************)

\* The first call opens fname itself, or else its segment 0, or fails.
OpenFirst ==
  /\ pc = "opening"
  /\ \/ /\ nsegs = 0 /\ segno' = -1 /\ ihandle' = "open" /\ pc' = "reading"
     \/ /\ nsegs > 0 /\ segno' = 0 /\ ihandle' = "open" /\ pc' = "reading"
     \/ /\ nsegs = 0 /\ segno' = 0 /\ ihandle' = "null" /\ pc' = "flushing"
  /\ UNCHANGED <<nsegs, fresh, input, bigbuf, endpointer, outofsync, out, ofile,
                 counters>>

\* evRead fails at the end of a segment; the next one, if it can be named and
\* opened, is read instead.  infileext[1]++ runs past '9' after ten segments.
SwitchSegment ==
  /\ pc = "reading" /\ segno >= 0 /\ ~fresh
  /\ segno' = segno + 1
  /\ IF segno + 1 < nsegs /\ segno + 1 < Digits
     THEN ihandle' = "open" /\ fresh' = TRUE /\ UNCHANGED pc
     ELSE ihandle' = "null" /\ pc' = "flushing" /\ UNCHANGED fresh
  /\ UNCHANGED <<nsegs, input, bigbuf, endpointer, outofsync, out, ofile, counters>>

\* evRead fails where no further segment is tried.  The status is 1, and the
\* input closed, when ferror reports a read error; EOF is -1.
EndOfInput ==
  /\ pc = "reading"
  /\ segno < 0 \/ fresh
  /\ ihandle' \in {"open", "closed"}
  /\ pc' = "flushing"
  /\ UNCHANGED <<segno, nsegs, fresh, input, bigbuf, endpointer, outofsync, out,
                 ofile, counters>>

(***************************************************************************)
(* The body of main's loop, by the type of the event read                  *)
(***************************************************************************)

Read(e) ==
  /\ pc = "reading" /\ ihandle = "open"
  /\ Len(input) < MaxEvents
  /\ input' = Append(input, e)
  /\ fresh' = FALSE
  /\ UNCHANGED <<segno, nsegs, ihandle>>

NowOutOfSync(e) == outofsync \/ problems(e)

\* appendevent, of the event just read
appendevent(e) ==
  /\ endpointer + e.len + 1 <= MAX_REALLYBIGBUFFER
  /\ bigbuf' = Append(bigbuf, Len(input) + 1)
  /\ endpointer' = endpointer + e.len + 1

\* Slip: a GO event is held back like any other.
HoldGo(e) ==
  /\ Read(e)
  /\ e.type \notin {SCALERSYNC, ENDEVENT}
  /\ appendevent(e)
  /\ outofsync' = NowOutOfSync(e)
  /\ UNCHANGED <<pc, out, ofile, counters>>

\* A physics or other event: hold it back.
Hold(e) ==
  /\ Read(e)
  /\ ~IsSync(e) /\ e.type # ENDEVENT
  /\ appendevent(e)
  /\ outofsync' = NowOutOfSync(e)
  /\ UNCHANGED <<pc, out, ofile, counters>>

\* The END event is held back too, and ends the loop.
HoldEnd(e) ==
  /\ Read(e)
  /\ e.type = ENDEVENT
  /\ appendevent(e)
  /\ outofsync' = NowOutOfSync(e)
  /\ pc' = "flushing"
  /\ UNCHANGED <<out, ofile, counters>>

\* appendevent finds no room and calls exit(1).
Overflow(e) ==
  /\ Read(e)
  /\ ~IsSync(e)
  /\ endpointer + e.len + 1 > MAX_REALLYBIGBUFFER
  /\ outofsync' = NowOutOfSync(e)
  /\ pc' = "stopped"
  /\ ofile' = "cut"
  /\ UNCHANGED <<bigbuf, endpointer, out, counters>>

\* writeoutthebigbuffer writes these ...
Held == [i \in DOMAIN bigbuf |-> Copy(bigbuf[i])]

OfType(t) == {i \in DOMAIN bigbuf : input'[bigbuf[i]].type = t}

\* ... counts them in evcounts ...
Counted(evcounts) ==
  [t \in CountedTypes |-> evcounts[t] + Cardinality(OfType(t))]

\* Slip: the buffer is written and not cleared.
NotCleared == UNCHANGED <<bigbuf, endpointer>>

\* ... and clears the buffer.
Cleared == bigbuf' = <<>> /\ endpointer' = 0

\* Slip: the problem is forgotten only when the next good sync event comes.
SyncAfterProblemSticky(e) ==
  /\ Read(e)
  /\ IsSync(e) /\ NowOutOfSync(e)
  /\ out' = out \o <<OUTSYNC, Copy(Len(input) + 1)>> \o Held \o <<INSYNC>>
  /\ badevs' = Counted(badevs)
  /\ Cleared
  /\ outofsync' = problems(e)
  /\ UNCHANGED <<pc, ofile, goodevs, endevs>>

\* A sync event whose interval had a problem (the event itself included)
SyncAfterProblem(e) ==
  /\ Read(e)
  /\ IsSync(e) /\ NowOutOfSync(e)
  /\ out' = out \o <<OUTSYNC, Copy(Len(input) + 1)>> \o Held \o <<INSYNC>>
  /\ badevs' = Counted(badevs)
  /\ Cleared
  /\ outofsync' = FALSE
  /\ UNCHANGED <<pc, ofile, goodevs, endevs>>

\* Slip: every sync event overtakes its interval.
SyncInStepFirst(e) ==
  /\ Read(e)
  /\ IsSync(e) /\ ~NowOutOfSync(e)
  /\ out' = out \o <<Copy(Len(input) + 1)>> \o Held
  /\ goodevs' = Counted(goodevs)
  /\ Cleared
  /\ UNCHANGED <<pc, outofsync, ofile, badevs, endevs>>

\* A sync event in step: a scaler event overtakes its interval, so that the
\* engine knows the beam current before it sees the events.
SyncInStep(e) ==
  /\ Read(e)
  /\ IsSync(e) /\ ~NowOutOfSync(e)
  /\ out' = IF e.type = SCALERSYNC
            THEN out \o <<Copy(Len(input) + 1)>> \o Held
            ELSE out \o Held \o <<Copy(Len(input) + 1)>>
  /\ goodevs' = Counted(goodevs)
  /\ Cleared
  /\ UNCHANGED <<pc, outofsync, ofile, badevs, endevs>>

(***************************************************************************)
(* After the loop                                                          *)
(***************************************************************************)

EndSeen == input # <<>> /\ input[Len(input)].type = ENDEVENT

\* Whatever is still held is written with the flag it deserves.
FlushRest ==
  /\ pc = "flushing"
  /\ UNCHANGED <<invars, input, outofsync, ofile>>
  /\ \/ /\ endpointer = 0
        /\ UNCHANGED <<out, counters>>
     \/ /\ endpointer > 0 /\ ~EndSeen
        /\ out' = out \o <<EARLYEND>> \o Held
        /\ endevs' = Counted(endevs)
        /\ UNCHANGED <<goodevs, badevs>>
     \/ /\ endpointer > 0 /\ EndSeen /\ outofsync
        /\ out' = out \o <<OUTSYNC>> \o Held
        /\ badevs' = Counted(badevs)
        /\ UNCHANGED <<goodevs, endevs>>
     \/ /\ endpointer > 0 /\ EndSeen /\ ~outofsync
        /\ out' = out \o Held
        /\ goodevs' = Counted(goodevs)
        /\ UNCHANGED <<badevs, endevs>>
  /\ Cleared
  /\ pc' = "closing"

\* evClose(ihandle); evClose(ohandle).  evClose looks into the handle before it
\* knows whether it is one: with 0 or a handle already closed it may crash, and
\* then the output is never closed.
Close ==
  /\ pc = "closing"
  /\ ofile' \in IF ihandle = "open" THEN {"closed"} ELSE {"closed", "cut"}
  /\ pc' = "stopped"
  /\ UNCHANGED <<invars, input, bigbuf, endpointer, outofsync, out, counters>>

Init ==
  /\ pc = "opening"
  /\ segno = -1
  /\ nsegs \in 0..MaxSegments
  /\ ihandle = "unopened"
  /\ fresh = FALSE
  /\ input = <<>>
  /\ bigbuf = <<>>
  /\ endpointer = 0
  /\ outofsync = FALSE
  /\ out = <<INSYNC>>
  /\ ofile = "open"
  /\ goodevs = [t \in CountedTypes |-> 0]
  /\ badevs = [t \in CountedTypes |-> 0]
  /\ endevs = [t \in CountedTypes |-> 0]

Next ==
  \/ OpenFirst
  \/ SwitchSegment
  \/ EndOfInput
  \/ \E e \in Events : \/ Hold(e)
                       \/ HoldEnd(e)
                       \/ Overflow(e)
                       \/ SyncAfterProblem(e)
                       \/ SyncInStep(e)
  \/ FlushRest
  \/ Close

Spec == Init /\ [][Next]_vars

(***************************************************************************)
(* Properties                                                              *)
(***************************************************************************)

\* Each variable has its type.
Entry == [flag : {"none", "INSYNC", "OUTSYNC", "EARLYEND"}, n : Nat]

TypeOK ==
  /\ pc \in {"opening", "reading", "flushing", "closing", "stopped"}
  /\ segno \in Int
  /\ nsegs \in Nat
  /\ ihandle \in {"unopened", "open", "closed", "null"}
  /\ fresh \in BOOLEAN
  /\ input \in Seq(Events)
  /\ bigbuf \in Seq(Nat)
  /\ endpointer \in Nat
  /\ outofsync \in BOOLEAN
  /\ out \in Seq(Entry)
  /\ ofile \in {"open", "closed", "cut"}
  /\ goodevs \in [CountedTypes -> Nat]
  /\ badevs \in [CountedTypes -> Nat]
  /\ endevs \in [CountedTypes -> Nat]

\* The first event that has not been passed on.
FirstHeld == IF bigbuf = <<>> THEN Len(input) + 1 ELSE bigbuf[1]

\* Every event read is passed on once, and no event twice, but for those still
\* held (and, when appendevent has given up, the one it had no room for).
CopiedOnce ==
  \A n \in DOMAIN input :
    LET places == {i \in DOMAIN out : out[i] = Copy(n)}
    IN IF n < FirstHeld THEN \E i \in places : places = {i} ELSE places = {}

\* No sync event lies between m and n, except the later of them.
SameInterval(m, n) ==
  \A k \in DOMAIN input :
    (m <= k /\ k < n) \/ (n <= k /\ k < m) => ~IsSync(input[k])

\* "If that event has dcfe stuff in it, then all data back to the previous sync
\* is suspect" (syncfilter.c:8), and so it is if any event between has.
Suspect(n) == \E m \in DOMAIN input : SameInterval(m, n) /\ problems(input[m])

\* The interval of n was ended by a sync event or by the END of the run.
Complete(n) ==
  \E m \in n..Len(input) : IsSync(input[m]) \/ input[m].type = ENDEVENT

\* f is the last flag before place i of the output.
Under(f, i) ==
  \E j \in 1..i : out[j] = f /\ \A k \in (j + 1)..i : out[k].flag = "none"

\* What the flags tell the engine is true of every single event: it is between
\* OUTSYNC and INSYNC when its interval is suspect, after EARLYEND when the run
\* ended before its interval did, and after INSYNC otherwise.
FlagsAreRight ==
  \A i \in DOMAIN out :
    LET n == out[i].n
    IN out[i].flag = "none" =>
         /\ Under(EARLYEND, i) <=> ~Complete(n)
         /\ Under(OUTSYNC, i) <=> Complete(n) /\ Suspect(n)

\* Events keep their order, except that a scaler event, or the sync event of a
\* suspect interval, comes before the interval it ends.
OrderKept ==
  \A i, j \in DOMAIN out :
    LET m == out[i].n
        n == out[j].n
    IN out[i].flag = "none" /\ out[j].flag = "none" /\ i < j =>
         IF IsSync(input[m]) /\ SameInterval(n, m) /\ n # m
         THEN n < m /\ (input[m].type = SCALERSYNC \/ Suspect(m))
         ELSE m < n /\ ~(SameInterval(m, n) /\ IsSync(input[n])
                         /\ input[n].type = SCALERSYNC)

\* When a run is stopped for lack of room, no more than the interval being held was
\* kept from the output: every event up to the last sync event has been handed to
\* evWrite.  How much of that reaches the file is another matter, as exit(1) skips
\* evClose and with it the words in the buffer of evio (EvFile!FlushedSurvive).
OverflowWithholdsOneInterval ==
  pc = "stopped" =>
    \A n \in DOMAIN input :
      FirstHeld <= n => \A m \in n..(Len(input) - 1) : ~IsSync(input[m])

=============================================================================
