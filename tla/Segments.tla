------------------------------ MODULE Segments ------------------------------
(***************************************************************************)
(* A run in segments: when the engine finds no file of the name it is      *)
(* given, it tries the segments name.0, name.1, ... in turn                *)
(* (ENGINE/g_open_source.f, g_get_next_event.f).  A file is the sequence   *)
(* of its events; what evopen, evread and evclose do is taken from EvFile: *)
(* an event that does not fit CRAW is truncated and evread says so.        *)
(***************************************************************************)
EXTENDS Integers, Sequences, SequencesExt, FiniteSets, FiniteSetsExt

CONSTANTS
  Runs,      \* the files there may be: the last character of the name, the file of that
             \* name (plain) and those of its segments 0, 1, ...
  NoFile,    \* a file that cannot be opened
  TooLong    \* an event longer than CRAW

ZERO == 48
NINE == 57
IsDigit(c) == c \in ZERO..NINE

VARIABLES
  run,        \* the files on disk, and the name
  pc,         \* "closed" before g_open_source, then "open" until an error ends the "ended" replay
  g_data_source_opened, g_segment,
  file, pos,  \* the events of the open file, and how many have been read
  seen        \* history: the events given to the engine

vars == <<run, pc, g_data_source_opened, g_segment, file, pos, seen>>

Init ==
  /\ run \in Runs
  /\ pc = "closed" /\ g_data_source_opened = FALSE
  /\ g_segment = 0 /\ file = <<>> /\ pos = 0 /\ seen = <<>>

\* (slip) all of the number in its last digit
Carried(n) == IF n < 10 THEN <<ZERO + n>> ELSE <<ZERO + n \div 10, ZERO + n>>
\* What ends the name of a segment, and the file of that name.  The data
\* acquisition writes the numbers without zeros in front.
Extension(n) == IF n < 10 THEN <<ZERO + n>> ELSE <<ZERO + n \div 10, ZERO + n - 10 * (n \div 10)>>
Number(ext) == IF Len(ext) = 1 THEN ext[1] - ZERO ELSE 10 * (ext[1] - ZERO) + ext[2] - ZERO
FileOf(ext) ==
  IF \A k \in DOMAIN ext : IsDigit(ext[k])
  THEN IF Number(ext) < Len(run.segments) THEN run.segments[Number(ext) + 1] ELSE NoFile
  ELSE NoFile

\* The names that may have segments.  Names that end in 0 and in 9 are among them.
TriesSegments(c) == c <= ZERO \/ c >= NINE

Open(f) == g_data_source_opened' = TRUE /\ file' = f /\ pos' = 0

g_open_source ==
  /\ pc = "closed"
  /\ \/ run.plain # NoFile /\ Open(run.plain) /\ g_segment' = -1 /\ pc' = "open"
     \/ /\ run.plain = NoFile /\ TriesSegments(run.last) /\ g_segment' = 0
        /\ IF FileOf(Extension(0)) # NoFile THEN Open(FileOf(Extension(0))) /\ pc' = "open"
           ELSE g_data_source_opened' = FALSE /\ pc' = "ended" /\ UNCHANGED <<file, pos>>
     \/ /\ run.plain = NoFile /\ ~TriesSegments(run.last)
        /\ g_data_source_opened' = FALSE /\ pc' = "ended"
        /\ UNCHANGED <<g_segment, file, pos>>
  /\ UNCHANGED <<run, seen>>

\* evread returns 0
CanRead(f, p) == p < Len(f) /\ f[p + 1] # TooLong

ReadEvent ==
  /\ CanRead(file, pos)
  /\ seen' = Append(seen, file[pos + 1]) /\ pos' = pos + 1
  /\ UNCHANGED <<pc, g_data_source_opened, g_segment, file>>

\* An error in a run without segments, or in the last of a hundred
NoMore ==
  /\ ~CanRead(file, pos)
  /\ IF g_segment < 0 THEN UNCHANGED <<g_data_source_opened, g_segment>>
     ELSE g_segment' = g_segment + 1 /\ g_segment' >= 100 /\ g_data_source_opened' = FALSE
  /\ pc' = "ended"
  /\ UNCHANGED <<file, pos, seen>>

\* Any error ends a segment, and an error of the next one is not retried
NextSegment ==
  /\ ~CanRead(file, pos) /\ g_segment >= 0 /\ g_segment + 1 < 100
  /\ g_segment' = g_segment + 1
  /\ \E f \in {FileOf(Extension(g_segment + 1))} :
       IF f = NoFile
       THEN g_data_source_opened' = FALSE /\ pc' = "ended" /\ UNCHANGED <<file, pos, seen>>
       ELSE /\ g_data_source_opened' = TRUE /\ file' = f
            /\ IF CanRead(f, 0) THEN pos' = 1 /\ seen' = Append(seen, f[1]) /\ UNCHANGED pc
                                ELSE pos' = 0 /\ pc' = "ended" /\ UNCHANGED seen

g_get_next_event ==
  /\ pc = "open" /\ g_data_source_opened
  /\ ReadEvent \/ NoMore \/ NextSegment
  /\ UNCHANGED run

Next == g_open_source \/ g_get_next_event
Spec == Init /\ [][Next]_vars

-----------------------------------------------------------------------------
\* The events of a file that can be read in turn
Readable(f) ==
  LET bad == {i \in DOMAIN f : f[i] = TooLong}
  IN IF bad = {} THEN f ELSE SubSeq(f, 1, Min(bad) - 1)

\* The segments that are read: up to the first one that is missing or gives no
\* event, and no more than a hundred.  The first may be empty.
Used ==
  LET S == run.segments
  IN SubSeq(S, 1, Min({101, Len(S) + 1} \cup {i \in 2..Len(S) : S[i] = NoFile \/ Readable(S[i]) = <<>>}) - 1)

\* At the end of a run in segments the engine has seen the events of the segments
\* 0, 1, ..., 9, 10, ..., 99 in their order, each once, up to the first segment
\* that is missing or has none (g_get_next_event.f:81-121): an event that is too
\* long costs the rest of its segment and not the segments after.
SegmentsInOrder ==
  pc = "ended" /\ g_segment >= 0 /\ run.plain = NoFile /\ TriesSegments(run.last) =>
    seen = IF run.segments = <<>> \/ run.segments[1] = NoFile THEN <<>>
           ELSE FlattenSeq([i \in DOMAIN Used |-> Readable(Used[i])])
=============================================================================
