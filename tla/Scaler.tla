------------------------------- MODULE Scaler -------------------------------
(***************************************************************************)
(* One channel of the hardware scalers and what the engine makes of its    *)
(* readings (ENGINE/g_analyze_scaler_bank.f, and the sums of engine.f).    *)
(* The hardware counts modulo W (2^32), and some channels clear themselves *)
(* at random; gscaler is the "sum from first scaler event".                *)
(*                                                                         *)
(* Time is told by counts: Tick is one count of the hardware, and at most  *)
(* MaxDelta of them fall between two readings of the channel.              *)
(***************************************************************************)
EXTENDS Integers

CONSTANTS
  W,           \* values of the hardware register
  FalseClear,  \* the jump above which a rollover is taken for a clear: 2^25
  gscalweirdcorrect_flag,  \* look for random clears
  MaxFirst,    \* bound on the counts before the first reading
  MinDelta,    \* bounds on the counts between one reading and the next
  MaxDelta,
  MaxClears,   \* bound on the random clears
  MaxReadings  \* bound on the scaler events

ASSUME ScalerAssumption ==
  /\ W \in Nat /\ W > 0 /\ W % 2 = 0
  /\ {FalseClear, MaxFirst, MinDelta, MaxDelta, MaxClears, MaxReadings} \subseteq Nat
  /\ gscalweirdcorrect_flag \in BOOLEAN

VARIABLES
  register,         \* the hardware's 32 bits
  unread,           \* history: counts since the channel was last read or cleared
  counted,          \* history: counts that have been read
  first,            \* history: counted at the first event, or -1: not read there
  clears,           \* history: random clears so far
  absent,           \* history: scaler events without the channel
  analyzed,         \* analyzed_events(0): scaler events so far
  gscaler_old, gscaler, gscaler_change, gscaler_nroll,
  lastval,          \* gscalweird_lastval, a signed integer
  lostcounts,       \* gscalweird_lostcounts
  gscaler_saved, gscaler_skipped

hardware == <<register, unread, clears>>
sums == <<gscaler_saved, gscaler_skipped>>
vars == <<hardware, counted, first, absent, analyzed, gscaler_old, gscaler, gscaler_change,
          gscaler_nroll, lastval, lostcounts, sums>>

(***************************************************************************)
(* The hardware                                                            *)
(***************************************************************************)

Tick ==
  /\ unread < IF analyzed = 0 THEN MaxFirst ELSE MaxDelta
  /\ register' = IF register + 1 = W THEN 0 ELSE register + 1
  /\ unread' = unread + 1
  /\ UNCHANGED <<clears, counted, first, absent, analyzed, gscaler_old, gscaler,
                 gscaler_change, gscaler_nroll, lastval, lostcounts, sums>>

\* The channel clears itself.  What it had counted since the last reading is
\* lost whatever the program does.
Clear ==
  /\ clears < MaxClears /\ analyzed > 0
  /\ clears' = clears + 1
  /\ register' = 0
  /\ unread' = 0
  /\ UNCHANGED <<counted, first, absent, analyzed, gscaler_old, gscaler,
                 gscaler_change, gscaler_nroll, lastval, lostcounts, sums>>

(***************************************************************************)
(* A scaler event                                                          *)
(***************************************************************************)

\* The register as an integer*4
Signed(v) == IF 2 * v < W THEN v ELSE v - W

\* x - y as an integer*4 is not defined when it overflows.
MayExceed(x, y, c) == IF 2 * (x - y) < W THEN {x - y > c} ELSE BOOLEAN

\* Slip: every value that falls below 2^31 is.
TakenForClearAlways(s) ==
  {gscalweirdcorrect_flag /\ s > 0 /\ (lastval > s \/ lastval < 0)}

\* Is the value read, s as an integer*4, taken for that of a cleared channel?
TakenForClear(s) ==
  IF ~gscalweirdcorrect_flag \/ s <= 0 THEN {FALSE}
  ELSE IF lastval > s THEN {TRUE}
  ELSE IF lastval < 0 THEN MayExceed(s, lastval, FalseClear)
  ELSE {FALSE}

\* gscalweird_lostcounts, and the value before the clear if there was one
Lost(clear) == lostcounts + IF clear THEN lastval ELSE 0

\* Has the scaler rolled over?
RollsOver(v, lost, sum) == v + gscaler_nroll * W + lost < sum

\* Slip: the sum of what is skipped is only its last part.
SortOverwrite(skip) ==
  IF skip THEN gscaler_skipped' = gscaler_change' /\ UNCHANGED gscaler_saved
  ELSE /\ gscaler_saved' = gscaler_saved + gscaler_change'
       /\ UNCHANGED gscaler_skipped

\* The engine adds gscaler_change to one of its sums; which one is decided in
\* Engine!SortReading.
Sort(skip) ==
  IF skip THEN /\ gscaler_skipped' = gscaler_skipped + gscaler_change'
               /\ UNCHANGED gscaler_saved
  ELSE /\ gscaler_saved' = gscaler_saved + gscaler_change'
       /\ UNCHANGED gscaler_skipped

\* The channel is in one of the banks of the event.  The first event only says
\* where to start from.
Read(skip) ==
  LET sum == IF analyzed = 0 THEN 0 ELSE gscaler
  IN /\ analyzed < MaxReadings
     /\ analyzed' = analyzed + 1
     /\ unread >= MinDelta
     /\ UNCHANGED <<register, clears, absent>>
     /\ unread' = 0
     /\ counted' = counted + unread
     /\ first' = IF analyzed = 0 THEN counted + unread ELSE first
     /\ \E clear \in TakenForClear(Signed(register)) :
          lostcounts' = Lost(clear)
     /\ lastval' = IF gscalweirdcorrect_flag THEN Signed(register) ELSE lastval
     /\ gscaler_nroll' =
          gscaler_nroll + IF RollsOver(register, lostcounts', sum) THEN 1 ELSE 0
     /\ gscaler_old' = register + gscaler_nroll' * W + lostcounts'
     /\ gscaler_change' = IF analyzed = 0 THEN gscaler_change
                          ELSE gscaler_old' - gscaler_old
     /\ gscaler' = IF analyzed = 0 THEN 0 ELSE sum + gscaler_change'
     /\ Sort(skip)

\* "Not all banks will have scaler data every event": the channel is in none,
\* and what it had changed by at the last event is added once more.
ReadOthers(skip) ==
  /\ analyzed < MaxReadings
  /\ analyzed' = analyzed + 1
  /\ absent' = absent + 1
  /\ UNCHANGED <<hardware, counted, first, gscaler_old, gscaler, gscaler_change,
                 gscaler_nroll, lastval, lostcounts>>
  /\ Sort(skip)

Init ==
  /\ register = 0
  /\ unread = 0
  /\ counted = 0
  /\ first = -1
  /\ clears = 0
  /\ absent = 0
  /\ analyzed = 0
  /\ gscaler_old = 0
  /\ gscaler = 0
  /\ gscaler_change = 0
  /\ gscaler_nroll = 0
  /\ lastval = 0
  /\ lostcounts = 0
  /\ gscaler_saved = 0
  /\ gscaler_skipped = 0

ReadEach == \E skip \in BOOLEAN : Read(skip) \/ ReadOthers(skip)

Next == Tick \/ Clear \/ ReadEach

Spec == Init /\ [][Next]_vars

(***************************************************************************)
(* Properties                                                              *)
(***************************************************************************)

\* Each variable has its type.
TypeOK ==
  /\ register \in 0..(W - 1)
  /\ unread \in Nat /\ counted \in Nat /\ clears \in Nat
  /\ absent \in Nat /\ analyzed \in Nat
  /\ first \in Nat \cup {-1}
  /\ gscaler_nroll \in Nat
  /\ gscaler_old \in Int /\ gscaler \in Int /\ gscaler_change \in Int
  /\ gscaler_saved \in Int /\ gscaler_skipped \in Int
  /\ lostcounts \in Int
  /\ lastval \in Int
  /\ 2 * lastval < W /\ -W <= 2 * lastval

\* "record the correct value when the hardware scalers (32 bit) overflow"
\* (g_analyze_scaler_bank.f:97): gscaler is the sum of what the channel has
\* counted since the first event, however often it has rolled over.
RolloversRecorded == first # -1 /\ clears = 0 => gscaler = counted - first

\* The sums for the intervals that are analyzed and for those that are not add up
\* to gscaler, as long as every event has the channel.
SumsAddUp == absent = 0 => gscaler_saved + gscaler_skipped = gscaler

\* "detect and correct this random clearing" (g_analyze_scaler_bank.f:188): a
\* clear never adds to the sum, and takes no more from it than what is counted
\* between two readings.  This is so while no value reaches half the range;
\* there, the difference of two values can overflow, and a clear passes for a
\* rollover.
ClearCostsLittle ==
  first # -1 /\ 2 * counted < W =>
    /\ gscaler <= counted - first
    /\ (counted - first) - gscaler <= clears * MaxDelta

\* What the sums for the charge are made of is right within these limits
\* (g_analyze_scaler_bank.f:97-225, engine.f:866-877).
SumsRight == SumsAddUp /\ ClearCostsLittle
=============================================================================
