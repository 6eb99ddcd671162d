------------------------------- MODULE Engine -------------------------------
(***************************************************************************)
(* The event loops of the replay program (ENGINE/engine.f): a first loop   *)
(* that looks for the run information, then the main loop that sorts every *)
(* event by its type and by what earlier events said of it: whether the    *)
(* filter has declared the data out of step (insync), whether the last     *)
(* scaler reading showed beam, and whether it can be used (skip_events).   *)
(*                                                                         *)
(* An event is [type, bcm, long, flag, fault].  bcm is the beam current    *)
(* that a scaler event (type 0) yields, or NoBcm when none of its banks    *)
(* has the BCM channels or could be decoded; long says that the time since *)
(* the last reading exceeds 2.5 s; flag is craw(5) of a syncfilter event   *)
(* (type 251); fault says that the routine which decodes the event sets    *)
(* ABORT (for a scaler event, at one of its banks).                        *)
(*                                                                         *)
(* The scaler sums gscaler_saved, gscaler_skipped and g_beam_on_bcm_charge *)
(* are modelled by the sets of readings that were added to them.           *)
(***************************************************************************)
EXTENDS Integers, Sequences, FiniteSetsExt

CONSTANTS
  Events,          \* the events a run may contain
  Enabled,         \* trigger types t with gen_run_enable(t-1) # 0
  Threshold,       \* g_beam_on_thresh_cur(bcm_for_threshold_cut)
  StartingEvent,   \* gen_run_starting_event
  StoppingEvent,   \* gen_run_stopping_event
  DumpInterval,    \* gen_run_hist_dump_interval
  PreprocOn,       \* g_preproc_on # 0
  MaxEvents        \* bound on the number of events of a run

TrigTypes == 0..15                 \* 0 .. gen_MAX_trigger_types
NoBcm == -1
SyncfilterEvent == 251
RunInfoEvent == 130

ASSUME EngineAssumption ==
  /\ \A e \in Events : /\ e.type \in Nat /\ e.bcm \in Int /\ e.flag \in Nat
                       /\ e.long \in BOOLEAN /\ e.fault \in BOOLEAN
  /\ Enabled \subseteq 1..15
  /\ Threshold \in Int
  /\ {StartingEvent, StoppingEvent, DumpInterval, MaxEvents} \subseteq Nat
  /\ PreprocOn \in BOOLEAN

VARIABLES
  phase,                  \* "runinfo", "analysis" or "ended"
  total_event_count,
  syncfilter_on,
  insync,                 \* 0 in step, 1 out of step, 2 run ended early
  recorded_events,        \* by trigger type, like the next three
  analyzed_events,        \* analyzed_events[0] numbers the scaler readings
  skipped_badsync_events,
  skipped_lowbcm_events,
  sum_recorded,
  sum_analyzed,
  sum_analyzed_skipped,
  skipped_events_scal,    \* dropped for want of two scaler readings
  num_events_skipped,     \* dropped to reach gen_run_starting_event
  ignored,                \* history: enabled by nobody, or met too early
  physics_events,
  lastdump,
  idnumber,               \* gen_event_ID_number > 0
  ave_current_bcm,
  skip_events,
  gscaler_saved,
  gscaler_skipped,
  beam_on,                \* readings in g_beam_on_bcm_charge and run_time
  results,                \* events given to G_keep_results, each with the
                          \* reading in force
  preproc                 \* events written to the preprocessor's output

counts == <<analyzed_events, skipped_badsync_events, skipped_lowbcm_events,
            sum_analyzed, sum_analyzed_skipped, skipped_events_scal,
            num_events_skipped, ignored, physics_events>>
scalers == <<ave_current_bcm, skip_events, gscaler_saved, gscaler_skipped, beam_on,
             lastdump>>
vars == <<phase, total_event_count, syncfilter_on, insync, recorded_events,
          sum_recorded, counts, idnumber, scalers, results, preproc>>

\* gen_event_type: a type 13 event is taken for a type 6 one.
TypeOf(e) == IF e.type = 13 THEN 6 ELSE e.type

Increment(f, t) == [f EXCEPT ![t] = @ + 1]

\* evread, and the count of what was read
Get(e, t) ==
  /\ total_event_count < MaxEvents
  /\ total_event_count' = total_event_count + 1
  /\ recorded_events' = IF t \in TrigTypes THEN Increment(recorded_events, t)
                        ELSE recorded_events
  /\ sum_recorded' = IF t \in TrigTypes \ {0} THEN sum_recorded + 1 ELSE sum_recorded

\* k copies of the event just read are written by the preprocessor.
Written(k) ==
  preproc' = preproc \o [i \in 1..(IF PreprocOn THEN k ELSE 0) |-> total_event_count + 1]

\* What is written of an event before its type is looked at
NotTrigger(t) == IF t = 0 \/ t >= 14 THEN 1 ELSE 0

(***************************************************************************)
(* The run information loop                                                *)
(***************************************************************************)

\* Only a control event is expected here: another makes g_examine_control_event
\* set ABORT, which ends the loop but is forgotten in G_initialize.
RunInfo(e) ==
  LET unexpected == \/ e.type \in 1..15
                    \/ e.type = 0 /\ ~PreprocOn
                    \/ e.type = 16 /\ e.fault
  IN /\ phase = "runinfo"
     /\ Get(e, e.type)
     /\ ignored' = IF e.type \in 1..15 THEN ignored + 1 ELSE ignored
     /\ Written(NotTrigger(e.type))
     /\ syncfilter_on' = (syncfilter_on \/ e.type = SyncfilterEvent)
     /\ idnumber' = (idnumber /\ e.type \notin 16..20)
     /\ phase' = IF e.type \in {18, RunInfoEvent} \/ unexpected THEN "analysis"
                 ELSE "runinfo"
     /\ UNCHANGED <<insync, analyzed_events, skipped_badsync_events,
                    skipped_lowbcm_events, sum_analyzed, sum_analyzed_skipped,
                    skipped_events_scal, num_events_skipped, physics_events,
                    scalers, results>>

\* G_get_next_event sets ABORT: the data are exhausted.
EndOfData ==
  /\ phase # "ended"
  /\ phase' = "ended"
  /\ UNCHANGED <<total_event_count, syncfilter_on, insync, recorded_events,
                 sum_recorded, counts, idnumber, scalers, results, preproc>>

(***************************************************************************)
(* The main loop, by the way an event takes through it                     *)
(***************************************************************************)

\* Slip: one event too many is analyzed.
LoopEndsLate(e, ABORT) ==
  phase' = IF \/ ABORT
              \/ e.type = 20
              \/ /\ StoppingEvent > 0 /\ idnumber'
                 /\ StoppingEvent <
                      sum_analyzed' + sum_analyzed_skipped' - analyzed_events'[4]
           THEN "ended" ELSE "analysis"

\* The end of an iteration: ABORT, the END event or enough events end the loop.
LoopEnds(e, ABORT) ==
  phase' = IF \/ ABORT
              \/ e.type = 20
              \/ /\ StoppingEvent > 0 /\ idnumber'
                 /\ StoppingEvent <=
                      sum_analyzed' + sum_analyzed_skipped' - analyzed_events'[4]
           THEN "ended" ELSE "analysis"

\* Slip: skip_events is not cleared by the next timely reading.
ReadingSticky(e, n) ==
  IF n > 1 /\ e.bcm # NoBcm
  THEN /\ ave_current_bcm' = e.bcm
       /\ skip_events' = (skip_events \/ (syncfilter_on /\ e.long))
       /\ beam_on' = IF e.bcm >= Threshold /\ insync = 0 /\ ~skip_events'
                     THEN beam_on \cup {n} ELSE beam_on
  ELSE UNCHANGED <<ave_current_bcm, skip_events, beam_on>>

\* g_analyze_scaler_bank: the current, and the charge of the time with beam.
Reading(e, n) ==
  IF n > 1 /\ e.bcm # NoBcm
  THEN /\ ave_current_bcm' = e.bcm
       /\ skip_events' = (syncfilter_on /\ e.long)
       /\ beam_on' = IF e.bcm >= Threshold /\ insync = 0 /\ ~skip_events'
                     THEN beam_on \cup {n} ELSE beam_on
  ELSE UNCHANGED <<ave_current_bcm, skip_events, beam_on>>

\* Slip: a reading that is out of step is added to neither sum.
SortReadingInStep(n) ==
  IF ave_current_bcm' <= Threshold \/ skip_events'
  THEN gscaler_skipped' = gscaler_skipped \cup {n} /\ UNCHANGED gscaler_saved
  ELSE /\ gscaler_saved' = IF insync = 1 THEN gscaler_saved ELSE gscaler_saved \cup {n}
       /\ UNCHANGED gscaler_skipped

\* Slip: the flag of the filter is not asked.
SortReadingAnyFlag(n) ==
  IF ave_current_bcm' <= Threshold \/ skip_events'
  THEN gscaler_skipped' = gscaler_skipped \cup {n} /\ UNCHANGED gscaler_saved
  ELSE gscaler_saved' = gscaler_saved \cup {n} /\ UNCHANGED gscaler_skipped

\* The reading is added to gscaler_skipped or to gscaler_saved.
SortReading(n) ==
  IF ave_current_bcm' <= Threshold \/ insync = 1 \/ skip_events'
  THEN gscaler_skipped' = gscaler_skipped \cup {n} /\ UNCHANGED gscaler_saved
  ELSE gscaler_saved' = gscaler_saved \cup {n} /\ UNCHANGED gscaler_skipped

\* A scaler event.  The second g_write_event, or the dump of the histograms,
\* overwrites the ABORT of a scaler bank that cannot be decoded.
ScalerEvent(e) ==
  LET n == analyzed_events[0] + 1
      dump == DumpInterval > 0 /\ physics_events - lastdump >= DumpInterval
  IN /\ phase = "analysis" /\ e.type = 0
     /\ Get(e, 0)
     /\ analyzed_events' = Increment(analyzed_events, 0)
     /\ Reading(e, n)
     /\ IF syncfilter_on THEN SortReading(n)
                         ELSE UNCHANGED <<gscaler_saved, gscaler_skipped>>
     /\ Written(NotTrigger(0) + 1)
     /\ lastdump' = IF dump THEN physics_events ELSE lastdump
     /\ UNCHANGED <<syncfilter_on, insync, skipped_badsync_events,
                    skipped_lowbcm_events, sum_analyzed, sum_analyzed_skipped,
                    skipped_events_scal, num_events_skipped, ignored,
                    physics_events, idnumber, results>>
     /\ LoopEnds(e, e.fault /\ ~PreprocOn /\ ~dump)

\* Common to the ways of a trigger event
Trigger(e) ==
  /\ phase = "analysis" /\ TypeOf(e) \in 1..15
  /\ Get(e, TypeOf(e))
  /\ UNCHANGED <<syncfilter_on, insync, scalers>>

NotReconstructed(e) ==
  /\ Written(NotTrigger(TypeOf(e)))
  /\ UNCHANGED <<analyzed_events, sum_analyzed, physics_events, results>>
  /\ LoopEnds(e, FALSE)

TooEarly(e) == analyzed_events[0] <= 1 /\ TypeOf(e) <= 3

\* HMS, SOS and coincidence events wait for the second scaler reading.
SkipBeforeScaler(e) ==
  /\ Trigger(e) /\ TooEarly(e)
  /\ skipped_events_scal' = skipped_events_scal + 1
  /\ UNCHANGED <<skipped_badsync_events, skipped_lowbcm_events, sum_analyzed_skipped,
                 num_events_skipped, ignored, idnumber>>
  /\ NotReconstructed(e)

SkipDisabled(e) ==
  /\ Trigger(e) /\ ~TooEarly(e) /\ TypeOf(e) \notin Enabled
  /\ ignored' = ignored + 1
  /\ UNCHANGED <<skipped_badsync_events, skipped_lowbcm_events, sum_analyzed_skipped,
                 skipped_events_scal, num_events_skipped, idnumber>>
  /\ NotReconstructed(e)

\* Pedestal events (type 4) are analyzed whatever the beam.
Filtered(e) ==
  /\ ~TooEarly(e) /\ TypeOf(e) \in Enabled
  /\ syncfilter_on /\ TypeOf(e) # 4

\* Slip: the event is skipped without being counted as such.
SkipBadSyncUncounted(e) ==
  /\ Trigger(e) /\ Filtered(e)
  /\ insync = 1 \/ skip_events
  /\ skipped_badsync_events' = Increment(skipped_badsync_events, TypeOf(e))
  /\ UNCHANGED <<skipped_lowbcm_events, sum_analyzed_skipped, skipped_events_scal,
                 num_events_skipped, ignored, idnumber>>
  /\ NotReconstructed(e)

SkipBadSync(e) ==
  /\ Trigger(e) /\ Filtered(e)
  /\ insync = 1 \/ skip_events
  /\ skipped_badsync_events' = Increment(skipped_badsync_events, TypeOf(e))
  /\ sum_analyzed_skipped' = sum_analyzed_skipped + 1
  /\ UNCHANGED <<skipped_lowbcm_events, skipped_events_scal, num_events_skipped,
                 ignored, idnumber>>
  /\ NotReconstructed(e)

NoBeam == ave_current_bcm < Threshold

SkipLowCurrent(e) ==
  /\ Trigger(e) /\ Filtered(e)
  /\ insync # 1 /\ ~skip_events /\ NoBeam
  /\ skipped_lowbcm_events' = Increment(skipped_lowbcm_events, TypeOf(e))
  /\ sum_analyzed_skipped' = sum_analyzed_skipped + 1
  /\ UNCHANGED <<skipped_badsync_events, skipped_events_scal, num_events_skipped,
                 ignored, idnumber>>
  /\ NotReconstructed(e)

\* g_examine_physics_event takes the event number from the event.
Examined(e) ==
  /\ Trigger(e) /\ ~TooEarly(e) /\ TypeOf(e) \in Enabled
  /\ ~(Filtered(e) /\ (insync = 1 \/ skip_events \/ NoBeam))
  /\ idnumber' = TRUE
  /\ UNCHANGED <<skipped_badsync_events, skipped_lowbcm_events, sum_analyzed_skipped,
                 skipped_events_scal, ignored>>

SkipToStart(e) ==
  /\ Examined(e)
  /\ num_events_skipped < StartingEvent /\ TypeOf(e) # 4
  /\ num_events_skipped' = num_events_skipped + 1
  /\ NotReconstructed(e)

\* The event is reconstructed and its results are kept.
Analyze(e) ==
  LET t == TypeOf(e)
  IN /\ Examined(e)
     /\ num_events_skipped >= StartingEvent \/ t = 4
     /\ analyzed_events' = Increment(analyzed_events, t)
     /\ physics_events' = physics_events + 1
     /\ sum_analyzed' = sum_analyzed + 1
     /\ UNCHANGED num_events_skipped
     /\ results' = IF t \in 1..8 /\ ~e.fault
                   THEN Append(results, [n |-> total_event_count + 1,
                                         read |-> analyzed_events[0]])
                   ELSE results
     /\ Written(NotTrigger(t) + IF t \in {3, 4} /\ ~e.fault THEN 1 ELSE 0)
     /\ LoopEnds(e, e.fault)

\* An event that is neither a scaler, a trigger nor a control event
OtherEvent(e) ==
  /\ phase = "analysis" /\ e.type > 20
  /\ Get(e, e.type)
  /\ insync' = IF e.type = SyncfilterEvent THEN e.flag ELSE insync
  /\ Written(1)
  /\ UNCHANGED <<syncfilter_on, counts, idnumber, scalers, results>>
  /\ LoopEnds(e, FALSE)

\* g_examine_control_event: a CODA synchronization failure sets ABORT.
ControlEvent(e) ==
  /\ phase = "analysis" /\ e.type \in 16..20
  /\ Get(e, e.type)
  /\ idnumber' = FALSE
  /\ Written(1)
  /\ UNCHANGED <<syncfilter_on, insync, counts, scalers, results>>
  /\ LoopEnds(e, e.type = 16 /\ e.fault)

Init ==
  /\ phase = "runinfo"
  /\ total_event_count = 0
  /\ syncfilter_on = FALSE
  /\ insync = 0
  /\ recorded_events = [t \in TrigTypes |-> 0]
  /\ analyzed_events = [t \in TrigTypes |-> 0]
  /\ skipped_badsync_events = [t \in TrigTypes |-> 0]
  /\ skipped_lowbcm_events = [t \in TrigTypes |-> 0]
  /\ sum_recorded = 0
  /\ sum_analyzed = 0
  /\ sum_analyzed_skipped = 0
  /\ skipped_events_scal = 0
  /\ num_events_skipped = 0
  /\ ignored = 0
  /\ physics_events = 0
  /\ lastdump = 0
  /\ idnumber = FALSE
  /\ ave_current_bcm = 0
  /\ skip_events = FALSE
  /\ gscaler_saved = {}
  /\ gscaler_skipped = {}
  /\ beam_on = {}
  /\ results = <<>>
  /\ preproc = <<>>

\* What the engine does with an event
Process(e) ==
  \/ RunInfo(e)
  \/ ScalerEvent(e)
  \/ SkipBeforeScaler(e)
  \/ SkipDisabled(e)
  \/ SkipBadSync(e)
  \/ SkipLowCurrent(e)
  \/ SkipToStart(e)
  \/ Analyze(e)
  \/ OtherEvent(e)
  \/ ControlEvent(e)

Next == EndOfData \/ \E e \in Events : Process(e)

Spec == Init /\ [][Next]_vars

(***************************************************************************)
(* Properties                                                              *)
(***************************************************************************)

\* Each variable has its type.
Counter == [TrigTypes -> Nat]
Result == [n : 1..MaxEvents, read : Nat]

TypeOK ==
  /\ phase \in {"runinfo", "analysis", "ended"}
  /\ syncfilter_on \in BOOLEAN
  /\ insync \in {e.flag : e \in Events} \cup {0}
  /\ recorded_events \in Counter
  /\ analyzed_events \in Counter
  /\ skipped_badsync_events \in Counter
  /\ skipped_lowbcm_events \in Counter
  /\ total_event_count \in Nat
  /\ sum_recorded \in Nat
  /\ sum_analyzed \in Nat
  /\ sum_analyzed_skipped \in Nat
  /\ skipped_events_scal \in Nat
  /\ num_events_skipped \in Nat
  /\ ignored \in Nat
  /\ physics_events \in Nat
  /\ lastdump \in Nat
  /\ idnumber \in BOOLEAN
  /\ ave_current_bcm \in {e.bcm : e \in Events} \cup {0}
  /\ skip_events \in BOOLEAN
  /\ gscaler_saved \subseteq 1..total_event_count
  /\ gscaler_skipped \subseteq 1..total_event_count
  /\ beam_on \subseteq 1..total_event_count
  /\ results \in Seq(Result)
  /\ preproc \in Seq(1..MaxEvents)

\* Every trigger event read is accounted for in exactly one of the totals that
\* are reported when the run ends.
Accounted ==
  sum_recorded = sum_analyzed + sum_analyzed_skipped + skipped_events_scal
                   + num_events_skipped + ignored

\* Pedestal events aside, no event is analyzed before gen_run_starting_event
\* others have gone by, and no more than gen_run_stopping_event ever are.
RangeRespected ==
  LET beam == sum_analyzed - analyzed_events[4]
  IN /\ beam > 0 => num_events_skipped = StartingEvent
     /\ StoppingEvent > 0 => beam <= StoppingEvent

\* With the filter on, every scaler reading is added to exactly one of the two sums,
\* so that they add up to gscaler; without it, none is.  Whatever the mode, only
\* readings from the second on are charged.  Which sum a reading deserves is
\* FilteredReplay!ChargeIsSound.
ReadingsSorted ==
  /\ gscaler_saved \cap gscaler_skipped = {}
  /\ phase # "runinfo" =>
       gscaler_saved \cup gscaler_skipped =
         IF syncfilter_on THEN 1..analyzed_events[0] ELSE {}
  /\ 1 \notin beam_on /\ beam_on \subseteq 1..analyzed_events[0]

=============================================================================
