---------------------------- MODULE EngineProofs ----------------------------
(***************************************************************************)
(* Proofs about Engine: the types, the accounting of trigger events, the   *)
(* sums of scaler readings, and the range of events, for runs of any       *)
(* events, trigger settings and thresholds.                                *)
(***************************************************************************)
EXTENDS Engine, TLAPS

Totals == <<sum_recorded, sum_analyzed, sum_analyzed_skipped, skipped_events_scal,
            num_events_skipped, ignored>>

\* What an iteration may do to the totals: count the event as recorded and as one
\* of the five kinds, or count nothing.
OneMore ==
  /\ sum_recorded' = sum_recorded + 1
  /\ \/ /\ sum_analyzed' = sum_analyzed + 1
        /\ UNCHANGED <<sum_analyzed_skipped, skipped_events_scal,
                       num_events_skipped, ignored>>
     \/ /\ sum_analyzed_skipped' = sum_analyzed_skipped + 1
        /\ UNCHANGED <<sum_analyzed, skipped_events_scal, num_events_skipped, ignored>>
     \/ /\ skipped_events_scal' = skipped_events_scal + 1
        /\ UNCHANGED <<sum_analyzed, sum_analyzed_skipped, num_events_skipped, ignored>>
     \/ /\ num_events_skipped' = num_events_skipped + 1
        /\ UNCHANGED <<sum_analyzed, sum_analyzed_skipped, skipped_events_scal, ignored>>
     \/ /\ ignored' = ignored + 1
        /\ UNCHANGED <<sum_analyzed, sum_analyzed_skipped, skipped_events_scal,
                       num_events_skipped>>

\* The types of the totals, and the equation itself
TotalsInv ==
  /\ sum_recorded \in Nat /\ sum_analyzed \in Nat /\ sum_analyzed_skipped \in Nat
  /\ skipped_events_scal \in Nat /\ num_events_skipped \in Nat /\ ignored \in Nat
  /\ Accounted

\* Whatever kind of event it is, an iteration changes the totals by OneMore or
\* not at all.
LEMMA StepOfTotals == [Next]_vars => OneMore \/ UNCHANGED Totals
<1>1. CASE EndOfData
  BY <1>1 DEF EndOfData, Totals, counts
<1>2. ASSUME NEW e \in Events, Process(e)
      PROVE  OneMore \/ UNCHANGED Totals
  <2> e.type \in Nat
    BY EngineAssumption
  <2>1. CASE RunInfo(e)
    <3>1. CASE e.type \in 1..15
      BY <2>1, <3>1 DEF RunInfo, Get, TrigTypes, OneMore, Totals, scalers
    <3>2. CASE e.type \notin 1..15
      BY <2>1, <3>2 DEF RunInfo, Get, TrigTypes, OneMore, Totals, scalers
    <3> QED  BY <3>1, <3>2
  <2>2. CASE ScalerEvent(e)
    BY <2>2 DEF ScalerEvent, Get, TrigTypes, Totals
  <2>3. CASE SkipBeforeScaler(e)
    BY <2>3 DEF SkipBeforeScaler, Trigger, Get, TrigTypes, NotReconstructed, OneMore
  <2>4. CASE SkipDisabled(e)
    BY <2>4 DEF SkipDisabled, Trigger, Get, TrigTypes, NotReconstructed, OneMore
  <2>5. CASE SkipBadSync(e)
    BY <2>5 DEF SkipBadSync, Trigger, Get, TrigTypes, NotReconstructed, OneMore
  <2>6. CASE SkipLowCurrent(e)
    BY <2>6 DEF SkipLowCurrent, Trigger, Get, TrigTypes, NotReconstructed, OneMore
  <2>7. CASE SkipToStart(e)
    BY <2>7 DEF SkipToStart, Examined, Trigger, Get, TrigTypes, NotReconstructed, OneMore
  <2>8. CASE Analyze(e)
    BY SMTT(30), <2>8 DEF Analyze, Examined, Trigger, Get, TrigTypes, OneMore
  <2>9. CASE OtherEvent(e)
    BY <2>9 DEF OtherEvent, Get, TrigTypes, Totals, counts
  <2>10. CASE ControlEvent(e)
    BY <2>10 DEF ControlEvent, Get, TrigTypes, Totals, counts
  <2> QED
    BY <1>2, <2>1, <2>2, <2>3, <2>4, <2>5, <2>6, <2>7, <2>8, <2>9, <2>10 DEF Process
<1>3. CASE UNCHANGED vars
  BY <1>3 DEF vars, counts, Totals
<1> QED
  BY <1>1, <1>2, <1>3 DEF Next

\* Every trigger event the engine has read is counted in exactly one of the totals
\* of its final report (engine.f:1190-1244).
THEOREM AllAccounted == Spec => []Accounted
<1>1. Init => TotalsInv
  BY DEF Init, TotalsInv, Accounted
<1>2. TotalsInv /\ [Next]_vars => TotalsInv'
  <2> SUFFICES ASSUME TotalsInv, [Next]_vars
               PROVE  TotalsInv'
    OBVIOUS
  <2>1. OneMore \/ UNCHANGED Totals
    BY StepOfTotals
  <2>2. CASE OneMore
    BY <2>2 DEF OneMore, TotalsInv, Accounted
  <2>3. CASE UNCHANGED Totals
    BY <2>3 DEF Totals, TotalsInv, Accounted
  <2> QED  BY <2>1, <2>2, <2>3
<1>3. TotalsInv => Accounted
  BY DEF TotalsInv
<1> QED
  BY <1>1, <1>2, <1>3, PTL DEF Spec

(***************************************************************************)
(* Types                                                                   *)
(***************************************************************************)

\* The types, and the bound that the readings need: they are numbered by the
\* scaler events among the events read.
TypeInv == TypeOK /\ analyzed_events[0] <= total_event_count

\* Reading an event counts it, and keeps the counts what they are.
LEMMA GetTyped ==
  ASSUME TypeOK, NEW e \in Events, NEW t \in Nat, Get(e, t)
  PROVE  /\ total_event_count' \in Nat
         /\ total_event_count' = total_event_count + 1
         /\ total_event_count + 1 \in 1..MaxEvents
         /\ recorded_events' \in Counter
         /\ sum_recorded' \in Nat
<1>1. total_event_count \in Nat /\ MaxEvents \in Nat /\ sum_recorded \in Nat
  BY EngineAssumption DEF TypeOK
<1>2. recorded_events' \in Counter
  BY DEF Get, TypeOK, Counter, Increment
<1> QED
  BY <1>1, <1>2 DEF Get

\* The preprocessor writes events that have been read.
LEMMA WrittenTyped ==
  ASSUME TypeOK, total_event_count + 1 \in 1..MaxEvents, NEW k \in Nat, Written(k)
  PROVE  preproc' \in Seq(1..MaxEvents)
<1> DEFINE n == IF PreprocOn THEN k ELSE 0
           new == [i \in 1..n |-> total_event_count + 1]
<1>1. n \in Nat
  OBVIOUS
<1>2. new \in Seq(1..MaxEvents)
  <2> HIDE DEF n
  <2> QED  BY <1>1
<1>3. preproc' = preproc \o new
  BY DEF Written
<1>4. preproc \in Seq(1..MaxEvents)
  BY DEF TypeOK
<1> HIDE DEF new
<1> QED  BY <1>2, <1>3, <1>4

\* A counter by types goes up by one, for one type.
LEMMA IncrementTyped ==
  ASSUME NEW f \in Counter, NEW t \in TrigTypes
  PROVE  /\ Increment(f, t) \in Counter
         /\ Increment(f, t)[t] = f[t] + 1
         /\ \A u \in TrigTypes \ {t} : Increment(f, t)[u] = f[u]
  BY DEF Increment, Counter, TrigTypes

\* What the ways of a trigger event that is not analyzed have in common
LEMMA NotReconstructedTyped ==
  ASSUME TypeInv, NEW e \in Events, Trigger(e), NotReconstructed(e),
         idnumber' \in BOOLEAN,
         skipped_badsync_events' \in Counter, skipped_lowbcm_events' \in Counter,
         sum_analyzed_skipped' \in Nat, skipped_events_scal' \in Nat,
         num_events_skipped' \in Nat, ignored' \in Nat
  PROVE  TypeInv'
<1>1. TypeOf(e) \in Nat
  BY EngineAssumption DEF TypeOf
<1>2. Get(e, TypeOf(e))
  BY DEF Trigger
<1>3. /\ total_event_count' \in Nat /\ total_event_count' = total_event_count + 1
      /\ total_event_count + 1 \in 1..MaxEvents
      /\ recorded_events' \in Counter /\ sum_recorded' \in Nat
  BY <1>1, <1>2, GetTyped DEF TypeInv
<1>4. preproc' \in Seq(1..MaxEvents)
  <2>1. NotTrigger(TypeOf(e)) \in Nat
    BY DEF NotTrigger
  <2> QED  BY <1>3, <2>1, WrittenTyped DEF NotReconstructed, TypeInv
<1>5. phase' \in {"runinfo", "analysis", "ended"}
  BY DEF NotReconstructed, LoopEnds
<1>6. /\ total_event_count \in Nat /\ analyzed_events[0] \in Nat
      /\ 1..total_event_count \subseteq 1..(total_event_count + 1)
  <2>1. total_event_count \in Nat /\ analyzed_events \in [0..15 -> Nat]
    BY DEF TypeInv, TypeOK, Counter, TrigTypes
  <2> QED  BY <2>1
<1>7. UNCHANGED <<syncfilter_on, insync, analyzed_events, sum_analyzed, physics_events,
                  lastdump, ave_current_bcm, skip_events, gscaler_saved,
                  gscaler_skipped, beam_on, results>>
  BY DEF NotReconstructed, Trigger, scalers
<1>8. TypeOK'
  <2>1. TypeOK
    BY DEF TypeInv
  <2>2. /\ gscaler_saved' \subseteq 1..total_event_count'
        /\ gscaler_skipped' \subseteq 1..total_event_count'
        /\ beam_on' \subseteq 1..total_event_count'
    BY <2>1, <1>3, <1>6, <1>7 DEF TypeOK
  <2> QED
    BY <2>1, <2>2, <1>3, <1>4, <1>5, <1>7 DEF TypeOK
<1>9. analyzed_events'[0] <= total_event_count'
  BY <1>3, <1>6, <1>7 DEF TypeInv
<1> QED
  BY <1>8, <1>9 DEF TypeInv

\* Every iteration keeps the types.
LEMMA TypeStep == TypeInv /\ [Next]_vars => TypeInv'
<1> SUFFICES ASSUME TypeInv, [Next]_vars
             PROVE  TypeInv'
  OBVIOUS
<1> USE DEF TypeInv
<1>1. CASE EndOfData
  BY <1>1 DEF EndOfData, TypeOK, counts, scalers
<1>2. ASSUME NEW e \in Events, Process(e)
      PROVE  TypeInv'
  <2>0. /\ e.type \in Nat /\ e.bcm \in Int /\ TypeOf(e) \in Nat
        /\ e.bcm \in {f.bcm : f \in Events} /\ e.flag \in {f.flag : f \in Events}
        /\ e.long \in BOOLEAN
    BY EngineAssumption DEF TypeOf
  <2>a. /\ total_event_count \in Nat
        /\ \A t \in TrigTypes : analyzed_events[t] \in Nat
        /\ 0 \in TrigTypes
        /\ 1..total_event_count \subseteq 1..(total_event_count + 1)
    BY DEF TypeOK, Counter, TrigTypes
  <2>b. ASSUME NEW t \in Nat, Get(e, t)
        PROVE  /\ total_event_count' \in Nat /\ total_event_count' = total_event_count + 1
               /\ total_event_count + 1 \in 1..MaxEvents
               /\ recorded_events' \in Counter /\ sum_recorded' \in Nat
    BY <2>b, GetTyped
  <2>c. ASSUME NEW k \in Nat, Written(k), total_event_count + 1 \in 1..MaxEvents
        PROVE  preproc' \in Seq(1..MaxEvents)
    BY <2>c, WrittenTyped
  <2>d. \A t \in Nat : NotTrigger(t) \in Nat
    BY DEF NotTrigger
  <2>e. TypeOf(e) \in 1..15 => TypeOf(e) \in TrigTypes
    BY DEF TrigTypes
  <2>1. CASE RunInfo(e)
    <3>1. Get(e, e.type) /\ Written(NotTrigger(e.type))
      BY <2>1 DEF RunInfo
    <3>2. phase' \in {"runinfo", "analysis", "ended"} /\ ignored' \in Nat
          /\ syncfilter_on' \in BOOLEAN /\ idnumber' \in BOOLEAN
      BY <2>1 DEF RunInfo, TypeOK
    <3>3. preproc' \in Seq(1..MaxEvents)
      BY <3>1, <2>0, <2>b, <2>c, <2>d
    <3>4. UNCHANGED <<insync, analyzed_events, skipped_badsync_events,
                      skipped_lowbcm_events, sum_analyzed, sum_analyzed_skipped,
                      skipped_events_scal, num_events_skipped, physics_events,
                      lastdump, ave_current_bcm, skip_events, gscaler_saved,
                      gscaler_skipped, beam_on, results>>
      BY <2>1 DEF RunInfo, scalers
    <3>5. /\ total_event_count' \in Nat /\ total_event_count' = total_event_count + 1
          /\ recorded_events' \in Counter /\ sum_recorded' \in Nat
      BY <2>0, <3>1, <2>b
    <3> QED
      BY <3>2, <3>3, <3>4, <3>5, <2>a DEF TypeOK
  <2>2. CASE ScalerEvent(e)
    <3> DEFINE n == analyzed_events[0] + 1
    <3>1. Get(e, 0) /\ Written(NotTrigger(0) + 1)
      BY <2>2 DEF ScalerEvent
    <3>2. preproc' \in Seq(1..MaxEvents)
      <4>1. NotTrigger(0) + 1 \in Nat
        BY <2>d
      <4> QED  BY <3>1, <4>1, <2>b, <2>c
    <3>3. analyzed_events' \in Counter /\ analyzed_events'[0] = n
      BY <2>2, <2>a, IncrementTyped DEF ScalerEvent, TypeOK
    <3>4. n \in 1..total_event_count'
      BY <2>a, <2>b, <3>1
    <3>5. /\ ave_current_bcm' \in {f.bcm : f \in Events} \cup {0}
          /\ skip_events' \in BOOLEAN
      BY <2>2, <2>0 DEF ScalerEvent, Reading, TypeOK
    <3>6. beam_on' \subseteq beam_on \cup {n}
      BY <2>2 DEF ScalerEvent, Reading
    <3>7. gscaler_saved' \subseteq gscaler_saved \cup {n}
          /\ gscaler_skipped' \subseteq gscaler_skipped \cup {n}
      BY <2>2 DEF ScalerEvent, SortReading
    <3>8. /\ phase' \in {"runinfo", "analysis", "ended"} /\ lastdump' \in Nat
      BY <2>2 DEF ScalerEvent, LoopEnds, TypeOK
    <3>9. 1..total_event_count \subseteq 1..total_event_count'
      BY <2>a, <2>b, <3>1
    <3>10. /\ gscaler_saved' \subseteq 1..total_event_count'
           /\ gscaler_skipped' \subseteq 1..total_event_count'
           /\ beam_on' \subseteq 1..total_event_count'
      BY <3>4, <3>6, <3>7, <3>9 DEF TypeOK
    <3>11. analyzed_events'[0] <= total_event_count'
      BY <3>3, <3>4, <2>a
    <3>12. UNCHANGED <<syncfilter_on, insync, skipped_badsync_events,
                       skipped_lowbcm_events, sum_analyzed, sum_analyzed_skipped,
                       skipped_events_scal, num_events_skipped, ignored,
                       physics_events, idnumber, results>>
      BY <2>2 DEF ScalerEvent
    <3>13. total_event_count' \in Nat /\ recorded_events' \in Counter /\ sum_recorded' \in Nat
      BY <3>1, <2>b
    <3> QED
      BY <3>2, <3>3, <3>5, <3>8, <3>10, <3>11, <3>12, <3>13 DEF TypeOK
  <2>3. CASE SkipBeforeScaler(e)
    BY SMTT(30), <2>3, NotReconstructedTyped DEF SkipBeforeScaler, TypeOK
  <2>4. CASE SkipDisabled(e)
    BY <2>4, NotReconstructedTyped DEF SkipDisabled, TypeOK
  <2>5. CASE SkipBadSync(e)
    BY <2>5, <2>e, IncrementTyped, NotReconstructedTyped DEF SkipBadSync, Trigger, TypeOK
  <2>6. CASE SkipLowCurrent(e)
    BY <2>6, <2>e, IncrementTyped, NotReconstructedTyped
    DEF SkipLowCurrent, Trigger, TypeOK
  <2>7. CASE SkipToStart(e)
    <3>1. /\ Trigger(e) /\ NotReconstructed(e) /\ idnumber' = TRUE
          /\ num_events_skipped' = num_events_skipped + 1
          /\ UNCHANGED <<skipped_badsync_events, skipped_lowbcm_events,
                         sum_analyzed_skipped, skipped_events_scal, ignored>>
      BY <2>7 DEF SkipToStart, Examined
    <3> QED
      BY SMTT(30), <3>1, NotReconstructedTyped DEF TypeOK
  <2>8. CASE Analyze(e)
    <3> DEFINE t == TypeOf(e)
               k == NotTrigger(t) + IF t \in {3, 4} /\ ~e.fault THEN 1 ELSE 0
    <3>1. Get(e, t) /\ Written(k) /\ t \in 1..15
      BY <2>8 DEF Analyze, Examined, Trigger
    <3>2. preproc' \in Seq(1..MaxEvents)
      <4>1. k \in Nat
        BY <2>0, <2>d
      <4> HIDE DEF k
      <4> QED  BY <2>0, <3>1, <4>1, <2>b, <2>c
    <3>3. /\ analyzed_events' \in Counter
          /\ analyzed_events'[0] = analyzed_events[0]
      <4>1. analyzed_events' = Increment(analyzed_events, t)
        BY <2>8 DEF Analyze
      <4>2. t \in TrigTypes /\ 0 \in TrigTypes \ {t}
        BY <3>1, <2>e, <2>a
      <4>3. analyzed_events \in Counter
        BY DEF TypeOK
      <4> HIDE DEF t
      <4> QED  BY <4>1, <4>2, <4>3, IncrementTyped
    <3>4. results' \in Seq(Result)
      <4>1. [n |-> total_event_count + 1, read |-> analyzed_events[0]]
              \in Result
        BY <2>0, <3>1, <2>a, <2>b DEF Result
      <4>2. results \in Seq(Result)
        BY DEF TypeOK
      <4>3. \/ results' = results
            \/ results' = Append(results, [n |-> total_event_count + 1,
                                           read |-> analyzed_events[0]])
        BY <2>8 DEF Analyze
      <4> QED  BY <4>1, <4>2, <4>3
    <3>5. /\ phase' \in {"runinfo", "analysis", "ended"} /\ idnumber' \in BOOLEAN
          /\ physics_events' \in Nat /\ sum_analyzed' \in Nat
      BY <2>8 DEF Analyze, Examined, LoopEnds, TypeOK
    <3>6. UNCHANGED <<syncfilter_on, insync, skipped_badsync_events,
                      skipped_lowbcm_events, sum_analyzed_skipped,
                      skipped_events_scal, ignored, num_events_skipped,
                      ave_current_bcm, skip_events, gscaler_saved,
                      gscaler_skipped, beam_on, lastdump>>
      BY <2>8 DEF Analyze, Examined, Trigger, scalers
    <3>7. /\ total_event_count' \in Nat /\ total_event_count' = total_event_count + 1
          /\ recorded_events' \in Counter /\ sum_recorded' \in Nat
      BY <2>0, <3>1, <2>b
    <3> QED
      BY SMTT(30), <3>2, <3>3, <3>4, <3>5, <3>6, <3>7, <2>a DEF TypeOK
  <2>9. CASE OtherEvent(e)
    <3>1. Get(e, e.type) /\ Written(1)
      BY <2>9 DEF OtherEvent
    <3>2. preproc' \in Seq(1..MaxEvents)
      BY <3>1, <2>0, <2>b, <2>c
    <3>3. phase' \in {"runinfo", "analysis", "ended"}
          /\ insync' \in {f.flag : f \in Events} \cup {0}
      BY <2>9, <2>0 DEF OtherEvent, LoopEnds, TypeOK
    <3> QED
      BY SMTT(30), <2>9, <3>1, <3>2, <3>3, <2>0, <2>a, <2>b
      DEF OtherEvent, TypeOK, counts, scalers
  <2>10. CASE ControlEvent(e)
    <3>1. Get(e, e.type) /\ Written(1)
      BY <2>10 DEF ControlEvent
    <3>2. preproc' \in Seq(1..MaxEvents)
      BY <3>1, <2>0, <2>b, <2>c
    <3>3. phase' \in {"runinfo", "analysis", "ended"} /\ idnumber' \in BOOLEAN
      BY <2>10 DEF ControlEvent, LoopEnds
    <3> QED
      BY SMTT(30), <2>10, <3>1, <3>2, <3>3, <2>0, <2>a, <2>b
      DEF ControlEvent, TypeOK, counts, scalers
  <2> QED
    BY <1>2, <2>1, <2>2, <2>3, <2>4, <2>5, <2>6, <2>7, <2>8, <2>9, <2>10 DEF Process
<1>3. CASE UNCHANGED vars
  BY <1>3 DEF vars, counts, scalers, TypeOK
<1> QED
  BY <1>1, <1>2, <1>3 DEF Next

\* The counts start at 0.
LEMMA InitTyped == Init => TypeInv
<1> SUFFICES ASSUME Init PROVE TypeInv
  OBVIOUS
<1>1. [t \in TrigTypes |-> 0] \in Counter
  BY DEF Counter
<1>2. TypeOK
  <2>1. insync \in {e.flag : e \in Events} \cup {0}
    BY DEF Init
  <2>2. ave_current_bcm \in {e.bcm : e \in Events} \cup {0}
    BY DEF Init
  <2>3. results \in Seq(Result)
    BY DEF Init
  <2>4. preproc \in Seq(1..MaxEvents)
    BY DEF Init
  <2>5. /\ gscaler_saved \subseteq 1..total_event_count
        /\ gscaler_skipped \subseteq 1..total_event_count
        /\ beam_on \subseteq 1..total_event_count
    BY DEF Init
  <2> QED
    BY <1>1, <2>1, <2>2, <2>3, <2>4, <2>5 DEF Init, TypeOK
<1>3. analyzed_events[0] = 0 /\ total_event_count = 0
  BY DEF Init, TrigTypes
<1> QED  BY <1>2, <1>3 DEF TypeInv

\* In every run each variable of the engine has its type.
THEOREM TypeCorrect == Spec => []TypeOK
<1>1. Init => TypeInv
  BY InitTyped
<1>2. TypeInv => TypeOK
  BY DEF TypeInv
<1> QED
  BY <1>1, <1>2, TypeStep, PTL DEF Spec

(***************************************************************************)
(* Scaler readings                                                         *)
(***************************************************************************)

\* ReadingsSorted says nothing of the run information loop, in which there is no
\* reading yet.
ReadingsInv ==
  /\ TypeInv
  /\ ReadingsSorted
  /\ phase = "runinfo" =>
       analyzed_events[0] = 0 /\ gscaler_saved = {} /\ gscaler_skipped = {}

\* What every step but a scaler event leaves alone
NoReading ==
  /\ UNCHANGED <<gscaler_saved, gscaler_skipped, beam_on>>
  /\ analyzed_events'[0] = analyzed_events[0]
  /\ phase # "runinfo" => syncfilter_on' = syncfilter_on /\ phase' # "runinfo"

\* No other event than a scaler event adds a reading to the sums.
LEMMA OnlyScalerEventReads ==
  TypeInv /\ [Next]_vars => NoReading \/ \E e \in Events : ScalerEvent(e)
<1> SUFFICES ASSUME TypeInv, [Next]_vars, ~\E e \in Events : ScalerEvent(e)
             PROVE  NoReading
  OBVIOUS
<1>1. CASE EndOfData
  BY <1>1 DEF EndOfData, NoReading, counts, scalers
<1>2. ASSUME NEW e \in Events, Process(e)
      PROVE  NoReading
  <2>1. CASE RunInfo(e)
    BY <2>1 DEF RunInfo, NoReading, scalers
  <2>2. CASE Analyze(e)
    <3>1. UNCHANGED <<gscaler_saved, gscaler_skipped, beam_on, syncfilter_on>>
      BY <2>2 DEF Analyze, Examined, Trigger, scalers
    <3>2. phase' # "runinfo"
      BY <2>2 DEF Analyze, LoopEnds
    <3>3. analyzed_events'[0] = analyzed_events[0]
      <4>1. /\ TypeOf(e) \in 1..15
            /\ analyzed_events' = Increment(analyzed_events, TypeOf(e))
        BY <2>2 DEF Analyze, Examined, Trigger
      <4>2. analyzed_events \in [0..15 -> Nat]
        BY DEF TypeInv, TypeOK, Counter, TrigTypes
      <4> QED  BY <4>1, <4>2 DEF Increment
    <3> QED
      BY <3>1, <3>2, <3>3 DEF NoReading
  <2>3. CASE OtherEvent(e) \/ ControlEvent(e)
    BY <2>3 DEF OtherEvent, ControlEvent, LoopEnds, NoReading, counts, scalers
  <2>4. CASE \/ SkipBeforeScaler(e) \/ SkipDisabled(e) \/ SkipBadSync(e)
             \/ SkipLowCurrent(e) \/ SkipToStart(e)
    <3>1. Trigger(e) /\ NotReconstructed(e)
      BY <2>4 DEF SkipBeforeScaler, SkipDisabled, SkipBadSync, SkipLowCurrent,
                  SkipToStart, Examined
    <3> QED
      BY <3>1 DEF Trigger, NotReconstructed, LoopEnds, NoReading, scalers
  <2> QED
    BY <1>2, <2>1, <2>2, <2>3, <2>4 DEF Process
<1>3. CASE UNCHANGED vars
  BY <1>3 DEF vars, counts, scalers, NoReading
<1> QED
  BY <1>1, <1>2, <1>3 DEF Next

\* Every iteration keeps each reading in one sum.
LEMMA ReadingsStep == ReadingsInv /\ [Next]_vars => ReadingsInv'
<1> SUFFICES ASSUME ReadingsInv, [Next]_vars
             PROVE  ReadingsInv'
  OBVIOUS
<1>1. TypeInv'
  BY TypeStep DEF ReadingsInv
<1>2. CASE NoReading
  <2>1. CASE phase = "runinfo"
    BY <1>1, <1>2, <2>1 DEF ReadingsInv, ReadingsSorted, NoReading
  <2>2. CASE phase # "runinfo"
    BY <1>1, <1>2, <2>2 DEF ReadingsInv, ReadingsSorted, NoReading
  <2> QED  BY <2>1, <2>2
<1>3. ASSUME NEW e \in Events, ScalerEvent(e)
      PROVE  ReadingsInv'
  <2> DEFINE n == analyzed_events[0] + 1
  <2>1. analyzed_events[0] \in Nat /\ analyzed_events'[0] = n
    <3>1. analyzed_events \in Counter /\ 0 \in TrigTypes
      BY DEF ReadingsInv, TypeInv, TypeOK, TrigTypes
    <3>2. analyzed_events' = Increment(analyzed_events, 0)
      BY <1>3 DEF ScalerEvent
    <3> QED  BY <3>1, <3>2, IncrementTyped DEF Counter
  <2>2. 1..n = (1..analyzed_events[0]) \cup {n} /\ n \notin 1..analyzed_events[0]
    BY <2>1
  <2>3. phase = "analysis" /\ syncfilter_on' = syncfilter_on /\ phase' # "runinfo"
    BY <1>3 DEF ScalerEvent, LoopEnds
  <2>4. beam_on' = beam_on \/ (beam_on' = beam_on \cup {n} /\ n # 1)
    <3>1. n > 1 => n # 1
      BY <2>1
    <3> QED  BY <1>3, <3>1 DEF ScalerEvent, Reading
  <2>5. 1 \notin beam_on' /\ beam_on' \subseteq 1..n
    BY <2>2, <2>4 DEF ReadingsInv, ReadingsSorted
  <2>6. CASE syncfilter_on
    <3>1. \/ gscaler_skipped' = gscaler_skipped \cup {n} /\ gscaler_saved' = gscaler_saved
          \/ gscaler_saved' = gscaler_saved \cup {n} /\ gscaler_skipped' = gscaler_skipped
      BY <1>3, <2>6 DEF ScalerEvent, SortReading
    <3>2. /\ gscaler_saved \cup gscaler_skipped = 1..analyzed_events[0]
          /\ gscaler_saved \cap gscaler_skipped = {}
      BY <2>3, <2>6 DEF ReadingsInv, ReadingsSorted
    <3>3. /\ gscaler_saved' \cup gscaler_skipped' = 1..n
          /\ gscaler_saved' \cap gscaler_skipped' = {}
      BY <3>1, <3>2, <2>2
    <3> QED
      BY <1>1, <2>1, <2>3, <2>5, <2>6, <3>3 DEF ReadingsInv, ReadingsSorted
  <2>7. CASE ~syncfilter_on
    <3>1. gscaler_saved' = {} /\ gscaler_skipped' = {}
      BY <1>3, <2>3, <2>7 DEF ScalerEvent, ReadingsInv, ReadingsSorted
    <3> QED
      BY <1>1, <2>1, <2>3, <2>5, <2>7, <3>1 DEF ReadingsInv, ReadingsSorted
  <2> QED  BY <2>6, <2>7
<1> QED
  BY <1>2, <1>3, OnlyScalerEventReads DEF ReadingsInv

\* With syncfilter on, each scaler reading is in exactly one of gscaler_saved and
\* gscaler_skipped (engine.f:864-877), whatever the order of readings, flags and
\* faults; only readings from the second on are charged.
THEOREM EachReadingSorted == Spec => []ReadingsSorted
<1>1. Init => ReadingsInv
  <2> SUFFICES ASSUME Init PROVE ReadingsInv
    OBVIOUS
  <2>1. TypeInv
    BY InitTyped
  <2>2. phase = "runinfo" /\ gscaler_saved = {} /\ gscaler_skipped = {} /\ beam_on = {}
    BY DEF Init
  <2>3. analyzed_events[0] = 0
    BY DEF Init, TrigTypes
  <2> QED  BY <2>1, <2>2, <2>3 DEF ReadingsInv, ReadingsSorted
<1>2. ReadingsInv => ReadingsSorted
  BY DEF ReadingsInv
<1> QED
  BY <1>1, <1>2, ReadingsStep, PTL DEF Spec

(***************************************************************************)
(* The range of events                                                     *)
(***************************************************************************)

\* Events analyzed, pedestal events aside
Beam == sum_analyzed - analyzed_events[4]

\* While the loop goes on, the limit has not been reached.
RangeInv ==
  /\ TypeInv
  /\ num_events_skipped <= StartingEvent
  /\ Beam > 0 => num_events_skipped = StartingEvent
  /\ phase = "runinfo" => Beam = 0
  /\ StoppingEvent > 0 => /\ Beam <= StoppingEvent
                          /\ phase = "analysis" => Beam < StoppingEvent

\* What every step but the analysis of an event leaves alone
NoAnalysis ==
  /\ UNCHANGED <<sum_analyzed, Beam>>
  /\ \/ UNCHANGED num_events_skipped
     \/ /\ num_events_skipped < StartingEvent
        /\ num_events_skipped' = num_events_skipped + 1
  /\ phase' = "analysis" => phase \in {"runinfo", "analysis"}
  /\ phase' = "runinfo" => phase = "runinfo"

\* No other step than an analysis changes what was analyzed.
LEMMA OnlyAnalyzeAnalyzes ==
  TypeInv /\ [Next]_vars => NoAnalysis \/ \E e \in Events : Analyze(e)
<1> SUFFICES ASSUME TypeInv, [Next]_vars, ~\E e \in Events : Analyze(e)
             PROVE  NoAnalysis
  OBVIOUS
<1> USE DEF Beam
<1>1. CASE EndOfData
  BY <1>1 DEF EndOfData, NoAnalysis, counts
<1>2. ASSUME NEW e \in Events, Process(e)
      PROVE  NoAnalysis
  <2>1. CASE RunInfo(e)
    BY <2>1 DEF RunInfo, NoAnalysis
  <2>2. CASE ScalerEvent(e)
    <3>1. analyzed_events'[4] = analyzed_events[4]
      <4>1. analyzed_events' = Increment(analyzed_events, 0)
        BY <2>2 DEF ScalerEvent
      <4>2. analyzed_events \in [0..15 -> Nat]
        BY DEF TypeInv, TypeOK, Counter, TrigTypes
      <4> QED  BY <4>1, <4>2 DEF Increment
    <3> QED
      BY <2>2, <3>1 DEF ScalerEvent, LoopEnds, NoAnalysis
  <2>3. CASE OtherEvent(e) \/ ControlEvent(e)
    BY <2>3 DEF OtherEvent, ControlEvent, LoopEnds, NoAnalysis, counts
  <2>4. CASE \/ SkipBeforeScaler(e) \/ SkipDisabled(e) \/ SkipBadSync(e)
             \/ SkipLowCurrent(e) \/ SkipToStart(e)
    <3>1. Trigger(e) /\ NotReconstructed(e)
      BY <2>4 DEF SkipBeforeScaler, SkipDisabled, SkipBadSync, SkipLowCurrent,
                  SkipToStart, Examined
    <3>2. \/ UNCHANGED num_events_skipped
          \/ /\ num_events_skipped < StartingEvent
             /\ num_events_skipped' = num_events_skipped + 1
      BY <2>4 DEF SkipBeforeScaler, SkipDisabled, SkipBadSync, SkipLowCurrent,
                  SkipToStart
    <3> QED
      BY <3>1, <3>2 DEF Trigger, NotReconstructed, LoopEnds, NoAnalysis
  <2> QED
    BY <1>2, <2>1, <2>2, <2>3, <2>4 DEF Process
<1>3. CASE UNCHANGED vars
  BY <1>3 DEF vars, counts, NoAnalysis
<1> QED
  BY <1>1, <1>2, <1>3 DEF Next

\* Every iteration keeps to the range of events.
LEMMA RangeStep == RangeInv /\ [Next]_vars => RangeInv'
<1> SUFFICES ASSUME RangeInv, [Next]_vars
             PROVE  RangeInv'
  OBVIOUS
<1>1. TypeInv'
  BY TypeStep DEF RangeInv
<1>2. /\ StartingEvent \in Nat /\ StoppingEvent \in Nat
      /\ num_events_skipped \in Nat /\ Beam \in Int
  <2>1. analyzed_events \in [0..15 -> Nat] /\ sum_analyzed \in Nat
    BY DEF RangeInv, TypeInv, TypeOK, Counter, TrigTypes
  <2>2. StartingEvent \in Nat /\ StoppingEvent \in Nat
    BY EngineAssumption
  <2>3. num_events_skipped \in Nat
    BY DEF RangeInv, TypeInv, TypeOK
  <2> QED  BY <2>1, <2>2, <2>3 DEF Beam
<1>3. CASE NoAnalysis
  <2> HIDE DEF Beam
  <2> QED  BY <1>1, <1>2, <1>3 DEF RangeInv, NoAnalysis
<1>4. ASSUME NEW e \in Events, Analyze(e)
      PROVE  RangeInv'
  <2> DEFINE t == TypeOf(e)
  <2>1. /\ phase = "analysis" /\ t \in 1..15 /\ UNCHANGED num_events_skipped
        /\ num_events_skipped >= StartingEvent \/ t = 4
        /\ sum_analyzed' = sum_analyzed + 1
        /\ analyzed_events' = Increment(analyzed_events, t)
        /\ idnumber' = TRUE
        /\ UNCHANGED sum_analyzed_skipped
    BY <1>4 DEF Analyze, Examined, Trigger
  <2>2. analyzed_events \in [0..15 -> Nat] /\ sum_analyzed \in Nat
        /\ sum_analyzed_skipped \in Nat
    BY DEF RangeInv, TypeInv, TypeOK, Counter, TrigTypes
  <2>3. phase' # "runinfo"
    BY <1>4 DEF Analyze, LoopEnds
  <2>4. phase' = "analysis" /\ StoppingEvent > 0 => Beam' < StoppingEvent
    <3>1. phase' = "analysis" =>
            ~(StoppingEvent > 0 /\ idnumber'
                /\ StoppingEvent <=
                     sum_analyzed' + sum_analyzed_skipped' - analyzed_events'[4])
      BY <1>4 DEF Analyze, LoopEnds
    <3>2. /\ sum_analyzed' \in Nat /\ sum_analyzed_skipped' \in Nat
          /\ analyzed_events'[4] \in Nat
      BY <2>1, <2>2 DEF Increment
    <3> QED  BY <3>1, <3>2, <2>1, <1>2 DEF Beam
  <2>5. Beam' = Beam + IF t = 4 THEN 0 ELSE 1
    BY <2>1, <2>2 DEF Beam, Increment
  <2> HIDE DEF Beam, t
  <2> QED
    BY <1>1, <1>2, <2>1, <2>3, <2>4, <2>5 DEF RangeInv
<1> QED
  BY <1>3, <1>4, OnlyAnalyzeAnalyzes DEF RangeInv

\* gen_run_starting_event and gen_run_stopping_event bound what is analyzed
\* (engine.f:948-950, 1126-1131), for every setting of the two.
THEOREM RangeKept == Spec => []RangeRespected
<1>1. Init => RangeInv
  <2> SUFFICES ASSUME Init PROVE RangeInv
    OBVIOUS
  <2>1. TypeInv
    BY InitTyped
  <2>2. Beam = 0
    <3>1. sum_analyzed = 0 /\ analyzed_events = [t \in 0..15 |-> 0]
      BY DEF Init, TrigTypes
    <3> QED  BY <3>1 DEF Beam
  <2>3. num_events_skipped = 0 /\ StartingEvent \in Nat /\ StoppingEvent \in Nat
    BY EngineAssumption DEF Init
  <2> QED  BY <2>1, <2>2, <2>3 DEF RangeInv
<1>2. RangeInv => RangeRespected
  BY DEF RangeInv, RangeRespected, Beam
<1> QED
  BY <1>1, <1>2, RangeStep, PTL DEF Spec
=============================================================================
