--------------------------- MODULE FilteredReplay ---------------------------
(***************************************************************************)
(* A replay of filtered data: syncfilter writes a file or a pipe that the  *)
(* engine reads (g_get_next_event).  By EvFile!QueueSpec the engine gets   *)
(* the events in the order in which they were written: all of them when    *)
(* the file was closed, and possibly not the last ones when it was not.    *)
(***************************************************************************)
EXTENDS SyncFilter

CONSTANTS Enabled, Threshold

\* The data have not been through the filter before: they hold no flag events.
ASSUME ReplayAssumption ==
  /\ \A e \in Events : /\ e.bcm \in Int /\ e.flag \in Nat
                       /\ e.long \in BOOLEAN /\ e.fault \in BOOLEAN
                       /\ e.type # 251
  /\ Enabled \subseteq 1..15
  /\ Threshold \in Int

VARIABLES
  phase, total_event_count, syncfilter_on, insync, recorded_events,
  analyzed_events, skipped_badsync_events, skipped_lowbcm_events, sum_recorded,
  sum_analyzed, sum_analyzed_skipped, skipped_events_scal, num_events_skipped,
  ignored, physics_events, lastdump, idnumber, ave_current_bcm, skip_events,
  gscaler_saved, gscaler_skipped, beam_on, results, preproc

\* What the engine reads: an event, or one of the flag events (type 251)
FlagEvent(f) ==
  [type |-> 251, bcm |-> -1, long |-> FALSE, fault |-> FALSE, len |-> 4, roc |-> 0,
   flag |-> CASE f = INSYNC -> 0 [] f = OUTSYNC -> 1 [] f = EARLYEND -> 2]

ReadAs(entry) == IF entry.flag = "none" THEN input[entry.n] ELSE FlagEvent(entry)

E == INSTANCE Engine WITH
       Events <- Events \cup {FlagEvent(f) : f \in {INSYNC, OUTSYNC, EARLYEND}},
       StartingEvent <- 0, StoppingEvent <- 0, DumpInterval <- 0,
       PreprocOn <- FALSE, MaxEvents <- 3 * MaxEvents + 2

enginevars ==
  <<phase, total_event_count, syncfilter_on, insync, recorded_events,
    analyzed_events, skipped_badsync_events, skipped_lowbcm_events, sum_recorded,
    sum_analyzed, sum_analyzed_skipped, skipped_events_scal, num_events_skipped,
    ignored, physics_events, lastdump, idnumber, ave_current_bcm, skip_events,
    gscaler_saved, gscaler_skipped, beam_on, results, preproc>>

allvars == <<vars, enginevars>>

FilterStep == Next /\ UNCHANGED enginevars

EngineStep ==
  /\ UNCHANGED vars
  /\ \/ /\ total_event_count < Len(out)
        /\ E!Process(ReadAs(out[total_event_count + 1]))
     \/ /\ ofile # "open"
        /\ ofile = "cut" \/ total_event_count = Len(out)
        /\ E!EndOfData

ReplayInit == Init /\ E!Init

ReplayNext == FilterStep \/ EngineStep

ReplaySpec == ReplayInit /\ [][ReplayNext]_allvars

(***************************************************************************)
(* Properties                                                              *)
(***************************************************************************)

\* The event that a result was computed from
Source(r) == out[r.n].n

\* Pedestal events are analyzed whatever the beam and the flags.
IsBeam(n) == input[n].type \notin {0, 4}

\* m is the scaler event that ends the interval of n.
EndedByReading(n, m) == n < m /\ input[m].type = SCALERSYNC /\ SameInterval(n, m)

\* The engine has met the GO event and a first reading before that interval.
PastFirstReading(n) ==
  \E g, k \in 1..(n - 1) :
    g < k /\ input[g].type = GOEVENT /\ input[k].type = SCALERSYNC

\* "all data back to the previous sync is suspect" (syncfilter.c:8): it is never
\* analyzed.
SuspectNeverAnalyzed ==
  \A i \in DOMAIN results : IsBeam(Source(results[i])) => ~Suspect(Source(results[i]))

\* m is the last scaler event that the engine had read at place p of its input.
LastReading(m, p) ==
  \E q \in 1..p :
    /\ out[q] = Copy(m)
    /\ \A k \in (q + 1)..p : out[k].flag = "none" => input[out[k].n].type # SCALERSYNC

\* The yield is normalized to the charge of the same intervals: if an event was
\* analyzed that a usable reading followed, it was judged by that reading, and
\* the charge of that reading was added to g_beam_on_bcm_charge.
AnalyzedIsCharged ==
  \A i \in DOMAIN results :
    LET n == Source(results[i])
    IN IsBeam(n) /\ PastFirstReading(n) =>
         \A m \in DOMAIN input :
           EndedByReading(n, m) /\ input[m].bcm # -1 =>
             LastReading(m, results[i].n) /\ results[i].read \in beam_on

\* And none of the events that belong to a charged reading is left out: when a
\* sound interval ends with a timely reading above threshold, all its events of
\* the enabled types that the engine has come to are analyzed, and the results kept
\* of those that can be decoded and have a group (types 1 to 8, engine.f:980-997).
ChargedIsAnalyzed ==
  \A p \in 1..total_event_count :
    LET n == out[p].n
    IN out[p].flag = "none" /\ IsBeam(n) /\ input[n].type \in Enabled \cap 1..8
         /\ ~input[n].fault /\ PastFirstReading(n) /\ ~Suspect(n)
         /\ (\E m \in DOMAIN input :
               /\ EndedByReading(n, m)
               /\ input[m].bcm >= Threshold /\ input[m].bcm # -1 /\ ~input[m].long)
       => \E i \in DOMAIN results : results[i].n = p

\* Charge and yield are of the same intervals, both ways: whatever flags, skips
\* and readings the filter and the engine put between (syncfilter.c:205-247,
\* engine.f:866-877).
AnalyzedAsCharged == AnalyzedIsCharged /\ ChargedIsAnalyzed

\* The number that the engine gave to the reading at place p of its input, counted
\* back from that of the last one it has taken
NumberAt(p) ==
  LET later == {q \in (p + 1)..total_event_count :
                  out[q].flag = "none" /\ input[out[q].n].type = SCALERSYNC}
  IN analyzed_events[0] - Cardinality(later)

\* The sums have what the intervals of the run deserve.  Of the readings with a
\* current, from the second after the GO event on, gscaler_saved has exactly those
\* that end a sound interval in time and with beam; gscaler_skipped has the others;
\* and the charge is that of the same readings, where a current that is equal to
\* the threshold is charged (g_analyze_scaler_bank.f:323) and not saved
\* (engine.f:867).  No charge of a suspect interval (syncfilter.c:8) counts,
\* whatever flags, skips and readings come between.
ChargeIsSound ==
  \A p \in 1..total_event_count :
    LET m == out[p].n
        sound == ~Suspect(m) /\ ~input[m].long
    IN out[p].flag = "none" /\ input[m].type = SCALERSYNC /\ input[m].bcm # -1
       /\ PastFirstReading(m)
       => /\ NumberAt(p) \in gscaler_saved <=> sound /\ input[m].bcm > Threshold
          /\ NumberAt(p) \in gscaler_skipped <=> ~(sound /\ input[m].bcm > Threshold)
          /\ NumberAt(p) \in beam_on <=> sound /\ input[m].bcm >= Threshold
=============================================================================
