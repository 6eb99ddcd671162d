-------------------------- MODULE MCFilteredReplay --------------------------
(***************************************************************************)
(* A small run for FilteredReplay.                                         *)
(***************************************************************************)
EXTENDS FilteredReplay

Event(type, roc, bcm, long) ==
  [type |-> type, len |-> 1, roc |-> roc, bcm |-> bcm, long |-> long, flag |-> 0,
   fault |-> FALSE]

\* Beam events with a problem and with one in a ROC that is not looked at; readings
\* above, at and below the threshold, and too late; the GO event, a timed synchronization
\* with a problem and the END event.
MCEvents ==
  { Event(5, 5, -1, FALSE), Event(5, 4, -1, FALSE),
    Event(0, 0, 2, FALSE), Event(0, 0, 1, FALSE), Event(0, 0, 0, FALSE), Event(0, 0, 2, TRUE),
    Event(18, 0, -1, FALSE), Event(16, 4, -1, FALSE), Event(20, 0, -1, FALSE) }

\* Runs in segments are shorter, and only the second event may be a timed synchronization.
RunsAreSmall ==
  /\ nsegs > 0 => Len(input) <= 3
  /\ \A n \in DOMAIN input : input[n].type = TIMEDSYNC => n = 2
=============================================================================
