----------------------------- MODULE EventPath -----------------------------
(***************************************************************************)
(* The way of a physics event through the engine: it is read from the      *)
(* segments of a run (Segments), its words become the hits of the          *)
(* detectors (Decoder), the hodoscope keeps those with good times and      *)
(* subtracts pedestals (HTRACKING/h_strip_scin.f), and the gethit blocks   *)
(* pick values of single counters for the histograms (Gethit).  All of     *)
(* this is one process; the blocks may be loaded again between events.     *)
(***************************************************************************)
EXTENDS Decoder

CONSTANTS
  Runs, NoFile, TooLong,       \* see Segments; loads says how often blocks are loaded in a run
  Blocks, Titles, Junk,        \* see Gethit
  WC, SCIN,                    \* a wire chamber and a hodoscope
  GoodTimes,                   \* hscin_tdc_min..hscin_tdc_max
  Pedestal                     \* hscin_all_ped_pos, in halves

ASSUME EventPathAssumption ==
  /\ WC \in Detectors \ {UNINST_ID} /\ SCIN \in Detectors /\ SignalCount[WC] = 1 /\ SignalCount[SCIN] = 4
  /\ Junk \subseteq Int /\ Pedestal \in Int
  /\ Runs \subseteq [last : Nat, plain : Seq(Events) \cup {NoFile},
                      segments : Seq(Seq(Events) \cup {NoFile}), loads : Nat]

VARIABLES
  run, source, g_data_source_opened, g_segment, file, pos, seen,  \* of Segments
  phase, order, title, booked, opaque, var, due,                  \* of Gethit
  scin,    \* the hits of the hodoscope with good times
  loads    \* blocks loaded

S == INSTANCE Segments WITH pc <- source

-----------------------------------------------------------------------------
(* The arrays that the blocks may name. *)

Lists == [n \in {"hdc_raw_tot_hits", "hscin_tot_hits"} |->
  IF n = "hdc_raw_tot_hits" THEN {"hdc_raw_plane_num", "hdc_raw_wire_num", "hdc_raw_tdc"}
                            ELSE {"hscin_counter_num", "hscin_adc_pos"}]
ArrayType == [a \in UNION {Lists[n] : n \in DOMAIN Lists} |-> IF a = "hscin_adc_pos" THEN "REAL" ELSE "INT"]

\* Integers in halves
Raw(d, value(_)) == [i \in 0..(MaxHits[d] - 1) |-> 2 * value(hits[d][i + 1])]
array ==
  [a \in DOMAIN ArrayType |->
     CASE a = "hdc_raw_plane_num" -> Raw(WC, LAMBDA hit : hit.plane)
       [] a = "hdc_raw_wire_num" -> Raw(WC, LAMBDA hit : hit.counter)
       [] a = "hdc_raw_tdc" -> Raw(WC, LAMBDA hit : hit.signal[0])
       [] a = "hscin_counter_num" -> scin.counter
       [] a = "hscin_adc_pos" -> scin.adc_pos]
nhits == [n \in DOMAIN Lists |-> IF n = "hscin_tot_hits" THEN scin.tot_hits ELSE hitcount[WC]]

(* The hits that the words of the event give, and their places: each wire its
   words, in their order, each counter with a good time the last of its values. *)
WireOf(p) == CHOOSE x \in Wires(WordAt(event, p)) : TRUE
WireHit(p) ==
  [at |-> <<WireOf(p).plane, WireOf(p).counter, p[1], p[2]>>,
   value |-> [a \in Lists["hdc_raw_tot_hits"] |->
                2 * CASE a = "hdc_raw_plane_num" -> WireOf(p).plane
                      [] a = "hdc_raw_wire_num" -> WireOf(p).counter
                      [] a = "hdc_raw_tdc" -> WordAt(event, p).low]]
WireHits ==
  LET said == Said(event, WC)
  IN {WireHit(p) : p \in {p \in said : Cardinality({q \in said : Earlier(q, p)}) < MaxHits[WC]}}

Signal(x, s) == LastValue(event, Said(event, SCIN), x, s)
CounterHit(x) ==
  [at |-> <<x.plane, x.counter>>,
   value |-> [a \in Lists["hscin_tot_hits"] |->
                IF a = "hscin_counter_num" THEN 2 * x.counter ELSE 2 * Signal(x, 0) - Pedestal]]
CounterHits ==
  {CounterHit(x) : x \in {x \in {WireOf(p) : p \in Said(event, SCIN)} : {Signal(x, 2), Signal(x, 3)} \cap GoodTimes # {}}}

given == [n \in DOMAIN Lists |-> IF n = "hscin_tot_hits" THEN CounterHits ELSE WireHits]

G == INSTANCE Gethit
ASSUME TitlesAssumption == \A b \in Blocks : Titles[b] \subseteq Seq(G!Line)

\* The signals of a hodoscope are adc_pos, adc_neg, tdc_pos and tdc_neg
IsGood(hit) == hit.signal[2] \in GoodTimes \/ hit.signal[3] \in GoodTimes
Strip(s, hit) ==
  [tot_hits |-> s.tot_hits + 1,
   counter |-> [s.counter EXCEPT ![s.tot_hits] = 2 * hit.counter],
   adc_pos |-> [s.adc_pos EXCEPT ![s.tot_hits] = 2 * hit.signal[0] - Pedestal]]

h_strip_scin ==
  LET after[n \in 0..hitcount[SCIN]] ==
        IF n = 0 THEN [scin EXCEPT !.tot_hits = 0]
        ELSE IF IsGood(hits[SCIN][n]) THEN Strip(after[n - 1], hits[SCIN][n]) ELSE after[n - 1]
  IN scin' = after[hitcount[SCIN]]

-----------------------------------------------------------------------------
segmentvars == <<run, source, g_data_source_opened, g_segment, file, pos, seen>>
gethitvars == <<phase, order, title, booked, opaque, var, due>>
pathvars == <<decodervars, segmentvars, gethitvars, scin, loads>>

PathInit ==
  /\ Init /\ S!Init /\ G!Init
  /\ scin = [tot_hits |-> 0, counter |-> [i \in 0..(MaxHits[SCIN] - 1) |-> 0],
             adc_pos |-> [i \in 0..(MaxHits[SCIN] - 1) |-> 0]]
  /\ loads = 0

\* The blocks are loaded and booked by g_initialize, with the source open, and
\* perhaps later
Load ==
  /\ source = "open" /\ loads < run.loads /\ loads' = loads + 1
  /\ \E b \in Blocks : G!Load(b)
  /\ UNCHANGED <<decodervars, segmentvars, scin>>

Book ==
  /\ source = "open"
  /\ G!Book \/ G!Booked
  /\ UNCHANGED <<decodervars, segmentvars, scin, loads>>

OpenSource ==
  /\ S!g_open_source
  /\ UNCHANGED <<decodervars, gethitvars, scin, loads>>

\* An event is cleared away before the next one is decoded
Event ==
  /\ phase = "ready" /\ S!g_get_next_event
  /\ IF Len(seen') > Len(seen) THEN NextEvent(Last(seen')) /\ G!NewEvent
                               ELSE UNCHANGED <<decodervars, gethitvars>>
  /\ UNCHANGED <<scin, loads>>

\* The hodoscope is looked at when all banks have been decoded
DecodeEvent ==
  /\ Decode
  /\ IF pc' = "idle" THEN h_strip_scin ELSE UNCHANGED scin
  /\ UNCHANGED <<segmentvars, gethitvars, loads>>

KeepResults ==
  /\ pc = "idle" /\ G!Execute
  /\ UNCHANGED <<decodervars, segmentvars, scin, loads>>

PathNext == Load \/ Book \/ OpenSource \/ Event \/ DecodeEvent \/ KeepResults

\* The loop over the words of an event is never left alone.
PathSpec == PathInit /\ [][PathNext]_pathvars /\ WF_pathvars(DecodeEvent)

-----------------------------------------------------------------------------
\* See Segments: the engine gets the events of all segments in their order.
SegmentsInOrder == S!SegmentsInOrder

\* See Gethit: after each event the variables hold what the titles ask of its
\* words, which have been sorted, stripped and matched on the way.
ValuesFollowTitles == G!ValuesFollowTitles
=============================================================================
