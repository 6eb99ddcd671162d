---------------------------- MODULE MCEventPath ----------------------------
(***************************************************************************)
(* A wire chamber (1) and a hodoscope (2) share slots of two Fastbus ROCs  *)
(* and an F1 TDC.  Slots 3 have modules with headers, slots 5 have none    *)
(* and slot 9 is not in the map.  Some runs have all sorts of events, some *)
(* several blocks and some several segments.                               *)
(***************************************************************************)
EXTENDS EventPath

\* The names and lines of the two components, without their constants
LOCAL Segment == INSTANCE Segments WITH pc <- source, Runs <- {}, NoFile <- <<>>, TooLong <- <<>>
LOCAL Block == INSTANCE Gethit WITH Blocks <- {}, Titles <- <<>>, array <- <<>>, nhits <- <<>>, given <- <<>>

Key(key, v) == [key |-> key, v |-> v]
Channel(subadd, plane, counter, signal) ==
  [key |-> "CHANNEL", subadd |-> subadd, plane |-> plane, counter |-> counter, signal |-> signal]
MCMapLines ==
  <<Key("ROC", 12), Key("MODULE", 1), Key("SLOT", 3), Key("NSUB", 3), Key("DET", 1), Channel(1, 2, 1, 0),
    Key("DET", 2), Channel(2, 1, 2, 2),
    Key("ROC", 1), Key("SLOT", 3), Key("NSUB", 4), Key("DET", 1), Channel(0, 1, 2, 0), Channel(1, 1, 1, 0),
    Key("DET", 2), Channel(2, 1, 1, 0),
    Key("SLOT", 5), Key("NSUB", 2), Key("BSUB", 16), Channel(0, 1, 1, 3), Channel(1, 1, 2, 0),
    Key("ROC", 2), Key("SLOT", 3), Key("BSUB", 17), Key("DET", 1), Channel(0, 1, 1, 0), Channel(1, 2, 1, 0)>>

Value(e, r, s, k) == 1000 * e + 30 * r + 3 * s + k
\* The words of a module with hits at addrs, in this order, in an event e
Hits(e, r, s, addrs) == [k \in DOMAIN addrs |-> Data(r, s, addrs[k], Value(e, r, s, k))]
Headed(e, r, s, addrs) == <<Header(s, 0, Value(e, r, s, 0))>> \o Hits(e, r, s, addrs)
Bank(r, ws) == [roc |-> r, words |-> ws]
\* The banks of two ROCs in one, behind a front end
TwoRocs(r1, w1, r2, w2) ==
  Bank(7, <<Plain(Len(w1) + 1), Plain(r1)>> \o w1 \o <<Plain(Len(w2) + 1), Plain(r2)>> \o w2)

Short(addrs, n) == BoundedSeq(addrs, n)
Reports == {<<>>, <<Report("DCAA"), Plain(9), Plain(8)>>, <<Report("DC"), Plain(0)>>}
F1(e) == {<<Header(3, 5, 0)>> \o Hits(e, 12, 3, a) : a \in {<<>>, <<1, 0>>, <<2>>}}
         \cup {<<Data(12, 3, 0, Overflow), Header(3, 1, 0)>> \o Hits(e, 12, 3, <<3>>)}

OneRoc(e, n, m) ==
  {<<Bank(1, Headed(e, 1, 3, a) \o r \o Hits(e, 1, 5, b))>> : a \in Short(0..3, n), b \in Short(0..1, m), r \in Reports}
WithF1(e) == {<<Bank(12, f), Bank(5, <<Plain(77)>>), Bank(1, Headed(e, 1, 3, a))>> : f \in F1(e), a \in Short({0, 2}, 2)}
Linked(e) == {<<TwoRocs(1, Headed(e, 1, 3, <<0>>) \o Hits(e, 1, 5, a), 2, Headed(e, 2, 3, b))>> :
              a \in {<<0>>, <<1, 0>>}, b \in Short(0..1, 2)}
NotMapped(e) == {<<Bank(1, Hits(e, 1, 9, a))>> : a \in {<<4>>, <<4, 6>>, <<6, 4, 5>>}}
DecodedEvents == OneRoc(1, 2, 1) \cup OneRoc(2, 1, 2) \cup WithF1(1) \cup Linked(2) \cup NotMapped(1)
FirstEvents ==
  {<<Bank(1, Headed(3, 1, 3, a) \o Hits(3, 1, 5, b))>> : a \in Short({0, 2}, 2), b \in {<<>>, <<1>>}}
  \cup {<<Bank(12, f)>> : f \in F1(3)}

\* Wires 1 and 2 and the counters of the hodoscope, with chosen values: a wire is
\* missing, or hit twice; a counter has a good time or none
Wire(c, v) == Data(1, 3, 2 - c, v)
Scin1(adc, time) == <<Data(1, 3, 2, adc), Data(1, 5, 0, time)>>
Scin2(adc, time) == <<Bank(1, <<Data(1, 5, 1, adc)>>), Bank(12, <<Data(12, 3, 2, time)>>)>>
Wired(ws) == <<Bank(1, <<Header(3, 0, 0)>> \o ws)>>
PickedEvents ==
  {Wired(w \o s) : w \in {<<>>, <<Wire(2, 10), Wire(1, 11)>>, <<Wire(1, 12), Wire(1, 13)>>},
                   s \in {<<>>, Scin1(8, 500), Scin1(9, 7)}}
  \cup {Wired(<<Wire(1, 14)>> \o Scin1(6, 500)) \o Scin2(5, 501)}
FullEvent == Wired(<<Wire(2, 20), Wire(1, 21)>> \o Scin1(7, 500)) \o Scin2(9, 501)

-----------------------------------------------------------------------------
Preamble(count, lists, values) ==
  <<Block!Setting("missing_value", -2), Block!Setting("hitcount", count)>>
  \o [i \in DOMAIN lists |-> Block!Setting("matchlist", lists[i])] \o <<Block!Setting("valuelist", values)>>
Wires1(lines) == Preamble("hdc_raw_tot_hits", <<"hdc_raw_plane_num", "hdc_raw_wire_num">>, "hdc_raw_tdc") \o lines
Hodoscope(lines) == Preamble("hscin_tot_hits", <<"hscin_counter_num">>, "hscin_adc_pos") \o lines

X(i) == Block!Element("x", i)
None == Block!NoTest
MCTitles ==
  [b \in Blocks |->
     IF b = "wc"
     THEN {Wires1(<<Block!Gethit(X(0), Block!Element("t", 0), <<2, 2>>), Block!Gethit(X(1), None, <<2, 4>>)>>),
           Wires1(<<Block!Gethit(X(1), Block!Element("t", 0), <<2>>), Block!Gethit(Block!Element("t", 1), Block!Element("u", 0), <<2, 4>>),
                    Block!Gethit(Block!Element("y", 0), Block!Element("z", 0), <<2, Block!BadCoord>>)>>)}
     ELSE {Hodoscope(<<Block!Gethit(X(0), Block!Element("s", 0), <<2>>), Block!Gethit(Block!Element("y", Block!BadIndex), None, <<2>>)>>),
           Hodoscope(<<Block!Gethit(Block!Element("z", 0), Block!Element("t", 1), <<4>>), Block!Gethit(X(2), Block!Element("s", 0), <<2>>)>>)}]

-----------------------------------------------------------------------------
\* Never decoded
Long == <<Bank(99, <<>>)>>
Absent == <<<<Bank(98, <<>>)>>>>
Name(c, plain, segments, n) == [last |-> c, plain |-> plain, segments |-> segments, loads |-> n]
ENDS_IN_X == 120
File(events) == Name(ENDS_IN_X, events, <<>>, 0)

Small(i) == <<Bank(5, <<Plain(i)>>)>>
Single(n) == [i \in 1..n |-> <<Small(i)>>]
Content(i) == {Absent, <<>>, <<Small(10 * i)>>, <<Small(10 * i), Long, Small(10 * i + 1)>>,
               <<Small(10 * i + 2), Small(10 * i + 3)>>}

DecodeRuns == {File(<<e, f>>) : e \in FirstEvents, f \in DecodedEvents}
PickRuns == {[File(<<FullEvent, f>>) EXCEPT !.loads = 3] : f \in PickedEvents}
SegmentRuns ==
  {Name(c, p, <<>>, 0) : c \in {ENDS_IN_X, Segment!ZERO}, p \in {Absent, <<>>, <<Small(1), Small(2)>>, <<Long>>}}
  \cup {Name(ENDS_IN_X, Absent, <<a, b, c>>, 0) : a \in Content(1), b \in Content(2), c \in Content(3)}
  \cup {Name(ENDS_IN_X, Absent, Single(n), 0) : n \in {12, 102}} \cup {Name(Segment!ZERO + 5, Absent, Single(2), 0)}
MCRuns == DecodeRuns \cup PickRuns \cup SegmentRuns

MCEvents == UNION {ToSet(r.plain) \cup UNION {ToSet(f) : f \in ToSet(r.segments)} : r \in MCRuns}
\* AllDecoded can be said of this map and these events, ValuesFollowTitles of these titles
ASSUME MCTrue == TrueMap /\ (\A e \in Events : TrueEvent(e)) /\ G!TrueTitles

MCMaxHits == [d \in Detectors |-> IF d = 1 THEN 3 ELSE 2]
MCSignalCount == [d \in Detectors |-> IF d = 2 THEN 4 ELSE 1]
MCGoodTimes == 400..600
=============================================================================
