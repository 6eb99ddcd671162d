------------------------------ MODULE Decoder ------------------------------
(***************************************************************************)
(* The decoding of a physics event (ENGINE/g_decode_event_by_banks.f).     *)
(* Each ROC gives a bank of words, the words of one module after another.  *)
(* g_decode_fb_bank finds the detector that a word belongs to and calls    *)
(* g_decode_fb_detector with the hit list of that detector, which decodes  *)
(* words until one belongs to another.  Which detector, plane, counter and *)
(* signal a channel of a module is comes from the map file                 *)
(* (g_decode_config).  A word is taken apart into its fields; the contents *)
(* of the map file are the constant MapLines.                              *)
(***************************************************************************)
EXTENDS Integers, Sequences, SequencesExt, FiniteSets, FiniteSetsExt

CONSTANTS
  MapLines,     \* the lines of the map file
  Detectors,    \* the detector numbers g_decode_fb_bank knows, UNINST_ID among them
  UNINST_ID,    \* the list of what is not in the map
  MaxHits, SignalCount, \* of each detector: length of its arrays, and signals of a counter (1, 2 or 4)
  Events,       \* the events that may come: sequences of banks
  Overflow      \* the value by which an F1 TDC says that it overflowed (65535)

ASSUME DecoderAssumption ==
  /\ UNINST_ID \in Detectors
  /\ MaxHits \in [Detectors -> Nat \ {0}]
  /\ SignalCount \in [Detectors -> {1, 2, 4}] /\ SignalCount[UNINST_ID] = 1

MAXSLOTS == 25   \* G_DECODE_MAXSLOTS
MAXROCS == 15    \* G_DECODE_MAXROCS

(* Words.  A word of a module has its slot, the address of the channel, the
   value, bits that are 0 in a header of some Fastbus modules (hi), and a bit
   that tells data of an F1 TDC from its headers (data).  Words whose first
   bits say "slot 0" are lengths, headers of a ROC and padding; those that
   begin with DC are reports of errors.  of is what the word really is: the
   ROC it was read from if it is data, 0 if not. *)
Data(roc, slot, addr, value) ==
  [slot |-> slot, addr |-> addr, low |-> value, hi |-> TRUE, data |-> TRUE, code |-> "none", of |-> roc]
Header(slot, addr, value) ==
  [slot |-> slot, addr |-> addr, low |-> value, hi |-> FALSE, data |-> FALSE, code |-> "none", of |-> 0]
Plain(value) == Header(0, 0, value)
Report(code) == [Header(27, 0, 0) EXCEPT !.code = code]

\* The VME front ends pass on the banks of one or two Fastbus ROCs, each with
\* its length and header
IsFrontEnd(r) == r \in {7, 8, 9}

Word == [slot : Int, addr : Int, low : Int, hi : BOOLEAN, data : BOOLEAN, code : STRING, of : Int]
\* A bank of two has lengths, the first not more than the bank has
ASSUME EventsAssumption ==
  \A e \in Events :
    /\ e \in Seq([roc : Nat, words : Seq(Word)])
    /\ \A b \in DOMAIN e : IsFrontEnd(e[b].roc) => 1 < Len(e[b].words) /\ e[b].words[1].low < Len(e[b].words)

MapLine ==
  [key : {"ROC", "SLOT", "DET", "NSUB", "BSUB", "MODULE"}, v : Int]
  \cup [key : {"CHANNEL"}, subadd : Int, plane : Int, counter : Int, signal : 0..3]
ASSUME MapAssumption == MapLines \in Seq(MapLine)

VARIABLES
  pc,        \* "idle", between "banks", in g_decode_fb_"bank", in g_decode_fb_"detector"
  event, bank,      \* the event, and the number of its bank being decoded
  roc, words, pointer, last, \* g_decode_fb_bank: ROC, words, next word, last_first
  slot,      \* lastslot in the bank, oslot in the detector
  did,       \* the detector whose lists are passed
  hits,      \* the arrays of each detector, never cleared
  hitcount   \* how much of them is in use

bankvars == <<event, bank, roc, words, last, did>>
decodervars == <<pc, bankvars, pointer, slot, hits, hitcount>>

-----------------------------------------------------------------------------
(* The map. *)

\* What a line leaves for the lines after it, and the tables so far
ClearMap == [roc |-> -1, slot |-> -1, det |-> 0, nsub |-> 0, bsub |-> 17, module |-> 0,
             slots |-> [x \in {} |-> 0], channels |-> [x \in {} |-> 0], next |-> 1]

With(f, x, v) == [y \in DOMAIN f \cup {x} |-> IF y = x THEN v ELSE f[y]]

\* The first channel of a slot reserves nsub entries of the tables for it
SlotPointer(m) ==
  IF <<m.roc, m.slot>> \in DOMAIN m.slots THEN m
  ELSE [m EXCEPT !.slots = With(m.slots, <<m.roc, m.slot>>,
                                [pointer |-> m.next, bsub |-> m.bsub, module |-> m.module]),
                 !.next = m.next + m.nsub]

g_decode_config(m, line) ==
  CASE line.key = "ROC" -> [m EXCEPT !.roc = line.v, !.module = 0]
    [] line.key = "SLOT" -> [m EXCEPT !.slot = line.v]
    [] line.key = "DET" -> [m EXCEPT !.det = line.v]
    [] line.key = "NSUB" -> [m EXCEPT !.nsub = line.v]
    [] line.key = "BSUB" -> [m EXCEPT !.bsub = line.v]
    [] line.key = "MODULE" -> [m EXCEPT !.module = line.v]
    [] line.key = "CHANNEL" ->
         LET s == SlotPointer(m)
         IN [s EXCEPT !.channels =
               With(s.channels, s.slots[<<s.roc, s.slot>>].pointer + line.subadd,
                    [did |-> s.det, plane |-> line.plane, counter |-> line.counter, sigtyp |-> line.signal])]

\* The tables after the last line
Map ==
  LET after[n \in 0..Len(MapLines)] == IF n = 0 THEN ClearMap ELSE g_decode_config(after[n - 1], MapLines[n])
  IN after[Len(MapLines)]

InMap(r, w) == <<r, w.slot>> \in DOMAIN Map.slots
IsF1(r, w) == InMap(r, w) /\ Map.slots[<<r, w.slot>>].module = 1

\* The bits of a Fastbus word where the channel is; nobody has set where it is
\* for a slot that is not in the map, and the lowest bits are taken
FastbusSubadd(r, w) == IF InMap(r, w) THEN w.addr ELSE w.low % 128
\* Two addresses of an F1 TDC make a channel, from 1
F1Subadd(w) == w.addr \div 2 + 1

\* (slip) the bank still counts single addresses
SingleSubadd(r, w) == IF IsF1(r, w) THEN w.addr + 1 ELSE FastbusSubadd(r, w)
\* The channel, as g_decode_fb_bank finds it
BankSubadd(r, w) ==
  IF ~IsF1(r, w) THEN FastbusSubadd(r, w)
  ELSE IF w.data THEN F1Subadd(w) ELSE w.addr + 1
\* and as g_decode_fb_detector does, which has left the headers of F1 behind
DetectorSubadd(r, w) == IF IsF1(r, w) THEN F1Subadd(w) ELSE FastbusSubadd(r, w)

\* The entry of the tables, although it may lie beyond those of the slot
Uninstrumented(r, w, subadd) == [did |-> UNINST_ID, plane |-> r * 65536 + w.slot, counter |-> subadd, sigtyp |-> 0]
Entry(r, w, subadd) ==
  IF ~InMap(r, w) THEN Uninstrumented(r, w, subadd)
  ELSE LET i == Map.slots[<<r, w.slot>>].pointer + subadd
       IN IF i \notin DOMAIN Map.channels THEN Uninstrumented(r, w, subadd)
          ELSE IF Map.channels[i].did = UNINST_ID THEN Uninstrumented(r, w, subadd)
          ELSE Map.channels[i]

-----------------------------------------------------------------------------
(* The banks. *)

NoHit == [plane |-> 0, counter |-> 0, signal |-> [s \in 0..3 |-> 0]]

Init ==
  /\ pc = "idle" /\ event = <<>> /\ bank = 0
  /\ roc = 0 /\ words = <<>> /\ pointer = 1 /\ last = 0 /\ slot = -1 /\ did = UNINST_ID
  /\ hits = [d \in Detectors |-> [i \in 1..MaxHits[d] |-> NoHit]]
  /\ hitcount = [d \in Detectors |-> 0]

\* g_clear_event, and the call of g_decode_event_by_banks
NextEvent(e) ==
  /\ pc = "idle"
  /\ event' = e
  /\ hitcount' = [d \in Detectors |-> 0]
  /\ bank' = 0 /\ pc' = "banks"
  /\ UNCHANGED <<roc, words, pointer, last, slot, did, hits>>

\* Scalers (5, 20), the trigger supervisor (21) and ROCs there are none of
NoHits(r) == r \in {5, 20, 21} \/ r > MAXROCS
NextBank ==
  /\ pc = "banks" /\ bank < Len(event)
  /\ bank' = bank + 1
  /\ \E b \in {event[bank + 1]} :
       IF NoHits(b.roc) THEN UNCHANGED <<pc, roc, words, pointer, last, slot>>
       ELSE /\ pc' = "bank" /\ words' = b.words /\ slot' = -1
            /\ IF IsFrontEnd(b.roc)
               THEN roc' = b.words[2].low /\ last' = 1 + b.words[1].low /\ pointer' = 3
               ELSE roc' = b.roc /\ last' = Len(b.words) /\ pointer' = 1
  /\ UNCHANGED <<event, did, hits, hitcount>>

LastBank ==
  /\ pc = "banks" /\ bank = Len(event)
  /\ pc' = "idle"
  /\ UNCHANGED <<bankvars, pointer, slot, hits, hitcount>>

BankEnds ==
  /\ pc = "bank" /\ pointer > Len(words)
  /\ pc' = "banks"
  /\ UNCHANGED <<bankvars, pointer, slot, hits, hitcount>>

GoodSlot(w) == w.slot \in 1..MAXSLOTS

\* A turn of the loop: the second of two banks begins where the first has
\* ended, and the word is passed to the routine of its detector or skipped
BankWord ==
  /\ pc = "bank" /\ pointer <= Len(words)
  /\ IF pointer = last + 1 THEN roc' = words[pointer + 1].low /\ last' = Len(words)
                           ELSE UNCHANGED <<roc, last>>
  /\ \E w \in {words[pointer]} :
       IF GoodSlot(w) /\ roc' \in 1..MAXROCS /\ Entry(roc', w, BankSubadd(roc', w)).did \in Detectors
       THEN did' = Entry(roc', w, BankSubadd(roc', w)).did /\ pc' = "detector" /\ UNCHANGED pointer
       ELSE pointer' = pointer + 1 /\ UNCHANGED <<did, pc>>
  /\ UNCHANGED <<event, bank, words, slot, hits, hitcount>>

-----------------------------------------------------------------------------
(* The hits of a detector. *)

\* (slip) only the planes are compared
PlaneBefore(a, b) == a.plane < b.plane
Before(a, b) == a.plane < b.plane \/ (a.plane = b.plane /\ a.counter < b.counter)
SameCounter(a, b) == a.plane = b.plane /\ a.counter = b.counter

\* The search from the end of the list for a hit that does not come later
Place(d, x) == Max({0} \cup {i \in 1..hitcount[d] : ~Before(x, hits[d][i])})
Found(d, x) == Place(d, x) > 0 /\ SameCounter(hits[d][Place(d, x)], x)

\* (slip) the signals of whatever hit was there before
StaleHit(d, h, x) == [plane |-> x.plane, counter |-> x.counter, signal |-> hits[d][h].signal]
\* A new counter has no signals yet
FreshHit(d, h, x) == [plane |-> x.plane, counter |-> x.counter, signal |-> [s \in 0..3 |-> -1]]

\* Room is made at h
Insert(d, h, hit) ==
  /\ hits' = [hits EXCEPT ![d] = [i \in 1..MaxHits[d] |->
                IF i = h THEN hit ELSE IF i > h /\ i <= hitcount[d] + 1 THEN hits[d][i - 1] ELSE hits[d][i]]]
  /\ hitcount' = [hitcount EXCEPT ![d] = @ + 1]

\* A detector with a single signal has a hit for each word, while there is room
SingleHit(d, x, value) ==
  IF hitcount[d] < MaxHits[d]
  THEN \E h \in {Place(d, x) + 1} : Insert(d, h, [FreshHit(d, h, x) EXCEPT !.signal[0] = value])
  ELSE UNCHANGED <<hits, hitcount>>

\* One with several has a hit for each counter.  When there is no room for a
\* new one, its signal goes to the hit at its place, which is another counter's
\* (and before the array if there is none).
MultipleHit(d, x, value) ==
  LET h == Place(d, x)
  IN IF Found(d, x) THEN hits' = [hits EXCEPT ![d][h].signal[x.sigtyp] = value] /\ UNCHANGED hitcount
     ELSE IF hitcount[d] < MaxHits[d]
     THEN Insert(d, h + 1, [FreshHit(d, h + 1, x) EXCEPT !.signal[x.sigtyp] = value])
     ELSE /\ UNCHANGED hitcount
          /\ IF h = 0 THEN UNCHANGED hits ELSE hits' = [hits EXCEPT ![d][h].signal[x.sigtyp] = value]

StoreHit(d, x, value) ==
  IF SignalCount[d] = 1 THEN SingleHit(d, x, value) ELSE MultipleHit(d, x, value)

\* The reports of errors, the longest of three words, and words of no slot
IsReport(w) == w.code # "none" \/ ~GoodSlot(w)
SkipReport ==
  /\ pc = "detector" /\ pointer <= last
  /\ \E w \in {words[pointer]} :
       IsReport(w) /\ pointer' = pointer + (IF w.code = "DCAA" THEN 3 ELSE 1)
  /\ UNCHANGED <<pc, bankvars, slot, hits, hitcount>>

\* The first word of another slot is the header of a module that has one, if its
\* address is 0 and the bits above are
HeaderLike(r, w) ==
  /\ InMap(r, w) /\ Map.slots[<<r, w.slot>>].bsub = 17 /\ Map.slots[<<r, w.slot>>].module = 0
  /\ w.addr = 0 /\ ~w.hi
IsHeader(w) == w.slot # slot /\ HeaderLike(roc, w)
\* An F1 TDC has headers anywhere, and marks an overflow
IsF1Junk(r, w) == IsF1(r, w) /\ (~w.data \/ w.low = Overflow)

SkipHeader ==
  /\ pc = "detector" /\ pointer <= last
  /\ \E w \in {words[pointer]} :
       ~IsReport(w) /\ (IsHeader(w) \/ IsF1Junk(roc, w)) /\ slot' = w.slot
  /\ pointer' = pointer + 1
  /\ UNCHANGED <<pc, bankvars, hits, hitcount>>

\* A word of this detector is stored, one of another ends the call
DetectorWord ==
  /\ pc = "detector" /\ pointer <= last
  /\ \E w \in {words[pointer]} : \E x \in {Entry(roc, w, DetectorSubadd(roc, w))} :
       /\ ~IsReport(w) /\ ~IsHeader(w) /\ ~IsF1Junk(roc, w)
       /\ slot' = w.slot
       /\ IF x.did = did THEN StoreHit(did, x, w.low) /\ pointer' = pointer + 1 /\ UNCHANGED pc
                         ELSE pc' = "bank" /\ UNCHANGED <<pointer, hits, hitcount>>
  /\ UNCHANGED bankvars

DetectorEnds ==
  /\ pc = "detector" /\ pointer > last
  /\ pc' = "bank"
  /\ UNCHANGED <<bankvars, pointer, slot, hits, hitcount>>

Decode == NextBank \/ LastBank \/ BankEnds \/ BankWord \/ SkipReport \/ SkipHeader \/ DetectorWord \/ DetectorEnds
Next == (\E e \in Events : NextEvent(e)) \/ Decode

Spec == Init /\ [][Next]_decodervars

-----------------------------------------------------------------------------
(* What an event says, by the map file alone. *)

Channels == {i \in DOMAIN MapLines : MapLines[i].key = "CHANNEL"}
Latest(key, i) == MapLines[Max({j \in 1..i : MapLines[j].key = key})].v
IsModule1(i) == \E j \in 1..i : /\ MapLines[j].key = "MODULE" /\ MapLines[j].v = 1
                                /\ \A k \in (j + 1)..i : MapLines[k].key \notin {"ROC", "MODULE"}
Wiring ==
  {[roc |-> Latest("ROC", i), slot |-> Latest("SLOT", i), subadd |-> MapLines[i].subadd,
    f1 |-> IsModule1(i), did |-> Latest("DET", i), plane |-> MapLines[i].plane,
    counter |-> MapLines[i].counter, sigtyp |-> MapLines[i].signal] : i \in Channels}

Subadd(f1, w) == IF f1 THEN w.addr \div 2 + 1 ELSE w.addr
Wires(w) == {x \in Wiring : x.roc = w.of /\ x.slot = w.slot /\ x.subadd = Subadd(x.f1, w)}
Of(w, hit) == \E x \in Wires(w) : SameCounter(x, hit)
OfSignal(w, hit, s) == \E x \in Wires(w) : SameCounter(x, hit) /\ x.sigtyp = s
\* A word with data of the detector
IsMine(d, w) == /\ w.of # 0 /\ w.low # Overflow
                /\ (\E x \in Wires(w) : x.did = d) \/ (d = UNINST_ID /\ Wires(w) = {})

\* The words of an event are known by their bank and their place in it.
WordAt(e, p) == e[p[1]].words[p[2]]
Earlier(p, q) == p[1] < q[1] \/ (p[1] = q[1] /\ p[2] < q[2])
Places(e) == UNION {{b} \X DOMAIN e[b].words : b \in {b \in DOMAIN e : ~NoHits(e[b].roc)}}
Said(e, d) == {p \in Places(e) : IsMine(d, WordAt(e, p))}

\* The last value among those of the words at ps for a signal of a counter, -1 if
\* there is none
LastValue(e, ps, x, s) ==
  LET given == {p \in ps : OfSignal(WordAt(e, p), x, s)}
  IN IF given = {} THEN -1
     ELSE WordAt(e, CHOOSE p \in given : \A q \in given : ~Earlier(p, q)).low

\* No list is longer than its arrays.  Hits are in the order of planes and
\* counters, which the tracking relies on, and a detector with several signals
\* has one hit for each counter, whatever the order and the number of the words
\* (g_decode_fb_detector.f:378-456).
HitListsSorted ==
  \A d \in Detectors :
    /\ hitcount[d] <= MaxHits[d]
    /\ \A i, j \in 1..hitcount[d] :
         i < j => \/ hits[d][i].plane < hits[d][j].plane
                  \/ /\ hits[d][i].plane = hits[d][j].plane
                     /\ \/ hits[d][i].counter < hits[d][j].counter
                        \/ hits[d][i].counter = hits[d][j].counter /\ SignalCount[d] = 1

\* After an event a detector with one signal has a hit for each of its words,
\* with the value of the word, those of a counter in the order of the words; if
\* the words are too many for the arrays, the last of them are left out.
EveryWordStored(d) ==
  \E word \in [1..hitcount[d] -> Said(event, d)] :
    /\ \A i \in 1..hitcount[d] :
         /\ hits[d][i].signal[0] = WordAt(event, word[i]).low
         /\ d # UNINST_ID => Of(WordAt(event, word[i]), hits[d][i])
         /\ \A j \in 1..hitcount[d] :
              /\ i # j => word[i] # word[j]
              /\ i < j /\ SameCounter(hits[d][i], hits[d][j]) => Earlier(word[i], word[j])
    /\ \A p \in Said(event, d) \ {word[i] : i \in 1..hitcount[d]} :
         hitcount[d] = MaxHits[d] /\ \A i \in 1..hitcount[d] : Earlier(word[i], p)

\* One with several has a hit for each counter that gave a word, and for no
\* other, with the last value of each signal, and -1 for the signals it gave none of.
EverySignalStored(d) ==
  /\ \A p \in Said(event, d) : \E i \in 1..hitcount[d] : Of(WordAt(event, p), hits[d][i])
  /\ \A i \in 1..hitcount[d] :
       /\ \E p \in Said(event, d) : Of(WordAt(event, p), hits[d][i])
       /\ \A s \in 0..3 : hits[d][i].signal[s] = LastValue(event, Said(event, d), hits[d][i], s)

\* After an event every list holds what the words of the event say by the map
\* file: a header or a report of errors is never a hit, a word of another ROC,
\* slot or event never gets into a list, although slots share detectors and
\* detectors slots (g_decode_fb_bank.f:358-752).
AllDecoded ==
  pc = "idle" => \A d \in Detectors :
    IF SignalCount[d] = 1 THEN EveryWordStored(d) ELSE EverySignalStored(d)

-----------------------------------------------------------------------------
(* The maps and events that AllDecoded can be said of, in terms of the lines of
   the map and of the banks.  Others make it false. *)

Counters(d) == {<<x.plane, x.counter>> : x \in {x \in Wiring : x.did = d}}
RocSlot(i) == <<Latest("ROC", i), Latest("SLOT", i)>>
\* A channel comes after its ROC, slot, detector and number of entries (NSUB).
\* A slot has one module and one NSUB, its channels are different and do not go
\* beyond.  A detector with several signals has room for its counters.
TrueMap ==
  /\ \A i \in Channels :
       /\ \A key \in {"ROC", "SLOT", "DET", "NSUB"} : \E j \in 1..i : MapLines[j].key = key
       /\ Latest("DET", i) \in Detectors /\ MapLines[i].subadd \in 0..(Latest("NSUB", i) - 1)
       /\ \A j \in Channels : RocSlot(i) = RocSlot(j) =>
            /\ Latest("NSUB", i) = Latest("NSUB", j) /\ IsModule1(i) = IsModule1(j)
            /\ i # j => MapLines[i].subadd # MapLines[j].subadd
  /\ \A d \in Detectors : SignalCount[d] # 1 => Cardinality(Counters(d)) <= MaxHits[d]

\* A bank of two ROCs begins with a length and a ROC, and so does its second part.
Start(b) == IF IsFrontEnd(b.roc) THEN 3 ELSE 1
Switch(b) == IF IsFrontEnd(b.roc) THEN 1 + b.words[1].low ELSE Len(b.words)
RocOf(b, i) == IF ~IsFrontEnd(b.roc) THEN b.roc
               ELSE IF i <= Switch(b) THEN b.words[2].low ELSE b.words[Switch(b) + 2].low

\* A word with data has the ROC of its part, is within the table of its slot and
\* does not look like something else.
TrueData(r, w) ==
  /\ w.of = r /\ r \in 1..MAXROCS /\ ~IsReport(w) /\ ~HeaderLike(r, w)
  /\ IsF1(r, w) => w.data
  /\ w.low = Overflow => IsF1(r, w)
  /\ \A i \in Channels : RocSlot(i) = <<r, w.slot>> => Subadd(IsModule1(i), w) \in 0..(Latest("NSUB", i) - 1)

\* Any other word is seen to be none.  A report of three words does not lie across
\* the end of a part, and between two words of a slot of which the second is a
\* header there are data of another slot.
TrueOther(b, i) ==
  LET w == b.words[i]
      r == RocOf(b, i)
  IN /\ \/ IsReport(w)
        \/ IsF1Junk(r, w)
        \/ HeaderLike(r, w) /\ \A j \in 1..(i - 1) : b.words[j].slot = w.slot =>
                                 \E k \in (j + 1)..(i - 1) : b.words[k].of # 0 /\ b.words[k].slot # w.slot
     /\ w.code = "DCAA" => /\ i + 2 <= (IF i <= Switch(b) THEN Switch(b) ELSE Len(b.words))
                           /\ b.words[i + 1].of = 0 /\ b.words[i + 2].of = 0

TrueBank(b) ==
  /\ Start(b) <= Switch(b) + 1 /\ Switch(b) + 1 # Len(b.words)
  /\ \A i \in DOMAIN b.words :
       IF b.words[i].of # 0 THEN Start(b) <= i /\ TrueData(RocOf(b, i), b.words[i])
                            ELSE Start(b) <= i => TrueOther(b, i)
TrueEvent(e) == \A b \in DOMAIN e : NoHits(e[b].roc) \/ TrueBank(e[b])

-----------------------------------------------------------------------------
\* The two routines agree about the detector of every word, so that each call
\* gets on and the event is decoded to its end (g_decode_fb_bank.f:359).
DecodeEnds == (pc = "banks") ~> (pc = "idle")
=============================================================================
