------------------------- MODULE EventPathProofs --------------------------
(***************************************************************************)
(* Proofs about the way of an event: Decoder has the types it should and   *)
(* its hit lists are sorted and no longer than their arrays, for every     *)
(* map, detector and event; the tables are what the lines of the map file  *)
(* say, and by them every word is decoded, once, to its own counter;       *)
(* Segments gives the engine the events of all segments in their order;    *)
(* the whole path decodes as Decoder does; and after each event the        *)
(* variables of the gethit blocks hold what their titles ask for.          *)
(***************************************************************************)
EXTENDS EventPath, FiniteSetTheorems, SequenceTheorems, WellFoundedInduction, TLAPS

Hit == [plane : Int, counter : Int, signal : [0..3 -> Int]]

WalkInv ==
  /\ pc \in {"idle", "banks", "bank", "detector"}
  /\ event \in Events \cup {<<>>} /\ bank \in 0..Len(event)
  /\ words \in Seq(Word) /\ last \in Int /\ last <= Len(words)
  /\ pointer \in Nat \ {0}
  /\ did \in Detectors
  /\ pc = "detector" => roc \in 1..MAXROCS

ListsInv ==
  /\ hits = [d \in Detectors |-> hits[d]]
  /\ \A d \in Detectors : hits[d] \in [1..MaxHits[d] -> Hit]
  /\ hitcount \in [Detectors -> Nat]

TypeInv == WalkInv /\ ListsInv

\* x may come before y in the list of d
InOrder(d, x, y) == Before(x, y) \/ (SameCounter(x, y) /\ SignalCount[d] = 1)

SortedUpTo(d, list, n) ==
  /\ n <= MaxHits[d]
  /\ \A i, j \in 1..n : i < j => InOrder(d, list[i], list[j])

SortedInv == \A d \in Detectors : SortedUpTo(d, hits[d], hitcount[d])

IInv == TypeInv /\ SortedInv

-----------------------------------------------------------------------------
(* Numbers. *)

\* < on the naturals, in the form that the theorem about minimal elements takes
LEMMA NaturalsWellFounded == IsWellFoundedOn({p \in Nat \X Nat : p[1] < p[2]}, Nat)
<1>1. OpToRel(<, Nat) = {p \in Nat \X Nat : p[1] < p[2]}
  BY DEF OpToRel
<1> QED
  BY <1>1, NatLessThanWellFounded

\* A set of naturals has a least one.
LEMMA LeastOf ==
  ASSUME NEW Z \in SUBSET Nat, Z # {}
  PROVE  \E m \in Z : \A n \in Z : m <= n
<1> DEFINE R == {p \in Nat \X Nat : p[1] < p[2]}
<1> HIDE DEF R
<1>1. IsWellFoundedOn(R, Nat)
  BY NaturalsWellFounded DEF R
<1>2. PICK m \in Z : \A n \in Z : ~(<<n, m>> \in R)
  BY <1>1, WFMin
<1>3. \A n \in Z : ~(n < m)
  BY <1>2 DEF R
<1> QED
  BY <1>3

\* What holds of 0, and of i + 1 when it holds of i, holds up to n.
LEMMA UpTo ==
  ASSUME NEW n \in Nat, NEW Z, 0 \in Z, \A i \in 0 .. n - 1 : i \in Z => i + 1 \in Z
  PROVE  \A i \in 0 .. n : i \in Z
<1> DEFINE T == {i \in 0 .. n : i \notin Z}
<1> SUFFICES ASSUME T # {} PROVE FALSE
  OBVIOUS
<1>1. T \in SUBSET Nat
  OBVIOUS
<1>2. PICK t \in T : \A u \in T : t <= u
  <2> HIDE DEF T
  <2> QED
    BY <1>1, LeastOf
<1>3. t \in 0 .. n /\ t # 0 /\ t \notin Z
  BY <1>2
<1>4. t - 1 \in 0 .. n - 1 /\ t - 1 \notin T
  <2>1. t - 1 \in 0 .. n - 1 /\ ~(t <= t - 1)
    BY <1>3
  <2> QED
    BY <1>2, <2>1
<1>5. t - 1 \in Z
  BY <1>4
<1>6. (t - 1) + 1 \in Z
  BY <1>4, <1>5
<1> QED
  BY <1>3, <1>6

\* A set of numbers up to n that is not empty has a largest one.
LEMMA MaxOfBounded ==
  ASSUME NEW n \in Nat, NEW Z, Z \subseteq 0..n, Z # {}
  PROVE  Max(Z) \in Z /\ \A y \in Z : y <= Max(Z)
<1> DEFINE T == {n - x : x \in Z}
           R == {p \in Nat \X Nat : p[1] < p[2]}
<1>1. T \subseteq Nat /\ T # {}
  <2>1. \A x \in Z : n - x \in Nat
    OBVIOUS
  <2>2. PICK x \in Z : TRUE
    OBVIOUS
  <2>3. n - x \in T
    OBVIOUS
  <2> QED
    BY <2>1, <2>3
<1>2. IsWellFoundedOn(R, Nat)
  BY NaturalsWellFounded
<1> HIDE DEF R
<1>3. PICK t \in T : \A u \in T : ~(<<u, t>> \in R)
  BY <1>1, <1>2, WFMin
<1> USE DEF R
<1>4. PICK x \in Z : t = n - x
  OBVIOUS
<1>5. \A y \in Z : x >= y
  <2> SUFFICES ASSUME NEW y \in Z PROVE x >= y
    OBVIOUS
  <2>1. n - y \in T /\ n - y \in Nat /\ t \in Nat
    BY <1>1
  <2>2. ~(n - y < t)
    <3>1. ~(<<n - y, t>> \in R)
      BY <2>1, <1>3
    <3> QED
      BY <3>1, <2>1
  <2> QED
    BY <2>2, <1>4
<1>6. Max(Z) \in Z /\ \A y \in Z : Max(Z) >= y
  BY <1>5 DEF Max
<1> QED
  BY <1>6

-----------------------------------------------------------------------------
(* The search for the place of a hit. *)

\* The hits after the place come later, the one at the place does not.
LEMMA PlaceDivides ==
  ASSUME ListsInv, NEW d \in Detectors, NEW x
  PROVE  /\ Place(d, x) \in 0..hitcount[d]
         /\ Place(d, x) > 0 => ~Before(x, hits[d][Place(d, x)])
         /\ \A i \in 1..hitcount[d] : i > Place(d, x) => Before(x, hits[d][i])
<1> DEFINE Z == {0} \cup {i \in 1..hitcount[d] : ~Before(x, hits[d][i])}
<1>1. hitcount[d] \in Nat
  BY DEF ListsInv
<1>2. Z \subseteq 0..hitcount[d] /\ Z # {}
  BY <1>1
<1>3. Max(Z) \in Z /\ \A y \in Z : y <= Max(Z)
  BY <1>1, <1>2, MaxOfBounded
<1>4. Place(d, x) = Max(Z)
  BY DEF Place
<1> HIDE DEF Z
<1>5. Place(d, x) \in Z /\ \A y \in Z : y <= Place(d, x)
  BY <1>3, <1>4
<1> USE DEF Z
<1> QED
  BY <1>5, <1>1

\* Hits are ordered by plane and counter.
LEMMA OrderIsLinear ==
  ASSUME NEW x, NEW y, NEW z,
         x.plane \in Int, x.counter \in Int, y.plane \in Int, y.counter \in Int,
         z.plane \in Int, z.counter \in Int, NEW d
  PROVE  /\ Before(x, y) \/ SameCounter(x, y) \/ Before(y, x)
         /\ Before(x, y) /\ Before(y, z) => Before(x, z)
         /\ Before(x, y) /\ SameCounter(y, z) => Before(x, z)
         /\ InOrder(d, x, y) /\ Before(y, z) => Before(x, z)
         /\ InOrder(d, x, y) /\ SameCounter(y, z) => InOrder(d, x, z)
BY DEF Before, SameCounter, InOrder

\* No hit up to the place of x comes after x; if there is none of the counter of
\* x, they all come before.
LEMMA BeforePlace ==
  ASSUME ListsInv, SortedInv, NEW d \in Detectors, NEW x, x.plane \in Int, x.counter \in Int,
         NEW i \in 1..Place(d, x)
  PROVE  /\ SignalCount[d] = 1 => InOrder(d, hits[d][i], x)
         /\ ~Found(d, x) => Before(hits[d][i], x)
<1> DEFINE p == Place(d, x)
<1>1. p \in 0..hitcount[d] /\ p > 0 /\ hitcount[d] \in Nat
  BY PlaceDivides DEF ListsInv
<1>2. ~Before(x, hits[d][p])
  BY <1>1, PlaceDivides
<1>3. hitcount[d] <= MaxHits[d] /\ MaxHits[d] \in Nat
  BY DecoderAssumption DEF SortedInv, SortedUpTo
<1>4. hits[d][i] \in Hit /\ hits[d][p] \in Hit
  BY <1>1, <1>3 DEF ListsInv
<1>5. Found(d, x) <=> SameCounter(hits[d][p], x)
  BY <1>1 DEF Found
<1> HIDE DEF p
<1>6. Before(hits[d][p], x) \/ SameCounter(hits[d][p], x)
  BY <1>2, <1>4 DEF Before, SameCounter, Hit
<1>7. CASE i = p
  BY <1>5, <1>6, <1>7 DEF InOrder
<1>8. CASE i < p
  <2>1. InOrder(d, hits[d][i], hits[d][p])
    BY <1>1, <1>8 DEF SortedInv, SortedUpTo
  <2> QED
    BY <2>1, <1>4, <1>5, <1>6 DEF InOrder, Before, SameCounter, Hit
<1> QED
  BY <1>7, <1>8, <1>1 DEF p

-----------------------------------------------------------------------------
(* The two ways in which a list changes. *)

\* A hit that is inserted where it belongs
LEMMA InsertKeeps ==
  ASSUME ListsInv, SortedInv, NEW d \in Detectors, NEW hit \in Hit, hitcount[d] < MaxHits[d],
         NEW h \in 1..(hitcount[d] + 1), Insert(d, h, hit),
         \A i \in 1..(h - 1) : InOrder(d, hits[d][i], hit),
         \A i \in h..hitcount[d] : InOrder(d, hit, hits[d][i])
  PROVE  ListsInv' /\ SortedInv'
<1> DEFINE n == hitcount[d]
           list == [i \in 1..MaxHits[d] |->
                      IF i = h THEN hit ELSE IF i > h /\ i <= n + 1 THEN hits[d][i - 1] ELSE hits[d][i]]
<1>1. n \in Nat /\ MaxHits[d] \in Nat /\ n < MaxHits[d]
  BY DecoderAssumption DEF ListsInv
<1>2. hits' = [hits EXCEPT ![d] = list] /\ hitcount' = [hitcount EXCEPT ![d] = n + 1]
  BY DEF Insert
<1>3. list \in [1..MaxHits[d] -> Hit]
  <2>1. hits[d] \in [1..MaxHits[d] -> Hit]
    BY DEF ListsInv
  <2>2. ASSUME NEW i \in 1..MaxHits[d] PROVE list[i] \in Hit
    <3>1. CASE i > h /\ i <= n + 1
      <4>1. i - 1 \in 1..MaxHits[d]
        BY <3>1, <1>1
      <4> QED
        BY <4>1, <3>1, <2>1, <1>1
    <3>2. CASE ~(i > h /\ i <= n + 1)
      BY <3>2, <2>1
    <3> QED
      BY <3>1, <3>2
  <2> QED
    BY <2>2
<1>4. SortedUpTo(d, list, n + 1)
  <2>1. n + 1 <= MaxHits[d]
    BY <1>1
  <2>2. ASSUME NEW i \in 1..(n + 1), NEW j \in 1..(n + 1), i < j
        PROVE  InOrder(d, list[i], list[j])
    <3>0. i \in 1..MaxHits[d] /\ j \in 1..MaxHits[d]
      BY <1>1
    <3>1. CASE i = h
      <4>1. list[i] = hit /\ list[j] = hits[d][j - 1] /\ j - 1 \in h..n
        BY <3>0, <3>1, <2>2, <1>1
      <4> QED
        BY <4>1
    <3>2. CASE j = h
      <4>1. list[j] = hit /\ list[i] = hits[d][i] /\ i \in 1..(h - 1)
        BY <3>0, <3>2, <2>2, <1>1
      <4> QED
        BY <4>1
    <3>3. CASE i # h /\ j # h
      <4> DEFINE old(k) == IF k > h THEN k - 1 ELSE k
      <4>1. list[i] = hits[d][old(i)] /\ list[j] = hits[d][old(j)]
        BY <3>0, <3>3, <1>1
      <4>2. old(i) \in 1..n /\ old(j) \in 1..n /\ old(i) < old(j)
        BY <3>3, <2>2, <1>1
      <4>3. InOrder(d, hits[d][old(i)], hits[d][old(j)])
        BY <4>2 DEF SortedInv, SortedUpTo
      <4> QED
        BY <4>1, <4>3
    <3> QED
      BY <3>1, <3>2, <3>3
  <2> QED
    BY <2>1, <2>2 DEF SortedUpTo
<1> HIDE DEF list
<1>5. \A e \in Detectors : /\ hits'[e] = IF e = d THEN list ELSE hits[e]
                           /\ hitcount'[e] = IF e = d THEN n + 1 ELSE hitcount[e]
  <2> SUFFICES ASSUME NEW e \in Detectors
               PROVE  /\ hits'[e] = IF e = d THEN list ELSE hits[e]
                      /\ hitcount'[e] = IF e = d THEN n + 1 ELSE hitcount[e]
    OBVIOUS
  <2>1. DOMAIN hits = Detectors /\ DOMAIN hitcount = Detectors
    BY DEF ListsInv
  <2> HIDE DEF n
  <2>2. hits'[e] = IF e = d THEN list ELSE hits[e]
    BY <1>2, <2>1
  <2>3. hitcount'[e] = IF e = d THEN n + 1 ELSE hitcount[e]
    BY <1>2, <2>1
  <2> QED
    BY <2>2, <2>3
<1>6. ListsInv'
  <2>1. hits' = [e \in Detectors |-> hits'[e]] /\ hitcount' \in [Detectors -> Nat]
    BY <1>1, <1>2 DEF ListsInv
  <2>2. ASSUME NEW e \in Detectors PROVE hits'[e] \in [1..MaxHits[e] -> Hit]
    <3>1. hits[e] \in [1..MaxHits[e] -> Hit]
      BY DEF ListsInv
    <3>2. CASE e = d
      BY <3>2, <1>3, <1>5
    <3>3. CASE e # d
      BY <3>1, <3>3, <1>5
    <3> QED
      BY <3>2, <3>3
  <2> QED
    BY <2>1, <2>2 DEF ListsInv
<1>7. SortedInv'
  <2> SUFFICES ASSUME NEW e \in Detectors PROVE SortedUpTo(e, hits'[e], hitcount'[e])
    BY DEF SortedInv, SortedUpTo, InOrder, Before, SameCounter
  <2>1. CASE e = d
    <3>1. hits'[e] = list /\ hitcount'[e] = n + 1
      BY <2>1, <1>5
    <3> QED
      BY <2>1, <3>1, <1>4
  <2>2. CASE e # d
    <3>1. hits'[e] = hits[e] /\ hitcount'[e] = hitcount[e]
      BY <2>2, <1>5
    <3>2. SortedUpTo(e, hits[e], hitcount[e])
      BY DEF SortedInv
    <3> QED
      BY <3>1, <3>2
  <2> QED
    BY <2>1, <2>2
<1> QED
  BY <1>6, <1>7

\* A signal that is stored with a hit
LEMMA SignalKeeps ==
  ASSUME ListsInv, SortedInv, NEW d \in Detectors, NEW h \in 1..MaxHits[d], NEW s, NEW value \in Int,
         hits' = [hits EXCEPT ![d][h].signal[s] = value], UNCHANGED hitcount
  PROVE  ListsInv' /\ SortedInv'
<1> DEFINE new == [hits[d][h] EXCEPT !.signal[s] = value]
<1>1. hits[d] \in [1..MaxHits[d] -> Hit] /\ hits[d][h] \in Hit
  BY DEF ListsInv
<1>2. new \in Hit /\ new.plane = hits[d][h].plane /\ new.counter = hits[d][h].counter
  BY <1>1 DEF Hit
<1>3. hits' = [hits EXCEPT ![d] = [hits[d] EXCEPT ![h] = new]]
  OBVIOUS
<1> HIDE DEF new
<1>4. \A e \in Detectors : hits'[e] = IF e = d THEN [hits[d] EXCEPT ![h] = new] ELSE hits[e]
  BY <1>3 DEF ListsInv
<1>5. ListsInv'
  <2>1. hits' = [e \in Detectors |-> hits'[e]]
    BY <1>3 DEF ListsInv
  <2>2. \A e \in Detectors : hits'[e] \in [1..MaxHits[e] -> Hit]
    BY <1>1, <1>2, <1>4 DEF ListsInv
  <2> QED
    BY <2>1, <2>2 DEF ListsInv
<1>6. SortedInv'
  <2> SUFFICES ASSUME NEW e \in Detectors PROVE SortedUpTo(e, hits'[e], hitcount[e])
    BY DEF SortedInv, SortedUpTo, InOrder, Before, SameCounter
  <2>1. hitcount[e] <= MaxHits[e] /\ hitcount[e] \in Nat /\ MaxHits[e] \in Nat
    BY DecoderAssumption DEF SortedInv, SortedUpTo, ListsInv
  <2>2. ASSUME NEW i \in 1..hitcount[e]
        PROVE  hits'[e][i].plane = hits[e][i].plane /\ hits'[e][i].counter = hits[e][i].counter
    BY <2>1, <1>1, <1>2, <1>4
  <2>3. \A i, j \in 1..hitcount[e] : i < j => InOrder(e, hits[e][i], hits[e][j])
    BY DEF SortedInv, SortedUpTo
  <2> QED
    BY <2>1, <2>2, <2>3 DEF SortedUpTo, InOrder, Before, SameCounter
<1> QED
  BY <1>5, <1>6

-----------------------------------------------------------------------------
(* The tables of the map. *)

\* h has the tables up to the m-th line.
MapSteps(h, m) == h = [i \in 0 .. m |-> IF i = 0 THEN ClearMap ELSE g_decode_config(h[i - 1], MapLines[i])]

LEMMA MapStepsNext ==
  ASSUME NEW m \in Nat, \E h : MapSteps(h, m)
  PROVE  \E h : MapSteps(h, m + 1)
<1>1. PICK g : MapSteps(g, m)
  OBVIOUS
<1> DEFINE h == [i \in 0 .. m + 1 |-> IF i = m + 1 THEN g_decode_config(g[m], MapLines[m + 1]) ELSE g[i]]
<1>2. \A i \in 0 .. m + 1 : h[i] = IF i = 0 THEN ClearMap ELSE g_decode_config(h[i - 1], MapLines[i])
  <2> SUFFICES ASSUME NEW i \in 0 .. m + 1
               PROVE  h[i] = IF i = 0 THEN ClearMap ELSE g_decode_config(h[i - 1], MapLines[i])
    OBVIOUS
  <2>1. CASE i = m + 1
    <3>1. h[i] = g_decode_config(g[m], MapLines[m + 1]) /\ h[m] = g[m] /\ i - 1 = m /\ i # 0
      BY <2>1
    <3> QED
      BY <2>1, <3>1
  <2>2. CASE i # m + 1
    <3>1. i \in 0 .. m /\ h[i] = g[i]
      BY <2>2
    <3>2. g[i] = IF i = 0 THEN ClearMap ELSE g_decode_config(g[i - 1], MapLines[i])
      BY <1>1, <3>1 DEF MapSteps
    <3>3. i # 0 => h[i - 1] = g[i - 1]
      BY <3>1
    <3> QED
      BY <3>1, <3>2, <3>3
  <2> QED
    BY <2>1, <2>2
<1>3. MapSteps(h, m + 1)
  BY <1>2 DEF MapSteps
<1> HIDE DEF h
<1> QED
  BY <1>3

LEMMA MapIs ==
  /\ Len(MapLines) \in Nat
  /\ \E h : MapSteps(h, Len(MapLines)) /\ Map = h[Len(MapLines)]
<1> DEFINE n == Len(MapLines)
           Z == {m \in 0 .. n : \E h : MapSteps(h, m)}
<1>0. n \in Nat
  BY MapAssumption
<1>1. 0 \in Z
  <2>1. MapSteps([i \in 0 .. 0 |-> ClearMap], 0)
    BY DEF MapSteps
  <2>2. 0 \in 0 .. n /\ \E h : MapSteps(h, 0)
    BY <1>0, <2>1
  <2> QED
    BY <2>2
<1>2. \A m \in 0 .. n - 1 : m \in Z => m + 1 \in Z
  <2> SUFFICES ASSUME NEW m \in 0 .. n - 1, m \in Z PROVE m + 1 \in Z
    OBVIOUS
  <2>1. \E h : MapSteps(h, m + 1)
    BY <1>0, MapStepsNext
  <2> QED
    BY <1>0, <2>1
<1>3. n \in Z
  <2>1. \A i \in 0 .. n : i \in Z
    <3> HIDE DEF Z
    <3> QED
      BY <1>0, <1>1, <1>2, UpTo
  <2> QED
    BY <1>0, <2>1
<1>4. \E h : MapSteps(h, n)
  BY <1>3
<1>5. MapSteps(CHOOSE h : MapSteps(h, n), n)
  BY <1>4
<1>6. Map = (CHOOSE h : MapSteps(h, n))[n]
  BY DEF Map, MapSteps
<1> QED
  BY <1>0, <1>5, <1>6

\* The record of the map has its fields,
Shaped(m) ==
  m = [roc |-> m.roc, slot |-> m.slot, det |-> m.det, nsub |-> m.nsub, bsub |-> m.bsub,
       module |-> m.module, slots |-> m.slots, channels |-> m.channels, next |-> m.next]
\* and its channels have numbers.
MapType(m) == /\ Shaped(m)
              /\ \A i \in DOMAIN m.channels : m.channels[i].plane \in Int /\ m.channels[i].counter \in Int

\* A slot of which no channel has come yet gets the next entries.
LEMMA SlotPointerIs ==
  ASSUME NEW m, Shaped(m), NEW t, t = SlotPointer(m)
  PROVE  /\ Shaped(t) /\ t.roc = m.roc /\ t.slot = m.slot /\ t.det = m.det /\ t.nsub = m.nsub /\ t.bsub = m.bsub
         /\ t.module = m.module /\ t.channels = m.channels
         /\ <<m.roc, m.slot>> \in DOMAIN m.slots => t = m
         /\ <<m.roc, m.slot>> \notin DOMAIN m.slots =>
              /\ t.next = m.next + m.nsub
              /\ t.slots = With(m.slots, <<m.roc, m.slot>>,
                                [pointer |-> m.next, bsub |-> m.bsub, module |-> m.module])
<1>1. CASE <<m.roc, m.slot>> \in DOMAIN m.slots
  BY <1>1 DEF SlotPointer
<1>2. CASE <<m.roc, m.slot>> \notin DOMAIN m.slots
  <2> DEFINE slots == With(m.slots, <<m.roc, m.slot>>, [pointer |-> m.next, bsub |-> m.bsub, module |-> m.module])
             next == m.next + m.nsub
  <2>1. t = [m EXCEPT !.slots = slots, !.next = next]
    BY <1>2 DEF SlotPointer
  <2> HIDE DEF slots, next
  <2>2. t = [roc |-> m.roc, slot |-> m.slot, det |-> m.det, nsub |-> m.nsub, bsub |-> m.bsub,
             module |-> m.module, slots |-> slots, channels |-> m.channels, next |-> next]
    BY <2>1 DEF Shaped
  <2>3. t.slots = slots /\ t.next = next
    BY <2>2
  <2>4. /\ Shaped(t) /\ t.roc = m.roc /\ t.slot = m.slot /\ t.det = m.det /\ t.nsub = m.nsub /\ t.bsub = m.bsub
        /\ t.module = m.module /\ t.channels = m.channels
    BY <2>2 DEF Shaped
  <2> QED
    BY <1>2, <2>3, <2>4 DEF slots, next
<1> QED
  BY <1>1, <1>2

\* What a line does to the record
ChannelOf(m, line) == [did |-> m.det, plane |-> line.plane, counter |-> line.counter, sigtyp |-> line.signal]
ChannelAt(m, line) == SlotPointer(m).slots[<<m.roc, m.slot>>].pointer + line.subadd

LEMMA ConfigIs ==
  ASSUME NEW m, Shaped(m), NEW line \in MapLine, NEW t, t = g_decode_config(m, line)
  PROVE  /\ Shaped(t)
         /\ t.roc = IF line.key = "ROC" THEN line.v ELSE m.roc
         /\ t.slot = IF line.key = "SLOT" THEN line.v ELSE m.slot
         /\ t.det = IF line.key = "DET" THEN line.v ELSE m.det
         /\ t.nsub = IF line.key = "NSUB" THEN line.v ELSE m.nsub
         /\ t.module = IF line.key = "ROC" THEN 0 ELSE IF line.key = "MODULE" THEN line.v ELSE m.module
         /\ t.slots = IF line.key = "CHANNEL" THEN SlotPointer(m).slots ELSE m.slots
         /\ t.next = IF line.key = "CHANNEL" THEN SlotPointer(m).next ELSE m.next
         /\ t.channels = IF line.key = "CHANNEL" THEN With(m.channels, ChannelAt(m, line), ChannelOf(m, line))
                                                 ELSE m.channels
<1>0. line.key \in {"ROC", "SLOT", "DET", "NSUB", "BSUB", "MODULE", "CHANNEL"}
  BY DEF MapLine
<1>1. CASE line.key = "CHANNEL"
  <2>1. PICK s : s = SlotPointer(m)
    OBVIOUS
  <2>2. /\ Shaped(s) /\ s.roc = m.roc /\ s.slot = m.slot /\ s.det = m.det /\ s.nsub = m.nsub /\ s.bsub = m.bsub
        /\ s.module = m.module /\ s.channels = m.channels
    BY <2>1, SlotPointerIs
  <2> DEFINE channels == With(s.channels, s.slots[<<s.roc, s.slot>>].pointer + line.subadd,
                              [did |-> s.det, plane |-> line.plane, counter |-> line.counter, sigtyp |-> line.signal])
  <2>3. t = [s EXCEPT !.channels = channels]
    BY <1>1, <2>1 DEF g_decode_config
  <2>4. channels = With(m.channels, ChannelAt(m, line), ChannelOf(m, line))
    BY <2>1, <2>2 DEF ChannelAt, ChannelOf
  <2> HIDE DEF channels
  <2>5. t = [roc |-> s.roc, slot |-> s.slot, det |-> s.det, nsub |-> s.nsub, bsub |-> s.bsub,
             module |-> s.module, slots |-> s.slots, channels |-> channels, next |-> s.next]
    BY <2>2, <2>3 DEF Shaped
  <2>6. Shaped(t)
    BY <2>5 DEF Shaped
  <2>7. /\ t.roc = m.roc /\ t.slot = m.slot /\ t.det = m.det /\ t.nsub = m.nsub /\ t.module = m.module
        /\ t.slots = s.slots /\ t.next = s.next /\ t.channels = channels
    BY <2>2, <2>5
  <2> QED
    BY <1>1, <2>1, <2>4, <2>6, <2>7
<1>2. CASE line.key = "ROC"
  <2>1. t = [m EXCEPT !.roc = line.v, !.module = 0]
    BY <1>2 DEF g_decode_config
  <2> QED
    BY <1>2, <2>1 DEF Shaped
<1>3. CASE line.key = "SLOT"
  <2>1. t = [m EXCEPT !.slot = line.v]
    BY <1>3 DEF g_decode_config
  <2> QED
    BY <1>3, <2>1 DEF Shaped
<1>4. CASE line.key = "DET"
  <2>1. t = [m EXCEPT !.det = line.v]
    BY <1>4 DEF g_decode_config
  <2> QED
    BY <1>4, <2>1 DEF Shaped
<1>5. CASE line.key = "NSUB"
  <2>1. t = [m EXCEPT !.nsub = line.v]
    BY <1>5 DEF g_decode_config
  <2> QED
    BY <1>5, <2>1 DEF Shaped
<1>6. CASE line.key = "BSUB"
  <2>1. t = [m EXCEPT !.bsub = line.v]
    BY <1>6 DEF g_decode_config
  <2> QED
    BY <1>6, <2>1 DEF Shaped
<1>7. CASE line.key = "MODULE"
  <2>1. t = [m EXCEPT !.module = line.v]
    BY <1>7 DEF g_decode_config
  <2> QED
    BY <1>7, <2>1 DEF Shaped
<1> QED
  BY <1>0, <1>1, <1>2, <1>3, <1>4, <1>5, <1>6, <1>7

LEMMA ClearMapIs ==
  /\ Shaped(ClearMap) /\ ClearMap.roc = -1 /\ ClearMap.slot = -1 /\ ClearMap.module = 0 /\ ClearMap.next = 1
  /\ DOMAIN ClearMap.slots = {} /\ DOMAIN ClearMap.channels = {}
BY DEF ClearMap, Shaped

\* Every line is a line of the map.
LEMMA LinesAre == ASSUME NEW i \in 1 .. Len(MapLines) PROVE MapLines[i] \in MapLine
BY MapAssumption

LEMMA MapTyped == MapType(Map)
<1>1. PICK h : MapSteps(h, Len(MapLines)) /\ Map = h[Len(MapLines)]
  BY MapIs
<1> DEFINE n == Len(MapLines)
           Z == {i \in 0 .. n : MapType(h[i])}
<1>2. n \in Nat
  BY MapIs
<1>3. h[0] = ClearMap /\ \A i \in 1 .. n : h[i] = g_decode_config(h[i - 1], MapLines[i])
  BY <1>1, <1>2 DEF MapSteps
<1>4. 0 \in Z
  BY <1>2, <1>3, ClearMapIs DEF MapType
<1>5. \A i \in 0 .. n - 1 : i \in Z => i + 1 \in Z
  <2> SUFFICES ASSUME NEW i \in 0 .. n - 1, i \in Z PROVE i + 1 \in Z
    OBVIOUS
  <2>1. i + 1 \in 1 .. n /\ (i + 1) - 1 = i
    BY <1>2
  <2> DEFINE m == h[i]
             line == MapLines[i + 1]
             t == h[i + 1]
  <2>2. t = g_decode_config(m, line) /\ line \in MapLine /\ MapType(m)
    BY <1>3, <2>1, LinesAre
  <2> HIDE DEF m, line, t
  <2>3. /\ Shaped(t)
        /\ t.channels = IF line.key = "CHANNEL" THEN With(m.channels, ChannelAt(m, line), ChannelOf(m, line))
                                                ELSE m.channels
    BY <2>2, ConfigIs DEF MapType
  <2>4. MapType(t)
    <3>1. CASE line.key = "CHANNEL"
      <4>1. ChannelOf(m, line).plane \in Int /\ ChannelOf(m, line).counter \in Int
        BY <2>2, <3>1 DEF MapLine, ChannelOf
      <4>2. PICK c, k : c = ChannelOf(m, line) /\ k = ChannelAt(m, line)
        OBVIOUS
      <4>3. t.channels = With(m.channels, k, c) /\ c.plane \in Int /\ c.counter \in Int
        BY <2>3, <3>1, <4>1, <4>2
      <4>4. /\ DOMAIN t.channels = DOMAIN m.channels \cup {k} /\ t.channels[k] = c
            /\ \A y \in DOMAIN m.channels : y # k => t.channels[y] = m.channels[y]
        <5>1. PICK f, g : f = m.channels /\ g = t.channels
          OBVIOUS
        <5>2. g = With(f, k, c)
          BY <4>3, <5>1
        <5>3. DOMAIN g = DOMAIN f \cup {k} /\ g[k] = c /\ \A y \in DOMAIN f : y # k => g[y] = f[y]
          BY <5>2 DEF With
        <5> QED
          BY <5>1, <5>3
      <4> QED
        BY <2>2, <2>3, <4>3, <4>4 DEF MapType
    <3>2. CASE line.key # "CHANNEL"
      BY <2>2, <2>3, <3>2 DEF MapType
    <3> QED
      BY <3>1, <3>2
  <2> QED
    BY <2>1, <2>4 DEF t
<1>6. \A i \in 0 .. n : i \in Z
  <2> HIDE DEF Z, n
  <2> QED
    BY <1>2, <1>4, <1>5, UpTo
<1> QED
  BY <1>1, <1>2, <1>6

\* What the map file and the words say is numbers.
LEMMA EntryIsCounter ==
  ASSUME NEW w \in Word, NEW r \in 1..MAXROCS
  PROVE  LET x == Entry(r, w, DetectorSubadd(r, w)) IN x.plane \in Int /\ x.counter \in Int
<1> DEFINE subadd == DetectorSubadd(r, w)
<1>1. w.slot \in Int /\ w.addr \in Int /\ w.low \in Int
  BY DEF Word
<1>2. subadd \in Int
  BY <1>1 DEF DetectorSubadd, F1Subadd, FastbusSubadd
<1>3. r * 65536 + w.slot \in Int
  BY <1>1 DEF MAXROCS
<1> HIDE DEF subadd
<1>4. Uninstrumented(r, w, subadd).plane \in Int /\ Uninstrumented(r, w, subadd).counter \in Int
  BY <1>2, <1>3 DEF Uninstrumented
<1>5. Entry(r, w, subadd) = Uninstrumented(r, w, subadd)
      \/ \E i \in DOMAIN Map.channels : Entry(r, w, subadd) = Map.channels[i]
  BY DEF Entry
<1>6. Entry(r, w, subadd).plane \in Int /\ Entry(r, w, subadd).counter \in Int
  BY <1>4, <1>5, MapTyped DEF MapType
<1> QED
  BY <1>6 DEF subadd

\* Storing a value, whatever room there is, keeps the lists sorted.
LEMMA StoreHitKeeps ==
  ASSUME ListsInv, SortedInv, NEW d \in Detectors, NEW x, x.plane \in Int, x.counter \in Int,
         NEW value \in Int, StoreHit(d, x, value)
  PROVE  ListsInv' /\ SortedInv'
<1> DEFINE p == Place(d, x)
           hit(s) == [FreshHit(d, p + 1, x) EXCEPT !.signal[s] = value]
<1>1. p \in 0..hitcount[d] /\ hitcount[d] \in Nat /\ hitcount[d] <= MaxHits[d] /\ MaxHits[d] \in Nat
  BY PlaceDivides, DecoderAssumption DEF ListsInv, SortedInv, SortedUpTo
<1>2. ASSUME NEW s PROVE hit(s) \in Hit /\ hit(s).plane = x.plane /\ hit(s).counter = x.counter
  BY DEF FreshHit, Hit
<1>3. \A i \in 1..hitcount[d] : i > p => Before(x, hits[d][i])
  BY PlaceDivides
<1>4. \A i \in 1..p : /\ SignalCount[d] = 1 => InOrder(d, hits[d][i], x)
                      /\ ~Found(d, x) => Before(hits[d][i], x)
  BY BeforePlace
<1>5. UNCHANGED <<hits, hitcount>> => ListsInv' /\ SortedInv'
  BY DEF ListsInv, SortedInv, SortedUpTo, InOrder, Before, SameCounter
<1> HIDE DEF p, hit
<1>6. ASSUME NEW s, SignalCount[d] = 1 \/ ~Found(d, x), hitcount[d] < MaxHits[d], Insert(d, p + 1, hit(s))
      PROVE  ListsInv' /\ SortedInv'
  <2>1. p + 1 \in 1..(hitcount[d] + 1)
    BY <1>1
  <2>2. \A i \in 1..p : InOrder(d, hits[d][i], hit(s))
    BY <1>2, <1>4, <1>6 DEF InOrder, Before, SameCounter
  <2>3. \A i \in (p + 1)..hitcount[d] : InOrder(d, hit(s), hits[d][i])
    BY <1>1, <1>2, <1>3 DEF InOrder, Before, SameCounter
  <2>4. (p + 1) - 1 = p
    BY <1>1
  <2>5. hit(s) \in Hit
    BY <1>2
  <2> QED
    BY <1>6, <2>1, <2>2, <2>3, <2>4, <2>5, InsertKeeps
<1>7. ASSUME NEW s, p > 0, hits' = [hits EXCEPT ![d][p].signal[s] = value], UNCHANGED hitcount
      PROVE  ListsInv' /\ SortedInv'
  <2>1. p \in 1..MaxHits[d]
    BY <1>1, <1>7
  <2> QED
    BY <1>7, <2>1, SignalKeeps
<1>8. CASE SignalCount[d] = 1
  <2>1. SingleHit(d, x, value)
    BY <1>8 DEF StoreHit
  <2>2. CASE hitcount[d] < MaxHits[d]
    BY <1>6, <1>8, <2>1, <2>2 DEF SingleHit, p, hit
  <2>3. CASE ~(hitcount[d] < MaxHits[d])
    BY <1>5, <2>1, <2>3 DEF SingleHit
  <2> QED
    BY <2>2, <2>3
<1>9. CASE SignalCount[d] # 1
  <2>1. MultipleHit(d, x, value)
    BY <1>9 DEF StoreHit
  <2>2. CASE Found(d, x)
    <3>1. p > 0
      BY <2>2 DEF Found, p
    <3>2. hits' = [hits EXCEPT ![d][p].signal[x.sigtyp] = value] /\ UNCHANGED hitcount
      BY <2>1, <2>2 DEF MultipleHit, p
    <3> QED
      BY <3>1, <3>2, <1>7
  <2>3. CASE ~Found(d, x) /\ hitcount[d] < MaxHits[d]
    BY <1>6, <2>1, <2>3 DEF MultipleHit, p, hit
  <2>4. CASE ~Found(d, x) /\ ~(hitcount[d] < MaxHits[d])
    <3>1. CASE p = 0
      BY <1>5, <2>1, <2>4, <3>1 DEF MultipleHit, p
    <3>2. CASE p # 0
      <4>1. hits' = [hits EXCEPT ![d][p].signal[x.sigtyp] = value] /\ UNCHANGED hitcount
        BY <2>1, <2>4, <3>2 DEF MultipleHit, p
      <4>2. p > 0
        BY <3>2, <1>1
      <4> QED
        BY <4>1, <4>2, <1>7
    <3> QED
      BY <3>1, <3>2
  <2> QED
    BY <2>2, <2>3, <2>4
<1> QED
  BY <1>8, <1>9

-----------------------------------------------------------------------------
(* The invariant. *)

\* All arrays are empty at first.
LEMMA InitEstablishes == Init => IInv
<1> SUFFICES ASSUME Init PROVE IInv
  OBVIOUS
<1>1. WalkInv
  BY DecoderAssumption DEF Init, WalkInv
<1>2. NoHit \in Hit
  BY DEF NoHit, Hit
<1>3. ListsInv
  BY <1>2 DEF Init, ListsInv
<1>4. SortedInv
  BY DecoderAssumption DEF Init, SortedInv, SortedUpTo
<1> QED
  BY <1>1, <1>3, <1>4 DEF IInv, TypeInv

\* A step that leaves the lists alone leaves them as they should be.
LEMMA ListsStay ==
  ASSUME ListsInv, SortedInv, UNCHANGED <<hits, hitcount>>
  PROVE  ListsInv' /\ SortedInv'
BY DEF ListsInv, SortedInv, SortedUpTo, InOrder, Before, SameCounter

\* Words of a bank are words.
LEMMA BanksHaveWords ==
  ASSUME WalkInv, NEW b \in 1..Len(event)
  PROVE  /\ event[b].words \in Seq(Word)
         /\ IsFrontEnd(event[b].roc) => 1 < Len(event[b].words) /\ event[b].words[1].low < Len(event[b].words)
<1>1. event \in Events
  BY DEF WalkInv
<1> DEFINE Bank == [roc : Nat, words : Seq(Word)]
<1>2. event \in Seq(Bank)
  BY <1>1, EventsAssumption
<1> HIDE DEF Bank
<1>3. b \in DOMAIN event /\ event[b] \in Bank
  BY <1>2
<1>4. event[b].words \in Seq(Word)
  BY <1>3 DEF Bank
<1> QED
  BY <1>1, <1>3, <1>4, EventsAssumption

\* Each step of the decoding keeps the invariant.
LEMMA StepKeeps == IInv /\ [Next]_decodervars => IInv'
<1> SUFFICES ASSUME WalkInv, ListsInv, SortedInv, [Next]_decodervars PROVE IInv'
  BY DEF IInv, TypeInv
<1> USE DEF IInv, TypeInv
<1> DEFINE Quiet == UNCHANGED <<hits, hitcount>>
<1>0. Quiet => ListsInv' /\ SortedInv'
  BY ListsStay
<1> HIDE DEF Quiet
<1>1. ASSUME NEW e \in Events, NextEvent(e) PROVE IInv'
  <2>1. WalkInv'
    <3>1. Len(e) \in Nat
      BY EventsAssumption
    <3> QED
      BY <1>1, <3>1 DEF NextEvent, WalkInv
  <2>2. hits' = hits /\ hitcount' = [d \in Detectors |-> 0]
    BY <1>1 DEF NextEvent
  <2>3. ListsInv'
    BY <2>2 DEF ListsInv
  <2>4. SortedInv'
    BY <2>2, DecoderAssumption DEF SortedInv, SortedUpTo
  <2> QED
    BY <2>1, <2>3, <2>4
<1>2. ASSUME NextBank PROVE IInv'
  <2>1. bank + 1 \in 1..Len(event)
    BY <1>2 DEF NextBank, WalkInv
  <2> DEFINE b == event[bank + 1]
  <2>2. /\ b.words \in Seq(Word) /\ Len(b.words) \in Nat
        /\ IsFrontEnd(b.roc) => b.words[1] \in Word /\ b.words[1].low < Len(b.words)
    <3> DEFINE ws == b.words
    <3>1. /\ ws \in Seq(Word)
          /\ IsFrontEnd(b.roc) => 1 < Len(ws) /\ ws[1].low < Len(ws)
      BY <2>1, BanksHaveWords
    <3> HIDE DEF ws
    <3>2. Len(ws) \in Nat /\ (1 < Len(ws) => ws[1] \in Word)
      BY <3>1
    <3> QED
      BY <3>1, <3>2 DEF ws
  <2>3. CASE NoHits(b.roc)
    <3>1. bank' = bank + 1 /\ UNCHANGED <<pc, event, roc, words, pointer, last, did>>
      BY <1>2, <2>3 DEF NextBank
    <3>2. WalkInv'
      BY <2>1, <3>1 DEF WalkInv
    <3> QED
      BY <3>2, <1>0, <1>2 DEF NextBank, Quiet
  <2>4. CASE ~NoHits(b.roc)
    <3>1. /\ bank' = bank + 1 /\ pc' = "bank" /\ words' = b.words /\ event' = event /\ did' = did
          /\ IF IsFrontEnd(b.roc) THEN last' = 1 + b.words[1].low /\ pointer' = 3
                                  ELSE last' = Len(b.words) /\ pointer' = 1
      BY <1>2, <2>4 DEF NextBank
    <3>2. last' \in Int /\ last' <= Len(words')
      <4>1. CASE IsFrontEnd(b.roc)
        <5>1. b.words[1].low \in Int
          BY <2>2, <4>1 DEF Word
        <5> HIDE DEF b
        <5> QED
          BY <2>2, <3>1, <4>1, <5>1
      <4>2. CASE ~IsFrontEnd(b.roc)
        <5> HIDE DEF b
        <5> QED
          BY <2>2, <3>1, <4>2
      <4> QED
        BY <4>1, <4>2
    <3>3. WalkInv'
      BY <2>1, <2>2, <3>1, <3>2 DEF WalkInv
    <3> QED
      BY <3>3, <1>0, <1>2 DEF NextBank, Quiet
  <2> QED
    BY <2>3, <2>4
<1>3. ASSUME LastBank \/ BankEnds \/ DetectorEnds PROVE IInv'
  <2>1. WalkInv'
    BY <1>3 DEF LastBank, BankEnds, DetectorEnds, bankvars, WalkInv
  <2> QED
    BY <2>1, <1>0, <1>3 DEF LastBank, BankEnds, DetectorEnds, Quiet
<1>4. ASSUME BankWord PROVE IInv'
  <2>1. last' \in Int /\ last' <= Len(words)
    BY <1>4 DEF BankWord, WalkInv
  <2>2. CASE pc' = "detector"
    <3>1. roc' \in 1..MAXROCS /\ did' \in Detectors /\ UNCHANGED <<pointer, event, bank, words>>
      BY <1>4, <2>2 DEF BankWord
    <3> QED
      BY <2>1, <2>2, <3>1, <1>0, <1>4 DEF BankWord, Quiet, WalkInv
  <2>3. CASE pc' # "detector"
    <3>1. pc' = "bank" /\ pointer' = pointer + 1 /\ UNCHANGED <<did, event, bank, words>>
      BY <1>4, <2>3 DEF BankWord
    <3> QED
      BY <2>1, <3>1, <1>0, <1>4 DEF BankWord, Quiet, WalkInv
  <2> QED
    BY <2>2, <2>3
<1>5. ASSUME SkipReport \/ SkipHeader PROVE IInv'
  <2>1. pointer' \in Nat \ {0} /\ UNCHANGED <<pc, bankvars>>
    BY <1>5 DEF SkipReport, SkipHeader, WalkInv
  <2>2. WalkInv'
    BY <2>1 DEF bankvars, WalkInv
  <2> QED
    BY <2>2, <1>0, <1>5 DEF SkipReport, SkipHeader, Quiet
<1>6. ASSUME DetectorWord PROVE IInv'
  <2> DEFINE w == words[pointer]
             x == Entry(roc, w, DetectorSubadd(roc, w))
  <2>1. w \in Word /\ roc \in 1..MAXROCS /\ did \in Detectors
    <3>1. pointer \in 1..Len(words)
      BY <1>6 DEF DetectorWord, WalkInv
    <3>2. words \in Seq(Word)
      BY DEF WalkInv
    <3> QED
      BY <1>6, <3>1, <3>2 DEF DetectorWord, WalkInv
  <2>2. x.plane \in Int /\ x.counter \in Int /\ w.low \in Int
    BY <2>1, EntryIsCounter DEF Word
  <2>3. CASE x.did = did
    <3>1. StoreHit(did, x, w.low) /\ pointer' = pointer + 1 /\ UNCHANGED <<pc, bankvars>>
      BY <1>6, <2>3 DEF DetectorWord
    <3> HIDE DEF x, w
    <3>2. ListsInv' /\ SortedInv'
      BY <2>1, <2>2, <3>1, StoreHitKeeps
    <3>3. WalkInv'
      BY <3>1 DEF bankvars, WalkInv
    <3> QED
      BY <3>2, <3>3
  <2>4. CASE x.did # did
    <3>1. pc' = "bank" /\ UNCHANGED <<pointer, hits, hitcount, bankvars>>
      BY <1>6, <2>4 DEF DetectorWord
    <3>2. WalkInv'
      BY <3>1 DEF bankvars, WalkInv
    <3> QED
      BY <3>1, <3>2, <1>0 DEF Quiet
  <2> QED
    BY <2>3, <2>4
<1>7. ASSUME UNCHANGED decodervars PROVE IInv'
  <2>1. WalkInv'
    BY <1>7 DEF decodervars, bankvars, WalkInv
  <2> QED
    BY <2>1, <1>0, <1>7 DEF decodervars, Quiet
<1> QED
  BY <1>1, <1>2, <1>3, <1>4, <1>5, <1>6, <1>7 DEF Next, Decode

-----------------------------------------------------------------------------
\* The arrays and counts of hits keep their types, and the routines stay within
\* the words of a bank.
THEOREM TypeCorrect == Spec => []TypeInv
<1>1. IInv => TypeInv
  BY DEF IInv
<1> QED
  BY <1>1, InitEstablishes, StepKeeps, PTL DEF Spec

\* Whatever the map file and the words of the events, the list of each detector
\* fits its arrays and is in the order of planes and counters, one hit for each
\* counter if it has several signals (g_decode_fb_detector.f:378-456).
THEOREM ListsSorted == Spec => []HitListsSorted
<1>1. IInv => HitListsSorted
  BY DEF IInv, SortedInv, SortedUpTo, HitListsSorted, InOrder, Before, SameCounter
<1> QED
  BY <1>1, InitEstablishes, StepKeeps, PTL DEF Spec

-----------------------------------------------------------------------------
(* The tables are those of the map file. *)

\* The latest line of a kind, up to a line
LEMMA LatestIs ==
  ASSUME NEW n \in Nat, NEW key
  PROVE  /\ MapLines[n + 1].key = key => Latest(key, n + 1) = MapLines[n + 1].v
         /\ MapLines[n + 1].key # key => Latest(key, n + 1) = Latest(key, n)
<1> DEFINE Z(i) == {j \in 1..i : MapLines[j].key = key}
<1>1. CASE MapLines[n + 1].key = key
  <2>1. Z(n + 1) \subseteq 0..(n + 1) /\ n + 1 \in Z(n + 1)
    BY <1>1
  <2> DEFINE z == Max(Z(n + 1))
  <2>2. z \in Z(n + 1) /\ n + 1 <= z
    <3> HIDE DEF Z
    <3> QED
      BY <2>1, MaxOfBounded
  <2>3. z = n + 1
    <3>1. z \in 1 .. n + 1
      BY <2>2
    <3> HIDE DEF z
    <3> QED
      BY <2>2, <3>1
  <2> QED
    BY <1>1, <2>3 DEF Latest
<1>2. CASE MapLines[n + 1].key # key
  <2>1. Z(n + 1) = Z(n)
    BY <1>2
  <2> QED
    BY <1>2, <2>1 DEF Latest
<1> QED
  BY <1>1, <1>2

LEMMA ModuleIs ==
  ASSUME NEW n \in Nat
  PROVE  IsModule1(n + 1) <=> \/ MapLines[n + 1].key = "MODULE" /\ MapLines[n + 1].v = 1
                              \/ MapLines[n + 1].key \notin {"ROC", "MODULE"} /\ IsModule1(n)
<1>1. ASSUME MapLines[n + 1].key = "MODULE", MapLines[n + 1].v = 1 PROVE IsModule1(n + 1)
  <2>1. n + 1 \in 1 .. n + 1 /\ ((n + 1) + 1) .. (n + 1) = {}
    OBVIOUS
  <2> QED
    BY <1>1, <2>1 DEF IsModule1
<1>2. ASSUME MapLines[n + 1].key \notin {"ROC", "MODULE"}, IsModule1(n) PROVE IsModule1(n + 1)
  <2>1. PICK j \in 1 .. n : /\ MapLines[j].key = "MODULE" /\ MapLines[j].v = 1
                            /\ \A k \in (j + 1) .. n : MapLines[k].key \notin {"ROC", "MODULE"}
    BY <1>2 DEF IsModule1
  <2>2. j \in 1 .. n + 1 /\ \A k \in (j + 1) .. (n + 1) : k \in (j + 1) .. n \/ k = n + 1
    OBVIOUS
  <2>3. \A k \in (j + 1) .. (n + 1) : MapLines[k].key \notin {"ROC", "MODULE"}
    BY <1>2, <2>1, <2>2
  <2> QED
    BY <2>1, <2>2, <2>3 DEF IsModule1
<1>3. ASSUME IsModule1(n + 1)
      PROVE  \/ MapLines[n + 1].key = "MODULE" /\ MapLines[n + 1].v = 1
             \/ MapLines[n + 1].key \notin {"ROC", "MODULE"} /\ IsModule1(n)
  <2>1. PICK j \in 1 .. n + 1 : /\ MapLines[j].key = "MODULE" /\ MapLines[j].v = 1
                                /\ \A k \in (j + 1) .. (n + 1) : MapLines[k].key \notin {"ROC", "MODULE"}
    BY <1>3 DEF IsModule1
  <2>2. CASE j = n + 1
    BY <2>1, <2>2
  <2>3. CASE j # n + 1
    <3>1. j \in 1 .. n /\ n + 1 \in (j + 1) .. (n + 1) /\ (j + 1) .. n \subseteq (j + 1) .. (n + 1)
      BY <2>3
    <3>2. IsModule1(n)
      BY <2>1, <3>1 DEF IsModule1
    <3> QED
      BY <2>1, <3>1, <3>2
  <2> QED
    BY <2>2, <2>3
<1> QED
  BY <1>1, <1>2, <1>3

\* What the lines before have said
Current(m, n) ==
  /\ (\E j \in 1 .. n : MapLines[j].key = "ROC") => m.roc = Latest("ROC", n)
  /\ (\E j \in 1 .. n : MapLines[j].key = "SLOT") => m.slot = Latest("SLOT", n)
  /\ (\E j \in 1 .. n : MapLines[j].key = "DET") => m.det = Latest("DET", n)
  /\ (\E j \in 1 .. n : MapLines[j].key = "NSUB") => m.nsub = Latest("NSUB", n)
  /\ m.module = 1 <=> IsModule1(n)

\* A line of another kind, or one that says it anew, keeps what is known of a kind
LEMMA CurrentKey ==
  ASSUME NEW n \in Nat, NEW key, NEW x, NEW y,
         (\E j \in 1 .. n : MapLines[j].key = key) => x = Latest(key, n),
         y = IF MapLines[n + 1].key = key THEN MapLines[n + 1].v ELSE x
  PROVE  (\E j \in 1 .. n + 1 : MapLines[j].key = key) => y = Latest(key, n + 1)
<1>1. CASE MapLines[n + 1].key = key
  BY <1>1, LatestIs
<1>2. CASE MapLines[n + 1].key # key
  <2>1. ASSUME NEW j \in 1 .. n + 1, MapLines[j].key = key PROVE y = Latest(key, n + 1)
    <3>1. j \in 1 .. n
      BY <1>2, <2>1
    <3>2. Latest(key, n + 1) = Latest(key, n)
      BY <1>2, LatestIs
    <3> QED
      BY <1>2, <2>1, <3>1, <3>2
  <2> QED
    BY <2>1
<1> QED
  BY <1>1, <1>2

LEMMA CurrentNext ==
  ASSUME NEW n \in Nat, n + 1 <= Len(MapLines), NEW m, Shaped(m), Current(m, n),
         NEW t, t = g_decode_config(m, MapLines[n + 1])
  PROVE  Current(t, n + 1)
<1> DEFINE line == MapLines[n + 1]
<1>0. line \in MapLine
  BY LinesAre, MapIs
<1>1. /\ t.roc = IF line.key = "ROC" THEN line.v ELSE m.roc
      /\ t.slot = IF line.key = "SLOT" THEN line.v ELSE m.slot
      /\ t.det = IF line.key = "DET" THEN line.v ELSE m.det
      /\ t.nsub = IF line.key = "NSUB" THEN line.v ELSE m.nsub
      /\ t.module = IF line.key = "ROC" THEN 0 ELSE IF line.key = "MODULE" THEN line.v ELSE m.module
  BY <1>0, ConfigIs
<1> HIDE DEF line
<1>2. (\E j \in 1 .. n + 1 : MapLines[j].key = "ROC") => t.roc = Latest("ROC", n + 1)
  <2>1. (\E j \in 1 .. n : MapLines[j].key = "ROC") => m.roc = Latest("ROC", n)
    BY DEF Current
  <2>2. t.roc = IF MapLines[n + 1].key = "ROC" THEN MapLines[n + 1].v ELSE m.roc
    BY <1>1 DEF line
  <2> QED
    BY <2>1, <2>2, CurrentKey
<1>3. (\E j \in 1 .. n + 1 : MapLines[j].key = "SLOT") => t.slot = Latest("SLOT", n + 1)
  <2>1. (\E j \in 1 .. n : MapLines[j].key = "SLOT") => m.slot = Latest("SLOT", n)
    BY DEF Current
  <2>2. t.slot = IF MapLines[n + 1].key = "SLOT" THEN MapLines[n + 1].v ELSE m.slot
    BY <1>1 DEF line
  <2> QED
    BY <2>1, <2>2, CurrentKey
<1>4. (\E j \in 1 .. n + 1 : MapLines[j].key = "DET") => t.det = Latest("DET", n + 1)
  <2>1. (\E j \in 1 .. n : MapLines[j].key = "DET") => m.det = Latest("DET", n)
    BY DEF Current
  <2>2. t.det = IF MapLines[n + 1].key = "DET" THEN MapLines[n + 1].v ELSE m.det
    BY <1>1 DEF line
  <2> QED
    BY <2>1, <2>2, CurrentKey
<1>5. (\E j \in 1 .. n + 1 : MapLines[j].key = "NSUB") => t.nsub = Latest("NSUB", n + 1)
  <2>1. (\E j \in 1 .. n : MapLines[j].key = "NSUB") => m.nsub = Latest("NSUB", n)
    BY DEF Current
  <2>2. t.nsub = IF MapLines[n + 1].key = "NSUB" THEN MapLines[n + 1].v ELSE m.nsub
    BY <1>1 DEF line
  <2> QED
    BY <2>1, <2>2, CurrentKey
<1>6. t.module = 1 <=> IsModule1(n + 1)
  <2>1. m.module = 1 <=> IsModule1(n)
    BY DEF Current
  <2>2. IsModule1(n + 1) <=> \/ line.key = "MODULE" /\ line.v = 1
                             \/ line.key \notin {"ROC", "MODULE"} /\ IsModule1(n)
    BY ModuleIs DEF line
  <2> QED
    BY <1>1, <2>1, <2>2
<1> QED
  BY <1>2, <1>3, <1>4, <1>5, <1>6 DEF Current

\* The entries of a channel and of its slot, by the lines
Nsub(i) == Latest("NSUB", i)
LineEntry(i) == [did |-> Latest("DET", i), plane |-> MapLines[i].plane, counter |-> MapLines[i].counter,
                 sigtyp |-> MapLines[i].signal]
Pointer(m, i) == m.slots[RocSlot(i)].pointer
At(m, i) == Pointer(m, i) + MapLines[i].subadd

\* Each slot of the channels C has entries of its own,
Slots(m, C) ==
  /\ m.next \in Int
  /\ \A i \in C : /\ RocSlot(i) \in DOMAIN m.slots /\ Pointer(m, i) \in Int /\ Pointer(m, i) + Nsub(i) <= m.next
                  /\ m.slots[RocSlot(i)].module = 1 <=> IsModule1(i)
  /\ \A i, j \in C : RocSlot(i) # RocSlot(j) => \/ Pointer(m, i) + Nsub(i) <= Pointer(m, j)
                                                \/ Pointer(m, j) + Nsub(j) <= Pointer(m, i)
  /\ \A rs \in DOMAIN m.slots : \E i \in C : rs = RocSlot(i)

\* and there is an entry for each channel and no other.
Tables(m, C) ==
  /\ \A i \in C : At(m, i) \in DOMAIN m.channels /\ m.channels[At(m, i)] = LineEntry(i)
  /\ \A k \in DOMAIN m.channels : \E i \in C : k = At(m, i)

LEMMA TrueChannel ==
  ASSUME TrueMap, NEW i \in Channels
  PROVE  /\ i \in 1 .. Len(MapLines)
         /\ MapLines[i] \in [key : {"CHANNEL"}, subadd : Int, plane : Int, counter : Int, signal : 0..3]
         /\ Latest("DET", i) \in Detectors
         /\ Nsub(i) \in Int /\ MapLines[i].subadd \in 0 .. Nsub(i) - 1 /\ Nsub(i) > 0
         /\ \A j \in Channels : RocSlot(i) = RocSlot(j) =>
              /\ Nsub(i) = Nsub(j) /\ IsModule1(i) = IsModule1(j)
              /\ i # j => MapLines[i].subadd # MapLines[j].subadd
<1>1. i \in 1 .. Len(MapLines) /\ MapLines[i].key = "CHANNEL"
  BY MapAssumption DEF Channels
<1>2. MapLines[i] \in [key : {"CHANNEL"}, subadd : Int, plane : Int, counter : Int, signal : 0..3]
  BY <1>1, LinesAre DEF MapLine
<1>3. Latest("NSUB", i) \in Int
  <2> DEFINE Z == {j \in 1..i : MapLines[j].key = "NSUB"}
  <2>1. Z # {} /\ Z \subseteq 0..i /\ i \in Nat
    BY <1>1, MapIs DEF TrueMap
  <2> HIDE DEF Z
  <2>2. Max(Z) \in Z
    BY <2>1, MaxOfBounded
  <2> USE DEF Z
  <2>3. PICK z : z = Max(Z)
    OBVIOUS
  <2>4. z \in 1 .. Len(MapLines) /\ MapLines[z].key = "NSUB"
    BY <1>1, <2>2, <2>3, MapIs
  <2>5. MapLines[z].v \in Int
    BY <2>4, LinesAre DEF MapLine
  <2> QED
    BY <2>3, <2>5 DEF Latest
<1>4. MapLines[i].subadd \in 0 .. Latest("NSUB", i) - 1
  BY DEF TrueMap
<1>5. Latest("NSUB", i) > 0
  BY <1>2, <1>3, <1>4
<1> QED
  BY <1>1, <1>2, <1>3, <1>4, <1>5 DEF TrueMap, Nsub

\* A channel finds or reserves the entries of its slot.
LEMMA SlotsNext ==
  ASSUME TrueMap, NEW m, Shaped(m), NEW C, C \subseteq Channels, Slots(m, C), NEW c \in Channels,
         <<m.roc, m.slot>> = RocSlot(c), m.nsub = Nsub(c), m.module = 1 <=> IsModule1(c),
         NEW s, s = SlotPointer(m)
  PROVE  Slots(s, C \cup {c}) /\ \A i \in C : Pointer(s, i) = Pointer(m, i)
<1>1. /\ RocSlot(c) \in DOMAIN m.slots => s = m
      /\ RocSlot(c) \notin DOMAIN m.slots =>
           /\ s.next = m.next + m.nsub
           /\ s.slots = With(m.slots, RocSlot(c), [pointer |-> m.next, bsub |-> m.bsub, module |-> m.module])
  BY SlotPointerIs
<1>2. Nsub(c) \in Int /\ Nsub(c) > 0
  BY TrueChannel
<1>3. CASE RocSlot(c) \in DOMAIN m.slots
  <2>1. s = m
    BY <1>1, <1>3
  <2>2. PICK i \in C : RocSlot(i) = RocSlot(c)
    BY <1>3 DEF Slots
  <2>3. Nsub(i) = Nsub(c) /\ IsModule1(i) = IsModule1(c) /\ Pointer(m, i) = Pointer(m, c)
    BY <2>2, TrueChannel DEF Pointer
  <2>4. Slots(m, C \cup {c})
    BY <2>2, <2>3 DEF Slots
  <2> QED
    BY <2>1, <2>4
<1>4. CASE RocSlot(c) \notin DOMAIN m.slots
  <2> DEFINE new == [pointer |-> m.next, bsub |-> m.bsub, module |-> m.module]
  <2>1. s.next = m.next + Nsub(c) /\ s.slots = With(m.slots, RocSlot(c), new)
    BY <1>1, <1>4
  <2>2. new.pointer = m.next /\ new.module = m.module
    OBVIOUS
  <2> HIDE DEF new
  <2>3. PICK old, now, x : old = m.slots /\ now = s.slots /\ x = RocSlot(c)
    OBVIOUS
  <2>4. DOMAIN now = DOMAIN old \cup {x} /\ now[x] = new /\ \A y \in DOMAIN old : y # x => now[y] = old[y]
    BY <2>1, <2>3 DEF With
  <2>5. \A i \in C : RocSlot(i) \in DOMAIN m.slots /\ RocSlot(i) # RocSlot(c)
    BY <1>4 DEF Slots
  <2>6. \A i \in C : s.slots[RocSlot(i)] = m.slots[RocSlot(i)] /\ Pointer(s, i) = Pointer(m, i)
    BY <2>3, <2>4, <2>5 DEF Pointer
  <2>7. Pointer(s, c) = m.next /\ s.slots[RocSlot(c)].module = m.module
    BY <2>2, <2>3, <2>4 DEF Pointer
  <2>8. m.next \in Int /\ s.next \in Int /\ m.next < s.next
    BY <1>2, <2>1 DEF Slots
  <2>9. ASSUME NEW i \in C \cup {c}
        PROVE  /\ RocSlot(i) \in DOMAIN s.slots /\ Pointer(s, i) \in Int /\ Pointer(s, i) + Nsub(i) <= s.next
               /\ s.slots[RocSlot(i)].module = 1 <=> IsModule1(i)
    <3>1. CASE i = c
      BY <1>2, <2>1, <2>3, <2>4, <2>7, <2>8, <3>1
    <3>2. CASE i \in C
      <4>1. /\ RocSlot(i) \in DOMAIN m.slots /\ Pointer(m, i) \in Int /\ Pointer(m, i) + Nsub(i) <= m.next
            /\ m.slots[RocSlot(i)].module = 1 <=> IsModule1(i)
        BY <3>2 DEF Slots
      <4>2. Nsub(i) \in Int
        BY <3>2, TrueChannel
      <4>3. RocSlot(i) \in DOMAIN s.slots
        BY <2>3, <2>4, <4>1
      <4>4. Pointer(s, i) = Pointer(m, i) /\ s.slots[RocSlot(i)] = m.slots[RocSlot(i)]
        BY <2>6, <3>2
      <4> QED
        BY <2>8, <4>1, <4>2, <4>3, <4>4
    <3> QED
      BY <3>1, <3>2
  <2>10. ASSUME NEW i \in C \cup {c}, NEW j \in C \cup {c}, RocSlot(i) # RocSlot(j)
         PROVE  Pointer(s, i) + Nsub(i) <= Pointer(s, j) \/ Pointer(s, j) + Nsub(j) <= Pointer(s, i)
    <3>1. CASE i \in C /\ j \in C
      BY <2>6, <2>10, <3>1 DEF Slots
    <3>2. CASE i = c /\ j \in C
      BY <2>6, <2>7, <3>2 DEF Slots
    <3>3. CASE i \in C /\ j = c
      BY <2>6, <2>7, <3>3 DEF Slots
    <3> QED
      BY <2>10, <3>1, <3>2, <3>3
  <2>11. \A rs \in DOMAIN s.slots : \E i \in C \cup {c} : rs = RocSlot(i)
    BY <2>3, <2>4 DEF Slots
  <2> QED
    BY <2>6, <2>8, <2>9, <2>10, <2>11 DEF Slots
<1> QED
  BY <1>3, <1>4

\* Different channels have different entries.
LEMMA EntriesApart ==
  ASSUME TrueMap, NEW m, NEW C, C \subseteq Channels, Slots(m, C), NEW i \in C, NEW c \in Channels,
         NEW k, k \in 0 .. Nsub(c) - 1, RocSlot(c) \in DOMAIN m.slots,
         At(m, i) = Pointer(m, c) + k
  PROVE  RocSlot(i) = RocSlot(c) /\ MapLines[i].subadd = k
<1>1. PICK j \in C : RocSlot(j) = RocSlot(c)
  BY DEF Slots
<1>2. Pointer(m, j) = Pointer(m, c) /\ Nsub(j) = Nsub(c)
  BY <1>1, TrueChannel DEF Pointer
<1>3. /\ Pointer(m, i) \in Int /\ Nsub(i) \in Int /\ MapLines[i].subadd \in 0 .. Nsub(i) - 1
      /\ Pointer(m, j) \in Int /\ Nsub(j) \in Int /\ k \in 0 .. Nsub(j) - 1
  BY <1>2, TrueChannel DEF Slots
<1>4. Pointer(m, i) + MapLines[i].subadd = Pointer(m, j) + k
  BY <1>2 DEF At
<1>5. RocSlot(i) = RocSlot(j)
  <2>1. ~(Pointer(m, i) + Nsub(i) <= Pointer(m, j) \/ Pointer(m, j) + Nsub(j) <= Pointer(m, i))
    BY <1>3, <1>4
  <2> QED
    BY <2>1 DEF Slots
<1>6. Pointer(m, i) = Pointer(m, j)
  BY <1>5 DEF Pointer
<1> QED
  BY <1>1, <1>3, <1>4, <1>5, <1>6

LEMMA TablesNext ==
  ASSUME TrueMap, NEW m, NEW t, NEW C, C \subseteq Channels, NEW c \in Channels, c \notin C, Tables(m, C),
         Slots(t, C \cup {c}), \A i \in C : Pointer(t, i) = Pointer(m, i),
         t.channels = With(m.channels, At(t, c), LineEntry(c))
  PROVE  Tables(t, C \cup {c})
<1>1. PICK old, now, x, e : old = m.channels /\ now = t.channels /\ x = At(t, c) /\ e = LineEntry(c)
  OBVIOUS
<1>2. DOMAIN now = DOMAIN old \cup {x} /\ now[x] = e /\ \A y \in DOMAIN old : y # x => now[y] = old[y]
  BY <1>1 DEF With
<1>3. \A i \in C : At(t, i) = At(m, i)
  BY DEF At
<1>4. ASSUME NEW i \in C PROVE At(t, i) # x
  <2> SUFFICES ASSUME At(t, i) = x PROVE FALSE
    OBVIOUS
  <2>1. MapLines[c].subadd \in 0 .. Nsub(c) - 1
    BY TrueChannel
  <2>2. At(t, i) = Pointer(t, c) + MapLines[c].subadd
    BY <1>1 DEF At
  <2>3. RocSlot(c) \in DOMAIN t.slots /\ C \cup {c} \subseteq Channels /\ i \in C \cup {c}
    BY DEF Slots
  <2>4. RocSlot(i) = RocSlot(c) /\ MapLines[i].subadd = MapLines[c].subadd
    BY <2>1, <2>2, <2>3, EntriesApart
  <2>5. i \in Channels /\ i # c
    OBVIOUS
  <2> QED
    BY <2>4, <2>5, TrueChannel
<1>5. \A i \in C \cup {c} : At(t, i) \in DOMAIN now /\ now[At(t, i)] = LineEntry(i)
  <2> SUFFICES ASSUME NEW i \in C \cup {c} PROVE At(t, i) \in DOMAIN now /\ now[At(t, i)] = LineEntry(i)
    OBVIOUS
  <2>1. CASE i = c
    BY <1>1, <1>2, <2>1
  <2>2. CASE i \in C
    <3>1. At(m, i) \in DOMAIN old /\ old[At(m, i)] = LineEntry(i)
      BY <1>1, <2>2 DEF Tables
    <3> QED
      BY <1>2, <1>3, <1>4, <2>2, <3>1
  <2> QED
    BY <2>1, <2>2
<1>6. \A k \in DOMAIN now : \E i \in C \cup {c} : k = At(t, i)
  <2> SUFFICES ASSUME NEW k \in DOMAIN now PROVE \E i \in C \cup {c} : k = At(t, i)
    OBVIOUS
  <2>1. CASE k = x
    BY <1>1, <2>1
  <2>2. CASE k \in DOMAIN old
    BY <1>1, <1>3, <2>2 DEF Tables
  <2> QED
    BY <1>2, <2>1, <2>2
<1> QED
  BY <1>1, <1>5, <1>6 DEF Tables

\* Wherever the lines of a map file put a channel, its entry of the tables is that of
\* its line, and no slot has an entry that is not its own (g_decode_config.f:177-232).
THEOREM MapIsTrue == TrueMap => Slots(Map, Channels) /\ Tables(Map, Channels)
<1> SUFFICES ASSUME TrueMap PROVE Slots(Map, Channels) /\ Tables(Map, Channels)
  OBVIOUS
<1>1. PICK h : MapSteps(h, Len(MapLines)) /\ Map = h[Len(MapLines)]
  BY MapIs
<1> DEFINE n == Len(MapLines)
           UpToLine(i) == {c \in Channels : c <= i}
           Good(i) == /\ Shaped(h[i]) /\ Current(h[i], i)
                      /\ Slots(h[i], UpToLine(i)) /\ Tables(h[i], UpToLine(i))
           Z == {i \in 0 .. n : Good(i)}
<1>2. n \in Nat
  BY MapIs
<1>3. h[0] = ClearMap /\ \A i \in 1 .. n : h[i] = g_decode_config(h[i - 1], MapLines[i])
  BY <1>1, <1>2 DEF MapSteps
<1>4. 0 \in Z
  <2>1. UpToLine(0) = {}
    BY TrueChannel
  <2>2. Shaped(h[0]) /\ h[0].module = 0 /\ h[0].next = 1 /\ DOMAIN h[0].slots = {} /\ DOMAIN h[0].channels = {}
    BY <1>3, ClearMapIs
  <2>3. Current(h[0], 0)
    BY <2>2 DEF Current, IsModule1
  <2>4. Slots(h[0], {}) /\ Tables(h[0], {})
    BY <2>2 DEF Slots, Tables
  <2>5. Good(0)
    BY <2>1, <2>2, <2>3, <2>4
  <2> HIDE DEF Good
  <2> QED
    BY <1>2, <2>5
<1>5. \A i \in 0 .. n - 1 : i \in Z => i + 1 \in Z
  <2> SUFFICES ASSUME NEW i \in 0 .. n - 1, i \in Z PROVE i + 1 \in Z
    OBVIOUS
  <2>1. i + 1 \in 1 .. n /\ (i + 1) - 1 = i /\ i \in Nat /\ i + 1 <= Len(MapLines)
    BY <1>2
  <2> DEFINE line == MapLines[i + 1]
             C == UpToLine(i)
  <2>2. PICK m, t : m = h[i] /\ t = h[i + 1]
    OBVIOUS
  <2>3. t = g_decode_config(m, line) /\ line \in MapLine
    BY <1>3, <2>1, <2>2, LinesAre
  <2>4. Shaped(m) /\ Current(m, i) /\ Slots(m, C) /\ Tables(m, C)
    BY <2>2
  <2>5. C \subseteq Channels /\ i + 1 \notin C /\ Channels \subseteq Int
    BY TrueChannel
  <2>6. /\ Shaped(t)
        /\ t.slots = IF line.key = "CHANNEL" THEN SlotPointer(m).slots ELSE m.slots
        /\ t.next = IF line.key = "CHANNEL" THEN SlotPointer(m).next ELSE m.next
        /\ t.channels = IF line.key = "CHANNEL" THEN With(m.channels, ChannelAt(m, line), ChannelOf(m, line))
                                                ELSE m.channels
    BY <2>3, <2>4, ConfigIs
  <2>7. Current(t, i + 1)
    BY <2>1, <2>3, <2>4, CurrentNext
  <2>8. i + 1 \in Channels <=> line.key = "CHANNEL"
    BY <2>1, MapAssumption DEF Channels
  <2>9. UpToLine(i + 1) = IF line.key = "CHANNEL" THEN C \cup {i + 1} ELSE C
    <3>1. \A x \in Channels : x <= i + 1 <=> x <= i \/ x = i + 1
      BY <2>1, <2>5
    <3> QED
      BY <2>8, <3>1
  <2> HIDE DEF line, C, UpToLine
  <2>10. Slots(t, UpToLine(i + 1)) /\ Tables(t, UpToLine(i + 1))
    <3>1. CASE line.key = "CHANNEL"
      <4> DEFINE c == i + 1
      <4>1. /\ c \in Channels /\ Latest("ROC", i) = Latest("ROC", c) /\ Latest("SLOT", i) = Latest("SLOT", c)
            /\ Latest("DET", i) = Latest("DET", c) /\ Latest("NSUB", i) = Latest("NSUB", c)
            /\ IsModule1(i) <=> IsModule1(c)
        <5>1. c \in Channels /\ MapLines[i + 1].key = "CHANNEL"
          BY <2>8, <3>1 DEF line
        <5>2. /\ Latest("ROC", i + 1) = Latest("ROC", i) /\ Latest("SLOT", i + 1) = Latest("SLOT", i)
              /\ Latest("DET", i + 1) = Latest("DET", i) /\ Latest("NSUB", i + 1) = Latest("NSUB", i)
          BY <2>1, <5>1, LatestIs
        <5>3. IsModule1(i + 1) <=> IsModule1(i)
          BY <2>1, <5>1, ModuleIs
        <5> QED
          BY <5>1, <5>2, <5>3
      <4>2. \A key \in {"ROC", "SLOT", "DET", "NSUB"} : \E j \in 1 .. i : MapLines[j].key = key
        <5> SUFFICES ASSUME NEW key \in {"ROC", "SLOT", "DET", "NSUB"} PROVE \E j \in 1 .. i : MapLines[j].key = key
          OBVIOUS
        <5>1. PICK j \in 1 .. c : MapLines[j].key = key
          BY <4>1 DEF TrueMap
        <5>2. j # c
          BY <3>1, <5>1 DEF line
        <5> QED
          BY <2>1, <5>1, <5>2
      <4>3. /\ m.roc = Latest("ROC", c) /\ m.slot = Latest("SLOT", c) /\ m.det = Latest("DET", c)
            /\ m.nsub = Latest("NSUB", c) /\ (m.module = 1 <=> IsModule1(c))
        BY <2>4, <4>1, <4>2 DEF Current
      <4>4. PICK s : s = SlotPointer(m)
        OBVIOUS
      <4> HIDE DEF c
      <4>5. <<m.roc, m.slot>> = RocSlot(c) /\ m.nsub = Nsub(c)
        BY <4>3 DEF RocSlot, Nsub
      <4>6. Slots(s, C \cup {c}) /\ \A j \in C : Pointer(s, j) = Pointer(m, j)
        <5>1. Shaped(m) /\ C \subseteq Channels /\ Slots(m, C) /\ c \in Channels
          BY <2>4, <2>5, <4>1
        <5>2. m.module = 1 <=> IsModule1(c)
          BY <4>3
        <5> QED
          BY <4>4, <4>5, <5>1, <5>2, SlotsNext
      <4>7. t.slots = s.slots /\ t.next = s.next
        BY <2>6, <3>1, <4>4
      <4>8. Slots(t, C \cup {c}) /\ \A j \in C : Pointer(t, j) = Pointer(m, j)
        BY <4>6, <4>7 DEF Slots, Pointer
      <4>9. ChannelAt(m, line) = At(t, c)
        BY <4>4, <4>5, <4>7 DEF ChannelAt, At, Pointer, line, c
      <4>10. ChannelOf(m, line) = LineEntry(c)
        BY <4>3 DEF ChannelOf, LineEntry, line, c
      <4>11. t.channels = With(m.channels, At(t, c), LineEntry(c))
        BY <2>6, <3>1, <4>9, <4>10
      <4>12. c \notin C
        BY <2>5 DEF c
      <4>13. Tables(t, C \cup {c})
        BY <2>4, <2>5, <4>1, <4>8, <4>11, <4>12, TablesNext
      <4> QED
        BY <2>9, <3>1, <4>8, <4>13 DEF c
    <3>2. CASE line.key # "CHANNEL"
      <4>1. t.slots = m.slots /\ t.next = m.next /\ t.channels = m.channels /\ UpToLine(i + 1) = C
        BY <2>6, <2>9, <3>2
      <4>2. Slots(t, C) /\ Tables(t, C)
        BY <2>4, <4>1 DEF Slots, Tables, At, Pointer
      <4> QED
        BY <4>1, <4>2
    <3> QED
      BY <3>1, <3>2
  <2> QED
    BY <2>1, <2>2, <2>6, <2>7, <2>10
<1>6. \A i \in 0 .. n : i \in Z
  <2> HIDE DEF Z, n
  <2> QED
    BY <1>2, <1>4, <1>5, UpTo
<1>7. UpToLine(n) = Channels
  BY <1>2, TrueChannel
<1>8. Good(n)
  <2> HIDE DEF Good, n
  <2> QED
    BY <1>2, <1>6
<1> HIDE DEF UpToLine
<1> QED
  BY <1>1, <1>7, <1>8

-----------------------------------------------------------------------------
(* What a word with data is, to the routines and by the map file. *)

WireOfLine(i) ==
  [roc |-> Latest("ROC", i), slot |-> Latest("SLOT", i), subadd |-> MapLines[i].subadd,
   f1 |-> IsModule1(i), did |-> Latest("DET", i), plane |-> MapLines[i].plane,
   counter |-> MapLines[i].counter, sigtyp |-> MapLines[i].signal]

LEMMA WiringIs == Wiring = {WireOfLine(i) : i \in Channels}
BY DEF Wiring, WireOfLine

LEMMA CountersFinite == ASSUME NEW d PROVE IsFiniteSet(Counters(d))
<1>1. IsFiniteSet(1 .. Len(MapLines))
  BY MapIs, FS_Interval
<1>2. IsFiniteSet(Channels)
  <2>1. Channels \subseteq 1 .. Len(MapLines)
    BY MapAssumption DEF Channels
  <2> QED
    BY <1>1, <2>1, FS_Subset
<1> DEFINE Named == {<<WireOfLine(i).plane, WireOfLine(i).counter>> : i \in Channels}
           f == [i \in Channels |-> <<WireOfLine(i).plane, WireOfLine(i).counter>>]
<1>3. f \in Surjection(Channels, Named)
  BY DEF Surjection
<1>4. Counters(d) \subseteq Named
  BY WiringIs DEF Counters
<1> HIDE DEF Named, f
<1>5. IsFiniteSet(Named)
  BY <1>2, <1>3, FS_Surjection
<1> QED
  BY <1>4, <1>5, FS_Subset

\* The channel that a word is from, the entry of the tables
EntryOf(r, w) == Entry(r, w, DetectorSubadd(r, w))

LEMMA EntryIsWire ==
  ASSUME TrueMap, NEW r, NEW w \in Word, TrueData(r, w), NEW x, x = EntryOf(r, w)
  PROVE  /\ Wires(w) = {} => x.did = UNINST_ID
         /\ \A y \in Wires(w) : /\ x.did = y.did
                                /\ y.did # UNINST_ID => /\ x.plane = y.plane /\ x.counter = y.counter
                                                        /\ x.sigtyp = y.sigtyp
<1>1. Slots(Map, Channels) /\ Tables(Map, Channels)
  BY MapIsTrue
<1>2. w.of = r
  BY DEF TrueData
<1>3. ASSUME NEW y \in Wires(w)
      PROVE  \E i \in Channels : /\ y = WireOfLine(i) /\ RocSlot(i) = <<r, w.slot>>
                                 /\ MapLines[i].subadd = Subadd(IsModule1(i), w)
  <2>1. y \in Wiring /\ y.roc = w.of /\ y.slot = w.slot /\ y.subadd = Subadd(y.f1, w)
    BY <1>3 DEF Wires
  <2>2. PICK i \in Channels : y = WireOfLine(i)
    BY <2>1, WiringIs
  <2>3. /\ y.roc = Latest("ROC", i) /\ y.slot = Latest("SLOT", i) /\ y.subadd = MapLines[i].subadd
        /\ y.f1 = IsModule1(i)
    BY <2>2 DEF WireOfLine
  <2> QED
    BY <1>2, <2>1, <2>2, <2>3 DEF RocSlot
<1>4. CASE ~InMap(r, w)
  <2>1. x.did = UNINST_ID
    BY <1>4 DEF EntryOf, Entry, Uninstrumented
  <2>2. Wires(w) = {}
    <3> SUFFICES ASSUME NEW y \in Wires(w) PROVE FALSE
      OBVIOUS
    <3>1. PICK i \in Channels : RocSlot(i) = <<r, w.slot>>
      BY <1>3
    <3> QED
      BY <1>1, <1>4, <3>1 DEF Slots, InMap
  <2> QED
    BY <2>1, <2>2
<1>5. CASE InMap(r, w)
  <2>1. PICK c \in Channels : RocSlot(c) = <<r, w.slot>>
    BY <1>1, <1>5 DEF Slots, InMap
  <2> DEFINE k == Subadd(IsModule1(c), w)
             at == Pointer(Map, c) + k
  <2>2. IsF1(r, w) <=> IsModule1(c)
    BY <1>1, <1>5, <2>1 DEF Slots, IsF1
  <2>3. DetectorSubadd(r, w) = k
    BY <1>5, <2>2 DEF DetectorSubadd, F1Subadd, FastbusSubadd, Subadd
  <2>4. k \in 0 .. Nsub(c) - 1
    BY <2>1 DEF TrueData, Nsub
  <2> HIDE DEF k
  <2>5. x = IF at \notin DOMAIN Map.channels THEN Uninstrumented(r, w, k)
            ELSE IF Map.channels[at].did = UNINST_ID THEN Uninstrumented(r, w, k)
            ELSE Map.channels[at]
    <3>1. Map.slots[<<r, w.slot>>].pointer + k = at
      BY <2>1 DEF Pointer
    <3> QED
      BY <1>5, <2>3, <3>1 DEF EntryOf, Entry
  <2>6. ASSUME NEW y \in Wires(w)
        PROVE  /\ at \in DOMAIN Map.channels /\ Map.channels[at].did = y.did /\ Map.channels[at].plane = y.plane
               /\ Map.channels[at].counter = y.counter /\ Map.channels[at].sigtyp = y.sigtyp
    <3>1. PICK i \in Channels : /\ y = WireOfLine(i) /\ RocSlot(i) = <<r, w.slot>>
                                /\ MapLines[i].subadd = Subadd(IsModule1(i), w)
      BY <2>6, <1>3
    <3>2. IsModule1(i) = IsModule1(c) /\ Pointer(Map, i) = Pointer(Map, c)
      BY <2>1, <3>1, TrueChannel DEF Pointer
    <3>3. At(Map, i) = at
      BY <3>1, <3>2 DEF At, k
    <3>4. at \in DOMAIN Map.channels /\ Map.channels[at] = LineEntry(i)
      BY <1>1, <3>3 DEF Tables
    <3> QED
      BY <3>1, <3>4 DEF LineEntry, WireOfLine
  <2>7. ASSUME at \in DOMAIN Map.channels PROVE Wires(w) # {}
    <3>1. PICK i \in Channels : at = At(Map, i)
      BY <1>1, <2>7 DEF Tables
    <3>2. RocSlot(c) \in DOMAIN Map.slots
      BY <1>1 DEF Slots
    <3>3. RocSlot(i) = RocSlot(c) /\ MapLines[i].subadd = k
      BY <1>1, <2>4, <3>1, <3>2, EntriesApart
    <3>4. IsModule1(i) = IsModule1(c)
      BY <3>3, TrueChannel
    <3>5. WireOfLine(i) \in Wiring
      BY WiringIs
    <3>6. WireOfLine(i) \in Wires(w)
      BY <1>2, <2>1, <3>3, <3>4, <3>5 DEF Wires, WireOfLine, RocSlot, k
    <3> QED
      BY <3>6
  <2>8. Uninstrumented(r, w, k).did = UNINST_ID
    BY DEF Uninstrumented
  <2> HIDE DEF at
  <2> QED
    BY <2>5, <2>6, <2>7, <2>8
<1> QED
  BY <1>4, <1>5

\* Both routines find the detector that the map file says.
LEMMA DataWord ==
  ASSUME TrueMap, NEW r, NEW w \in Word, TrueData(r, w), NEW x, x = EntryOf(r, w)
  PROVE  /\ x.did \in Detectors /\ Entry(r, w, BankSubadd(r, w)) = x
         /\ x.plane \in Int /\ x.counter \in Int
         /\ w.low # Overflow => \A d : IsMine(d, w) <=> x.did = d
         /\ w.low = Overflow => \A d : ~IsMine(d, w)
         /\ x.did # UNINST_ID =>
              /\ x.sigtyp \in 0 .. 3 /\ <<x.plane, x.counter>> \in Counters(x.did)
              /\ \A hit : Of(w, hit) <=> SameCounter(x, hit)
              /\ \A hit, s : OfSignal(w, hit, s) <=> SameCounter(x, hit) /\ s = x.sigtyp
<1>1. w.of = r /\ r \in 1 .. MAXROCS /\ r # 0 /\ (IsF1(r, w) => w.data)
  BY DEF TrueData, MAXROCS
<1>2. /\ Wires(w) = {} => x.did = UNINST_ID
      /\ \A y \in Wires(w) : /\ x.did = y.did
                             /\ y.did # UNINST_ID => /\ x.plane = y.plane /\ x.counter = y.counter
                                                     /\ x.sigtyp = y.sigtyp
  BY EntryIsWire
<1>3. \A y \in Wires(w) : y \in Wiring /\ y.did \in Detectors /\ y.sigtyp \in 0 .. 3
  <2> SUFFICES ASSUME NEW y \in Wires(w) PROVE y \in Wiring /\ y.did \in Detectors /\ y.sigtyp \in 0 .. 3
    OBVIOUS
  <2>1. y \in Wiring
    BY DEF Wires
  <2>2. PICK i \in Channels : y = WireOfLine(i)
    BY <2>1, WiringIs
  <2>3. y.did = Latest("DET", i) /\ y.sigtyp = MapLines[i].signal
    BY <2>2 DEF WireOfLine
  <2> QED
    BY <2>1, <2>3, TrueChannel
<1>4. x.did \in Detectors
  BY <1>2, <1>3, DecoderAssumption
<1>5. Entry(r, w, BankSubadd(r, w)) = x
  BY <1>1 DEF BankSubadd, DetectorSubadd, EntryOf
<1>6. x.plane \in Int /\ x.counter \in Int
  BY <1>1, EntryIsCounter DEF EntryOf
<1>7. ASSUME w.low # Overflow, NEW d PROVE IsMine(d, w) <=> x.did = d
  <2>1. CASE Wires(w) = {}
    BY <1>1, <1>2, <1>7, <2>1 DEF IsMine
  <2>2. CASE Wires(w) # {}
    BY <1>1, <1>2, <1>7, <2>2 DEF IsMine
  <2> QED
    BY <2>1, <2>2
<1>8. w.low = Overflow => \A d : ~IsMine(d, w)
  BY DEF IsMine
<1>9. ASSUME x.did # UNINST_ID
      PROVE  /\ x.sigtyp \in 0 .. 3 /\ <<x.plane, x.counter>> \in Counters(x.did)
             /\ \A hit : Of(w, hit) <=> SameCounter(x, hit)
             /\ \A hit, s : OfSignal(w, hit, s) <=> SameCounter(x, hit) /\ s = x.sigtyp
  <2>1. PICK y \in Wires(w) : TRUE
    BY <1>2, <1>9
  <2>2. x.did = y.did /\ x.plane = y.plane /\ x.counter = y.counter /\ x.sigtyp = y.sigtyp
    BY <1>2, <1>9
  <2>3. x.sigtyp \in 0 .. 3 /\ <<x.plane, x.counter>> \in Counters(x.did)
    BY <1>3, <2>2 DEF Counters
  <2>4. \A z \in Wires(w) : z.plane = x.plane /\ z.counter = x.counter /\ z.sigtyp = x.sigtyp
    BY <1>2, <1>9
  <2>5. \A hit : Of(w, hit) <=> SameCounter(x, hit)
    BY <2>1, <2>4 DEF Of, SameCounter
  <2>6. \A hit, s : OfSignal(w, hit, s) <=> SameCounter(x, hit) /\ s = x.sigtyp
    BY <2>1, <2>4 DEF OfSignal, SameCounter
  <2> QED
    BY <2>3, <2>5, <2>6
<1> QED
  BY <1>4, <1>5, <1>6, <1>7, <1>8, <1>9

-----------------------------------------------------------------------------
(* What a list holds, and how a word gets into it. *)

\* A list of n hits has the words at ps: see EveryWordStored
HasWords(e, d, ps, list, n) ==
  \E word \in [1..n -> ps] :
    /\ \A i \in 1..n :
         /\ list[i].signal[0] = WordAt(e, word[i]).low
         /\ d # UNINST_ID => Of(WordAt(e, word[i]), list[i])
         /\ \A j \in 1..n :
              /\ i # j => word[i] # word[j]
              /\ i < j /\ SameCounter(list[i], list[j]) => Earlier(word[i], word[j])
    /\ \A p \in ps \ {word[i] : i \in 1..n} : n = MaxHits[d] /\ \A i \in 1..n : Earlier(word[i], p)

\* and their signals: see EverySignalStored
IsLast(e, ps, x, s, value) ==
  LET told == {p \in ps : OfSignal(WordAt(e, p), x, s)}
  IN \/ told = {} /\ value = -1
     \/ \E p \in told : value = WordAt(e, p).low /\ \A q \in told : q = p \/ Earlier(q, p)
HasSignals(e, ps, list, n) ==
  /\ \A p \in ps : \E i \in 1..n : Of(WordAt(e, p), list[i])
  /\ \A i \in 1..n : /\ \E p \in ps : Of(WordAt(e, p), list[i])
                     /\ \A s \in 0..3 : IsLast(e, ps, list[i], s, list[i].signal[s])

\* The word is of one counter of the detector.
IsCounter(d, w, x) ==
  /\ x.plane \in Int /\ x.counter \in Int /\ <<x.plane, x.counter>> \in Counters(d)
  /\ \A hit : Of(w, hit) <=> SameCounter(x, hit)
  /\ \A hit, s : OfSignal(w, hit, s) <=> SameCounter(x, hit) /\ s = x.sigtyp

LEMMA InsertIs ==
  ASSUME ListsInv, NEW d \in Detectors, hitcount[d] < MaxHits[d], NEW h \in 1 .. hitcount[d] + 1,
         NEW hit, Insert(d, h, hit)
  PROVE  /\ hitcount'[d] = hitcount[d] + 1
         /\ \A i \in 1 .. hitcount[d] + 1 :
              hits'[d][i] = IF i < h THEN hits[d][i] ELSE IF i = h THEN hit ELSE hits[d][i - 1]
<1> DEFINE n == hitcount[d]
           list == [i \in 1..MaxHits[d] |->
                      IF i = h THEN hit ELSE IF i > h /\ i <= n + 1 THEN hits[d][i - 1] ELSE hits[d][i]]
<1>1. n \in Nat /\ MaxHits[d] \in Nat /\ n < MaxHits[d]
  BY DecoderAssumption DEF ListsInv
<1>2. hits' = [hits EXCEPT ![d] = list] /\ hitcount' = [hitcount EXCEPT ![d] = n + 1]
  BY DEF Insert
<1>3. DOMAIN hits = Detectors /\ DOMAIN hitcount = Detectors
  BY DEF ListsInv
<1>4. \A i \in 1 .. n + 1 : list[i] = IF i < h THEN hits[d][i] ELSE IF i = h THEN hit ELSE hits[d][i - 1]
  <2> SUFFICES ASSUME NEW i \in 1 .. n + 1
               PROVE  list[i] = IF i < h THEN hits[d][i] ELSE IF i = h THEN hit ELSE hits[d][i - 1]
    OBVIOUS
  <2>1. i \in 1 .. MaxHits[d]
    BY <1>1
  <2> QED
    BY <2>1, <1>1
<1> HIDE DEF list, n
<1>5. hits'[d] = list /\ hitcount'[d] = n + 1
  BY <1>2, <1>3
<1> QED
  BY <1>4, <1>5 DEF n

\* Where a word of another place is stored
LEMMA PlaceParts ==
  ASSUME ListsInv, SortedInv, NEW d \in Detectors, NEW x, x.plane \in Int, x.counter \in Int
  PROVE  /\ hitcount[d] \in Nat /\ MaxHits[d] \in Nat /\ hitcount[d] <= MaxHits[d]
         /\ Place(d, x) \in 0 .. hitcount[d]
         /\ \A i \in 1 .. hitcount[d] : hits[d][i] \in Hit
         /\ \A i \in 1 .. hitcount[d] : i > Place(d, x) => Before(x, hits[d][i])
         /\ ~Found(d, x) => \A i \in 1 .. Place(d, x) : Before(hits[d][i], x)
         /\ ~Found(d, x) => \A i \in 1 .. hitcount[d] : ~SameCounter(x, hits[d][i])
<1>1. hitcount[d] \in Nat /\ MaxHits[d] \in Nat /\ hitcount[d] <= MaxHits[d]
  BY DecoderAssumption DEF ListsInv, SortedInv, SortedUpTo
<1>2. Place(d, x) \in 0 .. hitcount[d] /\ \A i \in 1 .. hitcount[d] : i > Place(d, x) => Before(x, hits[d][i])
  BY PlaceDivides
<1>3. \A i \in 1 .. hitcount[d] : hits[d][i] \in Hit
  BY <1>1 DEF ListsInv
<1>4. ~Found(d, x) => \A i \in 1 .. Place(d, x) : Before(hits[d][i], x)
  BY BeforePlace
<1>5. ASSUME ~Found(d, x), NEW i \in 1 .. hitcount[d] PROVE ~SameCounter(x, hits[d][i])
  <2>1. CASE i > Place(d, x)
    BY <1>2, <1>3, <2>1 DEF Before, SameCounter, Hit
  <2>2. CASE ~(i > Place(d, x))
    <3>1. i \in 1 .. Place(d, x)
      BY <1>1, <1>2, <2>2
    <3>2. Before(hits[d][i], x)
      BY <1>4, <1>5, <3>1
    <3> QED
      BY <1>3, <3>2 DEF Before, SameCounter, Hit
  <2> QED
    BY <2>1, <2>2
<1> QED
  BY <1>1, <1>2, <1>3, <1>4, <1>5

\* A detector with one signal stores the word, or has no room for it.
LEMMA WordStored ==
  ASSUME ListsInv, SortedInv, NEW d \in Detectors, NEW e, NEW ps, NEW p, p \notin ps, \A q \in ps : Earlier(q, p),
         HasWords(e, d, ps, hits[d], hitcount[d]), NEW w, w = WordAt(e, p),
         NEW x, x.plane \in Int, x.counter \in Int,
         d # UNINST_ID => \A hit : Of(w, hit) <=> SameCounter(x, hit),
         SingleHit(d, x, w.low)
  PROVE  HasWords(e, d, ps \cup {p}, hits'[d], hitcount'[d])
<1> DEFINE n == hitcount[d]
           list == hits[d]
<1>1. PICK word \in [1 .. n -> ps] :
        /\ \A i \in 1..n :
             /\ list[i].signal[0] = WordAt(e, word[i]).low
             /\ d # UNINST_ID => Of(WordAt(e, word[i]), list[i])
             /\ \A j \in 1..n :
                  /\ i # j => word[i] # word[j]
                  /\ i < j /\ SameCounter(list[i], list[j]) => Earlier(word[i], word[j])
        /\ \A q \in ps \ {word[i] : i \in 1..n} : n = MaxHits[d] /\ \A i \in 1..n : Earlier(word[i], q)
  BY DEF HasWords
<1>2. /\ n \in Nat /\ MaxHits[d] \in Nat /\ n <= MaxHits[d]
      /\ Place(d, x) \in 0 .. n /\ \A i \in 1 .. n : list[i] \in Hit
      /\ \A i \in 1 .. n : i > Place(d, x) => Before(x, list[i])
  BY PlaceParts
<1>3. CASE ~(n < MaxHits[d])
  <2>1. UNCHANGED <<hits, hitcount>>
    BY <1>3 DEF SingleHit
  <2>2. n = MaxHits[d] /\ word \in [1 .. n -> ps \cup {p}] /\ \A i \in 1 .. n : word[i] \in ps
    BY <1>1, <1>2, <1>3
  <2>3. \A q \in (ps \cup {p}) \ {word[i] : i \in 1..n} : n = MaxHits[d] /\ \A i \in 1..n : Earlier(word[i], q)
    BY <1>1, <2>2
  <2>4. HasWords(e, d, ps \cup {p}, list, n)
    BY <1>1, <2>2, <2>3 DEF HasWords
  <2> QED
    BY <2>1, <2>4
<1>4. CASE n < MaxHits[d]
  <2> DEFINE h == Place(d, x) + 1
             hit == [FreshHit(d, h, x) EXCEPT !.signal[0] = w.low]
             now == [i \in 1 .. n + 1 |-> IF i < h THEN word[i] ELSE IF i = h THEN p ELSE word[i - 1]]
             list2 == hits'[d]
  <2>1. Insert(d, h, hit) /\ h \in 1 .. n + 1
    BY <1>2, <1>4 DEF SingleHit
  <2>2. hit.plane = x.plane /\ hit.counter = x.counter /\ hit.signal[0] = w.low
    BY DEF FreshHit
  <2>3. d # UNINST_ID => Of(w, hit)
    BY <2>2 DEF SameCounter
  <2> HIDE DEF hit, h
  <2>4. /\ hitcount'[d] = n + 1
        /\ \A i \in 1 .. n + 1 : list2[i] = IF i < h THEN list[i] ELSE IF i = h THEN hit ELSE list[i - 1]
    BY <1>4, <2>1, InsertIs
  <2> HIDE DEF list2
  <2>5. ASSUME NEW i \in 1 .. n + 1
        PROVE  \/ i < h /\ i \in 1 .. n /\ list2[i] = list[i] /\ now[i] = word[i]
               \/ i = h /\ list2[i] = hit /\ now[i] = p
               \/ i > h /\ i - 1 \in 1 .. n /\ list2[i] = list[i - 1] /\ now[i] = word[i - 1]
    BY <1>2, <2>1, <2>4
  <2>6. now \in [1 .. n + 1 -> ps \cup {p}]
    <3>1. ASSUME NEW i \in 1 .. n + 1 PROVE now[i] \in ps \cup {p}
      <4> HIDE DEF now
      <4> QED
        BY <1>1, <2>5
    <3> QED
      BY <3>1
  <2> HIDE DEF now
  <2>7. \A i \in 1 .. n : word[i] \in ps /\ word[i] # p /\ Earlier(word[i], p)
    BY <1>1
  <2>8. ASSUME NEW i \in 1 .. n + 1
        PROVE  /\ list2[i].signal[0] = WordAt(e, now[i]).low
               /\ d # UNINST_ID => Of(WordAt(e, now[i]), list2[i])
    BY <1>1, <2>2, <2>3, <2>5
  <2>9. ASSUME NEW i \in 1 .. n + 1, NEW j \in 1 .. n + 1, i < j
        PROVE  now[i] # now[j] /\ (SameCounter(list2[i], list2[j]) => Earlier(now[i], now[j]))
    <3>1. CASE j = h
      BY <2>5, <2>7, <2>9, <3>1
    <3>2. CASE i = h
      <4>1. /\ j > h /\ j - 1 \in 1 .. n /\ list2[j] = list[j - 1] /\ now[j] = word[j - 1]
            /\ list2[i] = hit /\ now[i] = p
        BY <2>5, <2>9, <3>2
      <4>2. Before(x, list[j - 1])
        BY <1>2, <4>1 DEF h
      <4>3. ~SameCounter(hit, list[j - 1])
        BY <1>2, <2>2, <4>1, <4>2 DEF Before, SameCounter, Hit
      <4> QED
        BY <2>7, <4>1, <4>3
    <3>3. CASE i # h /\ j # h
      <4>1. PICK k \in 1 .. n, m \in 1 .. n : /\ k < m /\ list2[i] = list[k] /\ now[i] = word[k]
                                              /\ list2[j] = list[m] /\ now[j] = word[m]
        BY <2>1, <2>5, <2>9, <3>3
      <4> QED
        BY <1>1, <4>1
    <3> QED
      BY <3>1, <3>2, <3>3
  <2>10. \A i, j \in 1 .. n + 1 : /\ i # j => now[i] # now[j]
                                  /\ i < j /\ SameCounter(list2[i], list2[j]) => Earlier(now[i], now[j])
    <3> SUFFICES ASSUME NEW i \in 1 .. n + 1, NEW j \in 1 .. n + 1
                 PROVE  /\ i # j => now[i] # now[j]
                        /\ i < j /\ SameCounter(list2[i], list2[j]) => Earlier(now[i], now[j])
      OBVIOUS
    <3>1. CASE i < j
      BY <2>9, <3>1
    <3>2. CASE j < i
      BY <2>9, <3>2
    <3>3. CASE i = j
      BY <3>3
    <3> QED
      BY <3>1, <3>2, <3>3
  <2>11. \A q \in ps : q \in {word[i] : i \in 1 .. n}
    <3>1. n # MaxHits[d]
      BY <1>2, <1>4
    <3> QED
      BY <1>1, <3>1
  <2>12. \A i \in 1 .. n : \E k \in 1 .. n + 1 : now[k] = word[i]
    <3> SUFFICES ASSUME NEW i \in 1 .. n PROVE \E k \in 1 .. n + 1 : now[k] = word[i]
      OBVIOUS
    <3>1. CASE i < h
      <4>1. i \in 1 .. n + 1
        BY <1>2
      <4> QED
        BY <2>1, <2>5, <3>1, <4>1
    <3>2. CASE ~(i < h)
      <4>1. i + 1 \in 1 .. n + 1 /\ (i + 1) - 1 = i /\ i + 1 > h
        BY <1>2, <2>1, <3>2
      <4>2. now[i + 1] = word[(i + 1) - 1]
        BY <2>1, <2>5, <4>1
      <4> QED
        BY <4>1, <4>2
    <3> QED
      BY <3>1, <3>2
  <2>13. \A q \in ps \cup {p} : q \in {now[k] : k \in 1 .. n + 1}
    BY <2>1, <2>5, <2>11, <2>12
  <2>14. HasWords(e, d, ps \cup {p}, list2, n + 1)
    BY <2>6, <2>8, <2>10, <2>13 DEF HasWords
  <2> QED
    BY <2>4, <2>14 DEF list2
<1> QED
  BY <1>3, <1>4

\* While its counters are new to the list, a detector with several signals has room.
LEMMA RoomForCounter ==
  ASSUME TrueMap, ListsInv, SortedInv, NEW d \in Detectors, SignalCount[d] # 1, NEW e, NEW ps,
         HasSignals(e, ps, hits[d], hitcount[d]),
         \A q \in ps : \E c : IsCounter(d, WordAt(e, q), c),
         NEW w, NEW x, IsCounter(d, w, x), ~Found(d, x)
  PROVE  hitcount[d] < MaxHits[d]
<1> DEFINE n == hitcount[d]
           list == hits[d]
           f == [i \in 1 .. n + 1 |-> IF i <= n THEN <<list[i].plane, list[i].counter>> ELSE <<x.plane, x.counter>>]
<1>1. x.plane \in Int /\ x.counter \in Int /\ <<x.plane, x.counter>> \in Counters(d)
  BY DEF IsCounter
<1>2. /\ n \in Nat /\ MaxHits[d] \in Nat /\ n <= MaxHits[d] /\ \A i \in 1 .. n : list[i] \in Hit
      /\ \A i \in 1 .. n : ~SameCounter(x, list[i])
  BY <1>1, PlaceParts
<1>3. IsFiniteSet(Counters(d)) /\ Cardinality(Counters(d)) \in Nat /\ Cardinality(Counters(d)) <= MaxHits[d]
  <2>1. IsFiniteSet(Counters(d))
    BY CountersFinite
  <2>2. Cardinality(Counters(d)) <= MaxHits[d]
    BY DEF TrueMap
  <2> QED
    BY <2>1, <2>2, FS_CardinalityType
<1> SUFFICES ASSUME n = MaxHits[d] PROVE FALSE
  BY <1>2
<1>4. ASSUME NEW i \in 1 .. n PROVE <<list[i].plane, list[i].counter>> \in Counters(d)
  <2>1. PICK q \in ps : Of(WordAt(e, q), list[i])
    BY DEF HasSignals
  <2>2. PICK c : IsCounter(d, WordAt(e, q), c)
    OBVIOUS
  <2>3. SameCounter(c, list[i]) /\ <<c.plane, c.counter>> \in Counters(d)
    BY <2>1, <2>2 DEF IsCounter
  <2> QED
    BY <2>3 DEF SameCounter
<1>5. f \in [1 .. n + 1 -> Counters(d)]
  <2>1. ASSUME NEW i \in 1 .. n + 1 PROVE f[i] \in Counters(d)
    <3>1. CASE i <= n
      BY <1>2, <1>4, <3>1
    <3>2. CASE ~(i <= n)
      BY <1>1, <3>2
    <3> QED
      BY <3>1, <3>2
  <2> QED
    BY <2>1
<1>6. \A i \in 1 .. n : f[i] = <<list[i].plane, list[i].counter>> /\ i \in 1 .. n + 1
  BY <1>2
<1>7. f[n + 1] = <<x.plane, x.counter>>
  BY <1>2
<1> HIDE DEF f
<1>8. IsFiniteSet(1 .. n + 1) /\ Cardinality(1 .. n + 1) = n + 1
  BY SMTT(30), <1>2, FS_Interval
<1>9. PICK i, j \in 1 .. n + 1 : i # j /\ f[i] = f[j]
  <2>1. Cardinality(Counters(d)) < Cardinality(1 .. n + 1)
    BY <1>2, <1>3, <1>8
  <2>2. PICK A, B, g : A = 1 .. n + 1 /\ B = Counters(d) /\ g = f
    OBVIOUS
  <2>3. IsFiniteSet(A) /\ IsFiniteSet(B) /\ Cardinality(B) < Cardinality(A) /\ g \in [A -> B]
    BY <1>3, <1>5, <1>8, <2>1, <2>2
  <2>4. \E i, j \in A : i # j /\ g[i] = g[j]
    BY <2>3, FS_PigeonHole
  <2> QED
    BY <2>2, <2>4
<1>10. ASSUME NEW k \in 1 .. n + 1, NEW m \in 1 .. n + 1, k < m, f[k] = f[m] PROVE FALSE
  <2>1. k \in 1 .. n
    BY <1>2, <1>10
  <2>2. CASE m = n + 1
    <3>1. list[k].plane = x.plane /\ list[k].counter = x.counter
      BY <1>6, <1>7, <1>10, <2>1, <2>2
    <3> QED
      BY <1>2, <2>1, <3>1 DEF SameCounter
  <2>3. CASE m # n + 1
    <3>1. m \in 1 .. n
      BY <1>2, <2>3
    <3>2. list[k].plane = list[m].plane /\ list[k].counter = list[m].counter
      BY <1>6, <1>10, <2>1, <3>1
    <3>3. InOrder(d, list[k], list[m])
      BY <1>10, <2>1, <3>1 DEF SortedInv, SortedUpTo
    <3> QED
      BY <1>2, <2>1, <3>1, <3>2, <3>3 DEF InOrder, Before, Hit
  <2> QED
    BY <2>2, <2>3
<1>11. i < j \/ j < i
  BY <1>9
<1> QED
  BY <1>9, <1>10, <1>11

\* A later word of the same counter and signal replaces the value, others keep it.
LEMMA IsLastNext ==
  ASSUME NEW e, NEW ps, NEW p, \A q \in ps : Earlier(q, p), NEW x, NEW s, NEW value, NEW new,
         IsLast(e, ps, x, s, value),
         new = IF OfSignal(WordAt(e, p), x, s) THEN WordAt(e, p).low ELSE value
  PROVE  IsLast(e, ps \cup {p}, x, s, new)
<1> DEFINE told == {q \in ps : OfSignal(WordAt(e, q), x, s)}
           now == {q \in ps \cup {p} : OfSignal(WordAt(e, q), x, s)}
<1>1. CASE OfSignal(WordAt(e, p), x, s)
  <2>1. p \in now /\ \A q \in now : q = p \/ Earlier(q, p)
    BY <1>1
  <2> QED
    BY <1>1, <2>1 DEF IsLast
<1>2. CASE ~OfSignal(WordAt(e, p), x, s)
  <2>1. now = told
    BY <1>2
  <2> QED
    BY <1>2, <2>1 DEF IsLast
<1> QED
  BY <1>1, <1>2

\* Only the counter of the hit matters.
LEMMA IsLastSame ==
  ASSUME NEW e, NEW ps, NEW x, NEW y, NEW s, NEW value, SameCounter(x, y), IsLast(e, ps, x, s, value)
  PROVE  IsLast(e, ps, y, s, value)
<1>1. \A w : OfSignal(w, y, s) <=> OfSignal(w, x, s)
  BY DEF OfSignal, SameCounter
<1> QED
  BY <1>1 DEF IsLast

\* A detector with several signals stores the value with the hit of the counter, a
\* new one if need be.
LEMMA SignalStored ==
  ASSUME TrueMap, ListsInv, SortedInv, NEW d \in Detectors, SignalCount[d] # 1, NEW e, NEW ps, NEW p,
         \A q \in ps : Earlier(q, p), HasSignals(e, ps, hits[d], hitcount[d]),
         \A q \in ps : \E c : IsCounter(d, WordAt(e, q), c),
         NEW w, w = WordAt(e, p), NEW x, IsCounter(d, w, x), x.sigtyp \in 0 .. 3,
         MultipleHit(d, x, w.low)
  PROVE  HasSignals(e, ps \cup {p}, hits'[d], hitcount'[d])
<1> DEFINE n == hitcount[d]
           list == hits[d]
           h == Place(d, x)
<1>1. x.plane \in Int /\ x.counter \in Int
  BY DEF IsCounter
<1>2. /\ n \in Nat /\ MaxHits[d] \in Nat /\ n <= MaxHits[d] /\ \A i \in 1 .. n : list[i] \in Hit
      /\ h \in 0 .. n /\ (~Found(d, x) => \A i \in 1 .. n : ~SameCounter(x, list[i]))
  BY <1>1, PlaceParts
<1>3. \A hit, s : OfSignal(w, hit, s) <=> SameCounter(x, hit) /\ s = x.sigtyp
  BY DEF IsCounter
<1>4. \A hit : Of(w, hit) <=> SameCounter(x, hit)
  BY DEF IsCounter
<1>5. CASE Found(d, x)
  <2>1. h > 0 /\ SameCounter(list[h], x) /\ h \in 1 .. n /\ h \in 1 .. MaxHits[d]
    BY <1>2, <1>5 DEF Found
  <2> HIDE DEF h
  <2>2. hits' = [hits EXCEPT ![d][h].signal[x.sigtyp] = w.low] /\ hitcount' = hitcount
    BY <1>5 DEF MultipleHit, h
  <2> DEFINE new == [list[h] EXCEPT !.signal[x.sigtyp] = w.low]
             list2 == hits'[d]
  <2>3. list[h] \in Hit /\ list[h].signal \in [0 .. 3 -> Int]
    BY <1>2, <2>1 DEF Hit
  <2>4. /\ new.plane = list[h].plane /\ new.counter = list[h].counter
        /\ \A s \in 0 .. 3 : new.signal[s] = IF s = x.sigtyp THEN w.low ELSE list[h].signal[s]
    BY <2>3 DEF Hit
  <2>5. hits[d] \in [1 .. MaxHits[d] -> Hit] /\ d \in DOMAIN hits
    BY DEF ListsInv
  <2>6. hits' = [hits EXCEPT ![d] = [list EXCEPT ![h] = new]]
    BY <2>2
  <2> HIDE DEF new
  <2>7. \A i \in 1 .. n : list2[i] = IF i = h THEN new ELSE list[i]
    <3>1. list2 = [list EXCEPT ![h] = new]
      BY <2>5, <2>6
    <3>2. 1 .. n \subseteq 1 .. MaxHits[d]
      BY <1>2
    <3> HIDE DEF list2
    <3> QED
      BY <2>5, <3>1, <3>2
  <2> HIDE DEF list2
  <2>8. ASSUME NEW i \in 1 .. n, i # h PROVE ~SameCounter(x, list[i])
    <3>1. CASE i < h
      <4>1. InOrder(d, list[i], list[h])
        BY <2>1, <3>1 DEF SortedInv, SortedUpTo
      <4> QED
        BY <1>1, <1>2, <2>1, <4>1 DEF InOrder, Before, SameCounter, Hit
    <3>2. CASE h < i
      <4>1. InOrder(d, list[h], list[i])
        BY <2>1, <3>2 DEF SortedInv, SortedUpTo
      <4> QED
        BY <1>1, <1>2, <2>1, <4>1 DEF InOrder, Before, SameCounter, Hit
    <3> QED
      BY <2>1, <2>8, <3>1, <3>2
  <2>9. \A i \in 1 .. n : SameCounter(list[i], list2[i])
    BY <2>4, <2>7 DEF SameCounter
  <2>10. \A v, i : i \in 1 .. n => (Of(v, list2[i]) <=> Of(v, list[i]))
    BY <2>9 DEF Of, SameCounter
  <2>11. Of(w, list2[h])
    <3>1. SameCounter(x, list2[h])
      BY <2>1, <2>9 DEF SameCounter
    <3> QED
      BY <1>4, <3>1
  <2>12. ASSUME NEW i \in 1 .. n, NEW s \in 0 .. 3
         PROVE  IsLast(e, ps \cup {p}, list2[i], s, list2[i].signal[s])
    <3>1. IsLast(e, ps, list[i], s, list[i].signal[s])
      BY DEF HasSignals
    <3>2. list2[i].signal[s] = IF OfSignal(w, list[i], s) THEN w.low ELSE list[i].signal[s]
      <4>1. CASE i = h
        <5>1. OfSignal(w, list[i], s) <=> s = x.sigtyp
          BY <1>3, <2>1, <4>1 DEF SameCounter
        <5> QED
          BY <2>4, <2>7, <4>1, <5>1
      <4>2. CASE i # h
        BY <1>3, <2>7, <2>8, <4>2
      <4> QED
        BY <4>1, <4>2
    <3>3. IsLast(e, ps \cup {p}, list[i], s, list2[i].signal[s])
      BY <3>1, <3>2, IsLastNext
    <3> QED
      BY <2>9, <3>3, IsLastSame
  <2>13. \A q \in ps \cup {p} : \E i \in 1 .. n : Of(WordAt(e, q), list2[i])
    BY <2>1, <2>10, <2>11 DEF HasSignals
  <2>14. \A i \in 1 .. n : \E q \in ps \cup {p} : Of(WordAt(e, q), list2[i])
    BY <2>10 DEF HasSignals
  <2>15. HasSignals(e, ps \cup {p}, list2, n)
    BY <2>12, <2>13, <2>14 DEF HasSignals
  <2> QED
    BY <2>2, <2>15 DEF list2
<1>6. CASE ~Found(d, x)
  <2> DEFINE hit == [FreshHit(d, h + 1, x) EXCEPT !.signal[x.sigtyp] = w.low]
             list2 == hits'[d]
  <2>1. n < MaxHits[d]
    BY <1>6, RoomForCounter
  <2>2. Insert(d, h + 1, hit) /\ h + 1 \in 1 .. n + 1
    BY <1>2, <1>6, <2>1 DEF MultipleHit
  <2>3. /\ hit.plane = x.plane /\ hit.counter = x.counter
        /\ \A s \in 0 .. 3 : hit.signal[s] = IF s = x.sigtyp THEN w.low ELSE -1
    BY DEF FreshHit
  <2> HIDE DEF hit
  <2>4. /\ hitcount'[d] = n + 1
        /\ \A i \in 1 .. n + 1 : list2[i] = IF i < h + 1 THEN list[i] ELSE IF i = h + 1 THEN hit ELSE list[i - 1]
    BY <2>1, <2>2, InsertIs
  <2> HIDE DEF list2, h
  <2>5. \A i \in 1 .. n + 1 : list2[i] = hit \/ \E k \in 1 .. n : list2[i] = list[k]
    <3> SUFFICES ASSUME NEW i \in 1 .. n + 1 PROVE list2[i] = hit \/ \E k \in 1 .. n : list2[i] = list[k]
      OBVIOUS
    <3>1. CASE i < h + 1
      BY <1>2, <2>4, <3>1
    <3>2. CASE i = h + 1
      BY <2>4, <3>2
    <3>3. CASE i > h + 1
      <4>1. i - 1 \in 1 .. n /\ list2[i] = list[i - 1]
        BY <1>2, <2>4, <3>3
      <4> QED
        BY <4>1
    <3> QED
      BY <1>2, <3>1, <3>2, <3>3
  <2>6. ASSUME NEW k \in 1 .. n PROVE \E i \in 1 .. n + 1 : list2[i] = list[k]
    <3>1. CASE k < h + 1
      <4>1. k \in 1 .. n + 1
        BY <1>2
      <4> QED
        BY <2>4, <3>1, <4>1
    <3>2. CASE ~(k < h + 1)
      <4>1. k + 1 \in 1 .. n + 1 /\ (k + 1) - 1 = k /\ ~(k + 1 < h + 1) /\ k + 1 # h + 1
        BY <1>2, <3>2
      <4>2. list2[k + 1] = list[(k + 1) - 1]
        BY <2>4, <4>1
      <4> QED
        BY <4>1, <4>2
    <3> QED
      BY <3>1, <3>2
  <2>7. list2[h + 1] = hit
    BY <1>2, <2>2, <2>4
  <2>8. SameCounter(x, hit) /\ Of(w, hit)
    BY <1>4, <2>3 DEF SameCounter
  <2>9. \A q \in ps \cup {p} : \E i \in 1 .. n + 1 : Of(WordAt(e, q), list2[i])
    <3> SUFFICES ASSUME NEW q \in ps \cup {p} PROVE \E i \in 1 .. n + 1 : Of(WordAt(e, q), list2[i])
      OBVIOUS
    <3>1. CASE q = p
      BY <2>2, <2>7, <2>8, <3>1
    <3>2. CASE q \in ps
      <4>1. PICK k \in 1 .. n : Of(WordAt(e, q), list[k])
        BY <3>2 DEF HasSignals
      <4> QED
        BY <2>6, <4>1
    <3> QED
      BY <3>1, <3>2
  <2>10. \A i \in 1 .. n + 1 : \E q \in ps \cup {p} : Of(WordAt(e, q), list2[i])
    <3> SUFFICES ASSUME NEW i \in 1 .. n + 1 PROVE \E q \in ps \cup {p} : Of(WordAt(e, q), list2[i])
      OBVIOUS
    <3>1. CASE list2[i] = hit
      BY <2>8, <3>1
    <3>2. CASE \E k \in 1 .. n : list2[i] = list[k]
      <4>1. PICK k \in 1 .. n : list2[i] = list[k]
        BY <3>2
      <4>2. PICK q \in ps : Of(WordAt(e, q), list[k])
        BY DEF HasSignals
      <4> QED
        BY <4>1, <4>2
    <3> QED
      BY <2>5, <3>1, <3>2
  <2>11. ASSUME NEW s \in 0 .. 3 PROVE IsLast(e, ps, hit, s, -1)
    <3>1. ASSUME NEW q \in ps PROVE ~OfSignal(WordAt(e, q), hit, s)
      <4>1. PICK c : IsCounter(d, WordAt(e, q), c)
        OBVIOUS
      <4>2. PICK k \in 1 .. n : Of(WordAt(e, q), list[k])
        BY DEF HasSignals
      <4>3. SameCounter(c, list[k])
        BY <4>1, <4>2 DEF IsCounter
      <4>4. ~SameCounter(c, hit)
        BY <1>2, <1>6, <2>8, <4>3 DEF SameCounter
      <4> QED
        BY <4>1, <4>4 DEF IsCounter
    <3> QED
      BY <3>1 DEF IsLast
  <2>12. ASSUME NEW i \in 1 .. n + 1, NEW s \in 0 .. 3
         PROVE  IsLast(e, ps \cup {p}, list2[i], s, list2[i].signal[s])
    <3>1. CASE list2[i] = hit
      <4>1. hit.signal[s] = IF OfSignal(w, hit, s) THEN w.low ELSE -1
        BY <1>3, <2>3, <2>8
      <4>2. IsLast(e, ps \cup {p}, hit, s, hit.signal[s])
        BY <2>11, <4>1, IsLastNext
      <4> QED
        BY <3>1, <4>2
    <3>2. CASE \E k \in 1 .. n : list2[i] = list[k]
      <4>1. PICK k \in 1 .. n : list2[i] = list[k]
        BY <3>2
      <4>2. IsLast(e, ps, list[k], s, list[k].signal[s])
        BY DEF HasSignals
      <4>3. list[k].signal[s] = IF OfSignal(w, list[k], s) THEN w.low ELSE list[k].signal[s]
        BY <1>2, <1>3, <1>6
      <4>4. IsLast(e, ps \cup {p}, list[k], s, list[k].signal[s])
        BY <4>2, <4>3, IsLastNext
      <4> QED
        BY <4>1, <4>4
    <3> QED
      BY <2>5, <3>1, <3>2
  <2>13. HasSignals(e, ps \cup {p}, list2, n + 1)
    BY <2>9, <2>10, <2>12 DEF HasSignals
  <2> QED
    BY <2>4, <2>13 DEF list2
<1> QED
  BY <1>5, <1>6

-----------------------------------------------------------------------------
(* The walk over the words. *)

\* The words of a detector before a place
SaidBefore(e, d, c) == {p \in Said(e, d) : Earlier(p, c)}
\* What the lists hold when the decoding has come to c
Holds(e, c, lists, n) ==
  \A d \in Detectors :
    IF SignalCount[d] = 1 THEN HasWords(e, d, SaidBefore(e, d, c), lists[d], n[d])
                          ELSE HasSignals(e, SaidBefore(e, d, c), lists[d], n[d])

\* Word i is in the part of a bank that ends at l, of the ROC r, or after its end.
InPart(b, ws, i, l, r) ==
  /\ ws = b.words /\ Start(b) <= i /\ i <= l + 1
  /\ \/ l = Switch(b) /\ r = RocOf(b, 1)
     \/ l = Len(ws) /\ r = RocOf(b, Len(ws)) /\ Switch(b) < i /\ Switch(b) < Len(ws)

\* The slot is that of a word before i, or of word i if it is data that have only been
\* looked at, and no data of another slot have come since.
SlotSeen(ws, i, s) ==
  \E j \in 1 .. Len(ws) : /\ ws[j].slot = s
                          /\ j < i \/ (j = i /\ ws[j].of # 0)
                          /\ \A k \in j + 1 .. i - 1 : ws[k].of # 0 => ws[k].slot = s

InBank == pc \in {"bank", "detector"}
Cursor == IF InBank THEN <<bank, pointer>> ELSE <<bank + 1, 1>>

PartInv ==
  /\ pc = "idle" => bank = Len(event)
  /\ InBank => /\ bank \in 1 .. Len(event) /\ ~NoHits(event[bank].roc)
               /\ InPart(event[bank], words, pointer, last, roc)
SlotInv == InBank /\ slot # -1 => SlotSeen(words, pointer, slot)
DoneInv == Holds(event, Cursor, hits, hitcount)

WordsInv == PartInv /\ SlotInv /\ DoneInv

Banks == [roc : Nat, words : Seq(Word)]

LEMMA EventIs ==
  ASSUME WalkInv
  PROVE  /\ event \in Seq(Banks) /\ DOMAIN event = 1 .. Len(event) /\ Len(event) \in Nat
         /\ event # <<>> => event \in Events
         /\ \A b \in DOMAIN event :
              /\ event[b].words \in Seq(Word)
              /\ IsFrontEnd(event[b].roc) => 1 < Len(event[b].words) /\ event[b].words[1].low < Len(event[b].words)
<1>1. event \in Events \cup {<<>>}
  BY DEF WalkInv
<1>2. event \in Seq(Banks)
  <2>1. CASE event \in Events
    BY <2>1, EventsAssumption DEF Banks
  <2>2. CASE event = <<>>
    BY <2>2
  <2> QED
    BY <1>1, <2>1, <2>2
<1>3. DOMAIN event = 1 .. Len(event) /\ Len(event) \in Nat
  BY <1>2
<1> QED
  BY <1>1, <1>2, <1>3, BanksHaveWords

LEMMA SaidIs ==
  ASSUME NEW e \in Seq(Banks), NEW d, NEW p
  PROVE  p \in Said(e, d) <=> \E b \in DOMAIN e : \E k \in DOMAIN e[b].words :
                                p = <<b, k>> /\ ~NoHits(e[b].roc) /\ IsMine(d, e[b].words[k])
<1>1. p \in Places(e) <=> \E b \in DOMAIN e : \E k \in DOMAIN e[b].words : p = <<b, k>> /\ ~NoHits(e[b].roc)
  BY DEF Places
<1>2. \A b, k : p = <<b, k>> => WordAt(e, p) = e[b].words[k]
  BY DEF WordAt
<1> QED
  BY <1>1, <1>2 DEF Said

\* Words are at places.
LEMMA PlacesAre ==
  ASSUME NEW e \in Seq(Banks), NEW b \in DOMAIN e
  PROVE  b \in Int /\ \A k \in DOMAIN e[b].words : k \in Int /\ 1 <= k /\ k <= Len(e[b].words)
<1>1. b \in Int /\ e[b] \in Banks
  OBVIOUS
<1>2. PICK ws : ws = e[b].words
  OBVIOUS
<1>3. ws \in Seq(Word)
  BY <1>1, <1>2 DEF Banks
<1>4. \A k \in DOMAIN ws : k \in Int /\ 1 <= k /\ k <= Len(ws)
  BY <1>3
<1> QED
  BY <1>1, <1>2, <1>4

\* Words that are not of the detector change nothing,
LEMMA Passed ==
  ASSUME NEW e \in Seq(Banks), NEW d, NEW b \in Int, NEW i \in Int, NEW j \in Int, i <= j,
         b \in DOMAIN e => \A k \in DOMAIN e[b].words : i <= k /\ k < j => ~IsMine(d, e[b].words[k])
  PROVE  SaidBefore(e, d, <<b, j>>) = SaidBefore(e, d, <<b, i>>)
<1> SUFFICES ASSUME NEW p \in Said(e, d) PROVE Earlier(p, <<b, j>>) <=> Earlier(p, <<b, i>>)
  BY DEF SaidBefore
<1>1. PICK c, k : /\ c \in DOMAIN e /\ k \in DOMAIN e[c].words
                  /\ p = <<c, k>> /\ ~NoHits(e[c].roc) /\ IsMine(d, e[c].words[k])
  BY SaidIs
<1>2. c \in Int /\ k \in Int
  BY <1>1, PlacesAre
<1>3. ~(c = b /\ i <= k /\ k < j)
  BY <1>1
<1>4. p[1] = c /\ p[2] = k
  BY <1>1
<1> QED
  BY <1>2, <1>3, <1>4 DEF Earlier

\* one of it is added,
LEMMA PassedWord ==
  ASSUME NEW e \in Seq(Banks), NEW d, NEW b \in Int, NEW i \in Int, NEW j, j = i + 1,
         b \in DOMAIN e, i \in DOMAIN e[b].words, ~NoHits(e[b].roc), IsMine(d, e[b].words[i])
  PROVE  /\ \A q : q \in SaidBefore(e, d, <<b, j>>) <=> q \in SaidBefore(e, d, <<b, i>>) \/ q = <<b, i>>
         /\ <<b, i>> \notin SaidBefore(e, d, <<b, i>>)
         /\ \A q \in SaidBefore(e, d, <<b, i>>) : Earlier(q, <<b, i>>)
<1>1. b \in Int /\ i \in Int
  OBVIOUS
<1>2. <<b, i>> \in Said(e, d)
  BY SaidIs
<1>3. ~Earlier(<<b, i>>, <<b, i>>) /\ Earlier(<<b, i>>, <<b, j>>)
  BY <1>1 DEF Earlier
<1>4. ASSUME NEW p \in Said(e, d) PROVE Earlier(p, <<b, j>>) <=> Earlier(p, <<b, i>>) \/ p = <<b, i>>
  <2>1. PICK c, k : c \in DOMAIN e /\ k \in DOMAIN e[c].words /\ p = <<c, k>>
    BY SaidIs
  <2>2. c \in Int /\ k \in Int /\ p[1] = c /\ p[2] = k
    BY <2>1, PlacesAre
  <2> QED
    BY <1>1, <2>1, <2>2 DEF Earlier
<1> QED
  BY <1>2, <1>3, <1>4 DEF SaidBefore

\* and after the last word of a bank comes the next bank.
LEMMA PassedBank ==
  ASSUME NEW e \in Seq(Banks), NEW d, NEW b \in Int, NEW i \in Int,
         b \in DOMAIN e => NoHits(e[b].roc) \/ i > Len(e[b].words)
  PROVE  SaidBefore(e, d, <<b + 1, 1>>) = SaidBefore(e, d, <<b, i>>)
<1> SUFFICES ASSUME NEW p \in Said(e, d) PROVE Earlier(p, <<b + 1, 1>>) <=> Earlier(p, <<b, i>>)
  BY DEF SaidBefore
<1>1. PICK c, k : c \in DOMAIN e /\ k \in DOMAIN e[c].words /\ p = <<c, k>> /\ ~NoHits(e[c].roc)
  BY SaidIs
<1>2. c \in Int /\ k \in Int /\ 1 <= k /\ k <= Len(e[c].words)
  BY <1>1, PlacesAre
<1>3. c = b => k < i
  <2> SUFFICES ASSUME c = b PROVE k < i
    OBVIOUS
  <2>1. i > Len(e[c].words)
    BY <1>1
  <2>2. Len(e[c].words) \in Int
    <3>1. e[c] \in Banks
      BY <1>1
    <3>2. PICK ws \in Seq(Word) : ws = e[c].words
      BY <3>1 DEF Banks
    <3> QED
      BY <3>2
  <2> QED
    BY <1>2, <2>1, <2>2
<1>4. p[1] = c /\ p[2] = k
  BY <1>1
<1> QED
  BY <1>2, <1>3, <1>4 DEF Earlier

\* Nothing comes before the first bank, everything before the end.
LEMMA NothingBefore ==
  ASSUME NEW e \in Seq(Banks), NEW d
  PROVE  SaidBefore(e, d, <<0 + 1, 1>>) = {} /\ SaidBefore(e, d, <<Len(e) + 1, 1>>) = Said(e, d)
<1> SUFFICES ASSUME NEW p \in Said(e, d) PROVE ~Earlier(p, <<0 + 1, 1>>) /\ Earlier(p, <<Len(e) + 1, 1>>)
  BY DEF SaidBefore
<1>1. PICK c, k : c \in DOMAIN e /\ k \in DOMAIN e[c].words /\ p = <<c, k>>
  BY SaidIs
<1>2. c \in Int /\ k \in Int /\ 1 <= k /\ c \in 1 .. Len(e) /\ Len(e) \in Nat
  BY <1>1, PlacesAre
<1>3. p[1] = c /\ p[2] = k
  BY <1>1
<1> QED
  BY <1>2, <1>3 DEF Earlier

\* An empty list holds what no words say.
LEMMA NothingHeld ==
  ASSUME NEW e \in Seq(Banks), NEW lists, NEW n, \A d \in Detectors : n[d] = 0
  PROVE  Holds(e, <<0 + 1, 1>>, lists, n)
<1> SUFFICES ASSUME NEW d \in Detectors
             PROVE  HasWords(e, d, {}, lists[d], 0) /\ HasSignals(e, {}, lists[d], 0)
  BY NothingBefore DEF Holds
<1>1. HasSignals(e, {}, lists[d], 0)
  BY DEF HasSignals
<1>2. HasWords(e, d, {}, lists[d], 0)
  <2>1. [i \in 1 .. 0 |-> 0] \in [1 .. 0 -> {}]
    OBVIOUS
  <2> QED
    BY <2>1 DEF HasWords
<1> QED
  BY <1>1, <1>2

\* The place may change if no words come between.
LEMMA HoldsThere ==
  ASSUME NEW e, NEW c, NEW t, NEW lists, NEW n, Holds(e, c, lists, n),
         \A d \in Detectors : SaidBefore(e, d, t) = SaidBefore(e, d, c)
  PROVE  Holds(e, t, lists, n)
BY DEF Holds

\* A bank is one part or two.
IsBank(b) ==
  /\ b.words \in Seq(Word)
  /\ IsFrontEnd(b.roc) => 1 < Len(b.words) /\ b.words[1].low < Len(b.words)
  /\ TrueBank(b)

LEMMA BankParts ==
  ASSUME NEW b, IsBank(b)
  PROVE  /\ Start(b) \in {1, 3} /\ Switch(b) \in Nat /\ Len(b.words) \in Nat
         /\ Start(b) <= Switch(b) + 1 /\ Switch(b) <= Len(b.words)
         /\ Switch(b) = Len(b.words) \/ Switch(b) + 2 <= Len(b.words)
         /\ IF IsFrontEnd(b.roc) THEN Start(b) = 3 /\ Switch(b) = 1 + b.words[1].low
                                 ELSE Start(b) = 1 /\ Switch(b) = Len(b.words)
<1>1. PICK ws \in Seq(Word) : ws = b.words
  BY DEF IsBank
<1>2. Start(b) <= Switch(b) + 1 /\ Switch(b) + 1 # Len(ws) /\ Len(ws) \in Nat
  BY <1>1 DEF IsBank, TrueBank
<1>3. CASE IsFrontEnd(b.roc)
  <2>1. 1 < Len(ws) /\ ws[1].low < Len(ws)
    BY <1>1, <1>3 DEF IsBank
  <2>2. ws[1] \in Word
    BY <2>1
  <2>3. ws[1].low \in Int
    BY <2>2 DEF Word
  <2>4. Start(b) = 3 /\ Switch(b) = 1 + ws[1].low
    BY <1>1, <1>3 DEF Start, Switch
  <2> QED
    BY SMTT(30), <1>1, <1>2, <1>3, <2>1, <2>3, <2>4
<1>4. CASE ~IsFrontEnd(b.roc)
  <2>1. Start(b) = 1 /\ Switch(b) = Len(ws)
    BY <1>1, <1>4 DEF Start, Switch
  <2> QED
    BY <1>1, <1>2, <1>4, <2>1
<1> QED
  BY <1>3, <1>4

\* In a part of a bank the ROC is that of the part.
LEMMA RocHere ==
  ASSUME NEW b, IsBank(b), NEW ws, NEW i \in Nat, NEW l, NEW r, InPart(b, ws, i, l, r), i <= l
  PROVE  /\ ws = b.words /\ Start(b) <= i /\ i \in 1 .. Len(b.words) /\ r = RocOf(b, i)
         /\ l = IF i <= Switch(b) THEN Switch(b) ELSE Len(b.words)
<1>1. /\ Start(b) \in {1, 3} /\ Switch(b) \in Nat /\ Len(b.words) \in Nat
      /\ Start(b) <= Switch(b) + 1 /\ Switch(b) <= Len(b.words)
      /\ IF IsFrontEnd(b.roc) THEN Start(b) = 3 ELSE Start(b) = 1 /\ Switch(b) = Len(b.words)
  BY BankParts
<1>2. ws = b.words /\ Start(b) <= i
  BY DEF InPart
<1>3. CASE l = Switch(b) /\ r = RocOf(b, 1)
  <2>1. i <= Switch(b) /\ 1 <= Switch(b) /\ i \in 1 .. Len(b.words)
    BY <1>1, <1>2, <1>3
  <2>2. RocOf(b, i) = RocOf(b, 1)
    BY <2>1 DEF RocOf
  <2> QED
    BY <1>2, <1>3, <2>1, <2>2
<1>4. CASE l = Len(b.words) /\ r = RocOf(b, Len(b.words)) /\ Switch(b) < i /\ Switch(b) < Len(b.words)
  <2>1. ~(i <= Switch(b)) /\ ~(Len(b.words) <= Switch(b)) /\ i \in 1 .. Len(b.words)
    BY <1>1, <1>2, <1>4
  <2>2. RocOf(b, i) = RocOf(b, Len(b.words))
    BY <2>1 DEF RocOf
  <2> QED
    BY <1>2, <1>4, <2>1, <2>2
<1> QED
  BY <1>2, <1>3, <1>4 DEF InPart

\* The second part begins with a length and a ROC.
LEMMA PartEnds ==
  ASSUME NEW b, IsBank(b), NEW ws, NEW i \in Nat, NEW l, NEW r, InPart(b, ws, i, l, r),
         i <= Len(ws), ~(i <= l)
  PROVE  i = l + 1 /\ InPart(b, ws, i, Len(ws), ws[i + 1].low)
<1>1. /\ Start(b) \in {1, 3} /\ Switch(b) \in Nat /\ Len(b.words) \in Nat
      /\ Switch(b) = Len(b.words) \/ Switch(b) + 2 <= Len(b.words)
      /\ IF IsFrontEnd(b.roc) THEN Start(b) = 3 ELSE Start(b) = 1 /\ Switch(b) = Len(b.words)
  BY BankParts
<1>2. ws = b.words /\ Start(b) <= i /\ i <= l + 1
  BY DEF InPart
<1>3. l = Switch(b) /\ Switch(b) < Len(b.words) /\ i = Switch(b) + 1
  BY <1>1, <1>2 DEF InPart
<1>4. IsFrontEnd(b.roc) /\ ~(Len(b.words) <= Switch(b))
  BY <1>1, <1>3
<1>5. RocOf(b, Len(b.words)) = b.words[Switch(b) + 2].low
  BY <1>4 DEF RocOf
<1>6. i + 1 = Switch(b) + 2 /\ i <= Len(ws) + 1 /\ Switch(b) < i
  BY <1>1, <1>2, <1>3
<1> QED
  BY <1>2, <1>3, <1>5, <1>6 DEF InPart

\* A word that is not data is of no detector, one with data is told from the rest.
LEMMA WordIs ==
  ASSUME NEW b, IsBank(b), NEW i \in 1 .. Len(b.words), NEW w, w = b.words[i]
  PROVE  /\ w \in Word
         /\ w.of = 0 => (\A d : ~IsMine(d, w)) /\ (Start(b) <= i => TrueOther(b, i))
         /\ w.of # 0 => Start(b) <= i /\ TrueData(RocOf(b, i), w)
<1>1. PICK ws \in Seq(Word) : ws = b.words
  BY DEF IsBank
<1>2. ws[i] \in Word /\ i \in DOMAIN b.words
  BY <1>1
<1>3. w.of = 0 => \A d : ~IsMine(d, w)
  BY DEF IsMine
<1> QED
  BY <1>1, <1>2, <1>3 DEF IsBank, TrueBank

LEMMA BankIs ==
  ASSUME WalkInv, \A e \in Events : TrueEvent(e), NEW b \in 1 .. Len(event), ~NoHits(event[b].roc)
  PROVE  IsBank(event[b])
<1>1. event \in Seq(Banks) /\ b \in DOMAIN event
  BY EventIs
<1>2. event # <<>>
  BY <1>1
<1>3. TrueEvent(event)
  BY <1>2, EventIs
<1>4. TrueBank(event[b])
  BY <1>1, <1>3 DEF TrueEvent
<1> QED
  BY <1>1, <1>4, EventIs DEF IsBank

\* A detector that is in the map has words of its counters only.
LEMMA SaidCounter ==
  ASSUME TrueMap, WalkInv, \A e \in Events : TrueEvent(e), NEW d, d # UNINST_ID, NEW q \in Said(event, d)
  PROVE  \E c : IsCounter(d, WordAt(event, q), c)
<1>1. event \in Seq(Banks) /\ DOMAIN event = 1 .. Len(event)
  BY EventIs
<1>2. PICK n, k : /\ n \in DOMAIN event /\ k \in DOMAIN event[n].words
                  /\ q = <<n, k>> /\ ~NoHits(event[n].roc) /\ IsMine(d, event[n].words[k])
  BY <1>1, SaidIs
<1>3. PICK b : b = event[n]
  OBVIOUS
<1>4. IsBank(b)
  BY <1>1, <1>2, <1>3, BankIs
<1>5. k \in 1 .. Len(b.words)
  <2>1. PICK ws \in Seq(Word) : ws = b.words
    BY <1>4 DEF IsBank
  <2> QED
    BY <1>2, <1>3, <2>1
<1>6. PICK w : w = b.words[k]
  OBVIOUS
<1>7. WordAt(event, q) = w /\ IsMine(d, w)
  BY <1>2, <1>3, <1>6 DEF WordAt
<1>8. w.of # 0 /\ w.low # Overflow
  BY <1>7 DEF IsMine
<1>9. w \in Word /\ TrueData(RocOf(b, k), w)
  BY <1>4, <1>5, <1>6, <1>8, WordIs
<1>10. PICK r, x : r = RocOf(b, k) /\ x = EntryOf(r, w)
  OBVIOUS
<1>11. /\ x.plane \in Int /\ x.counter \in Int
       /\ IsMine(d, w) <=> x.did = d
       /\ x.did # UNINST_ID =>
              /\ x.sigtyp \in 0 .. 3 /\ <<x.plane, x.counter>> \in Counters(x.did)
              /\ \A hit : Of(w, hit) <=> SameCounter(x, hit)
              /\ \A hit, s : OfSignal(w, hit, s) <=> SameCounter(x, hit) /\ s = x.sigtyp
  BY <1>8, <1>9, <1>10, DataWord
<1>12. IsCounter(d, w, x)
  BY <1>7, <1>11 DEF IsCounter
<1> QED
  BY <1>7, <1>12

\* The lists of other detectors stay as they are.
LEMMA OthersKept ==
  ASSUME ListsInv, NEW d \in Detectors, NEW x, NEW value, StoreHit(d, x, value), NEW o \in Detectors, o # d
  PROVE  hits'[o] = hits[o] /\ hitcount'[o] = hitcount[o]
<1>1. DOMAIN hits = Detectors /\ DOMAIN hitcount = Detectors
  BY DEF ListsInv
<1>2. \/ UNCHANGED <<hits, hitcount>>
      \/ \E list, n : hits' = [hits EXCEPT ![d] = list] /\ hitcount' = [hitcount EXCEPT ![d] = n]
      \/ \E list : hits' = [hits EXCEPT ![d] = list] /\ UNCHANGED hitcount
  <2>1. \A h, hit : Insert(d, h, hit) =>
          \E list, n : hits' = [hits EXCEPT ![d] = list] /\ hitcount' = [hitcount EXCEPT ![d] = n]
    BY DEF Insert
  <2>2. \A h, s : hits' = [hits EXCEPT ![d][h].signal[s] = value] => \E list : hits' = [hits EXCEPT ![d] = list]
    OBVIOUS
  <2>3. CASE SignalCount[d] = 1
    BY <2>1, <2>3 DEF StoreHit, SingleHit
  <2>4. CASE SignalCount[d] # 1
    <3>1. MultipleHit(d, x, value)
      BY <2>4 DEF StoreHit
    <3> DEFINE h == Place(d, x)
    <3>2. \/ UNCHANGED <<hits, hitcount>>
          \/ \E g, hit : Insert(d, g, hit)
          \/ \E s : hits' = [hits EXCEPT ![d][h].signal[s] = value] /\ UNCHANGED hitcount
      BY <3>1 DEF MultipleHit
    <3> HIDE DEF h
    <3> QED
      BY <2>1, <2>2, <3>2
  <2> QED
    BY <2>3, <2>4
<1> QED
  BY <1>1, <1>2

\* A word of the detector is stored.
LEMMA StoreHolds ==
  ASSUME TrueMap, IInv, \A e \in Events : TrueEvent(e), NEW b \in 1 .. Len(event), ~NoHits(event[b].roc),
         NEW i \in 1 .. Len(event[b].words), NEW j, j = i + 1,
         NEW w, w = event[b].words[i], w \in Word, NEW r, TrueData(r, w),
         w.low # Overflow, NEW x, x = EntryOf(r, w), NEW d \in Detectors, x.did = d,
         Holds(event, <<b, i>>, hits, hitcount), StoreHit(d, x, w.low)
  PROVE  Holds(event, <<b, j>>, hits', hitcount')
<1>1. WalkInv /\ ListsInv /\ SortedInv
  BY DEF IInv, TypeInv
<1>2. event \in Seq(Banks) /\ b \in DOMAIN event /\ b \in Int
  BY <1>1, EventIs
<1>3. i \in DOMAIN event[b].words /\ i \in Int
  <2>1. event[b].words \in Seq(Word)
    BY <1>1, <1>2, EventIs
  <2>2. PICK ws \in Seq(Word) : ws = event[b].words
    BY <2>1
  <2> QED
    BY <2>2
<1>4. /\ x.plane \in Int /\ x.counter \in Int
      /\ \A o : IsMine(o, w) <=> x.did = o
      /\ x.did # UNINST_ID =>
              /\ x.sigtyp \in 0 .. 3 /\ <<x.plane, x.counter>> \in Counters(x.did)
              /\ \A hit : Of(w, hit) <=> SameCounter(x, hit)
              /\ \A hit, s : OfSignal(w, hit, s) <=> SameCounter(x, hit) /\ s = x.sigtyp
  BY SMTT(30), DataWord
<1> DEFINE p == <<b, i>>
           Before1(o) == SaidBefore(event, o, p)
           Before2(o) == SaidBefore(event, o, <<b, j>>)
<1>5. WordAt(event, p) = w
  BY DEF WordAt
<1>6. /\ Before2(d) = Before1(d) \cup {p} /\ p \notin Before1(d)
      /\ \A q \in Before1(d) : Earlier(q, p)
  <2>1. IsMine(d, event[b].words[i])
    BY <1>4
  <2> HIDE DEF Before1, Before2, p
  <2>2. /\ \A q : q \in SaidBefore(event, d, <<b, j>>) <=> q \in SaidBefore(event, d, <<b, i>>) \/ q = <<b, i>>
        /\ <<b, i>> \notin SaidBefore(event, d, <<b, i>>)
        /\ \A q \in SaidBefore(event, d, <<b, i>>) : Earlier(q, <<b, i>>)
    BY ZenonT(30), <1>2, <1>3, <2>1, PassedWord
  <2> QED
    BY SMTT(30), <2>2 DEF Before1, Before2, p
<1>7. \A o : o # d => Before2(o) = Before1(o)
  <2> SUFFICES ASSUME NEW o, o # d PROVE Before2(o) = Before1(o)
    OBVIOUS
  <2>1. \A k \in DOMAIN event[b].words : i <= k /\ k < j => ~IsMine(o, event[b].words[k])
    <3> SUFFICES ASSUME NEW k \in DOMAIN event[b].words, i <= k, k < j PROVE ~IsMine(o, event[b].words[k])
      OBVIOUS
    <3>1. k = i
      BY <1>2, <1>3, PlacesAre
    <3> QED
      BY <1>4, <3>1
  <2>2. i <= j /\ j \in Int
    BY <1>3
  <2> QED
    BY <1>2, <1>3, <2>1, <2>2, Passed
<1>8. CASE SignalCount[d] = 1
  <2>1. HasWords(event, d, Before1(d), hits[d], hitcount[d])
    BY <1>8 DEF Holds
  <2>2. SingleHit(d, x, w.low)
    BY <1>8 DEF StoreHit
  <2>3. d # UNINST_ID => \A hit : Of(w, hit) <=> SameCounter(x, hit)
    BY SMTT(30), <1>4
  <2>4. HasWords(event, d, Before1(d) \cup {p}, hits'[d], hitcount'[d])
    <3> HIDE DEF Before1, p
    <3> QED
      BY <1>1, <1>4, <1>5, <1>6, <2>1, <2>2, <2>3, WordStored
  <2> QED
    BY ZenonT(30), <1>1, <1>6, <1>7, <1>8, <2>4, OthersKept DEF Holds
<1>9. CASE SignalCount[d] # 1
  <2>1. HasSignals(event, Before1(d), hits[d], hitcount[d])
    BY <1>9 DEF Holds
  <2>2. MultipleHit(d, x, w.low)
    BY <1>9 DEF StoreHit
  <2>3. d # UNINST_ID
    BY <1>9, DecoderAssumption
  <2>4. IsCounter(d, w, x) /\ x.sigtyp \in 0 .. 3
    BY <1>4, <2>3 DEF IsCounter
  <2>5. \A q \in Before1(d) : \E c : IsCounter(d, WordAt(event, q), c)
    BY <1>1, <2>3, SaidCounter DEF SaidBefore
  <2>6. HasSignals(event, Before1(d) \cup {p}, hits'[d], hitcount'[d])
    <3> HIDE DEF Before1, p
    <3> QED
      BY <1>1, <1>5, <1>6, <1>9, <2>1, <2>2, <2>4, <2>5, SignalStored
  <2> QED
    BY ZenonT(30), <1>1, <1>6, <1>7, <1>9, <2>6, OthersKept DEF Holds
<1> QED
  BY <1>8, <1>9

\* A slot that was seen is seen when other words have been left out.
LEMMA SlotSeenOn ==
  ASSUME NEW ws, NEW i \in Nat, NEW j \in Nat, i < j, NEW s, SlotSeen(ws, i, s), Len(ws) \in Nat,
         \A k \in i .. j - 1 : ws[k].of = 0
  PROVE  SlotSeen(ws, j, s)
<1>1. PICK m \in 1 .. Len(ws) :
        /\ ws[m].slot = s /\ (m < i \/ (m = i /\ ws[m].of # 0))
        /\ \A k \in m + 1 .. i - 1 : ws[k].of # 0 => ws[k].slot = s
  BY DEF SlotSeen
<1>2. i \in i .. j - 1
  OBVIOUS
<1>3. m < i
  BY <1>1, <1>2
<1>4. \A k \in m + 1 .. j - 1 : ws[k].of # 0 => ws[k].slot = s
  <2> SUFFICES ASSUME NEW k \in m + 1 .. j - 1, ws[k].of # 0 PROVE ws[k].slot = s
    OBVIOUS
  <2>1. k \in m + 1 .. i - 1
    <3>1. ~(k \in i .. j - 1)
      OBVIOUS
    <3> QED
      BY <3>1
  <2> QED
    BY <1>1, <2>1
<1>5. m < j
  BY <1>3
<1> QED
  <2> SUFFICES \E n \in 1 .. Len(ws) :
                 /\ ws[n].slot = s /\ (n < j \/ (n = j /\ ws[n].of # 0))
                 /\ \A k \in n + 1 .. j - 1 : ws[k].of # 0 => ws[k].slot = s
    BY DEF SlotSeen
  <2> QED
    BY <1>1, <1>4, <1>5

\* The slot of word i
LEMMA SlotSeenNow ==
  ASSUME NEW ws, NEW i \in 1 .. Len(ws)
  PROVE  /\ SlotSeen(ws, i + 1, ws[i].slot)
         /\ ws[i].of # 0 => SlotSeen(ws, i, ws[i].slot)
<1>1. i < i + 1 /\ (i + 1 .. (i + 1) - 1) = {} /\ (i + 1 .. i - 1) = {}
  OBVIOUS
<1> QED
  BY <1>1 DEF SlotSeen

\* A step in a bank of which the word is no data of a detector
LEMMA WordsPassed ==
  ASSUME WalkInv, NEW b \in 1 .. Len(event), NEW i \in Nat, NEW j \in Nat, i <= j,
         \A k \in 1 .. Len(event[b].words) : i <= k /\ k < j => \A d : ~IsMine(d, event[b].words[k]),
         Holds(event, <<b, i>>, hits, hitcount)
  PROVE  Holds(event, <<b, j>>, hits, hitcount)
<1>1. event \in Seq(Banks) /\ b \in DOMAIN event /\ b \in Int /\ i \in Int /\ j \in Int
  BY EventIs
<1>2. \A k \in DOMAIN event[b].words : k \in 1 .. Len(event[b].words)
  <2>1. PICK ws \in Seq(Word) : ws = event[b].words
    BY <1>1, EventIs
  <2> QED
    BY <2>1
<1>3. \A d \in Detectors : SaidBefore(event, d, <<b, j>>) = SaidBefore(event, d, <<b, i>>)
  <2> SUFFICES ASSUME NEW d \in Detectors PROVE SaidBefore(event, d, <<b, j>>) = SaidBefore(event, d, <<b, i>>)
    OBVIOUS
  <2>1. b \in DOMAIN event => \A k \in DOMAIN event[b].words : i <= k /\ k < j => ~IsMine(d, event[b].words[k])
    BY <1>2
  <2> QED
    BY <1>1, <2>1, Passed
<1> QED
  BY <1>3, HoldsThere

\* At first there are no words.
LEMMA WordsInit == Init => WordsInv
<1> SUFFICES ASSUME Init PROVE WordsInv
  OBVIOUS
<1>1. pc = "idle" /\ event = <<>> /\ bank = 0 /\ \A d \in Detectors : hitcount[d] = 0
  BY DEF Init
<1>2. ~InBank /\ Cursor = <<0 + 1, 1>>
  BY <1>1 DEF InBank, Cursor
<1>3. PartInv /\ SlotInv
  BY <1>1, <1>2 DEF PartInv, SlotInv
<1>4. event \in Seq(Banks)
  BY <1>1
<1>5. DoneInv
  BY <1>1, <1>2, <1>4, NothingHeld DEF DoneInv
<1> QED
  BY <1>3, <1>5 DEF WordsInv

\* Within a bank
LEMMA InBankIs ==
  ASSUME \A e \in Events : TrueEvent(e), IInv, WordsInv, InBank
  PROVE  /\ bank \in 1 .. Len(event) /\ ~NoHits(event[bank].roc) /\ IsBank(event[bank])
         /\ words = event[bank].words /\ words \in Seq(Word) /\ Len(words) \in Nat /\ pointer \in Nat \ {0}
         /\ InPart(event[bank], words, pointer, last, roc)
         /\ Holds(event, <<bank, pointer>>, hits, hitcount)
         /\ slot # -1 => SlotSeen(words, pointer, slot)
<1>1. WalkInv
  BY DEF IInv, TypeInv
<1>2. bank \in 1 .. Len(event) /\ ~NoHits(event[bank].roc) /\ InPart(event[bank], words, pointer, last, roc)
  BY DEF WordsInv, PartInv
<1>3. IsBank(event[bank])
  BY <1>1, <1>2, BankIs
<1>4. words \in Seq(Word) /\ Len(words) \in Nat /\ pointer \in Nat \ {0}
  BY <1>1 DEF WalkInv
<1>5. Holds(event, <<bank, pointer>>, hits, hitcount)
  BY DEF WordsInv, DoneInv, Cursor
<1>6. slot # -1 => SlotSeen(words, pointer, slot)
  BY DEF WordsInv, SlotInv
<1> QED
  BY <1>2, <1>3, <1>4, <1>5, <1>6 DEF InPart

\* An event begins with no hits.
LEMMA NextEventWords ==
  ASSUME NEW e \in Events, NextEvent(e)
  PROVE  WordsInv'
<1>1. pc' = "banks" /\ event' = e /\ bank' = 0 /\ \A d \in Detectors : hitcount'[d] = 0
  BY DEF NextEvent
<1>2. ~InBank' /\ Cursor' = <<0 + 1, 1>>
  BY <1>1 DEF InBank, Cursor
<1>3. PartInv' /\ SlotInv'
  BY <1>1, <1>2 DEF PartInv, SlotInv
<1>4. e \in Seq(Banks)
  BY EventsAssumption DEF Banks
<1>5. Holds(e, <<0 + 1, 1>>, hits', hitcount')
  BY <1>1, <1>4, NothingHeld
<1>6. DoneInv'
  BY <1>1, <1>2, <1>5 DEF DoneInv
<1> QED
  BY <1>3, <1>6 DEF WordsInv

\* A bank of no hits is passed, the words before the first part of another are no data.
LEMMA NextBankWords ==
  ASSUME \A e \in Events : TrueEvent(e), IInv, WordsInv, NextBank
  PROVE  WordsInv'
<1>1. WalkInv
  BY DEF IInv, TypeInv
<1>2. /\ pc = "banks" /\ bank < Len(event) /\ bank' = bank + 1 /\ event' = event
      /\ hits' = hits /\ hitcount' = hitcount
  BY DEF NextBank
<1>3. event \in Seq(Banks) /\ bank \in Int /\ bank + 1 \in 1 .. Len(event) /\ bank + 1 \in DOMAIN event
  BY <1>1, <1>2, EventIs DEF WalkInv
<1>4. PICK n : n = bank + 1
  OBVIOUS
<1>5. Holds(event, <<n, 1>>, hits, hitcount)
  BY <1>2, <1>4 DEF WordsInv, DoneInv, Cursor, InBank
<1>6. CASE NoHits(event[bank + 1].roc)
  <2>1. pc' = pc
    BY <1>6 DEF NextBank
  <2>2. ~InBank' /\ pc' # "idle" /\ Cursor' = <<n + 1, 1>>
    BY <1>2, <1>4, <2>1 DEF InBank, Cursor
  <2>3. PartInv' /\ SlotInv'
    BY <2>2 DEF PartInv, SlotInv
  <2>4. \A d \in Detectors : SaidBefore(event, d, <<n + 1, 1>>) = SaidBefore(event, d, <<n, 1>>)
    <3>1. n \in Int /\ 1 \in Int /\ NoHits(event[n].roc)
      BY <1>3, <1>4, <1>6
    <3> QED
      BY <1>3, <3>1, PassedBank
  <2>5. Holds(event, <<n + 1, 1>>, hits, hitcount)
    BY <1>5, <2>4, HoldsThere
  <2>6. DoneInv'
    BY <1>2, <2>2, <2>5 DEF DoneInv
  <2> QED
    BY <2>3, <2>6 DEF WordsInv
<1>7. CASE ~NoHits(event[bank + 1].roc)
  <2> DEFINE b == event[n]
  <2>1. /\ pc' = "bank" /\ words' = b.words /\ slot' = -1
        /\ IF IsFrontEnd(b.roc)
           THEN roc' = b.words[2].low /\ last' = 1 + b.words[1].low /\ pointer' = 3
           ELSE roc' = b.roc /\ last' = Len(b.words) /\ pointer' = 1
    BY <1>4, <1>7 DEF NextBank
  <2>2. n \in 1 .. Len(event) /\ ~NoHits(b.roc) /\ IsBank(b)
    BY <1>1, <1>3, <1>4, <1>7, BankIs
  <2>3. /\ Start(b) \in {1, 3} /\ Switch(b) \in Nat /\ Start(b) <= Switch(b) + 1
        /\ IF IsFrontEnd(b.roc) THEN Start(b) = 3 /\ Switch(b) = 1 + b.words[1].low
                                ELSE Start(b) = 1 /\ Switch(b) = Len(b.words)
    BY <2>2, BankParts
  <2>4. pointer' = Start(b) /\ last' = Switch(b)
    BY <2>1, <2>3
  <2>5. roc' = RocOf(b, 1)
    <3>1. IsFrontEnd(b.roc) => 1 <= Switch(b)
      BY <2>3
    <3> QED
      BY <2>1, <3>1 DEF RocOf
  <2>6. InPart(b, words', pointer', last', roc')
    BY <2>1, <2>3, <2>4, <2>5 DEF InPart
  <2>7. PartInv' /\ SlotInv' /\ Cursor' = <<n, pointer'>>
    BY <1>2, <1>4, <2>1, <2>2, <2>6 DEF PartInv, SlotInv, InBank, Cursor
  <2>8. Holds(event, <<n, pointer'>>, hits, hitcount)
    <3>1. \A k \in 1 .. Len(b.words) : 1 <= k /\ k < pointer' => \A d : ~IsMine(d, b.words[k])
      <4> SUFFICES ASSUME NEW k \in 1 .. Len(b.words), k < pointer' PROVE \A d : ~IsMine(d, b.words[k])
        OBVIOUS
      <4>1. ~(Start(b) <= k)
        BY <2>3, <2>4
      <4>2. b.words[k].of = 0
        BY <2>2, <4>1, WordIs
      <4> QED
        BY <2>2, <4>2, WordIs
    <3>2. 1 \in Nat /\ pointer' \in Nat /\ 1 <= pointer'
      BY <2>3, <2>4
    <3> QED
      BY <1>1, <1>5, <2>2, <3>1, <3>2, WordsPassed
  <2>9. DoneInv'
    BY <1>2, <2>7, <2>8 DEF DoneInv
  <2> QED
    BY <2>7, <2>9 DEF WordsInv
<1> QED
  BY <1>6, <1>7

\* After the last word of the bank comes the next bank.
LEMMA BankEndsWords ==
  ASSUME \A e \in Events : TrueEvent(e), IInv, WordsInv, BankEnds
  PROVE  WordsInv'
<1>1. /\ pc = "bank" /\ pointer > Len(words) /\ pc' = "banks" /\ event' = event /\ bank' = bank
      /\ hits' = hits /\ hitcount' = hitcount
  BY DEF BankEnds, bankvars
<1>2. WalkInv /\ InBank
  BY <1>1 DEF IInv, TypeInv, InBank
<1>3. /\ bank \in 1 .. Len(event) /\ words = event[bank].words /\ pointer \in Nat
      /\ Holds(event, <<bank, pointer>>, hits, hitcount)
  BY <1>2, InBankIs
<1>4. ~InBank' /\ pc' # "idle" /\ Cursor' = <<bank + 1, 1>>
  BY <1>1 DEF InBank, Cursor
<1>5. PartInv' /\ SlotInv'
  BY <1>4 DEF PartInv, SlotInv
<1>6. \A d \in Detectors : SaidBefore(event, d, <<bank + 1, 1>>) = SaidBefore(event, d, <<bank, pointer>>)
  <2>1. event \in Seq(Banks) /\ bank \in Int /\ pointer \in Int /\ pointer > Len(event[bank].words)
    BY <1>1, <1>2, <1>3, EventIs
  <2> QED
    BY <2>1, PassedBank
<1>7. Holds(event, <<bank + 1, 1>>, hits, hitcount)
  BY <1>3, <1>6, HoldsThere
<1>8. DoneInv'
  BY <1>1, <1>4, <1>7 DEF DoneInv
<1> QED
  BY <1>5, <1>8 DEF WordsInv

\* At the end of the event, of a call, and of a step that leaves all alone, nothing is read.
LEMMA NothingRead ==
  ASSUME WordsInv, pc' \in {"idle", "bank", "detector"} \/ pc' = pc, InBank' <=> InBank,
         pc' = "idle" => pc = "idle" \/ bank = Len(event),
         UNCHANGED <<bankvars, pointer, slot, hits, hitcount>>
  PROVE  WordsInv'
<1>1. UNCHANGED <<event, bank, roc, words, last, pointer, slot, hits, hitcount>>
  BY DEF bankvars
<1>2. Cursor' = Cursor
  BY <1>1 DEF Cursor
<1>3. PartInv'
  <2>1. pc' = "idle" => bank' = Len(event')
    BY <1>1 DEF WordsInv, PartInv
  <2> QED
    BY <1>1, <2>1 DEF WordsInv, PartInv
<1>4. SlotInv'
  BY <1>1 DEF WordsInv, SlotInv
<1>5. DoneInv'
  BY <1>1, <1>2 DEF WordsInv, DoneInv
<1> QED
  BY <1>3, <1>4, <1>5 DEF WordsInv

\* A step within a bank to word j, which has stored what the words up to there say
LEMMA WordsNext ==
  ASSUME InBank, InBank', event' = event, bank' = bank, words' = words,
         bank \in 1 .. Len(event), ~NoHits(event[bank].roc),
         InPart(event[bank], words, pointer', last', roc'),
         slot' # -1 => SlotSeen(words, pointer', slot'),
         Holds(event, <<bank, pointer'>>, hits', hitcount')
  PROVE  WordsInv'
<1>1. Cursor' = <<bank, pointer'>> /\ pc' # "idle"
  BY DEF Cursor, InBank
<1>2. PartInv'
  BY <1>1 DEF PartInv
<1>3. SlotInv'
  BY DEF SlotInv
<1>4. DoneInv'
  BY <1>1 DEF DoneInv
<1> QED
  BY <1>2, <1>3, <1>4 DEF WordsInv

\* A word that is not data of a module is skipped; where the second part begins, the
\* ROC changes.
LEMMA BankWordWords ==
  ASSUME TrueMap, \A e \in Events : TrueEvent(e), IInv, WordsInv, BankWord
  PROVE  WordsInv'
<1> DEFINE b == event[bank]
           w == words[pointer]
<1>1. /\ pc = "bank" /\ pointer <= Len(words)
      /\ event' = event /\ bank' = bank /\ words' = words /\ slot' = slot
      /\ hits' = hits /\ hitcount' = hitcount
      /\ IF pointer = last + 1 THEN roc' = words[pointer + 1].low /\ last' = Len(words)
                               ELSE UNCHANGED <<roc, last>>
  BY DEF BankWord
<1>2. \/ pc' = "detector" /\ pointer' = pointer
      \/ /\ pc' = pc /\ pointer' = pointer + 1
         /\ ~(GoodSlot(w) /\ roc' \in 1..MAXROCS /\ Entry(roc', w, BankSubadd(roc', w)).did \in Detectors)
  BY DEF BankWord
<1>3. InBank /\ InBank'
  BY <1>1, <1>2 DEF InBank
<1>4. /\ bank \in 1 .. Len(event) /\ ~NoHits(b.roc) /\ IsBank(b)
      /\ words = b.words /\ words \in Seq(Word) /\ Len(words) \in Nat /\ pointer \in Nat \ {0}
      /\ InPart(b, words, pointer, last, roc)
      /\ Holds(event, <<bank, pointer>>, hits, hitcount)
      /\ slot # -1 => SlotSeen(words, pointer, slot)
  BY <1>3, InBankIs
<1>5. WalkInv /\ last \in Int
  BY DEF IInv, TypeInv, WalkInv
<1> HIDE DEF b, w
<1>6. pointer <= last + 1
  BY <1>4 DEF InPart
<1>7. InPart(b, words, pointer, last', roc') /\ pointer <= last'
  <2>1. CASE pointer = last + 1
    <3>1. ~(pointer <= last)
      BY <1>5, <2>1
    <3> QED
      BY <1>1, <1>4, <2>1, <3>1, PartEnds
  <2>2. CASE pointer # last + 1
    BY <1>1, <1>4, <1>5, <1>6, <2>2
  <2> QED
    BY <2>1, <2>2
<1>8. pointer \in 1 .. Len(b.words) /\ Start(b) <= pointer /\ roc' = RocOf(b, pointer) /\ w = b.words[pointer]
  BY <1>4, <1>7, RocHere DEF w
<1>9. CASE pc' = "detector" /\ pointer' = pointer
  BY <1>1, <1>3, <1>4, <1>7, <1>9, WordsNext DEF b
<1>10. CASE /\ pc' = pc /\ pointer' = pointer + 1
            /\ ~(GoodSlot(w) /\ roc' \in 1..MAXROCS /\ Entry(roc', w, BankSubadd(roc', w)).did \in Detectors)
  <2>1. w \in Word /\ (w.of # 0 => TrueData(roc', w)) /\ (w.of = 0 => \A d : ~IsMine(d, w))
    BY <1>4, <1>8, WordIs
  <2>2. w.of = 0
    <3> SUFFICES ASSUME w.of # 0 PROVE FALSE
      OBVIOUS
    <3>1. PICK r, x : r = roc' /\ x = EntryOf(r, w)
      OBVIOUS
    <3>2. TrueData(r, w)
      BY <2>1, <3>1
    <3>3. x.did \in Detectors /\ Entry(r, w, BankSubadd(r, w)) = x
      BY <2>1, <3>1, <3>2, DataWord
    <3>4. GoodSlot(w) /\ r \in 1 .. MAXROCS
      BY <3>2 DEF TrueData, IsReport
    <3> QED
      BY <1>10, <3>1, <3>3, <3>4
  <2>3. InPart(b, words, pointer', last', roc')
    <3>0. Start(b) \in {1, 3} /\ Switch(b) \in Nat
      BY <1>4, BankParts
    <3>1. last' \in Int
      BY <1>1, <1>4, <1>5
    <3>2. Start(b) <= pointer' /\ pointer' <= last' + 1 /\ (Switch(b) < pointer => Switch(b) < pointer')
      BY <1>4, <1>7, <1>8, <1>10, <3>0, <3>1
    <3> QED
      BY <1>7, <3>2 DEF InPart
  <2>4. slot' # -1 => SlotSeen(words, pointer', slot')
    <3>1. \A k \in pointer .. pointer' - 1 : words[k].of = 0
      <4>1. \A k \in pointer .. pointer' - 1 : k = pointer
        BY <1>4, <1>10
      <4>2. words[pointer].of = 0
        BY <2>2 DEF w
      <4> QED
        BY <4>1, <4>2
    <3>2. pointer \in Nat /\ pointer' \in Nat /\ pointer < pointer'
      BY <1>4, <1>10
    <3> QED
      BY <1>1, <1>4, <3>1, <3>2, SlotSeenOn
  <2>5. Holds(event, <<bank, pointer'>>, hits', hitcount')
    <3>1. \A k \in 1 .. Len(event[bank].words) :
            pointer <= k /\ k < pointer' => \A d : ~IsMine(d, event[bank].words[k])
      <4> SUFFICES ASSUME NEW k \in 1 .. Len(event[bank].words), pointer <= k, k < pointer'
                   PROVE  \A d : ~IsMine(d, event[bank].words[k])
        OBVIOUS
      <4>1. k = pointer
        BY <1>4, <1>10
      <4> QED
        BY <1>8, <2>1, <2>2, <4>1 DEF b
    <3>2. pointer \in Nat /\ pointer' \in Nat /\ pointer <= pointer'
      BY <1>4, <1>10
    <3> QED
      BY <1>1, <1>4, <1>5, <3>1, <3>2, WordsPassed
  <2> QED
    BY <1>1, <1>3, <1>4, <2>3, <2>4, <2>5, WordsNext DEF b
<1> QED
  BY <1>2, <1>9, <1>10

\* In the loop of a detector
LEMMA InDetectorIs ==
  ASSUME \A e \in Events : TrueEvent(e), IInv, WordsInv, pc = "detector", pointer <= last,
         NEW b, b = event[bank], NEW w, w = words[pointer]
  PROVE  /\ bank \in 1 .. Len(event) /\ ~NoHits(b.roc) /\ IsBank(b) /\ WalkInv /\ last \in Int
         /\ words = b.words /\ Len(words) \in Nat /\ pointer \in Nat \ {0} /\ pointer \in 1 .. Len(words)
         /\ InPart(b, words, pointer, last, roc) /\ Start(b) <= pointer /\ roc = RocOf(b, pointer)
         /\ last = IF pointer <= Switch(b) THEN Switch(b) ELSE Len(b.words)
         /\ Holds(event, <<bank, pointer>>, hits, hitcount)
         /\ slot # -1 => SlotSeen(words, pointer, slot)
         /\ w = b.words[pointer] /\ w \in Word
         /\ w.of = 0 => (\A d : ~IsMine(d, w)) /\ TrueOther(b, pointer)
         /\ w.of # 0 => TrueData(roc, w)
<1>1. /\ bank \in 1 .. Len(event) /\ ~NoHits(b.roc) /\ IsBank(b)
      /\ words = b.words /\ words \in Seq(Word) /\ Len(words) \in Nat /\ pointer \in Nat \ {0}
      /\ InPart(b, words, pointer, last, roc)
      /\ Holds(event, <<bank, pointer>>, hits, hitcount)
      /\ slot # -1 => SlotSeen(words, pointer, slot)
  BY InBankIs DEF InBank
<1>2. WalkInv /\ last \in Int
  BY DEF IInv, TypeInv, WalkInv
<1>3. /\ Start(b) <= pointer /\ pointer \in 1 .. Len(b.words) /\ roc = RocOf(b, pointer)
      /\ last = IF pointer <= Switch(b) THEN Switch(b) ELSE Len(b.words)
  BY <1>1, RocHere
<1>4. /\ w = b.words[pointer] /\ w \in Word
      /\ w.of = 0 => (\A d : ~IsMine(d, w)) /\ TrueOther(b, pointer)
      /\ w.of # 0 => TrueData(roc, w)
  BY SMTT(30), <1>1, <1>3, WordIs
<1> QED
  BY <1>1, <1>2, <1>3, <1>4

\* After a word of a part comes another word of it, or its end.
LEMMA InPartOn ==
  ASSUME NEW b, IsBank(b), NEW ws, NEW i \in Nat, NEW l \in Int, NEW r, InPart(b, ws, i, l, r),
         NEW j \in Nat, i <= j, j <= l + 1
  PROVE  InPart(b, ws, j, l, r)
<1>1. Start(b) \in {1, 3} /\ Switch(b) \in Nat
  BY BankParts
<1> QED
  BY <1>1 DEF InPart

\* A report of errors, with the words that belong to it
LEMMA SkipReportWords ==
  ASSUME \A e \in Events : TrueEvent(e), IInv, WordsInv, SkipReport
  PROVE  WordsInv'
<1>1. PICK b, w : b = event[bank] /\ w = words[pointer]
  OBVIOUS
<1>2. /\ pc = "detector" /\ pointer <= last /\ pc' = pc /\ event' = event /\ bank' = bank /\ words' = words
      /\ last' = last /\ roc' = roc /\ slot' = slot /\ hits' = hits /\ hitcount' = hitcount
      /\ IsReport(w) /\ pointer' = pointer + (IF w.code = "DCAA" THEN 3 ELSE 1)
  BY <1>1 DEF SkipReport, bankvars
<1>3. /\ bank \in 1 .. Len(event) /\ ~NoHits(b.roc) /\ IsBank(b) /\ WalkInv /\ last \in Int
      /\ words = b.words /\ Len(words) \in Nat /\ pointer \in Nat \ {0} /\ pointer \in 1 .. Len(words)
      /\ InPart(b, words, pointer, last, roc) /\ Start(b) <= pointer /\ roc = RocOf(b, pointer)
      /\ last = IF pointer <= Switch(b) THEN Switch(b) ELSE Len(b.words)
      /\ Holds(event, <<bank, pointer>>, hits, hitcount)
      /\ slot # -1 => SlotSeen(words, pointer, slot)
      /\ w = b.words[pointer] /\ w \in Word
      /\ w.of = 0 => (\A d : ~IsMine(d, w)) /\ TrueOther(b, pointer)
      /\ w.of # 0 => TrueData(roc, w)
  BY <1>1, <1>2, InDetectorIs
<1>4. w.of = 0
  BY <1>2, <1>3 DEF TrueData
<1>5. /\ pointer' \in Nat /\ pointer < pointer' /\ pointer' <= last + 1
      /\ \A k \in pointer .. pointer' - 1 : words[k].of = 0
  <2>1. CASE w.code = "DCAA"
    <3>1. pointer' = pointer + 3
      BY <1>2, <2>1
    <3>2. pointer + 2 <= last /\ b.words[pointer + 1].of = 0 /\ b.words[pointer + 2].of = 0
      BY <1>3, <1>4, <2>1 DEF TrueOther
    <3>3. \A k \in pointer .. pointer' - 1 : k = pointer \/ k = pointer + 1 \/ k = pointer + 2
      BY SMTT(30), <1>3, <3>1
    <3> QED
      BY SMTT(30), <1>3, <1>4, <3>1, <3>2, <3>3
  <2>2. CASE w.code # "DCAA"
    <3>1. pointer' = pointer + 1
      BY <1>2, <2>2
    <3>2. \A k \in pointer .. pointer' - 1 : k = pointer
      BY <1>3, <3>1
    <3> QED
      BY SMTT(30), <1>2, <1>3, <1>4, <3>1, <3>2
  <2> QED
    BY <2>1, <2>2
<1>6. InPart(b, words, pointer', last', roc')
  <2>1. pointer \in Nat /\ pointer <= pointer'
    BY <1>3, <1>5
  <2> QED
    BY SMTT(30), <1>2, <1>3, <1>5, <2>1, InPartOn
<1>7. slot' # -1 => SlotSeen(words, pointer', slot')
  <2> SUFFICES ASSUME slot # -1 PROVE SlotSeen(words, pointer', slot)
    BY <1>2
  <2>1. pointer \in Nat /\ SlotSeen(words, pointer, slot) /\ Len(words) \in Nat
    BY <1>3
  <2> QED
    BY <1>5, <2>1, SlotSeenOn
<1>8. Holds(event, <<bank, pointer'>>, hits', hitcount')
  <2>1. \A k \in 1 .. Len(event[bank].words) :
          pointer <= k /\ k < pointer' => \A d : ~IsMine(d, event[bank].words[k])
    <3> SUFFICES ASSUME NEW k \in 1 .. Len(event[bank].words), pointer <= k, k < pointer'
                 PROVE  \A d : ~IsMine(d, event[bank].words[k])
      OBVIOUS
    <3>0. pointer \in Int /\ pointer' \in Int /\ k \in Int
      <4>1. pointer \in Int /\ pointer' \in Int
        BY <1>3, <1>5
      <4> QED
        BY <4>1
    <3>1. k \in pointer .. pointer' - 1
      <4>1. PICK i, j, m \in Int : i = pointer /\ j = pointer' /\ m = k
        BY <3>0
      <4>2. i <= m /\ m < j
        BY <4>1
      <4>3. m \in i .. j - 1
        BY <4>2
      <4> QED
        BY <4>1, <4>3
    <3>2. event[bank].words[k].of = 0
      <4>1. words[k].of = 0
        BY <1>5, <3>1
      <4>2. words = event[bank].words
        BY <1>1, <1>3
      <4> QED
        BY <4>1, <4>2
    <3> QED
      BY <3>2 DEF IsMine
  <2>2. pointer \in Nat /\ pointer <= pointer'
    BY <1>3, <1>5
  <2> QED
    BY <1>1, <1>2, <1>3, <1>5, <2>1, <2>2, WordsPassed
<1>9. InBank /\ InBank'
  BY <1>2 DEF InBank
<1> QED
  BY <1>1, <1>2, <1>3, <1>6, <1>7, <1>8, <1>9, WordsNext

\* A header, or what an F1 TDC says besides data
LEMMA SkipHeaderWords ==
  ASSUME \A e \in Events : TrueEvent(e), IInv, WordsInv, SkipHeader
  PROVE  WordsInv'
<1>1. PICK b, w : b = event[bank] /\ w = words[pointer]
  OBVIOUS
<1>2. /\ pc = "detector" /\ pointer <= last /\ pc' = pc /\ event' = event /\ bank' = bank /\ words' = words
      /\ last' = last /\ roc' = roc /\ hits' = hits /\ hitcount' = hitcount
      /\ ~IsReport(w) /\ (IsHeader(w) \/ IsF1Junk(roc, w)) /\ slot' = w.slot
      /\ pointer' = pointer + 1
  BY <1>1 DEF SkipHeader, bankvars
<1>3. /\ bank \in 1 .. Len(event) /\ ~NoHits(b.roc) /\ IsBank(b) /\ WalkInv /\ last \in Int
      /\ words = b.words /\ Len(words) \in Nat /\ pointer \in Nat \ {0} /\ pointer \in 1 .. Len(words)
      /\ InPart(b, words, pointer, last, roc) /\ Start(b) <= pointer /\ roc = RocOf(b, pointer)
      /\ last = IF pointer <= Switch(b) THEN Switch(b) ELSE Len(b.words)
      /\ Holds(event, <<bank, pointer>>, hits, hitcount)
      /\ slot # -1 => SlotSeen(words, pointer, slot)
      /\ w = b.words[pointer] /\ w \in Word
      /\ w.of = 0 => (\A d : ~IsMine(d, w)) /\ TrueOther(b, pointer)
      /\ w.of # 0 => TrueData(roc, w)
  BY SMTT(30), <1>1, <1>2, InDetectorIs
<1>4. \A d : ~IsMine(d, w)
  <2>1. CASE w.of = 0
    BY <1>3, <2>1
  <2>2. CASE w.of # 0
    <3>1. ~HeaderLike(roc, w) /\ (IsF1(roc, w) => w.data)
      BY <1>3, <2>2 DEF TrueData
    <3>2. w.low = Overflow
      BY <1>2, <3>1 DEF IsHeader, IsF1Junk
    <3> QED
      BY <3>2 DEF IsMine
  <2> QED
    BY <2>1, <2>2
<1>5. pointer \in Nat /\ pointer' \in Nat /\ pointer <= pointer' /\ pointer' <= last + 1
  BY <1>2, <1>3
<1>6. InPart(b, words, pointer', last', roc')
  BY SMTT(30), <1>2, <1>3, <1>5, InPartOn
<1>7. SlotSeen(words, pointer', slot')
  BY <1>1, <1>2, <1>3, SlotSeenNow
<1>8. Holds(event, <<bank, pointer'>>, hits', hitcount')
  <2>1. \A k \in 1 .. Len(event[bank].words) :
          pointer <= k /\ k < pointer' => \A d : ~IsMine(d, event[bank].words[k])
    <3> SUFFICES ASSUME NEW k \in 1 .. Len(event[bank].words), pointer <= k, k < pointer'
                 PROVE  \A d : ~IsMine(d, event[bank].words[k])
      OBVIOUS
    <3>1. k = pointer
      BY <1>2, <1>3
    <3> QED
      BY <1>1, <1>3, <1>4, <3>1
  <2> QED
    BY <1>1, <1>2, <1>3, <1>5, <2>1, WordsPassed
<1>9. InBank /\ InBank'
  BY <1>2 DEF InBank
<1> QED
  BY <1>1, <1>2, <1>3, <1>6, <1>7, <1>8, <1>9, WordsNext

\* A word that is taken for data is data.
LEMMA TakenIsData ==
  ASSUME NEW ws, NEW i \in 1 .. Len(ws), Len(ws) \in Nat, NEW s, s # -1 => SlotSeen(ws, i, s),
         NEW b, ws = b.words, TrueOther(b, i), ws[i].of = 0, NEW r, r = RocOf(b, i),
         ~IsReport(ws[i]), ~(ws[i].slot # s /\ HeaderLike(r, ws[i])), ~IsF1Junk(r, ws[i])
  PROVE  FALSE
<1> DEFINE w == ws[i]
<1>1. /\ HeaderLike(r, w)
      /\ \A j \in 1..(i - 1) : ws[j].slot = w.slot => \E k \in (j + 1)..(i - 1) : ws[k].of # 0 /\ ws[k].slot # w.slot
  BY DEF TrueOther
<1>2. w.slot = s /\ s # -1
  BY <1>1 DEF IsReport, GoodSlot
<1>3. PICK j \in 1 .. Len(ws) : /\ ws[j].slot = s /\ (j < i \/ (j = i /\ ws[j].of # 0))
                                /\ \A k \in j + 1 .. i - 1 : ws[k].of # 0 => ws[k].slot = s
  BY <1>2 DEF SlotSeen
<1>4. j \in 1 .. i - 1
  BY <1>3
<1> QED
  BY <1>1, <1>2, <1>3, <1>4

\* A word of the detector is stored, and one of another looked at.
LEMMA DetectorWordWords ==
  ASSUME TrueMap, \A e \in Events : TrueEvent(e), IInv, WordsInv, DetectorWord
  PROVE  WordsInv'
<1>1. PICK b, w, x : b = event[bank] /\ w = words[pointer] /\ x = EntryOf(roc, w)
  OBVIOUS
<1>2. /\ pc = "detector" /\ pointer <= last /\ event' = event /\ bank' = bank /\ words' = words
      /\ last' = last /\ roc' = roc
      /\ ~IsReport(w) /\ ~IsHeader(w) /\ ~IsF1Junk(roc, w) /\ slot' = w.slot
      /\ IF x.did = did THEN StoreHit(did, x, w.low) /\ pointer' = pointer + 1 /\ pc' = pc
                        ELSE pc' = "bank" /\ pointer' = pointer /\ hits' = hits /\ hitcount' = hitcount
  BY <1>1 DEF DetectorWord, bankvars, EntryOf
<1>3. /\ bank \in 1 .. Len(event) /\ ~NoHits(b.roc) /\ IsBank(b) /\ WalkInv /\ last \in Int
      /\ words = b.words /\ Len(words) \in Nat /\ pointer \in Nat \ {0} /\ pointer \in 1 .. Len(words)
      /\ InPart(b, words, pointer, last, roc) /\ Start(b) <= pointer /\ roc = RocOf(b, pointer)
      /\ last = IF pointer <= Switch(b) THEN Switch(b) ELSE Len(b.words)
      /\ Holds(event, <<bank, pointer>>, hits, hitcount)
      /\ slot # -1 => SlotSeen(words, pointer, slot)
      /\ w = b.words[pointer] /\ w \in Word
      /\ w.of = 0 => (\A d : ~IsMine(d, w)) /\ TrueOther(b, pointer)
      /\ w.of # 0 => TrueData(roc, w)
  BY <1>1, <1>2, InDetectorIs
<1>4. w.of # 0
  <2> SUFFICES ASSUME w.of = 0 PROVE FALSE
    OBVIOUS
  <2>1. TrueOther(b, pointer) /\ words[pointer].of = 0 /\ ~IsReport(words[pointer])
        /\ ~(words[pointer].slot # slot /\ HeaderLike(roc, words[pointer])) /\ ~IsF1Junk(roc, words[pointer])
    BY <1>1, <1>2, <1>3 DEF IsHeader
  <2> QED
    BY <1>3, <2>1, TakenIsData
<1>5. TrueData(roc, w) /\ w.low # Overflow
  BY SMTT(30), <1>2, <1>3, <1>4 DEF TrueData, IsF1Junk
<1>6. InBank /\ InBank'
  BY <1>2 DEF InBank
<1>7. CASE x.did = did
  <2>1. pc' = "detector" /\ StoreHit(did, x, w.low) /\ pointer' = pointer + 1
    BY <1>2, <1>7
  <2>2. pointer \in Nat /\ pointer' \in Nat /\ pointer <= pointer' /\ pointer' <= last + 1
    BY SMTT(30), <1>2, <1>3, <2>1
  <2>3. InPart(b, words, pointer', last', roc')
    BY <1>2, <1>3, <2>2, InPartOn
  <2>4. SlotSeen(words, pointer', slot')
    BY <1>1, <1>2, <1>3, <2>1, SlotSeenNow
  <2>5. did \in Detectors
    BY <1>3 DEF WalkInv
  <2>6. Holds(event, <<bank, pointer'>>, hits', hitcount')
    <3>1. /\ pointer \in 1 .. Len(event[bank].words) /\ w = event[bank].words[pointer]
          /\ bank \in 1 .. Len(event) /\ ~NoHits(event[bank].roc)
      BY <1>1, <1>3
    <3>2. TrueData(roc, w) /\ w \in Word /\ w.low # Overflow /\ x = EntryOf(roc, w) /\ x.did = did
      BY <1>1, <1>3, <1>5, <1>7
    <3> QED
      BY <1>3, <2>1, <2>5, <3>1, <3>2, StoreHolds
  <2> QED
    BY <1>1, <1>2, <1>3, <1>6, <2>3, <2>4, <2>6, WordsNext
<1>8. CASE x.did # did
  <2>1. pc' = "bank" /\ pointer' = pointer /\ hits' = hits /\ hitcount' = hitcount
    BY <1>2, <1>8
  <2>2. SlotSeen(words, pointer', slot')
    BY <1>1, <1>2, <1>3, <1>4, <2>1, SlotSeenNow
  <2>3. InPart(b, words, pointer', last', roc') /\ Holds(event, <<bank, pointer'>>, hits', hitcount')
    BY <1>2, <1>3, <2>1
  <2> QED
    BY <1>1, <1>2, <1>3, <1>6, <2>2, <2>3, WordsNext
<1> QED
  BY <1>7, <1>8

LEMMA WordsStep ==
  TrueMap /\ (\A e \in Events : TrueEvent(e)) /\ IInv /\ WordsInv /\ [Next]_decodervars => WordsInv'
<1> SUFFICES ASSUME TrueMap, \A e \in Events : TrueEvent(e), IInv, WordsInv, [Next]_decodervars PROVE WordsInv'
  OBVIOUS
<1>1. CASE \E e \in Events : NextEvent(e)
  BY <1>1, NextEventWords
<1>2. CASE NextBank
  BY <1>2, NextBankWords
<1>3. CASE LastBank
  <2>1. /\ pc = "banks" /\ bank = Len(event) /\ pc' = "idle"
        /\ UNCHANGED <<bankvars, pointer, slot, hits, hitcount>>
    BY <1>3 DEF LastBank
  <2>2. InBank' <=> InBank
    BY <2>1 DEF InBank
  <2> QED
    BY <2>1, <2>2, NothingRead
<1>4. CASE BankEnds
  BY <1>4, BankEndsWords
<1>5. CASE BankWord
  BY <1>5, BankWordWords
<1>6. CASE SkipReport
  BY <1>6, SkipReportWords
<1>7. CASE SkipHeader
  BY <1>7, SkipHeaderWords
<1>8. CASE DetectorWord
  BY <1>8, DetectorWordWords
<1>9. CASE DetectorEnds
  <2>1. pc = "detector" /\ pc' = "bank" /\ UNCHANGED <<bankvars, pointer, slot, hits, hitcount>>
    BY <1>9 DEF DetectorEnds
  <2>2. InBank' <=> InBank
    BY <2>1 DEF InBank
  <2> QED
    BY <2>1, <2>2, NothingRead
<1>10. CASE UNCHANGED decodervars
  <2>1. pc' = pc /\ UNCHANGED <<bankvars, pointer, slot, hits, hitcount>>
    BY <1>10 DEF decodervars
  <2>2. InBank' <=> InBank
    BY <2>1 DEF InBank
  <2> QED
    BY <2>1, <2>2, NothingRead
<1> QED
  BY <1>1, <1>2, <1>3, <1>4, <1>5, <1>6, <1>7, <1>8, <1>9, <1>10 DEF Next, Decode

\* The value with the last of the words is the last value.
LEMMA IsLastValue ==
  ASSUME NEW e \in Seq(Banks), NEW d, NEW x, NEW s, NEW value, IsLast(e, Said(e, d), x, s, value)
  PROVE  value = LastValue(e, Said(e, d), x, s)
<1> DEFINE told == {p \in Said(e, d) : OfSignal(WordAt(e, p), x, s)}
           IsTheLast(p) == \A q \in told : ~Earlier(p, q)
<1>1. LastValue(e, Said(e, d), x, s) = IF told = {} THEN -1 ELSE WordAt(e, CHOOSE p \in told : IsTheLast(p)).low
  BY DEF LastValue
<1>2. CASE told = {}
  BY <1>1, <1>2 DEF IsLast
<1>3. CASE told # {}
  <2>1. PICK p \in told : value = WordAt(e, p).low /\ \A q \in told : q = p \/ Earlier(q, p)
    BY <1>3 DEF IsLast
  <2>2. \A q \in told : q[1] \in Int /\ q[2] \in Int
    <3> SUFFICES ASSUME NEW q \in Said(e, d) PROVE q[1] \in Int /\ q[2] \in Int
      OBVIOUS
    <3>1. PICK c, k : c \in DOMAIN e /\ k \in DOMAIN e[c].words /\ q = <<c, k>>
      BY SaidIs
    <3> QED
      BY <3>1, PlacesAre
  <2>3. ASSUME NEW q \in told PROVE IsTheLast(q) <=> q = p
    <3>1. ASSUME NEW r \in told PROVE ~Earlier(p, r)
      <4>1. r = p \/ Earlier(r, p)
        BY <2>1
      <4> HIDE DEF told
      <4> QED
        BY <2>2, <4>1 DEF Earlier
    <3>2. q # p => Earlier(q, p)
      BY <2>1
    <3> QED
      BY <3>1, <3>2
  <2> HIDE DEF told, IsTheLast
  <2>4. (CHOOSE q \in told : IsTheLast(q)) = p
    BY <2>3
  <2> QED
    BY <1>1, <1>3, <2>1, <2>4
<1> QED
  BY <1>2, <1>3

\* After the last bank the lists hold what the words of the event say.
LEMMA HeldAtEnd ==
  ASSUME IInv, WordsInv
  PROVE  AllDecoded
<1> SUFFICES ASSUME pc = "idle", NEW d \in Detectors
             PROVE  IF SignalCount[d] = 1 THEN EveryWordStored(d) ELSE EverySignalStored(d)
  BY DEF AllDecoded
<1>1. event \in Seq(Banks)
  BY EventIs DEF IInv, TypeInv
<1>2. Cursor = <<Len(event) + 1, 1>>
  BY DEF WordsInv, PartInv, Cursor, InBank
<1>3. SaidBefore(event, d, Cursor) = Said(event, d)
  BY <1>1, <1>2, NothingBefore
<1>4. IF SignalCount[d] = 1 THEN HasWords(event, d, Said(event, d), hits[d], hitcount[d])
                            ELSE HasSignals(event, Said(event, d), hits[d], hitcount[d])
  BY <1>3 DEF WordsInv, DoneInv, Holds
<1>5. CASE SignalCount[d] = 1
  BY <1>4, <1>5 DEF HasWords, EveryWordStored
<1>6. CASE SignalCount[d] # 1
  <2>1. HasSignals(event, Said(event, d), hits[d], hitcount[d])
    BY <1>4, <1>6
  <2>2. \A i \in 1 .. hitcount[d] : \A s \in 0 .. 3 :
          hits[d][i].signal[s] = LastValue(event, Said(event, d), hits[d][i], s)
    BY <1>1, <2>1, IsLastValue DEF HasSignals
  <2>3. EverySignalStored(d)
    BY <2>1, <2>2 DEF HasSignals, EverySignalStored
  <2> QED
    BY <1>6, <2>3
<1> QED
  BY <1>5, <1>6

\* For every map and all events that keep the rules of TrueMap and TrueEvent: after
\* an event the lists hold what the map file makes of its words, each of them once
\* and nothing else (g_decode_fb_bank.f:358-752, g_decode_fb_detector.f:123-474).
THEOREM WordsDecoded == TrueMap /\ (\A e \in Events : TrueEvent(e)) => (Spec => []AllDecoded)
<1> SUFFICES ASSUME TrueMap, \A e \in Events : TrueEvent(e) PROVE Spec => []AllDecoded
  OBVIOUS
<1>1. Init => IInv /\ WordsInv
  BY InitEstablishes, WordsInit
<1>2. IInv /\ WordsInv /\ [Next]_decodervars => IInv' /\ WordsInv'
  BY StepKeeps, WordsStep
<1>3. IInv /\ WordsInv => AllDecoded
  BY HeldAtEnd
<1> QED
  BY <1>1, <1>2, <1>3, PTL DEF Spec

-----------------------------------------------------------------------------
(* Sequences of sequences. *)

\* h has the first elements of s, put together, up to the m-th.
FlatSteps(h, s, m) == h = [i \in 1 .. m |-> IF i = 1 THEN s[i] ELSE h[i - 1] \o s[i]]

LEMMA FlatStepsNext ==
  ASSUME NEW s, NEW n \in Nat, NEW m \in 0 .. n - 1, \E h : FlatSteps(h, s, m)
  PROVE  \E h : FlatSteps(h, s, m + 1)
<1>1. PICK g : FlatSteps(g, s, m)
  OBVIOUS
<1> DEFINE h == [i \in 1 .. m + 1 |-> IF i <= m THEN g[i] ELSE IF i = 1 THEN s[i] ELSE g[m] \o s[i]]
<1>2. \A i \in 1 .. m + 1 : h[i] = IF i = 1 THEN s[i] ELSE h[i - 1] \o s[i]
  <2> SUFFICES ASSUME NEW i \in 1 .. m + 1
               PROVE  h[i] = IF i = 1 THEN s[i] ELSE h[i - 1] \o s[i]
    OBVIOUS
  <2>1. CASE i = m + 1
    <3>1. i # 1 => i - 1 \in 1 .. m + 1 /\ i - 1 <= m /\ i - 1 = m
      BY <2>1
    <3>2. i # 1 => h[i - 1] = g[m]
      BY <3>1
    <3>3. h[i] = IF i = 1 THEN s[i] ELSE g[m] \o s[i]
      BY <2>1
    <3> QED
      BY <3>2, <3>3
  <2>2. CASE i # m + 1
    <3>1. i \in 1 .. m /\ h[i] = g[i]
      BY <2>2
    <3>2. g[i] = IF i = 1 THEN s[i] ELSE g[i - 1] \o s[i]
      BY <1>1, <3>1 DEF FlatSteps
    <3>3. i # 1 => h[i - 1] = g[i - 1]
      BY <3>1
    <3> QED
      BY <3>1, <3>2, <3>3
  <2> QED
    BY <2>1, <2>2
<1>3. FlatSteps(h, s, m + 1)
  BY <1>2 DEF FlatSteps
<1> HIDE DEF h
<1> QED
  BY <1>3

LEMMA FlattenIs ==
  ASSUME NEW s, Len(s) \in Nat \ {0}
  PROVE  \E h : FlatSteps(h, s, Len(s)) /\ FlattenSeq(s) = h[Len(s)]
<1> DEFINE n == Len(s)
           Z == {m \in 0 .. n : \E h : FlatSteps(h, s, m)}
<1>1. 0 \in Z
  <2>1. FlatSteps([i \in 1 .. 0 |-> s[i]], s, 0)
    BY DEF FlatSteps
  <2>2. 0 \in 0 .. n /\ \E h : FlatSteps(h, s, 0)
    BY <2>1
  <2> QED
    BY <2>2
<1>2. \A m \in 0 .. n - 1 : m \in Z => m + 1 \in Z
  <2> SUFFICES ASSUME NEW m \in 0 .. n - 1, m \in Z PROVE m + 1 \in Z
    OBVIOUS
  <2>1. \E h : FlatSteps(h, s, m + 1)
    BY FlatStepsNext
  <2> QED
    BY <2>1
<1>3. n \in Z
  <2>1. \A i \in 0 .. n : i \in Z
    <3> HIDE DEF Z
    <3> QED
      BY <1>1, <1>2, UpTo
  <2> QED
    BY <2>1
<1>4. \E h : FlatSteps(h, s, n)
  BY <1>3
<1>5. FlatSteps(CHOOSE h : FlatSteps(h, s, n), s, n)
  BY <1>4
<1>6. FlattenSeq(s) = (CHOOSE h : FlatSteps(h, s, n))[n]
  BY DEF FlattenSeq, FlatSteps
<1> QED
  BY <1>5, <1>6

\* The flat sequence of one sequence more ends with that.
LEMMA FlattenNext ==
  ASSUME NEW n \in Nat, n > 0, NEW s, NEW t, Len(s) = n, Len(t) = n + 1, \A i \in 1 .. n : s[i] = t[i]
  PROVE  FlattenSeq(t) = FlattenSeq(s) \o t[n + 1]
<1>1. PICK g : FlatSteps(g, s, n) /\ FlattenSeq(s) = g[n]
  BY FlattenIs
<1>2. PICK h : FlatSteps(h, t, n + 1) /\ FlattenSeq(t) = h[n + 1]
  BY FlattenIs
<1> DEFINE Z == {m \in 0 .. n : m > 0 => g[m] = h[m]}
<1>3. 0 \in Z
  OBVIOUS
<1>4. \A m \in 0 .. n - 1 : m \in Z => m + 1 \in Z
  <2> SUFFICES ASSUME NEW m \in 0 .. n - 1, m \in Z PROVE m + 1 \in Z
    OBVIOUS
  <2>1. m + 1 \in 1 .. n /\ m + 1 \in 1 .. n + 1 /\ (m + 1) - 1 = m
    OBVIOUS
  <2>2. g[m + 1] = IF m + 1 = 1 THEN s[m + 1] ELSE g[m] \o s[m + 1]
    BY ZenonT(30), <1>1, <2>1 DEF FlatSteps
  <2>3. h[m + 1] = IF m + 1 = 1 THEN t[m + 1] ELSE h[m] \o t[m + 1]
    BY ZenonT(30), <1>2, <2>1 DEF FlatSteps
  <2>4. g[m + 1] = h[m + 1]
    BY <2>1, <2>2, <2>3
  <2> QED
    BY <2>4
<1>5. \A i \in 0 .. n : i \in Z
  <2> HIDE DEF Z
  <2> QED
    BY SMTT(30), <1>3, <1>4, UpTo
<1>6. g[n] = h[n]
  BY <1>5
<1>7. h[n + 1] = h[n] \o t[n + 1]
  <2>1. n + 1 \in 1 .. n + 1 /\ (n + 1) - 1 = n /\ n + 1 # 1
    OBVIOUS
  <2> QED
    BY <1>2, <2>1 DEF FlatSteps
<1> QED
  BY <1>1, <1>2, <1>6, <1>7

\* The flat sequence of one sequence is that one.
LEMMA FlattenOne ==
  ASSUME NEW t, Len(t) = 1
  PROVE  FlattenSeq(t) = t[1]
<1>1. \E h : FlatSteps(h, t, 1) /\ FlattenSeq(t) = h[1]
  <2>1. Len(t) \in Nat \ {0}
    OBVIOUS
  <2>2. PICK h : FlatSteps(h, t, Len(t)) /\ FlattenSeq(t) = h[Len(t)]
    BY <2>1, FlattenIs
  <2> QED
    BY <2>2
<1>2. PICK h : FlatSteps(h, t, 1) /\ FlattenSeq(t) = h[1]
  BY <1>1
<1>3. h[1] = t[1]
  <2>1. h = [i \in 1 .. 1 |-> IF i = 1 THEN t[i] ELSE h[i - 1] \o t[i]]
    BY <1>2 DEF FlatSteps
  <2> QED
    BY <2>1
<1> QED
  BY <1>2, <1>3


-----------------------------------------------------------------------------
(* The segments of a run. *)

Files == Seq(Events) \cup {NoFile}

\* What the first n segments give
FirstSegments(n) == IF n = 0 THEN <<>> ELSE FlattenSeq([i \in 1 .. n |-> S!Readable(run.segments[i])])

InSegments == run.plain = NoFile /\ S!TriesSegments(run.last)
Good(i) == run.segments[i] # NoFile /\ (i > 1 => S!Readable(run.segments[i]) # <<>>)

RunInv ==
  /\ run \in Runs
  /\ source \in {"closed", "open", "ended"}
  /\ source = "closed" => g_segment = 0 /\ seen = <<>>
  /\ seen \in Seq(Events) /\ pos \in Nat /\ g_segment \in Int
  /\ source = "open" => file \in Seq(Events)

\* Up to the event that was read last, all events of all segments have been seen
OpenInv ==
  /\ g_segment \in 0 .. 99 /\ g_segment < Len(run.segments)
  /\ file = run.segments[g_segment + 1]
  /\ \A i \in 1 .. g_segment + 1 : Good(i)
  /\ pos <= Len(S!Readable(file))
  /\ FirstSegments(g_segment) \in Seq(Events)
  /\ seen = FirstSegments(g_segment) \o SubSeq(S!Readable(file), 1, pos)

SegmentsInv ==
  /\ RunInv
  /\ InSegments /\ source = "open" => OpenInv
  /\ SegmentsInOrder

\* A file has a prefix that can be read, up to the first event that is too long.
LEMMA ReadableIs ==
  ASSUME NEW f \in Seq(Events)
  PROVE  /\ S!Readable(f) \in Seq(Events)
         /\ Len(S!Readable(f)) <= Len(f)
         /\ \A i \in 1 .. Len(S!Readable(f)) : S!Readable(f)[i] = f[i] /\ f[i] # TooLong
         /\ Len(S!Readable(f)) < Len(f) => f[Len(S!Readable(f)) + 1] = TooLong
<1> DEFINE bad == {i \in DOMAIN f : f[i] = TooLong}
<1>1. S!Readable(f) = IF bad = {} THEN f ELSE SubSeq(f, 1, Min(bad) - 1)
  BY DEF S!Readable, S!Min, Min
<1>2. CASE bad = {}
  <2>1. S!Readable(f) = f
    BY <1>1, <1>2
  <2>2. \A i \in 1 .. Len(f) : f[i] # TooLong
    BY <1>2
  <2> QED
    BY <2>1, <2>2
<1>3. CASE bad # {}
  <2>1. bad \in SUBSET Nat
    OBVIOUS
  <2>2. \E m \in bad : \A n \in bad : m <= n
    <3> HIDE DEF bad
    <3> QED
      BY <1>3, <2>1, LeastOf
  <2>3. Min(bad) \in bad /\ \A n \in bad : Min(bad) <= n
    <3> HIDE DEF bad
    <3> QED
      BY <2>2 DEF Min
  <2>4. PICK m : m = Min(bad)
    OBVIOUS
  <2>5. m \in 1 .. Len(f) /\ f[m] = TooLong /\ \A i \in 1 .. m - 1 : f[i] # TooLong
    <3>1. m \in 1 .. Len(f) /\ f[m] = TooLong
      BY <2>3, <2>4
    <3>2. ASSUME NEW i \in 1 .. m - 1, f[i] = TooLong PROVE FALSE
      <4>1. i \in bad
        BY <3>1, <3>2
      <4>2. m <= i
        BY <2>3, <2>4, <4>1
      <4> QED
        BY <3>1, <4>2
    <3> QED
      BY <3>1, <3>2
  <2>6. S!Readable(f) = SubSeq(f, 1, m - 1)
    BY <1>1, <1>3, <2>4
  <2>7. /\ SubSeq(f, 1, m - 1) \in Seq(Events)
        /\ Len(SubSeq(f, 1, m - 1)) = m - 1
        /\ \A i \in 1 .. m - 1 : SubSeq(f, 1, m - 1)[i] = f[i]
    BY <2>5
  <2> QED
    BY <2>5, <2>6, <2>7
<1> QED
  BY <1>2, <1>3

\* The next event can be read exactly when the prefix has one more.
LEMMA CanReadNext ==
  ASSUME NEW f \in Seq(Events), NEW p \in Nat, p <= Len(S!Readable(f))
  PROVE  /\ S!CanRead(f, p) <=> p < Len(S!Readable(f))
         /\ S!CanRead(f, p) => S!Readable(f)[p + 1] = f[p + 1]
<1> DEFINE r == S!Readable(f)
<1>1. /\ r \in Seq(Events) /\ Len(r) <= Len(f)
      /\ \A i \in 1 .. Len(r) : r[i] = f[i] /\ f[i] # TooLong
      /\ Len(r) < Len(f) => f[Len(r) + 1] = TooLong
  BY ReadableIs
<1>2. Len(r) \in Nat /\ Len(f) \in Nat /\ p <= Len(r)
  BY <1>1
<1> HIDE DEF r
<1>3. CASE p < Len(r)
  <2>1. p + 1 \in 1 .. Len(r) /\ p < Len(f)
    BY <1>1, <1>2, <1>3
  <2> QED
    BY <1>1, <1>3, <2>1 DEF S!CanRead, r
<1>4. CASE p = Len(r)
  <2>1. ~(p < Len(f) /\ f[p + 1] # TooLong)
    BY <1>1, <1>2, <1>4
  <2> QED
    BY <1>2, <1>4, <2>1 DEF S!CanRead, r
<1> QED
  BY <1>2, <1>3, <1>4

\* The name of segment n gives the file of segment n.
LEMMA NameOfSegment ==
  ASSUME NEW n \in 0 .. 99
  PROVE  S!FileOf(S!Extension(n)) = IF n < Len(run.segments) THEN run.segments[n + 1] ELSE NoFile
<1> DEFINE ext == S!Extension(n)
<1>1. CASE n < 10
  <2>1. ext = <<48 + n>>
    BY <1>1 DEF S!Extension, S!ZERO
  <2>2. (\A k \in DOMAIN ext : S!IsDigit(ext[k])) /\ S!Number(ext) = n
    BY <1>1, <2>1 DEF S!IsDigit, S!Number, S!ZERO, S!NINE
  <2> QED
    BY <2>2 DEF S!FileOf
<1>2. CASE n >= 10
  <2> DEFINE q == n \div 10
  <2>1. q \in 0 .. 9 /\ n - 10 * q \in 0 .. 9 /\ q \in Int
    BY <1>2
  <2> HIDE DEF q
  <2>2. ext = <<48 + q, 48 + n - 10 * q>>
    BY <1>2 DEF S!Extension, S!ZERO, q
  <2>3. \A k \in DOMAIN ext : S!IsDigit(ext[k])
    BY <2>1, <2>2 DEF S!IsDigit, S!ZERO, S!NINE
  <2>4. S!Number(ext) = n
    <3>1. Len(ext) = 2 /\ ext[1] = 48 + q /\ ext[2] = 48 + n - 10 * q
      BY <2>2
    <3> HIDE DEF ext
    <3>2. S!Number(ext) = 10 * (ext[1] - 48) + ext[2] - 48
      BY <3>1 DEF S!Number, S!ZERO
    <3> QED
      BY <2>1, <3>1, <3>2
  <2> QED
    BY <2>3, <2>4 DEF S!FileOf
<1>3. n < 10 \/ n >= 10
  OBVIOUS
<1> HIDE DEF ext
<1> QED
  BY <1>1, <1>2, <1>3 DEF ext


\* The segments of a run are files.
LEMMA SegmentIsFile ==
  ASSUME run \in Runs
  PROVE  /\ run.segments \in Seq(Files) /\ Len(run.segments) \in Nat
         /\ \A i \in 1 .. Len(run.segments) : run.segments[i] \in Files
         /\ run.plain \in Files /\ run.last \in Nat
BY EventPathAssumption DEF Files

\* One segment more gives its events after those of the others.
LEMMA MoreThanOne ==
  ASSUME NEW n \in Nat, n > 0
  PROVE  FirstSegments(n + 1) = FirstSegments(n) \o S!Readable(run.segments[n + 1])
<1> DEFINE s == [i \in 1 .. n |-> S!Readable(run.segments[i])]
           t == [i \in 1 .. n + 1 |-> S!Readable(run.segments[i])]
<1>1. Len(s) = n /\ Len(t) = n + 1 /\ \A i \in 1 .. n : s[i] = t[i]
  OBVIOUS
<1>2. t[n + 1] = S!Readable(run.segments[n + 1])
  OBVIOUS
<1>3. FlattenSeq(t) = FlattenSeq(s) \o t[n + 1]
  <2> HIDE DEF s, t
  <2> QED
    BY <1>1, FlattenNext
<1>4. FirstSegments(n) = FlattenSeq(s) /\ FirstSegments(n + 1) = FlattenSeq(t)
  <2>1. n # 0 /\ n + 1 # 0
    OBVIOUS
  <2> QED
    BY <2>1 DEF FirstSegments
<1> QED
  BY <1>2, <1>3, <1>4

LEMMA OnlyOne == FirstSegments(1) = S!Readable(run.segments[1])
<1> DEFINE t == [i \in 1 .. 1 |-> S!Readable(run.segments[i])]
<1>1. Len(t) = 1 /\ t[1] = S!Readable(run.segments[1])
  OBVIOUS
<1>2. FlattenSeq(t) = t[1]
  <2> HIDE DEF t
  <2> QED
    BY <1>1, FlattenOne
<1> QED
  BY <1>1, <1>2 DEF FirstSegments

\* The segments used are the first n, if these are good and there is no good one
\* after them, or there are a hundred.
LEMMA UsedAre ==
  ASSUME run \in Runs, NEW n \in 1 .. 100, n <= Len(run.segments),
         \A i \in 1 .. n : Good(i),
         n = 100 \/ n = Len(run.segments) \/ ~Good(n + 1)
  PROVE  S!Used = SubSeq(run.segments, 1, n)
<1> DEFINE s == run.segments
           stops == {101, Len(s) + 1} \cup {i \in 2 .. Len(s) : s[i] = NoFile \/ S!Readable(s[i]) = <<>>}
<1>1. s \in Seq(Files) /\ Len(s) \in Nat
  BY SegmentIsFile
<1>2. S!Used = SubSeq(s, 1, Min(stops) - 1)
  BY DEF S!Used, S!Min, Min
<1>3. n + 1 \in stops
  <2>1. CASE n = 100
    BY <2>1
  <2>2. CASE n = Len(s)
    BY <2>2
  <2>3. CASE n # 100 /\ n # Len(s)
    <3>1. ~Good(n + 1) /\ n + 1 \in 2 .. Len(s)
      BY <1>1, <2>3
    <3> QED
      BY <3>1 DEF Good
  <2> QED
    BY <2>1, <2>2, <2>3
<1>4. \A x \in stops : n + 1 <= x
  <2> SUFFICES ASSUME NEW x \in stops PROVE n + 1 <= x
    OBVIOUS
  <2>1. CASE x \in {101, Len(s) + 1}
    BY <1>1, <2>1
  <2>2. CASE x \in 2 .. Len(s) /\ (s[x] = NoFile \/ S!Readable(s[x]) = <<>>)
    <3>1. ~Good(x)
      BY <2>2 DEF Good
    <3>2. ~(x \in 1 .. n)
      BY <3>1
    <3>3. x \in Int /\ x >= 2
      BY <1>1, <2>2
    <3> HIDE DEF s
    <3> QED
      BY <3>2, <3>3
  <2> QED
    BY <2>1, <2>2
<1>5. stops \subseteq Int
  BY <1>1
<1> HIDE DEF stops
<1>6. Min(stops) = n + 1
  <2>1. Min(stops) \in stops /\ \A y \in stops : Min(stops) <= y
    BY <1>3, <1>4 DEF Min
  <2>2. PICK m : m = Min(stops)
    OBVIOUS
  <2>3. m \in Int /\ n + 1 <= m /\ m <= n + 1
    BY <1>3, <1>4, <1>5, <2>1, <2>2
  <2> QED
    BY <2>2, <2>3
<1> QED
  BY <1>2, <1>6

\* What should have been seen at the end
AllSegments == S!FlattenSeq([i \in DOMAIN S!Used |-> S!Readable(S!Used[i])])

\* Then the property says that exactly their events were seen.
LEMMA SeenOfSegments ==
  ASSUME run \in Runs, NEW n \in 1 .. 100, n <= Len(run.segments),
         \A i \in 1 .. n : Good(i),
         n = 100 \/ n = Len(run.segments) \/ ~Good(n + 1),
         seen = FirstSegments(n)
  PROVE  run.segments # <<>> /\ run.segments[1] # NoFile /\ seen = AllSegments
<1>1. S!Used = SubSeq(run.segments, 1, n)
  BY UsedAre
<1>2. run.segments \in Seq(Files) /\ Len(run.segments) \in Nat
  BY SegmentIsFile
<1>3. Good(1)
  OBVIOUS
<1>4. run.segments # <<>> /\ run.segments[1] # NoFile
  <2>1. Len(run.segments) # 0
    BY <1>2
  <2>2. run.segments # <<>>
    BY <2>1
  <2> QED
    BY <1>3, <2>2 DEF Good
<1>5. \A i \in 1 .. n : S!Used[i] = run.segments[i]
  BY <1>1, <1>2
<1>6. DOMAIN S!Used = 1 .. n
  BY <1>1, <1>2
<1>7. [i \in DOMAIN S!Used |-> S!Readable(S!Used[i])] = [i \in 1 .. n |-> S!Readable(run.segments[i])]
  BY <1>5, <1>6
<1>8. S!FlattenSeq([i \in DOMAIN S!Used |-> S!Readable(S!Used[i])]) = FirstSegments(n)
  <2>1. \A s : S!FlattenSeq(s) = FlattenSeq(s)
    BY DEF S!FlattenSeq, FlattenSeq
  <2> QED
    BY <1>7, <2>1 DEF FirstSegments
<1> QED
  BY <1>4, <1>8 DEF AllSegments

LEMMA FirstSegmentsNext ==
  ASSUME NEW n \in Nat, S!Readable(run.segments[n + 1]) \in Seq(Events)
  PROVE  FirstSegments(n + 1) = FirstSegments(n) \o S!Readable(run.segments[n + 1])
<1>1. CASE n = 0
  <2>1. FirstSegments(0) = <<>>
    BY DEF FirstSegments
  <2>2. <<>> \o S!Readable(run.segments[1]) = S!Readable(run.segments[1])
    BY <1>1
  <2> QED
    BY <1>1, <2>1, <2>2, OnlyOne
<1>2. CASE n > 0
  BY <1>2, MoreThanOne
<1> QED
  BY <1>1, <1>2

\* A good segment gives events.
LEMMA ReadableOfGood ==
  ASSUME run \in Runs, NEW i \in 1 .. Len(run.segments), Good(i)
  PROVE  run.segments[i] \in Seq(Events) /\ S!Readable(run.segments[i]) \in Seq(Events)
<1>1. run.segments[i] \in Seq(Events)
  BY SegmentIsFile DEF Files, Good
<1> QED
  BY <1>1, ReadableIs

\* All of a file seen, together with what was seen before.
LEMMA SeenWhole ==
  ASSUME run \in Runs, OpenInv, pos = Len(S!Readable(file)), pos \in Nat
  PROVE  seen = FirstSegments(g_segment + 1)
<1>1. g_segment \in 0 .. 99 /\ g_segment + 1 \in 1 .. Len(run.segments) /\ Good(g_segment + 1)
  <2>1. g_segment \in 0 .. 99 /\ g_segment < Len(run.segments) /\ \A i \in 1 .. g_segment + 1 : Good(i)
    BY DEF OpenInv
  <2>2. Len(run.segments) \in Nat
    BY SegmentIsFile
  <2>3. g_segment + 1 \in 1 .. Len(run.segments) /\ g_segment + 1 \in 1 .. g_segment + 1
    BY <2>1, <2>2
  <2> QED
    BY <2>1, <2>3
<1>2. S!Readable(file) \in Seq(Events) /\ file = run.segments[g_segment + 1]
  BY <1>1, ReadableOfGood DEF OpenInv
<1>3. SubSeq(S!Readable(file), 1, pos) = S!Readable(file)
  BY <1>2
<1>4. FirstSegments(g_segment + 1) = FirstSegments(g_segment) \o S!Readable(file)
  BY SMTT(30), <1>1, <1>2, FirstSegmentsNext
<1> QED
  BY <1>3, <1>4 DEF OpenInv

\* One element more, at the end
LEMMA AppendAfter ==
  ASSUME NEW a \in Seq(Events), NEW b \in Seq(Events), NEW x \in Events
  PROVE  Append(a \o b, x) = a \o Append(b, x)
<1>1. a \o b \in Seq(Events) /\ <<x>> \in Seq(Events)
  OBVIOUS
<1>2. Append(a \o b, x) = (a \o b) \o <<x>> /\ Append(b, x) = b \o <<x>>
  BY <1>1, AppendIsConcat
<1> QED
  BY <1>1, <1>2, ConcatAssociative

\* To see it in the state that follows
LEMMA NowInOrder ==
  ASSUME run \in Runs, run' = run, seen' = seen, NEW n \in 1 .. 100, n <= Len(run.segments),
         \A i \in 1 .. n : Good(i),
         n = 100 \/ n = Len(run.segments) \/ ~Good(n + 1),
         seen = FirstSegments(n)
  PROVE  SegmentsInOrder'
<1>1. run.segments # <<>> /\ run.segments[1] # NoFile /\ seen = AllSegments
  BY SeenOfSegments
<1>2. AllSegments' = AllSegments
  BY DEF AllSegments, S!Used, S!Readable
<1> QED
  BY <1>1, <1>2 DEF SegmentsInOrder, S!SegmentsInOrder, AllSegments


LEMMA SegmentsInit == PathInit => SegmentsInv
<1> SUFFICES ASSUME PathInit PROVE SegmentsInv
  OBVIOUS
<1>1. run \in Runs /\ source = "closed" /\ g_segment = 0 /\ pos = 0 /\ seen = <<>>
  BY DEF PathInit, S!Init
<1>2. \A T : <<>> \in Seq(T)
  OBVIOUS
<1> QED
  BY <1>1, <1>2 DEF SegmentsInv, RunInv, SegmentsInOrder, S!SegmentsInOrder

\* Opening the file of that name, or the first segment
LEMMA OpenKeeps ==
  ASSUME SegmentsInv, S!g_open_source
  PROVE  SegmentsInv'
<1>1. /\ run \in Runs /\ source = "closed" /\ g_segment = 0 /\ seen = <<>>
      /\ run' = run /\ seen' = <<>> /\ pos \in Nat
  BY DEF SegmentsInv, RunInv, S!g_open_source
<1>2. \A T : <<>> \in Seq(T)
  OBVIOUS
<1>3. run.plain \in Files /\ Len(run.segments) \in Nat
  BY <1>1, SegmentIsFile
<1>4. CASE /\ run.plain # NoFile /\ S!Open(run.plain) /\ g_segment' = -1 /\ source' = "open"
  <2>1. RunInv'
    BY <1>1, <1>2, <1>3, <1>4 DEF RunInv, S!Open, Files
  <2>2. ~InSegments' /\ SegmentsInOrder'
    BY <1>1, <1>4 DEF InSegments, SegmentsInOrder, S!SegmentsInOrder
  <2> QED
    BY <2>1, <2>2 DEF SegmentsInv
<1>5. CASE /\ run.plain = NoFile /\ S!TriesSegments(run.last) /\ g_segment' = 0
           /\ S!FileOf(S!Extension(0)) # NoFile /\ S!Open(S!FileOf(S!Extension(0))) /\ source' = "open"
  <2> DEFINE f == run.segments[1]
  <2>1. S!FileOf(S!Extension(0)) = f /\ 0 < Len(run.segments)
    <3>1. S!FileOf(S!Extension(0)) = IF 0 < Len(run.segments) THEN run.segments[0 + 1] ELSE NoFile
      BY NameOfSegment
    <3> QED
      BY <1>5, <3>1
  <2>2. f \in Seq(Events)
    BY <1>1, <1>3, <1>5, <2>1, SegmentIsFile DEF Files
  <2>3. file' = f /\ pos' = 0
    BY <1>5, <2>1 DEF S!Open
  <2>4. S!Readable(f) \in Seq(Events)
    BY <2>2, ReadableIs
  <2>5. RunInv'
    BY <1>1, <1>2, <1>5, <2>2, <2>3 DEF RunInv
  <2>6. OpenInv'
    <3>1. g_segment' = 0 /\ g_segment' < Len(run'.segments)
      BY <1>1, <1>5, <2>1
    <3>2. file' = run'.segments[g_segment' + 1]
      BY <1>1, <1>5, <2>3
    <3>3. \A i \in 1 .. g_segment' + 1 : Good(i)'
      <4> SUFFICES ASSUME NEW i \in 1 .. g_segment' + 1 PROVE Good(i)'
        OBVIOUS
      <4>1. i = 1 /\ f # NoFile
        BY <1>5, <2>1
      <4> QED
        BY <1>1, <4>1 DEF Good
    <3>4. (S!Readable(file))' = S!Readable(f) /\ pos' <= Len((S!Readable(file))')
      <4>1. (S!Readable(file))' = S!Readable(f)
        BY <2>3 DEF S!Readable
      <4> QED
        BY <2>3, <2>4, <4>1
    <3>5. /\ FirstSegments(g_segment)' \in Seq(Events)
          /\ seen' = FirstSegments(g_segment)' \o SubSeq((S!Readable(file))', 1, pos')
      <4>1. SubSeq(S!Readable(f), 1, 0) = <<>> /\ <<>> \o SubSeq(S!Readable(f), 1, 0) = <<>>
        BY <2>4
      <4>2. <<>> \in Seq(Events)
        BY <1>2
      <4>3. FirstSegments(g_segment)' = <<>>
        BY <1>5 DEF FirstSegments
      <4> QED
        BY <1>1, <2>3, <3>4, <4>1, <4>2, <4>3
    <3> QED
      BY <3>1, <3>2, <3>3, <3>4, <3>5 DEF OpenInv
  <2>7. SegmentsInOrder'
    BY <1>5 DEF SegmentsInOrder, S!SegmentsInOrder
  <2> QED
    BY <2>5, <2>6, <2>7 DEF SegmentsInv
<1>6. CASE source' = "ended" /\ g_segment' = 0 /\ (run.plain = NoFile /\ S!TriesSegments(run.last) => S!FileOf(S!Extension(0)) = NoFile)
           /\ UNCHANGED <<file, pos>>
  <2>1. RunInv'
    BY <1>1, <1>2, <1>6 DEF RunInv
  <2>2. S!FileOf(S!Extension(0)) = IF 0 < Len(run.segments) THEN run.segments[0 + 1] ELSE NoFile
    BY NameOfSegment
  <2>3. InSegments => run.segments = <<>> \/ run.segments[1] = NoFile
    <3>1. run.segments \in Seq(Files)
      BY <1>1, SegmentIsFile
    <3>2. Len(run.segments) = 0 => run.segments = <<>>
      BY <3>1
    <3> QED
      BY <1>3, <1>6, <2>2, <3>2 DEF InSegments
  <2>4. SegmentsInOrder'
    BY <1>1, <2>3 DEF SegmentsInOrder, S!SegmentsInOrder, InSegments, S!TriesSegments
  <2> QED
    BY <1>6, <2>1, <2>4 DEF SegmentsInv
<1>7. \/ /\ run.plain # NoFile /\ S!Open(run.plain) /\ g_segment' = -1 /\ source' = "open"
      \/ /\ run.plain = NoFile /\ S!TriesSegments(run.last) /\ g_segment' = 0
         /\ S!FileOf(S!Extension(0)) # NoFile /\ S!Open(S!FileOf(S!Extension(0))) /\ source' = "open"
      \/ /\ source' = "ended" /\ g_segment' = 0
         /\ run.plain = NoFile /\ S!TriesSegments(run.last) => S!FileOf(S!Extension(0)) = NoFile
         /\ UNCHANGED <<file, pos>>
  BY <1>1 DEF S!g_open_source
<1> QED
  BY <1>4, <1>5, <1>6, <1>7

LEMMA ReadKeeps ==
  ASSUME SegmentsInv, source = "open", S!ReadEvent, run' = run
  PROVE  SegmentsInv'
<1>1. /\ run \in Runs /\ seen \in Seq(Events) /\ file \in Seq(Events) /\ pos \in Nat
  BY DEF SegmentsInv, RunInv
<1>2. /\ seen' = Append(seen, file[pos + 1]) /\ pos' = pos + 1 /\ S!CanRead(file, pos)
      /\ UNCHANGED <<source, g_segment, file>>
  BY DEF S!ReadEvent
<1>3. file[pos + 1] \in Events
  BY <1>1, <1>2 DEF S!CanRead
<1>4. RunInv'
  BY <1>1, <1>2, <1>3 DEF RunInv, SegmentsInv
<1>5. SegmentsInOrder'
  BY <1>2 DEF SegmentsInOrder, S!SegmentsInOrder
<1>6. ASSUME InSegments' PROVE OpenInv'
  <2>1. OpenInv
    BY <1>6, <1>2 DEF SegmentsInv, InSegments, S!TriesSegments
  <2>2. S!Readable(file) \in Seq(Events)
    BY <1>1, ReadableIs
  <2>3. pos < Len(S!Readable(file)) /\ S!Readable(file)[pos + 1] = file[pos + 1]
    BY <1>1, <1>2, <2>1, CanReadNext DEF OpenInv
  <2>4. PICK before \in Seq(Events) :
          before = FirstSegments(g_segment) /\ seen = before \o SubSeq(S!Readable(file), 1, pos)
    BY <2>1 DEF OpenInv
  <2>5. PICK r : r = S!Readable(file)
    OBVIOUS
  <2>6. r \in Seq(Events) /\ Len(r) \in Nat /\ pos + 1 <= Len(r) /\ r[pos + 1] = file[pos + 1]
    BY <1>1, <2>2, <2>3, <2>5
  <2>7. SubSeq(r, 1, pos + 1) = Append(SubSeq(r, 1, pos), file[pos + 1]) /\ SubSeq(r, 1, pos) \in Seq(Events)
    BY SMTT(30), <1>1, <2>6
  <2>8. seen' = before \o SubSeq(r, 1, pos + 1)
    <3>1. PICK a : a = SubSeq(r, 1, pos)
      OBVIOUS
    <3>2. a \in Seq(Events) /\ seen = before \o a /\ SubSeq(r, 1, pos + 1) = Append(a, file[pos + 1])
      BY <2>4, <2>5, <2>7, <3>1
    <3>3. PICK x : x = file[pos + 1]
      OBVIOUS
    <3>4. x \in Events /\ seen' = Append(before \o a, x)
      BY <1>2, <1>3, <3>2, <3>3
    <3>5. Append(before \o a, x) = before \o Append(a, x)
      <4>1. before \in Seq(Events) /\ a \in Seq(Events) /\ x \in Events
        BY <3>2, <3>4
      <4> QED
        BY <4>1, AppendAfter
    <3> QED
      BY <3>2, <3>3, <3>4, <3>5
  <2>9. /\ (S!Readable(file))' = r /\ (\A i : Good(i)' = Good(i))
        /\ FirstSegments(g_segment)' = FirstSegments(g_segment)
    BY <1>2, <2>5 DEF Good, FirstSegments, S!Readable
  <2>10. /\ g_segment' \in 0 .. 99 /\ g_segment' < Len(run'.segments)
         /\ file' = run'.segments[g_segment' + 1]
         /\ \A i \in 1 .. g_segment' + 1 : Good(i)'
    BY <1>2, <2>1, <2>9 DEF OpenInv
  <2>11. pos' <= Len((S!Readable(file))')
    BY <1>2, <2>6, <2>9
  <2>12. before = FirstSegments(g_segment)'
    BY <1>2, <2>4, <2>9
  <2>13. seen' = before \o SubSeq((S!Readable(file))', 1, pos')
    BY <1>2, <2>8, <2>9
  <2> QED
    BY <2>10, <2>11, <2>12, <2>13 DEF OpenInv
<1> QED
  BY <1>4, <1>5, <1>6 DEF SegmentsInv


LEMMA NoMoreKeeps ==
  ASSUME SegmentsInv, source = "open", S!NoMore, run' = run
  PROVE  SegmentsInv'
<1>1. /\ run \in Runs /\ seen \in Seq(Events) /\ file \in Seq(Events) /\ pos \in Nat
  BY DEF SegmentsInv, RunInv
<1>2. ~S!CanRead(file, pos) /\ source' = "ended" /\ UNCHANGED <<file, pos, seen>>
  BY DEF S!NoMore
<1>3. RunInv'
  <2>1. g_segment \in Int /\ g_segment' \in Int
    BY SMTT(30) DEF S!NoMore, SegmentsInv, RunInv
  <2> QED
    BY <1>1, <1>2, <2>1 DEF RunInv
<1>4. ASSUME InSegments, g_segment' >= 0 PROVE SegmentsInOrder'
  <2>1. OpenInv
    BY <1>4 DEF SegmentsInv
  <2>2. g_segment' = g_segment + 1 /\ g_segment = 99
    BY <2>1 DEF OpenInv, S!NoMore
  <2>3. S!Readable(file) \in Seq(Events) /\ pos <= Len(S!Readable(file))
    BY <1>1, <2>1, ReadableIs DEF OpenInv
  <2>4. pos = Len(S!Readable(file))
    <3>1. ~(pos < Len(S!Readable(file)))
      BY <1>1, <1>2, <2>3, CanReadNext
    <3>2. Len(S!Readable(file)) \in Nat
      BY <2>3
    <3> QED
      BY <1>1, <2>3, <3>1, <3>2
  <2>5. seen = FirstSegments(100)
    <3>1. seen = FirstSegments(g_segment + 1)
      BY <1>1, <2>1, <2>4, SeenWhole
    <3> QED
      BY <2>2, <3>1
  <2>6. 100 \in 1 .. 100 /\ 100 <= Len(run.segments) /\ \A i \in 1 .. 100 : Good(i)
    <3>1. Len(run.segments) \in Nat
      BY <1>1, SegmentIsFile
    <3>2. g_segment < Len(run.segments) /\ \A i \in 1 .. g_segment + 1 : Good(i)
      BY <2>1 DEF OpenInv
    <3>3. g_segment + 1 = 100 /\ 100 \in 1 .. 100
      BY <2>2
    <3>4. 100 <= Len(run.segments)
      <4>1. 99 < Len(run.segments)
        BY <2>2, <3>2
      <4> QED
        BY <3>1, <4>1
    <3>5. \A i \in 1 .. 100 : Good(i)
      BY <3>2, <3>3, Zenon
    <3> QED
      BY <3>3, <3>4, <3>5
  <2> QED
    BY <1>1, <1>2, <2>5, <2>6, NowInOrder
<1>5. SegmentsInOrder'
  <2>1. CASE InSegments /\ g_segment' >= 0
    BY <1>4, <2>1
  <2>2. CASE ~(InSegments /\ g_segment' >= 0)
    BY <2>2 DEF SegmentsInOrder, S!SegmentsInOrder, InSegments, S!TriesSegments
  <2> QED
    BY <2>1, <2>2
<1> QED
  BY <1>2, <1>3, <1>5 DEF SegmentsInv

LEMMA NextKeeps ==
  ASSUME SegmentsInv, source = "open", S!NextSegment, run' = run
  PROVE  SegmentsInv'
<1>1. /\ run \in Runs /\ seen \in Seq(Events) /\ file \in Seq(Events) /\ pos \in Nat
  BY DEF SegmentsInv, RunInv
<1>2. PICK f : /\ f = S!FileOf(S!Extension(g_segment + 1))
               /\ \/ /\ f = NoFile /\ source' = "ended" /\ UNCHANGED <<file, pos, seen>>
                  \/ /\ f # NoFile /\ file' = f
                     /\ \/ S!CanRead(f, 0) /\ pos' = 1 /\ seen' = Append(seen, f[1]) /\ UNCHANGED source
                        \/ ~S!CanRead(f, 0) /\ pos' = 0 /\ source' = "ended" /\ UNCHANGED seen
  BY DEF S!NextSegment
<1>3. ~S!CanRead(file, pos) /\ g_segment >= 0 /\ g_segment + 1 < 100 /\ g_segment' = g_segment + 1
  BY DEF S!NextSegment
<1>4. g_segment \in 0 .. 98
  BY <1>3 DEF SegmentsInv, RunInv
<1>5. PICK m : m = g_segment + 1
  OBVIOUS
<1>6. m \in 1 .. 99 /\ m \in 0 .. 99 /\ m + 1 = g_segment + 2 /\ Len(run.segments) \in Nat
  BY <1>1, <1>4, <1>5, SegmentIsFile
<1>7. /\ f # NoFile => m + 1 \in 1 .. Len(run.segments) /\ f = run.segments[m + 1] /\ f \in Seq(Events)
      /\ f = NoFile => m >= Len(run.segments) \/ run.segments[m + 1] = NoFile
  <2>1. f = IF m < Len(run.segments) THEN run.segments[m + 1] ELSE NoFile
    BY <1>2, <1>5, <1>6, NameOfSegment
  <2>2. f # NoFile => m + 1 \in 1 .. Len(run.segments) /\ f = run.segments[m + 1]
    BY <1>6, <2>1
  <2>3. f # NoFile => f \in Seq(Events)
    BY <1>1, <2>2, SegmentIsFile DEF Files
  <2>4. f = NoFile => m >= Len(run.segments) \/ run.segments[m + 1] = NoFile
    <3>1. CASE m < Len(run.segments)
      BY <2>1, <3>1
    <3>2. CASE ~(m < Len(run.segments))
      BY <1>6, <3>2
    <3> QED
      BY <3>1, <3>2
  <2> QED
    BY <2>2, <2>3, <2>4
<1>8. RunInv'
  <2>1. seen' \in Seq(Events)
    <3>1. f # NoFile /\ S!CanRead(f, 0) => f[1] \in Events
      BY <1>7 DEF S!CanRead
    <3> QED
      BY <1>1, <1>2, <3>1
  <2>2. run' \in Runs /\ source' \in {"open", "ended"} /\ pos' \in Nat /\ g_segment' \in Int
    BY <1>1, <1>2, <1>3, <1>4
  <2>3. source' = "open" => file' \in Seq(Events)
    BY <1>2, <1>7
  <2> QED
    BY <2>1, <2>2, <2>3 DEF RunInv
<1>9. ASSUME InSegments
      PROVE  /\ OpenInv /\ S!Readable(file) \in Seq(Events)
             /\ seen = FirstSegments(m) /\ m <= Len(run.segments)
             /\ \A i \in 1 .. m : Good(i)
  <2>1. OpenInv
    BY <1>9 DEF SegmentsInv
  <2>2. S!Readable(file) \in Seq(Events) /\ pos <= Len(S!Readable(file))
    BY <1>1, <2>1, ReadableIs DEF OpenInv
  <2>3. pos = Len(S!Readable(file))
    <3>1. ~(pos < Len(S!Readable(file)))
      BY SMTT(30), <1>1, <1>3, <2>2, CanReadNext
    <3>2. Len(S!Readable(file)) \in Nat
      BY <2>2
    <3> QED
      BY <1>1, <2>2, <3>1, <3>2
  <2>4. seen = FirstSegments(m)
    BY SMTT(30), <1>1, <1>5, <2>1, <2>3, SeenWhole
  <2>5. g_segment < Len(run.segments) /\ \A i \in 1 .. g_segment + 1 : Good(i)
    BY <2>1 DEF OpenInv
  <2> QED
    BY <1>4, <1>5, <1>6, <2>1, <2>2, <2>4, <2>5
<1>10. ASSUME InSegments, f = NoFile PROVE SegmentsInOrder'
  <2>1. m = Len(run.segments) \/ ~Good(m + 1)
    <3>1. CASE m >= Len(run.segments)
      BY <1>6, <1>9, <1>10, <3>1
    <3>2. CASE run.segments[m + 1] = NoFile
      BY <3>2 DEF Good
    <3> QED
      BY <1>7, <1>10, <3>1, <3>2
  <2>2. seen' = seen
    BY <1>2, <1>10
  <2>3. m \in 1 .. 100 /\ m <= Len(run.segments) /\ (\A i \in 1 .. m : Good(i)) /\ seen = FirstSegments(m)
    BY SMTT(30), <1>6, <1>9, <1>10
  <2> QED
    BY <1>1, <2>1, <2>2, <2>3, NowInOrder
<1>11. ASSUME InSegments, f # NoFile, ~S!CanRead(f, 0) PROVE SegmentsInOrder'
  <2>1. S!Readable(f) = <<>>
    <3>1. S!Readable(f) \in Seq(Events)
      BY <1>7, <1>11, ReadableIs
    <3>2. ~(0 < Len(S!Readable(f)))
      BY <1>7, <1>11, <3>1, CanReadNext
    <3> QED
      BY <3>1, <3>2
  <2>2. ~Good(m + 1)
    <3>1. m + 1 > 1
      BY <1>6
    <3> QED
      BY <1>7, <1>11, <2>1, <3>1 DEF Good
  <2>3. seen' = seen
    BY <1>2, <1>11
  <2>4. m \in 1 .. 100 /\ m <= Len(run.segments) /\ (\A i \in 1 .. m : Good(i)) /\ seen = FirstSegments(m)
    BY <1>6, <1>9, <1>11
  <2> QED
    BY <1>1, <2>2, <2>3, <2>4, NowInOrder
<1>12. ASSUME InSegments, f # NoFile, S!CanRead(f, 0) PROVE OpenInv'
  <2>1. f \in Seq(Events) /\ f = run.segments[m + 1] /\ m + 1 <= Len(run.segments)
    BY <1>6, <1>7, <1>12
  <2>2. PICK r : r = S!Readable(f)
    OBVIOUS
  <2>3. r \in Seq(Events) /\ 0 < Len(r) /\ r[1] = f[1] /\ Len(r) \in Nat
    <3>1. r \in Seq(Events)
      BY <2>1, <2>2, ReadableIs
    <3>2. Len(r) \in Nat /\ 0 <= Len(r)
      BY <3>1
    <3>3. 0 < Len(r) /\ r[0 + 1] = f[0 + 1]
      BY <1>12, <2>1, <2>2, <3>2, CanReadNext
    <3>4. 0 + 1 = 1
      OBVIOUS
    <3> QED
      BY <3>1, <3>2, <3>3, <3>4
  <2>4. SubSeq(r, 1, 1) = <<r[1]>>
    <3>1. /\ SubSeq(r, 1, 1) \in Seq(Events) /\ Len(SubSeq(r, 1, 1)) = 1 /\ SubSeq(r, 1, 1)[1] = r[1]
      BY <2>3
    <3>2. <<r[1]>> \in Seq(Events) /\ Len(<<r[1]>>) = 1 /\ <<r[1]>>[1] = r[1]
      BY <2>3
    <3>3. \A i \in 1 .. Len(SubSeq(r, 1, 1)) : SubSeq(r, 1, 1)[i] = <<r[1]>>[i]
      BY <3>1, <3>2
    <3> QED
      BY <3>1, <3>2, <3>3, SeqEqual
  <2>5. PICK old : old = seen
    OBVIOUS
  <2>6. old \in Seq(Events) /\ r[1] \in Events
    BY <1>1, <2>3, <2>5
  <2>7. Append(old, r[1]) = old \o <<r[1]>>
    BY <2>6, AppendIsConcat
  <2>8. /\ run' = run /\ file' = f /\ pos' = 1 /\ seen' = old \o SubSeq(r, 1, 1)
        /\ g_segment' = m
    BY <1>2, <1>3, <1>5, <1>12, <2>3, <2>4, <2>5, <2>7
  <2>9. /\ (S!Readable(file))' = r /\ (\A i : Good(i)' = Good(i))
        /\ FirstSegments(g_segment)' = FirstSegments(m)
    BY <2>2, <2>8 DEF Good, FirstSegments, S!Readable
  <2>10. \A i \in 1 .. m + 1 : Good(i)
    <3>1. Good(m + 1)
      <4>1. r # <<>>
        BY <2>3
      <4> QED
        BY <1>12, <2>1, <2>2, <4>1 DEF Good
    <3>2. \A i \in 1 .. m + 1 : i \in 1 .. m \/ i = m + 1
      BY <1>6
    <3> QED
      BY <1>9, <1>12, <3>1, <3>2
  <2>11. /\ g_segment' \in 0 .. 99 /\ g_segment' < Len(run'.segments)
         /\ file' = run'.segments[g_segment' + 1]
    BY <1>6, <2>1, <2>8
  <2>12. \A i \in 1 .. g_segment' + 1 : Good(i)'
    BY <2>8, <2>9, <2>10
  <2>13. FirstSegments(g_segment)' = old
    BY <1>9, <1>12, <2>5, <2>9
  <2> QED
    BY <2>3, <2>6, <2>8, <2>9, <2>11, <2>12, <2>13 DEF OpenInv
<1>13. (InSegments' <=> InSegments) /\ (~InSegments => SegmentsInOrder')
  BY DEF InSegments, SegmentsInOrder, S!SegmentsInOrder, S!TriesSegments
<1>14. InSegments' /\ source' = "open" => OpenInv'
  BY <1>2, <1>12, <1>13
<1>15. SegmentsInOrder'
  <2>1. CASE source' # "ended"
    BY <2>1 DEF SegmentsInOrder, S!SegmentsInOrder
  <2>2. CASE source' = "ended"
    <3>1. source # "ended"
      OBVIOUS
    <3> QED
      BY <1>2, <1>10, <1>11, <1>13, <2>2, <3>1
  <2> QED
    BY <2>1, <2>2
<1> QED
  BY <1>8, <1>14, <1>15 DEF SegmentsInv

LEMMA SegmentsStep == SegmentsInv /\ [PathNext]_pathvars => SegmentsInv'
<1> SUFFICES ASSUME SegmentsInv, [PathNext]_pathvars PROVE SegmentsInv'
  OBVIOUS
<1>1. CASE S!g_open_source
  BY <1>1, OpenKeeps
<1>2. CASE S!g_get_next_event
  <2>1. source = "open" /\ run' = run
    BY <1>2 DEF S!g_get_next_event
  <2> QED
    BY <1>2, <2>1, ReadKeeps, NoMoreKeeps, NextKeeps DEF S!g_get_next_event
<1>3. CASE UNCHANGED segmentvars
  <2>1. run' = run /\ source' = source /\ g_segment' = g_segment /\ file' = file /\ pos' = pos /\ seen' = seen
    BY <1>3 DEF segmentvars
  <2>2. RunInv' = RunInv /\ InSegments' = InSegments
    BY <2>1 DEF RunInv, InSegments, S!TriesSegments
  <2>3. SegmentsInOrder' = SegmentsInOrder
    BY <2>1 DEF SegmentsInOrder, S!SegmentsInOrder, S!Used, S!Readable, S!TriesSegments
  <2>4. OpenInv' = OpenInv
    BY <2>1 DEF OpenInv, Good, FirstSegments, S!Readable
  <2> QED
    BY <2>1, <2>2, <2>3, <2>4 DEF SegmentsInv
<1> QED
  BY <1>1, <1>2, <1>3 DEF PathNext, Load, Book, OpenSource, Event, DecodeEvent, KeepResults, pathvars, segmentvars

\* The engine is given the events of all segments, in their order, whatever the
\* events are, how many segments there are and what the blocks do meanwhile
\* (g_open_source.f, g_get_next_event.f:81-121).
THEOREM AllSegmentsInOrder == PathSpec => []SegmentsInOrder
<1>1. PathInit => SegmentsInv
  BY SegmentsInit
<1>2. SegmentsInv /\ [PathNext]_pathvars => SegmentsInv'
  BY SegmentsStep
<1>3. SegmentsInv => SegmentsInOrder
  BY DEF SegmentsInv
<1> QED
  BY <1>1, <1>2, <1>3, PTL DEF PathSpec

-----------------------------------------------------------------------------
(* The whole path and the decoder. *)

LEMMA LastIsEvent ==
  ASSUME NEW s \in Seq(Events), Len(s) > 0
  PROVE  Last(s) \in Events
<1>1. Len(s) \in 1 .. Len(s)
  OBVIOUS
<1> QED
  BY <1>1 DEF Last

LEMMA PathStepDecodes ==
  SegmentsInv /\ SegmentsInv' /\ [PathNext]_pathvars => [Next]_decodervars
<1> SUFFICES ASSUME SegmentsInv, SegmentsInv', [PathNext]_pathvars PROVE [Next]_decodervars
  OBVIOUS
<1>1. CASE Event
  <2>1. seen \in Seq(Events) /\ seen' \in Seq(Events)
    BY DEF SegmentsInv, RunInv
  <2>2. CASE Len(seen') > Len(seen)
    <3>1. Last(seen') \in Events
      BY <2>1, <2>2, LastIsEvent
    <3>2. NextEvent(Last(seen'))
      BY <1>1, <2>2 DEF Event
    <3> QED
      BY <3>1, <3>2 DEF Next
  <2>3. CASE ~(Len(seen') > Len(seen))
    BY <1>1, <2>3 DEF Event
  <2> QED
    BY <2>2, <2>3
<1>2. CASE DecodeEvent
  BY <1>2 DEF DecodeEvent, Next
<1>3. CASE UNCHANGED decodervars
  BY <1>3
<1> QED
  BY <1>1, <1>2, <1>3 DEF PathNext, Load, Book, OpenSource, KeepResults, pathvars

\* Whatever the files, the blocks and the tests do around it, what happens to
\* the words of an event is what Decoder allows (g_analyze_physics_event calls
\* g_decode_event_by_banks between the other steps).
THEOREM PathIsDecoding == PathSpec => Spec
<1>1. PathInit => SegmentsInv /\ Init
  BY SegmentsInit DEF PathInit
<1>2. SegmentsInv /\ [PathNext]_pathvars => SegmentsInv'
  BY SegmentsStep
<1>3. SegmentsInv /\ SegmentsInv' /\ [PathNext]_pathvars => [Next]_decodervars
  BY PathStepDecodes
<1> QED
  BY <1>1, <1>2, <1>3, PTL DEF PathSpec, Spec

\* So the hit lists that the tracking and the gethit blocks read are sorted and
\* fit their arrays in every run (g_decode_fb_detector.f:378-456).
THEOREM PathListsSorted == PathSpec => []HitListsSorted
BY PathIsDecoding, ListsSorted, PTL

\* And every word of every event of every segment reaches its counter, whatever is
\* read, skipped or stored between the events (g_decode_fb_detector.f:123-474).
THEOREM PathWordsDecoded == TrueMap /\ (\A e \in Events : TrueEvent(e)) => (PathSpec => []AllDecoded)
<1> SUFFICES ASSUME TrueMap, \A e \in Events : TrueEvent(e) PROVE PathSpec => []AllDecoded
  OBVIOUS
<1>1. Spec => []AllDecoded
  BY WordsDecoded
<1> QED
  BY <1>1, PathIsDecoding, PTL

-----------------------------------------------------------------------------
(* The variables of the gethit blocks. *)

Types == {"INT", "REAL"}
Variable == [type : Types, elements : Seq(Int)]
Ids == {"event", "test"} \X STRING
AllTitles == UNION {Titles[b] : b \in Blocks}
RealName == UNION {G!RealNames(t) : t \in AllTitles}

\* Variables have different names, and only some are real.
VarsOK(v) ==
  /\ v \in [DOMAIN v -> Variable] /\ DOMAIN v \subseteq Ids
  /\ \A n : ~(<<"event", n>> \in DOMAIN v /\ <<"test", n>> \in DOMAIN v)
  /\ \A id \in DOMAIN v : v[id].type = "REAL" => id[2] \in RealName

\* What a variable was, it still is.
Grown(v, w) ==
  /\ DOMAIN v \subseteq DOMAIN w
  /\ \A id \in DOMAIN v : /\ w[id].type = v[id].type
                          /\ Len(v[id].elements) <= Len(w[id].elements)
                          /\ \A i \in 1 .. Len(v[id].elements) : w[id].elements[i] = v[id].elements[i]

\* id is the variable with the element x.
Resolved(v, id, x) ==
  /\ id \in DOMAIN v /\ id[2] = x.name /\ x.index \in Nat /\ x.index + 1 \in 1 .. Len(v[id].elements)

LEMMA GrownOn ==
  ASSUME NEW u, NEW v, NEW w, VarsOK(u), VarsOK(v), VarsOK(w), Grown(u, v), Grown(v, w)
  PROVE  Grown(u, w)
<1> SUFFICES ASSUME NEW id \in DOMAIN u
             PROVE  /\ id \in DOMAIN w /\ w[id].type = u[id].type
                    /\ Len(u[id].elements) <= Len(w[id].elements)
                    /\ \A i \in 1 .. Len(u[id].elements) : w[id].elements[i] = u[id].elements[i]
  BY DEF Grown
<1>1. id \in DOMAIN v /\ id \in DOMAIN w
  BY DEF Grown
<1>2. Len(u[id].elements) \in Nat /\ Len(v[id].elements) \in Nat /\ Len(w[id].elements) \in Nat
  BY <1>1 DEF VarsOK, Variable
<1> QED
  BY <1>1, <1>2 DEF Grown

LEMMA GrownSame == ASSUME NEW v, VarsOK(v) PROVE Grown(v, v)
<1>1. \A id \in DOMAIN v : Len(v[id].elements) \in Nat
  BY DEF VarsOK, Variable
<1> QED
  BY <1>1 DEF Grown

LEMMA ResolvedOn ==
  ASSUME NEW v, NEW w, VarsOK(v), VarsOK(w), Grown(v, w), NEW id, NEW x, Resolved(v, id, x)
  PROVE  /\ Resolved(w, id, x) /\ w[id].type = v[id].type
         /\ w[id].elements[x.index + 1] = v[id].elements[x.index + 1]
<1>1. id \in DOMAIN v /\ id \in DOMAIN w
  BY DEF Grown, Resolved
<1>2. Len(v[id].elements) \in Nat /\ Len(w[id].elements) \in Nat
  BY <1>1 DEF VarsOK, Variable
<1> QED
  BY <1>1, <1>2 DEF Grown, Resolved

\* A name has one variable.
LEMMA OneOfName ==
  ASSUME NEW v, VarsOK(v), NEW a \in DOMAIN v, NEW b \in DOMAIN v, a[2] = b[2]
  PROVE  a = b
<1>1. PICK c1 \in {"event", "test"}, n1 \in STRING : a = <<c1, n1>>
  BY DEF VarsOK, Ids
<1>2. PICK c2 \in {"event", "test"}, n2 \in STRING : b = <<c2, n2>>
  BY DEF VarsOK, Ids
<1>3. n1 = n2
  BY <1>1, <1>2
<1>4. c1 = c2
  BY <1>1, <1>2, <1>3 DEF VarsOK
<1> QED
  BY <1>1, <1>2, <1>3, <1>4

\* The least class that has the name
LEMMA GMinOf ==
  ASSUME NEW s, s \subseteq 1 .. 3, s # {}
  PROVE  G!Min(s) \in s /\ \A k \in s : G!Min(s) <= k
<1>1. \E m \in s : \A k \in s : m <= k
  <2>1. CASE 1 \in s
    <3>1. \A k \in s : 1 <= k
      OBVIOUS
    <3> QED
      BY <2>1, <3>1
  <2>2. CASE 1 \notin s /\ 2 \in s
    <3>1. \A k \in s : k \in 1 .. 3 /\ k # 1
      BY <2>2
    <3>2. \A k \in s : 2 <= k
      BY <3>1
    <3> QED
      BY <2>2, <3>2
  <2>3. CASE 1 \notin s /\ 2 \notin s
    <3>1. \A k \in s : k \in 1 .. 3 /\ k # 1 /\ k # 2
      BY <2>3
    <3>2. \A k \in s : k = 3
      BY <3>1
    <3>3. PICK k0 \in s : TRUE
      OBVIOUS
    <3>4. 3 \in s /\ \A k \in s : 3 <= k
      BY <3>2, <3>3
    <3> QED
      BY <3>4
  <2> QED
    BY <2>1, <2>2, <2>3
<1> QED
  BY <1>1 DEF G!Min

\* A variable made longer
LEMMA LongerOne ==
  ASSUME NEW v, VarsOK(v), NEW id \in DOMAIN v, NEW m \in Nat, NEW junk \in Int
  PROVE  LET w == [v EXCEPT ![id].elements = @ \o [i \in 1 .. m |-> junk]]
         IN VarsOK(w) /\ Grown(v, w) /\ Len(w[id].elements) = Len(v[id].elements) + m
<1> DEFINE more == [i \in 1 .. m |-> junk]
           w == [v EXCEPT ![id].elements = @ \o more]
<1>1. more \in Seq(Int) /\ Len(more) = m
  OBVIOUS
<1>2. PICK old : old = v[id].elements
  OBVIOUS
<1>3. old \in Seq(Int) /\ v[id] \in Variable
  BY <1>2 DEF VarsOK, Variable
<1> HIDE DEF more
<1>4. PICK new : new = old \o more
  OBVIOUS
<1>5. /\ new \in Seq(Int) /\ Len(new) = Len(old) + m
      /\ \A i \in 1 .. Len(old) : new[i] = old[i]
  <2>1. /\ new \in Seq(Int) /\ Len(new) = Len(old) + Len(more)
        /\ \A i \in 1 .. Len(old) + Len(more) : new[i] = IF i <= Len(old) THEN old[i] ELSE more[i - Len(old)]
    BY <1>1, <1>3, <1>4, ConcatProperties
  <2>2. Len(old) \in Nat
    BY <1>3
  <2>3. \A i \in 1 .. Len(old) : i \in 1 .. Len(old) + Len(more) /\ i <= Len(old)
    BY <1>1, <2>2
  <2> QED
    BY <1>1, <2>1, <2>3
<1>6. w[id] = [v[id] EXCEPT !.elements = new] /\ DOMAIN w = DOMAIN v
      /\ \A x \in DOMAIN v : x # id => w[x] = v[x]
  BY <1>2, <1>4 DEF VarsOK
<1>7. w[id] \in Variable /\ w[id].elements = new /\ w[id].type = v[id].type
  BY <1>3, <1>5, <1>6 DEF Variable
<1>8. w \in [DOMAIN v -> Variable]
  BY <1>6, <1>7 DEF VarsOK
<1> HIDE DEF w
<1>9. VarsOK(w)
  BY ZenonT(30), <1>6, <1>7, <1>8 DEF VarsOK
<1>10. \A x \in DOMAIN v : Len(v[x].elements) \in Nat
  BY DEF VarsOK, Variable
<1>11. Grown(v, w)
  <2> SUFFICES ASSUME NEW x \in DOMAIN v
               PROVE  /\ w[x].type = v[x].type /\ Len(v[x].elements) <= Len(w[x].elements)
                      /\ \A i \in 1 .. Len(v[x].elements) : w[x].elements[i] = v[x].elements[i]
    BY <1>6 DEF Grown
  <2>1. CASE x = id
    BY SMTT(30), <1>2, <1>3, <1>5, <1>7, <2>1
  <2>2. CASE x # id
    BY <1>6, <1>10, <2>2
  <2> QED
    BY <2>1, <2>2
<1>12. Len(w[id].elements) = Len(v[id].elements) + m
  BY <1>2, <1>5, <1>7
<1> QED
  BY <1>9, <1>11, <1>12 DEF w, more

LEMMA IdIs == ASSUME NEW id \in Ids PROVE \E c \in {"event", "test"}, n \in STRING : id = <<c, n>>
<1>1. id = <<id[1], id[2]>> /\ id[1] \in {"event", "test"} /\ id[2] \in STRING
  BY DEF Ids
<1> QED
  BY <1>1

\* Registering a name that has no variable
LEMMA RegisterOne ==
  ASSUME NEW v, VarsOK(v), NEW id \in Ids, NEW type \in Types, type = "REAL" => id[2] \in RealName,
         \A c \in {"event", "test"} : <<c, id[2]>> \notin DOMAIN v
  PROVE  LET w == G!With(v, id, [type |-> type, elements |-> <<0>>])
         IN VarsOK(w) /\ Grown(v, w) /\ id \in DOMAIN w
<1> DEFINE r == [type |-> type, elements |-> <<0>>]
           w == G!With(v, id, r)
<1>1. r \in Variable /\ r.type = type
  <2>1. <<0>> \in Seq(Int)
    OBVIOUS
  <2> QED
    BY <2>1 DEF Variable
<1> HIDE DEF r, w
<1>2. PICK c \in {"event", "test"}, n \in STRING : id = <<c, n>>
  BY IdIs
<1>3. id \notin DOMAIN v
  BY <1>2
<1>4. /\ DOMAIN w = DOMAIN v \cup {id} /\ w[id] = r /\ \A x \in DOMAIN v : w[x] = v[x]
      /\ w = [x \in DOMAIN v \cup {id} |-> w[x]]
  BY <1>3 DEF G!With, w
<1>5. w \in [DOMAIN w -> Variable]
  BY <1>1, <1>4 DEF VarsOK
<1>6. \A m : ~(<<"event", m>> \in DOMAIN w /\ <<"test", m>> \in DOMAIN w)
  <2> SUFFICES ASSUME NEW m, <<"event", m>> \in DOMAIN w, <<"test", m>> \in DOMAIN w PROVE FALSE
    OBVIOUS
  <2>1. CASE m = n
    BY <1>2, <1>4, <2>1
  <2>2. CASE m # n
    BY <1>2, <1>4, <2>2 DEF VarsOK
  <2> QED
    BY <2>1, <2>2
<1>7. VarsOK(w)
  BY <1>1, <1>4, <1>5, <1>6 DEF VarsOK
<1>8. Grown(v, w)
  <2>1. \A x \in DOMAIN v : Len(v[x].elements) \in Nat
    BY DEF VarsOK, Variable
  <2> QED
    BY <1>4, <2>1 DEF Grown
<1> QED
  BY <1>4, <1>7, <1>8 DEF w, r

\* The variable that thVarResolve finds or makes
LEMMA ResolveIs ==
  ASSUME NEW v, VarsOK(v), NEW x \in G!Name, NEW classes, classes \in {G!Destinations, G!TestFlags},
         NEW type \in Types, type = "REAL" => x.name \in RealName, NEW junk \in Int
  PROVE  LET r == G!thVarResolve(v, x, classes, type, junk)
         IN /\ VarsOK(r.var) /\ Grown(v, r.var)
            /\ r.ok <=> x.index # G!BadIndex
            /\ x.index # G!BadIndex => Resolved(r.var, r.id, x)
<1> DEFINE in == {k \in DOMAIN classes : <<classes[k], x.name>> \in DOMAIN v}
           first == IF in = {} THEN 1 ELSE G!Min(in)
           id == <<classes[first], x.name>>
           known == IF in = {} THEN G!With(v, id, [type |-> type, elements |-> <<0>>]) ELSE v
           missing == x.index + 1 - Len(known[id].elements)
           longer == [known EXCEPT ![id].elements = @ \o [i \in 1 .. missing |-> junk]]
           r == G!thVarResolve(v, x, classes, type, junk)
           good == /\ VarsOK(r.var) /\ Grown(v, r.var)
                   /\ r.ok <=> x.index # G!BadIndex
                   /\ x.index # G!BadIndex => Resolved(r.var, r.id, x)
<1>1. /\ DOMAIN classes \subseteq 1 .. 3 /\ 1 \in DOMAIN classes /\ classes[1] \in {"event", "test"}
      /\ \A c \in {"event", "test"} : \E k \in DOMAIN classes : classes[k] = c
  BY DEF G!Destinations, G!TestFlags
<1>2. x.name \in STRING /\ x.index \in Nat \cup {G!BadIndex}
  BY DEF G!Name
<1>3. VarsOK(known) /\ Grown(v, known) /\ id \in DOMAIN known
  <2>1. CASE in = {}
    <3>1. id = <<classes[1], x.name>> /\ id \in Ids /\ id[2] = x.name
      BY <1>1, <1>2, <2>1 DEF Ids
    <3>2. \A c \in {"event", "test"} : <<c, x.name>> \notin DOMAIN v
      BY <1>1, <2>1
    <3> HIDE DEF id, in
    <3>3. known = G!With(v, id, [type |-> type, elements |-> <<0>>])
      BY <2>1
    <3> QED
      BY <3>1, <3>2, <3>3, RegisterOne
  <2>2. CASE in # {}
    <3>1. G!Min(in) \in in
      <4>1. in \subseteq 1 .. 3
        BY <1>1
      <4> HIDE DEF in
      <4> QED
        BY <2>2, <4>1, GMinOf
    <3>2. id \in DOMAIN v
      BY <2>2, <3>1
    <3> QED
      BY <2>2, <3>2, GrownSame
  <2> QED
    BY <2>1, <2>2
<1>4. id[2] = x.name
  OBVIOUS
<1>5. r = IF x.index = G!BadIndex THEN [ok |-> FALSE, id |-> id, var |-> known]
          ELSE [ok |-> TRUE, id |-> id, var |-> IF missing <= 0 THEN known ELSE longer]
  BY DEF G!thVarResolve
<1> HIDE DEF r, id, known, in, first
<1>6. ASSUME x.index = G!BadIndex PROVE good
  BY <1>3, <1>5, <1>6
<1>7. ASSUME x.index # G!BadIndex PROVE good
  <2>1. x.index \in Nat /\ Len(known[id].elements) \in Nat
    BY <1>2, <1>3, <1>7 DEF VarsOK, Variable
  <2>2. r.ok = TRUE /\ r.id = id /\ r.var = IF missing <= 0 THEN known ELSE longer
    BY <1>5, <1>7
  <2>3. CASE missing <= 0
    BY <1>3, <1>4, <1>7, <2>1, <2>2, <2>3 DEF Resolved
  <2>4. CASE ~(missing <= 0)
    <3>1. missing \in Nat
      BY SMTT(30), <2>1, <2>4
    <3>2. VarsOK(longer) /\ Grown(known, longer) /\ Len(longer[id].elements) = Len(known[id].elements) + missing
      <4> HIDE DEF missing
      <4> QED
        BY <1>3, <3>1, LongerOne
    <3>3. Grown(v, longer)
      <4> HIDE DEF longer
      <4> QED
        BY <1>3, <3>2, GrownOn
    <3>4. id \in DOMAIN longer
      BY <1>3
    <3>5. x.index + 1 \in 1 .. Len(longer[id].elements)
      <4> HIDE DEF longer
      <4> QED
        BY <2>1, <3>2
    <3>6. r.var = longer
      BY <2>2, <2>4
    <3> HIDE DEF longer
    <3> QED
      BY <1>4, <1>7, <2>1, <2>2, <3>2, <3>3, <3>4, <3>5, <3>6 DEF Resolved
  <2> QED
    BY <2>3, <2>4
<1> QED
  <2>1. good
    BY <1>6, <1>7
  <2> QED
    BY <2>1 DEF r

-----------------------------------------------------------------------------
(* The titles of the gethit blocks. *)

ListOf(t) == G!The(G!Preamble(t, "hitcount"))
ValuesOf(t) == G!The(G!Preamble(t, "valuelist"))
Ncoord(t) == Cardinality(G!Matchlists(t))

\* The name of an array, or none
Text == STRING \cup {""}
HitLine == [src : Text, coord : Seq(Int), dest : Ids, destindex : Nat, test : Ids \cup {<<>>}, testindex : Nat]
Opaque == [vnhits : Text, ncoord : Nat, coord_array : Seq(STRING), srcdefault : Text, default_real : Int,
           hlist : Seq(HitLine)]

\* g is what a line should become.
LineOf(t, g, line, v) ==
  /\ g.src = ValuesOf(t) /\ g.coord = [k \in 1 .. Ncoord(t) |-> line.coords[k]]
  /\ Resolved(v, g.dest, line.dest) /\ g.destindex = line.dest.index
  /\ IF line.test = G!NoTest THEN g.test = <<>>
                             ELSE Resolved(v, g.test, line.test) /\ g.testindex = line.test.index

LEMMA CardSame == ASSUME NEW s PROVE G!Cardinality(s) = Cardinality(s)
BY DEF G!Cardinality, Cardinality

LEMMA TitleIs ==
  ASSUME NEW t \in AllTitles
  PROVE  /\ t \in Seq(G!Line) /\ DOMAIN t = 1 .. Len(t) /\ Len(t) \in Nat
         /\ \A i \in DOMAIN t : /\ t[i] \in G!Line
                                /\ G!IsGethit(t[i]) => /\ t[i].dest \in G!Name /\ t[i].test \in G!Name
                                                       /\ t[i].coords \in Seq(Int)
<1>1. t \in Seq(G!Line)
  BY TitlesAssumption DEF AllTitles
<1>2. DOMAIN t = 1 .. Len(t) /\ Len(t) \in Nat /\ \A i \in DOMAIN t : t[i] \in G!Line
  BY <1>1
<1>3. ASSUME NEW line \in G!Line, G!IsGethit(line)
      PROVE  line.dest \in G!Name /\ line.test \in G!Name /\ line.coords \in Seq(Int)
  BY <1>3 DEF G!Line, G!IsGethit
<1> QED
  BY <1>1, <1>2, <1>3

LEMMA TrueIs ==
  ASSUME G!TrueTitles, NEW t \in AllTitles
  PROVE  /\ ListOf(t) \in DOMAIN Lists /\ ValuesOf(t) \in Lists[ListOf(t)]
         /\ G!Preamble(t, "hitcount") = {ListOf(t)} /\ G!Preamble(t, "valuelist") = {ValuesOf(t)}
         /\ \A m \in G!Preamble(t, "matchlist") : m \in Lists[ListOf(t)] /\ ArrayType[m] = "INT"
         /\ \A i, j \in DOMAIN t : i < j /\ G!IsGethit(t[i]) => G!IsGethit(t[j])
         /\ \A i \in DOMAIN t : G!WellFormed(t, t[i]) /\ t[i].test # G!NoTest => t[i].test.name \notin RealName
<1>1. G!TrueTitle(t) /\ \A i \in DOMAIN t : \A u \in AllTitles :
        G!WellFormed(t, t[i]) /\ t[i].test # G!NoTest => t[i].test.name \notin G!RealNames(u)
  BY DEF G!TrueTitles, AllTitles
<1>2. PICK n, a :
        /\ n \in DOMAIN Lists /\ a \in Lists[n]
        /\ G!Preamble(t, "hitcount") = {n} /\ G!Preamble(t, "valuelist") = {a}
        /\ \A m \in G!Preamble(t, "matchlist") : m \in Lists[n] /\ ArrayType[m] = "INT"
  BY <1>1 DEF G!TrueTitle
<1>3. ListOf(t) = n /\ ValuesOf(t) = a
  BY <1>2 DEF ListOf, ValuesOf, G!The
<1>4. \A i, j \in DOMAIN t : i < j /\ G!IsGethit(t[i]) => G!IsGethit(t[j])
  BY <1>1 DEF G!TrueTitle
<1> QED
  BY <1>1, <1>2, <1>3, <1>4 DEF RealName

\* So no setting comes late.
LEMMA PreambleFirst ==
  ASSUME G!TrueTitles, NEW t \in AllTitles
  PROVE  /\ \A i \in DOMAIN t : ~G!IsGethit(t[i]) => ~G!Mode(t, i)
         /\ ~G!Crashes(t)
<1>1. ASSUME NEW i \in DOMAIN t, ~G!IsGethit(t[i]), NEW j \in 1 .. i, G!IsGethit(t[j]) PROVE FALSE
  <2>1. j \in DOMAIN t /\ (j < i \/ j = i)
    BY <1>1, TitleIs
  <2> QED
    BY <1>1, <2>1, TrueIs
<1> QED
  BY <1>1 DEF G!Mode, G!Crashes, G!Late

LEMMA MatchlistsAre ==
  ASSUME NEW t \in AllTitles
  PROVE  /\ G!Matchlists(t) \subseteq 1 .. Len(t) /\ IsFiniteSet(G!Matchlists(t)) /\ Ncoord(t) \in Nat
         /\ \A n \in Nat : /\ IsFiniteSet({j \in G!Matchlists(t) : j <= n})
                           /\ Cardinality({j \in G!Matchlists(t) : j <= n}) \in 0 .. Ncoord(t)
         /\ {j \in G!Matchlists(t) : j <= Len(t)} = G!Matchlists(t)
<1>1. G!Matchlists(t) \subseteq 1 .. Len(t) /\ Len(t) \in Nat
  BY TitleIs DEF G!Matchlists
<1>2. IsFiniteSet(G!Matchlists(t))
  <2>1. IsFiniteSet(1 .. Len(t))
    BY <1>1, FS_Interval
  <2> QED
    BY <1>1, <2>1, FS_Subset
<1>3. Ncoord(t) \in Nat
  BY <1>2, FS_CardinalityType DEF Ncoord
<1>4. ASSUME NEW n \in Nat
      PROVE  /\ IsFiniteSet({j \in G!Matchlists(t) : j <= n})
             /\ Cardinality({j \in G!Matchlists(t) : j <= n}) \in 0 .. Ncoord(t)
  <2> DEFINE m == {j \in G!Matchlists(t) : j <= n}
  <2>1. m \subseteq G!Matchlists(t)
    OBVIOUS
  <2>2. IsFiniteSet(m) /\ Cardinality(m) <= Cardinality(G!Matchlists(t))
    <3> HIDE DEF m
    <3> QED
      BY <1>2, <2>1, FS_Subset
  <2>3. Cardinality(m) \in Nat
    <3> HIDE DEF m
    <3> QED
      BY <2>2, FS_CardinalityType
  <2> HIDE DEF m
  <2>4. IsFiniteSet(m) /\ Cardinality(m) \in 0 .. Ncoord(t)
    BY <1>3, <2>2, <2>3 DEF Ncoord
  <2> QED
    BY <2>4 DEF m
<1>5. {j \in G!Matchlists(t) : j <= Len(t)} = G!Matchlists(t)
  BY <1>1
<1> QED
  BY <1>1, <1>2, <1>3, <1>4, <1>5

LEMMA CountIs ==
  ASSUME G!TrueTitles, NEW t \in AllTitles
  PROVE  G!CountMatchlists(t) = Ncoord(t)
<1>1. \A i \in DOMAIN t : t[i].key = "matchlist" => \A j \in 1 .. i : ~G!IsGethit(t[j])
  <2> SUFFICES ASSUME NEW i \in DOMAIN t, t[i].key = "matchlist", NEW j \in 1 .. i, G!IsGethit(t[j]) PROVE FALSE
    OBVIOUS
  <2>1. j \in DOMAIN t /\ (j < i \/ j = i)
    BY TitleIs
  <2>2. G!IsGethit(t[i])
    BY <2>1, TrueIs
  <2> QED
    BY <2>2 DEF G!IsGethit
<1>2. {i \in DOMAIN t : t[i].key = "matchlist" /\ \A j \in 1 .. i : ~G!IsGethit(t[j])} = G!Matchlists(t)
  BY <1>1 DEF G!Matchlists
<1> QED
  BY <1>2, CardSame DEF G!CountMatchlists, Ncoord

\* One line more
LEMMA MatchlistsNext ==
  ASSUME NEW t \in AllTitles, NEW n \in 0 .. Len(t) - 1
  PROVE  /\ Cardinality({j \in G!Matchlists(t) : j <= n + 1}) =
              Cardinality({j \in G!Matchlists(t) : j <= n}) + (IF n + 1 \in G!Matchlists(t) THEN 1 ELSE 0)
         /\ n + 1 \in G!Matchlists(t) => G!Coordinate(t, n + 1) = Cardinality({j \in G!Matchlists(t) : j <= n}) + 1
<1> DEFINE m(k) == {j \in G!Matchlists(t) : j <= k}
<1>1. n \in Nat /\ n + 1 \in Nat /\ \A j \in G!Matchlists(t) : j \in Int /\ (j <= n + 1 <=> j <= n \/ j = n + 1)
  BY MatchlistsAre, TitleIs
<1>2. n + 1 \notin m(n) /\ IsFiniteSet(m(n)) /\ Cardinality(m(n)) \in Nat
  BY <1>1, MatchlistsAre, FS_CardinalityType
<1>3. CASE n + 1 \in G!Matchlists(t)
  <2>1. m(n + 1) = m(n) \cup {n + 1}
    BY <1>1, <1>3
  <2>2. Cardinality(m(n + 1)) = Cardinality(m(n)) + 1
    <3> HIDE DEF m
    <3> QED
      BY <1>2, <2>1, FS_AddElement
  <2>3. G!Coordinate(t, n + 1) = Cardinality(m(n + 1))
    BY CardSame DEF G!Coordinate
  <2> QED
    BY <1>3, <2>2, <2>3
<1>4. CASE n + 1 \notin G!Matchlists(t)
  <2>1. m(n + 1) = m(n)
    BY <1>1, <1>4
  <2>2. Cardinality(m(n + 1)) = Cardinality(m(n)) + 0
    <3>1. PICK c \in Nat : c = Cardinality(m(n))
      BY <1>2
    <3> HIDE DEF m
    <3> QED
      BY <2>1, <3>1
  <2> QED
    BY <1>4, <2>2
<1> QED
  BY <1>3, <1>4

-----------------------------------------------------------------------------
(* Booking. *)

Accumulated(acc) == /\ acc = [opq |-> acc.opq, var |-> acc.var]
                    /\ acc.opq \in Opaque /\ VarsOK(acc.var)

LEMMA ValuesType ==
  ASSUME G!TrueTitles, NEW t \in AllTitles
  PROVE  /\ ArrayType[ValuesOf(t)] \in Types
         /\ ArrayType[ValuesOf(t)] = "REAL" => \A i \in DOMAIN t : G!IsGethit(t[i]) => t[i].dest.name \in RealName
<1>1. ValuesOf(t) \in Lists[ListOf(t)] /\ ListOf(t) \in DOMAIN Lists
  BY TrueIs
<1>2. ArrayType[ValuesOf(t)] \in Types
  <2>1. ValuesOf(t) \in UNION {Lists[n] : n \in DOMAIN Lists}
    BY <1>1
  <2> QED
    BY <2>1 DEF ArrayType, Types
<1>3. ASSUME ArrayType[ValuesOf(t)] = "REAL", NEW i \in DOMAIN t, G!IsGethit(t[i])
      PROVE  t[i].dest.name \in RealName
  <2>1. t[i].dest.name \in G!RealNames(t)
    BY <1>3 DEF G!RealNames, ValuesOf
  <2> QED
    BY <2>1 DEF RealName
<1> QED
  BY <1>2, <1>3

LEMMA NoTestIs == G!NoTest.index = 0 /\ G!NoTest.index # G!BadIndex
<1>1. G!NoTest.index = 0
  BY DEF G!NoTest, G!Element
<1>2. G!BadIndex # 0
  BY DEF G!BadIndex
<1> QED
  BY <1>1, <1>2

LEMMA WellFormedIs ==
  ASSUME NEW t \in AllTitles, NEW i \in DOMAIN t, G!IsGethit(t[i])
  PROVE  G!WellFormed(t, t[i]) <=> /\ ~(Len(t[i].coords) < Ncoord(t))
                                   /\ t[i].dest.index # G!BadIndex /\ t[i].test.index # G!BadIndex
                                   /\ \A k \in 1 .. Ncoord(t) : t[i].coords[k] # G!BadCoord
<1>1. Len(t[i].coords) \in Nat /\ Ncoord(t) \in Nat
  BY TitleIs, MatchlistsAre
<1>2. G!Cardinality(G!Matchlists(t)) = Ncoord(t)
  BY CardSame DEF Ncoord
<1> QED
  BY <1>1, <1>2 DEF G!WellFormed

\* A line that asks for a hit becomes an entry of the list, unless something is wrong with it.
LEMMA GethitBooked ==
  ASSUME G!TrueTitles, NEW t \in AllTitles, NEW i \in DOMAIN t, G!IsGethit(t[i]), NEW acc, Accumulated(acc),
         acc.opq.ncoord = Ncoord(t), acc.opq.srcdefault = ValuesOf(t), NEW junk \in Int
  PROVE  LET r == G!thBookaGethit(acc, t[i], junk)
         IN /\ Accumulated(r) /\ Grown(acc.var, r.var)
            /\ IF G!WellFormed(t, t[i])
               THEN \E g \in HitLine : /\ r.opq = [acc.opq EXCEPT !.hlist = Append(acc.opq.hlist, g)]
                                       /\ LineOf(t, g, t[i], r.var)
               ELSE r.opq = acc.opq
<1> DEFINE line == t[i]
           o == acc.opq
           n == Ncoord(t)
           a == G!thVarResolve(acc.var, line.dest, G!Destinations, ArrayType[o.srcdefault], junk)
           b == IF line.test = G!NoTest THEN [ok |-> TRUE, id |-> <<>>, var |-> a.var]
                ELSE G!thVarResolve(a.var, line.test, G!TestFlags, "INT", junk)
           coord == [k \in 1 .. o.ncoord |-> line.coords[k]]
           g == [src |-> o.srcdefault, coord |-> coord, dest |-> a.id, destindex |-> line.dest.index,
                 test |-> b.id, testindex |-> line.test.index]
           r == G!thBookaGethit(acc, line, junk)
           good == /\ Accumulated(r) /\ Grown(acc.var, r.var)
                   /\ IF G!WellFormed(t, line)
                      THEN \E h \in HitLine : /\ r.opq = [acc.opq EXCEPT !.hlist = Append(acc.opq.hlist, h)]
                                              /\ LineOf(t, h, line, r.var)
                      ELSE r.opq = acc.opq
<1>1. /\ line.dest \in G!Name /\ line.test \in G!Name /\ line.coords \in Seq(Int) /\ n \in Nat
      /\ Len(line.coords) \in Nat /\ VarsOK(acc.var) /\ o \in Opaque /\ acc = [opq |-> o, var |-> acc.var]
  BY TitleIs, MatchlistsAre DEF Accumulated
<1>2. /\ VarsOK(a.var) /\ Grown(acc.var, a.var) /\ (a.ok <=> line.dest.index # G!BadIndex)
      /\ line.dest.index # G!BadIndex => Resolved(a.var, a.id, line.dest)
  <2>1. ArrayType[o.srcdefault] \in Types /\ (ArrayType[o.srcdefault] = "REAL" => line.dest.name \in RealName)
    BY ValuesType
  <2> HIDE DEF line, o
  <2> QED
    BY <1>1, <2>1, ResolveIs
<1>3. /\ VarsOK(b.var) /\ Grown(a.var, b.var) /\ (b.ok <=> line.test.index # G!BadIndex)
      /\ line.test = G!NoTest => b.id = <<>>
      /\ line.test.index # G!BadIndex /\ line.test # G!NoTest => Resolved(b.var, b.id, line.test)
  <2>1. CASE line.test = G!NoTest
    <3>1. line.test.index # G!BadIndex
      BY <2>1, NoTestIs
    <3> HIDE DEF line, a
    <3> QED
      BY <1>2, <2>1, <3>1, GrownSame
  <2>2. CASE line.test # G!NoTest
    <3> HIDE DEF line, a
    <3>1. b = G!thVarResolve(a.var, line.test, G!TestFlags, "INT", junk)
      BY <2>2
    <3>2. "INT" \in Types /\ ~("INT" = "REAL")
      BY DEF Types
    <3> HIDE DEF b
    <3> QED
      BY <1>1, <1>2, <2>2, <3>1, <3>2, ResolveIs
  <2> QED
    BY <2>1, <2>2
<1>4. G!WellFormed(t, line) <=> /\ ~(Len(line.coords) < n) /\ a.ok /\ b.ok
                                /\ ~(G!BadCoord \in {coord[k] : k \in 1 .. o.ncoord})
  <2>1. {coord[k] : k \in 1 .. o.ncoord} = {line.coords[k] : k \in 1 .. n}
    OBVIOUS
  <2> HIDE DEF a, b, coord, o, n
  <2> QED
    BY <1>2, <1>3, <2>1, WellFormedIs DEF n
<1>5. r = IF Len(line.coords) < n THEN acc
          ELSE IF ~a.ok THEN [acc EXCEPT !.var = a.var]
          ELSE IF ~b.ok \/ G!BadCoord \in {coord[k] : k \in 1 .. o.ncoord} THEN [acc EXCEPT !.var = b.var]
          ELSE [var |-> b.var, opq |-> [o EXCEPT !.hlist = Append(@, g)]]
  BY DEF G!thBookaGethit
<1>6. Grown(acc.var, b.var)
  <2> HIDE DEF a, b
  <2> QED
    BY <1>1, <1>2, <1>3, GrownOn
<1>7. G!WellFormed(t, line) => g \in HitLine /\ LineOf(t, g, line, b.var)
  <2> SUFFICES ASSUME G!WellFormed(t, line) PROVE g \in HitLine /\ LineOf(t, g, line, b.var)
    OBVIOUS
  <2>1. line.dest.index # G!BadIndex /\ line.test.index # G!BadIndex /\ n <= Len(line.coords)
    BY <1>1, WellFormedIs
  <2>2. Resolved(b.var, a.id, line.dest)
    <3> HIDE DEF a, b
    <3> QED
      BY <1>2, <1>3, <2>1, ResolvedOn
  <2>3. a.id \in Ids /\ b.id \in Ids \cup {<<>>}
    <3> HIDE DEF a, b
    <3> QED
      BY <1>3, <2>1, <2>2 DEF Resolved, VarsOK
  <2>4. line.dest.index \in Nat /\ line.test.index \in Nat
    BY <1>1, <2>1 DEF G!Name
  <2>5. coord \in Seq(Int) /\ coord = [k \in 1 .. n |-> line.coords[k]]
    <3>1. o.ncoord = n /\ \A k \in 1 .. n : k \in 1 .. Len(line.coords)
      BY <1>1, <2>1
    <3>2. \A k \in 1 .. n : line.coords[k] \in Int
      BY <1>1, <3>1
    <3> HIDE DEF line, n, o
    <3> QED
      BY SMTT(30), <1>1, <3>1, <3>2
  <2>6. o.srcdefault \in Text /\ o.srcdefault = ValuesOf(t)
    BY <1>1 DEF Opaque
  <2> HIDE DEF a, b, coord, o
  <2>7. g \in HitLine
    BY <2>3, <2>4, <2>5, <2>6 DEF HitLine
  <2>8. LineOf(t, g, line, b.var)
    BY <1>3, <2>1, <2>2, <2>5, <2>6 DEF LineOf, n
  <2> QED
    BY <2>7, <2>8
<1> HIDE DEF a, b, coord, g, r, n, o, line
<1>8. ASSUME ~G!WellFormed(t, line) PROVE good
  <2>1. r \in {acc, [acc EXCEPT !.var = a.var], [acc EXCEPT !.var = b.var]}
    BY <1>4, <1>5, <1>8
  <2>2. PICK v : r = [opq |-> o, var |-> v] /\ VarsOK(v) /\ Grown(acc.var, v)
    <3>1. CASE r = acc
      BY <1>1, <3>1, GrownSame
    <3>2. CASE r = [acc EXCEPT !.var = a.var]
      BY <1>1, <1>2, <3>2
    <3>3. CASE r = [acc EXCEPT !.var = b.var]
      BY <1>1, <1>3, <1>6, <3>3
    <3> QED
      BY <2>1, <3>1, <3>2, <3>3
  <2> QED
    BY <1>1, <1>8, <2>2 DEF Accumulated, o
<1>9. ASSUME G!WellFormed(t, line) PROVE good
  <2>1. r = [var |-> b.var, opq |-> [o EXCEPT !.hlist = Append(@, g)]]
    BY <1>4, <1>5, <1>9
  <2>2. [o EXCEPT !.hlist = Append(@, g)] \in Opaque
    <3>1. PICK list \in Seq(HitLine) : list = o.hlist
      BY <1>1 DEF Opaque
    <3>2. Append(list, g) \in Seq(HitLine)
      BY <1>7, <1>9
    <3>3. PICK more \in Seq(HitLine) : more = Append(o.hlist, g)
      BY <3>1, <3>2
    <3> QED
      BY <1>1, <3>3 DEF Opaque
  <2> QED
    BY <1>3, <1>6, <1>7, <1>9, <2>1, <2>2 DEF Accumulated, o
<1>10. good
  BY <1>8, <1>9
<1> QED
  BY <1>10 DEF r, line

\* What the preamble has given after n lines
Settled(t, o, n) ==
  /\ o.ncoord = Ncoord(t)
  /\ (\E i \in 1 .. n : t[i].key = "hitcount") => o.vnhits = ListOf(t)
  /\ (\E i \in 1 .. n : t[i].key = "valuelist") => o.srcdefault = ValuesOf(t)
  /\ Len(o.coord_array) = Cardinality({j \in G!Matchlists(t) : j <= n})
  /\ \A i \in G!Matchlists(t) : i <= n => /\ G!Coordinate(t, i) \in 1 .. Len(o.coord_array)
                                          /\ o.coord_array[G!Coordinate(t, i)] = t[i].arg
  /\ \A k \in 1 .. Len(o.coord_array) : \E i \in G!Matchlists(t) : i <= n /\ G!Coordinate(t, i) = k

\* Every line that is well formed has its entry in the list, and at[i] is the entry of
\* the last of them up to line i.
ListedAt(t, o, v, n, at) ==
  /\ at \in [0 .. n -> Nat] /\ at[0] = 0 /\ at[n] = Len(o.hlist)
  /\ \A i \in 1 .. n : IF G!WellFormed(t, t[i])
                       THEN /\ at[i] = at[i - 1] + 1 /\ at[i] <= Len(o.hlist)
                            /\ LineOf(t, o.hlist[at[i]], t[i], v)
                       ELSE at[i] = at[i - 1]
Listed(t, o, v, n) == \E at : ListedAt(t, o, v, n, at)

LEMMA LineOfOn ==
  ASSUME NEW v, NEW w, VarsOK(v), VarsOK(w), Grown(v, w), NEW t, NEW g, NEW line, LineOf(t, g, line, v)
  PROVE  LineOf(t, g, line, w)
<1>1. Resolved(w, g.dest, line.dest)
  BY ResolvedOn DEF LineOf
<1>2. line.test # G!NoTest => Resolved(w, g.test, line.test)
  BY ResolvedOn DEF LineOf
<1> QED
  BY <1>1, <1>2 DEF LineOf

LEMMA ListedOn ==
  ASSUME NEW v, NEW w, VarsOK(v), VarsOK(w), Grown(v, w), NEW t, NEW o, NEW n \in Nat, Listed(t, o, v, n)
  PROVE  Listed(t, o, w, n)
<1>1. PICK at : ListedAt(t, o, v, n, at)
  BY DEF Listed
<1>2. ListedAt(t, o, w, n, at)
  BY <1>1, LineOfOn DEF ListedAt
<1> QED
  BY <1>2 DEF Listed

LEMMA PreambleLine ==
  ASSUME G!TrueTitles, NEW t \in AllTitles, NEW n \in 0 .. Len(t) - 1, ~G!IsGethit(t[n + 1]),
         NEW o \in Opaque, Settled(t, o, n)
  PROVE  LET p == G!thGethitPreamble(o, t[n + 1])
         IN p \in Opaque /\ p.hlist = o.hlist /\ Settled(t, p, n + 1)
<1> DEFINE line == t[n + 1]
           p == G!thGethitPreamble(o, line)
           good == p \in Opaque /\ p.hlist = o.hlist /\ Settled(t, p, n + 1)
           count(k) == Cardinality({j \in G!Matchlists(t) : j <= k})
<1>1. n \in Nat /\ n + 1 \in DOMAIN t /\ line \in G!Line
  BY TitleIs
<1>2. line.key \in {"missing_value", "hitcount", "valuelist", "matchlist"}
  BY <1>1 DEF G!Line, G!IsGethit
<1>3. \A i \in 1 .. n + 1 : i \in 1 .. n \/ i = n + 1
  BY <1>1
<1>4. line.key = "matchlist" <=> n + 1 \in G!Matchlists(t)
  BY <1>1 DEF G!Matchlists
<1>5. \A i \in G!Matchlists(t) : i \in Int /\ (i <= n + 1 <=> i <= n \/ i = n + 1)
  BY <1>1, MatchlistsAre
<1>6. \A key \in {"hitcount", "valuelist", "matchlist"} : line.key = key => line.arg \in G!Preamble(t, key)
  BY <1>1 DEF G!Preamble
<1>7. \A m \in Lists[ListOf(t)] : m \in G!Arrays
  BY TrueIs DEF G!Arrays
<1>8. \A key \in {"hitcount", "valuelist", "matchlist"} : line.key = key => line.arg \in STRING
  BY <1>1 DEF G!Line
<1> HIDE DEF line, p
<1>9. ASSUME line.key # "matchlist" PROVE count(n + 1) = count(n)
  <2>1. n + 1 \notin G!Matchlists(t)
    BY <1>4, <1>9
  <2>2. count(n) \in Nat
    <3>1. Cardinality({j \in G!Matchlists(t) : j <= n}) \in 0 .. Ncoord(t) /\ Ncoord(t) \in Nat
      BY <1>1, MatchlistsAre
    <3> QED
      BY <3>1
  <2>3. count(n + 1) = count(n) + 0
    BY <2>1, MatchlistsNext
  <2> HIDE DEF count
  <2> QED
    BY <2>2, <2>3
<1>10. ASSUME line.key = "missing_value" PROVE good
  <2>1. p = [o EXCEPT !.default_real = line.arg]
    BY <1>10 DEF G!thGethitPreamble, p
  <2>2. line.arg \in Int
    BY <1>1, <1>10 DEF G!Line
  <2>3. p \in Opaque
    BY <2>1, <2>2 DEF Opaque, Text
  <2>4. /\ p.hlist = o.hlist /\ p.ncoord = o.ncoord /\ p.vnhits = o.vnhits /\ p.srcdefault = o.srcdefault
        /\ p.coord_array = o.coord_array
    BY <2>1 DEF Opaque
  <2>5. \A i \in 1 .. n + 1 : t[i].key \in {"hitcount", "valuelist"} => i \in 1 .. n
    BY <1>3, <1>10 DEF line
  <2>6. \A i \in G!Matchlists(t) : i <= n + 1 <=> i <= n
    BY <1>4, <1>5, <1>10
  <2>7. Settled(t, p, n + 1)
    BY <1>9, <1>10, <2>4, <2>5, <2>6 DEF Settled
  <2> QED
    BY <2>3, <2>4, <2>7
<1>11. ASSUME line.key = "valuelist" PROVE good
  <2>1. line.arg = ValuesOf(t) /\ line.arg \in STRING /\ line.arg \in G!Arrays
    BY <1>6, <1>7, <1>8, <1>11, TrueIs
  <2>2. p = [o EXCEPT !.srcdefault = line.arg]
    BY <1>11, <2>1 DEF G!thGethitPreamble, p
  <2>3. p \in Opaque
    BY <2>1, <2>2 DEF Opaque, Text
  <2>4. /\ p.hlist = o.hlist /\ p.ncoord = o.ncoord /\ p.vnhits = o.vnhits /\ p.srcdefault = line.arg
        /\ p.coord_array = o.coord_array
    BY <2>2 DEF Opaque
  <2>5. \A i \in 1 .. n + 1 : t[i].key = "hitcount" => i \in 1 .. n
    BY <1>3, <1>11 DEF line
  <2>6. \A i \in G!Matchlists(t) : i <= n + 1 <=> i <= n
    BY <1>4, <1>5, <1>11
  <2>7. Settled(t, p, n + 1)
    BY <1>9, <1>11, <2>1, <2>4, <2>5, <2>6 DEF Settled
  <2> QED
    BY <2>3, <2>4, <2>7
<1>12. ASSUME line.key = "hitcount" PROVE good
  <2>1. line.arg = ListOf(t) /\ line.arg \in STRING /\ line.arg \in DOMAIN Lists
    BY <1>6, <1>8, <1>12, TrueIs
  <2>2. p = [o EXCEPT !.vnhits = line.arg]
    BY <1>12, <2>1 DEF G!thGethitPreamble, p
  <2>3. p \in Opaque
    BY <2>1, <2>2 DEF Opaque, Text
  <2>4. /\ p.hlist = o.hlist /\ p.ncoord = o.ncoord /\ p.vnhits = line.arg /\ p.srcdefault = o.srcdefault
        /\ p.coord_array = o.coord_array
    BY <2>2 DEF Opaque
  <2>5. \A i \in 1 .. n + 1 : t[i].key = "valuelist" => i \in 1 .. n
    BY <1>3, <1>12 DEF line
  <2>6. \A i \in G!Matchlists(t) : i <= n + 1 <=> i <= n
    BY <1>4, <1>5, <1>12
  <2>7. Settled(t, p, n + 1)
    BY <1>9, <1>12, <2>1, <2>4, <2>5, <2>6 DEF Settled
  <2> QED
    BY <2>3, <2>4, <2>7
<1>13. ASSUME line.key = "matchlist" PROVE good
  <2>1. line.arg \in STRING /\ line.arg \in G!Arrays /\ ArrayType[line.arg] = "INT"
    BY <1>6, <1>7, <1>8, <1>13, TrueIs
  <2>2. p = [o EXCEPT !.coord_array = Append(@, line.arg)]
    BY <1>13, <2>1 DEF G!thGethitPreamble, p
  <2>3. PICK old \in Seq(STRING) : old = o.coord_array
    BY DEF Opaque
  <2>4. PICK new \in Seq(STRING) : new = Append(old, line.arg)
    <3>1. PICK arg \in STRING : arg = line.arg
      BY <2>1
    <3>2. Append(old, arg) \in Seq(STRING)
      BY <2>3, <3>1, AppendProperties
    <3> QED
      BY <3>1, <3>2
  <2>5. /\ Len(new) = Len(old) + 1 /\ new[Len(old) + 1] = line.arg /\ Len(old) \in Nat
        /\ \A k \in 1 .. Len(old) : new[k] = old[k]
    BY <2>3, <2>4
  <2>6. p = [o EXCEPT !.coord_array = new]
    BY <2>2, <2>3, <2>4
  <2>7. p \in Opaque
    BY <2>4, <2>6 DEF Opaque
  <2>8. /\ p.hlist = o.hlist /\ p.ncoord = o.ncoord /\ p.vnhits = o.vnhits /\ p.srcdefault = o.srcdefault
        /\ p.coord_array = new
    BY <2>6 DEF Opaque
  <2>9. \A i \in 1 .. n + 1 : t[i].key \in {"hitcount", "valuelist"} => i \in 1 .. n
    BY <1>3, <1>13 DEF line
  <2>10. n + 1 \in G!Matchlists(t)
    BY <1>4, <1>13
  <2>11. Len(old) = count(n)
    BY <2>3 DEF Settled
  <2>12. Len(new) = count(n + 1) /\ G!Coordinate(t, n + 1) = Len(old) + 1
    <3>1. count(n + 1) = count(n) + 1 /\ G!Coordinate(t, n + 1) = count(n) + 1
      BY <2>10, MatchlistsNext
    <3> HIDE DEF count
    <3> QED
      BY <2>5, <2>11, <3>1
  <2>13. \A i \in G!Matchlists(t) : i <= n + 1 => /\ G!Coordinate(t, i) \in 1 .. Len(new)
                                                 /\ new[G!Coordinate(t, i)] = t[i].arg
    <3> SUFFICES ASSUME NEW i \in G!Matchlists(t), i <= n + 1
                 PROVE  G!Coordinate(t, i) \in 1 .. Len(new) /\ new[G!Coordinate(t, i)] = t[i].arg
      OBVIOUS
    <3>1. CASE i = n + 1
      BY <2>5, <2>12, <3>1 DEF line
    <3>2. CASE i <= n
      <4>1. G!Coordinate(t, i) \in 1 .. Len(old) /\ old[G!Coordinate(t, i)] = t[i].arg
        BY <2>3, <3>2 DEF Settled
      <4>2. PICK c \in 1 .. Len(old) : c = G!Coordinate(t, i)
        BY <4>1
      <4>3. c \in 1 .. Len(new) /\ new[c] = old[c]
        BY <2>5
      <4> QED
        BY <4>1, <4>2, <4>3
    <3> QED
      BY <1>5, <3>1, <3>2
  <2>14. \A k \in 1 .. Len(new) : \E i \in G!Matchlists(t) : i <= n + 1 /\ G!Coordinate(t, i) = k
    <3> SUFFICES ASSUME NEW k \in 1 .. Len(new) PROVE \E i \in G!Matchlists(t) : i <= n + 1 /\ G!Coordinate(t, i) = k
      OBVIOUS
    <3>1. CASE k = Len(old) + 1
      BY <1>5, <2>10, <2>12, <3>1
    <3>2. CASE k # Len(old) + 1
      <4>1. k \in 1 .. Len(old)
        BY <2>5, <3>2
      <4>2. PICK i \in G!Matchlists(t) : i <= n /\ G!Coordinate(t, i) = k
        BY <2>3, <4>1 DEF Settled
      <4> QED
        BY <1>5, <4>2
    <3> QED
      BY <3>1, <3>2
  <2>15. Settled(t, p, n + 1)
    BY <2>8, <2>9, <2>12, <2>13, <2>14 DEF Settled
  <2> QED
    BY <2>7, <2>8, <2>15
<1>14. good
  BY <1>2, <1>10, <1>11, <1>12, <1>13
<1> QED
  BY <1>14 DEF p, line

\* The turns of the loops
Turn(loop, c, x, i) ==
  IF loop = "book" THEN G!BookLine(x, c.title, i, c.junk)
  ELSE IF loop = "execute" THEN G!ExecuteGethit(x, c, c.hlist[i])
  ELSE IF loop = "ask" THEN G!Asked(x, c, c[i])
  ELSE IF loop = "blocks" THEN G!thExecuteaGethitBlock(x, order[i])
  ELSE IF loop = "titles" THEN G!AskedBy(x, title[order[i]])
  ELSE IF IsGood(hits[SCIN][i]) THEN Strip(x, hits[SCIN][i]) ELSE x

Loop(h, n, x, loop, c) == h = [i \in 0 .. n |-> IF i = 0 THEN x ELSE Turn(loop, c, h[i - 1], i)]

LEMMA LoopNext ==
  ASSUME NEW x, NEW loop, NEW c, NEW m \in Nat, NEW g, Loop(g, m, x, loop, c)
  PROVE  \E h : Loop(h, m + 1, x, loop, c)
<1> DEFINE h == [i \in 0 .. m + 1 |-> IF i = m + 1 THEN Turn(loop, c, g[m], m + 1) ELSE g[i]]
<1>1. \A i \in 0 .. m + 1 : h[i] = IF i = 0 THEN x ELSE Turn(loop, c, h[i - 1], i)
  <2> SUFFICES ASSUME NEW i \in 0 .. m + 1
               PROVE  h[i] = IF i = 0 THEN x ELSE Turn(loop, c, h[i - 1], i)
    OBVIOUS
  <2>1. CASE i = m + 1
    <3>1. h[i] = Turn(loop, c, g[m], m + 1) /\ h[m] = g[m] /\ i - 1 = m /\ i # 0
      BY <2>1
    <3> QED
      BY <2>1, <3>1
  <2>2. CASE i # m + 1
    <3>1. i \in 0 .. m /\ h[i] = g[i]
      BY <2>2
    <3>2. g[i] = IF i = 0 THEN x ELSE Turn(loop, c, g[i - 1], i)
      BY <3>1 DEF Loop
    <3>3. i # 0 => h[i - 1] = g[i - 1]
      BY <3>1
    <3> QED
      BY <3>1, <3>2, <3>3
  <2> QED
    BY <2>1, <2>2
<1>2. Loop(h, m + 1, x, loop, c)
  BY <1>1 DEF Loop
<1> HIDE DEF h
<1> QED
  BY <1>2

LEMMA LoopIs ==
  ASSUME NEW x, NEW loop, NEW c, NEW n \in Nat
  PROVE  \E h : Loop(h, n, x, loop, c)
<1> DEFINE Z == {m \in 0 .. n : \E h : Loop(h, m, x, loop, c)}
<1>1. 0 \in Z
  <2>1. Loop([i \in 0 .. 0 |-> x], 0, x, loop, c)
    BY DEF Loop
  <2> QED
    BY <2>1
<1>2. \A m \in 0 .. n - 1 : m \in Z => m + 1 \in Z
  <2> SUFFICES ASSUME NEW m \in 0 .. n - 1, m \in Z PROVE m + 1 \in Z
    OBVIOUS
  <2>1. \E h : Loop(h, m + 1, x, loop, c)
    BY LoopNext
  <2> QED
    BY <2>1
<1>3. n \in Z
  <2>1. \A i \in 0 .. n : i \in Z
    <3> HIDE DEF Z
    <3> QED
      BY <1>1, <1>2, UpTo
  <2> QED
    BY <2>1
<1> QED
  BY <1>3

\* The block after n lines
BookedTo(t, v, acc, n) ==
  Accumulated(acc) /\ Grown(v, acc.var) /\ Settled(t, acc.opq, n) /\ Listed(t, acc.opq, acc.var, n)

\* All settings come before the first line that asks for a hit.
LEMMA SettledBefore ==
  ASSUME G!TrueTitles, NEW t \in AllTitles, NEW n \in 0 .. Len(t) - 1, G!IsGethit(t[n + 1]), NEW o, Settled(t, o, n)
  PROVE  o.srcdefault = ValuesOf(t) /\ Settled(t, o, n + 1)
<1>1. n \in Nat /\ n + 1 \in DOMAIN t /\ DOMAIN t = 1 .. Len(t) /\ Len(t) \in Nat
  BY TitleIs
<1>2. ASSUME NEW i \in DOMAIN t, t[i].key \in {"hitcount", "valuelist", "matchlist"}
      PROVE  i \in 1 .. n
  <2>1. ~G!IsGethit(t[i])
    BY <1>2 DEF G!IsGethit
  <2>2. ~(n + 1 < i)
    BY <1>1, <2>1, TrueIs
  <2>3. i # n + 1
    BY <2>1
  <2> QED
    BY <1>1, <2>2, <2>3
<1>3. \E i \in 1 .. n : t[i].key = "valuelist"
  <2>1. ValuesOf(t) \in G!Preamble(t, "valuelist")
    BY TrueIs
  <2>2. PICK i \in DOMAIN t : t[i].key = "valuelist"
    BY <2>1 DEF G!Preamble
  <2> QED
    BY <1>2, <2>2
<1>4. n + 1 \notin G!Matchlists(t)
  <2>1. n + 1 \notin 1 .. n
    BY <1>1
  <2> QED
    BY <1>1, <1>2, <2>1 DEF G!Matchlists
<1>5. \A i \in G!Matchlists(t) : i <= n + 1 <=> i <= n
  BY <1>1, <1>4, MatchlistsAre
<1>6. {j \in G!Matchlists(t) : j <= n + 1} = {j \in G!Matchlists(t) : j <= n}
  BY <1>5
<1>7. \A i \in 1 .. n + 1 : t[i].key \in {"hitcount", "valuelist"} => i \in 1 .. n
  BY <1>1, <1>2
<1>8. o.srcdefault = ValuesOf(t)
  BY <1>3 DEF Settled
<1>9. Settled(t, o, n + 1)
  BY <1>5, <1>6, <1>7 DEF Settled
<1> QED
  BY <1>8, <1>9

\* A line that has no entry
LEMMA NoEntry ==
  ASSUME NEW t, NEW o, NEW v, NEW n \in Nat, Listed(t, o, v, n), ~G!WellFormed(t, t[n + 1]), NEW p, p.hlist = o.hlist
  PROVE  Listed(t, p, v, n + 1)
<1>1. PICK at : ListedAt(t, o, v, n, at)
  BY DEF Listed
<1> DEFINE more == [i \in 0 .. n + 1 |-> IF i = n + 1 THEN at[n] ELSE at[i]]
<1>2. /\ at \in [0 .. n -> Nat] /\ at[0] = 0 /\ at[n] = Len(o.hlist)
      /\ \A i \in 1 .. n : IF G!WellFormed(t, t[i])
                           THEN /\ at[i] = at[i - 1] + 1 /\ at[i] <= Len(o.hlist)
                                /\ LineOf(t, o.hlist[at[i]], t[i], v)
                           ELSE at[i] = at[i - 1]
  BY <1>1 DEF ListedAt
<1>3. more \in [0 .. n + 1 -> Nat] /\ more[0] = 0 /\ more[n + 1] = at[n] /\ \A i \in 0 .. n : more[i] = at[i]
  BY <1>2
<1> HIDE DEF more
<1>4. ASSUME NEW i \in 1 .. n + 1
      PROVE  IF G!WellFormed(t, t[i])
             THEN /\ more[i] = more[i - 1] + 1 /\ more[i] <= Len(p.hlist)
                  /\ LineOf(t, p.hlist[more[i]], t[i], v)
             ELSE more[i] = more[i - 1]
  <2>1. CASE i = n + 1
    <3>1. more[i - 1] = at[n] /\ i - 1 = n /\ n \in 0 .. n
      BY <1>3, <2>1
    <3> QED
      BY <1>3, <2>1, <3>1
  <2>2. CASE i # n + 1
    <3>1. i \in 1 .. n /\ more[i] = at[i] /\ more[i - 1] = at[i - 1]
      BY <1>3, <2>2
    <3> QED
      BY <1>2, <3>1
  <2> QED
    BY <2>1, <2>2
<1>5. ListedAt(t, p, v, n + 1, more)
  BY <1>2, <1>3, <1>4 DEF ListedAt
<1> QED
  BY <1>5 DEF Listed

\* A line that has the next entry
LEMMA NextEntry ==
  ASSUME NEW t, NEW o, NEW v, NEW n \in Nat, Listed(t, o, v, n), G!WellFormed(t, t[n + 1]),
         o.hlist \in Seq(HitLine), NEW g \in HitLine, NEW p, p.hlist = Append(o.hlist, g), LineOf(t, g, t[n + 1], v)
  PROVE  Listed(t, p, v, n + 1)
<1>1. PICK at : ListedAt(t, o, v, n, at)
  BY DEF Listed
<1>2. /\ at \in [0 .. n -> Nat] /\ at[0] = 0 /\ at[n] = Len(o.hlist)
      /\ \A i \in 1 .. n : IF G!WellFormed(t, t[i])
                           THEN /\ at[i] = at[i - 1] + 1 /\ at[i] <= Len(o.hlist)
                                /\ LineOf(t, o.hlist[at[i]], t[i], v)
                           ELSE at[i] = at[i - 1]
  BY <1>1 DEF ListedAt
<1>0. PICK list \in Seq(HitLine) : list = o.hlist
  OBVIOUS
<1>3. /\ Len(p.hlist) = Len(list) + 1 /\ p.hlist[Len(list) + 1] = g /\ Len(list) \in Nat
      /\ \A k \in 1 .. Len(list) : p.hlist[k] = list[k]
  BY <1>0
<1> DEFINE more == [i \in 0 .. n + 1 |-> IF i = n + 1 THEN Len(list) + 1 ELSE at[i]]
<1>4. more \in [0 .. n + 1 -> Nat] /\ more[0] = 0 /\ more[n + 1] = Len(list) + 1 /\ \A i \in 0 .. n : more[i] = at[i]
  BY <1>2, <1>3
<1> HIDE DEF more
<1>5. ASSUME NEW i \in 1 .. n + 1
      PROVE  IF G!WellFormed(t, t[i])
             THEN /\ more[i] = more[i - 1] + 1 /\ more[i] <= Len(p.hlist)
                  /\ LineOf(t, p.hlist[more[i]], t[i], v)
             ELSE more[i] = more[i - 1]
  <2>1. CASE i = n + 1
    <3>1. more[i - 1] = at[n] /\ i - 1 = n /\ n \in 0 .. n /\ more[i] = Len(list) + 1
      BY <1>4, <2>1
    <3> QED
      BY <1>0, <1>2, <1>3, <2>1, <3>1
  <2>2. CASE i # n + 1
    <3>1. i \in 1 .. n /\ more[i] = at[i] /\ more[i - 1] = at[i - 1] /\ at[i] \in Nat /\ at[i - 1] \in Nat
      BY SMTT(30), <1>2, <1>4, <2>2
    <3>2. CASE G!WellFormed(t, t[i])
      <4>1. at[i] = at[i - 1] + 1 /\ at[i] <= Len(list) /\ LineOf(t, list[at[i]], t[i], v)
        BY <1>0, <1>2, <3>1, <3>2
      <4>2. PICK k \in 1 .. Len(list) : k = at[i]
        BY <3>1, <4>1
      <4>3. p.hlist[k] = list[k] /\ k <= Len(p.hlist)
        BY <1>3
      <4> QED
        BY <3>1, <3>2, <4>1, <4>2, <4>3
    <3>3. CASE ~G!WellFormed(t, t[i])
      BY <1>2, <3>1, <3>3
    <3> QED
      BY <3>2, <3>3
  <2> QED
    BY <2>1, <2>2
<1>6. ListedAt(t, p, v, n + 1, more)
  BY <1>3, <1>4, <1>5 DEF ListedAt
<1> QED
  BY <1>6 DEF Listed

LEMMA BookStep ==
  ASSUME G!TrueTitles, NEW t \in AllTitles, NEW n \in 0 .. Len(t) - 1, NEW v, VarsOK(v), NEW acc,
         BookedTo(t, v, acc, n), NEW junk \in Int
  PROVE  BookedTo(t, v, G!BookLine(acc, t, n + 1, junk), n + 1)
<1> DEFINE r == G!BookLine(acc, t, n + 1, junk)
<1>1. /\ n \in Nat /\ n + 1 \in DOMAIN t /\ Accumulated(acc) /\ VarsOK(acc.var) /\ acc.opq \in Opaque
      /\ Settled(t, acc.opq, n) /\ Listed(t, acc.opq, acc.var, n) /\ Grown(v, acc.var)
      /\ acc.opq.hlist \in Seq(HitLine) /\ acc = [opq |-> acc.opq, var |-> acc.var]
  BY TitleIs DEF BookedTo, Accumulated, Opaque
<1>2. ASSUME ~G!IsGethit(t[n + 1]) PROVE BookedTo(t, v, r, n + 1)
  <2> DEFINE p == G!thGethitPreamble(acc.opq, t[n + 1])
  <2>1. p \in Opaque /\ p.hlist = acc.opq.hlist /\ Settled(t, p, n + 1)
    BY <1>1, <1>2, PreambleLine
  <2> HIDE DEF p
  <2>2. r = [opq |-> p, var |-> acc.var]
    <3>1. ~G!Mode(t, n + 1)
      BY <1>1, <1>2, PreambleFirst
    <3> QED
      BY <1>1, <1>2, <3>1 DEF G!BookLine, p
  <2>3. ~G!WellFormed(t, t[n + 1])
    BY <1>2 DEF G!WellFormed
  <2>4. Listed(t, p, acc.var, n + 1)
    BY <1>1, <2>1, <2>3, NoEntry
  <2> HIDE DEF r
  <2> QED
    BY <1>1, <2>1, <2>2, <2>4 DEF BookedTo, Accumulated
<1>3. ASSUME G!IsGethit(t[n + 1]) PROVE BookedTo(t, v, r, n + 1)
  <2>1. r = G!thBookaGethit(acc, t[n + 1], junk)
    BY <1>3 DEF G!BookLine
  <2>2. acc.opq.srcdefault = ValuesOf(t) /\ Settled(t, acc.opq, n + 1) /\ acc.opq.ncoord = Ncoord(t)
    <3>1. acc.opq.srcdefault = ValuesOf(t) /\ Settled(t, acc.opq, n + 1)
      BY <1>1, <1>3, SettledBefore
    <3> QED
      BY <3>1 DEF Settled
  <2> HIDE DEF r
  <2>3. /\ Accumulated(r) /\ Grown(acc.var, r.var)
        /\ IF G!WellFormed(t, t[n + 1])
           THEN \E g \in HitLine : /\ r.opq = [acc.opq EXCEPT !.hlist = Append(acc.opq.hlist, g)]
                                   /\ LineOf(t, g, t[n + 1], r.var)
           ELSE r.opq = acc.opq
    BY <1>1, <1>3, <2>1, <2>2, GethitBooked
  <2>4. VarsOK(r.var) /\ Grown(v, r.var)
    <3>1. VarsOK(r.var)
      BY <2>3 DEF Accumulated
    <3> QED
      BY <1>1, <2>3, <3>1, GrownOn
  <2>5. Listed(t, acc.opq, r.var, n)
    BY <1>1, <2>3, <2>4, ListedOn
  <2>6. ASSUME G!WellFormed(t, t[n + 1]) PROVE Settled(t, r.opq, n + 1) /\ Listed(t, r.opq, r.var, n + 1)
    <3>1. PICK g \in HitLine : /\ r.opq = [acc.opq EXCEPT !.hlist = Append(acc.opq.hlist, g)]
                               /\ LineOf(t, g, t[n + 1], r.var)
      BY <2>3, <2>6
    <3>2. /\ r.opq.hlist = Append(acc.opq.hlist, g) /\ r.opq.ncoord = acc.opq.ncoord /\ r.opq.vnhits = acc.opq.vnhits
          /\ r.opq.srcdefault = acc.opq.srcdefault /\ r.opq.coord_array = acc.opq.coord_array
      <4>1. PICK more : more = Append(acc.opq.hlist, g)
        OBVIOUS
      <4> QED
        BY <1>1, <3>1, <4>1 DEF Opaque
    <3>3. Settled(t, r.opq, n + 1)
      BY <2>2, <3>2 DEF Settled
    <3>4. Listed(t, r.opq, r.var, n + 1)
      BY <1>1, <2>5, <2>6, <3>1, <3>2, NextEntry
    <3> QED
      BY <3>3, <3>4
  <2>7. ASSUME ~G!WellFormed(t, t[n + 1]) PROVE Settled(t, r.opq, n + 1) /\ Listed(t, r.opq, r.var, n + 1)
    <3>1. r.opq = acc.opq
      BY <2>3, <2>7
    <3>2. Listed(t, r.opq, r.var, n + 1)
      BY <1>1, <2>5, <2>7, <3>1, NoEntry
    <3> QED
      BY <2>2, <3>1, <3>2
  <2> QED
    BY <2>3, <2>4, <2>6, <2>7 DEF BookedTo
<1> QED
  BY <1>2, <1>3

\* A block is booked.
LEMMA BlockBooked ==
  ASSUME G!TrueTitles, NEW t \in AllTitles, NEW v, VarsOK(v), NEW junk \in Int
  PROVE  LET after[n \in 0 .. Len(t)] ==
               IF n = 0 THEN [opq |-> G!NewOpaque(t), var |-> v] ELSE G!BookLine(after[n - 1], t, n, junk)
         IN BookedTo(t, v, after[Len(t)], Len(t))
<1> DEFINE acc == [opq |-> G!NewOpaque(t), var |-> v]
           After(h) == h = [n \in 0 .. Len(t) |-> IF n = 0 THEN acc ELSE G!BookLine(h[n - 1], t, n, junk)]
           after == CHOOSE h : After(h)
<1>1. Len(t) \in Nat
  BY TitleIs
<1>2. After(after)
  <2>1. PICK h : Loop(h, Len(t), acc, "book", [title |-> t, junk |-> junk])
    BY <1>1, LoopIs
  <2>2. After(h)
    BY <2>1 DEF Loop, Turn
  <2> HIDE DEF After
  <2> QED
    BY <2>2
<1>3. BookedTo(t, v, acc, 0)
  <2>1. /\ acc.opq.ncoord = Ncoord(t) /\ acc.opq.vnhits = "" /\ acc.opq.srcdefault = "" /\ acc.opq.coord_array = <<>>
        /\ acc.opq.hlist = <<>> /\ acc.opq.default_real = 0 /\ Ncoord(t) \in Nat
        /\ acc.opq = [vnhits |-> "", ncoord |-> Ncoord(t), coord_array |-> <<>>, srcdefault |-> "", default_real |-> 0,
                      hlist |-> <<>>]
    BY CountIs, MatchlistsAre DEF G!NewOpaque
  <2>2. Accumulated(acc)
    <3>1. acc = [opq |-> acc.opq, var |-> acc.var] /\ acc.var = v
      OBVIOUS
    <3>2. <<>> \in Seq(STRING) /\ <<>> \in Seq(HitLine)
      OBVIOUS
    <3>3. acc.opq \in Opaque
      <4>1. PICK strings \in Seq(STRING) : strings = <<>>
        BY <3>2
      <4>2. PICK list \in Seq(HitLine) : list = <<>>
        BY <3>2
      <4>3. PICK n \in Nat : n = Ncoord(t)
        BY <2>1
      <4>4. acc.opq = [vnhits |-> "", ncoord |-> n, coord_array |-> strings, srcdefault |-> "", default_real |-> 0,
                       hlist |-> list]
        BY <2>1, <4>1, <4>2, <4>3
      <4>5. PICK none \in Text : none = ""
        BY DEF Text
      <4>6. acc.opq = [vnhits |-> none, ncoord |-> n, coord_array |-> strings, srcdefault |-> none, default_real |-> 0,
                       hlist |-> list]
        BY <4>4, <4>5
      <4> HIDE DEF acc
      <4> QED
        BY <4>6 DEF Opaque
    <3>4. VarsOK(acc.var)
      BY <3>1
    <3> HIDE DEF acc
    <3> QED
      BY <3>1, <3>3, <3>4 DEF Accumulated
  <2>3. Grown(v, acc.var)
    BY GrownSame
  <2>4. {j \in G!Matchlists(t) : j <= 0} = {}
    BY MatchlistsAre
  <2>5. Settled(t, acc.opq, 0)
    <3>1. Cardinality({j \in G!Matchlists(t) : j <= 0}) = 0
      BY <2>4, FS_EmptySet
    <3>2. \A i \in G!Matchlists(t) : ~(i <= 0)
      BY MatchlistsAre
    <3>3. Len(acc.opq.coord_array) = 0
      BY <2>1
    <3>4. 1 .. 0 = {}
      OBVIOUS
    <3>5. /\ ~\E i \in 1 .. 0 : t[i].key = "hitcount"
          /\ ~\E i \in 1 .. 0 : t[i].key = "valuelist"
          /\ \A k \in 1 .. Len(acc.opq.coord_array) : FALSE
      BY <3>3, <3>4
    <3>6. acc.opq.ncoord = Ncoord(t)
      BY <2>1
    <3> HIDE DEF acc
    <3> QED
      BY <3>1, <3>2, <3>3, <3>5, <3>6 DEF Settled
  <2>6. ListedAt(t, acc.opq, acc.var, 0, [i \in 0 .. 0 |-> 0])
    <3>1. Len(acc.opq.hlist) = 0
      BY <2>1
    <3> HIDE DEF acc
    <3> QED
      BY <3>1 DEF ListedAt
  <2> HIDE DEF acc
  <2> QED
    BY <2>2, <2>3, <2>5, <2>6 DEF BookedTo, Listed
<1> DEFINE Z == {n \in 0 .. Len(t) : BookedTo(t, v, after[n], n)}
<1> HIDE DEF acc, after
<1>4. 0 \in Z
  BY <1>1, <1>2, <1>3
<1>5. \A n \in 0 .. Len(t) - 1 : n \in Z => n + 1 \in Z
  <2> SUFFICES ASSUME NEW n \in 0 .. Len(t) - 1, BookedTo(t, v, after[n], n)
               PROVE  n + 1 \in 0 .. Len(t) /\ BookedTo(t, v, after[n + 1], n + 1)
    OBVIOUS
  <2>1. n + 1 \in 0 .. Len(t) /\ n + 1 # 0 /\ (n + 1) - 1 = n
    BY <1>1
  <2>2. after[n + 1] = G!BookLine(after[n], t, n + 1, junk)
    BY <1>2, <2>1
  <2> HIDE DEF After
  <2> QED
    BY <2>1, <2>2, BookStep
<1>6. Len(t) \in Z
  <2>1. \A n \in 0 .. Len(t) : n \in Z
    <3> HIDE DEF Z
    <3> QED
      BY <1>1, <1>4, <1>5, UpTo
  <2> QED
    BY <1>1, <2>1
<1> QED
  BY <1>6 DEF after, acc

-----------------------------------------------------------------------------
(* Executing the blocks. *)

\* The variables have what is due.
Agree(v, d) ==
  /\ d = [x \in DOMAIN d |-> d[x]] /\ DOMAIN d \subseteq [name : STRING, index : Nat]
  /\ \A x \in DOMAIN d : \E id : /\ Resolved(v, id, x)
                                 /\ v[id].elements[x.index + 1] = G!Convert(v[id].type, d[x])

\* The same variables, with other values
SameShape(v, w) ==
  DOMAIN w = DOMAIN v /\ \A id \in DOMAIN v : w[id].type = v[id].type /\ Len(w[id].elements) = Len(v[id].elements)

LEMMA ShapeOn == ASSUME NEW u, NEW v, NEW w, SameShape(u, v), SameShape(v, w) PROVE SameShape(u, w)
BY DEF SameShape

LEMMA LineOfShape ==
  ASSUME NEW v, NEW w, SameShape(v, w), NEW t, NEW g, NEW line, LineOf(t, g, line, v)
  PROVE  LineOf(t, g, line, w)
<1>1. \A id, x : Resolved(v, id, x) => Resolved(w, id, x)
  BY DEF Resolved, SameShape
<1> QED
  BY <1>1 DEF LineOf

LEMMA ListedShape ==
  ASSUME NEW v, NEW w, SameShape(v, w), NEW t, NEW o, NEW n, Listed(t, o, v, n)
  PROVE  Listed(t, o, w, n)
<1>1. PICK at : ListedAt(t, o, v, n, at)
  BY DEF Listed
<1>2. ListedAt(t, o, w, n, at)
  BY <1>1, LineOfShape DEF ListedAt
<1> QED
  BY <1>2 DEF Listed

LEMMA ConvertIs ==
  /\ \A type \in Types, n \in Int : G!Convert(type, n) \in Int
  /\ G!Convert("INT", 0) = 0 /\ G!Convert("INT", G!TRUTH) = G!TRUTH /\ G!TRUTH \in Int
<1>1. \A n \in Int : G!floatToLong(n) \in Int
  <2> SUFFICES ASSUME NEW n \in Int PROVE G!floatToLong(n) \in Int
    OBVIOUS
  <2>1. (n + 1) \div 2 \in Int /\ (1 - n) \div 2 \in Int
    OBVIOUS
  <2>2. 2 * ((n + 1) \div 2) \in Int /\ (-2) * ((1 - n) \div 2) \in Int
    BY <2>1
  <2> QED
    BY <2>2 DEF G!floatToLong
<1>2. G!floatToLong(0) = 0 /\ G!floatToLong(2) = 2
  <2>1. (1 - 0) \div 2 = 0 /\ (2 + 1) \div 2 = 1
    OBVIOUS
  <2>2. ~(0 > 0) /\ 2 > 0 /\ 2 * 1 = 2 /\ (-2) * 0 = 0
    OBVIOUS
  <2>3. G!floatToLong(0) = (-2) * ((1 - 0) \div 2)
    BY <2>2 DEF G!floatToLong
  <2>4. G!floatToLong(2) = 2 * ((2 + 1) \div 2)
    BY <2>2 DEF G!floatToLong
  <2> QED
    BY <2>1, <2>2, <2>3, <2>4
<1> QED
  BY <1>1, <1>2 DEF G!Convert, G!TRUTH

\* A value is stored when it is due.
LEMMA StoredIs ==
  ASSUME NEW v, VarsOK(v), NEW d, Agree(v, d), NEW x \in [name : STRING, index : Nat], NEW id, Resolved(v, id, x),
         NEW value \in Int, NEW bits \in Int, bits = G!Convert(v[id].type, value)
  PROVE  LET w == [v EXCEPT ![id].elements[x.index + 1] = bits]
         IN VarsOK(w) /\ SameShape(v, w) /\ Agree(w, G!With(d, x, value))
<1> DEFINE w == [v EXCEPT ![id].elements[x.index + 1] = bits]
           e == G!With(d, x, value)
<1>1. id \in DOMAIN v /\ v[id] \in Variable /\ x.index \in Nat /\ x.index + 1 \in 1 .. Len(v[id].elements)
      /\ id[2] = x.name
  BY DEF Resolved, VarsOK
<1>2. PICK old \in Seq(Int) : old = v[id].elements
  BY <1>1 DEF Variable
<1>3. PICK k \in 1 .. Len(old) : k = x.index + 1
  BY <1>1, <1>2
<1>4. PICK new : new = [old EXCEPT ![k] = bits]
  OBVIOUS
<1>5. /\ new \in Seq(Int) /\ Len(new) = Len(old) /\ new[k] = bits /\ Len(old) \in Nat
      /\ \A i \in 1 .. Len(old) : i # k => new[i] = old[i]
  BY <1>4
<1>6. w[id] = [v[id] EXCEPT !.elements = new] /\ DOMAIN w = DOMAIN v
      /\ \A y \in DOMAIN v : y # id => w[y] = v[y]
  BY <1>1, <1>2, <1>3, <1>4 DEF VarsOK
<1>7. w[id] \in Variable /\ w[id].elements = new /\ w[id].type = v[id].type
  BY <1>1, <1>5, <1>6 DEF Variable
<1>8. w \in [DOMAIN v -> Variable]
  BY <1>6, <1>7 DEF VarsOK
<1> HIDE DEF w
<1>9. VarsOK(w)
  BY ZenonT(30), <1>6, <1>7, <1>8 DEF VarsOK
<1>10. SameShape(v, w)
  <2> SUFFICES ASSUME NEW y \in DOMAIN v
               PROVE  w[y].type = v[y].type /\ Len(w[y].elements) = Len(v[y].elements)
    BY <1>6 DEF SameShape
  <2>1. CASE y = id
    BY <1>2, <1>5, <1>7, <2>1
  <2>2. CASE y # id
    BY <1>6, <2>2
  <2> QED
    BY <2>1, <2>2
<1>11. DOMAIN e = DOMAIN d \cup {x} /\ e = [y \in DOMAIN e |-> e[y]] /\ e[x] = value
       /\ \A y \in DOMAIN d : y # x => e[y] = d[y]
  BY DEF G!With
<1> HIDE DEF e
<1>12. DOMAIN d \subseteq [name : STRING, index : Nat] /\ DOMAIN e \subseteq [name : STRING, index : Nat]
  BY <1>11 DEF Agree
<1>13. ASSUME NEW y \in DOMAIN e
       PROVE  \E other : Resolved(w, other, y) /\ w[other].elements[y.index + 1] = G!Convert(w[other].type, e[y])
  <2>1. CASE y = x
    <3>1. Resolved(w, id, x)
      BY <1>1, <1>2, <1>5, <1>6, <1>7 DEF Resolved
    <3>2. w[id].elements[x.index + 1] = G!Convert(w[id].type, e[x])
      BY <1>3, <1>5, <1>7, <1>11
    <3> QED
      BY <2>1, <3>1, <3>2
  <2>2. CASE y # x
    <3>1. y \in DOMAIN d /\ e[y] = d[y]
      BY <1>11, <2>2
    <3>2. PICK other : Resolved(v, other, y) /\ v[other].elements[y.index + 1] = G!Convert(v[other].type, d[y])
      BY <3>1 DEF Agree
    <3>3. Resolved(w, other, y)
      BY <1>10, <3>2 DEF Resolved, SameShape
    <3>4. CASE other = id
      <4>1. y.name = x.name
        BY <1>1, <3>2, <3>4 DEF Resolved
      <4>2. y.index # x.index /\ y.index \in Nat
        <5>1. y \in [name : STRING, index : Nat]
          BY <1>12, <3>1
        <5>2. y.index \in Nat
          BY <5>1
        <5>3. y.index # x.index
          BY <2>2, <4>1, <5>1
        <5> QED
          BY <5>2, <5>3
      <4>3. y.index + 1 \in 1 .. Len(old) /\ y.index + 1 # k
        BY SMTT(30), <1>1, <1>2, <1>3, <3>2, <3>4, <4>2 DEF Resolved
      <4>4. w[other].elements[y.index + 1] = v[other].elements[y.index + 1]
        BY <1>2, <1>5, <1>7, <3>4, <4>3
      <4> QED
        BY <1>7, <3>1, <3>2, <3>3, <3>4, <4>4
    <3>5. CASE other # id
      <4>1. w[other] = v[other]
        BY <1>6, <3>2, <3>5 DEF Resolved
      <4> QED
        BY <3>1, <3>2, <3>3, <4>1
    <3> QED
      BY <3>4, <3>5
  <2> QED
    BY <2>1, <2>2
<1>14. Agree(w, e)
  BY <1>11, <1>12, <1>13 DEF Agree
<1> QED
  BY <1>9, <1>10, <1>14 DEF w, e

\* The common blocks of a list hold the hits of the event in their order.
HitsAgree(n) ==
  \E h : /\ nhits[n] \in Nat /\ h \in [0 .. nhits[n] - 1 -> given[n]]
         /\ \A hit \in given[n] : \E i \in 0 .. nhits[n] - 1 : h[i] = hit
         /\ \A i, j \in 0 .. nhits[n] - 1 : /\ i < j => G!Comes(h[i].at, h[j].at)
                                            /\ i <= j => ~G!Comes(h[j].at, h[i].at)
         /\ \A i \in 0 .. nhits[n] - 1 : \A a \in Lists[n] : array[a][i] = h[i].value[a] /\ array[a][i] \in Int

\* What a line finds
LEMMA FoundIs ==
  ASSUME G!TrueTitles, NEW t \in AllTitles, NEW i \in DOMAIN t, G!WellFormed(t, t[i]), NEW o \in Opaque, Settled(t, o, Len(t)),
         NEW v, NEW g, LineOf(t, g, t[i], v), HitsAgree(ListOf(t))
  PROVE  LET found == {k \in G!HitsOf(o) : G!Matches(o, g, k)}
             asked == G!HitsFor(t, t[i])
         IN /\ found = {} <=> asked = {}
            /\ found # {} => /\ array[g.src][G!Min(found)] = G!First(asked).value[ValuesOf(t)]
                             /\ array[g.src][G!Min(found)] \in Int
<1> DEFINE n == ListOf(t)
           line == t[i]
           found == {k \in G!HitsOf(o) : G!Matches(o, g, k)}
           asked == G!HitsFor(t, line)
<1>1. PICK h :
        /\ nhits[n] \in Nat /\ h \in [0 .. nhits[n] - 1 -> given[n]]
        /\ \A hit \in given[n] : \E k \in 0 .. nhits[n] - 1 : h[k] = hit
        /\ \A j, k \in 0 .. nhits[n] - 1 : /\ j < k => G!Comes(h[j].at, h[k].at)
                                           /\ j <= k => ~G!Comes(h[k].at, h[j].at)
        /\ \A k \in 0 .. nhits[n] - 1 : \A a \in Lists[n] : array[a][k] = h[k].value[a] /\ array[a][k] \in Int
  BY DEF HitsAgree
<1>2. Len(t) \in Nat /\ DOMAIN t = 1 .. Len(t)
  BY TitleIs
<1>3. o.vnhits = n /\ o.ncoord = Ncoord(t) /\ Ncoord(t) = Len(o.coord_array) /\ Ncoord(t) \in Nat
  <2>1. n \in G!Preamble(t, "hitcount")
    BY TrueIs
  <2>2. \E k \in 1 .. Len(t) : t[k].key = "hitcount"
    BY <1>2, <2>1 DEF G!Preamble
  <2>3. Len(o.coord_array) = Cardinality({j \in G!Matchlists(t) : j <= Len(t)}) /\ o.vnhits = n /\ o.ncoord = Ncoord(t)
    BY <2>2 DEF Settled
  <2>4. {j \in G!Matchlists(t) : j <= Len(t)} = G!Matchlists(t) /\ Ncoord(t) \in Nat
    BY MatchlistsAre
  <2> QED
    BY <2>3, <2>4 DEF Ncoord
<1>4. G!HitsOf(o) = 0 .. nhits[n] - 1
  BY <1>3 DEF G!HitsOf
<1>5. g.src = ValuesOf(t) /\ ValuesOf(t) \in Lists[n] /\ g.coord = [k \in 1 .. Ncoord(t) |-> line.coords[k]]
  BY TrueIs DEF LineOf
<1>6. /\ \A j \in G!Matchlists(t) : /\ G!Coordinate(t, j) \in 1 .. Ncoord(t)
                                    /\ o.coord_array[G!Coordinate(t, j)] = t[j].arg /\ t[j].arg \in Lists[n]
      /\ \A k \in 1 .. Ncoord(t) : \E j \in G!Matchlists(t) : G!Coordinate(t, j) = k
  <2>1. \A j \in G!Matchlists(t) : j <= Len(t) /\ t[j].arg \in Lists[n]
    <3>1. \A j \in G!Matchlists(t) : j \in 1 .. Len(t) /\ t[j].arg \in G!Preamble(t, "matchlist")
      BY <1>2, MatchlistsAre DEF G!Matchlists, G!Preamble
    <3> QED
      BY <1>2, <3>1, TrueIs
  <2> QED
    BY <1>3, <2>1 DEF Settled
<1>7. ASSUME NEW k \in 0 .. nhits[n] - 1
      PROVE  G!Matches(o, g, k) <=> h[k] \in asked
  <2>1. h[k] \in given[n]
    BY <1>1
  <2>2. h[k] \in asked <=> \A j \in G!Matchlists(t) : h[k].value[t[j].arg] = line.coords[G!Coordinate(t, j)]
    BY <2>1 DEF G!HitsFor, ListOf
  <2>3. \A j \in G!Matchlists(t) : h[k].value[t[j].arg] = array[o.coord_array[G!Coordinate(t, j)]][k]
    BY SMTT(30), <1>1, <1>6
  <2>4. \A j \in G!Matchlists(t) : line.coords[G!Coordinate(t, j)] = g.coord[G!Coordinate(t, j)]
    BY <1>5, <1>6
  <2>5. G!Matches(o, g, k) <=> \A m \in 1 .. Ncoord(t) : array[o.coord_array[m]][k] = g.coord[m]
    BY <1>3 DEF G!Matches
  <2>6. G!Matches(o, g, k) => h[k] \in asked
    <3> HIDE DEF asked, n, line
    <3> QED
      BY <1>6, <2>2, <2>3, <2>4, <2>5
  <2>7. h[k] \in asked => G!Matches(o, g, k)
    <3> SUFFICES ASSUME h[k] \in asked, NEW m \in 1 .. Ncoord(t)
                 PROVE  array[o.coord_array[m]][k] = g.coord[m]
      BY <2>5
    <3>1. PICK j \in G!Matchlists(t) : G!Coordinate(t, j) = m
      BY <1>6
    <3> HIDE DEF asked, n, line
    <3> QED
      BY <2>2, <2>3, <2>4, <3>1
  <2> QED
    BY <2>6, <2>7
<1>8. asked \subseteq given[n]
  BY DEF G!HitsFor, ListOf
<1> HIDE DEF asked, n, line
<1>9. found = {k \in 0 .. nhits[n] - 1 : h[k] \in asked}
  BY <1>4, <1>7
<1> HIDE DEF found
<1>10. found = {} <=> asked = {}
  BY <1>1, <1>8, <1>9
<1>11. ASSUME found # {}
       PROVE  array[g.src][G!Min(found)] = G!First(asked).value[ValuesOf(t)] /\ array[g.src][G!Min(found)] \in Int
  <2>1. found \in SUBSET Nat
    BY <1>9
  <2>2. PICK m \in found : \A k \in found : m <= k
    BY <1>11, <2>1, LeastOf
  <2>3. G!Min(found) \in found /\ \A k \in found : G!Min(found) <= k
    BY <2>2 DEF G!Min
  <2>4. G!Min(found) = m
    <3>1. PICK least \in Nat : least = G!Min(found)
      BY <2>1, <2>3
    <3>2. m \in Nat /\ least <= m /\ m <= least
      BY <2>1, <2>2, <2>3, <3>1
    <3> QED
      BY <3>1, <3>2
  <2>5. m \in 0 .. nhits[n] - 1 /\ h[m] \in asked
    BY <1>9, <2>2
  <2>6. \A other \in asked : \E k \in found : h[k] = other
    BY SMTT(30), <1>1, <1>8, <1>9
  <2>7. \A other \in asked : ~G!Comes(other.at, h[m].at)
    <3> SUFFICES ASSUME NEW other \in asked PROVE ~G!Comes(other.at, h[m].at)
      OBVIOUS
    <3>1. PICK k \in found : h[k] = other
      BY <2>6
    <3>2. k \in 0 .. nhits[n] - 1 /\ m <= k
      BY <1>9, <2>2
    <3> QED
      BY <1>1, <2>5, <3>1, <3>2
  <2>8. G!First(asked) \in asked /\ \A other \in asked : ~G!Comes(other.at, G!First(asked).at)
    BY <2>5, <2>7 DEF G!First
  <2>9. PICK f \in found : h[f] = G!First(asked)
    BY <2>6, <2>8
  <2>10. f = m
    <3>1. f \in 0 .. nhits[n] - 1 /\ m <= f
      BY <1>9, <2>2
    <3>2. ~G!Comes(h[m].at, h[f].at)
      BY <2>5, <2>8, <2>9
    <3>3. ~(m < f)
      BY <1>1, <2>5, <3>1, <3>2
    <3> QED
      BY <2>5, <3>1, <3>3
  <2> QED
    BY <1>1, <1>5, <2>4, <2>5, <2>9, <2>10
<1> QED
  BY <1>10, <1>11 DEF found, asked, n, line

\* A test that is reset or set
LEMMA FlagIs ==
  ASSUME NEW v, VarsOK(v), NEW d, Agree(v, d), NEW x \in [name : STRING, index : Nat], x.name \notin RealName,
         NEW id, Resolved(v, id, x), NEW flag \in {0, G!TRUTH}
  PROVE  LET w == G!SetFlag(v, id, x.index, flag)
         IN VarsOK(w) /\ SameShape(v, w) /\ Agree(w, G!With(d, x, flag))
<1>1. v[id].type = "INT"
  <2>1. id \in DOMAIN v /\ id[2] = x.name
    BY DEF Resolved
  <2>2. v[id].type \in Types /\ v[id].type # "REAL"
    BY <2>1 DEF VarsOK, Variable
  <2> QED
    BY <2>2 DEF Types
<1>2. flag \in Int /\ flag = G!Convert(v[id].type, flag)
  BY <1>1, ConvertIs
<1>3. G!SetFlag(v, id, x.index, flag) = [v EXCEPT ![id].elements[x.index + 1] = flag]
  <2>1. ~(v[id].type = "REAL" /\ flag = G!TRUTH)
    BY <1>1
  <2> QED
    BY <2>1 DEF G!SetFlag
<1> DEFINE w == [v EXCEPT ![id].elements[x.index + 1] = flag]
<1>4. VarsOK(w) /\ SameShape(v, w) /\ Agree(w, G!With(d, x, flag))
  BY <1>2, StoredIs
<1> HIDE DEF w
<1> QED
  BY <1>3, <1>4 DEF w

LEMMA ShapeSame == ASSUME NEW v PROVE SameShape(v, v)
BY DEF SameShape

\* One entry of the list does what its line asks for.
LEMMA LineExecuted ==
  ASSUME G!TrueTitles, NEW t \in AllTitles, NEW i \in DOMAIN t, G!WellFormed(t, t[i]), NEW o \in Opaque, Settled(t, o, Len(t)),
         NEW v, VarsOK(v), NEW g, LineOf(t, g, t[i], v), HitsAgree(ListOf(t)), NEW d, Agree(v, d)
  PROVE  LET w == G!ExecuteGethit(v, o, g)
         IN VarsOK(w) /\ SameShape(v, w) /\ Agree(w, G!Asked(d, t, t[i]))
<1> DEFINE line == t[i]
           found == {k \in G!HitsOf(o) : G!Matches(o, g, k)}
           asked == G!HitsFor(t, line)
           flag == IF found = {} THEN 0 ELSE G!TRUTH
           told == IF g.test = <<>> THEN v ELSE G!SetFlag(v, g.test, g.testindex, flag)
           due0 == IF line.test = G!NoTest THEN d ELSE G!With(d, line.test, flag)
           w == G!ExecuteGethit(v, o, g)
           e == G!Asked(d, t, line)
           good == VarsOK(w) /\ SameShape(v, w) /\ Agree(w, e)
<1>1. /\ found = {} <=> asked = {}
      /\ found # {} => /\ array[g.src][G!Min(found)] = G!First(asked).value[ValuesOf(t)]
                       /\ array[g.src][G!Min(found)] \in Int
  BY FoundIs
<1>2. w = IF found = {} THEN told ELSE G!Store(told, g.dest, g.destindex, array[g.src][G!Min(found)])
  BY DEF G!ExecuteGethit
<1> HIDE DEF found, w
<1>3. e = IF asked = {} THEN due0 ELSE G!With(due0, line.dest, G!First(asked).value[ValuesOf(t)])
  <2>1. e = LET to == IF line.test = G!NoTest THEN d ELSE G!With(d, line.test, IF asked = {} THEN 0 ELSE G!TRUTH)
            IN IF asked = {} THEN to ELSE G!With(to, line.dest, G!First(asked).value[ValuesOf(t)])
    BY DEF G!Asked, ValuesOf
  <2>2. flag = IF asked = {} THEN 0 ELSE G!TRUTH
    BY <1>1
  <2> HIDE DEF asked, flag, e
  <2> QED
    BY <2>1, <2>2
<1> HIDE DEF asked, e
<1>4. G!IsGethit(line)
  BY DEF G!WellFormed
<1>5. line.dest \in G!Name /\ line.test \in G!Name /\ line.dest.index # G!BadIndex /\ line.test.index # G!BadIndex
  BY <1>4, TitleIs, WellFormedIs
<1>6. line.dest \in [name : STRING, index : Nat] /\ line.test \in [name : STRING, index : Nat]
  BY <1>5 DEF G!Name
<1>7. Resolved(v, g.dest, line.dest) /\ g.destindex = line.dest.index
  BY DEF LineOf
<1>8. VarsOK(told) /\ SameShape(v, told) /\ Agree(told, due0)
  <2>1. CASE line.test = G!NoTest
    <3>1. g.test = <<>>
      BY <2>1 DEF LineOf
    <3>2. told = v /\ due0 = d
      BY <2>1, <3>1
    <3> HIDE DEF told, due0
    <3> QED
      BY <3>2, ShapeSame
  <2>2. CASE line.test # G!NoTest
    <3>1. Resolved(v, g.test, line.test) /\ g.testindex = line.test.index
      BY <2>2 DEF LineOf
    <3>2. g.test # <<>>
      <4>1. g.test \in Ids
        BY <3>1 DEF Resolved, VarsOK
      <4>2. PICK c \in {"event", "test"}, n \in STRING : g.test = <<c, n>>
        BY <4>1, IdIs
      <4> QED
        BY <4>2
    <3>3. line.test.name \notin RealName
      BY <2>2, TrueIs
    <3>4. told = G!SetFlag(v, g.test, line.test.index, flag) /\ due0 = G!With(d, line.test, flag)
      BY <2>2, <3>1, <3>2
    <3>5. flag \in {0, G!TRUTH}
      OBVIOUS
    <3> HIDE DEF told, due0, flag, line
    <3> QED
      BY <1>6, <3>1, <3>3, <3>4, <3>5, FlagIs
  <2> QED
    BY <2>1, <2>2
<1> HIDE DEF told, due0, line
<1>9. ASSUME found = {} PROVE good
  <2>1. w = told /\ e = due0
    BY <1>1, <1>2, <1>3, <1>9
  <2> QED
    BY <1>8, <2>1
<1>10. ASSUME found # {} PROVE good
  <2> DEFINE value == array[g.src][G!Min(found)]
             bits == G!Convert(told[g.dest].type, value)
  <2>1. value \in Int /\ e = G!With(due0, line.dest, value)
    BY <1>1, <1>3, <1>10
  <2>2. w = G!Store(told, g.dest, line.dest.index, value)
    BY <1>2, <1>7, <1>10
  <2> HIDE DEF value
  <2>3. w = [told EXCEPT ![g.dest].elements[line.dest.index + 1] = bits]
    BY <2>2 DEF G!Store
  <2>4. Resolved(told, g.dest, line.dest)
    BY <1>7, <1>8 DEF Resolved, SameShape
  <2>5. bits \in Int
    <3>1. told[g.dest].type \in Types
      BY <1>8, <2>4 DEF Resolved, VarsOK, Variable
    <3> QED
      BY <2>1, <3>1, ConvertIs
  <2>6. VarsOK(w) /\ SameShape(told, w) /\ Agree(w, e)
    <3>1. bits = G!Convert(told[g.dest].type, value)
      OBVIOUS
    <3> HIDE DEF bits
    <3> QED
      BY <1>6, <1>8, <2>1, <2>3, <2>4, <2>5, <3>1, StoredIs
  <2> QED
    BY <1>8, <2>6, ShapeOn
<1>11. good
  BY <1>9, <1>10
<1> QED
  BY <1>11 DEF w, e, line

\* The block does what its title asks for.
LEMMA BlockExecuted ==
  ASSUME G!TrueTitles, NEW t \in AllTitles, NEW b, opaque[b] \in Opaque, Settled(t, opaque[b], Len(t)),
         NEW v, VarsOK(v), Listed(t, opaque[b], v, Len(t)), HitsAgree(ListOf(t)), NEW d, Agree(v, d)
  PROVE  LET w == G!thExecuteaGethitBlock(v, b)
         IN VarsOK(w) /\ SameShape(v, w) /\ Agree(w, G!AskedBy(d, t))
<1> DEFINE o == opaque[b]
           list == o.hlist
           L == Len(list)
           N == Len(t)
           Does(h) == h = [n \in 0 .. L |-> IF n = 0 THEN v ELSE G!ExecuteGethit(h[n - 1], o, list[n])]
           Asks(h) == h = [n \in 0 .. N |-> IF n = 0 THEN d ELSE G!Asked(h[n - 1], t, t[n])]
           does == CHOOSE h : Does(h)
           asks == CHOOSE h : Asks(h)
<1>1. N \in Nat /\ DOMAIN t = 1 .. N /\ o \in Opaque /\ L \in Nat
  BY TitleIs DEF Opaque
<1>2. Does(does)
  <2>1. PICK h : Loop(h, L, v, "execute", o)
    BY <1>1, LoopIs
  <2>2. Does(h)
    BY <2>1 DEF Loop, Turn
  <2> HIDE DEF Does
  <2> QED
    BY <2>2
<1>3. Asks(asks)
  <2>1. PICK h : Loop(h, N, d, "ask", t)
    BY <1>1, LoopIs
  <2>2. Asks(h)
    BY <2>1 DEF Loop, Turn
  <2> HIDE DEF Asks
  <2> QED
    BY <2>2
<1>4. G!thExecuteaGethitBlock(v, b) = does[L] /\ G!AskedBy(d, t) = asks[N]
  BY DEF G!thExecuteaGethitBlock, G!AskedBy
<1>5. PICK at : ListedAt(t, o, v, N, at)
  BY DEF Listed
<1>6. /\ at \in [0 .. N -> Nat] /\ at[0] = 0 /\ at[N] = L
      /\ \A i \in 1 .. N : IF G!WellFormed(t, t[i])
                           THEN at[i] = at[i - 1] + 1 /\ at[i] <= L /\ LineOf(t, list[at[i]], t[i], v)
                           ELSE at[i] = at[i - 1]
  BY <1>5 DEF ListedAt
<1> HIDE DEF does, asks
<1>7. does[0] = v /\ \A n \in 1 .. L : does[n] = G!ExecuteGethit(does[n - 1], o, list[n])
  BY SMTT(30), <1>1, <1>2
<1>8. asks[0] = d /\ \A n \in 1 .. N : asks[n] = G!Asked(asks[n - 1], t, t[n])
  BY <1>1, <1>3
<1> HIDE DEF Does, Asks, list, L
<1> DEFINE Z == {i \in 0 .. N : VarsOK(does[at[i]]) /\ SameShape(v, does[at[i]]) /\ Agree(does[at[i]], asks[i])}
<1>9. 0 \in Z
  BY <1>1, <1>6, <1>7, <1>8, ShapeSame
<1>10. \A i \in 0 .. N - 1 : i \in Z => i + 1 \in Z
  <2> SUFFICES ASSUME NEW i \in 0 .. N - 1, VarsOK(does[at[i]]), SameShape(v, does[at[i]]), Agree(does[at[i]], asks[i])
               PROVE  i + 1 \in Z
    OBVIOUS
  <2>1. i + 1 \in 1 .. N /\ i + 1 \in DOMAIN t /\ (i + 1) - 1 = i /\ i + 1 \in 0 .. N /\ i \in 0 .. N
    BY <1>1
  <2>2. asks[i + 1] = G!Asked(asks[i], t, t[i + 1])
    BY <1>8, <2>1
  <2>3. CASE G!WellFormed(t, t[i + 1])
    <3>1. at[i + 1] = at[i] + 1 /\ at[i + 1] <= L /\ LineOf(t, list[at[i + 1]], t[i + 1], v) /\ at[i] \in Nat
      BY <1>6, <2>1, <2>3
    <3>2. at[i + 1] \in 1 .. L /\ at[i + 1] - 1 = at[i]
      BY <1>1, <3>1 DEF L
    <3>3. does[at[i + 1]] = G!ExecuteGethit(does[at[i]], o, list[at[i + 1]])
      BY <1>7, <3>2
    <3>4. LineOf(t, list[at[i + 1]], t[i + 1], does[at[i]])
      BY <3>1, LineOfShape
    <3>5. /\ VarsOK(does[at[i + 1]]) /\ SameShape(does[at[i]], does[at[i + 1]])
          /\ Agree(does[at[i + 1]], G!Asked(asks[i], t, t[i + 1]))
      BY <1>1, <2>1, <2>3, <3>3, <3>4, LineExecuted
    <3>6. SameShape(v, does[at[i + 1]])
      BY <3>5, ShapeOn
    <3> QED
      BY <2>1, <2>2, <3>5, <3>6
  <2>4. CASE ~G!WellFormed(t, t[i + 1])
    <3>1. at[i + 1] = at[i]
      BY <1>6, <2>1, <2>4
    <3>2. asks[i + 1] = asks[i]
      BY <2>2, <2>4 DEF G!Asked
    <3> QED
      BY <2>1, <3>1, <3>2
  <2> QED
    BY <2>3, <2>4
<1>11. N \in Z
  <2>1. \A i \in 0 .. N : i \in Z
    <3> HIDE DEF Z, N
    <3> QED
      BY <1>1, <1>9, <1>10, UpTo
  <2> QED
    BY <1>1, <2>1
<1> QED
  BY <1>4, <1>6, <1>11

-----------------------------------------------------------------------------
(* The group of blocks. *)

\* The block b has been booked with its title t.
BookedAs(t, o, v) == o \in Opaque /\ Settled(t, o, Len(t)) /\ Listed(t, o, v, Len(t))

GroupInv ==
  /\ phase \in {"setup", "ready", "event"} /\ order \in Seq(Blocks)
  /\ title = [b \in Blocks |-> title[b]] /\ opaque = [b \in Blocks |-> opaque[b]]
  /\ VarsOK(var) /\ Agree(var, due)
  /\ \A k \in 1 .. Len(order) :
       /\ title[order[k]] \in Titles[order[k]]
       /\ order[k] \in booked => BookedAs(title[order[k]], opaque[order[k]], var)
       /\ phase # "setup" => order[k] \in booked

LEMMA GroupInit == G!Init => GroupInv
<1> SUFFICES ASSUME G!Init PROVE GroupInv
  OBVIOUS
<1>1. /\ phase = "setup" /\ order = <<>> /\ title = [b \in Blocks |-> <<>>] /\ opaque = [b \in Blocks |-> <<>>]
      /\ var = [x \in {} |-> 0] /\ due = [x \in {} |-> 0]
  BY DEF G!Init
<1>2. DOMAIN var = {} /\ DOMAIN due = {}
  BY <1>1
<1>3. VarsOK(var)
  <2>1. var \in [DOMAIN var -> Variable]
    BY <1>1, <1>2
  <2> QED
    BY <1>2, <2>1 DEF VarsOK
<1>4. Agree(var, due)
  <2>1. due = [x \in DOMAIN due |-> due[x]]
    BY <1>1
  <2> QED
    BY <1>2, <2>1 DEF Agree
<1>5. order \in Seq(Blocks) /\ Len(order) = 0
  BY <1>1
<1>6. title = [b \in Blocks |-> title[b]] /\ opaque = [b \in Blocks |-> opaque[b]]
  BY <1>1
<1> QED
  BY <1>1, <1>3, <1>4, <1>5, <1>6 DEF GroupInv

LEMMA AgreeOn ==
  ASSUME NEW v, NEW w, VarsOK(v), VarsOK(w), Grown(v, w), NEW d, Agree(v, d)
  PROVE  Agree(w, d)
<1>1. ASSUME NEW x \in DOMAIN d
      PROVE  \E id : Resolved(w, id, x) /\ w[id].elements[x.index + 1] = G!Convert(w[id].type, d[x])
  <2>1. PICK id : Resolved(v, id, x) /\ v[id].elements[x.index + 1] = G!Convert(v[id].type, d[x])
    BY DEF Agree
  <2>2. Resolved(w, id, x) /\ w[id].type = v[id].type /\ w[id].elements[x.index + 1] = v[id].elements[x.index + 1]
    BY <2>1, ResolvedOn
  <2> QED
    BY <2>1, <2>2
<1> QED
  BY <1>1 DEF Agree

LEMMA LoadKeepsGroup ==
  ASSUME GroupInv, NEW b \in Blocks, G!Load(b)
  PROVE  GroupInv'
<1>1. PICK t \in Titles[b] : title' = [title EXCEPT ![b] = t]
  BY DEF G!Load
<1>2. /\ phase' = "setup" /\ booked' = booked \ {b} /\ opaque' = opaque /\ var' = var /\ due' = due
      /\ order' = IF b \in G!ToSet(order) THEN order ELSE Append(order, b)
  BY DEF G!Load
<1>3. /\ order \in Seq(Blocks) /\ title = [c \in Blocks |-> title[c]] /\ opaque = [c \in Blocks |-> opaque[c]]
      /\ VarsOK(var) /\ Agree(var, due)
      /\ \A k \in 1 .. Len(order) :
           /\ title[order[k]] \in Titles[order[k]]
           /\ order[k] \in booked => BookedAs(title[order[k]], opaque[order[k]], var)
  BY DEF GroupInv
<1>4. /\ order' \in Seq(Blocks)
      /\ \A k \in 1 .. Len(order') : order'[k] = b \/ (k \in 1 .. Len(order) /\ order'[k] = order[k])
  <2>1. CASE b \in G!ToSet(order)
    BY <1>2, <1>3, <2>1
  <2>2. CASE b \notin G!ToSet(order)
    <3>1. order' = Append(order, b)
      BY <1>2, <2>2
    <3>2. /\ Len(order') = Len(order) + 1 /\ order'[Len(order) + 1] = b /\ Len(order) \in Nat /\ order' \in Seq(Blocks)
          /\ \A k \in 1 .. Len(order) : order'[k] = order[k]
      BY <1>3, <3>1
    <3> QED
      BY <3>2
  <2> QED
    BY <2>1, <2>2
<1>5. title' = [c \in Blocks |-> title'[c]] /\ title'[b] = t /\ \A c \in Blocks : c # b => title'[c] = title[c]
  BY <1>1, <1>3
<1>6. ASSUME NEW k \in 1 .. Len(order')
      PROVE  /\ title'[order'[k]] \in Titles[order'[k]]
             /\ order'[k] \in booked' => BookedAs(title'[order'[k]], opaque'[order'[k]], var')
             /\ phase' # "setup" => order'[k] \in booked'
  <2>1. CASE order'[k] = b
    BY <1>2, <1>5, <2>1
  <2>2. CASE order'[k] # b
    <3>1. k \in 1 .. Len(order) /\ order'[k] = order[k]
      BY <1>4, <2>2
    <3>2. order[k] \in Blocks
      BY <1>3, <3>1
    <3>3. title'[order[k]] = title[order[k]]
      BY <1>5, <2>2, <3>1, <3>2
    <3> QED
      BY <1>2, <1>3, <3>1, <3>3
  <2> QED
    BY <2>1, <2>2
<1>7. opaque' = [c \in Blocks |-> opaque'[c]] /\ VarsOK(var') /\ Agree(var', due')
  BY <1>2, <1>3
<1> QED
  BY <1>2, <1>4, <1>5, <1>6, <1>7 DEF GroupInv

LEMMA BookKeepsGroup ==
  ASSUME G!TrueTitles, GroupInv, G!Book
  PROVE  GroupInv'
<1>1. PICK i \in DOMAIN order :
        /\ order[i] \notin booked /\ G!thBookGethits(order[i]) /\ booked' = booked \cup {order[i]}
        /\ phase' = IF G!Crashes(title[order[i]]) THEN "crashed" ELSE "setup"
  BY DEF G!Book
<1>2. phase = "setup" /\ order' = order /\ title' = title /\ due' = due
  BY DEF G!Book
<1>3. /\ order \in Seq(Blocks) /\ title = [c \in Blocks |-> title[c]] /\ opaque = [c \in Blocks |-> opaque[c]]
      /\ VarsOK(var) /\ Agree(var, due)
      /\ \A k \in 1 .. Len(order) :
           /\ title[order[k]] \in Titles[order[k]]
           /\ order[k] \in booked => BookedAs(title[order[k]], opaque[order[k]], var)
  BY DEF GroupInv
<1>4. PICK b \in Blocks : b = order[i]
  BY <1>3
<1>5. PICK t \in AllTitles : t = title[b]
  <2>1. i \in 1 .. Len(order)
    BY <1>3
  <2>2. title[b] \in Titles[b]
    BY <1>3, <1>4, <2>1
  <2> QED
    BY <2>2 DEF AllTitles
<1>6. PICK acc : /\ BookedTo(t, var, acc, Len(t))
                 /\ opaque' = [opaque EXCEPT ![b] = acc.opq] /\ var' = acc.var
  <2>1. G!thBookGethits(b)
    BY <1>1, <1>4
  <2> DEFINE After(junk) ==
               CHOOSE h : h = [n \in 0 .. Len(title[b]) |-> IF n = 0 THEN [opq |-> G!NewOpaque(title[b]), var |-> var]
                                                            ELSE G!BookLine(h[n - 1], title[b], n, junk)]
             Books(junk) == /\ opaque' = [opaque EXCEPT ![b] = After(junk)[Len(title[b])].opq]
                            /\ var' = After(junk)[Len(title[b])].var
  <2>5. \E junk \in Junk : Books(junk)
    BY <2>1, Zenon DEF G!thBookGethits
  <2>2. PICK junk \in Junk : Books(junk)
    <3> HIDE DEF Books
    <3> QED
      BY <2>5
  <2>3. junk \in Int
    BY EventPathAssumption
  <2>4. BookedTo(title[b], var, After(junk)[Len(title[b])], Len(title[b]))
    BY SMTT(30), <1>3, <1>5, <2>3, BlockBooked
  <2> HIDE DEF After
  <2> QED
    BY <1>5, <2>2, <2>4
<1>7. /\ acc.opq \in Opaque /\ VarsOK(acc.var) /\ Grown(var, acc.var) /\ Settled(t, acc.opq, Len(t))
      /\ Listed(t, acc.opq, acc.var, Len(t))
  BY <1>6 DEF BookedTo, Accumulated
<1>8. opaque' = [c \in Blocks |-> opaque'[c]] /\ opaque'[b] = acc.opq /\ \A c \in Blocks : c # b => opaque'[c] = opaque[c]
  BY <1>3, <1>6
<1>9. VarsOK(var') /\ Agree(var', due')
  <2>1. Agree(acc.var, due)
    BY <1>3, <1>7, AgreeOn
  <2> QED
    BY <1>2, <1>6, <1>7, <2>1
<1>10. ASSUME NEW k \in 1 .. Len(order)
       PROVE  order[k] \in booked' => BookedAs(title[order[k]], opaque'[order[k]], var')
  <2>1. CASE order[k] = b
    BY <1>5, <1>6, <1>7, <1>8, <2>1 DEF BookedAs
  <2>2. CASE order[k] # b
    <3> SUFFICES ASSUME order[k] \in booked PROVE BookedAs(title[order[k]], opaque'[order[k]], var')
      BY <1>1, <1>4, <2>2
    <3>1. order[k] \in Blocks /\ opaque'[order[k]] = opaque[order[k]]
      BY <1>3, <1>8, <2>2
    <3>2. BookedAs(title[order[k]], opaque[order[k]], var)
      BY <1>3
    <3>3. Len(title[order[k]]) \in Nat
      <4>1. title[order[k]] \in AllTitles
        BY <1>3, <3>1 DEF AllTitles
      <4> QED
        BY <4>1, TitleIs
    <3>4. Listed(title[order[k]], opaque[order[k]], acc.var, Len(title[order[k]]))
      BY <1>3, <1>7, <3>2, <3>3, ListedOn DEF BookedAs
    <3> QED
      BY <1>6, <3>1, <3>2, <3>4 DEF BookedAs
  <2> QED
    BY <2>1, <2>2
<1>11. phase' = "setup"
  BY <1>1, <1>4, <1>5, PreambleFirst
<1> QED
  BY <1>2, <1>3, <1>8, <1>9, <1>10, <1>11 DEF GroupInv

LEMMA BookedKeepsGroup ==
  ASSUME GroupInv, G!Booked \/ G!NewEvent
  PROVE  GroupInv'
<1>1. /\ phase' \in {"ready", "event"} /\ order' = order /\ title' = title /\ opaque' = opaque /\ var' = var /\ due' = due
      /\ booked' = booked
  BY DEF G!Booked, G!NewEvent
<1>2. \A k \in 1 .. Len(order) : order[k] \in booked
  <2>1. ASSUME G!Booked PROVE \A k \in 1 .. Len(order) : order[k] \in booked
    <3>1. \A k \in DOMAIN order : order[k] \in booked
      BY <2>1 DEF G!Booked, G!ToSet
    <3>2. DOMAIN order = 1 .. Len(order)
      BY DEF GroupInv
    <3> QED
      BY <3>1, <3>2
  <2>2. ASSUME G!NewEvent PROVE \A k \in 1 .. Len(order) : order[k] \in booked
    BY <2>2 DEF G!NewEvent, GroupInv
  <2> QED
    BY <2>1, <2>2
<1> QED
  BY <1>1, <1>2 DEF GroupInv

LEMMA ExecuteKeepsGroup ==
  ASSUME G!TrueTitles, GroupInv, \A n \in DOMAIN Lists : HitsAgree(n), G!Execute
  PROVE  GroupInv'
<1> DEFINE L == Len(order)
           Does(h) == h = [n \in 0 .. L |-> IF n = 0 THEN var ELSE G!thExecuteaGethitBlock(h[n - 1], order[n])]
           Asks(h) == h = [n \in 0 .. L |-> IF n = 0 THEN due ELSE G!AskedBy(h[n - 1], title[order[n]])]
           does == CHOOSE h : Does(h)
           asks == CHOOSE h : Asks(h)
<1>1. L \in Nat /\ order \in Seq(Blocks)
  BY DEF GroupInv
<1>2. Does(does)
  <2>1. PICK h : Loop(h, L, var, "blocks", 0)
    BY <1>1, LoopIs
  <2>2. Does(h)
    BY <2>1 DEF Loop, Turn
  <2> HIDE DEF Does
  <2> QED
    BY <2>2
<1>3. Asks(asks)
  <2>1. PICK h : Loop(h, L, due, "titles", 0)
    BY <1>1, LoopIs
  <2>2. Asks(h)
    BY <2>1 DEF Loop, Turn
  <2> HIDE DEF Asks
  <2> QED
    BY <2>2
<1>4. /\ var' = does[L] /\ due' = asks[L] /\ phase = "event" /\ phase' = "ready"
      /\ order' = order /\ title' = title /\ booked' = booked /\ opaque' = opaque
  BY DEF G!Execute
<1> HIDE DEF does, asks
<1>5. does[0] = var /\ \A n \in 1 .. L : does[n] = G!thExecuteaGethitBlock(does[n - 1], order[n])
  BY <1>1, <1>2
<1>6. asks[0] = due /\ \A n \in 1 .. L : asks[n] = G!AskedBy(asks[n - 1], title[order[n]])
  BY <1>1, <1>3
<1> HIDE DEF Does, Asks
<1>7. /\ VarsOK(var) /\ Agree(var, due)
      /\ \A k \in 1 .. L : /\ title[order[k]] \in Titles[order[k]] /\ order[k] \in booked
                           /\ BookedAs(title[order[k]], opaque[order[k]], var)
  BY <1>4 DEF GroupInv
<1> DEFINE Z == {i \in 0 .. L : VarsOK(does[i]) /\ SameShape(var, does[i]) /\ Agree(does[i], asks[i])}
<1>8. 0 \in Z
  BY <1>1, <1>5, <1>6, <1>7, ShapeSame
<1>9. \A i \in 0 .. L - 1 : i \in Z => i + 1 \in Z
  <2> SUFFICES ASSUME NEW i \in 0 .. L - 1, VarsOK(does[i]), SameShape(var, does[i]), Agree(does[i], asks[i])
               PROVE  i + 1 \in Z
    OBVIOUS
  <2>1. i + 1 \in 1 .. L /\ (i + 1) - 1 = i /\ i + 1 \in 0 .. L
    BY <1>1
  <2> DEFINE b == order[i + 1]
             t == title[b]
  <2>2. b \in Blocks
    BY <1>1, <2>1
  <2>3. t \in Titles[b] /\ BookedAs(t, opaque[b], var)
    BY <1>7, <2>1
  <2>4. t \in AllTitles
    BY <2>2, <2>3 DEF AllTitles
  <2>5. does[i + 1] = G!thExecuteaGethitBlock(does[i], b) /\ asks[i + 1] = G!AskedBy(asks[i], t)
    BY <1>5, <1>6, <2>1
  <2> HIDE DEF t, b
  <2>6. opaque[b] \in Opaque /\ Settled(t, opaque[b], Len(t)) /\ Listed(t, opaque[b], does[i], Len(t))
    BY <2>3, ListedShape DEF BookedAs
  <2>7. HitsAgree(ListOf(t))
    BY <2>4, TrueIs
  <2>8. VarsOK(does[i + 1]) /\ SameShape(does[i], does[i + 1]) /\ Agree(does[i + 1], asks[i + 1])
    BY <2>4, <2>5, <2>6, <2>7, BlockExecuted
  <2>9. SameShape(var, does[i + 1])
    BY <2>8, ShapeOn
  <2> QED
    BY <2>1, <2>8, <2>9
<1>10. L \in Z
  <2>1. \A i \in 0 .. L : i \in Z
    <3> HIDE DEF Z, L
    <3> QED
      BY <1>1, <1>8, <1>9, UpTo
  <2> QED
    BY <1>1, <2>1
<1>11. VarsOK(var') /\ Agree(var', due') /\ SameShape(var, var')
  BY <1>4, <1>10
<1>12. \A k \in 1 .. L : BookedAs(title[order[k]], opaque[order[k]], var')
  BY <1>7, <1>11, ListedShape DEF BookedAs
<1> QED
  BY <1>1, <1>4, <1>7, <1>11, <1>12 DEF GroupInv

-----------------------------------------------------------------------------
(* The hits of the event. *)

\* Words are finitely many.
LEMMA PlacesFinite ==
  ASSUME NEW e \in Seq(Banks)
  PROVE  IsFiniteSet(Places(e))
<1> DEFINE B == {b \in DOMAIN e : ~NoHits(e[b].roc)}
           F == [b \in B |-> {b} \X DOMAIN e[b].words]
           T == {F[b] : b \in B}
<1>1. IsFiniteSet(B)
  <2>1. IsFiniteSet(DOMAIN e)
    <3>1. DOMAIN e = 1 .. Len(e) /\ Len(e) \in Nat
      OBVIOUS
    <3> QED
      BY <3>1, FS_Interval
  <2>2. B \in SUBSET (DOMAIN e)
    OBVIOUS
  <2> HIDE DEF B
  <2> QED
    BY <2>1, <2>2, FS_Subset
<1>2. IsFiniteSet(T)
  <2>1. F \in [B -> T] /\ \A y \in T : \E b \in B : F[b] = y
    OBVIOUS
  <2> HIDE DEF F, T, B
  <2>2. F \in Surjection(B, T)
    BY <2>1 DEF Surjection
  <2> QED
    BY <1>1, <2>2, FS_Surjection
<1>3. \A y \in T : IsFiniteSet(y)
  <2> SUFFICES ASSUME NEW b \in B PROVE IsFiniteSet(F[b])
    OBVIOUS
  <2>1. PICK ws : ws = e[b].words
    OBVIOUS
  <2>2. ws \in Seq(Word)
    <3>1. e[b] \in Banks
      OBVIOUS
    <3> QED
      BY <2>1, <3>1 DEF Banks
  <2>3. DOMAIN ws = 1 .. Len(ws) /\ Len(ws) \in Nat
    BY <2>2
  <2>4. IsFiniteSet(DOMAIN ws)
    BY <2>3, FS_Interval
  <2>5. IsFiniteSet({b})
    BY FS_Singleton
  <2>6. F[b] = {b} \X DOMAIN ws
    BY <2>1
  <2> QED
    BY <2>4, <2>5, <2>6, FS_Product
<1>4. Places(e) = UNION T
  <2>1. T = {{b} \X DOMAIN e[b].words : b \in B}
    OBVIOUS
  <2> QED
    BY <2>1, Zenon DEF Places
<1> HIDE DEF T
<1> QED
  BY <1>2, <1>3, <1>4, FS_UNION

\* The wire of a word, or its counter
LEMMA WireOfIs ==
  ASSUME TrueMap, WalkInv, \A e \in Events : TrueEvent(e), NEW d, d # UNINST_ID, NEW p \in Said(event, d)
  PROVE  /\ WireOf(p).plane \in Int /\ WireOf(p).counter \in Int /\ p[1] \in Int /\ p[2] \in Int
         /\ \A hit : Of(WordAt(event, p), hit) <=> SameCounter(WireOf(p), hit)
<1>1. PICK c : IsCounter(d, WordAt(event, p), c)
  BY SaidCounter
<1>2. Of(WordAt(event, p), c)
  BY <1>1 DEF IsCounter, SameCounter
<1>3. WireOf(p) \in Wires(WordAt(event, p))
  BY <1>2 DEF Of, WireOf
<1>4. Of(WordAt(event, p), WireOf(p))
  BY <1>3 DEF Of, SameCounter
<1>5. SameCounter(c, WireOf(p))
  BY <1>1, <1>4 DEF IsCounter
<1>6. p[1] \in Int /\ p[2] \in Int
  <2>1. event \in Seq(Banks)
    BY EventIs
  <2>2. PICK b, k : b \in DOMAIN event /\ k \in DOMAIN event[b].words /\ p = <<b, k>>
    BY <2>1, SaidIs
  <2> QED
    BY <2>1, <2>2, PlacesAre
<1> QED
  BY <1>1, <1>5, <1>6 DEF IsCounter, SameCounter

\* The order of four numbers, and of two
LEMMA QuadComes ==
  ASSUME NEW p \in Int \X Int \X Int \X Int, NEW q \in Int \X Int \X Int \X Int
  PROVE  G!Comes(p, q) <=>
           \/ p[1] < q[1]
           \/ p[1] = q[1] /\ p[2] < q[2]
           \/ p[1] = q[1] /\ p[2] = q[2] /\ p[3] < q[3]
           \/ p[1] = q[1] /\ p[2] = q[2] /\ p[3] = q[3] /\ p[4] < q[4]
<1>1. DOMAIN p \cap DOMAIN q = 1 .. 4
  OBVIOUS
<1>2. \A k \in 1 .. 4 : k = 1 \/ k = 2 \/ k = 3 \/ k = 4
  OBVIOUS
<1>3. /\ \A j \in 1 .. (1 - 1) : FALSE
      /\ \A j \in 1 .. (2 - 1) : j = 1
      /\ \A j \in 1 .. (3 - 1) : j = 1 \/ j = 2
      /\ \A j \in 1 .. (4 - 1) : j = 1 \/ j = 2 \/ j = 3
  OBVIOUS
<1>4. 1 \in 1 .. (2 - 1) /\ {1, 2} \subseteq 1 .. (3 - 1) /\ {1, 2, 3} \subseteq 1 .. (4 - 1) /\ {1, 2, 3, 4} \subseteq 1 .. 4
  OBVIOUS
<1>5. G!Comes(p, q) <=> \E k \in 1 .. 4 : p[k] < q[k] /\ \A j \in 1 .. (k - 1) : p[j] = q[j]
  BY <1>1 DEF G!Comes
<1>6. ASSUME G!Comes(p, q)
      PROVE  \/ p[1] < q[1]
             \/ p[1] = q[1] /\ p[2] < q[2]
             \/ p[1] = q[1] /\ p[2] = q[2] /\ p[3] < q[3]
             \/ p[1] = q[1] /\ p[2] = q[2] /\ p[3] = q[3] /\ p[4] < q[4]
  <2>1. PICK k \in 1 .. 4 : p[k] < q[k] /\ \A j \in 1 .. (k - 1) : p[j] = q[j]
    BY <1>5, <1>6
  <2>2. CASE k = 1
    BY <2>1, <2>2
  <2>3. CASE k = 2
    BY <1>4, <2>1, <2>3
  <2>4. CASE k = 3
    BY <1>4, <2>1, <2>4
  <2>5. CASE k = 4
    BY <1>4, <2>1, <2>5
  <2> QED
    BY <1>2, <2>1, <2>2, <2>3, <2>4, <2>5
<1>7. p[1] < q[1] => G!Comes(p, q)
  BY <1>3, <1>4, <1>5
<1>8. p[1] = q[1] /\ p[2] < q[2] => G!Comes(p, q)
  BY <1>3, <1>4, <1>5
<1>9. p[1] = q[1] /\ p[2] = q[2] /\ p[3] < q[3] => G!Comes(p, q)
  BY <1>3, <1>4, <1>5
<1>10. p[1] = q[1] /\ p[2] = q[2] /\ p[3] = q[3] /\ p[4] < q[4] => G!Comes(p, q)
  BY <1>3, <1>4, <1>5
<1> QED
  BY <1>6, <1>7, <1>8, <1>9, <1>10

LEMMA PairComes ==
  ASSUME NEW p \in Int \X Int, NEW q \in Int \X Int
  PROVE  G!Comes(p, q) <=> p[1] < q[1] \/ (p[1] = q[1] /\ p[2] < q[2])
<1>1. DOMAIN p \cap DOMAIN q = 1 .. 2
  OBVIOUS
<1>2. \A k \in 1 .. 2 : k = 1 \/ k = 2
  OBVIOUS
<1>3. (\A j \in 1 .. (1 - 1) : FALSE) /\ \A j \in 1 .. (2 - 1) : j = 1
  OBVIOUS
<1>4. 1 \in 1 .. (2 - 1) /\ {1, 2} \subseteq 1 .. 2
  OBVIOUS
<1>5. G!Comes(p, q) <=> \E k \in 1 .. 2 : p[k] < q[k] /\ \A j \in 1 .. (k - 1) : p[j] = q[j]
  BY <1>1 DEF G!Comes
<1>6. G!Comes(p, q) => p[1] < q[1] \/ (p[1] = q[1] /\ p[2] < q[2])
  <2> SUFFICES ASSUME G!Comes(p, q) PROVE p[1] < q[1] \/ (p[1] = q[1] /\ p[2] < q[2])
    OBVIOUS
  <2>1. PICK k \in 1 .. 2 : p[k] < q[k] /\ \A j \in 1 .. (k - 1) : p[j] = q[j]
    BY <1>5
  <2>2. CASE k = 1
    BY <2>1, <2>2
  <2>3. CASE k = 2
    BY <1>4, <2>1, <2>3
  <2> QED
    BY <1>2, <2>1, <2>2, <2>3
<1>7. p[1] < q[1] => G!Comes(p, q)
  BY <1>3, <1>4, <1>5
<1>8. p[1] = q[1] /\ p[2] < q[2] => G!Comes(p, q)
  BY <1>3, <1>4, <1>5
<1> QED
  BY <1>6, <1>7, <1>8

\* What is kept of too many words
Kept == {p \in Said(event, WC) : Cardinality({q \in Said(event, WC) : Earlier(q, p)}) < MaxHits[WC]}

LEMMA KeptIs ==
  ASSUME IInv, EveryWordStored(WC)
  PROVE  \E word \in [1 .. hitcount[WC] -> Said(event, WC)] :
           /\ \A i \in 1 .. hitcount[WC] :
                /\ hits[WC][i].signal[0] = WordAt(event, word[i]).low /\ Of(WordAt(event, word[i]), hits[WC][i])
                /\ \A j \in 1 .. hitcount[WC] :
                     i < j /\ SameCounter(hits[WC][i], hits[WC][j]) => Earlier(word[i], word[j])
           /\ \A p : p \in Kept <=> \E i \in 1 .. hitcount[WC] : word[i] = p
<1> DEFINE said == Said(event, WC)
           n == hitcount[WC]
           before(p) == {q \in said : Earlier(q, p)}
<1>1. PICK word \in [1 .. n -> said] :
        /\ \A i \in 1 .. n :
             /\ hits[WC][i].signal[0] = WordAt(event, word[i]).low
             /\ WC # UNINST_ID => Of(WordAt(event, word[i]), hits[WC][i])
             /\ \A j \in 1 .. n :
                  /\ i # j => word[i] # word[j]
                  /\ i < j /\ SameCounter(hits[WC][i], hits[WC][j]) => Earlier(word[i], word[j])
        /\ \A p \in said \ {word[i] : i \in 1 .. n} : n = MaxHits[WC] /\ \A i \in 1 .. n : Earlier(word[i], p)
  BY DEF EveryWordStored
<1> DEFINE image == {word[i] : i \in 1 .. n}
<1>2. WC \in Detectors /\ WC # UNINST_ID /\ n \in Nat /\ MaxHits[WC] \in Nat /\ n <= MaxHits[WC]
  BY EventPathAssumption, DecoderAssumption DEF IInv, TypeInv, ListsInv, SortedInv, SortedUpTo
<1>3. event \in Seq(Banks)
  BY EventIs DEF IInv, TypeInv
<1>4. IsFiniteSet(said)
  <2>1. said \in SUBSET Places(event)
    BY DEF Said
  <2> HIDE DEF said
  <2> QED
    BY <1>3, <2>1, PlacesFinite, FS_Subset
<1>5. \A p \in said : p[1] \in Int /\ p[2] \in Int
  <2> SUFFICES ASSUME NEW p \in said PROVE p[1] \in Int /\ p[2] \in Int
    OBVIOUS
  <2>1. PICK b, k : b \in DOMAIN event /\ k \in DOMAIN event[b].words /\ p = <<b, k>>
    BY <1>3, SaidIs
  <2> QED
    BY <1>3, <2>1, PlacesAre
<1> HIDE DEF said
<1>6. IsFiniteSet(image) /\ Cardinality(image) = n /\ image \subseteq said
  <2>1. word \in Bijection(1 .. n, image)
    <3>1. word \in [1 .. n -> image] /\ \A y \in image : \E i \in 1 .. n : word[i] = y
      OBVIOUS
    <3>2. \A i, j \in 1 .. n : word[i] = word[j] => i = j
      BY <1>1
    <3> HIDE DEF image
    <3> QED
      BY <3>1, <3>2 DEF Bijection, Injection, Surjection, IsInjective
  <2>2. image \subseteq said
    OBVIOUS
  <2> HIDE DEF image, n
  <2>3. IsFiniteSet(1 .. n) /\ Cardinality(1 .. n) = n
    BY <1>2, FS_Interval
  <2>4. ExistsBijection(1 .. n, image)
    BY <2>1 DEF ExistsBijection
  <2> QED
    BY <2>2, <2>3, <2>4, FS_Bijection
<1>7. ASSUME NEW p \in said
      PROVE  before(p) \subseteq said /\ IsFiniteSet(before(p)) /\ Cardinality(before(p)) \in Nat
  <2>1. before(p) \in SUBSET said
    OBVIOUS
  <2> HIDE DEF before
  <2> QED
    BY <1>4, <2>1, FS_Subset, FS_CardinalityType
<1>8. ASSUME NEW i \in 1 .. n PROVE word[i] \in Kept
  <2> DEFINE p == word[i]
  <2>1. p \in said /\ p \in image
    BY <1>1
  <2>2. before(p) \subseteq image
    <3> SUFFICES ASSUME NEW q \in said, Earlier(q, p), q \notin image PROVE FALSE
      OBVIOUS
    <3>1. Earlier(p, q)
      BY <1>1
    <3> HIDE DEF p
    <3> QED
      BY <1>5, <2>1, <3>1 DEF Earlier
  <2>3. p \notin before(p)
    <3>1. ~Earlier(p, p)
      BY <1>5, <2>1 DEF Earlier
    <3> QED
      BY <3>1
  <2> HIDE DEF p, image, before
  <2>4. before(p) \in SUBSET image /\ before(p) # image
    BY <2>1, <2>2, <2>3
  <2>5. Cardinality(before(p)) <= Cardinality(image) /\ Cardinality(before(p)) # Cardinality(image)
    BY <1>6, <2>4, FS_Subset
  <2>6. Cardinality(before(p)) < MaxHits[WC]
    BY <1>2, <1>6, <1>7, <2>1, <2>5
  <2>7. p \in Kept
    BY <2>1, <2>6 DEF Kept, before, said
  <2> QED
    BY <2>7 DEF p
<1>9. ASSUME NEW p \in Kept PROVE p \in image
  <2> SUFFICES ASSUME p \notin image PROVE FALSE
    OBVIOUS
  <2>1. p \in said /\ Cardinality(before(p)) < MaxHits[WC]
    BY DEF Kept, said
  <2>2. n = MaxHits[WC] /\ \A i \in 1 .. n : Earlier(word[i], p)
    BY <1>1, <2>1
  <2>3. image \in SUBSET before(p)
    BY <2>2
  <2> HIDE DEF image, before
  <2>4. Cardinality(image) <= Cardinality(before(p))
    BY <1>7, <2>1, <2>3, FS_Subset
  <2> QED
    BY <1>2, <1>6, <1>7, <2>1, <2>2, <2>4
<1>10. \A p : p \in Kept <=> \E i \in 1 .. n : word[i] = p
  BY <1>8, <1>9
<1> QED
  BY <1>1, <1>2, <1>10 DEF said

\* The arrays of the wires hold them.
LEMMA WiresAgree ==
  ASSUME TrueMap, \A e \in Events : TrueEvent(e), IInv, EveryWordStored(WC)
  PROVE  HitsAgree("hdc_raw_tot_hits")
<1> DEFINE n == hitcount[WC]
           list == hits[WC]
           L == "hdc_raw_tot_hits"
<1>1. PICK word \in [1 .. n -> Said(event, WC)] :
        /\ \A i \in 1 .. n :
             /\ list[i].signal[0] = WordAt(event, word[i]).low /\ Of(WordAt(event, word[i]), list[i])
             /\ \A j \in 1 .. n : i < j /\ SameCounter(list[i], list[j]) => Earlier(word[i], word[j])
        /\ \A p : p \in Kept <=> \E i \in 1 .. n : word[i] = p
  BY KeptIs
<1>2. /\ WC \in Detectors /\ WC # UNINST_ID /\ SignalCount[WC] = 1 /\ n \in Nat /\ n <= MaxHits[WC] /\ MaxHits[WC] \in Nat
      /\ \A i \in 1 .. n : list[i] \in Hit
      /\ \A i, j \in 1 .. n : i < j => InOrder(WC, list[i], list[j])
  BY EventPathAssumption, DecoderAssumption DEF IInv, TypeInv, ListsInv, SortedInv, SortedUpTo
<1> DEFINE h == [i \in 0 .. n - 1 |-> WireHit(word[i + 1])]
           at(i) == <<list[i].plane, list[i].counter, word[i][1], word[i][2]>>
<1>3. ASSUME NEW i \in 1 .. n
      PROVE  /\ WireOf(word[i]).plane = list[i].plane /\ WireOf(word[i]).counter = list[i].counter
             /\ list[i].plane \in Int /\ list[i].counter \in Int /\ word[i][1] \in Int /\ word[i][2] \in Int
             /\ list[i].signal[0] \in Int
  <2>1. word[i] \in Said(event, WC) /\ Of(WordAt(event, word[i]), list[i]) /\ list[i] \in Hit
    BY <1>1, <1>2
  <2>2. /\ WireOf(word[i]).plane \in Int /\ WireOf(word[i]).counter \in Int /\ word[i][1] \in Int /\ word[i][2] \in Int
        /\ SameCounter(WireOf(word[i]), list[i])
    BY <1>2, <2>1, WireOfIs DEF IInv, TypeInv
  <2> QED
    BY SMTT(30), <2>1, <2>2 DEF SameCounter, Hit
<1>4. Lists[L] = {"hdc_raw_plane_num", "hdc_raw_wire_num", "hdc_raw_tdc"} /\ nhits[L] = n /\ given[L] = {WireHit(p) : p \in Kept}
  BY DEF Lists, nhits, given, WireHits, Kept
<1>5. ASSUME NEW i \in 0 .. n - 1
      PROVE  /\ i + 1 \in 1 .. n /\ h[i].at = at(i + 1)
             /\ h[i].value["hdc_raw_plane_num"] = 2 * list[i + 1].plane
             /\ h[i].value["hdc_raw_wire_num"] = 2 * list[i + 1].counter
             /\ h[i].value["hdc_raw_tdc"] = 2 * list[i + 1].signal[0]
  <2>1. i + 1 \in 1 .. n
    BY <1>2
  <2>2. h[i] = WireHit(word[i + 1])
    OBVIOUS
  <2> HIDE DEF h, list, n
  <2>3. h[i].at = at(i + 1)
    BY <1>3, <2>1, <2>2 DEF WireHit
  <2>4. /\ h[i].value["hdc_raw_plane_num"] = 2 * WireOf(word[i + 1]).plane
        /\ h[i].value["hdc_raw_wire_num"] = 2 * WireOf(word[i + 1]).counter
        /\ h[i].value["hdc_raw_tdc"] = 2 * WordAt(event, word[i + 1]).low
    BY <1>4, <2>2 DEF WireHit
  <2> QED
    BY <1>1, <1>3, <2>1, <2>3, <2>4
<1>6. ASSUME NEW i \in 0 .. n - 1
      PROVE  /\ array["hdc_raw_plane_num"][i] = 2 * list[i + 1].plane
             /\ array["hdc_raw_wire_num"][i] = 2 * list[i + 1].counter
             /\ array["hdc_raw_tdc"][i] = 2 * list[i + 1].signal[0]
  <2>1. i \in 0 .. MaxHits[WC] - 1
    BY <1>2
  <2>2. {"hdc_raw_plane_num", "hdc_raw_wire_num", "hdc_raw_tdc"} \subseteq DOMAIN ArrayType
    BY DEF ArrayType, Lists
  <2> QED
    BY <2>1, <2>2 DEF array, Raw
<1>7. \A i \in 0 .. n - 1 : \A a \in Lists[L] : array[a][i] = h[i].value[a] /\ array[a][i] \in Int
  <2> SUFFICES ASSUME NEW i \in 0 .. n - 1, NEW a \in Lists[L] PROVE array[a][i] = h[i].value[a] /\ array[a][i] \in Int
    OBVIOUS
  <2>1. 2 * list[i + 1].plane \in Int /\ 2 * list[i + 1].counter \in Int /\ 2 * list[i + 1].signal[0] \in Int
    <3>1. i + 1 \in 1 .. n
      BY <1>5
    <3>2. PICK x \in Int, y \in Int, z \in Int : x = list[i + 1].plane /\ y = list[i + 1].counter /\ z = list[i + 1].signal[0]
      BY <1>3, <3>1
    <3> HIDE DEF list, n
    <3>3. 2 * x \in Int /\ 2 * y \in Int /\ 2 * z \in Int
      OBVIOUS
    <3> QED
      BY <3>2, <3>3
  <2>2. a \in {"hdc_raw_plane_num", "hdc_raw_wire_num", "hdc_raw_tdc"}
    BY <1>4
  <2> HIDE DEF h
  <2> QED
    BY <1>5, <1>6, <2>1, <2>2
<1>8. h \in [0 .. n - 1 -> given[L]] /\ \A hit \in given[L] : \E i \in 0 .. n - 1 : h[i] = hit
  <2>1. ASSUME NEW i \in 0 .. n - 1 PROVE h[i] \in given[L]
    <3>1. word[i + 1] \in Kept
      BY <1>1, <1>5
    <3> QED
      BY <1>4, <3>1
  <2>2. ASSUME NEW hit \in given[L] PROVE \E i \in 0 .. n - 1 : h[i] = hit
    <3>1. PICK p \in Kept : hit = WireHit(p)
      BY <1>4
    <3>2. PICK i \in 1 .. n : word[i] = p
      BY <1>1
    <3>3. i - 1 \in 0 .. n - 1 /\ (i - 1) + 1 = i
      BY <1>2
    <3> QED
      BY <3>1, <3>2, <3>3
  <2> QED
    BY <2>1, <2>2
<1>9. ASSUME NEW i \in 1 .. n, NEW j \in 1 .. n
      PROVE  /\ i < j => G!Comes(at(i), at(j))
             /\ i <= j => ~G!Comes(at(j), at(i))
  <2>1. PICK p1 \in Int, p2 \in Int, p3 \in Int, p4 \in Int :
          p1 = list[i].plane /\ p2 = list[i].counter /\ p3 = word[i][1] /\ p4 = word[i][2]
    BY <1>3
  <2>2. PICK q1 \in Int, q2 \in Int, q3 \in Int, q4 \in Int :
          q1 = list[j].plane /\ q2 = list[j].counter /\ q3 = word[j][1] /\ q4 = word[j][2]
    BY SMTT(30), <1>3
  <2>3. i < j => \/ p1 < q1
                 \/ p1 = q1 /\ p2 < q2
                 \/ p1 = q1 /\ p2 = q2 /\ (p3 < q3 \/ (p3 = q3 /\ p4 < q4))
    <3>1. i < j => Before(list[i], list[j]) \/ (SameCounter(list[i], list[j]) /\ Earlier(word[i], word[j]))
      BY <1>1, <1>2 DEF InOrder
    <3> HIDE DEF list, n
    <3> QED
      BY <2>1, <2>2, <3>1 DEF Before, SameCounter, Earlier
  <2>4. /\ at(i) \in Int \X Int \X Int \X Int /\ at(j) \in Int \X Int \X Int \X Int
        /\ at(i)[1] = p1 /\ at(i)[2] = p2 /\ at(i)[3] = p3 /\ at(i)[4] = p4
        /\ at(j)[1] = q1 /\ at(j)[2] = q2 /\ at(j)[3] = q3 /\ at(j)[4] = q4
    BY <2>1, <2>2
  <2>5. i = j => p1 = q1 /\ p2 = q2 /\ p3 = q3 /\ p4 = q4
    BY <2>1, <2>2
  <2> HIDE DEF at, list, n
  <2>6. G!Comes(at(i), at(j)) <=> \/ p1 < q1
                                  \/ p1 = q1 /\ p2 < q2
                                  \/ p1 = q1 /\ p2 = q2 /\ p3 < q3
                                  \/ p1 = q1 /\ p2 = q2 /\ p3 = q3 /\ p4 < q4
    BY <2>4, QuadComes
  <2>7. G!Comes(at(j), at(i)) <=> \/ q1 < p1
                                  \/ q1 = p1 /\ q2 < p2
                                  \/ q1 = p1 /\ q2 = p2 /\ q3 < p3
                                  \/ q1 = p1 /\ q2 = p2 /\ q3 = p3 /\ q4 < p4
    BY <2>4, QuadComes
  <2>8. i < j => G!Comes(at(i), at(j)) /\ ~G!Comes(at(j), at(i))
    BY <2>3, <2>6, <2>7
  <2>9. i = j => ~G!Comes(at(j), at(i))
    BY <2>5, <2>7
  <2>10. i <= j => i < j \/ i = j
    BY <1>2 DEF n
  <2> QED
    BY <2>8, <2>9, <2>10
<1>10. \A i, j \in 0 .. n - 1 : /\ i < j => G!Comes(h[i].at, h[j].at)
                                /\ i <= j => ~G!Comes(h[j].at, h[i].at)
  <2> SUFFICES ASSUME NEW i \in 0 .. n - 1, NEW j \in 0 .. n - 1
               PROVE  /\ i < j => G!Comes(h[i].at, h[j].at)
                      /\ i <= j => ~G!Comes(h[j].at, h[i].at)
    OBVIOUS
  <2>1. h[i].at = at(i + 1) /\ h[j].at = at(j + 1) /\ i + 1 \in 1 .. n /\ j + 1 \in 1 .. n
    BY <1>5
  <2>2. (i < j <=> i + 1 < j + 1) /\ (i <= j <=> i + 1 <= j + 1)
    OBVIOUS
  <2> HIDE DEF h, at
  <2> QED
    BY <1>9, <2>1, <2>2
<1> HIDE DEF h, list
<1>11. nhits["hdc_raw_tot_hits"] = n /\ nhits["hdc_raw_tot_hits"] \in Nat
  BY <1>2, <1>4
<1> HIDE DEF n
<1>12. /\ h \in [0 .. nhits["hdc_raw_tot_hits"] - 1 -> given["hdc_raw_tot_hits"]]
       /\ \A hit \in given["hdc_raw_tot_hits"] : \E i \in 0 .. nhits["hdc_raw_tot_hits"] - 1 : h[i] = hit
  BY <1>8, <1>11
<1>13. \A i \in 0 .. nhits["hdc_raw_tot_hits"] - 1 : \A a \in Lists["hdc_raw_tot_hits"] :
         array[a][i] = h[i].value[a] /\ array[a][i] \in Int
  BY <1>7, <1>11
<1>14. \A i, j \in 0 .. nhits["hdc_raw_tot_hits"] - 1 :
         /\ i < j => G!Comes(h[i].at, h[j].at)
         /\ i <= j => ~G!Comes(h[j].at, h[i].at)
  BY <1>10, <1>11
<1> QED
  BY <1>11, <1>12, <1>13, <1>14 DEF HitsAgree

\* Counters that are the same have the same values.
LEMMA SignalSame ==
  ASSUME NEW x, NEW y, SameCounter(x, y), NEW s
  PROVE  Signal(x, s) = Signal(y, s)
<1> DEFINE gives(z) == {p \in Said(event, SCIN) : OfSignal(WordAt(event, p), z, s)}
<1>1. gives(x) = gives(y)
  BY DEF OfSignal, SameCounter
<1>2. \A z : Signal(z, s) = IF gives(z) = {} THEN -1
                            ELSE WordAt(event, CHOOSE p \in gives(z) : \A q \in gives(z) : ~Earlier(p, q)).low
  BY DEF Signal, LastValue
<1> HIDE DEF gives
<1> QED
  BY <1>1, <1>2

\* The hodoscope's own arrays
Scin == [tot_hits : Int, counter : [0 .. MaxHits[SCIN] - 1 -> Int], adc_pos : [0 .. MaxHits[SCIN] - 1 -> Int]]

\* They hold the good ones among the first n hits of the list: sel are their places.
Stripped(s, list, n, sel) ==
  /\ s.tot_hits \in 0 .. n /\ sel \in [0 .. s.tot_hits - 1 -> 1 .. n]
  /\ \A m \in 0 .. s.tot_hits - 1 :
       /\ IsGood(list[sel[m]])
       /\ s.counter[m] = 2 * list[sel[m]].counter /\ s.adc_pos[m] = 2 * list[sel[m]].signal[0] - Pedestal
       /\ \A k \in 0 .. s.tot_hits - 1 : m < k => sel[m] < sel[k]
  /\ \A i \in 1 .. n : IsGood(list[i]) => \E m \in 0 .. s.tot_hits - 1 : sel[m] = i

LEMMA StripNext ==
  ASSUME NEW list, NEW n \in Nat, n < MaxHits[SCIN], list[n + 1] \in Hit, NEW s \in Scin, NEW sel, Stripped(s, list, n, sel),
         NEW r, r = IF IsGood(list[n + 1]) THEN Strip(s, list[n + 1]) ELSE s
  PROVE  r \in Scin /\ \E sel2 : Stripped(r, list, n + 1, sel2)
<1>1. MaxHits[SCIN] \in Nat /\ Pedestal \in Int
  BY EventPathAssumption, DecoderAssumption
<1>2. PICK t : t = s.tot_hits
  OBVIOUS
<1>3. /\ t \in 0 .. n /\ t \in Nat /\ sel \in [0 .. t - 1 -> 1 .. n]
      /\ \A m \in 0 .. t - 1 :
           /\ IsGood(list[sel[m]])
           /\ s.counter[m] = 2 * list[sel[m]].counter /\ s.adc_pos[m] = 2 * list[sel[m]].signal[0] - Pedestal
           /\ \A k \in 0 .. t - 1 : m < k => sel[m] < sel[k]
      /\ \A i \in 1 .. n : IsGood(list[i]) => \E m \in 0 .. t - 1 : sel[m] = i
  BY <1>2 DEF Stripped
<1>4. CASE ~IsGood(list[n + 1])
  <2>1. r = s
    BY <1>4
  <2>2. sel \in [0 .. t - 1 -> 1 .. n + 1] /\ t \in 0 .. n + 1
    BY <1>3
  <2>3. \A i \in 1 .. n + 1 : i \in 1 .. n \/ i = n + 1
    OBVIOUS
  <2>4. Stripped(r, list, n + 1, sel)
    BY <1>2, <1>3, <1>4, <2>1, <2>2, <2>3 DEF Stripped
  <2> QED
    BY <2>1, <2>4
<1>5. CASE IsGood(list[n + 1])
  <2>1. PICK c \in Int, v \in Int : c = list[n + 1].counter /\ v = list[n + 1].signal[0]
    BY DEF Hit
  <2>2. PICK cs \in [0 .. MaxHits[SCIN] - 1 -> Int], as \in [0 .. MaxHits[SCIN] - 1 -> Int] : cs = s.counter /\ as = s.adc_pos
    BY DEF Scin
  <2>3. r = [tot_hits |-> t + 1, counter |-> [cs EXCEPT ![t] = 2 * c], adc_pos |-> [as EXCEPT ![t] = 2 * v - Pedestal]]
    BY <1>2, <1>5, <2>1, <2>2 DEF Strip
  <2>4. PICK c2 \in Int, v2 \in Int : c2 = 2 * c /\ v2 = 2 * v - Pedestal
    <3>1. 2 * c \in Int /\ 2 * v \in Int
      OBVIOUS
    <3>2. 2 * v - Pedestal \in Int
      BY <1>1, <3>1
    <3> QED
      BY <3>1, <3>2, Zenon
  <2>5. t \in 0 .. MaxHits[SCIN] - 1 /\ t + 1 \in Int
    BY <1>1, <1>3
  <2> DEFINE nc == [cs EXCEPT ![t] = c2]
             na == [as EXCEPT ![t] = v2]
  <2>6. /\ nc \in [0 .. MaxHits[SCIN] - 1 -> Int] /\ na \in [0 .. MaxHits[SCIN] - 1 -> Int]
        /\ nc[t] = c2 /\ na[t] = v2 /\ \A m \in 0 .. t - 1 : nc[m] = cs[m] /\ na[m] = as[m]
    <3>1. PICK top \in Int : top = MaxHits[SCIN] - 1
      BY <1>1
    <3>2. cs \in [0 .. top -> Int] /\ as \in [0 .. top -> Int] /\ t \in 0 .. top
      BY <2>5, <3>1
    <3>3. nc \in [0 .. top -> Int] /\ na \in [0 .. top -> Int] /\ nc[t] = c2 /\ na[t] = v2
      BY <3>2
    <3>4. \A m \in 0 .. t - 1 : m \in 0 .. top /\ m # t
      BY <3>2
    <3>5. \A m \in 0 .. t - 1 : nc[m] = cs[m] /\ na[m] = as[m]
      BY <3>2, <3>4
    <3> QED
      BY <3>1, <3>3, <3>5
  <2>7. r.tot_hits = t + 1 /\ r.counter = nc /\ r.adc_pos = na /\ r = [tot_hits |-> t + 1, counter |-> nc, adc_pos |-> na]
    <3>1. [cs EXCEPT ![t] = 2 * c] = nc /\ [as EXCEPT ![t] = 2 * v - Pedestal] = na
      BY <2>4, Zenon
    <3> HIDE DEF nc, na
    <3>2. r = [tot_hits |-> t + 1, counter |-> nc, adc_pos |-> na]
      BY <2>3, <3>1, Zenon
    <3> QED
      BY <3>2
  <2> HIDE DEF nc, na
  <2>8. r \in Scin
    BY <2>5, <2>6, <2>7 DEF Scin
  <2> DEFINE sel2 == [m \in 0 .. t |-> IF m = t THEN n + 1 ELSE sel[m]]
  <2>9. /\ sel2 \in [0 .. (t + 1) - 1 -> 1 .. n + 1] /\ sel2[t] = n + 1
        /\ \A m \in 0 .. t - 1 : sel2[m] = sel[m] /\ sel[m] \in 1 .. n
    BY <1>3
  <2> HIDE DEF sel2
  <2>10. \A m \in 0 .. (t + 1) - 1 : m = t \/ m \in 0 .. t - 1
    BY <1>3
  <2>11. ASSUME NEW m \in 0 .. (t + 1) - 1
         PROVE  /\ IsGood(list[sel2[m]])
                /\ nc[m] = 2 * list[sel2[m]].counter /\ na[m] = 2 * list[sel2[m]].signal[0] - Pedestal
                /\ \A k \in 0 .. (t + 1) - 1 : m < k => sel2[m] < sel2[k]
    <3>1. CASE m = t
      <4>1. \A k \in 0 .. (t + 1) - 1 : ~(m < k)
        BY <1>3, <3>1
      <4> QED
        BY <1>5, <2>1, <2>4, <2>6, <2>9, <3>1, <4>1
    <3>2. CASE m \in 0 .. t - 1
      <4>1. \A k \in 0 .. (t + 1) - 1 : m < k => sel2[m] < sel2[k]
        BY <1>3, <2>9, <2>10, <3>2
      <4> QED
        BY <1>3, <2>2, <2>6, <2>9, <3>2, <4>1
    <3> QED
      BY <2>10, <3>1, <3>2
  <2>12. \A i \in 1 .. n + 1 : IsGood(list[i]) => \E m \in 0 .. (t + 1) - 1 : sel2[m] = i
    <3> SUFFICES ASSUME NEW i \in 1 .. n + 1, IsGood(list[i]) PROVE \E m \in 0 .. (t + 1) - 1 : sel2[m] = i
      OBVIOUS
    <3>1. t \in 0 .. (t + 1) - 1 /\ \A m \in 0 .. t - 1 : m \in 0 .. (t + 1) - 1
      BY <1>3
    <3>2. CASE i = n + 1
      BY <2>9, <3>1, <3>2
    <3>3. CASE i # n + 1
      <4>1. i \in 1 .. n
        BY <3>3
      <4> QED
        BY <1>3, <2>9, <3>1, <4>1
    <3> QED
      BY <3>2, <3>3
  <2>13. t + 1 \in 0 .. n + 1
    BY <1>3
  <2>14. Stripped(r, list, n + 1, sel2)
    BY <2>7, <2>9, <2>11, <2>12, <2>13 DEF Stripped
  <2> QED
    BY <2>8, <2>14
<1> QED
  BY <1>4, <1>5

LEMMA StripIs ==
  ASSUME IInv, scin \in Scin, h_strip_scin
  PROVE  scin' \in Scin /\ \E sel : Stripped(scin', hits[SCIN], hitcount[SCIN], sel)
<1> DEFINE n == hitcount[SCIN]
           list == hits[SCIN]
           none == [scin EXCEPT !.tot_hits = 0]
           Strips(h) == h = [i \in 0 .. n |-> IF i = 0 THEN none
                                              ELSE IF IsGood(list[i]) THEN Strip(h[i - 1], list[i]) ELSE h[i - 1]]
           strips == CHOOSE h : Strips(h)
<1>1. n \in Nat /\ n <= MaxHits[SCIN] /\ MaxHits[SCIN] \in Nat /\ \A i \in 1 .. n : list[i] \in Hit
  BY EventPathAssumption, DecoderAssumption DEF IInv, TypeInv, ListsInv, SortedInv, SortedUpTo
<1>2. Strips(strips)
  <2>1. PICK h : Loop(h, n, none, "strip", 0)
    BY <1>1, LoopIs
  <2>2. Strips(h)
    BY <2>1 DEF Loop, Turn
  <2> HIDE DEF Strips
  <2> QED
    BY <2>2
<1>3. scin' = strips[n]
  BY DEF h_strip_scin
<1>4. none \in Scin /\ none.tot_hits = 0
  BY DEF Scin
<1> HIDE DEF strips, none, n, list
<1>5. /\ strips[0] = none
      /\ \A i \in 1 .. n : strips[i] = IF IsGood(list[i]) THEN Strip(strips[i - 1], list[i]) ELSE strips[i - 1]
  BY <1>1, <1>2
<1> HIDE DEF Strips
<1> DEFINE Z == {i \in 0 .. n : strips[i] \in Scin /\ \E sel : Stripped(strips[i], list, i, sel)}
<1>6. 0 \in Z
  <2> DEFINE empty == [m \in {} |-> 0]
  <2>1. 0 .. 0 - 1 = {} /\ 1 .. 0 = {} /\ 0 \in 0 .. 0
    OBVIOUS
  <2>2. empty \in [0 .. 0 - 1 -> 1 .. 0]
    BY <2>1
  <2> HIDE DEF empty
  <2>3. Stripped(none, list, 0, empty)
    BY <1>4, <2>1, <2>2 DEF Stripped
  <2> QED
    BY <1>1, <1>4, <1>5, <2>3
<1>7. \A i \in 0 .. n - 1 : i \in Z => i + 1 \in Z
  <2> SUFFICES ASSUME NEW i \in 0 .. n - 1, i \in Z PROVE i + 1 \in Z
    OBVIOUS
  <2>1. PICK sel : Stripped(strips[i], list, i, sel)
    OBVIOUS
  <2>2. i \in Nat /\ i + 1 \in 1 .. n /\ (i + 1) - 1 = i /\ i < MaxHits[SCIN] /\ i + 1 \in 0 .. n /\ strips[i] \in Scin
    BY SMTT(30), <1>1
  <2>3. list[i + 1] \in Hit
    BY <1>1, <2>2
  <2>4. strips[i + 1] = IF IsGood(list[i + 1]) THEN Strip(strips[i], list[i + 1]) ELSE strips[i]
    BY <1>5, <2>2
  <2> HIDE DEF Z
  <2>5. strips[i + 1] \in Scin /\ \E sel2 : Stripped(strips[i + 1], list, i + 1, sel2)
    BY <2>1, <2>2, <2>3, <2>4, StripNext
  <2> QED
    BY <2>2, <2>5 DEF Z
<1>8. n \in Z
  <2>1. \A i \in 0 .. n : i \in Z
    <3> HIDE DEF Z
    <3> QED
      BY <1>1, <1>6, <1>7, UpTo
  <2> QED
    BY <1>1, <2>1
<1> QED
  BY <1>3, <1>8 DEF n, list

\* The arrays of the hodoscope hold the hits that the words of the event give.
LEMMA CountersAgree ==
  ASSUME TrueMap, \A e \in Events : TrueEvent(e), IInv, EverySignalStored(SCIN), scin \in Scin,
         NEW sel, Stripped(scin, hits[SCIN], hitcount[SCIN], sel)
  PROVE  HitsAgree("hscin_tot_hits")
<1> DEFINE n == hitcount[SCIN]
           list == hits[SCIN]
           said == Said(event, SCIN)
           good(x) == {Signal(x, 2), Signal(x, 3)} \cap GoodTimes # {}
<1>1. /\ SCIN \in Detectors /\ SCIN # UNINST_ID /\ SignalCount[SCIN] # 1 /\ n \in Nat /\ n <= MaxHits[SCIN]
      /\ MaxHits[SCIN] \in Nat
      /\ \A i \in 1 .. n : list[i] \in Hit
      /\ \A i, j \in 1 .. n : i < j => InOrder(SCIN, list[i], list[j])
  BY EventPathAssumption, DecoderAssumption DEF IInv, TypeInv, ListsInv, SortedInv, SortedUpTo
<1>2. /\ \A p \in said : \E i \in 1 .. n : Of(WordAt(event, p), list[i])
      /\ \A i \in 1 .. n : /\ \E p \in said : Of(WordAt(event, p), list[i])
                           /\ \A s \in 0 .. 3 : list[i].signal[s] = Signal(list[i], s)
  BY DEF EverySignalStored, Signal
<1>3. ASSUME NEW p \in said, NEW i \in 1 .. n, Of(WordAt(event, p), list[i])
      PROVE  SameCounter(WireOf(p), list[i])
  BY <1>1, <1>3, WireOfIs DEF IInv, TypeInv
<1>4. PICK t \in Nat : t = scin.tot_hits
  BY DEF Stripped
<1>5. /\ sel \in [0 .. t - 1 -> 1 .. n] /\ t <= n
      /\ \A m \in 0 .. t - 1 :
           /\ IsGood(list[sel[m]])
           /\ scin.counter[m] = 2 * list[sel[m]].counter /\ scin.adc_pos[m] = 2 * list[sel[m]].signal[0] - Pedestal
           /\ \A k \in 0 .. t - 1 : m < k => sel[m] < sel[k]
      /\ \A i \in 1 .. n : IsGood(list[i]) => \E m \in 0 .. t - 1 : sel[m] = i
  BY <1>4 DEF Stripped
<1> DEFINE h == [m \in 0 .. t - 1 |-> CounterHit(list[sel[m]])]
<1>6. ASSUME NEW x, NEW y, SameCounter(x, y) PROVE CounterHit(x) = CounterHit(y) /\ (good(x) <=> good(y))
  <2>1. Signal(x, 0) = Signal(y, 0) /\ Signal(x, 2) = Signal(y, 2) /\ Signal(x, 3) = Signal(y, 3)
    BY <1>6, SignalSame
  <2>2. x.plane = y.plane /\ x.counter = y.counter
    BY <1>6 DEF SameCounter
  <2> QED
    BY <2>1, <2>2 DEF CounterHit
<1>7. ASSUME NEW i \in 1 .. n PROVE IsGood(list[i]) <=> good(list[i])
  <2>1. list[i].signal[2] = Signal(list[i], 2) /\ list[i].signal[3] = Signal(list[i], 3)
    BY <1>2
  <2> QED
    BY <2>1 DEF IsGood
<1> HIDE DEF good, list, n, said
<1>8. /\ nhits["hscin_tot_hits"] = t /\ Lists["hscin_tot_hits"] = {"hscin_counter_num", "hscin_adc_pos"}
      /\ given["hscin_tot_hits"] = {CounterHit(x) : x \in {x \in {WireOf(p) : p \in said} : good(x)}}
  BY <1>4 DEF nhits, Lists, given, CounterHits, good, said
<1>9. h \in [0 .. t - 1 -> given["hscin_tot_hits"]]
  <2> SUFFICES ASSUME NEW m \in 0 .. t - 1 PROVE CounterHit(list[sel[m]]) \in given["hscin_tot_hits"]
    OBVIOUS
  <2>1. PICK i \in 1 .. n : i = sel[m]
    BY <1>5
  <2>2. PICK p \in said : Of(WordAt(event, p), list[i])
    BY <1>2
  <2>3. SameCounter(WireOf(p), list[i])
    BY <1>3, <2>2
  <2>4. good(WireOf(p)) /\ CounterHit(WireOf(p)) = CounterHit(list[i])
    BY <1>5, <1>6, <1>7, <2>1, <2>3
  <2> QED
    BY <1>8, <2>1, <2>4
<1>10. ASSUME NEW hit \in given["hscin_tot_hits"] PROVE \E m \in 0 .. t - 1 : h[m] = hit
  <2>1. PICK p \in said : good(WireOf(p)) /\ hit = CounterHit(WireOf(p))
    BY <1>8
  <2>2. PICK i \in 1 .. n : Of(WordAt(event, p), list[i])
    BY <1>2
  <2>3. SameCounter(WireOf(p), list[i])
    BY <1>3, <2>2
  <2>4. IsGood(list[i]) /\ hit = CounterHit(list[i])
    BY <1>6, <1>7, <2>1, <2>3
  <2>5. PICK m \in 0 .. t - 1 : sel[m] = i
    BY <1>5, <2>4
  <2> QED
    BY <2>4, <2>5
<1>11. ASSUME NEW i \in 1 .. n, NEW j \in 1 .. n
       PROVE  /\ i < j => G!Comes(CounterHit(list[i]).at, CounterHit(list[j]).at)
              /\ i <= j => ~G!Comes(CounterHit(list[j]).at, CounterHit(list[i]).at)
  <2>1. PICK p1 \in Int, p2 \in Int, q1 \in Int, q2 \in Int :
          p1 = list[i].plane /\ p2 = list[i].counter /\ q1 = list[j].plane /\ q2 = list[j].counter
    BY <1>1 DEF Hit
  <2>2. i < j => p1 < q1 \/ (p1 = q1 /\ p2 < q2)
    BY <1>1, <2>1 DEF InOrder, Before
  <2>3. i = j => p1 = q1 /\ p2 = q2
    BY <2>1
  <2> DEFINE p == CounterHit(list[i]).at
             q == CounterHit(list[j]).at
  <2>4. p \in Int \X Int /\ q \in Int \X Int /\ p[1] = p1 /\ p[2] = p2 /\ q[1] = q1 /\ q[2] = q2
    BY <2>1 DEF CounterHit
  <2> HIDE DEF p, q
  <2>5. G!Comes(p, q) <=> p1 < q1 \/ (p1 = q1 /\ p2 < q2)
    BY <2>4, PairComes
  <2>6. G!Comes(q, p) <=> q1 < p1 \/ (q1 = p1 /\ q2 < p2)
    BY <2>4, PairComes
  <2>7. i < j => G!Comes(p, q) /\ ~G!Comes(q, p)
    BY <2>2, <2>5, <2>6
  <2>8. i = j => ~G!Comes(q, p)
    BY <2>3, <2>6
  <2>9. i <= j => i < j \/ i = j
    BY <1>1
  <2> QED
    BY <2>7, <2>8, <2>9 DEF p, q
<1>12. ASSUME NEW m \in 0 .. t - 1, NEW k \in 0 .. t - 1
       PROVE  /\ m < k => G!Comes(h[m].at, h[k].at)
              /\ m <= k => ~G!Comes(h[k].at, h[m].at)
  <2>1. h[m] = CounterHit(list[sel[m]]) /\ h[k] = CounterHit(list[sel[k]]) /\ sel[m] \in 1 .. n /\ sel[k] \in 1 .. n
    BY <1>5
  <2> HIDE DEF h
  <2>2. (m < k => sel[m] < sel[k]) /\ (m <= k => sel[m] <= sel[k])
    <3>1. m < k => sel[m] < sel[k]
      BY <1>5
    <3>2. m <= k => m < k \/ m = k
      OBVIOUS
    <3> QED
      BY <1>1, <2>1, <3>1, <3>2
  <2> QED
    BY <1>11, <2>1, <2>2
<1>13. ASSUME NEW m \in 0 .. t - 1, NEW a \in Lists["hscin_tot_hits"]
       PROVE  array[a][m] = h[m].value[a] /\ array[a][m] \in Int
  <2>1. PICK i \in 1 .. n : i = sel[m]
    BY <1>5
  <2>2. PICK c \in Int, v \in Int : c = list[i].counter /\ v = list[i].signal[0]
    BY <1>1 DEF Hit
  <2>3. v = Signal(list[i], 0)
    <3>1. 0 \in 0 .. 3
      OBVIOUS
    <3> QED
      BY <1>2, <2>2, <3>1
  <2>4. h[m] = CounterHit(list[i])
    BY <2>1
  <2>5. h[m].value["hscin_counter_num"] = 2 * c /\ h[m].value["hscin_adc_pos"] = 2 * v - Pedestal
    BY <1>8, <2>2, <2>3, <2>4 DEF CounterHit
  <2>6. array["hscin_counter_num"][m] = 2 * c /\ array["hscin_adc_pos"][m] = 2 * v - Pedestal
    <3>1. array["hscin_counter_num"] = scin.counter /\ array["hscin_adc_pos"] = scin.adc_pos
      <4>1. {"hscin_counter_num", "hscin_adc_pos"} \subseteq DOMAIN ArrayType
        BY DEF ArrayType, Lists
      <4> QED
        BY <4>1 DEF array
    <3> QED
      BY <1>5, <2>1, <2>2, <3>1
  <2>7. 2 * c \in Int /\ 2 * v - Pedestal \in Int
    BY EventPathAssumption
  <2>8. a = "hscin_counter_num" \/ a = "hscin_adc_pos"
    BY <1>8
  <2> HIDE DEF h
  <2> QED
    BY <2>5, <2>6, <2>7, <2>8
<1> HIDE DEF h
<1>14. nhits["hscin_tot_hits"] = t /\ nhits["hscin_tot_hits"] \in Nat
  BY <1>8
<1>15. /\ h \in [0 .. nhits["hscin_tot_hits"] - 1 -> given["hscin_tot_hits"]]
       /\ \A hit \in given["hscin_tot_hits"] : \E i \in 0 .. nhits["hscin_tot_hits"] - 1 : h[i] = hit
  BY <1>9, <1>10, <1>14
<1>16. \A i \in 0 .. nhits["hscin_tot_hits"] - 1 : \A a \in Lists["hscin_tot_hits"] :
         array[a][i] = h[i].value[a] /\ array[a][i] \in Int
  BY <1>13, <1>14
<1>17. \A i, j \in 0 .. nhits["hscin_tot_hits"] - 1 :
         /\ i < j => G!Comes(h[i].at, h[j].at)
         /\ i <= j => ~G!Comes(h[j].at, h[i].at)
  BY <1>12, <1>14
<1> QED
  BY <1>14, <1>15, <1>16, <1>17 DEF HitsAgree

-----------------------------------------------------------------------------
(* What the titles ask for is what the variables hold. *)

ScinInv ==
  /\ scin \in Scin
  /\ phase = "event" /\ pc = "idle" => \E sel : Stripped(scin, hits[SCIN], hitcount[SCIN], sel)

LEMMA ScinInit == PathInit => ScinInv
<1> SUFFICES ASSUME PathInit PROVE ScinInv
  OBVIOUS
<1>1. scin \in Scin
  BY DEF PathInit, Scin
<1>2. phase = "setup"
  BY DEF PathInit, G!Init
<1> QED
  BY <1>1, <1>2 DEF ScinInv

\* The decoder stops only after the last bank, when it has stored everything.
LEMMA LastOfEvent ==
  ASSUME Decode, pc' = "idle"
  PROVE  UNCHANGED <<hits, hitcount>>
<1>1. LastBank
  BY DEF Decode, NextBank, BankEnds, BankWord, SkipReport, SkipHeader, DetectorWord, DetectorEnds
<1> QED
  BY <1>1 DEF LastBank

LEMMA ScinStep ==
  ASSUME IInv, ScinInv, [PathNext]_pathvars
  PROVE  ScinInv'
<1>1. CASE DecodeEvent
  <2>1. Decode /\ phase' = phase
    BY <1>1 DEF DecodeEvent, gethitvars
  <2>2. CASE pc' = "idle"
    <3>1. h_strip_scin /\ hits' = hits /\ hitcount' = hitcount
      BY <1>1, <2>1, <2>2, LastOfEvent DEF DecodeEvent
    <3>2. scin' \in Scin /\ \E sel : Stripped(scin', hits[SCIN], hitcount[SCIN], sel)
      BY <3>1, StripIs DEF ScinInv
    <3> QED
      BY <3>1, <3>2 DEF ScinInv
  <2>3. CASE pc' # "idle"
    BY <1>1, <2>3 DEF DecodeEvent, ScinInv
  <2> QED
    BY <2>2, <2>3
<1>2. CASE phase' # "event" /\ scin' = scin
  BY <1>2 DEF ScinInv
<1>3. CASE pc' # "idle" /\ scin' = scin
  BY <1>3 DEF ScinInv
<1>4. CASE UNCHANGED <<phase, pc, hits, hitcount, scin>>
  BY <1>4 DEF ScinInv
<1>5. CASE Load
  BY <1>2, <1>5 DEF Load, G!Load
<1>6. CASE Book
  BY <1>2, <1>6 DEF Book, G!Book, G!Booked
<1>7. CASE OpenSource
  BY <1>4, <1>7 DEF OpenSource, decodervars, gethitvars
<1>8. CASE Event
  <2>1. scin' = scin
    BY <1>8 DEF Event
  <2>2. CASE Len(seen') > Len(seen)
    BY <1>3, <1>8, <2>1, <2>2 DEF Event, NextEvent
  <2>3. CASE ~(Len(seen') > Len(seen))
    BY <1>4, <1>8, <2>1, <2>3 DEF Event, decodervars, gethitvars
  <2> QED
    BY <2>2, <2>3
<1>9. CASE KeepResults
  BY <1>2, <1>9 DEF KeepResults, G!Execute
<1>10. CASE UNCHANGED pathvars
  BY <1>4, <1>10 DEF pathvars, decodervars, gethitvars
<1> QED
  BY <1>1, <1>5, <1>6, <1>7, <1>8, <1>9, <1>10 DEF PathNext

LEMMA GroupStep ==
  ASSUME TrueMap, \A e \in Events : TrueEvent(e), G!TrueTitles, IInv, WordsInv, ScinInv, GroupInv, [PathNext]_pathvars
  PROVE  GroupInv'
<1>1. CASE UNCHANGED gethitvars
  BY <1>1 DEF GroupInv, gethitvars
<1>2. CASE Load
  BY <1>2, LoadKeepsGroup DEF Load
<1>3. CASE Book
  BY <1>3, BookKeepsGroup, BookedKeepsGroup DEF Book
<1>4. CASE Event
  <2>1. G!NewEvent \/ UNCHANGED gethitvars
    BY <1>4 DEF Event
  <2> QED
    BY <1>1, <2>1, BookedKeepsGroup
<1>5. CASE KeepResults
  <2>1. pc = "idle" /\ G!Execute
    BY <1>5 DEF KeepResults
  <2>2. AllDecoded
    BY HeldAtEnd
  <2>3. EveryWordStored(WC) /\ EverySignalStored(SCIN)
    <3>1. WC \in Detectors /\ SCIN \in Detectors /\ SignalCount[WC] = 1 /\ SignalCount[SCIN] # 1
      BY EventPathAssumption
    <3> QED
      BY <2>1, <2>2, <3>1 DEF AllDecoded
  <2>4. PICK sel : Stripped(scin, hits[SCIN], hitcount[SCIN], sel)
    BY <2>1 DEF ScinInv, G!Execute
  <2>5. HitsAgree("hdc_raw_tot_hits") /\ HitsAgree("hscin_tot_hits")
    BY <2>3, <2>4, WiresAgree, CountersAgree DEF ScinInv
  <2>6. \A n \in DOMAIN Lists : HitsAgree(n)
    BY <2>5 DEF Lists
  <2> QED
    BY <2>1, <2>6, ExecuteKeepsGroup
<1> QED
  BY <1>1, <1>2, <1>3, <1>4, <1>5 DEF PathNext, OpenSource, DecodeEvent, pathvars

LEMMA GroupFollows == GroupInv => ValuesFollowTitles
<1> SUFFICES ASSUME GroupInv, NEW x \in DOMAIN due
             PROVE  \E id \in DOMAIN var : /\ {y \in DOMAIN var : y[2] = x.name} = {id}
                                           /\ var[id].elements[x.index + 1] = G!Convert(var[id].type, due[x])
  BY DEF ValuesFollowTitles, G!ValuesFollowTitles
<1>1. VarsOK(var) /\ Agree(var, due)
  BY DEF GroupInv
<1>2. PICK id : Resolved(var, id, x) /\ var[id].elements[x.index + 1] = G!Convert(var[id].type, due[x])
  BY <1>1 DEF Agree
<1>3. id \in DOMAIN var /\ id[2] = x.name
  BY <1>2 DEF Resolved
<1>4. \A y \in DOMAIN var : y[2] = x.name => y = id
  BY <1>1, <1>3, OneOfName
<1> QED
  BY <1>2, <1>3, <1>4

\* After every event, of any segment, each variable that a title has asked for holds
\* what the title says of the words of the event: through the decoder, the sorted
\* and stripped lists, the search in the arrays and the conversion to the type of the
\* variable, whatever is loaded again and booked anew in between, for all maps, events
\* and titles that keep the rules of TrueMap, TrueEvent and TrueTitles
\* (thGethit.c:150-501, g_keep_results.f).
THEOREM TitlesFollowed ==
  TrueMap /\ (\A e \in Events : TrueEvent(e)) /\ G!TrueTitles => (PathSpec => []ValuesFollowTitles)
<1> SUFFICES ASSUME TrueMap, \A e \in Events : TrueEvent(e), G!TrueTitles PROVE PathSpec => []ValuesFollowTitles
  OBVIOUS
<1> DEFINE Inv == SegmentsInv /\ IInv /\ WordsInv /\ GroupInv /\ ScinInv
<1>1. PathInit => Inv
  BY SegmentsInit, InitEstablishes, WordsInit, GroupInit, ScinInit DEF PathInit
<1>2. Inv /\ [PathNext]_pathvars => Inv'
  <2> SUFFICES ASSUME Inv, [PathNext]_pathvars PROVE Inv'
    OBVIOUS
  <2>1. SegmentsInv'
    BY SegmentsStep
  <2>2. [Next]_decodervars
    BY <2>1, PathStepDecodes
  <2>3. IInv' /\ WordsInv'
    BY <2>2, StepKeeps, WordsStep
  <2>4. GroupInv' /\ ScinInv'
    BY GroupStep, ScinStep
  <2> QED
    BY <2>1, <2>3, <2>4
<1>3. Inv => ValuesFollowTitles
  BY GroupFollows
<1> QED
  BY <1>1, <1>2, <1>3, PTL DEF PathSpec
=============================================================================
