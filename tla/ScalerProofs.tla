---------------------------- MODULE ScalerProofs ----------------------------
(***************************************************************************)
(* Proofs about Scaler: a register of any width is followed through its    *)
(* rollovers when no more is counted, from the start of the run to the     *)
(* first reading or between two readings, than the test of the code can    *)
(* tell apart; and then the correction of random clears does no harm.      *)
(* With the correction, a clear costs no more than one interval's counts.  *)
(***************************************************************************)
EXTENDS Scaler, TLAPS

\* What the test relies on: a register is read often enough, and at first soon
\* enough.
Timely ==
  /\ MaxFirst + MaxDelta < W
  /\ gscalweirdcorrect_flag => MaxDelta <= FalseClear /\ 2 * MaxDelta < W

Rolled == gscaler_nroll * W

\* Before the first event, what has been counted is in the register.
BeforeFirst ==
  /\ first = -1 /\ counted = 0 /\ clears = 0
  /\ gscaler_nroll = 0 /\ lostcounts = 0 /\ lastval = 0
  /\ register = unread /\ unread <= MaxFirst

\* From the first event on, unless a clear comes between, the register is that
\* of the last reading or has rolled over once since.
AfterFirst ==
  /\ first \in Nat /\ first <= MaxFirst /\ first <= counted
  /\ unread <= MaxDelta
  /\ lostcounts = 0
  /\ gscaler_old = counted
  /\ gscaler = counted - first
  /\ \/ register + Rolled = counted + unread
     \/ register + Rolled + W = counted + unread
  /\ counted - Rolled \in 0..(W - 1)
  /\ gscalweirdcorrect_flag => lastval = Signed(counted - Rolled)

Inv ==
  /\ TypeOK
  /\ IF analyzed = 0 THEN BeforeFirst ELSE first # -1 /\ clears = 0 => AfterFirst

\* One rollover more is one range more.
LEMMA NextRolled ==
  ASSUME NEW n \in Int, NEW w \in Int
  PROVE  n * w \in Int /\ (n + 1) * w = n * w + w /\ (n + 0) * w = n * w
  OBVIOUS

\* The signed value of a register is the register below half of its range.
LEMMA SignedTyped ==
  ASSUME NEW v \in 0..(W - 1)
  PROVE  /\ Signed(v) \in Int /\ 2 * Signed(v) < W /\ -W <= 2 * Signed(v)
         /\ Signed(v) > 0 => 2 * v < W /\ Signed(v) = v
  BY ScalerAssumption DEF Signed

\* Without a clear the values of a channel are never taken for those of a cleared
\* one: they fall only at a rollover, and then by less than the jump.
LEMMA NoFalseClear ==
  ASSUME Timely, gscalweirdcorrect_flag,
         NEW last \in 0..(W - 1), NEW v \in 0..(W - 1), NEW d \in Nat, d <= MaxDelta,
         lastval = Signed(last), v = last + d \/ v + W = last + d
  PROVE  TakenForClear(Signed(v)) = {FALSE}
<1> W \in Nat /\ MaxDelta \in Nat /\ FalseClear \in Nat
  BY ScalerAssumption
<1>1. CASE Signed(v) <= 0
  BY <1>1 DEF TakenForClear
<1>2. CASE ~(Signed(v) <= 0)
  <2>1. 2 * v < W /\ Signed(v) = v /\ v > 0
    BY <1>2, SignedTyped DEF Signed
  <2>2. 2 * d < W /\ d <= FalseClear
    BY DEF Timely
  <2>3. CASE 2 * last < W
    <3>1. lastval = last
      BY <2>3 DEF Signed
    <3>2. ~(lastval > v) /\ ~(lastval < 0)
      BY <2>1, <2>2, <2>3, <3>1
    <3> QED  BY <1>2, <2>1, <3>2 DEF TakenForClear
  <2>4. CASE ~(2 * last < W)
    <3>1. lastval = last - W /\ lastval < 0 /\ lastval \in Int
      BY <2>4 DEF Signed
    <3>2. v - lastval = d
      BY <2>1, <2>4, <3>1
    <3>3. ~(lastval > v)
      BY <3>1
    <3>4. MayExceed(v, lastval, FalseClear) = {FALSE}
      <4>1. 2 * (v - lastval) < W /\ ~(v - lastval > FalseClear)
        BY <2>2, <3>2
      <4>2. MayExceed(v, lastval, FalseClear) = {v - lastval > FalseClear}
        BY <4>1 DEF MayExceed
      <4>3. (v - lastval > FalseClear) = FALSE
        BY <4>1
      <4> QED  BY <4>2, <4>3
    <3> QED  BY <1>2, <2>1, <3>1, <3>3, <3>4 DEF TakenForClear
  <2> QED  BY <2>3, <2>4
<1> QED  BY <1>1, <1>2

\* Every step keeps the types.
LEMMA TypeStep == TypeOK /\ [Next]_vars => TypeOK'
<1> SUFFICES ASSUME TypeOK, [Next]_vars
             PROVE  TypeOK'
  OBVIOUS
<1> W \in Nat /\ W > 0
  BY ScalerAssumption
<1>1. CASE Tick
  BY <1>1 DEF Tick, TypeOK, sums
<1>2. CASE Clear
  BY <1>2 DEF Clear, TypeOK, sums
<1>3. ASSUME NEW skip \in BOOLEAN, Read(skip)
      PROVE  TypeOK'
  <2>1. lostcounts' \in Int
    BY <1>3 DEF Read, Lost, TypeOK
  <2>2. lastval' \in Int /\ 2 * lastval' < W /\ -W <= 2 * lastval'
    BY <1>3, SignedTyped DEF Read, TypeOK
  <2>3. gscaler_nroll' \in Nat
    BY <1>3 DEF Read, TypeOK
  <2>4. gscaler_old' \in Int
    <3>1. gscaler_nroll' * W \in Int
      BY <2>3, NextRolled
    <3> QED  BY <1>3, <2>1, <3>1 DEF Read, TypeOK
  <2>5. gscaler_change' \in Int /\ gscaler' \in Int
    BY <1>3, <2>4 DEF Read, TypeOK
  <2>6. gscaler_saved' \in Int /\ gscaler_skipped' \in Int
    BY <1>3, <2>5 DEF Read, Sort, TypeOK
  <2>7. /\ register' \in 0..(W - 1) /\ unread' \in Nat /\ counted' \in Nat
        /\ clears' \in Nat /\ absent' \in Nat /\ analyzed' \in Nat /\ first' \in Nat \cup {-1}
    BY <1>3 DEF Read, TypeOK
  <2> QED  BY <2>1, <2>2, <2>3, <2>4, <2>5, <2>6, <2>7 DEF TypeOK
<1>4. ASSUME NEW skip \in BOOLEAN, ReadOthers(skip)
      PROVE  TypeOK'
  <2>1. gscaler_saved' \in Int /\ gscaler_skipped' \in Int
    BY <1>4 DEF ReadOthers, Sort, TypeOK
  <2> QED  BY <1>4, <2>1 DEF ReadOthers, hardware, TypeOK
<1>5. CASE UNCHANGED vars
  BY <1>5 DEF vars, hardware, sums, TypeOK
<1> QED
  BY <1>1, <1>2, <1>3, <1>4, <1>5 DEF Next, ReadEach

\* Every step keeps the sum with the register.
LEMMA InvStep == Timely /\ Inv /\ [Next]_vars => Inv'
<1> SUFFICES ASSUME Timely, Inv, [Next]_vars
             PROVE  Inv'
  OBVIOUS
<1>1. TypeOK /\ TypeOK'
  BY TypeStep DEF Inv
<1>2. /\ W \in Nat /\ W > 0 /\ MaxFirst \in Nat /\ MaxDelta \in Nat
      /\ gscalweirdcorrect_flag \in BOOLEAN /\ MaxFirst + MaxDelta < W
  BY ScalerAssumption DEF Timely
<1>3. /\ register \in 0..(W - 1) /\ unread \in Nat /\ counted \in Nat /\ clears \in Nat
      /\ analyzed \in Nat /\ first \in Nat \cup {-1} /\ gscaler_nroll \in Nat
      /\ lastval \in Int
  BY <1>1 DEF TypeOK
<1>4. Rolled \in Int
  BY <1>2, <1>3, NextRolled DEF Rolled
<1>5. CASE Tick
  <2>1. UNCHANGED <<clears, counted, first, analyzed, gscaler_old, gscaler, gscaler_nroll,
                    lastval, lostcounts, Rolled>>
        /\ unread' = unread + 1
        /\ register' = IF register + 1 = W THEN 0 ELSE register + 1
    BY <1>5 DEF Tick, Rolled
  <2>2. CASE analyzed = 0
    <3>1. BeforeFirst /\ unread + 1 <= MaxFirst
      BY <1>2, <1>3, <1>5, <2>2 DEF Inv, Tick
    <3>2. register' = register + 1
      BY <1>2, <1>3, <2>1, <3>1 DEF BeforeFirst
    <3> QED  BY <1>1, <2>1, <2>2, <3>1, <3>2 DEF BeforeFirst, Inv
  <2>3. CASE analyzed # 0 /\ first # -1 /\ clears = 0
    <3>1. AfterFirst /\ unread + 1 <= MaxDelta
      BY <1>2, <1>3, <1>5, <2>3 DEF Inv, Tick
    <3>2. \/ register' + Rolled = counted + unread'
          \/ register' + Rolled + W = counted + unread'
      BY <1>2, <1>3, <1>4, <2>1, <3>1 DEF AfterFirst
    <3>3. AfterFirst'
      <4> QED  BY <2>1, <3>1, <3>2 DEF AfterFirst
    <3> QED  BY <1>1, <2>1, <2>3, <3>3 DEF Inv
  <2>4. CASE analyzed # 0 /\ ~(first # -1 /\ clears = 0)
    BY <1>1, <2>1, <2>4 DEF Inv
  <2> QED  BY <2>2, <2>3, <2>4
<1>6. CASE Clear
  <2>1. analyzed' = analyzed /\ analyzed # 0 /\ clears' # 0
    BY <1>3, <1>6 DEF Clear
  <2> QED  BY <1>1, <2>1 DEF Inv
<1>7. ASSUME NEW skip \in BOOLEAN, Read(skip)
      PROVE  Inv'
  <2>1. analyzed' # 0 /\ clears' = clears /\ register' = register /\ unread' = 0
        /\ counted' = counted + unread
    BY <1>3, <1>7 DEF Read
  <2>2. CASE analyzed = 0
    <3>1. BeforeFirst
      BY <2>2 DEF Inv
    <3>2. first' = unread /\ counted' = unread /\ register = unread /\ unread <= MaxFirst
      BY <1>3, <1>7, <2>1, <2>2, <3>1 DEF Read, BeforeFirst
    <3>3. lostcounts' = 0
      <4>1. \E clear \in TakenForClear(Signed(register)) : lostcounts' = Lost(clear)
        BY <1>7 DEF Read
      <4>2. TakenForClear(Signed(register)) = {FALSE}
        <5>1. Signed(register) \in Int /\ lastval = 0
          BY <1>3, <3>1, SignedTyped DEF BeforeFirst
        <5>2. ~(Signed(register) <= 0) => ~(lastval > Signed(register)) /\ ~(lastval < 0)
          BY <5>1
        <5> QED  BY <5>2 DEF TakenForClear
      <4> QED  BY <3>1, <4>1, <4>2 DEF Lost, BeforeFirst
    <3>4. gscaler_nroll' = 0 /\ gscaler' = 0
      <4>1. ~RollsOver(register, 0, 0)
        BY <1>2, <1>3, <3>1 DEF RollsOver, BeforeFirst
      <4>2. gscaler_nroll' = gscaler_nroll + IF RollsOver(register, 0, 0) THEN 1 ELSE 0
        BY <1>7, <2>2, <3>3 DEF Read
      <4>3. gscaler' = 0
        BY <1>7, <2>2 DEF Read
      <4> QED  BY <3>1, <4>1, <4>2, <4>3 DEF BeforeFirst
    <3>5. gscaler_old' = unread /\ Rolled' = 0
      <4>1. gscaler_nroll' * W = 0
        BY <1>2, <3>4
      <4>2. gscaler_old' = register + gscaler_nroll' * W + lostcounts'
        BY <1>7 DEF Read
      <4> QED  BY <1>3, <3>2, <3>3, <4>1, <4>2 DEF Rolled
    <3>6. gscalweirdcorrect_flag => lastval' = Signed(register)
      BY <1>7 DEF Read
    <3>7. AfterFirst'
      <4>1. counted' - Rolled' = register /\ register' + Rolled' = counted' + unread'
        BY <1>3, <2>1, <3>2, <3>5
      <4>2. gscalweirdcorrect_flag => lastval' = Signed(counted' - Rolled')
        BY <3>6, <4>1
      <4> QED
        BY <1>2, <1>3, <2>1, <3>2, <3>3, <3>4, <3>5, <4>1, <4>2 DEF AfterFirst
    <3> QED  BY <1>1, <2>1, <3>7 DEF Inv
  <2>3. CASE analyzed # 0 /\ first # -1 /\ clears = 0
    <3> DEFINE last == counted - Rolled
    <3>1. AfterFirst /\ first' = first
      BY <1>7, <2>3 DEF Inv, Read
    <3>2. /\ last \in 0..(W - 1)
          /\ register = last + unread \/ register + W = last + unread
      BY <1>2, <1>3, <1>4, <3>1 DEF AfterFirst
    <3>3. lostcounts' = 0
      <4>1. \E clear \in TakenForClear(Signed(register)) : lostcounts' = Lost(clear)
        BY <1>7 DEF Read
      <4>2. CASE gscalweirdcorrect_flag
        <5>1. lastval = Signed(last) /\ unread <= MaxDelta
          BY <3>1, <4>2 DEF AfterFirst
        <5> HIDE DEF last
        <5>2. TakenForClear(Signed(register)) = {FALSE}
          BY <1>3, <3>2, <4>2, <5>1, NoFalseClear
        <5> QED  BY <3>1, <4>1, <5>2 DEF Lost, AfterFirst
      <4>3. CASE ~gscalweirdcorrect_flag
        <5>1. TakenForClear(Signed(register)) = {FALSE}
          BY <4>3 DEF TakenForClear
        <5> QED  BY <3>1, <4>1, <5>1 DEF Lost, AfterFirst
      <4> QED  BY <4>2, <4>3
    <3>4. register + Rolled' = counted + unread
      <4>1. gscaler_nroll' =
              gscaler_nroll + IF RollsOver(register, 0, gscaler) THEN 1 ELSE 0
        BY <1>7, <2>3, <3>3 DEF Read
      <4>2. RollsOver(register, 0, gscaler) <=> register + Rolled < counted - first
        BY <1>3, <1>4, <3>1 DEF RollsOver, Rolled, AfterFirst
      <4>3. CASE register + Rolled = counted + unread
        <5>1. ~RollsOver(register, 0, gscaler)
          <6>1. first \in Nat
            BY <3>1 DEF AfterFirst
          <6> QED  BY <1>3, <4>2, <4>3, <6>1
        <5>2. Rolled' = Rolled
          BY <1>3, <4>1, <5>1 DEF Rolled
        <5> QED  BY <4>3, <5>2
      <4>4. CASE register + Rolled + W = counted + unread
        <5>1. RollsOver(register, 0, gscaler)
          <6>1. first \in Nat /\ first <= MaxFirst /\ unread <= MaxDelta
            BY <3>1 DEF AfterFirst
          <6> QED  BY <1>2, <1>3, <1>4, <4>2, <4>4, <6>1
        <5>2. Rolled' = Rolled + W
          BY <1>2, <1>3, <4>1, <5>1, NextRolled DEF Rolled
        <5> QED  BY <1>2, <1>3, <1>4, <4>4, <5>2
      <4> QED  BY <3>1, <4>3, <4>4 DEF AfterFirst
    <3>5. Rolled' \in Int
      BY <1>1, <1>2, NextRolled DEF TypeOK, Rolled
    <3>6. gscaler_old' = counted'
      <4>1. gscaler_old' = register + Rolled' + lostcounts'
        BY <1>7 DEF Read, Rolled
      <4>2. PICK r \in Int : r = Rolled'
        BY <3>5
      <4>3. register + r = counted + unread /\ gscaler_old' = register + r + lostcounts'
        BY <3>4, <4>1, <4>2
      <4> QED  BY <1>3, <2>1, <3>3, <4>3
    <3>7. gscaler' = counted' - first'
      <4>1. gscaler' = gscaler + (gscaler_old' - gscaler_old)
        BY <1>7, <2>3 DEF Read
      <4>2. gscaler_old = counted /\ gscaler = counted - first /\ first \in Nat
        BY <3>1 DEF AfterFirst
      <4> QED  BY <1>3, <2>1, <3>1, <3>6, <4>1, <4>2
    <3>8. gscalweirdcorrect_flag => lastval' = Signed(register)
      BY <1>7 DEF Read
    <3>9. AfterFirst'
      <4>1. counted' - Rolled' = register /\ register' + Rolled' = counted' + unread'
        <5>1. PICK r \in Int : r = Rolled'
          BY <3>5
        <5>2. register + r = counted + unread
          BY <3>4, <5>1
        <5>3. counted' - r = register /\ register' + r = counted' + unread'
          BY <1>3, <2>1, <5>2
        <5> QED  BY <5>1, <5>3
      <4>2. gscalweirdcorrect_flag => lastval' = Signed(counted' - Rolled')
        BY <3>8, <4>1
      <4>3. first \in Nat /\ first <= MaxFirst /\ first <= counted
        BY <3>1 DEF AfterFirst
      <4>4. first' \in Nat /\ first' <= MaxFirst /\ first' <= counted'
        BY <1>2, <1>3, <2>1, <3>1, <4>3
      <4> QED
        BY <1>2, <1>3, <2>1, <3>3, <3>6, <3>7, <4>1, <4>2, <4>4 DEF AfterFirst
    <3> QED  BY <1>1, <2>1, <3>9 DEF Inv
  <2>4. CASE analyzed # 0 /\ ~(first # -1 /\ clears = 0)
    <3>1. first' = first
      BY <1>7, <2>4 DEF Read
    <3> QED  BY <1>1, <2>1, <2>4, <3>1 DEF Inv
  <2> QED  BY <2>2, <2>3, <2>4
<1>8. ASSUME NEW skip \in BOOLEAN, ReadOthers(skip)
      PROVE  Inv'
  <2>1. /\ UNCHANGED <<register, unread, clears, counted, first, gscaler_old, gscaler,
                       gscaler_nroll, lastval, lostcounts, Rolled>>
        /\ analyzed' # 0
    BY <1>3, <1>8 DEF ReadOthers, hardware, Rolled
  <2>2. CASE analyzed = 0
    <3>1. first' = -1
      BY <2>1, <2>2 DEF Inv, BeforeFirst
    <3> QED  BY <1>1, <2>1, <3>1 DEF Inv
  <2>3. CASE analyzed # 0
    <3>1. AfterFirst => AfterFirst'
      <4> QED  BY <2>1 DEF AfterFirst
    <3> QED  BY <1>1, <2>1, <2>3, <3>1 DEF Inv
  <2> QED  BY <2>2, <2>3
<1>9. CASE UNCHANGED vars
  <2>1. UNCHANGED <<register, unread, clears, counted, first, analyzed, gscaler_old,
                    gscaler, gscaler_nroll, lastval, lostcounts, Rolled>>
    BY <1>9 DEF vars, hardware, Rolled
  <2>2. (BeforeFirst => BeforeFirst') /\ (AfterFirst => AfterFirst')
    <3> QED  BY <2>1 DEF BeforeFirst, AfterFirst
  <2> QED  BY <1>1, <2>1, <2>2 DEF Inv
<1> QED
  BY <1>5, <1>6, <1>7, <1>8, <1>9 DEF Next, ReadEach

\* Each variable has its type.
THEOREM TypeCorrect == Spec => []TypeOK
<1>1. Init => TypeOK
  BY ScalerAssumption DEF Init, TypeOK
<1> QED
  BY <1>1, TypeStep, PTL DEF Spec

\* gscaler is what has been counted since the first event, through any number of
\* rollovers, if the channel is read before it can have counted W less what it
\* had at the first event (g_analyze_scaler_bank.f:231-248); and so it is with
\* the correction of random clears, if between two readings less is counted than
\* the jump that the correction takes for a clear (208-213).
THEOREM RolloversFollowed == Timely => (Spec => []RolloversRecorded)
<1>1. Init => Inv
  BY ScalerAssumption DEF Init, Inv, TypeOK, BeforeFirst
<1>2. Inv => RolloversRecorded
  BY DEF Inv, RolloversRecorded, BeforeFirst, AfterFirst
<1>3. Timely => (Inv /\ [Next]_vars => Inv')
  BY InvStep
<1> SUFFICES ASSUME Timely
             PROVE  Spec => []RolloversRecorded
  OBVIOUS
<1>4. Inv /\ [Next]_vars => Inv'
  BY <1>3
<1> QED
  BY <1>1, <1>2, <1>4, PTL DEF Spec

(***************************************************************************)
(* The sums, with random clears                                            *)
(***************************************************************************)

\* The correction is on, and the channel counts between two readings.
Corrected == gscalweirdcorrect_flag /\ MinDelta > 0

\* What is counted and not in gscaler_old: it was lost at a clear.
Missing == counted - gscaler_old

\* What n clears may cost
Loss(n) == n * MaxDelta

\* Before the first event the sum has nothing.
NothingSummed ==
  /\ gscaler = 0 /\ gscaler_change = 0
  /\ gscaler_saved = 0 /\ gscaler_skipped = 0

\* SumsAddUp, and what it starts from
AddUpInv == (analyzed = 0 => NothingSummed) /\ SumsAddUp

\* Before the first event no clear is seen.
Fresh ==
  /\ first = -1 /\ counted = 0 /\ clears = 0
  /\ gscaler_nroll = 0 /\ lostcounts = 0 /\ lastval = 0
  /\ 2 * unread < W => register = unread

\* What a reading leaves: the values before the clears that were seen, and the
\* last value.
Summed ==
  /\ first \in Nat /\ gscaler_nroll = 0
  /\ lastval \in 0..counted /\ lostcounts \in Nat
  /\ gscaler_old = lastval + lostcounts
  /\ gscaler = gscaler_old - first
  /\ Missing >= 0 /\ Missing <= Loss(clears)
  /\ unread <= MaxDelta

\* The register goes on from the last value, or from zero after a clear that the
\* next reading has to see.
InStep ==
  \/ register = lastval + unread
  \/ /\ register = unread
     /\ clears > 0 /\ Missing <= Loss(clears - 1)

\* All of this, within the limits of ClearCostsLittle
ClearInv ==
  /\ TypeOK
  /\ IF analyzed = 0 THEN Fresh
     ELSE first # -1 /\ 2 * counted < W =>
            Summed /\ (2 * (counted + unread) < W => InStep)

\* Every step keeps the two sums of the engine with the sum of the channel.
LEMMA AddUpStep == TypeOK /\ TypeOK' /\ AddUpInv /\ [Next]_vars => AddUpInv'
<1> SUFFICES ASSUME TypeOK, TypeOK', AddUpInv, [Next]_vars
             PROVE  AddUpInv'
  OBVIOUS
<1>1. /\ analyzed \in Nat /\ absent \in Nat /\ gscaler \in Int /\ gscaler_change \in Int
      /\ gscaler_saved \in Int /\ gscaler_skipped \in Int
      /\ gscaler' \in Int /\ gscaler_change' \in Int
  BY DEF TypeOK
<1>2. CASE Tick
  BY <1>2 DEF Tick, AddUpInv, NothingSummed, SumsAddUp, sums
<1>3. CASE Clear
  BY <1>3 DEF Clear, AddUpInv, NothingSummed, SumsAddUp, sums
<1>4. ASSUME NEW skip \in BOOLEAN, Read(skip)
      PROVE  AddUpInv'
  <2>1. analyzed' # 0 /\ absent' = absent
    BY <1>1, <1>4 DEF Read
  <2>2. gscaler_saved' + gscaler_skipped'
          = gscaler_saved + gscaler_skipped + gscaler_change'
    BY <1>1, <1>4 DEF Read, Sort
  <2>3. CASE analyzed = 0
    <3>1. gscaler' = 0 /\ gscaler_change' = 0
      BY <1>4, <2>3 DEF Read, AddUpInv, NothingSummed
    <3> QED  BY <2>1, <2>2, <2>3, <3>1 DEF AddUpInv, NothingSummed, SumsAddUp
  <2>4. CASE analyzed # 0
    <3>1. gscaler' = gscaler + gscaler_change'
      BY <1>4, <2>4 DEF Read
    <3> QED  BY <1>1, <2>1, <2>2, <3>1 DEF AddUpInv, SumsAddUp
  <2> QED  BY <2>3, <2>4
<1>5. ASSUME NEW skip \in BOOLEAN, ReadOthers(skip)
      PROVE  AddUpInv'
  <2>1. analyzed' # 0 /\ absent' # 0
    BY <1>1, <1>5 DEF ReadOthers
  <2> QED  BY <2>1 DEF AddUpInv, SumsAddUp
<1>6. CASE UNCHANGED vars
  BY <1>6 DEF vars, sums, AddUpInv, NothingSummed, SumsAddUp
<1> QED
  BY <1>2, <1>3, <1>4, <1>5, <1>6 DEF Next, ReadEach

\* A clear more may lose a reading's counts more.
LEMMA LossGrows ==
  ASSUME NEW n \in Nat
  PROVE  /\ Loss(n) \in Int /\ Loss(n + 1) = Loss(n) + MaxDelta
         /\ n > 0 => Loss(n - 1) \in Int /\ Loss(n) = Loss(n - 1) + MaxDelta
         /\ Loss(0) = 0
<1>1. MaxDelta \in Int
  BY ScalerAssumption
<1>2. Loss(n) \in Int /\ Loss(n + 1) = Loss(n) + MaxDelta
  BY <1>1, NextRolled DEF Loss
<1>3. ASSUME n > 0
      PROVE  Loss(n - 1) \in Int /\ Loss(n) = Loss(n - 1) + MaxDelta
  <2>1. PICK k \in Int : k = n - 1
    OBVIOUS
  <2>2. k * MaxDelta \in Int /\ (k + 1) * MaxDelta = k * MaxDelta + MaxDelta
    BY <1>1, NextRolled
  <2>3. k + 1 = n
    BY <2>1
  <2> QED  BY <2>1, <2>2, <2>3 DEF Loss
<1>4. Loss(0) = 0
  BY <1>1 DEF Loss
<1> QED  BY <1>2, <1>3, <1>4

\* While no value reaches half of the range, a value is taken for that of a cleared
\* channel exactly if it fell.
LEMMA FallIsClear ==
  ASSUME gscalweirdcorrect_flag, NEW v \in 1..(W - 1), 2 * v < W,
         lastval \in Nat
  PROVE  TakenForClear(Signed(v)) = {lastval > v}
<1>1. Signed(v) = v /\ v > 0
  BY DEF Signed
<1>2. CASE lastval > v
  <2>1. TakenForClear(Signed(v)) = {TRUE}
    <3>1. ~(v <= 0)
      BY ScalerAssumption
    <3> QED  BY <1>1, <1>2, <3>1, Zenon DEF TakenForClear
  <2>2. (lastval > v) = TRUE
    BY <1>2
  <2> QED  BY <2>1, <2>2
<1>3. CASE ~(lastval > v)
  <2>1. ~(lastval < 0)
    OBVIOUS
  <2>2. TakenForClear(Signed(v)) = {FALSE}
    BY <1>1, <1>3, <2>1 DEF TakenForClear
  <2>3. (lastval > v) = FALSE
    BY <1>3
  <2> QED  BY <2>2, <2>3
<1> QED  BY <1>2, <1>3

\* What a reading computes while the scaler has not rolled over.
LEMMA ReadPlain ==
  ASSUME TypeOK, NEW skip \in BOOLEAN, Read(skip), gscaler_nroll = 0,
         ~RollsOver(register, lostcounts', IF analyzed = 0 THEN 0 ELSE gscaler)
  PROVE  gscaler_nroll' = 0 /\ gscaler_old' = register + lostcounts'
<1>1. gscaler_nroll' = 0
  BY DEF Read
<1>2. gscaler_nroll' * W = 0
  BY <1>1, ScalerAssumption
<1>3. gscaler_old' = register + gscaler_nroll' * W + lostcounts'
  BY DEF Read
<1>4. register \in Int
  BY ScalerAssumption DEF TypeOK
<1> QED  BY <1>1, <1>2, <1>3, <1>4

\* The first event says where to start from.
LEMMA FirstReading ==
  ASSUME Corrected, TypeOK, Fresh, analyzed = 0, NEW skip \in BOOLEAN, Read(skip),
         2 * counted' < W
  PROVE  Summed' /\ InStep'
<1>1. /\ W \in Nat /\ W > 0 /\ MinDelta \in Nat /\ MinDelta > 0 /\ MaxDelta \in Nat
      /\ register \in 0..(W - 1) /\ unread \in Nat
  BY ScalerAssumption DEF TypeOK, Corrected
<1>2. /\ counted' = unread /\ first' = unread /\ unread >= MinDelta
      /\ register' = register /\ unread' = 0 /\ clears' = 0 /\ register = unread
  BY <1>1 DEF Read, Fresh
<1>3. lostcounts' = 0
  <2>1. TakenForClear(Signed(register)) = {lastval > register}
    BY <1>1, <1>2, FallIsClear DEF Corrected, Fresh
  <2>2. lastval = 0 /\ lostcounts = 0 /\ (lastval > register) = FALSE
    BY <1>1 DEF Fresh
  <2>3. \E clear \in TakenForClear(Signed(register)) : lostcounts' = Lost(clear)
    BY DEF Read
  <2>4. lostcounts' = Lost(FALSE)
    BY <2>1, <2>2, <2>3
  <2> QED  BY <2>2, <2>4 DEF Lost
<1>4. gscaler_nroll' = 0 /\ gscaler_old' = unread
  <2>1. gscaler_nroll = 0
    BY DEF Fresh
  <2>2. ~RollsOver(register, lostcounts', 0)
    BY <1>1, <1>3, <2>1 DEF RollsOver
  <2> QED  BY <1>1, <1>2, <1>3, <2>1, <2>2, ReadPlain
<1>5. gscaler' = 0 /\ lastval' = unread
  <2>1. Signed(register) = register
    BY <1>1, <1>2 DEF Signed
  <2> QED  BY <1>2, <2>1 DEF Read, Corrected
<1>6. Loss(clears') = 0
  BY <1>2, LossGrows
<1>7. Missing' = 0
  BY <1>1, <1>2, <1>4 DEF Missing
<1> QED
  BY <1>1, <1>2, <1>3, <1>4, <1>5, <1>6, <1>7 DEF Summed, InStep

\* A reading sees a clear, or the clear cost no more than what was read since.
LEMMA LaterReading ==
  ASSUME Corrected, TypeOK, Summed, InStep, analyzed # 0,
         NEW skip \in BOOLEAN, Read(skip), 2 * counted' < W
  PROVE  Summed' /\ InStep'
<1>1. /\ W \in Nat /\ W > 0 /\ MinDelta \in Nat /\ MinDelta > 0 /\ MaxDelta \in Nat
      /\ register \in 0..(W - 1) /\ unread \in Nat /\ counted \in Nat /\ clears \in Nat
      /\ analyzed \in Nat
  BY ScalerAssumption DEF TypeOK, Corrected
<1>2. /\ counted' = counted + unread /\ first' = first /\ unread >= MinDelta
      /\ register' = register /\ unread' = 0 /\ clears' = clears
  BY <1>1 DEF Read
<1>3. /\ first \in Nat /\ gscaler_nroll = 0 /\ lastval \in 0..counted
      /\ lostcounts \in Nat /\ gscaler_old = lastval + lostcounts
      /\ gscaler = gscaler_old - first /\ unread <= MaxDelta
  BY DEF Summed
<1>4. register \in 1..(W - 1) /\ register <= counted + unread /\ 2 * register < W
  BY <1>1, <1>2, <1>3 DEF InStep
<1>5. lostcounts' = lostcounts + IF lastval > register THEN lastval ELSE 0
  <2>1. TakenForClear(Signed(register)) = {lastval > register}
    BY <1>1, <1>3, <1>4, FallIsClear DEF Corrected
  <2>2. \E clear \in TakenForClear(Signed(register)) : lostcounts' = Lost(clear)
    BY DEF Read
  <2>3. lostcounts' = Lost(lastval > register)
    BY <2>1, <2>2
  <2> QED  BY <2>3 DEF Lost
<1>6. lostcounts' \in Nat /\ lastval + lostcounts <= register + lostcounts'
  BY <1>1, <1>3, <1>4, <1>5
<1>7. gscaler_nroll' = 0 /\ gscaler_old' = register + lostcounts'
  <2>1. ~RollsOver(register, lostcounts', gscaler)
    <3>1. gscaler_nroll * W = 0
      BY <1>1, <1>3
    <3>2. PICK lost : lost = lostcounts'
      OBVIOUS
    <3>3. /\ lastval \in Int /\ register \in Int /\ gscaler \in Int /\ gscaler_old \in Int
          /\ lostcounts \in Nat /\ first \in Nat /\ lost \in Nat
      BY <1>1, <1>3, <1>6, <3>2 DEF TypeOK
    <3>4. lastval + lostcounts <= register + lost
      BY <1>6, <3>2
    <3>5. gscaler_old = lastval + lostcounts /\ gscaler = gscaler_old - first
      BY <1>3
    <3>6. ~(register + lost < gscaler)
      BY <3>3, <3>4, <3>5
    <3>7. register + gscaler_nroll * W + lost = register + lost
      BY <3>1, <3>3
    <3> QED  BY <3>2, <3>6, <3>7 DEF RollsOver
  <2> QED  BY <1>1, <1>3, <2>1, ReadPlain
<1>8. gscaler' = gscaler_old' - first' /\ lastval' = register
  <2>1. Signed(register) = register
    BY <1>1, <1>4 DEF Signed
  <2>2. gscaler' = gscaler + (gscaler_old' - gscaler_old) /\ lastval' = register
    BY <1>1, <2>1 DEF Read, Corrected
  <2> QED  BY <1>1, <1>2, <1>3, <1>4, <1>6, <1>7, <2>2
<1>9. Missing' >= 0 /\ Missing' <= Loss(clears')
  <2>1. Missing \in Int /\ Missing >= 0 /\ Missing <= Loss(clears)
    BY <1>1, <1>3 DEF Summed, Missing
  <2>2. Loss(clears) \in Int
    BY <1>1, LossGrows
  <2>3. Missing' = Missing + unread + lastval + lostcounts - register - lostcounts'
    BY <1>1, <1>2, <1>3, <1>4, <1>6, <1>7 DEF Missing
  <2>4. CASE register = lastval + unread
    <3>1. lostcounts' = lostcounts
      BY <1>1, <1>3, <1>5, <2>4
    <3>2. Missing' = Missing
      BY <1>1, <1>3, <2>1, <2>3, <2>4, <3>1
    <3> QED  BY <1>2, <2>1, <3>2
  <2>5. CASE register = unread /\ clears > 0 /\ Missing <= Loss(clears - 1)
    <3>1. Loss(clears - 1) \in Int /\ Loss(clears) = Loss(clears - 1) + MaxDelta
      BY <1>1, <2>5, LossGrows
    <3>2. CASE lastval > register
      <4>1. Missing' = Missing
        BY <1>1, <1>3, <1>5, <2>1, <2>3, <2>5, <3>2
      <4> QED  BY <1>2, <2>1, <4>1
    <3>3. CASE ~(lastval > register)
      <4>1. Missing' = Missing + lastval
        BY <1>1, <1>3, <1>5, <2>1, <2>3, <2>5, <3>3
      <4>2. lastval <= MaxDelta
        BY <1>1, <1>3, <2>5, <3>3
      <4>3. Missing + lastval >= 0 /\ Missing + lastval <= Loss(clears)
        BY <1>1, <1>3, <2>1, <2>5, <3>1, <4>2
      <4> QED  BY <1>2, <4>1, <4>3
    <3> QED  BY <3>2, <3>3
  <2> QED  BY <2>4, <2>5 DEF InStep
<1>10. Summed'
  BY <1>1, <1>2, <1>3, <1>4, <1>6, <1>7, <1>8, <1>9 DEF Summed
<1>11. InStep'
  BY <1>1, <1>2, <1>4, <1>8 DEF InStep
<1> QED  BY <1>10, <1>11
\* Every step keeps what is missing below what the clears may cost.
LEMMA ClearStep == Corrected /\ ClearInv /\ [Next]_vars => ClearInv'
<1> SUFFICES ASSUME Corrected, ClearInv, [Next]_vars
             PROVE  ClearInv'
  OBVIOUS
<1>1. TypeOK /\ TypeOK'
  BY TypeStep DEF ClearInv
<1>2. /\ W \in Nat /\ W > 0 /\ MaxDelta \in Nat
      /\ register \in 0..(W - 1) /\ unread \in Nat /\ counted \in Nat /\ clears \in Nat
      /\ analyzed \in Nat
  BY <1>1, ScalerAssumption DEF TypeOK
<1>3. CASE Tick
  <2>1. /\ UNCHANGED <<clears, counted, first, analyzed, gscaler_old, gscaler,
                       gscaler_nroll, lastval, lostcounts, Missing, Loss(clears)>>
        /\ unread' = unread + 1
        /\ register' = IF register + 1 = W THEN 0 ELSE register + 1
        /\ Loss(clears - 1)' = Loss(clears - 1)
    BY <1>3 DEF Tick, Missing, Loss
  <2>2. CASE analyzed = 0
    <3>1. 2 * unread' < W => register' = unread'
      BY <1>2, <2>1, <2>2 DEF ClearInv, Fresh
    <3> QED  BY <1>1, <2>1, <2>2, <3>1 DEF ClearInv, Fresh
  <2>3. CASE analyzed # 0 /\ first # -1 /\ 2 * counted < W
    <3>1. Summed /\ (2 * (counted + unread) < W => InStep) /\ unread + 1 <= MaxDelta
      BY <1>2, <1>3, <2>3 DEF ClearInv, Tick
    <3>2. Summed'
      BY <2>1, <3>1 DEF Summed
    <3>3. ASSUME 2 * (counted' + unread') < W
          PROVE  InStep'
      <4>1. 2 * (counted + unread) < W
        BY <1>2, <2>1, <3>3
      <4>2. lastval \in 0..counted
        BY <3>1 DEF Summed
      <4>3. InStep
        BY <3>1, <4>1
      <4>4. register + 1 < W
        <5>1. register <= counted + unread
          BY <1>2, <4>2, <4>3 DEF InStep
        <5>2. W > 1
          BY ScalerAssumption
        <5> QED  BY <1>2, <4>1, <5>1, <5>2
      <4>5. register' = register + 1
        BY <1>2, <2>1, <4>4
      <4> QED  BY <1>2, <2>1, <4>2, <4>3, <4>5 DEF InStep
    <3> QED  BY <1>1, <2>1, <2>3, <3>2, <3>3 DEF ClearInv
  <2>4. CASE analyzed # 0 /\ ~(first # -1 /\ 2 * counted < W)
    BY <1>1, <2>1, <2>4 DEF ClearInv
  <2> QED  BY <2>2, <2>3, <2>4
<1>4. CASE Clear
  <2>1. /\ UNCHANGED <<counted, first, analyzed, gscaler_old, gscaler,
                       gscaler_nroll, lastval, lostcounts, Missing>>
        /\ clears' = clears + 1 /\ register' = 0 /\ unread' = 0 /\ analyzed # 0
    BY <1>2, <1>4 DEF Clear, Missing
  <2>2. CASE first # -1 /\ 2 * counted < W
    <3>1. Summed
      BY <2>1, <2>2 DEF ClearInv
    <3>2. /\ Loss(clears) \in Int /\ Loss(clears') = Loss(clears) + MaxDelta
          /\ Loss(clears' - 1) = Loss(clears)
      <4>1. clears' - 1 = clears
        BY <1>2, <2>1
      <4> QED  BY <1>2, <2>1, <4>1, LossGrows
    <3>3. Missing \in Int /\ Missing <= Loss(clears)
      <4>1. lastval \in Int /\ lostcounts \in Int /\ gscaler_old = lastval + lostcounts
        BY <1>2, <3>1 DEF Summed
      <4> QED  BY <1>2, <3>1, <4>1 DEF Missing, Summed
    <3>4. Loss(clears)' = Loss(clears') /\ Loss(clears - 1)' = Loss(clears' - 1)
      BY DEF Loss
    <3>5. Missing' <= Loss(clears)'
      BY <1>2, <2>1, <3>2, <3>3, <3>4
    <3>6. Summed'
      BY <1>2, <2>1, <3>1, <3>5 DEF Summed
    <3>7. InStep'
      <4>1. Missing' <= Loss(clears - 1)'
        BY <2>1, <3>2, <3>3, <3>4
      <4>2. clears' > 0 /\ register' = unread'
        BY <1>2, <2>1
      <4> QED  BY <4>1, <4>2 DEF InStep
    <3> QED  BY <1>1, <2>1, <3>6, <3>7 DEF ClearInv
  <2>3. CASE ~(first # -1 /\ 2 * counted < W)
    BY <1>1, <2>1, <2>3 DEF ClearInv
  <2> QED  BY <2>2, <2>3
<1>5. ASSUME NEW skip \in BOOLEAN, Read(skip)
      PROVE  ClearInv'
  <2>1. analyzed' # 0 /\ counted' = counted + unread
    BY <1>2, <1>5 DEF Read
  <2>2. ASSUME first' # -1, 2 * counted' < W
        PROVE  Summed' /\ InStep'
    <3>1. CASE analyzed = 0
      BY <1>1, <1>5, <2>2, <3>1, FirstReading DEF ClearInv
    <3>2. CASE analyzed # 0
      <4>1. first # -1 /\ 2 * counted < W /\ 2 * (counted + unread) < W
        BY <1>2, <1>5, <2>1, <2>2, <3>2 DEF Read
      <4>2. Summed /\ InStep
        BY <3>2, <4>1 DEF ClearInv
      <4> QED  BY <1>1, <1>5, <2>2, <3>2, <4>2, LaterReading
    <3> QED  BY <3>1, <3>2
  <2> QED  BY <1>1, <2>1, <2>2 DEF ClearInv
<1>6. ASSUME NEW skip \in BOOLEAN, ReadOthers(skip)
      PROVE  ClearInv'
  <2>1. /\ UNCHANGED <<register, unread, clears, counted, first, gscaler_old, gscaler,
                       gscaler_nroll, lastval, lostcounts>>
        /\ analyzed' # 0
    BY <1>2, <1>6 DEF ReadOthers, hardware
  <2>2. CASE analyzed = 0
    <3>1. first' = -1
      BY <2>1, <2>2 DEF ClearInv, Fresh
    <3> QED  BY <1>1, <2>1, <3>1 DEF ClearInv
  <2>3. CASE analyzed # 0
    <3>1. (Summed => Summed') /\ (InStep => InStep')
      BY <2>1 DEF Summed, InStep, Missing, Loss
    <3> QED  BY <1>1, <2>1, <2>3, <3>1 DEF ClearInv
  <2> QED  BY <2>2, <2>3
<1>7. CASE UNCHANGED vars
  <2>1. UNCHANGED <<register, unread, clears, counted, first, analyzed, gscaler_old,
                    gscaler, gscaler_nroll, lastval, lostcounts>>
    BY <1>7 DEF vars, hardware
  <2>2. (Fresh => Fresh') /\ (Summed => Summed') /\ (InStep => InStep')
    BY <2>1 DEF Fresh, Summed, InStep, Missing, Loss
  <2> QED  BY <1>1, <2>1, <2>2 DEF ClearInv
<1> QED
  BY <1>3, <1>4, <1>5, <1>6, <1>7 DEF Next, ReadEach

\* What is missing from the sum of a channel bounds what is missing from gscaler.
LEMMA ClearIsBounded == ClearInv => ClearCostsLittle
<1> SUFFICES ASSUME ClearInv, first # -1, 2 * counted < W
             PROVE  /\ gscaler <= counted - first
                    /\ (counted - first) - gscaler <= clears * MaxDelta
  BY DEF ClearCostsLittle
<1>1. analyzed # 0 /\ Summed
  BY DEF ClearInv, Fresh
<1>2. counted \in Nat /\ clears \in Nat
  BY DEF ClearInv, TypeOK
<1>3. /\ first \in Nat /\ gscaler_old \in Int
      /\ gscaler = gscaler_old - first
  BY <1>1, <1>2 DEF Summed
<1>4. counted - gscaler_old >= 0 /\ counted - gscaler_old <= Loss(clears)
  BY <1>1 DEF Summed, Missing
<1>5. (counted - first) - gscaler = counted - gscaler_old
  BY <1>2, <1>3
<1>6. gscaler <= counted - first
  BY <1>2, <1>3, <1>4
<1> QED  BY <1>4, <1>5, <1>6 DEF Loss

\* The engine splits gscaler between what is analyzed and what is not, and loses
\* nothing, while every scaler event has the channel (engine.f:866-877).
THEOREM SumsAlwaysAddUp == Spec => []SumsAddUp
<1>1. Init => TypeOK /\ AddUpInv
  BY ScalerAssumption DEF Init, TypeOK, AddUpInv, NothingSummed, SumsAddUp
<1>2. TypeOK /\ AddUpInv /\ [Next]_vars => TypeOK' /\ AddUpInv'
  BY TypeStep, AddUpStep
<1>3. AddUpInv => SumsAddUp
  BY DEF AddUpInv
<1> QED
  BY <1>1, <1>2, <1>3, PTL DEF Spec

\* With the correction on, and a channel that counts at least once between two
\* readings, the sums add up, and each random clear costs no more than the counts
\* of one interval, however many come and wherever they fall between the readings
\* (g_analyze_scaler_bank.f:188-225).
THEOREM ClearsCorrected == Corrected => (Spec => []SumsRight)
<1> SUFFICES ASSUME Corrected
             PROVE  Spec => []SumsRight
  OBVIOUS
<1>1. Init => ClearInv /\ AddUpInv
  BY ScalerAssumption
     DEF Init, ClearInv, Fresh, TypeOK, AddUpInv, NothingSummed, SumsAddUp
<1>2. ClearInv /\ AddUpInv /\ [Next]_vars => ClearInv' /\ AddUpInv'
  BY ClearStep, TypeStep, AddUpStep DEF ClearInv
<1>3. ClearInv /\ AddUpInv => SumsRight
  BY ClearIsBounded DEF AddUpInv, SumsRight
<1> QED
  BY <1>1, <1>2, <1>3, PTL DEF Spec
=============================================================================
