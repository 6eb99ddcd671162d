------------------------- MODULE RpcCallbackProofs -------------------------
(***************************************************************************)
(* Proofs about the server of RpcCallback, for any number of requests and  *)
(* events, any waits and any values of rpc_control: it does not block      *)
(* while a client waits, it answers with the first event that passes, and  *)
(* it answers each request once.                                           *)
(***************************************************************************)
EXTENDS RpcCallback, TLAPS, FiniteSetTheorems, SequenceTheorems

(***************************************************************************)
(* The list of requests                                                    *)
(***************************************************************************)

\* RemoveAt takes one element out and keeps the order of the others.
LEMMA RemoveAtElements ==
  ASSUME NEW S, NEW s \in Seq(S), NEW i \in 1..Len(s)
  PROVE  /\ RemoveAt(s, i) \in Seq(S)
         /\ Len(RemoveAt(s, i)) = Len(s) - 1
         /\ \A j \in 1..(Len(s) - 1) :
              RemoveAt(s, i)[j] = IF j < i THEN s[j] ELSE s[j + 1]
<1> DEFINE a == SubSeq(s, 1, i - 1)
           b == SubSeq(s, i + 1, Len(s))
<1>0. Len(s) \in Nat /\ i \in Int /\ \A j \in 1..Len(s) : s[j] \in S
  BY LenProperties, ElementOfSeq
<1>1. /\ a \in Seq(S) /\ Len(a) = i - 1
      /\ \A j \in 1..(i - 1) : a[j] = s[j]
  <2>1. \A j \in 1..(i - 1) : s[j] \in S
    BY <1>0
  <2>2. /\ a \in Seq(S)
        /\ Len(a) = IF 1 <= i - 1 THEN (i - 1) - 1 + 1 ELSE 0
        /\ \A j \in 1..((i - 1) - 1 + 1) : a[j] = s[1 + j - 1]
    BY <1>0, <2>1, SubSeqProperties
  <2> QED
    BY <1>0, <2>2
<1>2. /\ b \in Seq(S) /\ Len(b) = Len(s) - i
      /\ \A j \in 1..(Len(s) - i) : b[j] = s[i + j]
  <2>1. \A j \in (i + 1)..Len(s) : s[j] \in S
    BY <1>0
  <2>2. /\ b \in Seq(S)
        /\ Len(b) = IF i + 1 <= Len(s) THEN Len(s) - (i + 1) + 1 ELSE 0
        /\ \A j \in 1..(Len(s) - (i + 1) + 1) : b[j] = s[(i + 1) + j - 1]
    BY <1>0, <2>1, SubSeqProperties
  <2> QED
    BY <1>0, <2>2
<1>3. /\ a \o b \in Seq(S)
      /\ Len(a \o b) = Len(a) + Len(b)
      /\ \A j \in 1..(Len(a) + Len(b)) :
           (a \o b)[j] = IF j <= Len(a) THEN a[j] ELSE b[j - Len(a)]
  BY <1>1, <1>2, ConcatProperties
<1>4. RemoveAt(s, i) = a \o b
  BY DEF RemoveAt
<1> HIDE DEF a, b
<1>5. ASSUME NEW j \in 1..(Len(s) - 1)
      PROVE  (a \o b)[j] = IF j < i THEN s[j] ELSE s[j + 1]
  <2>1. (a \o b)[j] = IF j <= i - 1 THEN a[j] ELSE b[j - (i - 1)]
    BY <1>0, <1>1, <1>2, <1>3
  <2>2. CASE j < i
    BY <1>0, <1>1, <2>1, <2>2
  <2>3. CASE ~(j < i)
    <3>1. j - (i - 1) \in 1..(Len(s) - i) /\ i + (j - (i - 1)) = j + 1
      BY <1>0, <2>3
    <3> QED
      BY <1>0, <1>2, <2>1, <2>3, <3>1
  <2> QED
    BY <2>2, <2>3
<1> QED
  BY <1>0, <1>1, <1>2, <1>3, <1>4, <1>5

\* Reverse keeps the length and the elements.
LEMMA ReverseElements ==
  ASSUME NEW S, NEW s \in Seq(S)
  PROVE  /\ Reverse(s) \in Seq(S)
         /\ Len(Reverse(s)) = Len(s)
         /\ \A j \in 1..Len(s) : Reverse(s)[j] = s[Len(s) - j + 1]
<1>0. Len(s) \in Nat /\ \A j \in 1..Len(s) : s[j] \in S
  BY LenProperties, ElementOfSeq
<1>1. \A j \in 1..Len(s) : s[(Len(s) - j) + 1] \in S
  BY <1>0
<1> QED
  BY <1>0, <1>1 DEF Reverse

(***************************************************************************)
(* The invariant                                                           *)
(***************************************************************************)

Request == [len : Nat, wait : Nat]
ListEntry == [req : Nat, wait : Int, since : Nat]
SentCallback == [req : Nat, len : Nat, since : Nat, event : Nat]

ServerType ==
  /\ spc \in {"analyzing", "blocking", "polling", "scanning", "calling back"}
  /\ requests \in Seq(Request)
  /\ calls \in Seq(Nat)
  /\ passes \in Seq(BOOLEAN)
  /\ list \in Seq(ListEntry)
  /\ scan \in Nat \ {0} /\ pending \in Nat /\ processed \in BOOLEAN
  /\ began \in Int /\ rpc_pend \in Nat /\ rpc_control \in Int
  /\ sent \in Seq(SentCallback)
  /\ \A i \in 1..Len(calls) : calls[i] \in 1..Len(requests)

\* daVarCallBack has counted the entries it has passed over, and rpc_pend is 0
\* between two checks exactly when none is left.
BlockInv ==
  /\ pending = scan - 1 /\ scan <= Len(list) + 1
  /\ spc = "calling back" => scan <= Len(list)
  /\ spc = "blocking" => list = <<>> /\ rpc_pend = 0 /\ rpc_control = 0
  /\ spc \in {"analyzing", "polling"} => (rpc_pend = 0 <=> list = <<>>)
  /\ spc \in {"scanning", "calling back"} /\ rpc_pend # 0 => processed \/ list # <<>>

\* The entries that daVarCallBack has seen at this event
Seen(i) == spc = "analyzing" \/ (spc \in {"scanning", "calling back"} /\ i < scan)

\* What an entry has left of its wait at event n; no event has passed since.
Waits1(e, n, reqs, ps) ==
  /\ e.req \in 1..Len(reqs)
  /\ e.since \in 1..(n + 1)
  /\ e.wait = reqs[e.req].wait - (n + 1 - e.since) /\ e.wait >= 0
  /\ \A t \in e.since..n : ~ps[t]

\* An entry has waited for this event as well if it has been seen.
ListInv ==
  /\ spc # "analyzing" => event >= 1
  /\ \A i \in 1..Len(list) :
       /\ Waits1(list[i], IF Seen(i) THEN event ELSE event - 1, requests, passes)
       /\ list[i].since <= event

Answers(m, reqs, ps) ==
  /\ m.req \in 1..Len(reqs)
  /\ m.since \in 1..m.event /\ m.event <= Len(ps)
  /\ m.event - m.since <= reqs[m.req].wait
  /\ m.len > 0 => ps[m.event]
  /\ \A t \in m.since..(m.event - 1) : ~ps[t]

SentInv == \A i \in 1..Len(sent) : Answers(sent[i], requests, passes)

ServerInv == ServerType /\ BlockInv /\ ListInv /\ SentInv

\* Requests and events that are added leave the old ones as they are.
Extended(s, t) == Len(s) <= Len(t) /\ \A i \in 1..Len(s) : t[i] = s[i]

\* A sequence extends itself.
LEMMA ExtendedSelf ==
  ASSUME NEW S, NEW s \in Seq(S)
  PROVE  Extended(s, s)
<1>1. Len(s) \in Nat
  BY LenProperties
<1> QED
  BY <1>1 DEF Extended

\* A sequence with one more element extends it.
LEMMA AppendExtends ==
  ASSUME NEW S, NEW s \in Seq(S), NEW x \in S
  PROVE  /\ Append(s, x) \in Seq(S) /\ Extended(s, Append(s, x))
         /\ Len(Append(s, x)) = Len(s) + 1 /\ Append(s, x)[Len(s) + 1] = x
BY AppendProperties DEF Extended

\* How long an entry has waited does not depend on later requests and events.
LEMMA WaitsKept ==
  ASSUME NEW e \in ListEntry, NEW n \in Int,
         NEW reqs \in Seq(Request), NEW reqs2 \in Seq(Request), Extended(reqs, reqs2),
         NEW ps \in Seq(BOOLEAN), NEW ps2 \in Seq(BOOLEAN), Extended(ps, ps2),
         n <= Len(ps), Waits1(e, n, reqs, ps)
  PROVE  Waits1(e, n, reqs2, ps2)
<1>1. Len(reqs) \in Nat /\ Len(reqs2) \in Nat /\ Len(ps) \in Nat
  BY LenProperties
<1>2. e.req \in 1..Len(reqs) /\ e.since \in 1..(n + 1)
  BY DEF Waits1
<1>3. e.req \in 1..Len(reqs2) /\ reqs2[e.req] = reqs[e.req]
  BY <1>1, <1>2 DEF Extended
<1>4. \A t \in e.since..n : ps2[t] = ps[t]
  BY <1>1, <1>2 DEF Extended
<1> QED
  BY <1>2, <1>3, <1>4 DEF Waits1

\* Neither does what an answer answers.
LEMMA AnswersKept ==
  ASSUME NEW m \in SentCallback,
         NEW reqs \in Seq(Request), NEW reqs2 \in Seq(Request), Extended(reqs, reqs2),
         NEW ps \in Seq(BOOLEAN), NEW ps2 \in Seq(BOOLEAN), Extended(ps, ps2),
         Answers(m, reqs, ps)
  PROVE  Answers(m, reqs2, ps2)
<1>1. /\ Len(reqs) \in Nat /\ Len(reqs2) \in Nat /\ Len(ps) \in Nat /\ Len(ps2) \in Nat
      /\ m.event \in Nat
  BY LenProperties DEF SentCallback
<1>2. m.req \in 1..Len(reqs) /\ m.since \in 1..m.event /\ m.event <= Len(ps)
  BY DEF Answers
<1>3. m.req \in 1..Len(reqs2) /\ reqs2[m.req] = reqs[m.req] /\ m.event <= Len(ps2)
  BY <1>1, <1>2 DEF Extended
<1>4. \A t \in m.since..m.event : ps2[t] = ps[t]
  BY <1>1, <1>2 DEF Extended
<1>5. ps2[m.event] = ps[m.event]
  BY <1>1, <1>2 DEF Extended
<1>6. \A t \in m.since..(m.event - 1) : t \in m.since..m.event
  BY <1>1, <1>2
<1> QED
  BY <1>2, <1>3, <1>4, <1>5, <1>6 DEF Answers

(***************************************************************************)
(* The client's steps                                                      *)
(***************************************************************************)

\* The number of the event is that of the tests made.
LEMMA EventType == ServerType => event \in Nat /\ event = Len(passes)
BY LenProperties DEF ServerType, event

\* What the client leaves alone: at most a request is added.
LEMMA ClientStep ==
  ASSUME ServerInv, UNCHANGED svars,
         requests' \in Seq(Request), Extended(requests, requests'),
         calls' \in Seq(Nat),
         \A i \in 1..Len(calls') : calls'[i] \in 1..Len(requests')
  PROVE  ServerInv'
<1>1. /\ UNCHANGED <<spc, passes, began, list>>
      /\ UNCHANGED <<scan, pending, processed, rpc_pend, rpc_control, sent>>
  BY DEF svars, scanning
<1>2. ServerType'
  BY <1>1 DEF ServerInv, ServerType
<1>3. BlockInv'
  BY <1>1 DEF ServerInv, BlockInv
<1>4. event \in Nat /\ event = Len(passes) /\ event' = event
  BY <1>1, EventType DEF ServerInv, event
<1>5. Extended(passes, passes)
  BY ExtendedSelf DEF ServerInv, ServerType
<1>6. ListInv'
  <2>1. spc' # "analyzing" => event' >= 1
    BY <1>1, <1>4 DEF ServerInv, ListInv
  <2>2. ASSUME NEW i \in 1..Len(list)
        PROVE  /\ Waits1(list[i], IF Seen(i) THEN event ELSE event - 1, requests', passes)
               /\ list[i].since <= event
    <3>1. list[i] \in ListEntry
      BY ElementOfSeq DEF ServerInv, ServerType
    <3>2. /\ Waits1(list[i], IF Seen(i) THEN event ELSE event - 1, requests, passes)
          /\ list[i].since <= event
      BY DEF ServerInv, ListInv
    <3>3. CASE Seen(i)
      <4>1. event \in Int /\ event <= Len(passes)
        BY <1>4
      <4> QED
        BY <3>1, <3>2, <3>3, <4>1, <1>5, WaitsKept DEF ServerInv, ServerType
    <3>4. CASE ~Seen(i)
      <4>1. event - 1 \in Int /\ event - 1 <= Len(passes)
        BY <1>4
      <4> QED
        BY <3>1, <3>2, <3>4, <4>1, <1>5, WaitsKept DEF ServerInv, ServerType
    <3> QED
      BY <3>3, <3>4
  <2>3. \A i : Seen(i)' = Seen(i)
    BY <1>1 DEF Seen
  <2> QED
    BY <1>1, <1>4, <2>1, <2>2, <2>3 DEF ListInv
<1>7. SentInv'
  <2>1. ASSUME NEW i \in 1..Len(sent)
        PROVE  Answers(sent[i], requests', passes)
    <3>1. sent[i] \in SentCallback
      BY ElementOfSeq DEF ServerInv, ServerType
    <3>2. Answers(sent[i], requests, passes)
      BY DEF ServerInv, SentInv
    <3> QED
      BY <3>1, <3>2, <1>5, AnswersKept DEF ServerInv, ServerType
  <2> QED
    BY <1>1, <2>1 DEF SentInv
<1> QED
  BY <1>2, <1>3, <1>6, <1>7 DEF ServerInv

\* A new call is not in the list yet.
LEMMA CallStep ==
  ASSUME ServerInv, NEW len \in Lens, NEW wait \in Waits, Call(len, wait)
  PROVE  ServerInv'
<1> DEFINE r == [len |-> len, wait |-> wait]
<1>1. r \in Request
  BY RpcAssumption DEF Request
<1>2. requests \in Seq(Request) /\ calls \in Seq(Nat) /\ Len(requests) \in Nat /\ Len(calls) \in Nat
  BY LenProperties DEF ServerInv, ServerType
<1>3. requests' = Append(requests, r) /\ calls' = Append(calls, Len(requests')) /\ UNCHANGED svars
  BY DEF Call
<1>4. requests' \in Seq(Request) /\ Extended(requests, requests') /\ Len(requests') = Len(requests) + 1
  BY <1>1, <1>2, <1>3, AppendExtends
<1>5. Len(requests') \in Nat
  BY <1>2, <1>4
<1>6. /\ calls' \in Seq(Nat) /\ Extended(calls, calls') /\ Len(calls') = Len(calls) + 1
      /\ calls'[Len(calls) + 1] = Len(requests')
  BY <1>2, <1>3, <1>5, AppendExtends
<1>7. ASSUME NEW i \in 1..Len(calls') PROVE calls'[i] \in 1..Len(requests')
  <2>1. CASE i = Len(calls) + 1
    BY <1>2, <1>4, <1>6, <2>1
  <2>2. CASE i \in 1..Len(calls)
    <3>1. calls'[i] = calls[i]
      BY <1>6, <2>2 DEF Extended
    <3>2. calls[i] \in 1..Len(requests)
      BY <2>2 DEF ServerInv, ServerType
    <3> QED
      BY <1>2, <1>4, <3>1, <3>2
  <2> QED
    BY <1>2, <1>6, <2>1, <2>2
<1> QED
  BY <1>3, <1>4, <1>6, <1>7, ClientStep

\* A step that changes nothing of the server, its calls or the requests.
LEMMA OtherStep ==
  ASSUME ServerInv, UNCHANGED <<svars, requests, calls>>
  PROVE  ServerInv'
<1>1. Extended(requests, requests)
  BY ExtendedSelf DEF ServerInv, ServerType
<1>2. UNCHANGED svars /\ requests' = requests /\ calls' = calls
  OBVIOUS
<1>3. /\ requests' \in Seq(Request) /\ Extended(requests, requests') /\ calls' \in Seq(Nat)
      /\ \A i \in 1..Len(calls') : calls'[i] \in 1..Len(requests')
  BY <1>1, <1>2 DEF ServerInv, ServerType
<1> QED
  BY <1>2, <1>3, ClientStep

(***************************************************************************)
(* The server's steps                                                      *)
(***************************************************************************)

\* The facts that every step of the server starts from
LEMMA ServerFacts ==
  ASSUME ServerInv
  PROVE  /\ event \in Nat /\ event = Len(passes)
         /\ Len(list) \in Nat /\ Len(requests) \in Nat /\ Len(calls) \in Nat
         /\ Len(sent) \in Nat
         /\ \A i \in 1..Len(list) : list[i] \in ListEntry
         /\ \A i \in 1..Len(sent) : sent[i] \in SentCallback
         /\ Extended(requests, requests) /\ Extended(passes, passes)
BY EventType, LenProperties, ElementOfSeq, ExtendedSelf DEF ServerInv, ServerType

\* A new event has been seen by no entry.
LEMMA AnalyzeStep ==
  ASSUME ServerInv, NEW pass \in BOOLEAN, Analyze(pass)
  PROVE  ServerInv'
<1>1. /\ spc = "analyzing" /\ passes' = Append(passes, pass) /\ began' = rpc_control
      /\ spc' = IF rpc_pend = 0 /\ rpc_control = 0 THEN "blocking" ELSE "polling"
  BY DEF Analyze
<1>2. /\ UNCHANGED <<requests, calls, list, scan, pending, processed>>
      /\ UNCHANGED <<rpc_pend, rpc_control, sent>>
  BY DEF Analyze, cvars, net, scanning
<1>3. /\ passes' \in Seq(BOOLEAN) /\ Extended(passes, passes')
      /\ Len(passes') = Len(passes) + 1
  BY <1>1, AppendExtends DEF ServerInv, ServerType
<1>4. event' = event + 1
  BY <1>3, ServerFacts DEF event
<1>5. ServerType'
  BY <1>1, <1>2, <1>3 DEF ServerInv, ServerType
<1>6. BlockInv'
  BY <1>1, <1>2 DEF ServerInv, BlockInv
<1>7. ListInv'
  <2>1. event' >= 1
    BY <1>4, ServerFacts
  <2>2. ASSUME NEW i \in 1..Len(list)
        PROVE  Waits1(list[i], event, requests, passes') /\ list[i].since <= event + 1
    <3>1. Waits1(list[i], event, requests, passes) /\ list[i].since <= event
      BY <1>1 DEF ServerInv, ListInv, Seen
    <3>2. list[i] \in ListEntry /\ event \in Int /\ event <= Len(passes)
      BY ServerFacts
    <3>3. Waits1(list[i], event, requests, passes')
      BY <1>3, <3>1, <3>2, ServerFacts, WaitsKept DEF ServerInv, ServerType
    <3>4. list[i].since \in Int
      BY <3>2 DEF ListEntry
    <3>5. list[i].since <= event + 1
      BY <3>1, <3>2, <3>4
    <3> QED
      BY <3>3, <3>5
  <2>3. \A i : ~Seen(i)'
    BY <1>1 DEF Seen
  <2>4. event' - 1 = event
    BY <1>4, ServerFacts
  <2> QED
    BY <1>2, <1>4, <2>1, <2>2, <2>3, <2>4 DEF ListInv
<1>8. SentInv'
  <2>1. ASSUME NEW i \in 1..Len(sent)
        PROVE  Answers(sent[i], requests, passes')
    BY <1>3, ServerFacts, AnswersKept DEF ServerInv, ServerType, SentInv
  <2> QED
    BY <1>2, <2>1 DEF SentInv
<1> QED
  BY <1>5, <1>6, <1>7, <1>8 DEF ServerInv

\* Calls that are served become entries at the head of the list.
LEMMA ServeCallsStep ==
  ASSUME ServerInv, NEW k \in 1..Len(calls), ServeCalls(k)
  PROVE  ServerInv'
<1> DEFINE f == [i \in 1..k |-> Entry(calls[i])]
<1>1. /\ spc \in {"blocking", "polling"} /\ spc' = "scanning"
      /\ list' = Reverse(f) \o list
      /\ calls' = SubSeq(calls, k + 1, Len(calls))
      /\ scan' = 1 /\ pending' = 0 /\ processed' = FALSE
  BY DEF ServeCalls, BeginScan
<1>2. UNCHANGED <<requests, passes, began, rpc_pend, rpc_control, sent>>
  BY DEF ServeCalls, cvars
<1>3. event' = event /\ event >= 1
  BY <1>1, <1>2 DEF event, ServerInv, ListInv
<1>4. ASSUME NEW i \in 1..k
      PROVE  /\ Entry(calls[i]) \in ListEntry
             /\ Waits1(Entry(calls[i]), event - 1, requests, passes)
             /\ Entry(calls[i]).since <= event
  <2> i \in 1..Len(calls)
    BY ServerFacts
  <2>1. calls[i] \in 1..Len(requests)
    BY DEF ServerInv, ServerType
  <2>2. requests[calls[i]] \in Request
    BY <2>1, ElementOfSeq DEF ServerInv, ServerType
  <2>3. requests[calls[i]].wait \in Nat
    BY <2>2 DEF Request
  <2>4. calls[i] \in Nat /\ event \in Nat
    BY <2>1, ServerFacts
  <2> DEFINE e == Entry(calls[i])
  <2>5. e = [req |-> calls[i], wait |-> requests[calls[i]].wait, since |-> event]
    BY DEF Entry
  <2>6. requests[calls[i]].wait \in Int
    BY <2>3
  <2>7. e \in ListEntry /\ e.req = calls[i] /\ e.wait = requests[e.req].wait /\ e.since = event
    BY <2>4, <2>5, <2>6 DEF ListEntry
  <2> HIDE DEF e
  <2>8. Waits1(e, event - 1, requests, passes)
    <3>1. e.since \in 1..(event - 1 + 1) /\ event - 1 + 1 - e.since = 0
      BY <1>3, <2>4, <2>7
    <3>2. \A t : ~(t \in e.since..(event - 1))
      BY <2>4, <2>7
    <3>3. e.wait = requests[e.req].wait - (event - 1 + 1 - e.since) /\ e.wait >= 0
      BY <3>1, <2>3, <2>7
    <3> QED
      BY <2>1, <2>7, <3>1, <3>2, <3>3 DEF Waits1
  <2>9. e.since <= event
    BY <2>4, <2>7
  <2> QED
    BY <2>7, <2>8, <2>9 DEF e
<1>5. f \in Seq(ListEntry) /\ Len(f) = k /\ \A i \in 1..k : f[i] = Entry(calls[i])
  BY <1>4, ServerFacts
<1> HIDE DEF f
<1>6. /\ Reverse(f) \in Seq(ListEntry) /\ Len(Reverse(f)) = k
      /\ \A j \in 1..k : Reverse(f)[j] = f[k - j + 1]
  BY <1>5, ReverseElements
<1>7. /\ list' \in Seq(ListEntry)
      /\ Len(list') = k + Len(list)
      /\ \A i \in 1..(k + Len(list)) :
           list'[i] = IF i <= k THEN Reverse(f)[i] ELSE list[i - k]
  <2>1. list \in Seq(ListEntry) /\ list' = Reverse(f) \o list
    BY <1>1 DEF ServerInv, ServerType
  <2>2. k \in Nat
    BY ServerFacts
  <2> QED
    BY <1>6, <2>1, <2>2, ConcatProperties
<1>8. /\ calls' \in Seq(Nat)
      /\ \A i \in 1..Len(calls') : calls'[i] \in 1..Len(requests)
  <2>1. \A i \in (k + 1)..Len(calls) : calls[i] \in 1..Len(requests)
    <3>1. \A i \in (k + 1)..Len(calls) : i \in 1..Len(calls)
      BY ServerFacts
    <3> QED
      BY <3>1 DEF ServerInv, ServerType
  <2>2. calls' \in Seq(1..Len(requests))
    BY <1>1, <2>1, ServerFacts, SubSeqProperties
  <2>3. 1..Len(requests) \subseteq Nat
    BY ServerFacts
  <2> QED
    BY <2>2, <2>3, SeqMonotonic, ElementOfSeq
<1>9. ServerType'
  <2>1. /\ scan' \in Nat \ {0} /\ pending' \in Nat
        /\ processed' \in BOOLEAN
    <3>1. 1 \in Nat \ {0} /\ 0 \in Nat
      OBVIOUS
    <3> QED
      BY <1>1, <3>1, Zenon
  <2>2. /\ requests' \in Seq(Request) /\ passes' \in Seq(BOOLEAN) /\ sent' \in Seq(SentCallback)
        /\ began' \in Int /\ rpc_pend' \in Nat /\ rpc_control' \in Int
    BY <1>2 DEF ServerInv, ServerType
  <2>3. /\ list' \in Seq(ListEntry) /\ calls' \in Seq(Nat)
        /\ \A i \in 1..Len(calls') : calls'[i] \in 1..Len(requests')
    BY <1>2, <1>7, <1>8
  <2> QED
    BY <1>1, <2>1, <2>2, <2>3 DEF ServerType
<1>10. BlockInv'
  <2>1. list' # <<>>
    BY <1>7, ServerFacts
  <2>2. scan' <= Len(list') + 1
    BY <1>1, <1>7, ServerFacts
  <2> QED
    BY <1>1, <2>1, <2>2 DEF BlockInv
<1>11. ListInv'
  <2>1. ASSUME NEW i \in 1..Len(list')
        PROVE  Waits1(list'[i], event - 1, requests, passes) /\ list'[i].since <= event
    <3>1. i \in 1..(k + Len(list))
      BY <1>7
    <3>2. CASE i <= k
      <4>1. list'[i] = Entry(calls[k - i + 1]) /\ k - i + 1 \in 1..k
        BY <1>5, <1>6, <1>7, <3>1, <3>2
      <4> QED
        BY <1>4, <4>1
    <3>3. CASE ~(i <= k)
      <4>1. list'[i] = list[i - k] /\ i - k \in 1..Len(list)
        BY <1>7, <3>1, <3>3, ServerFacts
      <4>2. ~Seen(i - k)
        BY <1>1 DEF Seen
      <4> QED
        BY <4>1, <4>2 DEF ServerInv, ListInv
    <3> QED
      BY <3>2, <3>3
  <2>2. \A i \in 1..Len(list') : ~Seen(i)'
    BY <1>1, <1>7, ServerFacts DEF Seen
  <2> QED
    BY <1>2, <1>3, <2>1, <2>2 DEF ListInv
<1>12. SentInv'
  BY <1>2 DEF ServerInv, SentInv
<1> QED
  BY <1>9, <1>10, <1>11, <1>12 DEF ServerInv

\* A call that makes no request, or none at all
LEMMA ServeOtherStep ==
  ASSUME ServerInv, spc \in {"blocking", "polling"}, BeginScan,
         requests' = requests, calls' = calls, passes' = passes, began' = began,
         list' = list, rpc_pend' = rpc_pend, sent' = sent, rpc_control' \in Int
  PROVE  ServerInv'
<1>1. spc' = "scanning" /\ scan' = 1 /\ pending' = 0 /\ processed' = FALSE
  BY DEF BeginScan
<1>2. event' = event
  BY DEF event
<1>3. ServerType'
  <2>1. /\ scan' \in Nat \ {0} /\ pending' \in Nat
        /\ processed' \in BOOLEAN
    <3>1. 1 \in Nat \ {0} /\ 0 \in Nat
      OBVIOUS
    <3> QED
      BY <1>1, <3>1, Zenon
  <2>2. /\ requests' \in Seq(Request) /\ passes' \in Seq(BOOLEAN) /\ sent' \in Seq(SentCallback)
        /\ began' \in Int /\ rpc_pend' \in Nat /\ list' \in Seq(ListEntry)
    BY DEF ServerInv, ServerType
  <2>3. calls' \in Seq(Nat) /\ \A i \in 1..Len(calls') : calls'[i] \in 1..Len(requests')
    BY DEF ServerInv, ServerType
  <2> QED
    BY <1>1, <2>1, <2>2, <2>3 DEF ServerType
<1>4. BlockInv'
  <2>1. rpc_pend # 0 => list # <<>>
    BY DEF ServerInv, BlockInv
  <2>2. scan' <= Len(list) + 1 /\ pending' = scan' - 1
    BY <1>1, ServerFacts
  <2> QED
    BY <1>1, <2>1, <2>2 DEF BlockInv
<1>5. ListInv'
  <2>1. \A i \in 1..Len(list) : ~Seen(i)
    BY DEF Seen
  <2>2. \A i \in 1..Len(list) : ~(i < 1)
    BY ServerFacts
  <2>3. \A i \in 1..Len(list) : ~Seen(i)'
    BY <1>1, <2>2 DEF Seen
  <2>4. event >= 1
    BY DEF ServerInv, ListInv
  <2>5. \A i \in 1..Len(list) :
          Waits1(list[i], event - 1, requests, passes) /\ list[i].since <= event
    BY <2>1 DEF ServerInv, ListInv
  <2> QED
    BY <1>2, <2>3, <2>4, <2>5 DEF ListInv
<1>6. SentInv'
  BY DEF ServerInv, SentInv
<1> QED
  BY <1>3, <1>4, <1>5, <1>6 DEF ServerInv

\* daVarCallBack leaves the entry on the list: it has waited for this event too.
LEMMA WaitsOnStep ==
  ASSUME ServerInv, WaitsOn
  PROVE  ServerInv'
<1> DEFINE e2 == [list[scan] EXCEPT !.wait = @ - 1]
<1>1. /\ spc = "scanning" /\ scan <= Len(list) /\ ~passes[event] /\ list[scan].wait > 0
      /\ list' = [list EXCEPT ![scan] = e2]
      /\ scan' = scan + 1 /\ pending' = pending + 1
  BY DEF WaitsOn, Scanned
<1>2. /\ spc' = spc /\ requests' = requests /\ calls' = calls /\ passes' = passes
      /\ began' = began /\ processed' = processed /\ rpc_pend' = rpc_pend
      /\ rpc_control' = rpc_control /\ sent' = sent
  BY DEF WaitsOn, cvars, net
<1>3. event' = event /\ event \in Nat /\ event >= 1
  BY <1>1, <1>2, ServerFacts DEF event, ServerInv, ListInv
<1>4. scan \in Nat /\ pending \in Nat /\ scan \in 1..Len(list) /\ pending = scan - 1
  BY <1>1, ServerFacts DEF ServerInv, ServerType, BlockInv
<1>5. list[scan] \in ListEntry
  BY <1>4, ServerFacts
<1>6. /\ e2.req = list[scan].req /\ e2.since = list[scan].since
      /\ e2.wait = list[scan].wait - 1 /\ e2 \in ListEntry
  BY <1>5 DEF ListEntry
<1> HIDE DEF e2
<1>7. /\ list' \in Seq(ListEntry) /\ Len(list') = Len(list) /\ list'[scan] = e2
      /\ \A i \in 1..Len(list) : i # scan => list'[i] = list[i]
  BY <1>1, <1>4, <1>6, ExceptSeq DEF ServerInv, ServerType
<1>8. ServerType'
  <2>1. scan' \in Nat \ {0} /\ pending' \in Nat
    BY <1>1, <1>4
  <2>2. /\ spc' \in {"analyzing", "blocking", "polling", "scanning", "calling back"}
        /\ requests' \in Seq(Request) /\ passes' \in Seq(BOOLEAN) /\ sent' \in Seq(SentCallback)
        /\ began' \in Int /\ rpc_pend' \in Nat /\ rpc_control' \in Int /\ processed' \in BOOLEAN
    BY <1>2 DEF ServerInv, ServerType
  <2>3. calls' \in Seq(Nat) /\ \A i \in 1..Len(calls') : calls'[i] \in 1..Len(requests')
    BY <1>2 DEF ServerInv, ServerType
  <2> QED
    BY <1>7, <2>1, <2>2, <2>3 DEF ServerType
<1>9. BlockInv'
  <2>1. pending' = scan' - 1 /\ scan' <= Len(list') + 1
    BY <1>1, <1>4, <1>7, ServerFacts
  <2>2. list' # <<>>
    BY <1>4, <1>7, ServerFacts
  <2> QED
    BY <1>1, <1>2, <2>1, <2>2 DEF BlockInv
<1>10. ListInv'
  <2>1. ~Seen(scan)
    BY <1>1, <1>4 DEF Seen
  <2>2. Waits1(list[scan], event - 1, requests, passes) /\ list[scan].since <= event
    BY <1>4, <2>1 DEF ServerInv, ListInv
  <2>3. Waits1(e2, event, requests, passes) /\ e2.since <= event
    <3>1. /\ list[scan].since \in Int /\ list[scan].wait \in Int
      BY <1>5 DEF ListEntry
    <3>2. e2.req \in 1..Len(requests) /\ requests[e2.req].wait \in Int
      <4>1. e2.req \in 1..Len(requests)
        BY <1>6, <2>2 DEF Waits1
      <4>2. requests[e2.req] \in Request
        BY <4>1, ElementOfSeq DEF ServerInv, ServerType
      <4> QED
        BY <4>1, <4>2 DEF Request
    <3>3. /\ list[scan].since \in 1..(event - 1 + 1)
          /\ list[scan].wait = requests[list[scan].req].wait - (event - 1 + 1 - list[scan].since)
          /\ \A t \in list[scan].since..(event - 1) : ~passes[t]
      BY <2>2 DEF Waits1
    <3>4. e2.since \in 1..(event + 1) /\ e2.since <= event
      BY <1>3, <1>6, <2>2, <3>1, <3>3
    <3>5. e2.wait = requests[e2.req].wait - (event + 1 - e2.since) /\ e2.wait >= 0
      <4> DEFINE w == requests[e2.req].wait
                 d == list[scan].since
      <4>1. w \in Int /\ d \in Int /\ event \in Int
        BY <1>3, <3>1, <3>2
      <4>2. list[scan].wait = w - (event - 1 + 1 - d) /\ e2.since = d
        BY <1>6, <3>3
      <4> HIDE DEF w, d
      <4>3. e2.wait = w - (event + 1 - d)
        BY <1>6, <4>1, <4>2
      <4>4. e2.wait >= 0
        BY <1>1, <1>6, <3>1
      <4> QED
        BY <4>2, <4>3, <4>4 DEF w, d
    <3>6. ASSUME NEW t \in e2.since..event PROVE ~passes[t]
      <4>1. CASE t = event
        BY <1>1, <4>1
      <4>2. CASE t # event
        <5>1. t \in list[scan].since..(event - 1)
          BY <1>3, <1>6, <3>1, <4>2
        <5> QED
          BY <3>3, <5>1
      <4> QED
        BY <4>1, <4>2
    <3> QED
      BY <3>2, <3>4, <3>5, <3>6 DEF Waits1
  <2>4. ASSUME NEW i \in 1..Len(list), i # scan
        PROVE  /\ Waits1(list[i], IF Seen(i) THEN event ELSE event - 1, requests, passes)
               /\ list[i].since <= event /\ list'[i] = list[i] /\ Seen(i)' = Seen(i)
    <3>1. Seen(i)' = Seen(i)
      BY <1>1, <1>2, <1>4, <2>4 DEF Seen
    <3>2. list'[i] = list[i]
      BY <1>7, <2>4
    <3> QED
      BY <3>1, <3>2 DEF ServerInv, ListInv
  <2>5. spc' = "scanning" /\ scan < scan'
    BY <1>1, <1>2, <1>4
  <2>6. ASSUME NEW i \in 1..Len(list)
        PROVE  /\ Waits1(list'[i], IF Seen(i)' THEN event ELSE event - 1, requests, passes)
               /\ list'[i].since <= event
    <3>1. CASE i = scan
      BY <1>7, <2>3, <2>5, <3>1 DEF Seen
    <3>2. CASE i # scan
      BY <2>4, <3>2
    <3> QED
      BY <3>1, <3>2
  <2> QED
    BY <1>2, <1>3, <1>7, <2>6 DEF ListInv
<1>11. SentInv'
  BY <1>2 DEF ServerInv, SentInv
<1> QED
  BY <1>8, <1>9, <1>10, <1>11 DEF ServerInv

\* The callback holds what the entry promises.
LEMMA CallsBackStep ==
  ASSUME ServerInv, CallsBack
  PROVE  ServerInv'
<1> DEFINE m == Callback(list[scan])
<1>1. /\ spc = "scanning" /\ scan <= Len(list) /\ sent' = Append(sent, m)
      /\ spc' = "calling back"
  BY DEF CallsBack, Scanned
<1>2. /\ requests' = requests /\ calls' = calls /\ passes' = passes /\ list' = list
      /\ began' = began /\ processed' = processed /\ rpc_pend' = rpc_pend
      /\ rpc_control' = rpc_control /\ scan' = scan /\ pending' = pending
  BY DEF CallsBack, cvars, scanning
<1>3. event' = event /\ event \in Nat /\ event >= 1 /\ event = Len(passes)
  BY <1>1, <1>2, ServerFacts DEF event, ServerInv, ListInv
<1>4. scan \in Nat /\ scan \in 1..Len(list)
  <2>1. scan \in Nat \ {0}
    BY DEF ServerInv, ServerType
  <2>2. scan <= Len(list) /\ Len(list) \in Nat
    BY <1>1, ServerFacts
  <2> QED
    BY <2>1, <2>2
<1>5. list[scan] \in ListEntry /\ list[scan].since \in Nat
  BY <1>4, ServerFacts DEF ListEntry
<1>6. ~Seen(scan)
  <2>1. ~(scan < scan)
    BY <1>4
  <2> QED
    BY <1>1, <2>1 DEF Seen
<1>7. Waits1(list[scan], event - 1, requests, passes) /\ list[scan].since <= event
  BY <1>4, <1>6 DEF ServerInv, ListInv
<1>8. list[scan].req \in 1..Len(requests) /\ requests[list[scan].req] \in Request
  BY <1>7, ElementOfSeq DEF Waits1, ServerInv, ServerType
<1>9. /\ m.req = list[scan].req /\ m.since = list[scan].since /\ m.event = event
      /\ m.len > 0 => passes[event]
      /\ m \in SentCallback
  <2>1. requests[list[scan].req].len \in Nat /\ list[scan].req \in Nat
    BY <1>8, ServerFacts DEF Request
  <2>2. (IF passes[event] THEN requests[list[scan].req].len ELSE 0) \in Nat
    BY <2>1
  <2> QED
    BY <1>3, <1>5, <2>1, <2>2 DEF Callback, SentCallback
<1> HIDE DEF m
<1>10. Answers(m, requests, passes)
  <2>1. requests[list[scan].req].wait \in Int /\ list[scan].wait \in Int
    BY <1>5, <1>8 DEF Request, ListEntry
  <2>2. /\ list[scan].since \in 1..(event - 1 + 1)
        /\ list[scan].wait = requests[list[scan].req].wait - (event - 1 + 1 - list[scan].since)
        /\ list[scan].wait >= 0
        /\ \A t \in list[scan].since..(event - 1) : ~passes[t]
    BY <1>7 DEF Waits1
  <2>3. event - list[scan].since <= requests[list[scan].req].wait
    BY <1>3, <1>5, <2>1, <2>2
  <2>4. list[scan].since \in 1..event
    BY <1>3, <1>5, <2>2
  <2> QED
    BY <1>3, <1>8, <1>9, <2>2, <2>3, <2>4 DEF Answers
<1>11. ServerType'
  <2>1. sent' \in Seq(SentCallback)
    BY <1>1, <1>9, AppendExtends DEF ServerInv, ServerType
  <2>2. /\ requests' \in Seq(Request) /\ passes' \in Seq(BOOLEAN) /\ list' \in Seq(ListEntry)
        /\ began' \in Int /\ rpc_pend' \in Nat /\ rpc_control' \in Int /\ processed' \in BOOLEAN
        /\ scan' \in Nat \ {0} /\ pending' \in Nat
    BY <1>2 DEF ServerInv, ServerType
  <2>3. calls' \in Seq(Nat) /\ \A i \in 1..Len(calls') : calls'[i] \in 1..Len(requests')
    BY <1>2 DEF ServerInv, ServerType
  <2> QED
    BY <1>1, <2>1, <2>2, <2>3 DEF ServerType
<1>12. BlockInv'
  BY <1>1, <1>2 DEF ServerInv, BlockInv
<1>13. ListInv'
  <2>1. \A i : Seen(i)' = Seen(i)
    BY <1>1, <1>2 DEF Seen
  <2> QED
    BY <1>1, <1>2, <1>3, <2>1 DEF ServerInv, ListInv
<1>14. SentInv'
  <2>1. /\ Extended(sent, sent') /\ Len(sent') = Len(sent) + 1 /\ sent'[Len(sent) + 1] = m
    <3>1. sent \in Seq(SentCallback) /\ m \in SentCallback
      BY <1>9 DEF ServerInv, ServerType
    <3> QED
      BY <1>1, <3>1, AppendExtends
  <2>2. ASSUME NEW i \in 1..Len(sent') PROVE Answers(sent'[i], requests, passes)
    <3>1. CASE i = Len(sent) + 1
      BY <1>10, <2>1, <3>1
    <3>2. CASE i \in 1..Len(sent)
      BY <2>1, <3>2 DEF Extended, ServerInv, SentInv
    <3> QED
      BY <2>1, <3>1, <3>2, ServerFacts
  <2> QED
    BY <1>2, <2>2 DEF SentInv
<1> QED
  BY <1>11, <1>12, <1>13, <1>14 DEF ServerInv

\* The entry that has been called back is taken off; those after it move up.
LEMMA CalledBackStep ==
  ASSUME ServerInv, CalledBack
  PROVE  ServerInv'
<1>1. /\ spc = "calling back" /\ spc' = "scanning" /\ list' = RemoveAt(list, scan)
      /\ processed' = TRUE
  BY DEF CalledBack
<1>2. /\ requests' = requests /\ calls' = calls /\ passes' = passes /\ began' = began
      /\ scan' = scan /\ pending' = pending /\ rpc_pend' = rpc_pend
      /\ rpc_control' = rpc_control /\ sent' = sent
  BY DEF CalledBack, cvars, net
<1>3. event' = event
  BY <1>2 DEF event
<1>4. scan \in Nat \ {0} /\ scan <= Len(list) /\ Len(list) \in Nat /\ list \in Seq(ListEntry)
  BY <1>1, ServerFacts DEF ServerInv, ServerType, BlockInv
<1>5. scan \in 1..Len(list)
  BY <1>4
<1>6. /\ list' \in Seq(ListEntry) /\ Len(list') = Len(list) - 1
      /\ \A j \in 1..(Len(list) - 1) :
           list'[j] = IF j < scan THEN list[j] ELSE list[j + 1]
  BY <1>1, <1>4, <1>5, RemoveAtElements
<1>7. ServerType'
  <2>1. processed' \in BOOLEAN
    BY <1>1
  <2>2. /\ requests' \in Seq(Request) /\ passes' \in Seq(BOOLEAN) /\ sent' \in Seq(SentCallback)
        /\ began' \in Int /\ rpc_pend' \in Nat /\ rpc_control' \in Int
        /\ scan' \in Nat \ {0} /\ pending' \in Nat
    BY <1>2 DEF ServerInv, ServerType
  <2>3. calls' \in Seq(Nat) /\ \A i \in 1..Len(calls') : calls'[i] \in 1..Len(requests')
    BY <1>2 DEF ServerInv, ServerType
  <2> QED
    BY <1>1, <1>6, <2>1, <2>2, <2>3 DEF ServerType
<1>8. BlockInv'
  <2>1. pending' = scan' - 1
    BY <1>2 DEF ServerInv, BlockInv
  <2>2. scan' <= Len(list') + 1
    BY <1>2, <1>4, <1>6
  <2> QED
    BY <1>1, <2>1, <2>2 DEF BlockInv
<1>9. ListInv'
  <2>1. event >= 1
    BY <1>1 DEF ServerInv, ListInv
  <2>2. ASSUME NEW j \in 1..Len(list')
        PROVE  /\ Waits1(list'[j], IF Seen(j)' THEN event ELSE event - 1, requests, passes)
               /\ list'[j].since <= event
    <3>1. j \in 1..(Len(list) - 1) /\ j \in 1..Len(list) /\ j + 1 \in 1..Len(list)
      BY <1>4, <1>6
    <3>2. CASE j < scan
      <4>1. Seen(j)
        BY <1>1, <3>2 DEF Seen
      <4>2. Seen(j)'
        BY <1>1, <1>2, <3>2 DEF Seen
      <4>3. list'[j] = list[j]
        BY <1>6, <3>1, <3>2
      <4> QED
        BY <3>1, <4>1, <4>2, <4>3 DEF ServerInv, ListInv
    <3>3. CASE ~(j < scan)
      <4>1. ~(j + 1 < scan)
        BY <1>4, <3>1, <3>3
      <4>2. ~Seen(j + 1)
        BY <1>1, <4>1 DEF Seen
      <4>3. ~Seen(j)'
        BY <1>1, <1>2, <3>3 DEF Seen
      <4>4. list'[j] = list[j + 1]
        BY <1>6, <3>1, <3>3
      <4> QED
        BY <3>1, <4>2, <4>3, <4>4 DEF ServerInv, ListInv
    <3> QED
      BY <3>2, <3>3
  <2> QED
    BY <1>2, <1>3, <2>1, <2>2 DEF ListInv
<1>10. SentInv'
  BY <1>2 DEF ServerInv, SentInv
<1> QED
  BY <1>7, <1>8, <1>9, <1>10 DEF ServerInv

\* At the end every entry has been counted, so that a result of 0 means an empty list.
LEMMA ResultEmpty ==
  ASSUME ServerInv, spc = "scanning", scan > Len(list)
  PROVE  /\ pending = Len(list) /\ (pending = 0 <=> list = <<>>)
         /\ Result = 0 => list = <<>> /\ ~processed
         /\ Result \in Int
         /\ (IF Result < 0 THEN 0 ELSE Result) = pending
<1>1. scan \in Nat \ {0} /\ pending \in Nat /\ pending = scan - 1 /\ scan <= Len(list) + 1
  BY DEF ServerInv, ServerType, BlockInv
<1>2. Len(list) \in Nat /\ list \in Seq(ListEntry)
  BY ServerFacts DEF ServerInv, ServerType
<1>3. pending = Len(list)
  BY <1>1, <1>2
<1>4. Len(list) = 0 <=> list = <<>>
  BY <1>2, EmptySeq
<1>5. Result = -1 \/ Result = pending
  BY DEF Result
<1>6. processed /\ pending = 0 => Result = -1
  BY DEF Result
<1>7. ~(processed /\ pending = 0) => Result = pending
  BY DEF Result
<1>8. Result = 0 => pending = 0 /\ ~processed
  <2>1. CASE pending = 0
    BY <1>6, <2>1
  <2>2. CASE pending # 0
    BY <1>5, <2>2
  <2> QED
    BY <2>1, <2>2
<1>9. Result \in Int /\ (IF Result < 0 THEN 0 ELSE Result) = pending
  <2>1. CASE pending = 0
    BY <1>5, <2>1
  <2>2. CASE pending # 0
    <3>1. Result = pending
      BY <1>7, <2>2
    <3> QED
      BY <1>1, <3>1
  <2> QED
    BY <2>1, <2>2
<1> QED
  BY <1>3, <1>4, <1>8, <1>9

\* At the end of a scan all entries have seen the event.
LEMMA ScanEndsStep ==
  ASSUME ServerInv, ScanEnds
  PROVE  ServerInv'
<1>1. spc = "scanning" /\ scan > Len(list) /\ spc' \in {"blocking", "analyzing"}
  BY DEF ScanEnds
<1>2. /\ requests' = requests /\ calls' = calls /\ passes' = passes /\ began' = began
      /\ list' = list /\ scan' = scan /\ pending' = pending /\ processed' = processed
      /\ sent' = sent
  BY DEF ScanEnds, cvars, net, scanning
<1>3. event' = event
  BY <1>2 DEF event
<1>4. rpc_pend \in Nat /\ rpc_control \in Int /\ pending \in Nat
  BY DEF ServerInv, ServerType
<1>5. /\ spc' = "blocking" => /\ rpc_pend' = 0 /\ rpc_pend = 0 /\ rpc_control' = 0
                              /\ rpc_control = 0 /\ Result = 0
      /\ spc' = "analyzing" => /\ rpc_pend' = pending
                               /\ rpc_control' = rpc_control - 1 \/ rpc_control' = rpc_control
  BY <1>1, ResultEmpty DEF ScanEnds, Done
<1>6. ServerType'
  <2>1. rpc_pend' \in Nat /\ rpc_control' \in Int
    BY <1>1, <1>4, <1>5
  <2>2. /\ requests' \in Seq(Request) /\ passes' \in Seq(BOOLEAN) /\ sent' \in Seq(SentCallback)
        /\ began' \in Int /\ list' \in Seq(ListEntry)
        /\ scan' \in Nat \ {0} /\ pending' \in Nat /\ processed' \in BOOLEAN
    BY <1>2 DEF ServerInv, ServerType
  <2>3. calls' \in Seq(Nat) /\ \A i \in 1..Len(calls') : calls'[i] \in 1..Len(requests')
    BY <1>2 DEF ServerInv, ServerType
  <2> QED
    BY <1>1, <2>1, <2>2, <2>3 DEF ServerType
<1>7. BlockInv'
  <2>1. pending' = scan' - 1 /\ scan' <= Len(list') + 1
    BY <1>2 DEF ServerInv, BlockInv
  <2>2. CASE spc' = "blocking"
    BY <1>1, <1>2, <1>5, <2>1, <2>2, ResultEmpty DEF BlockInv
  <2>3. CASE spc' = "analyzing"
    BY <1>1, <1>2, <1>5, <2>1, <2>3, ResultEmpty DEF BlockInv
  <2> QED
    BY <1>1, <2>2, <2>3
<1>8. ListInv'
  <2>1. event >= 1
    BY <1>1 DEF ServerInv, ListInv
  <2>2. CASE spc' = "blocking"
    <3>1. list' = <<>>
      BY <1>1, <1>2, <1>5, <2>2, ResultEmpty
    <3>2. \A i : ~(i \in 1..Len(list'))
      BY <3>1, EmptySeq
    <3> QED
      BY <1>3, <2>1, <3>2 DEF ListInv
  <2>3. CASE spc' = "analyzing"
    <3>1. \A i \in 1..Len(list) : i < scan
      BY <1>1, ServerFacts DEF ServerInv, ServerType
    <3>2. \A i \in 1..Len(list) : Seen(i) /\ Seen(i)'
      BY <1>1, <2>3, <3>1 DEF Seen
    <3> QED
      BY <1>2, <1>3, <2>1, <3>2 DEF ServerInv, ListInv
  <2> QED
    BY <1>1, <2>2, <2>3
<1>9. SentInv'
  BY <1>2 DEF ServerInv, SentInv
<1> QED
  BY <1>6, <1>7, <1>8, <1>9 DEF ServerInv

(***************************************************************************)
(* The theorems                                                            *)
(***************************************************************************)

\* The list is empty at first.
LEMMA ServerInit == Init => ServerInv
<1> SUFFICES ASSUME Init PROVE ServerInv
  OBVIOUS
<1>1. Len(<<>>) = 0 /\ \A S : <<>> \in Seq(S)
  BY EmptySeq
<1>2. \A i : ~(i \in 1..0)
  OBVIOUS
<1>3. rpc_control \in Int
  BY RpcAssumption DEF Init
<1>4. /\ requests = <<>> /\ calls = <<>> /\ passes = <<>> /\ list = <<>> /\ sent = <<>>
      /\ spc = "analyzing" /\ scan = 1 /\ pending = 0 /\ processed = FALSE
      /\ rpc_pend = 0 /\ began = -1
  BY DEF Init
<1>5. ServerType
  <2>1. scan \in Nat \ {0} /\ pending \in Nat /\ began \in Int /\ rpc_pend \in Nat
    BY <1>4
  <2>2. processed \in BOOLEAN
    BY <1>4
  <2> QED
    BY <1>1, <1>2, <1>3, <1>4, <2>1, <2>2 DEF ServerType
<1>6. BlockInv
  BY <1>1, <1>4 DEF BlockInv
<1>7. ListInv /\ SentInv
  BY <1>1, <1>2, <1>4 DEF ListInv, SentInv
<1> QED
  BY <1>5, <1>6, <1>7 DEF ServerInv

\* Every step keeps the invariant of the server.
LEMMA ServerNext1 == ServerInv /\ [Next]_vars => ServerInv'
<1> SUFFICES ASSUME ServerInv, [Next]_vars PROVE ServerInv'
  OBVIOUS
<1>1. ASSUME NEW len \in Lens, NEW wait \in Waits, Call(len, wait) PROVE ServerInv'
  BY <1>1, CallStep
<1>2. CASE CallReturns
  BY <1>2, OtherStep DEF CallReturns, net
<1>3. CASE CallFails
  BY <1>3, OtherStep DEF CallFails, Return
<1>4. ASSUME NEW k \in 1..Len(inbox), Serve(k) PROVE ServerInv'
  BY <1>4, OtherStep DEF Serve, Return
<1>5. CASE WaitEnds
  BY <1>5, OtherStep DEF WaitEnds, Return
<1>6. ASSUME NEW pass \in BOOLEAN, Analyze(pass) PROVE ServerInv'
  BY <1>6, AnalyzeStep
<1>7. ASSUME NEW k \in 1..Len(calls), ServeCalls(k) PROVE ServerInv'
  BY <1>7, ServeCallsStep
<1>8. CASE ServeNothing
  <2>1. rpc_control' \in Int
    BY <1>8 DEF ServeNothing, ServerInv, ServerType
  <2> QED
    BY <1>8, <2>1, ServeOtherStep DEF ServeNothing, cvars, net
<1>9. CASE WaitsOn
  BY <1>9, WaitsOnStep
<1>10. CASE CallsBack
  BY <1>10, CallsBackStep
<1>11. CASE CalledBack
  BY <1>11, CalledBackStep
<1>12. CASE ScanEnds
  BY <1>12, ScanEndsStep
<1>13. ASSUME NEW control \in Controls, ServeWrite(control) PROVE ServerInv'
  <2>1. rpc_control' \in Int
    BY <1>13, RpcAssumption DEF ServeWrite
  <2> QED
    BY <1>13, <2>1, ServeOtherStep DEF ServeWrite, cvars, net
<1>14. CASE UNCHANGED vars
  BY <1>14, OtherStep DEF vars, cvars, net
<1>15. CASE ClientNext
  BY <1>15, <1>2, <1>3, <1>4, <1>5 DEF ClientNext
<1>16. CASE ServerNext
  BY <1>16, <1>6, <1>7, <1>8, <1>9, <1>10, <1>11, <1>12 DEF ServerNext
<1> QED
  BY <1>1, <1>13, <1>14, <1>15, <1>16 DEF Next

\* The server's invariant holds in every run.
THEOREM ServerInvariant == Spec => []ServerInv
BY ServerInit, ServerNext1, PTL DEF Spec

\* For any number of requests and events the engine does not wait in thservone(-1)
\* (engine.f) while a request is on the list.
THEOREM NeverBlocksWaiterHolds == Spec => []NeverBlocksWaiter
<1>1. ServerInv => NeverBlocksWaiter
  BY DEF ServerInv, BlockInv, NeverBlocksWaiter
<1> QED
  BY <1>1, ServerInvariant, PTL

\* daVarCallBack answers with the first event that passes (daVarRpcProc.c), for any
\* list of requests and any waits.
THEOREM FirstMatchHolds == Spec => []FirstMatch
<1>1. ServerInv => FirstMatch
  <2> SUFFICES ASSUME ServerInv, NEW i \in DOMAIN sent, sent[i].len > 0
               PROVE  /\ passes[sent[i].event]
                      /\ \A e \in sent[i].since..(sent[i].event - 1) : ~passes[e]
    BY DEF FirstMatch
  <2>1. i \in 1..Len(sent)
    BY LenProperties DEF ServerInv, ServerType
  <2> QED
    BY <2>1 DEF ServerInv, SentInv, Answers
<1> QED
  BY <1>1, ServerInvariant, PTL

\* A request is kept for max_event_wait events at most, whatever the others do.
THEOREM WaitBoundedHolds == Spec => []WaitBounded
<1>1. ServerInv => WaitBounded
  <2> SUFFICES ASSUME ServerInv PROVE WaitBounded
    OBVIOUS
  <2>1. ASSUME NEW i \in DOMAIN sent
        PROVE  sent[i].event - sent[i].since <= requests[sent[i].req].wait
    <3>1. i \in 1..Len(sent)
      BY LenProperties DEF ServerInv, ServerType
    <3> QED
      BY <3>1 DEF ServerInv, SentInv, Answers
  <2>2. ASSUME NEW i \in DOMAIN list
        PROVE  event - list[i].since <= requests[list[i].req].wait
    <3>1. i \in 1..Len(list)
      BY LenProperties DEF ServerInv, ServerType
    <3>2. list[i] \in ListEntry /\ event \in Nat
      BY <3>1, ServerFacts
    <3>3. PICK n \in {event, event - 1} : Waits1(list[i], n, requests, passes)
      BY <3>1 DEF ServerInv, ListInv
    <3>4. list[i].req \in 1..Len(requests)
      BY <3>3 DEF Waits1
    <3>5. requests[list[i].req] \in Request
      BY <3>4, ElementOfSeq DEF ServerInv, ServerType
    <3> DEFINE w == requests[list[i].req].wait
               d == list[i].since
    <3>6. w \in Int /\ d \in Int /\ list[i].wait \in Int
      BY <3>2, <3>5 DEF Request, ListEntry
    <3>7. list[i].wait = w - (n + 1 - d) /\ list[i].wait >= 0
      BY <3>3 DEF Waits1
    <3> HIDE DEF w, d
    <3>8. event - d <= w
      BY <3>2, <3>6, <3>7
    <3> QED
      BY <3>8 DEF w, d
  <2> QED
    BY <2>1, <2>2 DEF WaitBounded
<1> QED
  BY <1>1, ServerInvariant, PTL

\* With rpc_control 0 the check for requests (engine.f) does not end before there
\* is one, for any number of events.
THEOREM BlocksOnRpcHolds == Spec => BlocksOnRpc
<1> DEFINE Blocks == spc = "scanning" /\ spc' = "analyzing" /\ began = 0 /\ rpc_control = 0
                       => processed \/ list # <<>>
<1>1. ServerInv /\ [Next]_vars => [Blocks]_vars
  <2> SUFFICES ASSUME ServerInv, Next, spc = "scanning", spc' = "analyzing",
                      began = 0, rpc_control = 0
               PROVE  processed \/ list # <<>>
    OBVIOUS
  <2>1. ScanEnds
    <3>1. UNCHANGED svars => spc' = spc
      BY DEF svars
    <3>2. ~ClientNext
      BY <3>1 DEF ClientNext, CallReturns, CallFails, Serve, WaitEnds, Return
    <3>3. \A len \in Lens, wait \in Waits : ~Call(len, wait)
      BY <3>1 DEF Call
    <3>4. \A control \in Controls : ~ServeWrite(control)
      BY DEF ServeWrite
    <3>5. /\ \A pass \in BOOLEAN : ~Analyze(pass)
          /\ \A k \in 1..Len(calls) : ~ServeCalls(k)
          /\ ~ServeNothing /\ ~WaitsOn /\ ~CallsBack /\ ~CalledBack
      BY DEF Analyze, ServeCalls, ServeNothing, WaitsOn, CallsBack, CalledBack
    <3>6. ServerNext
      BY <3>2, <3>3, <3>4 DEF Next
    <3> QED
      BY <3>5, <3>6 DEF ServerNext
  <2>2. scan > Len(list) /\ ~(rpc_pend = 0 /\ Result = 0)
    BY <2>1 DEF ScanEnds
  <2>3. CASE rpc_pend # 0
    BY <2>3 DEF ServerInv, BlockInv
  <2>4. CASE Result # 0
    <3>1. pending = 0 <=> list = <<>>
      BY <2>2, ResultEmpty
    <3>2. ~processed => Result = pending
      BY DEF Result
    <3> QED
      BY <2>4, <3>1, <3>2
  <2> QED
    BY <2>2, <2>3, <2>4
<1> QED
  BY <1>1, ServerInvariant, PTL DEF Spec, BlocksOnRpc

(***************************************************************************)
(* A request is answered once                                              *)
(***************************************************************************)

\* Request n is on its way to the server, on its list, answered.
CalledFor(n) == \E i \in 1..Len(calls) : calls[i] = n
ListedFor(n) == \E i \in 1..Len(list) : list[i].req = n
SentFor(n) == \E i \in 1..Len(sent) : sent[i].req = n

\* No two calls, no two entries and no two callbacks are for the same request;
\* and each request is at one of these stages, but for the entry whose client is
\* being called back, which is still on the list.
OnceInv ==
  /\ \A i, j \in 1..Len(calls) : calls[i] = calls[j] => i = j
  /\ \A i, j \in 1..Len(list) : list[i].req = list[j].req => i = j
  /\ \A i, j \in 1..Len(sent) : sent[i].req = sent[j].req => i = j
  /\ \A n \in 1..Len(requests) :
       /\ CalledFor(n) \/ ListedFor(n) \/ SentFor(n)
       /\ ~(CalledFor(n) /\ (ListedFor(n) \/ SentFor(n)))
       /\ ListedFor(n) /\ SentFor(n) <=> spc = "calling back" /\ list[scan].req = n

\* The requests that calls, entries and callbacks are for have been made.
LEMMA RequestsMade ==
  ASSUME ServerInv
  PROVE  /\ \A i \in 1..Len(calls) : calls[i] \in 1..Len(requests)
         /\ \A i \in 1..Len(list) : list[i].req \in 1..Len(requests)
         /\ \A i \in 1..Len(sent) : sent[i].req \in 1..Len(requests)
<1>1. \A i \in 1..Len(list) : list[i].req \in 1..Len(requests)
  BY DEF ServerInv, ListInv, Waits1
<1>2. \A i \in 1..Len(sent) : sent[i].req \in 1..Len(requests)
  BY DEF ServerInv, SentInv, Answers
<1> QED
  BY <1>1, <1>2 DEF ServerInv, ServerType

\* Steps that leave the calls, the entries and the callbacks for their requests
LEMMA OnceKept ==
  ASSUME OnceInv, Len(requests') = Len(requests), calls' = calls, sent' = sent,
         Len(list') = Len(list), \A i \in 1..Len(list) : list'[i].req = list[i].req,
         (spc = "calling back") = FALSE, (spc' = "calling back") = FALSE
  PROVE  OnceInv'
<1>1. \A n : /\ CalledFor(n)' <=> CalledFor(n)
             /\ ListedFor(n)' <=> ListedFor(n)
             /\ SentFor(n)' <=> SentFor(n)
  BY DEF CalledFor, ListedFor, SentFor
<1> QED
  BY <1>1 DEF OnceInv

\* Steps of the client that make no request, and what the server is at meanwhile
LEMMA OnceIdle ==
  ASSUME OnceInv, UNCHANGED <<requests, calls, list, sent, spc, scan>>
  PROVE  OnceInv'
<1>1. \A n : /\ CalledFor(n)' <=> CalledFor(n)
             /\ ListedFor(n)' <=> ListedFor(n)
             /\ SentFor(n)' <=> SentFor(n)
  BY DEF CalledFor, ListedFor, SentFor
<1> QED
  BY ZenonT(30), <1>1 DEF OnceInv

\* A new request is called for, and at no other stage.
LEMMA OnceCall ==
  ASSUME ServerInv, OnceInv, NEW len \in Lens, NEW wait \in Waits, Call(len, wait)
  PROVE  OnceInv'
<1> DEFINE N == Len(requests) + 1
<1>1. /\ requests' = Append(requests, [len |-> len, wait |-> wait])
      /\ calls' = Append(calls, Len(requests'))
      /\ UNCHANGED <<list, sent, spc, scan>>
  BY DEF Call, svars, scanning
<1>2. [len |-> len, wait |-> wait] \in Request
  BY RpcAssumption DEF Request
<1>3. Len(requests) \in Nat /\ Len(calls) \in Nat
  BY ServerFacts
<1>4. Len(requests') = N
  BY <1>1, <1>2, AppendExtends DEF ServerInv, ServerType
<1>5. /\ Len(calls') = Len(calls) + 1 /\ calls'[Len(calls) + 1] = N
      /\ \A i \in 1..Len(calls) : calls'[i] = calls[i]
  <2>1. N \in Nat
    BY <1>3
  <2>2. calls \in Seq(Nat)
    BY DEF ServerInv, ServerType
  <2>3. calls' = Append(calls, N)
    BY <1>1, <1>4
  <2> QED
    BY <2>1, <2>2, <2>3, AppendExtends DEF Extended
<1>6. /\ \A i \in 1..Len(calls) : calls[i] \in 1..Len(requests)
      /\ \A i \in 1..Len(list) : list[i].req \in 1..Len(requests)
      /\ \A i \in 1..Len(sent) : sent[i].req \in 1..Len(requests)
  BY RequestsMade
<1>7. ~(N \in 1..Len(requests)) /\ \A n \in 1..N : n \in 1..Len(requests) \/ n = N
  BY <1>3
<1>8. \A i \in 1..(Len(calls) + 1) : i \in 1..Len(calls) \/ i = Len(calls) + 1
  BY <1>3
<1>9. Len(calls) + 1 \in 1..(Len(calls) + 1) /\ \A i \in 1..Len(calls) : i \in 1..(Len(calls) + 1)
  BY <1>3
<1> HIDE DEF N
<1>10. \A n : CalledFor(n)' <=> CalledFor(n) \/ n = N
  BY <1>5, <1>8, <1>9 DEF CalledFor
<1>11. \A n : (ListedFor(n)' <=> ListedFor(n)) /\ (SentFor(n)' <=> SentFor(n))
  BY <1>1 DEF ListedFor, SentFor
<1>12. ~CalledFor(N) /\ ~ListedFor(N) /\ ~SentFor(N)
  BY <1>6, <1>7 DEF CalledFor, ListedFor, SentFor
<1>13. \A i, j \in 1..Len(calls') : calls'[i] = calls'[j] => i = j
  <2>1. \A i, j \in 1..Len(calls) : calls'[i] = calls'[j] => i = j
    BY ZenonT(30), <1>5 DEF OnceInv
  <2>2. \A i \in 1..Len(calls) : calls'[i] # N
    BY <1>5, <1>6, <1>7
  <2> QED
    BY <1>5, <1>8, <2>1, <2>2
<1>14. spc = "calling back" => list[scan].req # N
  <2>1. ASSUME spc = "calling back" PROVE scan \in 1..Len(list)
    <3>1. scan \in Nat \ {0} /\ scan <= Len(list)
      BY <2>1 DEF ServerInv, ServerType, BlockInv
    <3>2. Len(list) \in Nat
      BY ServerFacts
    <3> QED
      BY <3>1, <3>2
  <2> QED
    BY <2>1, <1>6, <1>7
<1>15. \A n \in 1..N :
         /\ CalledFor(n)' \/ ListedFor(n)' \/ SentFor(n)'
         /\ ~(CalledFor(n)' /\ (ListedFor(n)' \/ SentFor(n)'))
         /\ ListedFor(n)' /\ SentFor(n)' <=> spc' = "calling back" /\ list'[scan'].req = n
  BY ZenonT(30), <1>1, <1>7, <1>10, <1>11, <1>12, <1>14 DEF OnceInv
<1> QED
  BY <1>1, <1>4, <1>13, <1>15 DEF OnceInv

\* The calls that are served are on the list instead.
LEMMA OnceServed ==
  ASSUME ServerInv, OnceInv, NEW k \in 1..Len(calls), ServeCalls(k)
  PROVE  OnceInv'
<1> DEFINE f == [i \in 1..k |-> Entry(calls[i])]
<1>1. /\ spc # "calling back" /\ spc' # "calling back"
      /\ list' = Reverse(f) \o list /\ calls' = SubSeq(calls, k + 1, Len(calls))
      /\ requests' = requests /\ sent' = sent
  BY DEF ServeCalls, BeginScan, cvars
<1>2. /\ Len(calls) \in Nat /\ k \in Nat /\ k <= Len(calls) /\ Len(list) \in Nat /\ event \in Nat
      /\ \A i \in 1..k : i \in 1..Len(calls)
  BY ServerFacts
<1>3. f \in Seq(ListEntry) /\ Len(f) = k /\ \A i \in 1..k : f[i].req = calls[i]
  <2>1. ASSUME NEW i \in 1..k PROVE Entry(calls[i]) \in ListEntry /\ Entry(calls[i]).req = calls[i]
    <3>1. calls[i] \in 1..Len(requests) /\ calls[i] \in Nat
      BY <1>2, RequestsMade, ServerFacts
    <3>2. requests[calls[i]] \in Request
      BY <3>1, ElementOfSeq DEF ServerInv, ServerType
    <3>3. requests[calls[i]].wait \in Int
      BY <3>2 DEF Request
    <3> QED
      BY <1>2, <3>1, <3>3 DEF Entry, ListEntry
  <2> QED
    BY <1>2, <2>1
<1> HIDE DEF f
<1>4. /\ Reverse(f) \in Seq(ListEntry) /\ Len(Reverse(f)) = k
      /\ \A j \in 1..k : Reverse(f)[j] = f[k - j + 1]
  BY <1>3, ReverseElements
<1>5. /\ Len(list') = k + Len(list)
      /\ \A i \in 1..(k + Len(list)) :
           list'[i] = IF i <= k THEN Reverse(f)[i] ELSE list[i - k]
  BY ZenonT(30), <1>1, <1>4, ConcatProperties DEF ServerInv, ServerType
<1>6. /\ \A i \in 1..k : k - i + 1 \in 1..k /\ list'[i].req = calls[k - i + 1]
      /\ \A i \in (k + 1)..(k + Len(list)) :
           i - k \in 1..Len(list) /\ list'[i].req = list[i - k].req
  <2>1. ASSUME NEW i \in 1..k PROVE k - i + 1 \in 1..k /\ list'[i].req = calls[k - i + 1]
    <3>1. i \in 1..(k + Len(list)) /\ i <= k /\ k - i + 1 \in 1..k
      BY <1>2
    <3> QED
      BY <3>1, <1>3, <1>4, <1>5
  <2>2. ASSUME NEW i \in (k + 1)..(k + Len(list))
        PROVE  i - k \in 1..Len(list) /\ list'[i].req = list[i - k].req
    BY <1>2, <1>5
  <2> QED
    BY <2>1, <2>2
<1>7. /\ Len(calls') = Len(calls) - k
      /\ \A i \in 1..Len(calls') : calls'[i] = calls[i + k] /\ i + k \in 1..Len(calls)
  <2>1. \A i \in (k + 1)..Len(calls) : calls[i] \in Nat
    <3>1. \A i \in (k + 1)..Len(calls) : i \in 1..Len(calls)
      BY <1>2
    <3> QED
      BY <3>1, <1>2, RequestsMade, ServerFacts
  <2>2. /\ calls' \in Seq(Nat)
        /\ Len(calls') = IF k + 1 <= Len(calls) THEN Len(calls) - (k + 1) + 1 ELSE 0
        /\ \A j \in 1..(Len(calls) - (k + 1) + 1) : calls'[j] = calls[(k + 1) + j - 1]
    <3>1. k + 1 \in Int /\ Len(calls) \in Int
      BY <1>2
    <3>2. calls' = SubSeq(calls, k + 1, Len(calls))
      BY <1>1
    <3> QED
      BY <3>1, <3>2, <2>1, SubSeqProperties
  <2>3. Len(calls') = Len(calls) - k
    BY <1>2, <2>2
  <2>4. \A i \in 1..(Len(calls) - k) : calls'[i] = calls[i + k] /\ i + k \in 1..Len(calls)
    <3>1. ASSUME NEW i \in 1..(Len(calls) - k)
          PROVE  /\ i \in 1..(Len(calls) - (k + 1) + 1) /\ (k + 1) + i - 1 = i + k
                 /\ i + k \in 1..Len(calls)
      BY <1>2
    <3> QED
      BY <3>1, <2>2
  <2> QED
    BY <2>3, <2>4
<1>8. \A n : CalledFor(n)' => CalledFor(n)
  BY <1>7 DEF CalledFor
<1>9. \A n : SentFor(n)' <=> SentFor(n)
  BY <1>1 DEF SentFor
<1>10. \A n : ListedFor(n)' <=> ListedFor(n) \/ \E i \in 1..k : calls[i] = n
  <2>1. ASSUME NEW n, ListedFor(n)' PROVE ListedFor(n) \/ \E i \in 1..k : calls[i] = n
    <3>1. PICK i \in 1..Len(list') : list'[i].req = n
      BY <2>1 DEF ListedFor
    <3>2. i \in 1..k \/ i \in (k + 1)..(k + Len(list))
      BY <1>2, <1>5
    <3> QED
      BY <3>1, <3>2, <1>6 DEF ListedFor
  <2>2. ASSUME NEW n, NEW i \in 1..k, calls[i] = n PROVE ListedFor(n)'
    <3>1. k - i + 1 \in 1..k /\ k - (k - i + 1) + 1 = i /\ k - i + 1 \in 1..Len(list')
      BY <1>2, <1>5
    <3>2. list'[k - i + 1].req = n
      BY <3>1, <2>2, <1>6
    <3> QED
      BY <3>1, <3>2 DEF ListedFor
  <2>3. ASSUME NEW n, ListedFor(n) PROVE ListedFor(n)'
    <3>1. PICK i \in 1..Len(list) : list[i].req = n
      BY <2>3 DEF ListedFor
    <3>2. i + k \in (k + 1)..(k + Len(list)) /\ (i + k) - k = i /\ i + k \in 1..Len(list')
      BY <1>2, <1>5
    <3>3. list'[i + k].req = n
      BY <3>1, <3>2, <1>6
    <3> QED
      BY <3>2, <3>3 DEF ListedFor
  <2> QED
    BY <2>1, <2>2, <2>3
<1>11. \A n : (\E i \in 1..k : calls[i] = n) => CalledFor(n) /\ ~CalledFor(n)'
  <2>1. ASSUME NEW i \in 1..k, NEW j \in 1..Len(calls') PROVE calls'[j] # calls[i]
    <3>1. j + k \in 1..Len(calls) /\ i \in 1..Len(calls) /\ j + k # i
      BY <1>2, <1>7
    <3> QED
      BY <3>1, <1>7 DEF OnceInv
  <2> QED
    BY <2>1, <1>2 DEF CalledFor
<1>12. \A n : CalledFor(n) => CalledFor(n)' \/ \E i \in 1..k : calls[i] = n
  <2>1. ASSUME NEW n, NEW i \in 1..Len(calls), calls[i] = n, ~(i \in 1..k) PROVE CalledFor(n)'
    <3>1. i - k \in 1..Len(calls') /\ (i - k) + k = i
      BY <2>1, <1>2, <1>7
    <3>2. calls'[i - k] = n
      BY <3>1, <2>1, <1>7
    <3> QED
      BY <3>1, <3>2 DEF CalledFor
  <2> QED
    BY <2>1 DEF CalledFor
<1>13. \A i, j \in 1..Len(calls') : calls'[i] = calls'[j] => i = j
  <2>1. ASSUME NEW i \in 1..Len(calls'), NEW j \in 1..Len(calls'), calls'[i] = calls'[j]
        PROVE  i = j
    <3>1. i + k = j + k
      BY ZenonT(30), <2>1, <1>7 DEF OnceInv
    <3>2. i \in Int /\ j \in Int
      BY <1>2, <1>7
    <3> QED
      BY <3>1, <3>2, <1>2
  <2> QED
    BY <2>1
<1>14. \A i \in 1..k : \A j \in 1..Len(list) : calls[i] # list[j].req
  <2>1. ASSUME NEW i \in 1..k, NEW j \in 1..Len(list), calls[i] = list[j].req PROVE FALSE
    <3>1. CalledFor(calls[i]) /\ ListedFor(calls[i]) /\ calls[i] \in 1..Len(requests)
      BY <2>1, <1>2, RequestsMade DEF CalledFor, ListedFor
    <3> QED
      BY <3>1 DEF OnceInv
  <2> QED
    BY <2>1
<1>15. \A i, j \in 1..Len(list') : list'[i].req = list'[j].req => i = j
  <2>1. ASSUME NEW i \in 1..Len(list'), NEW j \in 1..Len(list'), list'[i].req = list'[j].req
        PROVE  i = j
    <3>1. /\ i \in 1..k \/ i \in (k + 1)..(k + Len(list))
          /\ j \in 1..k \/ j \in (k + 1)..(k + Len(list))
          /\ i \in Int /\ j \in Int
      BY <1>2, <1>5
    <3>2. CASE i \in 1..k /\ j \in 1..k
      <4>1. calls[k - i + 1] = calls[k - j + 1]
        BY <2>1, <3>2, <1>6
      <4>2. k - i + 1 \in 1..Len(calls) /\ k - j + 1 \in 1..Len(calls)
        BY <3>2, <1>2, <1>6
      <4>3. k - i + 1 = k - j + 1
        BY <4>1, <4>2 DEF OnceInv
      <4> QED
        BY <4>3, <3>1, <1>2
    <3>3. CASE i \in (k + 1)..(k + Len(list)) /\ j \in (k + 1)..(k + Len(list))
      <4>1. list[i - k].req = list[j - k].req
        BY <2>1, <3>3, <1>6
      <4>2. i - k \in 1..Len(list) /\ j - k \in 1..Len(list)
        BY <3>3, <1>2
      <4>3. i - k = j - k
        BY <4>1, <4>2 DEF OnceInv
      <4> QED
        BY <4>3, <3>1, <1>2
    <3>4. CASE i \in 1..k /\ j \in (k + 1)..(k + Len(list))
      BY SMTT(30), <2>1, <3>4, <1>6, <1>14
    <3>5. CASE i \in (k + 1)..(k + Len(list)) /\ j \in 1..k
      BY <2>1, <3>5, <1>6, <1>14
    <3> QED
      BY <3>1, <3>2, <3>3, <3>4, <3>5
  <2> QED
    BY <2>1
<1>16. ASSUME NEW n \in 1..Len(requests)
       PROVE  /\ CalledFor(n)' \/ ListedFor(n)' \/ SentFor(n)'
              /\ ~(CalledFor(n)' /\ (ListedFor(n)' \/ SentFor(n)'))
              /\ ~(ListedFor(n)' /\ SentFor(n)')
  BY <1>1, <1>8, <1>9, <1>10, <1>11, <1>12 DEF OnceInv
<1> QED
  BY <1>1, <1>13, <1>15, <1>16 DEF OnceInv

\* Another callback, for the entry that the scan is at.
LEMMA OnceCallsBack ==
  ASSUME ServerInv, OnceInv, CallsBack
  PROVE  OnceInv'
<1> DEFINE m == Callback(list[scan])
           r == list[scan].req
<1>1. /\ spc = "scanning" /\ spc' = "calling back" /\ scan <= Len(list)
      /\ sent' = Append(sent, m)
      /\ requests' = requests /\ calls' = calls /\ list' = list /\ scan' = scan
  BY DEF CallsBack, Scanned, cvars, scanning
<1>2. Len(list) \in Nat /\ Len(sent) \in Nat
  BY ServerFacts
<1>3. scan \in 1..Len(list)
  <2>1. scan \in Nat \ {0}
    BY DEF ServerInv, ServerType
  <2>2. scan <= Len(list)
    BY <1>1
  <2> QED
    BY <2>1, <2>2, <1>2
<1>4. r \in 1..Len(requests) /\ ListedFor(r)
  BY <1>3, RequestsMade DEF ListedFor
<1>5. ~SentFor(r) /\ ~CalledFor(r)
  BY <1>1, <1>4 DEF OnceInv
<1>6. m.req = r
  BY DEF Callback
<1>7. /\ Len(sent') = Len(sent) + 1 /\ sent'[Len(sent) + 1] = m
      /\ \A i \in 1..Len(sent) : sent'[i] = sent[i]
  <2>1. sent \in Seq(SentCallback)
    BY DEF ServerInv, ServerType
  <2> HIDE DEF m
  <2>2. sent \in Seq(SentCallback \cup {m})
    BY <2>1, SeqMonotonic
  <2>3. m \in SentCallback \cup {m}
    OBVIOUS
  <2> QED
    BY ZenonT(30), <1>1, <2>2, <2>3, AppendExtends DEF Extended
<1> HIDE DEF m, r
<1>8. \A i \in 1..(Len(sent) + 1) : i \in 1..Len(sent) \/ i = Len(sent) + 1
  BY <1>2
<1>9. Len(sent) + 1 \in 1..(Len(sent) + 1) /\ \A i \in 1..Len(sent) : i \in 1..(Len(sent) + 1)
  BY <1>2
<1>10. \A n : SentFor(n)' <=> SentFor(n) \/ n = r
  BY <1>6, <1>7, <1>8, <1>9 DEF SentFor
<1>11. \A n : (ListedFor(n)' <=> ListedFor(n)) /\ (CalledFor(n)' <=> CalledFor(n))
  BY <1>1 DEF ListedFor, CalledFor
<1>12. \A i, j \in 1..Len(sent') : sent'[i].req = sent'[j].req => i = j
  <2>1. \A i, j \in 1..Len(sent) : sent'[i].req = sent'[j].req => i = j
    BY <1>7 DEF OnceInv
  <2>2. \A i \in 1..Len(sent) : sent'[i].req # r
    BY <1>5, <1>7 DEF SentFor
  <2> QED
    BY <1>6, <1>7, <1>8, <2>1, <2>2
<1>13. \A n : n = r <=> list'[scan'].req = n
  BY <1>1 DEF r
<1>14. ASSUME NEW n \in 1..Len(requests)
       PROVE  /\ CalledFor(n)' \/ ListedFor(n)' \/ SentFor(n)'
              /\ ~(CalledFor(n)' /\ (ListedFor(n)' \/ SentFor(n)'))
              /\ ListedFor(n)' /\ SentFor(n)' <=> n = r
  <2>1. ~(ListedFor(n) /\ SentFor(n))
    BY <1>1 DEF OnceInv
  <2>2. /\ CalledFor(n) \/ ListedFor(n) \/ SentFor(n)
        /\ ~(CalledFor(n) /\ (ListedFor(n) \/ SentFor(n)))
    BY DEF OnceInv
  <2> QED
    BY <2>1, <2>2, <1>4, <1>5, <1>10, <1>11
<1> QED
  BY ZenonT(30), <1>1, <1>12, <1>13, <1>14 DEF OnceInv

\* The entry that was called back comes off the list, and no other.
LEMMA OnceCalledBack ==
  ASSUME ServerInv, OnceInv, CalledBack
  PROVE  OnceInv'
<1> DEFINE r == list[scan].req
<1>1. /\ spc = "calling back" /\ spc' # "calling back" /\ list' = RemoveAt(list, scan)
      /\ requests' = requests /\ calls' = calls /\ sent' = sent
  BY DEF CalledBack, cvars, net
<1>2. Len(list) \in Nat /\ scan \in 1..Len(list)
  <2>1. scan \in Nat \ {0} /\ scan <= Len(list)
    BY <1>1 DEF ServerInv, ServerType, BlockInv
  <2>2. Len(list) \in Nat
    BY ServerFacts
  <2> QED
    BY <2>1, <2>2
<1>3. /\ Len(list') = Len(list) - 1
      /\ \A j \in 1..(Len(list) - 1) :
           list'[j] = IF j < scan THEN list[j] ELSE list[j + 1]
  <2>1. list \in Seq(ListEntry)
    BY DEF ServerInv, ServerType
  <2> QED
    BY <1>1, <1>2, <2>1, RemoveAtElements
<1>4. r \in 1..Len(requests) /\ ListedFor(r) /\ SentFor(r)
  <2>1. r \in 1..Len(requests)
    BY <1>2, RequestsMade
  <2> QED
    BY <2>1, <1>1 DEF OnceInv
<1>5. ASSUME NEW j \in 1..Len(list')
      PROVE  \E i \in 1..Len(list) : /\ list'[j] = list[i] /\ i # scan
                                     /\ i = IF j < scan THEN j ELSE j + 1
  <2>1. j \in 1..(Len(list) - 1) /\ j \in Int /\ scan \in Int
    BY <1>2, <1>3
  <2>2. CASE j < scan
    <3>1. j \in 1..Len(list) /\ list'[j] = list[j] /\ j # scan
      BY <2>1, <2>2, <1>2, <1>3
    <3> QED
      BY <3>1, <2>2
  <2>3. CASE ~(j < scan)
    <3>1. j + 1 \in 1..Len(list) /\ list'[j] = list[j + 1] /\ j + 1 # scan
      BY <2>1, <2>3, <1>2, <1>3
    <3> QED
      BY <3>1, <2>3
  <2> QED
    BY <2>2, <2>3
<1>6. ASSUME NEW i \in 1..Len(list), i # scan
      PROVE  \E j \in 1..Len(list') : list'[j] = list[i]
  <2>1. CASE i < scan
    <3>1. i \in 1..Len(list') /\ list'[i] = list[i]
      BY <2>1, <1>2, <1>3
    <3> QED
      BY <3>1
  <2>2. CASE ~(i < scan)
    <3>1. i - 1 \in 1..(Len(list) - 1) /\ ~(i - 1 < scan) /\ (i - 1) + 1 = i
      BY <2>2, <1>2, <1>6
    <3>2. i - 1 \in 1..Len(list') /\ list'[i - 1] = list[i]
      BY <3>1, <1>3
    <3> QED
      BY <3>2
  <2> QED
    BY <2>1, <2>2
<1> HIDE DEF r
<1>7. \A n : ListedFor(n)' <=> ListedFor(n) /\ n # r
  <2>1. ASSUME NEW n, ListedFor(n)' PROVE ListedFor(n) /\ n # r
    <3>1. PICK j \in 1..Len(list') : list'[j].req = n
      BY <2>1 DEF ListedFor
    <3>2. PICK i \in 1..Len(list) : list'[j] = list[i] /\ i # scan
      BY <1>5
    <3>3. list[i].req # list[scan].req
      BY <3>2, <1>2 DEF OnceInv
    <3> QED
      BY <3>1, <3>2, <3>3 DEF ListedFor, r
  <2>2. ASSUME NEW n, ListedFor(n), n # r PROVE ListedFor(n)'
    <3>1. PICK i \in 1..Len(list) : list[i].req = n
      BY <2>2 DEF ListedFor
    <3>2. i # scan
      BY <3>1, <2>2 DEF r
    <3>3. PICK j \in 1..Len(list') : list'[j] = list[i]
      BY <3>2, <1>6
    <3>4. list'[j].req = n
      BY <3>1, <3>3
    <3> QED
      BY <3>4 DEF ListedFor
  <2> QED
    BY <2>1, <2>2
<1>8. \A n : (CalledFor(n)' <=> CalledFor(n)) /\ (SentFor(n)' <=> SentFor(n))
  BY <1>1 DEF CalledFor, SentFor
<1>9. \A i, j \in 1..Len(list') : list'[i].req = list'[j].req => i = j
  <2>1. ASSUME NEW i \in 1..Len(list'), NEW j \in 1..Len(list'), list'[i].req = list'[j].req
        PROVE  i = j
    <3>1. PICK p \in 1..Len(list) : list'[i] = list[p] /\ p = IF i < scan THEN i ELSE i + 1
      BY <1>5
    <3>2. PICK q \in 1..Len(list) : list'[j] = list[q] /\ q = IF j < scan THEN j ELSE j + 1
      BY <1>5
    <3>3. p = q
      BY <2>1, <3>1, <3>2 DEF OnceInv
    <3>4. i \in Int /\ j \in Int /\ scan \in Int
      BY <1>2, <1>3
    <3> QED
      BY <3>1, <3>2, <3>3, <3>4
  <2> QED
    BY <2>1
<1>10. ASSUME NEW n \in 1..Len(requests)
       PROVE  /\ CalledFor(n)' \/ ListedFor(n)' \/ SentFor(n)'
              /\ ~(CalledFor(n)' /\ (ListedFor(n)' \/ SentFor(n)'))
              /\ ~(ListedFor(n)' /\ SentFor(n)')
  <2>1. ListedFor(n) /\ SentFor(n) => n = r
    BY DEF OnceInv, r
  <2>2. /\ CalledFor(n) \/ ListedFor(n) \/ SentFor(n)
        /\ ~(CalledFor(n) /\ (ListedFor(n) \/ SentFor(n)))
    BY DEF OnceInv
  <2> QED
    BY <2>1, <2>2, <1>4, <1>7, <1>8
<1> QED
  BY <1>1, <1>9, <1>10 DEF OnceInv

\* Every step keeps each request at one stage.
LEMMA OnceNext ==
  ASSUME ServerInv, OnceInv, [Next]_vars
  PROVE  OnceInv'
<1>1. ASSUME NEW len \in Lens, NEW wait \in Waits, Call(len, wait) PROVE OnceInv'
  BY <1>1, OnceCall
<1>2. CASE ClientNext
  <2>1. UNCHANGED <<requests, calls, list, sent, spc, scan>>
    BY <1>2 DEF ClientNext, CallReturns, CallFails, Serve, WaitEnds, Return, net, svars, scanning
  <2> QED
    BY <2>1, OnceIdle
<1>3. ASSUME NEW k \in 1..Len(calls), ServeCalls(k) PROVE OnceInv'
  BY <1>3, OnceServed
<1>4. CASE CallsBack
  BY <1>4, OnceCallsBack
<1>5. CASE CalledBack
  BY <1>5, OnceCalledBack
<1>6. CASE WaitsOn
  <2>1. /\ spc # "calling back" /\ spc' # "calling back"
        /\ list' = [list EXCEPT ![scan].wait = @ - 1]
        /\ requests' = requests /\ calls' = calls /\ sent' = sent
    BY <1>6 DEF WaitsOn, Scanned, cvars, net
  <2>2. Len(list') = Len(list) /\ \A i \in 1..Len(list) : list'[i].req = list[i].req
    <3>1. list \in Seq(ListEntry) /\ \A i \in 1..Len(list) : list[i] \in ListEntry
      BY ServerFacts DEF ServerInv, ServerType
    <3>2. DOMAIN list = 1..Len(list) /\ Len(list) \in Nat
      BY <3>1
    <3>3. DOMAIN list' = DOMAIN list
      BY <2>1
    <3>4. Len(list') = Len(list)
      <4>1. list' \in Seq(ListEntry)
        BY <1>6, WaitsOnStep DEF ServerInv, ServerType
      <4> QED
        BY <4>1, <3>2, <3>3
    <3>5. ASSUME NEW i \in 1..Len(list) PROVE list'[i].req = list[i].req
      <4>1. list[i] = [req |-> list[i].req, wait |-> list[i].wait, since |-> list[i].since]
        BY <3>1 DEF ListEntry
      <4>2. list'[i] = IF i = scan THEN [list[i] EXCEPT !.wait = @ - 1] ELSE list[i]
        BY <2>1, <3>2
      <4>3. [list[i] EXCEPT !.wait = @ - 1].req = list[i].req
        BY <4>1
      <4> QED
        BY <4>2, <4>3
    <3> QED
      BY <3>4, <3>5
  <2> QED
    BY <2>1, <2>2, OnceKept
<1>7. ASSUME \/ \E pass \in BOOLEAN : Analyze(pass)
             \/ ServeNothing
             \/ ScanEnds
             \/ \E control \in Controls : ServeWrite(control)
      PROVE  OnceInv'
  <2>1. /\ spc # "calling back" /\ spc' # "calling back"
        /\ UNCHANGED <<requests, calls, list, sent>>
    BY <1>7 DEF Analyze, ServeNothing, ScanEnds, ServeWrite, BeginScan, cvars, net
  <2>2. Len(requests') = Len(requests) /\ Len(list') = Len(list) /\ list' = list
    BY <2>1
  <2> QED
    BY <2>1, <2>2, OnceKept
<1>8. CASE UNCHANGED vars
  <2>1. UNCHANGED <<requests, calls, list, sent, spc, scan>>
    BY <1>8 DEF vars, cvars, net, svars, scanning
  <2> QED
    BY <2>1, OnceIdle
<1>9. CASE ServerNext
  BY <1>9, <1>3, <1>4, <1>5, <1>6, <1>7 DEF ServerNext
<1> QED
  BY <1>1, <1>2, <1>7, <1>8, <1>9 DEF Next

\* The number of places where a sequence without repetitions has n
LEMMA CountOnce ==
  ASSUME NEW S, IsFiniteSet(S), \A i, j \in S : i = j
  PROVE  Cardinality(S) = IF S = {} THEN 0 ELSE 1
<1>1. CASE S = {}
  BY <1>1, FS_EmptySet
<1>2. CASE S # {}
  <2>1. PICK i \in S : TRUE
    BY <1>2
  <2>2. S = {i}
    BY <2>1
  <2> QED
    BY <1>2, <2>2, FS_Singleton
<1> QED
  BY <1>1, <1>2

\* At one stage, once.
LEMMA OnceAnswers ==
  ASSUME ServerInv, OnceInv
  PROVE  OneAnswer
<1> SUFFICES ASSUME NEW n \in DOMAIN requests
             PROVE  Cardinality({i \in DOMAIN calls : calls[i] = n})
                      + Cardinality({i \in DOMAIN sent : sent[i].req = n})
                      + Cardinality({i \in DOMAIN list : list[i].req = n})
                      = IF spc = "calling back" /\ list[scan].req = n THEN 2 ELSE 1
  BY DEF OneAnswer
<1> DEFINE C == {i \in DOMAIN calls : calls[i] = n}
           S == {i \in DOMAIN sent : sent[i].req = n}
           L == {i \in DOMAIN list : list[i].req = n}
<1>1. /\ DOMAIN calls = 1..Len(calls) /\ Len(calls) \in Nat
      /\ DOMAIN sent = 1..Len(sent) /\ Len(sent) \in Nat
      /\ DOMAIN list = 1..Len(list) /\ Len(list) \in Nat
      /\ DOMAIN requests = 1..Len(requests)
  BY LenProperties DEF ServerInv, ServerType
<1>2. IsFiniteSet(1..Len(calls)) /\ IsFiniteSet(1..Len(sent)) /\ IsFiniteSet(1..Len(list))
  BY <1>1, FS_Interval
<1>3. C \subseteq 1..Len(calls) /\ S \subseteq 1..Len(sent) /\ L \subseteq 1..Len(list)
  BY <1>1
<1>4. IsFiniteSet(C) /\ IsFiniteSet(S) /\ IsFiniteSet(L)
  BY <1>2, <1>3, FS_Subset
<1>5. /\ \A i, j \in C : i = j
      /\ \A i, j \in S : i = j
      /\ \A i, j \in L : i = j
  BY <1>1 DEF OnceInv
<1>6. (C # {} <=> CalledFor(n)) /\ (S # {} <=> SentFor(n)) /\ (L # {} <=> ListedFor(n))
  BY <1>1 DEF CalledFor, SentFor, ListedFor
<1> HIDE DEF C, S, L
<1>7. /\ Cardinality(C) = IF C = {} THEN 0 ELSE 1
      /\ Cardinality(S) = IF S = {} THEN 0 ELSE 1
      /\ Cardinality(L) = IF L = {} THEN 0 ELSE 1
  BY <1>4, <1>5, CountOnce
<1>8. \/ spc = "calling back" /\ list[scan].req = n /\ C = {} /\ S # {} /\ L # {}
      \/ ~(spc = "calling back" /\ list[scan].req = n) /\ C # {} /\ S = {} /\ L = {}
      \/ ~(spc = "calling back" /\ list[scan].req = n) /\ C = {} /\ S # {} /\ L = {}
      \/ ~(spc = "calling back" /\ list[scan].req = n) /\ C = {} /\ S = {} /\ L # {}
  <2>1. /\ CalledFor(n) \/ ListedFor(n) \/ SentFor(n)
        /\ ~(CalledFor(n) /\ (ListedFor(n) \/ SentFor(n)))
        /\ ListedFor(n) /\ SentFor(n) <=> spc = "calling back" /\ list[scan].req = n
    BY <1>1 DEF OnceInv
  <2> QED
    BY <2>1, <1>6, Zenon
<1> DEFINE total == Cardinality(C) + Cardinality(S) + Cardinality(L)
<1>9. total = IF spc = "calling back" /\ list[scan].req = n THEN 2 ELSE 1
  <2>1. CASE spc = "calling back" /\ list[scan].req = n
    <3>1. Cardinality(C) = 0 /\ Cardinality(S) = 1 /\ Cardinality(L) = 1
      BY <2>1, <1>7, <1>8
    <3>2. total = 2
      BY <3>1
    <3> HIDE DEF total
    <3> QED
      BY <2>1, <3>2
  <2>2. CASE ~(spc = "calling back" /\ list[scan].req = n)
    <3>1. \/ Cardinality(C) = 1 /\ Cardinality(S) = 0 /\ Cardinality(L) = 0
          \/ Cardinality(C) = 0 /\ Cardinality(S) = 1 /\ Cardinality(L) = 0
          \/ Cardinality(C) = 0 /\ Cardinality(S) = 0 /\ Cardinality(L) = 1
      BY <2>2, <1>7, <1>8
    <3>2. total = 1
      BY <3>1
    <3> HIDE DEF total
    <3> QED
      BY <2>2, <3>2
  <2> QED
    BY <2>1, <2>2
<1> QED
  BY <1>9 DEF C, S, L

\* Whatever the number of requests and however the two programs time out on each
\* other, a request is answered once and is on the list until then, also when
\* daVarCallBack takes entries off the list that it is going through.
THEOREM OneAnswerHolds == Spec => []OneAnswer
<1>1. Init => OnceInv
  <2> SUFFICES ASSUME Init PROVE OnceInv
    OBVIOUS
  <2>1. Len(requests) = 0 /\ Len(calls) = 0 /\ Len(list) = 0 /\ Len(sent) = 0
    BY EmptySeq DEF Init
  <2>2. \A i : ~(i \in 1..0)
    OBVIOUS
  <2> QED
    BY <2>1, <2>2 DEF OnceInv
<1>2. ServerInv /\ OnceInv /\ [Next]_vars => OnceInv'
  BY OnceNext
<1>3. ServerInv /\ OnceInv => OneAnswer
  BY OnceAnswers
<1> QED
  BY <1>1, <1>2, <1>3, ServerInvariant, PTL DEF Spec

=============================================================================
