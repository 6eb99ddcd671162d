---------------------------- MODULE RpcCallback ----------------------------
(***************************************************************************)
(* Remote requests for the values of an event (CTP/thClient.c,             *)
(* CTP/daVarRpcProc.c, CTP/daVarServ.c, the event loop of engine.f and, as *)
(* the client, the event display of ONEEV/revdis_getev.f).  A client asks  *)
(* for a list of variables at the first event that passes a test.  The     *)
(* engine notes the request and replies at once; when an event passes, or  *)
(* when the request has waited long enough, it calls the client back, and  *)
(* the client, which has become a server meanwhile, stores the values.     *)
(* Either call can time out while the other program goes on.               *)
(*                                                                         *)
(* A list of names is modelled by its length, which is all that the answer *)
(* is compared with; values are those of a numbered event.                 *)
(***************************************************************************)
EXTENDS Integers, FiniteSets, SequencesExt

CONSTANTS
  Lens,           \* lengths of the lists that are asked for
  Waits,          \* values of max_event_wait
  Controls,       \* values given to rpc_control
  MaxRequests,    \* bound on the requests
  MaxEvents       \* events in the run

ASSUME RpcAssumption ==
  /\ Lens \subseteq Nat \ {0} /\ Waits \subseteq Nat /\ Controls \subseteq Int
  /\ MaxRequests \in Nat /\ MaxEvents \in Nat

VARIABLES
  cpc,            \* client: "idle", "calling", "waiting"
  requests,       \* history: the requests made, [len, wait]
  pending_arg,    \* the request that the client takes an answer for; 0 if none
  returns,        \* history: what thGetList_test returned for each of them
  calls,          \* requests under way to the server
  replied,        \* requests that the server has replied to
  inbox,          \* callbacks that the client has not served
  spc,            \* server: "analyzing", "blocking", "polling", "scanning",
                  \* "calling back"
  passes,         \* history: does the test hold at each event so far?
  began,          \* history: rpc_control when the event came to the check
  list,           \* thCallBackListP
  scan,           \* the entry of list that daVarCallBack is at
  pending, processed,   \* its counters
  rpc_pend, rpc_control,
  sent            \* history: all callbacks made

cvars == <<cpc, requests, pending_arg, returns>>
net == <<calls, replied, inbox>>
scanning == <<scan, pending, processed>>
svars == <<spc, passes, began, list, scanning, rpc_pend, rpc_control, sent>>
vars == <<cvars, net, svars>>

event == Len(passes)

(***************************************************************************)
(* The client: thGetList_test, between thservset and thservunset           *)
(***************************************************************************)

Call(len, wait) ==
  /\ cpc = "idle" /\ Len(requests) < MaxRequests
  /\ requests' = Append(requests, [len |-> len, wait |-> wait])
  /\ pending_arg' = Len(requests')
  /\ calls' = Append(calls, Len(requests'))
  /\ cpc' = "calling"
  /\ UNCHANGED <<returns, replied, inbox, svars>>

CallReturns ==
  /\ cpc = "calling" /\ Len(requests) \in replied
  /\ cpc' = "waiting"
  /\ UNCHANGED <<requests, pending_arg, returns, net, svars>>

\* thGetList_test returns, m being the callback whose values it has stored, and
\* thservunset closes the port: of the other callbacks, rest, only connections
\* that have been accepted stay.
Return(code, m, rest) ==
  /\ returns' = Append(returns, [code |-> code, from |-> m])
  /\ inbox' \in {SubSeq(rest, 1, n) : n \in 0..Len(rest)}
  /\ cpc' = "idle"
  /\ UNCHANGED <<requests, calls, replied, svars>>

NoCallback == [req |-> 0, len |-> 0, since |-> 0, event |-> 0]

\* No reply comes in time: -1.  pending_arg stays as it is.
CallFails ==
  /\ cpc = "calling"
  /\ Return(-1, NoCallback, inbox)
  /\ UNCHANGED pending_arg

\* davar_readmultiple_test_cb_1
Code(m) ==
  IF m.len = requests[pending_arg].len THEN 0 ELSE IF m.len > 0 THEN -1 ELSE -2

\* daVarServOnce serves the callbacks that are there, which clears pending_flag.
Serve(k) ==
  LET stored == {i \in 1..k : Code(inbox[i]) = 0}
  IN /\ cpc = "waiting" /\ k \in DOMAIN inbox
     /\ Return(Code(inbox[k]),
               IF stored = {} THEN NoCallback ELSE inbox[Max(stored)],
               SubSeq(inbox, k + 1, Len(inbox)))
     /\ pending_arg' = 0

\* Slip: the client waits as long as it takes.
WaitForEver == FALSE /\ UNCHANGED vars

\* No callback comes in time: -2.  select fails: -3.
WaitEnds ==
  /\ cpc = "waiting"
  /\ \/ inbox = <<>> /\ Return(-2, NoCallback, inbox)
     \/ Return(-3, NoCallback, inbox)
  /\ pending_arg' = 0

(***************************************************************************)
(* The server: the engine's event loop                                     *)
(***************************************************************************)

\* An event is analyzed; then the engine looks for requests.
Analyze(pass) ==
  /\ spc = "analyzing" /\ event < MaxEvents
  /\ passes' = Append(passes, pass)
  /\ began' = rpc_control
  /\ spc' = IF rpc_pend = 0 /\ rpc_control = 0 THEN "blocking" ELSE "polling"
  /\ UNCHANGED <<cvars, net, list, scanning, rpc_pend, rpc_control, sent>>

BeginScan ==
  /\ spc' = "scanning"
  /\ scan' = 1 /\ pending' = 0 /\ processed' = FALSE

Entry(n) == [req |-> n, wait |-> requests[n].wait, since |-> event]

\* davar_readmultiple_test_1 puts each request in front of the list.
ServeCalls(k) ==
  /\ spc \in {"blocking", "polling"} /\ k \in DOMAIN calls
  /\ list' = Reverse([i \in 1..k |-> Entry(calls[i])]) \o list
  /\ replied' = replied \cup {calls[i] : i \in 1..k}
  /\ calls' = SubSeq(calls, k + 1, Len(calls))
  /\ BeginScan
  /\ UNCHANGED <<cvars, inbox, passes, began, rpc_pend, rpc_control, sent>>

\* Another client, or this one, writes a variable.
ServeWrite(control) ==
  /\ spc \in {"blocking", "polling"}
  /\ rpc_control' = control
  /\ BeginScan
  /\ UNCHANGED <<cvars, net, passes, began, list, rpc_pend, sent>>

\* thservone(0) finds nothing.
ServeNothing ==
  /\ spc = "polling"
  /\ BeginScan
  /\ UNCHANGED <<cvars, net, passes, began, list, rpc_pend, rpc_control, sent>>

\* daVarCallBack looks at the next entry ...
Scanned == spc = "scanning" /\ scan <= Len(list)

\* Slip: waits on although the test holds.
WaitsOnAnyway ==
  /\ Scanned
  /\ list[scan].wait > 0
  /\ list' = [list EXCEPT ![scan].wait = @ - 1]
  /\ scan' = scan + 1
  /\ pending' = pending + 1
  /\ UNCHANGED <<cvars, net, spc, passes, began, processed, rpc_pend, rpc_control, sent>>

\* Slip: the count is tested before it is decremented.
WaitsOnLate ==
  /\ Scanned
  /\ ~passes[event] /\ list[scan].wait >= 0
  /\ list' = [list EXCEPT ![scan].wait = @ - 1]
  /\ scan' = scan + 1
  /\ pending' = pending + 1
  /\ UNCHANGED <<cvars, net, spc, passes, began, processed, rpc_pend, rpc_control, sent>>

\* ... which has to wait on ...
WaitsOn ==
  /\ Scanned
  /\ ~passes[event] /\ list[scan].wait > 0
  /\ list' = [list EXCEPT ![scan].wait = @ - 1]
  /\ scan' = scan + 1
  /\ pending' = pending + 1
  /\ UNCHANGED <<cvars, net, spc, passes, began, processed, rpc_pend, rpc_control, sent>>

\* The values at this event, or none
Callback(e) ==
  [req |-> e.req, len |-> IF passes[event] THEN requests[e.req].len ELSE 0,
   since |-> e.since, event |-> event]

\* ... or whose client is called back: because the test holds, or because it has
\* waited for enough events or seconds.  A client that has closed its port is not
\* found, others may not be.
CallsBack ==
  /\ Scanned
  /\ sent' = Append(sent, Callback(list[scan]))
  /\ \/ UNCHANGED inbox
     \/ cpc # "idle" /\ inbox' = Append(inbox, Callback(list[scan]))
  /\ spc' = "calling back"
  /\ UNCHANGED <<cvars, calls, replied, passes, began, list, scanning,
                 rpc_pend, rpc_control>>

\* Slip: the entry stays on the list.
CalledBackKeep ==
  /\ spc = "calling back"
  /\ spc' = "scanning"
  /\ scan' = scan + 1
  /\ processed' = TRUE
  /\ UNCHANGED <<cvars, net, passes, began, list, pending, rpc_pend, rpc_control, sent>>

\* The client has served the callback, or five seconds have gone by.
CalledBack ==
  /\ spc = "calling back"
  /\ list' = RemoveAt(list, scan)
  /\ spc' = "scanning"
  /\ processed' = TRUE
  /\ UNCHANGED <<cvars, net, passes, began, scan, pending, rpc_pend, rpc_control, sent>>

\* Slip: the engine does not reset rpc_pend when all requests are done with.
DoneKeepPend(pend) == rpc_pend' = pend

Done(pend) == rpc_pend' = IF pend < 0 THEN 0 ELSE pend

\* Slip: one client answered, all answered.
ResultHasty == IF processed THEN -1 ELSE pending

\* What daVarCallBack returns
Result == IF processed /\ pending = 0 THEN -1 ELSE pending

\* The end of daVarCallBack, and of the check for requests unless it blocks on.
ScanEnds ==
  /\ spc = "scanning" /\ scan > Len(list)
  /\ IF rpc_pend = 0 /\ began = 0 /\ Result = 0 /\ rpc_control = 0
     THEN spc' = "blocking" /\ UNCHANGED <<rpc_pend, rpc_control>>
     ELSE /\ spc' = "analyzing"
          /\ Done(Result)
          /\ rpc_control' = IF rpc_control > 0 THEN rpc_control - 1
                            ELSE rpc_control
  /\ UNCHANGED <<cvars, net, passes, began, list, scanning, sent>>

Init ==
  /\ cpc = "idle"
  /\ requests = <<>>
  /\ pending_arg = 0
  /\ returns = <<>>
  /\ calls = <<>>
  /\ replied = {}
  /\ inbox = <<>>
  /\ spc = "analyzing"
  /\ passes = <<>>
  /\ began = -1
  /\ list = <<>>
  /\ scan = 1
  /\ pending = 0
  /\ processed = FALSE
  /\ rpc_pend = 0
  /\ rpc_control \in Controls
  /\ sent = <<>>

ClientNext ==
  \/ CallReturns
  \/ CallFails
  \/ \E k \in 1..(Len(inbox)) : Serve(k)
  \/ WaitEnds

ServerNext ==
  \/ \E pass \in BOOLEAN : Analyze(pass)
  \/ \E k \in 1..(Len(calls)) : ServeCalls(k)
  \/ ServeNothing
  \/ WaitsOn
  \/ CallsBack
  \/ CalledBack
  \/ ScanEnds

Next ==
  \/ \E len \in Lens, wait \in Waits : Call(len, wait)
  \/ ClientNext
  \/ ServerNext
  \/ \E control \in Controls : ServeWrite(control)

Spec == Init /\ [][Next]_vars

\* Both programs run; clnt_call and select time out, and select finds what is
\* there.  Nobody has to ask for anything.
FairSpec == Spec /\ WF_vars(ClientNext) /\ WF_vars(ServerNext)

(***************************************************************************)
(* Properties                                                              *)
(***************************************************************************)

\* The values that the engine sends are those of the first event at or after the
\* request that passes its test (daVarCallBack runs once for every event).
FirstMatch ==
  \A i \in DOMAIN sent :
    sent[i].len > 0 => /\ passes[sent[i].event]
                       /\ \A e \in sent[i].since..(sent[i].event - 1) : ~passes[e]

\* No request is held back for more events than max_event_wait, on the list or
\* until it is answered, however often the list is scanned.
WaitBounded ==
  /\ \A i \in DOMAIN sent : sent[i].event - sent[i].since <= requests[sent[i].req].wait
  /\ \A i \in DOMAIN list : event - list[i].since <= requests[list[i].req].wait

\* A request is answered once: removing the entry during the scan neither leaves
\* it on the list nor takes another one off.
OneAnswer ==
  LET Sent(n) == Cardinality({i \in DOMAIN sent : sent[i].req = n})
      Listed(n) == Cardinality({i \in DOMAIN list : list[i].req = n})
      Called(n) == Cardinality({i \in DOMAIN calls : calls[i] = n})
  IN \A n \in DOMAIN requests :
       Called(n) + Sent(n) + Listed(n)
         = IF spc = "calling back" /\ list[scan].req = n THEN 2 ELSE 1

\* The engine does not hang in thservone(-1) while a client waits for an event:
\* each would wait for the other.
NeverBlocksWaiter == spc = "blocking" => list = <<>> /\ rpc_control = 0

\* With rpc_control 0 ("0 block on rpc", gen_run_pref.cmn:36) no event goes by
\* without a request that was answered at it or waits on.
BlocksOnRpc ==
  [][spc = "scanning" /\ spc' = "analyzing" /\ began = 0 /\ rpc_control = 0
       => processed \/ list # <<>>]_vars

\* Whatever the engine does, a client gets out of thGetList_test.
ClientReturns == cpc # "idle" ~> cpc = "idle"

=============================================================================
