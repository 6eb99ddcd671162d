------------------------------ MODULE EvSearch ------------------------------
(***************************************************************************)
(* Searching a CODA file for an event by its number (CODA/evio.c): after   *)
(* evOpenSearch, evSearch bisects the blocks of the file, and searches a   *)
(* block from the first event that begins in it.  Between two calls it     *)
(* keeps where the last event was found, and the count of words left in    *)
(* the block, which tells where an event's type and number are when a      *)
(* block ends inside its header.                                           *)
(***************************************************************************)
EXTENDS Integers, Sequences

CONSTANTS
  Files,        \* set of files: sequences of events [phys, num, pos, size]
  B,            \* words of data in a block
  Buflens,      \* lengths of the caller's buffer
  MaxNum,       \* event numbers that are asked for: 0 .. MaxNum
  MaxSearches   \* bound: calls of evSearch

\* A file as evWrite leaves it: its events one after another, each of at least the
\* word with its length.  The physics events of a run are numbered in order.
FileWritten(f) ==
  /\ Len(f) \in Nat \ {0} /\ DOMAIN f = 1 .. Len(f)
  /\ \A k \in DOMAIN f :
       /\ f[k].phys \in BOOLEAN /\ f[k].num \in Nat /\ f[k].size \in Nat \ {0}
       /\ f[k].pos = IF k = 1 THEN 0 ELSE f[k - 1].pos + f[k - 1].size
  /\ \A j, k \in DOMAIN f : j < k /\ f[j].phys /\ f[k].phys => f[j].num < f[k].num
SearchParameters ==
  /\ \A f \in Files : FileWritten(f)
  /\ B \in Nat \ {0} /\ Buflens \subseteq Nat /\ MaxNum \in Nat /\ MaxSearches \in Nat
ASSUME SearchAssumption == SearchParameters

HDSIZ == 8
EVFILE_TRUNC == 2      \* S_EVFILE_TRUNC, a positive number
Sbk == 0        \* b->sbk, the number of the first block

VARIABLES
  events,         \* the events in the file
  phase,        \* "open", "idle", "search", "exit"
  left,         \* a->left
  ebk, last_evn, found_bk, found_evn,  \* EVBSEARCH
  evn, buflen, start, end, mid,        \* arguments and variables of evSearch
  result,       \* what evSearch returned
  buffer,       \* the event that was copied, and the words of the file it has
  searches,     \* calls so far
  misread,      \* history: an event's type was read where it is not
  cut           \* history: an event did not fit the buffer in this search

book == <<ebk, last_evn, found_bk, found_evn>>
search == <<evn, buflen, start, end, mid>>
searchVars == <<events, phase, left, book, search, result, buffer, searches, misread, cut>>

(***************************************************************************)
(* Events and blocks.  Positions count the words of data of the file.      *)
(***************************************************************************)

Total == events[Len(events)].pos + events[Len(events)].size
LastBlock == Total \div B
BlockOf(k) == events[k].pos \div B
Starts(b) == {k \in DOMAIN events : BlockOf(k) = b}
Used(b) == IF b < LastBlock THEN B ELSE Total % B
\* Words of the block from event k on, and after it; negative when it goes on
From(k) == Used(BlockOf(k)) - (events[k].pos % B)
After(k) == From(k) - events[k].size

PhysicsIn(b) == {k \in Starts(b) : events[k].phys}
First(S) == CHOOSE k \in S : \A j \in S : k <= j
Highest(S) == CHOOSE k \in S : \A j \in S : k >= j

(***************************************************************************)
(* evGetEventType skips a block header when a->left is 1.  While it looks  *)
(* for the first event of a block, a->left is that of an earlier event.    *)
(***************************************************************************)

Divided(k) == events[k].pos % B = B - 1
TypeMisread(k) == (left = 1) # Divided(k)
\* The block's size, the first word of the next header, passes for physics;
\* elsewhere the word is data, and passes for what it may be (g).
SeenAsPhysics(k, g) == IF TypeMisread(k) THEN Divided(k) \/ g ELSE events[k].phys

Real(b, g) == {k \in Starts(b) : SeenAsPhysics(k, g)}
Examined(b, g) == IF Real(b, g) = {} THEN Starts(b)
                  ELSE {k \in Starts(b) : k <= First(Real(b, g))}

\* evFindEventBlockNum: from m on to the last block, then back to the first one
Forward(m, g) == {b \in m .. ebk : Real(b, g) # {}}
Backward(m, g) == {b \in Sbk .. m : Real(b, g) # {}}
NoPhysics(m, g) == Forward(m, g) = {} /\ Backward(m, g) = {}
evFindEventBlockNum(m, g) ==
  IF Forward(m, g) # {} THEN First(Forward(m, g)) ELSE Highest(Backward(m, g))

Passed(m, b, g) == IF Forward(m, g) # {} THEN m .. b ELSE (m .. ebk) \cup (b .. m)

(***************************************************************************)
(* Operations                                                              *)
(***************************************************************************)

SearchInit ==
  /\ events \in Files
  /\ phase = "open"
  /\ left = Used(0)
  /\ ebk = 0 /\ last_evn = 0 /\ found_bk = -1 /\ found_evn = -1
  /\ evn = 0 /\ buflen = 0 /\ start = 0 /\ end = 0 /\ mid = 0
  /\ result = 0 /\ buffer = <<>> /\ searches = 0 /\ misread = FALSE /\ cut = FALSE

findLastEventWithinBlock(b) == events[Highest(PhysicsIn(b))].num

\* Only the last block is looked at.  In a block where no event begins, the
\* header itself is taken for an event, and its fifth word, the words used, for
\* the number; when no physics event begins there, the block is taken to be
\* the first one, and what follows its last event is searched.
evOpenSearch ==
  /\ phase = "open"
  /\ phase' = "idle"
  /\ LET b == LastBlock
     IN CASE Starts(b) = {} ->
               ebk' = b /\ last_evn' = HDSIZ + Used(b) /\ left' = HDSIZ + Used(b) - (B + HDSIZ + 1)
          [] Starts(b) # {} /\ PhysicsIn(b) = {} ->
               ebk' = 0 /\ last_evn' \in 0 .. MaxNum /\ left' = 0
          [] OTHER ->
               /\ ebk' = b /\ last_evn' = findLastEventWithinBlock(b)
               /\ left' = After(Highest(Starts(b)))
  /\ UNCHANGED <<events, found_bk, found_evn, search, result, buffer, searches, misread, cut>>

\* Slip: the block after the one where the last event was found.
AfterFound(n) == IF found_bk < 0 THEN <<Sbk, ebk>>
                 ELSE IF n >= found_evn THEN <<found_bk + 1, ebk>> ELSE <<Sbk, found_bk>>
SearchRange(n) == IF found_bk < 0 THEN <<Sbk, ebk>>
            ELSE IF n >= found_evn THEN <<found_bk, ebk>> ELSE <<Sbk, found_bk>>

\* In C, -0.5 becomes 0.
Half(n) == IF n < 0 THEN 0 ELSE n \div 2

evSearch(n, len) ==
  /\ phase = "idle" /\ searches < MaxSearches
  /\ searches' = searches + 1 /\ evn' = n /\ buflen' = len
  /\ buffer' = <<>> /\ cut' = FALSE
  /\ IF n > last_evn
       THEN /\ result' = -1 /\ phase' = "idle"
            /\ UNCHANGED <<start, end, mid>>
       ELSE /\ phase' = "search"
            /\ start' = SearchRange(n)[1] /\ end' = SearchRange(n)[2]
            /\ mid' = Half(SearchRange(n)[1] + SearchRange(n)[2])
            /\ UNCHANGED result
  /\ UNCHANGED <<events, left, book, misread>>

(***************************************************************************)
(* copySingleEvent: the words of the file that it copies, with the headers *)
(* counted; an event that goes on in other blocks is read block by block,  *)
(* any other one whole, even when it does not fit the buffer.              *)
(***************************************************************************)

InFile(j) == (j \div B) * (B + HDSIZ) + HDSIZ + (j % B)
Read(pos, n) == [j \in 1 .. n |-> pos + j - 1]

\* n more words, from a block whose header begins at pos
ReadOn(pos, n) ==
  LET turns == (n + B - 1) \div B
      ncopy(i) == IF i * B < n THEN B ELSE n - (i - 1) * B
      on[i \in 0 .. turns] ==
        IF i = 0 THEN <<>> ELSE on[i - 1] \o Read(pos + (i - 1) * (B + HDSIZ) + HDSIZ, ncopy(i))
  IN on[turns]

copySingleEvent(k, len) ==
  LET size == events[k].size
      pos == InFile(events[k].pos)
      wanted == IF len < size THEN len ELSE size
      here == size + After(k)
  IN IF After(k) < 0 /\ wanted > here THEN Read(pos, here) \o ReadOn(pos + here, wanted - here)
     ELSE Read(pos, IF After(k) < 0 THEN wanted ELSE size)

\* evSearchWithinBlock, from the event k0 on: <<what it returns, the event it
\* stopped at>>; what copySingleEvent returns is returned.
Within(k0, b) ==
  LET same == {k \in Starts(b) : k >= k0 /\ events[k].num = evn /\ (k = k0 \/ events[k].phys)}
  IN IF events[k0].num > evn THEN <<-1, k0>>
     ELSE IF same # {} THEN <<IF buflen < events[First(same)].size THEN EVFILE_TRUNC ELSE 0, First(same)>>
     ELSE <<1, Highest(Starts(b))>>

\* Slip: the block that was just searched stays in the range.
LowerHalfAgain(m) == m
LowerHalf(m) == m - 1

\* One turn of the loop
Probe ==
  /\ phase = "search" /\ start <= end
  /\ \E g \in BOOLEAN :
       IF NoPhysics(mid, g)
         THEN /\ phase' = "exit" /\ misread' = (misread \/ left = 1)
              /\ UNCHANGED <<left, book, search, result, buffer, cut>>
         ELSE \E b \in {evFindEventBlockNum(mid, g)} : \E w \in {Within(First(Real(b, g)), b)} :
                /\ misread' = (misread \/ \E c \in Passed(mid, b, g) : \E k \in Examined(c, g) : TypeMisread(k))
                /\ left' = After(w[2])
                /\ cut' = (cut \/ w[1] = EVFILE_TRUNC)
                /\ CASE w[1] < 0 ->
                          /\ end' = LowerHalf(b) /\ start' = start /\ mid' = Half(start + end')
                          /\ UNCHANGED <<phase, book, result, buffer>>
                     [] w[1] > 0 ->
                          /\ start' = b + 1 /\ end' = end /\ mid' = Half(start' + end)
                          /\ UNCHANGED <<phase, book, result, buffer>>
                     [] OTHER ->
                          /\ phase' = "idle" /\ result' = 0
                          /\ mid' = b /\ found_bk' = b /\ found_evn' = evn
                          /\ buffer' = <<w[2], copySingleEvent(w[2], buflen)>>
                          /\ UNCHANGED <<start, end, ebk, last_evn>>
                /\ UNCHANGED <<evn, buflen>>
  /\ UNCHANGED <<events, searches>>

NotFound ==
  /\ phase = "search" /\ start > end
  /\ phase' = "idle" /\ result' = 1 /\ found_bk' = -1
  /\ UNCHANGED <<events, left, ebk, last_evn, found_evn, search, buffer, searches, misread, cut>>

Done == (phase = "exit" \/ (phase = "idle" /\ searches = MaxSearches)) /\ UNCHANGED searchVars

SearchNext ==
  \/ evOpenSearch
  \/ \E n \in 0 .. MaxNum, len \in Buflens : evSearch(n, len)
  \/ Probe \/ NotFound
  \/ Done

SearchFairness == WF_searchVars(Probe \/ NotFound)
SearchSpec == SearchInit /\ [][SearchNext]_searchVars /\ SearchFairness

(***************************************************************************)
(* Properties                                                              *)
(***************************************************************************)

Physics == {k \in DOMAIN events : events[k].phys}
\* The last block of the file has the beginning of a physics event, so that
\* evOpenSearch finds the end of the search.
EndIsKnown == PhysicsIn(LastBlock) # {}
\* Each block has one.
NoGap == \A b \in 0 .. LastBlock : PhysicsIn(b) # {}

\* When evSearch returns 0, the buffer has the event that was asked for, all of it
\* and no word of a block's header.
FoundIsWhole ==
  (phase = "idle" /\ buffer # <<>>) =>
    /\ events[buffer[1]].num = evn
    /\ ~misread => events[buffer[1]].phys
    /\ buffer[2] = [j \in 1 .. events[buffer[1]].size |-> InFile(events[buffer[1]].pos + j - 1)]

\* "return last physics event number" (evio.c:618): what evOpenSearch returns, and
\* what evSearch compares with before it searches, is the largest event number.
\* When evSearch returns 1 or -1, there is no such physics event: whatever was
\* found by the calls before, and whichever way blocks without the beginning of
\* an event were passed by.  Not so when the event did not fit the buffer, or a
\* count of words of an earlier call was taken for that of this block.
NotFoundIsAbsent ==
  /\ (phase # "open" /\ EndIsKnown) => \A k \in Physics : last_evn >= events[k].num
  /\ (phase = "idle" /\ searches > 0 /\ result # 0 /\ EndIsKnown /\ ~misread /\ ~cut) =>
       \A k \in Physics : events[k].num # evn

\* "int evSearch" returns (evio.c:762-822), neither turning for ever nor ending the
\* program, when a physics event begins in every block and no type is misread.
SearchReturns == [](NoGap /\ phase = "search" => <>(phase = "idle" \/ misread))

=============================================================================
