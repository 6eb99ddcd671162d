------------------------------- MODULE Gethit -------------------------------
(***************************************************************************)
(* The gethit blocks of CTP (CTP/thGethit.c).  A block names the arrays of *)
(* a detector's hit list: the number of hits, the coordinates by which a   *)
(* hit is found and the values.  Each of its other lines asks for the hit  *)
(* at some coordinates and names the variable that gets its value and a    *)
(* test that says whether there was one.  Blocks are booked before the     *)
(* first event and again when they are loaded again, and executed for      *)
(* every event (ENGINE/g_keep_results.f).  Values are counted in halves,   *)
(* so that a real value need not be whole.                                 *)
(***************************************************************************)
EXTENDS Integers, Sequences, SequencesExt, FiniteSets, FiniteSetsExt

CONSTANTS
  Blocks, Titles,   \* the blocks, and the titles each of them may have
  Lists,            \* the arrays of each hit list, [number of hits -> set of arrays]
  ArrayType,        \* "INT" or "REAL", of each array
  Junk              \* values a new word of memory may have

Arrays == UNION {Lists[n] : n \in DOMAIN Lists}

TRUTH == 2        \* TRUE, in halves
TRUTHBITS == -1   \* the number that the bits of the integer TRUE are in a real variable

VARIABLES
  phase,       \* "setup", "ready", "event", "crashed"
  order, title, booked, \* the group: the blocks in the order they came, their titles, those booked
  opaque,      \* of a block: what thBookGethits has made of its title
  var,         \* the variables, by class and name: type and elements from 0
  due,         \* history: the values that the titles ask for, by name and index
  array, nhits, \* the common blocks of the engine, filled elsewhere
  given        \* the hits of the event that they should hold: [number of hits -> set of hits]

gethitvars == <<phase, order, title, booked, opaque, var, due>>

\* The lines of a block.  The default source of values is used throughout.
Setting(key, arg) == [key |-> key, arg |-> arg]
Gethit(dest, test, coords) == [key |-> "gethit", dest |-> dest, test |-> test, coords |-> coords]
Element(name, index) == [name |-> name, index |-> index]
BadIndex == -1      \* an index that cannot be evaluated
BadCoord == -1000   \* and a coordinate
NoTest == Element("", 0)

Name == [name : STRING, index : Nat \cup {BadIndex}]
Line == [key : {"missing_value"}, arg : Int]
        \cup [key : {"hitcount", "matchlist", "valuelist"}, arg : STRING]
        \cup [key : {"gethit"}, dest : Name, test : Name, coords : Seq(Int)]

With(f, x, v) == [y \in DOMAIN f \cup {x} |-> IF y = x THEN v ELSE f[y]]

Init ==
  /\ phase = "setup"
  /\ order = <<>> /\ title = [b \in Blocks |-> <<>>] /\ booked = {}
  /\ opaque = [b \in Blocks |-> <<>>]
  /\ var = [x \in {} |-> 0]
  /\ due = [x \in {} |-> 0]

\* thLoad
Load(b) ==
  /\ phase \in {"setup", "ready"}
  /\ \E t \in Titles[b] : title' = [title EXCEPT ![b] = t]
  /\ order' = IF b \in ToSet(order) THEN order ELSE Append(order, b)
  /\ booked' = booked \ {b}
  /\ phase' = "setup"
  /\ UNCHANGED <<opaque, var, due>>

-----------------------------------------------------------------------------
(* Booking. *)

\* The classes in which a destination is looked up, and a test
Destinations == <<"event", "test">>
TestFlags == <<"test", "event", "parm">>

\* The variable of a name, created in the first class if there is none, and
\* made longer if the index asks for it: new words have any value.
thVarResolve(v, x, classes, type, junk) ==
  LET in == {k \in DOMAIN classes : <<classes[k], x.name>> \in DOMAIN v}
      id == <<classes[IF in = {} THEN 1 ELSE Min(in)], x.name>>
      known == IF in = {} THEN With(v, id, [type |-> type, elements |-> <<0>>]) ELSE v
      missing == x.index + 1 - Len(known[id].elements)
  IN IF x.index = BadIndex THEN [ok |-> FALSE, id |-> id, var |-> known]
     ELSE [ok |-> TRUE, id |-> id,
           var |-> IF missing <= 0 THEN known
                   ELSE [known EXCEPT ![id].elements = @ \o [i \in 1..missing |-> junk]]]

\* Some arguments of a line may be found wrong when its variables exist already
thBookaGethit(acc, line, junk) ==
  LET o == acc.opq
      d == thVarResolve(acc.var, line.dest, Destinations, ArrayType[o.srcdefault], junk)
      t == IF line.test = NoTest THEN [ok |-> TRUE, id |-> <<>>, var |-> d.var]
           ELSE thVarResolve(d.var, line.test, TestFlags, "INT", junk)
      coord == [k \in 1..o.ncoord |-> line.coords[k]]
  IN IF Len(line.coords) < o.ncoord THEN acc
     ELSE IF ~d.ok THEN [acc EXCEPT !.var = d.var]
     ELSE IF ~t.ok \/ BadCoord \in {coord[k] : k \in 1..o.ncoord} THEN [acc EXCEPT !.var = t.var]
     ELSE [var |-> t.var,
           opq |-> [o EXCEPT !.hlist =
             Append(@, [src |-> o.srcdefault, coord |-> coord, dest |-> d.id, destindex |-> line.dest.index,
                        test |-> t.id, testindex |-> line.test.index])]]

\* A number of hits or an array of coordinates must be integer
thGethitPreamble(o, line) ==
  CASE line.key = "missing_value" -> [o EXCEPT !.default_real = line.arg]
    [] line.key = "valuelist" -> IF line.arg \in Arrays THEN [o EXCEPT !.srcdefault = line.arg] ELSE o
    [] line.key = "hitcount" -> IF line.arg \in DOMAIN Lists THEN [o EXCEPT !.vnhits = line.arg] ELSE o
    [] line.key = "matchlist" -> IF line.arg \in Arrays /\ ArrayType[line.arg] = "INT"
                                 THEN [o EXCEPT !.coord_array = Append(@, line.arg)] ELSE o

IsGethit(line) == line.key = "gethit"
\* The arrays to match with are counted first, up to the first line that asks for a hit
CountMatchlists(t) ==
  Cardinality({i \in DOMAIN t : t[i].key = "matchlist" /\ \A j \in 1..i : ~IsGethit(t[j])})

\* What was there is dropped, only the variables stay
NewOpaque(t) ==
  [vnhits |-> "", ncoord |-> CountMatchlists(t), coord_array |-> <<>>, srcdefault |-> "", default_real |-> 0,
   hlist |-> <<>>]

\* The first line that asks for a hit ends the preamble.  A setting that comes later
\* is not looked at,
Mode(t, n) == \E i \in 1..n : IsGethit(t[i])
BookLine(acc, t, n, junk) ==
  IF IsGethit(t[n]) THEN thBookaGethit(acc, t[n], junk)
  ELSE IF Mode(t, n) THEN acc
  ELSE [acc EXCEPT !.opq = thGethitPreamble(@, t[n])]

\* but taken for a hit that was entered: thGethitNext, which points to the end of the
\* list, moves on from there to a null pointer, and the program crashes at the next
\* line that uses it.
Late(t) == {i \in DOMAIN t : ~IsGethit(t[i]) /\ Mode(t, i)}
Entered(t, line) ==
  /\ IsGethit(line) /\ CountMatchlists(t) <= Len(line.coords)
  /\ line.dest.index # BadIndex /\ line.test.index # BadIndex
  /\ \A k \in 1..CountMatchlists(t) : line.coords[k] # BadCoord
Crashes(t) == \E i \in Late(t) : \E j \in DOMAIN t : i < j /\ (j \in Late(t) \/ Entered(t, t[j]))

thBookGethits(b) ==
  \E junk \in Junk :
    LET after[n \in 0..Len(title[b])] ==
          IF n = 0 THEN [opq |-> NewOpaque(title[b]), var |-> var] ELSE BookLine(after[n - 1], title[b], n, junk)
    IN /\ opaque' = [opaque EXCEPT ![b] = after[Len(title[b])].opq]
       /\ var' = after[Len(title[b])].var

\* thBook: the first block of the group that is not booked
Book ==
  /\ phase = "setup"
  /\ \E i \in DOMAIN order :
       /\ order[i] \notin booked /\ \A j \in 1..(i - 1) : order[j] \in booked
       /\ thBookGethits(order[i]) /\ booked' = booked \cup {order[i]}
       /\ phase' = IF Crashes(title[order[i]]) THEN "crashed" ELSE "setup"
  /\ UNCHANGED <<order, title, due>>

Booked ==
  /\ phase = "setup" /\ ToSet(order) \subseteq booked
  /\ phase' = "ready"
  /\ UNCHANGED <<order, title, booked, opaque, var, due>>

-----------------------------------------------------------------------------
(* Events. *)

\* The engine begins to fill the hit lists
NewEvent ==
  /\ phase = "ready" /\ phase' = "event"
  /\ UNCHANGED <<order, title, booked, opaque, var, due>>

\* The C conversion of a value that is not whole
floatToLong(v) == IF v > 0 THEN 2 * ((v + 1) \div 2) ELSE (-2) * ((1 - v) \div 2)
Convert(type, v) == IF type = "INT" THEN floatToLong(v) ELSE v

Store(v, id, index, value) == [v EXCEPT ![id].elements[index + 1] = Convert(v[id].type, value)]
\* A flag is stored as an integer, whatever its variable is
SetFlag(v, id, index, flag) ==
  [v EXCEPT ![id].elements[index + 1] = IF v[id].type = "REAL" /\ flag = TRUTH THEN TRUTHBITS ELSE flag]

\* (slip) the hits of earlier events are searched too
AllHits(o) == DOMAIN array[o.srcdefault]
\* The hits of this event
HitsOf(o) == 0..(nhits[o.vnhits] - 1)

Matches(o, g, i) == \A k \in 1..o.ncoord : array[o.coord_array[k]][i] = g.coord[k]

\* The test is reset and, with the first hit that matches, set, before the value is stored
ExecuteGethit(v, o, g) ==
  LET found == {i \in HitsOf(o) : Matches(o, g, i)}
      told == IF g.test = <<>> THEN v ELSE SetFlag(v, g.test, g.testindex, IF found = {} THEN 0 ELSE TRUTH)
  IN IF found = {} THEN told ELSE Store(told, g.dest, g.destindex, array[g.src][Min(found)])

thExecuteaGethitBlock(v, b) ==
  LET list == opaque[b].hlist
      after[n \in 0..Len(list)] == IF n = 0 THEN v ELSE ExecuteGethit(after[n - 1], opaque[b], list[n])
  IN after[Len(list)]

-----------------------------------------------------------------------------
(* What the titles ask for, by their lines and the hits of the event alone.  A
   hit has its values, and its place among the others (at). *)

Comes(p, q) == \E k \in DOMAIN p \cap DOMAIN q : p[k] < q[k] /\ \A j \in 1..(k - 1) : p[j] = q[j]

Preamble(t, key) == {t[i].arg : i \in {i \in DOMAIN t : t[i].key = key}}
The(S) == CHOOSE x \in S : TRUE
Matchlists(t) == {i \in DOMAIN t : t[i].key = "matchlist"}
\* The coordinate that a line has for the array of a match list
Coordinate(t, i) == Cardinality({j \in Matchlists(t) : j <= i})
WellFormed(t, line) ==
  /\ IsGethit(line) /\ Cardinality(Matchlists(t)) <= Len(line.coords)
  /\ line.dest.index # BadIndex /\ line.test.index # BadIndex
  /\ \A k \in 1..Cardinality(Matchlists(t)) : line.coords[k] # BadCoord

HitsFor(t, line) ==
  {hit \in given[The(Preamble(t, "hitcount"))] :
     \A i \in Matchlists(t) : hit.value[t[i].arg] = line.coords[Coordinate(t, i)]}
First(H) == CHOOSE hit \in H : \A other \in H : ~Comes(other.at, hit.at)

Asked(d, t, line) ==
  LET hits == HitsFor(t, line)
      told == IF line.test = NoTest THEN d ELSE With(d, line.test, IF hits = {} THEN 0 ELSE TRUTH)
  IN IF ~WellFormed(t, line) THEN d
     ELSE IF hits = {} THEN told ELSE With(told, line.dest, First(hits).value[The(Preamble(t, "valuelist"))])
AskedBy(d, t) ==
  LET after[n \in 0..Len(t)] == IF n = 0 THEN d ELSE Asked(after[n - 1], t, t[n])
  IN after[Len(t)]

\* thgethitg: all blocks of the group, in its order
Execute ==
  LET found[n \in 0..Len(order)] == IF n = 0 THEN var ELSE thExecuteaGethitBlock(found[n - 1], order[n])
      asked[n \in 0..Len(order)] == IF n = 0 THEN due ELSE AskedBy(asked[n - 1], title[order[n]])
  IN /\ phase = "event" /\ phase' = "ready"
     /\ var' = found[Len(order)]
     /\ due' = asked[Len(order)]
     /\ UNCHANGED <<order, title, booked, opaque>>

-----------------------------------------------------------------------------
\* After each event the variables hold what the present titles ask of its hits:
\* a test says whether there was a hit, a destination has the value of the first
\* one, or what it had, whatever was loaded, refused and found before
\* (thGethit.c:428-501).  A name denotes one variable, a destination in one line
\* and a test in another: the classes are searched before a variable is created
\* (thHist.c:518-524).
ValuesFollowTitles ==
  phase # "event" =>
    \A x \in DOMAIN due : \E id \in DOMAIN var :
      /\ {y \in DOMAIN var : y[2] = x.name} = {id}
      /\ var[id].elements[x.index + 1] = Convert(var[id].type, due[x])

-----------------------------------------------------------------------------
(* The titles that ValuesFollowTitles can be said of.  Others make it false. *)

\* The preamble comes first and names one list of hits, one array of values, and
\* integers to match with.
TrueTitle(t) ==
  /\ \A i, j \in DOMAIN t : i < j /\ IsGethit(t[i]) => IsGethit(t[j])
  /\ \E n \in DOMAIN Lists : \E a \in Lists[n] :
       /\ Preamble(t, "hitcount") = {n} /\ Preamble(t, "valuelist") = {a}
       /\ \A m \in Preamble(t, "matchlist") : m \in Lists[n] /\ ArrayType[m] = "INT"
RealNames(t) ==
  IF ArrayType[The(Preamble(t, "valuelist"))] = "REAL"
  THEN {t[i].dest.name : i \in {i \in DOMAIN t : IsGethit(t[i])}} ELSE {}
\* A flag is no destination of real values.
TrueTitles ==
  \A t \in UNION {Titles[b] : b \in Blocks} :
    /\ TrueTitle(t)
    /\ \A i \in DOMAIN t : \A u \in UNION {Titles[b] : b \in Blocks} :
         WellFormed(t, t[i]) /\ t[i].test # NoTest => t[i].test.name \notin RealNames(u)
=============================================================================
