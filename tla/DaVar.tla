------------------------------- MODULE DaVar --------------------------------
(***************************************************************************)
(* The variables of CTP: the hash table in which they are registered       *)
(* (CTP/daVarRegister.c, daVarHashLib.c), the parameter lines that set     *)
(* them and make new ones (thParm.c, thUtils.c), and the handlers that     *)
(* read and write them for a remote client (daVarHandlers.c).              *)
(*                                                                         *)
(* A name is a sequence of its components between dots.  A number is given *)
(* in halves, 5 for 2.5, so that an even one has no fraction.              *)
(***************************************************************************)
EXTENDS Integers, Sequences, SequencesExt

CONSTANTS
  Names,           \* set of names, in all spellings; closed as in NamesClosed
  Lower,           \* the component of a name in lower case
  SIZE,            \* TABLE_SIZE: number of chains
  Hash,            \* hash value of the characters of a name
  Registrations,   \* set of what the program registers: [name, type, size]
  Lines,           \* set of lines of parameter blocks
  Declarations,    \* set of special lines #integer, #real: [name, type, size]
  Writes, Reads, Patterns,         \* sets of requests of clients
  MaxRegs, MaxLines, MaxRequests   \* bounds on the operations

VARIABLES
  chains, names,   \* the hash table, of structures; the name of each structure
  var,             \* the rest of each structure: type, size, dynamic, block
  heap,            \* the blocks of memory: type, cells, live
  pv,              \* the globals thParmVar...
  answer,          \* what a client was answered
  undefined,       \* the program has used memory that is not its own
  meant,           \* history: the values that were given, by structure and index
  cursor,          \* history: where a continuation line goes on
  regs, lines, requests   \* how many there were

registry == <<chains, names>>
counts == <<regs, lines, requests>>
vars == <<registry, var, heap, pv, answer, undefined, meant, cursor, counts>>

Key(n) == [i \in DOMAIN n |-> Lower[n[i]]]
Folded == [n \in Names |-> Key(n)]
Parm == "parm"

ASSUME SizeAssumption == SIZE \in Nat \ {0}
ASSUME HashAssumption == Hash \in [{Folded[n] : n \in Names} \cup Names -> 0 .. SIZE - 1]
ASSUME NamesClosed == \A n \in Names : n \in Seq(STRING) /\ (Len(n) = 1 => <<Parm>> \o n \in Names)
Text == {"string", "fstring"}
Types == {"int", "float", "double"} \cup Text

ASSUME SizesAssumption ==
  \A r \in Registrations \cup Declarations : r.name \in Names /\ r.type \in Types /\ r.size \in Nat
ASSUME LinesAssumption ==
  \A l \in Lines :
    /\ l.var = <<>> \/ l.var \in Names
    /\ l.ix \in Int /\ l.len \in Nat
    /\ l.args \in Seq([kind : {"int", "float", "expr"}, v : Int])
    /\ \A i \in DOMAIN l.args : l.args[i].kind = "int" => l.args[i].v % 2 = 0
ASSUME WritesAssumption ==
  \A w \in Writes : w.path \in Seq(STRING) /\ w.ix \in Int /\ w.values \in Seq(Int)
ASSUME ReadsAssumption == \A r \in Reads : r.path \in Seq(STRING) /\ r.ix \in Int
ASSUME LowerAssumption == \A n \in Names : \A i \in DOMAIN n : n[i] \in DOMAIN Lower

(***************************************************************************)
(* The hash table                                                          *)
(***************************************************************************)

\* daVarComp makes no difference between upper and lower case.
Same(a, b) == Folded[a] = Folded[b]

\* Slip: the case of a name counts.
HashOfSpelling(n) == Hash[n]
hashFunction(n) == Hash[Folded[n]]

crlHashFind(n) ==
  LET chain == chains[hashFunction(n)]
      hits == {j \in DOMAIN chain : Same(names[chain[j]], n)}
  IN IF hits = {} THEN 0 ELSE chain[CHOOSE j \in hits : \A i \in hits : j <= i]

\* A new structure is put at the head of its chain.
crlHashAdd(n) ==
  IF crlHashFind(n) # 0 THEN chains
  ELSE [chains EXCEPT ![hashFunction(n)] = <<Len(names) + 1>> \o @]

Definition(type, size, dynamic, block) ==
  [type |-> type, size |-> IF size <= 0 THEN 1 ELSE size, dynamic |-> dynamic, block |-> block]

\* The structure of a name that is there already is kept, and filled anew.
daVarRegister(n, def) ==
  IF crlHashFind(n) # 0 THEN [var EXCEPT ![crlHashFind(n)] = def] ELSE Append(var, def)

Bind(n) ==
  /\ chains' = crlHashAdd(n)
  /\ names' = IF crlHashFind(n) # 0 THEN names ELSE Append(names, n)

\* Where the structure of n is after that
Bound(n) == IF crlHashFind(n) # 0 THEN crlHashFind(n) ELSE Len(names) + 1

\* The bare name, then the name with the class "parm"
daVarLookupPWithClass(n) ==
  IF crlHashFind(n) # 0 THEN crlHashFind(n)
  ELSE IF <<Parm>> \o n \in Names THEN crlHashFind(<<Parm>> \o n) ELSE 0

\* Without a dot, a new name is given the class.
NewName(n) == IF Len(n) = 1 THEN <<Parm>> \o n ELSE n

(***************************************************************************)
(* Memory.  Blocks are never given out again, so that a use of one that    *)
(* was freed can be told.  Characters are numbers of their own.            *)
(***************************************************************************)

Garbage == 9999
Character == 1001
Blank == 1002
NUL == 1003

\* The smallest block has room for one value, even when none was asked for.
Malloc(type, n) == [type |-> type, cells |-> [j \in 1 .. (IF n = 0 THEN 1 ELSE n) |-> Garbage], live |-> TRUE]
Free(h, b) == [h EXCEPT ![b].live = FALSE]
Live(h, b) == b # 0 /\ h[b].live

Register(type) == IF type \in Text THEN "text" ELSE type

\* Values by index, of those that were given
NoneMeant == [j \in {} |-> 0]
Over(f, g) == [j \in DOMAIN f \cup DOMAIN g |-> IF j \in DOMAIN f THEN f[j] ELSE g[j]]

\* floatToLong: a half is rounded away from zero.
floatToLong(v) == IF v % 2 = 0 THEN v ELSE IF v > 0 THEN v + 1 ELSE v - 1

(***************************************************************************)
(* thParmLineSet.  A line gives the values args[..], each [kind, v], of    *)
(* the variable var[ix], or, when it has no "=", goes on with those of the *)
(* line before.  s has what it changes.                                    *)
(***************************************************************************)

Pointed(s) == s.pv.ptr[Register(s.pv.type)]
\* Slip: the structure still points to the old block.
RepointGlobal(s, type, new) == [s EXCEPT !.heap = Append(@, new), !.pv.ptr[type] = Len(s.heap) + 1]
Repoint(s, type, new) ==
  [s EXCEPT !.heap = Append(@, new), !.pv.ptr[type] = Len(s.heap) + 1,
            !.var[s.pv.varp].block = Len(s.heap) + 1]

Kept(h, b, n, size) ==
  [j \in 1 .. size |-> IF j <= n /\ j <= Len(h[b].cells) THEN h[b].cells[j] ELSE Garbage]

\* Room for rest more values.  What is not an integer is taken for a float.
Grow(s, rest) ==
  LET type == IF s.pv.type = "int" THEN "int" ELSE "float"
      b == s.pv.ptr[type]
      size == s.pv.index + rest
      grown == [type |-> type, cells |-> Kept(s.heap, b, s.pv.alen, size), live |-> TRUE]
  IN IF s.pv.type = "double" \/ ~Live(s.heap, b) THEN [s EXCEPT !.undefined = TRUE]
     ELSE Repoint([s EXCEPT !.heap = Free(@, b), !.var[s.pv.varp].size = size, !.pv.alen = size],
                  type, grown)

\* A dynamic array of integers that is given a fraction, or a number with a
\* point, becomes one of floats.
Floats(s, a) == a.kind = "float" \/ (a.kind # "int" /\ a.v % 2 # 0)
ToFloat(s) ==
  LET b == s.pv.ptr["int"]
  IN Repoint([s EXCEPT !.heap = Free(@, b), !.pv.type = "float", !.var[s.pv.varp].type = "float"],
             "float", [s.heap[b] EXCEPT !.type = "float"])

Store(s, v) ==
  LET b == Pointed(s)
  IN IF ~Live(s.heap, b) \/ s.pv.index \notin 0 .. Len(s.heap[b].cells) - 1
       THEN [s EXCEPT !.undefined = TRUE]
       ELSE [s EXCEPT !.heap[b].cells[s.pv.index + 1] = v, !.pv.index = @ + 1]

StoreArg(s, a) ==
  IF s.pv.type = "int"
    THEN IF s.pv.dynamic /\ Floats(s, a) /\ Live(s.heap, s.pv.ptr["int"]) THEN Store(ToFloat(s), a.v)
         ELSE Store(s, floatToLong(a.v))
    ELSE Store(s, a.v)

\* failed: the line "tried to fill past end of array".
NextArg(s, a, rest) ==
  IF s.undefined \/ s.failed THEN s
  ELSE IF s.pv.index < s.pv.alen THEN StoreArg(s, a)
  ELSE IF ~s.pv.dynamic THEN [s EXCEPT !.failed = TRUE]
  ELSE LET grown == Grow(s, rest) IN IF grown.undefined THEN grown ELSE StoreArg(grown, a)

SetNumbers(s, args) ==
  LET filled[i \in 0 .. Len(args)] ==
        IF i = 0 THEN s ELSE NextArg(filled[i - 1], args[i], Len(args) - i + 1)
  IN filled[Len(args)]

\* The first n characters after the "=", clipped; a string of Fortran is padded.
SetText(s, n) ==
  LET room == IF s.pv.type = "string" THEN s.pv.alen - 1 ELSE s.pv.alen
      len == IF n > room THEN room ELSE n
      b == s.pv.ptr["text"]
      cell(j) == CASE j <= len -> Character
                   [] j > len /\ s.pv.type = "fstring" -> Blank
                   [] j = len + 1 /\ s.pv.type = "string" -> NUL
                   [] OTHER -> s.heap[b].cells[j]
  IN [s EXCEPT !.heap[b].cells = [j \in DOMAIN @ |-> cell(j)]]

\* The globals after the name of the line
Named(l, p, d) ==
  [varp |-> p, type |-> d.type, dynamic |-> d.dynamic, alen |-> d.size, index |-> l.ix,
   ptr |-> [pv.ptr EXCEPT ![Register(d.type)] = d.block]]

(***************************************************************************)
(* What the values of a line mean: each goes to the next element of the    *)
(* variable, as far as it has one; a variable that the lines have made     *)
(* has as many as they give, and takes fractions.                          *)
(***************************************************************************)

Meaning(m, p, def, from, args) ==
  LET room == IF def.dynamic THEN Len(args) ELSE def.size - from
      n == IF room < Len(args) THEN room ELSE Len(args)
      value(a) == IF def.type = "int" /\ ~def.dynamic THEN floatToLong(a.v) ELSE a.v
  IN [m EXCEPT ![p] = Over([j \in from .. from + n - 1 |-> value(args[j - from + 1])], @)]

Apply(s, l, m, p, def) ==
  LET t == IF s.pv.type \in Text THEN SetText(s, l.len) ELSE SetNumbers(s, l.args)
      from == IF l.var = <<>> THEN cursor ELSE l.ix
  IN /\ var' = t.var /\ heap' = t.heap /\ pv' = t.pv
     /\ undefined' = t.undefined
     /\ meant' = IF s.pv.type \in Text THEN m ELSE Meaning(m, p, def, from, l.args)
     /\ cursor' = from + Len(l.args)

\* The line sets the variable that it names.
ParmLine(l) ==
  /\ l.var # <<>> /\ ~l.number
  /\ LET p == daVarLookupPWithClass(l.var)
         n == NewName(l.var)
         fresh == Definition("int", l.ix + Len(l.args), TRUE, Len(heap) + 1)
     IN IF p # 0
          THEN /\ UNCHANGED registry
               /\ Apply([var |-> var, heap |-> heap, pv |-> Named(l, p, var[p]), undefined |-> l.ix < 0, failed |-> FALSE],
                        l, meant, p, var[p])
          ELSE /\ Bind(n)
               /\ Apply([var |-> daVarRegister(n, fresh), heap |-> Append(heap, Malloc("int", l.ix + Len(l.args))),
                         pv |-> Named(l, Bound(n), fresh), undefined |-> l.ix < 0, failed |-> FALSE],
                        l, Append(meant, NoneMeant), Bound(n), fresh)

\* Without "=", it goes on where the last line was.  There is no text to be
\* copied into a string.
ContinuationLine(l) ==
  /\ l.var = <<>>
  /\ UNCHANGED registry
  /\ CASE pv.varp = 0 -> UNCHANGED <<var, heap, pv, undefined, meant, cursor>>
       [] pv.varp # 0 /\ pv.type \in Text -> undefined' = TRUE /\ UNCHANGED <<var, heap, pv, meant, cursor>>
       [] OTHER -> Apply([var |-> var, heap |-> heap, pv |-> pv, undefined |-> FALSE, failed |-> FALSE],
                         l, meant, pv.varp, var[pv.varp])

\* A number cannot be set.  The lines that continue this one go on with the
\* variable before.
NumberLine(l) ==
  /\ l.var # <<>> /\ l.number
  /\ UNCHANGED <<registry, var, heap, pv, undefined, meant, cursor>>

thParmLineSet ==
  /\ ~undefined /\ lines < MaxLines /\ lines' = lines + 1
  /\ \E l \in Lines : ParmLine(l) \/ ContinuationLine(l) \/ NumberLine(l)
  /\ answer' = <<>> /\ UNCHANGED <<regs, requests>>

(***************************************************************************)
(* The program's own variables, and those that special lines declare       *)
(***************************************************************************)

Init ==
  /\ chains = [h \in 0 .. SIZE - 1 |-> <<>>] /\ names = <<>>
  /\ var = <<>> /\ heap = <<>>
  /\ pv = [varp |-> 0, type |-> "int", dynamic |-> FALSE, alen |-> 0, index |-> 0,
           ptr |-> [t \in {"int", "float", "double", "text"} |-> 0]]
  /\ answer = <<>> /\ undefined = FALSE
  /\ meant = <<>> /\ cursor = 0
  /\ regs = 0 /\ lines = 0 /\ requests = 0

\* regint, regrealarray, regparmstring and the others, all called before any
\* parameter is read.
regvar(r) ==
  /\ regs < MaxRegs /\ lines = 0 /\ requests = 0
  /\ regs' = regs + 1
  /\ Bind(r.name)
  /\ var' = daVarRegister(r.name, Definition(r.type, r.size, FALSE, Len(heap) + 1))
  /\ heap' = Append(heap, Malloc(r.type, r.size))
  /\ meant' = IF Bound(r.name) <= Len(meant) THEN [meant EXCEPT ![Bound(r.name)] = NoneMeant]
              ELSE Append(meant, NoneMeant)
  /\ UNCHANGED <<pv, answer, undefined, cursor, lines, requests>>

\* thVarCreate: a variable that is there gets the type and the size when lines
\* have made it; its values are kept as they are in memory.
Declare(d) ==
  LET p == daVarLookupPWithClass(d.name)
      old == var[p]
      same == old.type = d.type /\ old.size = d.size
      cells == IF old.type = d.type THEN Kept(heap, old.block, d.size, d.size)
               ELSE Malloc(d.type, d.size).cells
  IN CASE p = 0 ->
            /\ Bind(NewName(d.name))
            /\ var' = daVarRegister(NewName(d.name), Definition(d.type, d.size, TRUE, Len(heap) + 1))
            /\ heap' = Append(heap, Malloc(d.type, d.size))
            /\ meant' = Append(meant, NoneMeant)
            /\ UNCHANGED undefined
       [] p # 0 /\ (same \/ ~old.dynamic) ->
            UNCHANGED <<registry, var, heap, meant, undefined>>
       [] p # 0 /\ ~same /\ old.dynamic ->
            /\ var' = [var EXCEPT ![p].type = d.type, ![p].size = d.size, ![p].block = Len(heap) + 1]
            /\ heap' = Append(Free(heap, old.block), [type |-> d.type, cells |-> cells, live |-> TRUE])
            /\ meant' = [meant EXCEPT ![p] =
                           IF old.type # d.type THEN NoneMeant
                           ELSE [j \in {i \in DOMAIN @ : i < d.size} |-> @[j]]]
            /\ undefined' = (d.type \in {"double", "string"})  \* a pointer is used that was not set
            /\ UNCHANGED registry

thSpecial ==
  /\ ~undefined /\ lines < MaxLines /\ lines' = lines + 1
  /\ \E d \in Declarations : Declare(d)
  /\ answer' = <<>> /\ UNCHANGED <<pv, cursor, regs, requests>>

(***************************************************************************)
(* Requests of remote clients: a path is a variable's name with or without *)
(* an attribute after it.                                                  *)
(***************************************************************************)

Registered(path) == path \in Names /\ crlHashFind(path) # 0
Prefix(path, n) == SubSeq(path, 1, n)

\* The shortest part of the path that is a variable: its class, or 0
daVarClassFind(path) ==
  LET found == {n \in 1 .. Len(path) : Registered(Prefix(path, n))}
  IN IF found = {} THEN 0 ELSE CHOOSE n \in found : \A m \in found : n <= m

\* The path itself, or else what is left of it when attributes are taken from
\* its end, but not the class.
\* Slip: it ends at the class.
AttributeOfClass(path, class) ==
  IF Registered(path) THEN Len(path) ELSE class
daVarAttributeFind(path, class) ==
  IF Registered(path) THEN Len(path)
  ELSE LET found == {n \in class + 1 .. Len(path) - 1 : Registered(Prefix(path, n))}
       IN IF found = {} THEN class ELSE CHOOSE n \in found : \A m \in found : m <= n

Attribute(path, n) == [i \in 1 .. Len(path) - n |-> Lower[path[n + i]]]
IsValue(attribute) == attribute \in {<<>>, <<"value">>}

Failure == [status |-> "failure", values |-> <<>>]

Cells(p) == [j \in 1 .. var[p].size |-> heap[var[p].block].cells[j]]

\* daVarRegRatr: an element is read whether the array has it or not.
daVarRegRatr(p, attribute, ix) ==
  LET is(values) == [status |-> "success", values |-> values]
      block == heap[var[p].block]
  IN CASE IsValue(attribute) /\ var[p].type \in Text -> is(IF ix = -101 THEN Cells(p) ELSE <<>>)
       [] IsValue(attribute) /\ var[p].type \notin Text ->
            is(IF ix = -101 THEN Cells(p)
               ELSE <<IF ix \in 0 .. Len(block.cells) - 1 THEN block.cells[ix + 1] ELSE Garbage>>)
       [] attribute = <<"size">> -> is(<<2 * var[p].size>>)
       [] attribute \in {<<"title">>, <<"type">>, <<"flag">>, <<"watr">>, <<"ratr">>} -> is(<<>>)
       [] OTHER -> Failure

daVarReadVar ==
  /\ requests < MaxRequests /\ requests' = requests + 1
  /\ \E r \in Reads :
       LET class == daVarClassFind(r.path)
           n == daVarAttributeFind(r.path, class)
       IN answer' = IF class = 0 THEN [request |-> r, reply |-> Failure]
                    ELSE [request |-> r,
                          reply |-> daVarRegRatr(crlHashFind(Prefix(r.path, n)), Attribute(r.path, n), r.ix)]
  /\ UNCHANGED <<registry, var, heap, pv, undefined, meant, cursor, regs, lines>>

\* daVarRegWatr: what becomes of the block's cells, when the values are of a
\* kind the variable takes and end in it.  No flag of the variable is looked at.
First(ix) == IF ix = -101 THEN 0 ELSE ix
\* The sum is unsigned, but for a text of Fortran.
Fits(p, ix, n) ==
  n + First(ix) <= var[p].size /\ (n + First(ix) >= 0 \/ var[p].type = "fstring")
Takes(p, attribute, ix, kind, values) ==
  IsValue(attribute) /\ (kind = "text") = (var[p].type \in Text) /\ Fits(p, ix, Len(values))
Convert(type, kind, v) == IF type = "int" /\ kind = "float" THEN floatToLong(v) ELSE v
daVarRegWatr(p, ix, kind, values) ==
  LET d == var[p]
      cells == heap[d.block].cells
      at == First(ix)
      n == Len(values)
      written(j) == IF j - at \in 1 .. n THEN Convert(d.type, kind, values[j - at])
                    ELSE CASE d.type = "fstring" /\ j > at + n /\ j <= d.size -> Blank
                           [] d.type = "string" /\ j = at + n + 1 -> NUL
                           [] OTHER -> cells[j]
  IN [j \in DOMAIN cells |-> written(j)]

\* Where the values of a request go: to the variable with the longest name
\* that the path begins with
Addressed(path) ==
  LET found == {n \in 1 .. Len(path) : Registered(Prefix(path, n))}
  IN IF found = {} THEN 0 ELSE CHOOSE n \in found : \A m \in found : m <= n

WriteMeaning(w) ==
  LET n == Addressed(w.path)
      p == crlHashFind(Prefix(w.path, n))
      at == First(w.ix)
      v(j) == Convert(var[p].type, w.kind, w.values[j - at + 1])
  IN IF n > 0 /\ IsValue(Attribute(w.path, n)) /\ w.kind # "text" /\ var[p].type \notin Text
        /\ at + Len(w.values) \in 0 .. var[p].size
       THEN [meant EXCEPT ![p] = Over([j \in at .. at + Len(w.values) - 1 |-> v(j)], @)]
       ELSE meant

\* An index below that of the first element passes when the values reach that.
daVarWriteVar ==
  /\ requests < MaxRequests /\ requests' = requests + 1
  /\ \E w \in Writes :
       LET class == daVarClassFind(w.path)
           n == daVarAttributeFind(w.path, class)
           p == crlHashFind(Prefix(w.path, n))
       IN /\ IF class # 0 /\ Takes(p, Attribute(w.path, n), w.ix, w.kind, w.values)
               THEN /\ heap' = [heap EXCEPT ![var[p].block].cells = daVarRegWatr(p, w.ix, w.kind, w.values)]
                    /\ undefined' = (First(w.ix) < 0)
               ELSE UNCHANGED <<heap, undefined>>
          /\ meant' = WriteMeaning(w)
  /\ answer' = <<>>
  /\ UNCHANGED <<registry, var, pv, cursor, regs, lines>>

\* daVarList: the names that match, in the order of the table; without a
\* wildcard, those that begin with the pattern in any case.
Matches(pattern, n) ==
  /\ Len(n) >= Len(pattern.name)
  /\ LET start == Prefix(n, Len(pattern.name))
     IN IF pattern.wild THEN start = pattern.name ELSE Key(start) = Key(pattern.name)

daVarList_node(list, pattern, p) == IF Matches(pattern, names[p]) THEN Append(list, p) ELSE list

\* One chain after the other, from its head
ChainWalk(list, pattern, chain) ==
  LET walked[j \in 0 .. Len(chain)] == IF j = 0 THEN list ELSE daVarList_node(walked[j - 1], pattern, chain[j])
  IN walked[Len(chain)]
crlHashWalk(pattern) ==
  LET walked[h \in 0 .. SIZE] == IF h = 0 THEN <<>> ELSE ChainWalk(walked[h - 1], pattern, chains[h - 1])
  IN walked[SIZE]

daVarList ==
  /\ requests < MaxRequests /\ requests' = requests + 1
  /\ \E pattern \in Patterns : answer' = [request |-> pattern, found |-> crlHashWalk(pattern)]
  /\ UNCHANGED <<registry, var, heap, pv, undefined, meant, cursor, regs, lines>>

Request == ~undefined /\ (daVarReadVar \/ daVarWriteVar \/ daVarList)

Next ==
  \/ \E r \in Registrations : regvar(r)
  \/ thParmLineSet
  \/ thSpecial
  \/ Request

Spec == Init /\ [][Next]_vars

(***************************************************************************)
(* Properties                                                              *)
(***************************************************************************)

\* The structure that a lookup finds for a name is the same ever after, and
\* another name's is another one, whatever the case of the names, their order
\* and the chain they share: "daVarLookupP" gives it to those who keep it
\* (daVarRegister.c:284-299).
binding == [n \in Names |-> crlHashFind(n)]
Registry == INSTANCE Bindings
RegistrySpec == Registry!Spec

\* "Size is number of array elements" (daVar.h:98): however an array has grown or
\* changed its type, its structure points to a block that was not freed, of its
\* type, that has its elements; and no other structure points there.
RegisteredIsLive ==
  ~undefined =>
    \A p \in DOMAIN var :
      /\ Live(heap, var[p].block)
      /\ heap[var[p].block].type = var[p].type
      /\ Len(heap[var[p].block].cells) >= var[p].size
      /\ \A q \in DOMAIN var : q # p => var[q].block # var[p].block

\* No two variables share a block, and a value that a parameter line or a client
\* has given is in the element it was given for, a fraction kept or rounded as the variable's type has it, until
\* it is given another or its variable declared anew; the array may since have
\* grown, and turned from integers into floats.
ValuesKept ==
  /\ RegisteredIsLive
  /\ ~undefined =>
       \A p \in DOMAIN meant : \A j \in DOMAIN meant[p] :
         j < var[p].size /\ heap[var[p].block].cells[j + 1] = meant[p][j]

\* A client that reads what was given reads that value, of the variable with the
\* longest name that its path begins with; and a list has each name that
\* matches once.
AnswersRight ==
  answer # <<>> =>
    IF "found" \in DOMAIN answer
      THEN /\ \A i, j \in DOMAIN answer.found : answer.found[i] = answer.found[j] => i = j
           /\ ToSet(answer.found) = {p \in DOMAIN names : Matches(answer.request, names[p])}
      ELSE LET path == answer.request.path
               n == Addressed(path)
               p == crlHashFind(Prefix(path, n))
               ix == answer.request.ix
               values == answer.reply.values
           IN n > 0 /\ IsValue(Attribute(path, n)) /\ var[p].type \notin Text =>
                /\ answer.reply.status = "success"
                /\ \A j \in DOMAIN meant[p] :
                     CASE ix = -101 -> values[j + 1] = meant[p][j]
                       [] ix = j -> values = <<meant[p][j]>>
                       [] OTHER -> TRUE
=============================================================================
