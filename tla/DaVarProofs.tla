---------------------------- MODULE DaVarProofs -----------------------------
(***************************************************************************)
(* First: the hash table of DaVar is a registry as Bindings has it.        *)
(* However its chains are shared and whatever the names, a name finds the  *)
(* structure that was made for it, and always that one.                    *)
(*                                                                         *)
(* Then: no two variables of CTP share a block of memory, and a value that *)
(* a parameter line or a client has given is in the element it was given   *)
(* for, for every set of names, registrations, lines and requests and any  *)
(* number of them.                                                         *)
(*                                                                         *)
(* The invariant, MemoryInv, adds to ValuesKept what the next operation    *)
(* relies on: the blocks are of the types that the structures say, and the *)
(* globals thParmVar... that a line leaves to the next one point to the    *)
(* structure, the block and the element where a line without a name goes   *)
(* on - or to a block that was freed since, when the next value is an      *)
(* error (Lost), or to a text.                                             *)
(*                                                                         *)
(* A line stores its values one after the other, and may have to move the  *)
(* array for each.  Fill(s, t, args, i) says what i of them have made of   *)
(* the state s; it holds of 0 and is kept by each next one, hence holds of *)
(* all (UpTo, the naturals being well founded).  MeaningFill then compares *)
(* it with what the line means.                                            *)
(*                                                                         *)
(* At last, a client is answered right: AnswersInv adds that every         *)
(* structure is in the chain of its name and in no other (Placed), so that *)
(* the walk through the table comes to each once.                          *)
(***************************************************************************)
EXTENDS DaVar, WellFoundedInduction, TLAPS

(***************************************************************************)
(* The hash table                                                          *)
(***************************************************************************)

Slots == 0 .. SIZE - 1

\* crlHashFind in the chains c of structures that have the names nm.
Hits(c, nm, n) == {j \in DOMAIN c[hashFunction(n)] : Same(nm[c[hashFunction(n)][j]], n)}
FindIn(c, nm, n) ==
  IF Hits(c, nm, n) = {} THEN 0
  ELSE c[hashFunction(n)][CHOOSE j \in Hits(c, nm, n) : \A i \in Hits(c, nm, n) : j <= i]

\* No two entries of a chain have the same name but for its case.
Table(c, nm) ==
  /\ nm \in Seq(Names)
  /\ c \in [Slots -> Seq(1 .. Len(nm))]
  /\ \A h \in Slots : \A i, j \in 1 .. Len(c[h]) : Same(nm[c[h][i]], nm[c[h][j]]) => i = j

RegistryInv == Table(chains, names)

\* crlHashAdd of a structure with the name n
Added(c, nm, n, d, e) ==
  /\ d = [c EXCEPT ![hashFunction(n)] = <<Len(nm) + 1>> \o @]
  /\ e = Append(nm, n)

\* Every name has a slot.
LEMMA HashSlot ==
  ASSUME NEW n \in Names PROVE hashFunction(n) \in Slots
<1>1. Folded[n] \in {Folded[m] : m \in Names} \cup Names
  OBVIOUS
<1> QED
  BY <1>1, HashAssumption DEF hashFunction, Slots

\* What crlHashFind finds is an entry with the name.
LEMMA FindHit ==
  ASSUME NEW c, NEW nm, Table(c, nm), NEW n \in Names,
         NEW j \in 1 .. Len(c[hashFunction(n)]), Same(nm[c[hashFunction(n)][j]], n)
  PROVE  FindIn(c, nm, n) = c[hashFunction(n)][j]
<1> DEFINE h == hashFunction(n)
<1>1. h \in Slots
  BY HashSlot
<1>2. c[h] \in Seq(1 .. Len(nm)) /\ DOMAIN c[h] = 1 .. Len(c[h])
  BY <1>1 DEF Table
<1>3. j \in Hits(c, nm, n)
  BY <1>2 DEF Hits
<1>4. \A i \in Hits(c, nm, n) : i = j
  BY <1>1, <1>2 DEF Hits, Table, Same
<1>5. Hits(c, nm, n) = {j}
  BY <1>3, <1>4
<1>6. (CHOOSE k \in Hits(c, nm, n) : \A i \in Hits(c, nm, n) : k <= i) = j
  <2>1. j <= j
    BY <1>2
  <2> QED
    BY <1>5, <2>1
<1> QED
  BY <1>3, <1>6 DEF FindIn

\* Without such an entry it finds none.
LEMMA FindMiss ==
  ASSUME NEW c, NEW nm, Table(c, nm), NEW n \in Names,
         \A j \in 1 .. Len(c[hashFunction(n)]) : ~Same(nm[c[hashFunction(n)][j]], n)
  PROVE  FindIn(c, nm, n) = 0
<1>1. c[hashFunction(n)] \in Seq(1 .. Len(nm))
  BY HashSlot DEF Table
<1>2. DOMAIN c[hashFunction(n)] = 1 .. Len(c[hashFunction(n)])
  BY <1>1
<1> QED
  BY <1>2 DEF FindIn, Hits

\* A structure, or none
LEMMA FindRange ==
  ASSUME NEW c, NEW nm, Table(c, nm), NEW n \in Names
  PROVE  FindIn(c, nm, n) \in 0 .. Len(nm)
<1>1. c[hashFunction(n)] \in Seq(1 .. Len(nm)) /\ Len(nm) \in Nat
  BY HashSlot DEF Table
<1>2. CASE \A j \in 1 .. Len(c[hashFunction(n)]) : ~Same(nm[c[hashFunction(n)][j]], n)
  BY <1>1, <1>2, FindMiss
<1>3. CASE \E j \in 1 .. Len(c[hashFunction(n)]) : Same(nm[c[hashFunction(n)][j]], n)
  <2>1. PICK j \in 1 .. Len(c[hashFunction(n)]) : Same(nm[c[hashFunction(n)][j]], n)
    BY <1>3
  <2>2. FindIn(c, nm, n) = c[hashFunction(n)][j]
    BY <2>1, FindHit
  <2>3. c[hashFunction(n)][j] \in 1 .. Len(nm)
    BY <1>1
  <2> QED
    BY <1>1, <2>2, <2>3
<1> QED
  BY <1>2, <1>3

\* A structure that is added is found under its name, and nothing else changes.
LEMMA AddOne ==
  ASSUME NEW c, NEW nm, Table(c, nm), NEW n \in Names, FindIn(c, nm, n) = 0,
         NEW d, NEW e, Added(c, nm, n, d, e)
  PROVE  /\ Table(d, e)
         /\ \A m \in Names : FindIn(d, e, m) = IF Same(m, n) THEN Len(nm) + 1 ELSE FindIn(c, nm, m)
<1> DEFINE h == hashFunction(n)
           p == Len(nm) + 1
<1>1. h \in Slots /\ nm \in Seq(Names) /\ Len(nm) \in Nat /\ c \in [Slots -> Seq(1 .. Len(nm))]
  BY HashSlot DEF Table
<1>2. /\ e \in Seq(Names) /\ Len(e) = p /\ e[p] = n
      /\ \A q \in 1 .. Len(nm) : e[q] = nm[q]
  BY <1>1 DEF Added
<1>3. /\ d[h] \in Seq(1 .. p) /\ Len(d[h]) = Len(c[h]) + 1 /\ d[h][1] = p
      /\ \A j \in 1 .. Len(c[h]) : d[h][j + 1] = c[h][j]
  <2>1. c[h] \in Seq(1 .. Len(nm)) /\ d[h] = <<p>> \o c[h]
    BY <1>1 DEF Added
  <2>2. c[h] \in Seq(1 .. p) /\ <<p>> \in Seq(1 .. p)
    BY <1>1, <2>1
  <2>3. d[h] \in Seq(1 .. p)
    BY <2>1, <2>2
  <2>4. Len(c[h]) \in Nat /\ Len(<<p>>) = 1 /\ <<p>>[1] = p
    BY <2>1
  <2>5. Len(d[h]) = Len(c[h]) + 1 /\ d[h][1] = p
    BY <2>1, <2>2, <2>4
  <2>6. ASSUME NEW j \in 1 .. Len(c[h]) PROVE d[h][j + 1] = c[h][j]
    BY <2>1, <2>2, <2>4
  <2> QED
    BY <2>3, <2>5, <2>6
<1>4. \A k \in Slots \ {h} : d[k] = c[k]
  BY <1>1 DEF Added
<1>5. d \in [Slots -> Seq(1 .. p)]
  <2>1. \A k \in Slots : d[k] \in Seq(1 .. p)
    <3>1. \A k \in Slots \ {h} : c[k] \in Seq(1 .. p)
      BY <1>1
    <3> QED
      BY <1>3, <1>4, <3>1
  <2>2. d = [k \in Slots |-> d[k]]
    BY <1>1 DEF Added
  <2> QED
    BY <2>1, <2>2
<1>6. \A j \in 1 .. Len(c[h]) : ~Same(nm[c[h][j]], n)
  <2> SUFFICES ASSUME NEW j \in 1 .. Len(c[h]), Same(nm[c[h][j]], n) PROVE FALSE
    OBVIOUS
  <2>1. FindIn(c, nm, n) = c[h][j]
    BY FindHit
  <2>2. c[h] \in Seq(1 .. Len(nm))
    BY <1>1
  <2>3. c[h][j] \in 1 .. Len(nm)
    BY <2>2
  <2> QED
    BY <1>1, <2>1, <2>3
<1>7. Table(d, e)
  <2> SUFFICES ASSUME NEW k \in Slots, NEW i \in 1 .. Len(d[k]), NEW j \in 1 .. Len(d[k]),
                      Same(e[d[k][i]], e[d[k][j]])
               PROVE  i = j
    BY <1>2, <1>5 DEF Table
  <2>1. CASE k # h
    <3>1. d[k] = c[k] /\ c[k] \in Seq(1 .. Len(nm))
      BY <1>1, <1>4, <2>1
    <3>2. c[k][i] \in 1 .. Len(nm) /\ c[k][j] \in 1 .. Len(nm)
      BY SMTT(30), <3>1
    <3>3. e[d[k][i]] = nm[c[k][i]] /\ e[d[k][j]] = nm[c[k][j]]
      BY <1>2, <3>1, <3>2
    <3> QED
      BY <3>1, <3>3 DEF Table
  <2>2. CASE k = h
    <3>1. Len(c[h]) \in Nat /\ Len(d[h]) = Len(c[h]) + 1
      BY <1>1, <1>3
    <3>2. \A x \in 1 .. Len(d[h]) : x = 1 \/ (x - 1 \in 1 .. Len(c[h]) /\ e[d[h][x]] = nm[c[h][x - 1]])
      <4> TAKE x \in 1 .. Len(d[h])
      <4> SUFFICES ASSUME x # 1 PROVE x - 1 \in 1 .. Len(c[h]) /\ e[d[h][x]] = nm[c[h][x - 1]]
        OBVIOUS
      <4>1. x - 1 \in 1 .. Len(c[h]) /\ x = (x - 1) + 1
        BY <3>1
      <4>2. d[h][x] = c[h][x - 1]
        BY <1>3, <4>1
      <4>3. c[h][x - 1] \in 1 .. Len(nm)
        BY SMTT(30), <1>1, <4>1
      <4> QED
        BY <1>2, <4>1, <4>2, <4>3
    <3>3. e[d[h][1]] = n
      BY <1>2, <1>3
    <3>4. CASE i = 1 /\ j # 1
      <4>1. j - 1 \in 1 .. Len(c[h]) /\ Same(n, nm[c[h][j - 1]])
        BY <2>2, <3>2, <3>3, <3>4
      <4> QED
        BY <1>6, <4>1 DEF Same
    <3>5. CASE i # 1 /\ j = 1
      <4>1. i - 1 \in 1 .. Len(c[h]) /\ Same(nm[c[h][i - 1]], n)
        BY <2>2, <3>2, <3>3, <3>5
      <4> QED
        BY <1>6, <4>1
    <3>6. CASE i # 1 /\ j # 1
      <4>1. i - 1 \in 1 .. Len(c[h]) /\ j - 1 \in 1 .. Len(c[h])
            /\ Same(nm[c[h][i - 1]], nm[c[h][j - 1]])
        BY <2>2, <3>2, <3>6
      <4>2. i - 1 = j - 1
        BY <1>1, <4>1 DEF Table
      <4> QED
        BY <2>2, <3>1, <4>2
    <3>7. CASE i = 1 /\ j = 1
      BY <3>7
    <3> QED
      BY <3>4, <3>5, <3>6, <3>7
  <2> QED
    BY <2>1, <2>2
<1>8. ASSUME NEW m \in Names
      PROVE  FindIn(d, e, m) = IF Same(m, n) THEN p ELSE FindIn(c, nm, m)
  <2> DEFINE k == hashFunction(m)
  <2>1. k \in Slots
    BY HashSlot
  <2>2. CASE Same(m, n)
    <3>1. k = h
      BY <2>2 DEF Same, hashFunction
    <3>2. 1 \in 1 .. Len(d[k]) /\ d[k][1] = p /\ Same(e[d[k][1]], m)
      BY SMTT(30), <1>1, <1>2, <1>3, <2>2, <3>1 DEF Same
    <3>3. FindIn(d, e, m) = d[k][1]
      BY <1>7, <3>2, FindHit
    <3> QED
      BY <2>2, <3>2, <3>3
  <2>3. CASE ~Same(m, n) /\ \E j \in 1 .. Len(c[k]) : Same(nm[c[k][j]], m)
    <3>1. PICK j \in 1 .. Len(c[k]) : Same(nm[c[k][j]], m)
      BY <2>3
    <3>2. FindIn(c, nm, m) = c[k][j]
      BY <3>1, FindHit
    <3>3. c[k] \in Seq(1 .. Len(nm)) /\ c[k][j] \in 1 .. Len(nm)
      BY <1>1, <2>1
    <3>4. PICK x \in 1 .. Len(d[k]) : d[k][x] = c[k][j]
      <4>1. CASE k = h
        <5>1. j + 1 \in 1 .. Len(d[h]) /\ d[h][j + 1] = c[h][j]
          BY <1>3, <3>3, <4>1
        <5> QED
          BY <4>1, <5>1
      <4>2. CASE k # h
        BY <1>4, <2>1, <4>2
      <4> QED
        BY <4>1, <4>2
    <3>5. Same(e[d[k][x]], m)
      BY <1>2, <3>1, <3>3, <3>4
    <3>6. FindIn(d, e, m) = d[k][x]
      BY <1>7, <3>5, FindHit
    <3> QED
      BY <2>3, <3>2, <3>4, <3>6
  <2>4. CASE ~Same(m, n) /\ \A j \in 1 .. Len(c[k]) : ~Same(nm[c[k][j]], m)
    <3>1. FindIn(c, nm, m) = 0
      BY <2>4, FindMiss
    <3>2. ASSUME NEW x \in 1 .. Len(d[k]) PROVE ~Same(e[d[k][x]], m)
      <4>1. CASE k # h
        <5>1. d[k] = c[k] /\ c[k] \in Seq(1 .. Len(nm))
          BY <1>1, <1>4, <2>1, <4>1
        <5>2. c[k][x] \in 1 .. Len(nm)
          BY <5>1
        <5>3. e[d[k][x]] = nm[c[k][x]]
          BY <1>2, <5>1, <5>2
        <5> QED
          BY <2>4, <5>1, <5>3
      <4>2. CASE k = h /\ x = 1
        BY <1>2, <1>3, <2>4, <4>2 DEF Same
      <4>3. CASE k = h /\ x # 1
        <5>1. c[h] \in Seq(1 .. Len(nm)) /\ x - 1 \in 1 .. Len(c[h]) /\ x = (x - 1) + 1
          BY <1>1, <1>3, <4>3
        <5>2. d[h][x] = c[h][x - 1]
          BY <1>3, <5>1
        <5>4. c[h][x - 1] \in 1 .. Len(nm)
          BY SMTT(30), <5>1
        <5>3. e[d[h][x]] = nm[c[h][x - 1]]
          BY <1>2, <5>2, <5>4
        <5> QED
          BY <2>4, <4>3, <5>1, <5>3
      <4> QED
        BY <4>1, <4>2, <4>3
    <3>3. FindIn(d, e, m) = 0
      BY <1>7, <3>2, FindMiss
    <3> QED
      BY <2>4, <3>1, <3>3
  <2> QED
    BY <2>2, <2>3, <2>4
<1> QED
  BY <1>7, <1>8

\* What crlHashFind finds before and after a step
LEMMA FindIs ==
  /\ \A n \in Names : crlHashFind(n) = FindIn(chains, names, n)
  /\ \A n \in Names : crlHashFind(n)' = FindIn(chains', names', n)
  BY DEF crlHashFind, FindIn, Hits

\* Every operation leaves the table alone or registers a name.
LEMMA OnlyBind ==
  ASSUME [Next]_vars
  PROVE  UNCHANGED registry \/ \E n \in Names : Bind(n)
<1>1. CASE \E r \in Registrations : regvar(r)
  BY <1>1, SizesAssumption DEF regvar
<1>2. CASE thParmLineSet
  <2>1. PICK l \in Lines : ParmLine(l) \/ ContinuationLine(l) \/ NumberLine(l)
    BY <1>2 DEF thParmLineSet
  <2>2. CASE ParmLine(l)
    <3>1. l.var \in Names
      BY <2>2, LinesAssumption DEF ParmLine
    <3>2. NewName(l.var) \in Names
      BY <3>1, NamesClosed DEF NewName
    <3>3. UNCHANGED registry \/ Bind(NewName(l.var))
      BY <2>2 DEF ParmLine
    <3> QED
      BY <3>2, <3>3
  <2>3. CASE ContinuationLine(l)
    BY <2>3 DEF ContinuationLine
  <2>4. CASE NumberLine(l)
    BY <2>4 DEF NumberLine, registry
  <2> QED
    BY <2>1, <2>2, <2>3, <2>4
<1>3. CASE thSpecial
  <2>1. PICK d \in Declarations : Declare(d)
    BY <1>3 DEF thSpecial
  <2>2. d.name \in Names /\ NewName(d.name) \in Names
    BY SMTT(30), SizesAssumption, NamesClosed DEF NewName
  <2>3. UNCHANGED registry \/ Bind(NewName(d.name))
    BY <2>1 DEF Declare, registry
  <2> QED
    BY <2>2, <2>3
<1>4. CASE Request
  BY <1>4 DEF Request, daVarReadVar, daVarWriteVar, daVarList, registry
<1>5. CASE UNCHANGED vars
  BY <1>5 DEF vars, registry
<1> QED
  BY <1>1, <1>2, <1>3, <1>4, <1>5 DEF Next

\* To register a name keeps the table in order and binds that name only.
LEMMA BindStep ==
  ASSUME RegistryInv, NEW n \in Names, Bind(n)
  PROVE  RegistryInv' /\ (UNCHANGED binding \/ Registry!Next)
<1>1. CASE crlHashFind(n) # 0
  <2>1. chains' = chains /\ names' = names
    BY <1>1 DEF Bind, crlHashAdd
  <2> QED
    BY <2>1, FindIs DEF RegistryInv, binding
<1>2. CASE crlHashFind(n) = 0
  <2> DEFINE p == Len(names) + 1
  <2>1. Table(chains, names) /\ Len(names) \in Nat
    BY DEF RegistryInv, Table
  <2>2. Added(chains, names, n, chains', names')
    BY <1>2 DEF Bind, crlHashAdd, Added
  <2>3. FindIn(chains, names, n) = 0
    BY <1>2, FindIs
  <2>4. /\ Table(chains', names')
        /\ \A m \in Names : FindIn(chains', names', m) = IF Same(m, n) THEN p ELSE FindIn(chains, names, m)
    BY <2>1, <2>2, <2>3, AddOne
  <2>5. \A m \in Names : binding[m] = FindIn(chains, names, m)
    BY FindIs DEF binding
  <2>6. binding' = [m \in Names |-> IF Same(m, n) THEN p ELSE binding[m]]
    BY <2>4, <2>5, FindIs DEF binding
  <2>7. \A m \in Names : binding[m] \in 0 .. Len(names)
    BY <2>1, <2>5, FindRange
  <2>8. \A m \in Names : Same(m, n) => binding[m] = 0
    <3> TAKE m \in Names
    <3>1. Same(m, n) => Hits(chains, names, m) = Hits(chains, names, n) /\ hashFunction(m) = hashFunction(n)
      BY DEF Same, Hits, hashFunction
    <3> QED
      BY <2>3, <2>5, <3>1 DEF FindIn
  <2>9. Registry!Bound(binding, binding', n)
    <3>1. Same(n, n)
      BY DEF Same
    <3>2. binding' \in [Names -> Nat]
      <4>1. \A m \in Names : binding'[m] \in Nat
        BY <2>1, <2>6, <2>7
      <4>2. binding' = [m \in Names |-> binding'[m]]
        BY <2>6
      <4> QED
        BY <4>1, <4>2
    <3>3. binding'[n] = p /\ p # 0
      BY <2>1, <2>6, <3>1
    <3>4. \A m \in Names : Same(m, n) => binding[m] = 0 /\ binding'[m] = p
      BY <2>6, <2>8
    <3>5. \A m \in Names : ~Same(m, n) => binding'[m] = binding[m] /\ binding[m] # p
      BY <2>1, <2>6, <2>7
    <3> QED
      BY <3>2, <3>3, <3>4, <3>5 DEF Registry!Bound, Same
  <2>10. binding # binding'
    BY <2>1, <2>6, <2>8 DEF Same
  <2>11. Registry!Next
    BY <2>9, <2>10 DEF Registry!Next
  <2> QED
    BY <2>4, <2>11 DEF RegistryInv
<1> QED
  BY <1>1, <1>2

\* For every set of names and every hash function of their characters in lower
\* case, lookups in the shared chains find for each name one structure, always
\* the same, and no other name's.
THEOREM ImplementsRegistry == Spec => RegistrySpec
<1>1. Init => RegistryInv /\ Registry!Init
  <2> SUFFICES ASSUME Init PROVE RegistryInv /\ Registry!Init
    OBVIOUS
  <2>1. chains = [h \in Slots |-> <<>>] /\ names = <<>>
    BY DEF Init, Slots
  <2>2. Table(chains, names)
    <3>1. <<>> \in Seq(Names) /\ Len(<<>>) = 0 /\ <<>> \in Seq(1 .. 0)
      OBVIOUS
    <3> QED
      BY <2>1, <3>1 DEF Table
  <2>3. \A n \in Names : FindIn(chains, names, n) = 0
    <3> TAKE n \in Names
    <3>1. hashFunction(n) \in Slots /\ Len(chains[hashFunction(n)]) = 0
      BY <2>1, HashSlot
    <3> QED
      BY <2>2, <3>1, FindMiss
  <2>4. binding = [n \in Names |-> 0]
    BY <2>3, FindIs DEF binding
  <2> QED
    BY <2>2, <2>4 DEF RegistryInv, Registry!Init
<1>2. RegistryInv /\ [Next]_vars => RegistryInv' /\ [Registry!Next]_binding
  <2> SUFFICES ASSUME RegistryInv, [Next]_vars
               PROVE  RegistryInv' /\ [Registry!Next]_binding
    OBVIOUS
  <2>1. CASE UNCHANGED registry
    <3>1. chains' = chains /\ names' = names
      BY <2>1 DEF registry
    <3> QED
      BY <3>1, FindIs DEF RegistryInv, binding
  <2>2. CASE \E n \in Names : Bind(n)
    BY <2>2, BindStep
  <2> QED
    BY <2>1, <2>2, OnlyBind
<1> QED
  BY <1>1, <1>2, PTL DEF Spec, RegistrySpec, Registry!Spec

(***************************************************************************)
(* Blocks and their owners; what one value of a line does                  *)
(***************************************************************************)

\* What daVarRegister.c and thUtils.c keep of a variable and of its memory
Blocks == [type : Types, cells : Seq(Int), live : BOOLEAN]
Structures == [type : Types, size : Nat, dynamic : BOOLEAN, block : Nat]
Pointers == {"int", "float", "double", "text"}
Globals == [varp : Nat, type : Types, dynamic : BOOLEAN, alen : Nat, index : Nat,
            ptr : [Pointers -> Nat]]

\* The structure d has a block of its type, with its elements.
Owns(d, h) ==
  /\ d.block \in 1 .. Len(h) /\ h[d.block].live /\ h[d.block].type = d.type
  /\ d.size <= Len(h[d.block].cells)

\* Every structure of v has a block of its own in the heap h.
Held(v, h) ==
  /\ v \in Seq(Structures) /\ h \in Seq(Blocks)
  /\ \A p \in 1 .. Len(v) : Owns(v[p], h)
  /\ \A p, q \in 1 .. Len(v) : v[p].block = v[q].block => p = q

\* What Append makes
LEMMA AppendIs ==
  ASSUME NEW S, NEW s \in Seq(S), NEW e \in S
  PROVE  /\ Append(s, e) \in Seq(S) /\ Len(Append(s, e)) = Len(s) + 1
         /\ Append(s, e)[Len(s) + 1] = e
         /\ \A x \in 1 .. Len(s) : Append(s, e)[x] = s[x]
  OBVIOUS

\* An element of a sequence
LEMMA ElementIs ==
  ASSUME NEW S, NEW s \in Seq(S), NEW x \in 1 .. Len(s)
  PROVE  s[x] \in S
  OBVIOUS

\* The cells of the block b become c.
Wrote(h, b, c, g) ==
  /\ b \in 1 .. Len(h) /\ c \in Seq(Int) /\ Len(c) = Len(h[b].cells)
  /\ g = [h EXCEPT ![b].cells = c]

\* That takes the block from nobody.
LEMMA HeldWrite ==
  ASSUME NEW v, NEW h, Held(v, h), NEW b, NEW c, NEW g, Wrote(h, b, c, g)
  PROVE  /\ Held(v, g) /\ Len(g) = Len(h)
         /\ g[b].cells = c
         /\ \A x \in 1 .. Len(h) : x # b => g[x] = h[x]
         /\ \A x \in 1 .. Len(h) : g[x].live = h[x].live /\ g[x].type = h[x].type
<1>1. /\ h \in Seq(Blocks) /\ v \in Seq(Structures) /\ Len(h) \in Nat /\ Len(v) \in Nat
      /\ b \in 1 .. Len(h) /\ c \in Seq(Int) /\ Len(c) = Len(h[b].cells)
  BY DEF Held, Wrote
<1>2. h[b] \in Blocks
  BY <1>1
<1>3. g = [h EXCEPT ![b] = [h[b] EXCEPT !.cells = c]] /\ [h[b] EXCEPT !.cells = c] \in Blocks
  <2>1. [h[b] EXCEPT !.cells = c] \in Blocks
    BY <1>1, <1>2 DEF Blocks
  <2>2. g = [h EXCEPT ![b] = [h[b] EXCEPT !.cells = c]]
    BY DEF Wrote
  <2> QED
    BY <2>1, <2>2
<1>4. g \in Seq(Blocks) /\ Len(g) = Len(h) /\ g[b] = [h[b] EXCEPT !.cells = c]
      /\ \A x \in 1 .. Len(h) : x # b => g[x] = h[x]
  BY <1>1, <1>3
<1>5. g[b].cells = c /\ g[b].live = h[b].live /\ g[b].type = h[b].type
  BY <1>2, <1>4 DEF Blocks
<1>6. \A x \in 1 .. Len(h) : g[x].live = h[x].live /\ g[x].type = h[x].type
  BY <1>4, <1>5
<1>7. \A x \in 1 .. Len(h) : Len(g[x].cells) = Len(h[x].cells)
  BY <1>1, <1>4, <1>5
<1>8. ASSUME NEW p \in 1 .. Len(v) PROVE Owns(v[p], g)
  <2>1. Owns(v[p], h)
    BY DEF Held
  <2> QED
    BY <1>4, <1>6, <1>7, <2>1 DEF Owns
<1> QED
  BY <1>1, <1>4, <1>5, <1>6, <1>8 DEF Held

\* A block more is for nobody yet.
LEMMA HeldAppend ==
  ASSUME NEW v, NEW h, Held(v, h), NEW new \in Blocks
  PROVE  /\ Held(v, Append(h, new)) /\ Len(Append(h, new)) = Len(h) + 1
         /\ Append(h, new)[Len(h) + 1] = new
         /\ \A x \in 1 .. Len(h) : Append(h, new)[x] = h[x]
<1>1. h \in Seq(Blocks) /\ v \in Seq(Structures) /\ Len(h) \in Nat
  BY DEF Held
<1> DEFINE g == Append(h, new)
<1>2. g \in Seq(Blocks) /\ Len(g) = Len(h) + 1 /\ g[Len(h) + 1] = new
      /\ \A x \in 1 .. Len(h) : g[x] = h[x]
  BY <1>1
<1>3. ASSUME NEW p \in 1 .. Len(v) PROVE Owns(v[p], g)
  <2>1. Owns(v[p], h)
    BY DEF Held
  <2> HIDE DEF g
  <2> QED
    BY <1>1, <1>2, <2>1 DEF Owns
<1> QED
  BY <1>1, <1>2, <1>3 DEF Held

\* The structure p becomes d, with a block that is nobody's; its old block may go.
Moves(v, h, p, d, w, g) ==
  /\ Held(v, h) /\ p \in 1 .. Len(v) /\ w = [v EXCEPT ![p] = d]
  /\ g \in Seq(Blocks) /\ Len(g) >= Len(h)
  /\ \A x \in 1 .. Len(h) : x # v[p].block => g[x] = h[x]
  /\ d \in Structures /\ Owns(d, g) /\ d.block > Len(h)

\* The others have theirs.
LEMMA HeldMove ==
  ASSUME NEW v, NEW h, NEW p, NEW d, NEW w, NEW g, Moves(v, h, p, d, w, g)
  PROVE  /\ Held(w, g) /\ Len(w) = Len(v) /\ w[p] = d
         /\ \A q \in 1 .. Len(v) : q # p => w[q] = v[q] /\ g[w[q].block] = h[v[q].block]
<1>1. /\ h \in Seq(Blocks) /\ v \in Seq(Structures) /\ Len(h) \in Nat /\ Len(v) \in Nat
      /\ g \in Seq(Blocks) /\ Len(g) \in Nat /\ Len(g) >= Len(h) /\ p \in 1 .. Len(v)
      /\ d \in Structures /\ d.block \in Nat /\ d.block > Len(h) /\ Owns(d, g) /\ Held(v, h)
      /\ \A x \in 1 .. Len(h) : x # v[p].block => g[x] = h[x]
  BY SMTT(30) DEF Moves, Held, Structures
<1>2. w \in Seq(Structures) /\ Len(w) = Len(v) /\ w[p] = d
      /\ \A q \in 1 .. Len(v) : q # p => w[q] = v[q]
  BY <1>1 DEF Moves
<1>3. ASSUME NEW q \in 1 .. Len(v), q # p
      PROVE  /\ w[q].block \in 1 .. Len(h) /\ w[q].block # v[p].block
             /\ g[w[q].block] = h[v[q].block] /\ Owns(w[q], g)
  <2>1. Owns(v[q], h) /\ w[q] = v[q] /\ v[q].block # v[p].block
    BY <1>1, <1>2, <1>3 DEF Held
  <2>2. v[q].block \in 1 .. Len(h)
    BY <2>1 DEF Owns
  <2>3. g[v[q].block] = h[v[q].block]
    BY <1>1, <2>1, <2>2
  <2>4. Owns(w[q], g)
    BY <1>1, <2>1, <2>2, <2>3 DEF Owns
  <2> QED
    BY <2>1, <2>2, <2>3, <2>4
<1>4. \A q \in 1 .. Len(v) : Owns(w[q], g)
  BY <1>1, <1>2, <1>3
<1>5. ASSUME NEW q \in 1 .. Len(v), NEW r \in 1 .. Len(v), w[q].block = w[r].block PROVE q = r
  <2>1. CASE q = p /\ r # p
    BY <1>1, <1>2, <1>3, <1>5, <2>1
  <2>2. CASE q # p /\ r = p
    BY <1>1, <1>2, <1>3, <1>5, <2>2
  <2>3. CASE q # p /\ r # p
    BY <1>1, <1>2, <1>5, <2>3 DEF Held
  <2>4. CASE q = p /\ r = p
    BY <2>4
  <2> QED
    BY <2>1, <2>2, <2>3, <2>4
<1> QED
  BY <1>1, <1>2, <1>3, <1>4, <1>5 DEF Held

\* A new structure d gets the new block.
Adds(v, h, d, new, w, g) ==
  /\ Held(v, h) /\ new \in Blocks /\ d \in Structures /\ d.block = Len(h) + 1
  /\ w = Append(v, d) /\ g = Append(h, new) /\ Owns(d, g)

\* It takes none from the others.
LEMMA HeldNew ==
  ASSUME NEW v, NEW h, NEW d, NEW new, NEW w, NEW g, Adds(v, h, d, new, w, g)
  PROVE  /\ Held(w, g) /\ Len(w) = Len(v) + 1 /\ w[Len(v) + 1] = d
         /\ \A q \in 1 .. Len(v) : w[q] = v[q] /\ g[v[q].block] = h[v[q].block]
<1>1. /\ Held(v, h) /\ new \in Blocks /\ d \in Structures /\ d.block = Len(h) + 1
      /\ w = Append(v, d) /\ g = Append(h, new) /\ Owns(d, g)
  BY DEF Adds
<1>2. /\ Held(v, g) /\ Len(g) = Len(h) + 1 /\ Len(h) \in Nat /\ Len(v) \in Nat /\ v \in Seq(Structures)
      /\ \A x \in 1 .. Len(h) : g[x] = h[x]
  BY SMTT(30), <1>1, HeldAppend DEF Held
<1>3. w \in Seq(Structures) /\ Len(w) = Len(v) + 1 /\ w[Len(v) + 1] = d
      /\ \A q \in 1 .. Len(v) : w[q] = v[q]
  BY <1>1, <1>2, AppendIs
<1>4. \A q \in 1 .. Len(v) : v[q].block \in 1 .. Len(h)
  BY <1>1 DEF Held, Owns
<1>5. ASSUME NEW q \in 1 .. Len(w), NEW r \in 1 .. Len(w), w[q].block = w[r].block PROVE q = r
  <2>1. CASE q = Len(w) /\ r # Len(w)
    <3>1. r \in 1 .. Len(v)
      BY <1>2, <1>3, <2>1
    <3> QED
      BY <1>1, <1>2, <1>3, <1>4, <1>5, <2>1, <3>1
  <2>2. CASE q # Len(w) /\ r = Len(w)
    <3>1. q \in 1 .. Len(v)
      BY <1>2, <1>3, <2>2
    <3> QED
      BY <1>1, <1>2, <1>3, <1>4, <1>5, <2>2, <3>1
  <2>3. CASE q # Len(w) /\ r # Len(w)
    <3>1. q \in 1 .. Len(v) /\ r \in 1 .. Len(v)
      BY <1>2, <1>3, <2>3
    <3> QED
      BY <1>1, <1>3, <1>5, <3>1 DEF Held
  <2> QED
    BY <2>1, <2>2, <2>3
<1>6. ASSUME NEW q \in 1 .. Len(w) PROVE Owns(w[q], g)
  <2>1. CASE q = Len(w)
    BY <1>1, <1>2, <1>3, <2>1
  <2>2. CASE q # Len(w)
    <3>1. q \in 1 .. Len(v)
      BY <1>2, <1>3, <2>2
    <3> QED
      BY <1>2, <1>3, <3>1 DEF Held
  <2> QED
    BY <2>1, <2>2
<1>7. g \in Seq(Blocks)
  BY <1>2 DEF Held
<1>8. Held(w, g)
  BY <1>3, <1>5, <1>6, <1>7 DEF Held
<1>9. \A q \in 1 .. Len(v) : g[v[q].block] = h[v[q].block]
  BY <1>2, <1>4
<1> QED
  BY <1>3, <1>8, <1>9

\* The globals thParmVar... point to the structure they are of, and to its block.
Points(g, v) ==
  /\ g.varp \in 1 .. Len(v)
  /\ g.type = v[g.varp].type /\ g.dynamic = v[g.varp].dynamic /\ g.alen = v[g.varp].size
  /\ g.ptr[Register(g.type)] = v[g.varp].block

\* What thParmLineSet works on
States == [var : Seq(Structures), heap : Seq(Blocks), pv : Globals, undefined : BOOLEAN, failed : BOOLEAN]

\* A record of that kind
Shape(t) == t = [var |-> t.var, heap |-> t.heap, pv |-> t.pv, undefined |-> t.undefined, failed |-> t.failed]

\* The element j of the variable that the line sets
Cell(t, j) == t.heap[t.var[t.pv.varp].block].cells[j + 1]
\* The structure of that variable
Target(t) == t.var[t.pv.varp]

\* What the value v becomes in it
Stored(s, v) == IF s.pv.type = "int" /\ ~s.pv.dynamic THEN floatToLong(v) ELSE v

\* A state of the line: the globals point to its variable, a number.
Sound(t) ==
  /\ t \in States /\ ~t.undefined
  /\ Held(t.var, t.heap) /\ Points(t.pv, t.var) /\ t.pv.type \notin Text

\* The line has the variable of s alone, and may make it larger when lines made it.
SameVariable(s, t) ==
  /\ t.pv.varp = s.pv.varp /\ Len(t.var) = Len(s.var)
  /\ \A q \in 1 .. Len(s.var) :
       q # s.pv.varp => t.var[q] = s.var[q] /\ t.heap[t.var[q].block] = s.heap[s.var[q].block]
  /\ t.pv.dynamic = s.pv.dynamic /\ s.pv.alen <= t.pv.alen
  /\ ~s.pv.dynamic => Target(t) = Target(s)
  /\ t.pv.type = "int" => s.pv.type = "int"

\* Where i values have brought it
Advanced(s, t, i) ==
  /\ s.pv.index <= t.pv.index /\ t.pv.index <= s.pv.index + i
  /\ t.pv.index = s.pv.index \/ t.pv.index <= t.pv.alen
  /\ IF t.failed THEN ~t.pv.dynamic /\ t.pv.alen <= t.pv.index ELSE t.pv.index = s.pv.index + i

\* The elements it has passed have their values, the others are as they were.
Given(s, t, args) ==
  \A j \in 0 .. t.pv.alen - 1 :
    IF j \in s.pv.index .. t.pv.index - 1 THEN Cell(t, j) = Stored(s, args[j - s.pv.index + 1].v)
    ELSE j < s.pv.alen => Cell(t, j) = Cell(s, j)

\* The state t is what the first i values of a line have made of s.
Fill(s, t, args, i) ==
  Sound(s) /\ Sound(t) /\ SameVariable(s, t) /\ Advanced(s, t, i) /\ Given(s, t, args)

\* The array of the line t moves to a new block, and its structure becomes d.
Moved(t, d, new, u) ==
  /\ new \in Blocks /\ new.live /\ new.type \notin Text /\ (new.type = "int" => t.pv.type = "int")
  /\ d \in Structures /\ d.block = Len(t.heap) + 1 /\ d.type = new.type /\ d.size <= Len(new.cells)
  /\ d.dynamic /\ t.pv.dynamic /\ t.pv.alen <= d.size
  /\ \A j \in 0 .. t.pv.alen - 1 : new.cells[j + 1] = Cell(t, j)
  /\ Shape(u) /\ u.undefined = FALSE /\ u.failed = FALSE
  /\ u.pv \in Globals /\ u.var = [t.var EXCEPT ![t.pv.varp] = d]
  /\ u.heap = Append(Free(t.heap, Target(t).block), new)
  /\ u.pv.varp = t.pv.varp /\ u.pv.type = d.type /\ u.pv.dynamic = t.pv.dynamic /\ u.pv.alen = d.size
  /\ u.pv.index = t.pv.index /\ u.pv.ptr[d.type] = d.block

\* It has the elements that it had.
LEMMA MoveFill ==
  ASSUME NEW s, NEW t, NEW args, NEW i \in Nat, Fill(s, t, args, i), ~t.failed,
         NEW d, NEW new, NEW u, Moved(t, d, new, u)
  PROVE  Fill(s, u, args, i)
<1> DEFINE p == t.pv.varp
           b == t.var[p].block
<1>1. /\ Held(t.var, t.heap) /\ p \in 1 .. Len(t.var) /\ Target(t) = t.var[p]
      /\ t.heap \in Seq(Blocks) /\ t.var \in Seq(Structures) /\ Len(t.heap) \in Nat /\ Len(t.var) \in Nat
  BY SMTT(30) DEF Fill, Sound, Points, Held, Target
<1>2. /\ t.pv.index \in Nat /\ t.pv.alen \in Nat /\ s.pv.index \in Nat /\ s.pv.alen \in Nat
      /\ d.size \in Nat /\ u.pv.alen = d.size /\ t.pv.alen <= d.size
  <2>1. s \in States /\ t \in States
    BY DEF Fill, Sound
  <2>2. /\ t.pv.index \in Nat /\ t.pv.alen \in Nat /\ s.pv.index \in Nat /\ s.pv.alen \in Nat
    BY <2>1 DEF States, Globals
  <2>3. d.size \in Nat /\ u.pv.alen = d.size /\ t.pv.alen <= d.size
    BY DEF Moved, Structures
  <2> QED
    BY <2>2, <2>3
<1>3. Owns(t.var[p], t.heap)
  BY <1>1 DEF Held
<1> HIDE DEF p
<1>4. /\ Free(t.heap, b) \in Seq(Blocks) /\ Len(Free(t.heap, b)) = Len(t.heap)
      /\ \A x \in 1 .. Len(t.heap) : x # b => Free(t.heap, b)[x] = t.heap[x]
  <2>1. b \in 1 .. Len(t.heap)
    BY <1>3 DEF Owns
  <2>2. t.heap[b] \in Blocks
    BY <1>1, <2>1
  <2>3. [t.heap[b] EXCEPT !.live = FALSE] \in Blocks
    BY <2>2 DEF Blocks
  <2>4. Free(t.heap, b) = [t.heap EXCEPT ![b] = [t.heap[b] EXCEPT !.live = FALSE]]
    BY <1>1 DEF Free
  <2> HIDE DEF b
  <2> QED
    BY <1>1, <2>1, <2>3, <2>4
<1>5. /\ u.heap \in Seq(Blocks) /\ Len(u.heap) = Len(t.heap) + 1 /\ u.heap[d.block] = new
      /\ \A x \in 1 .. Len(t.heap) : x # b => u.heap[x] = t.heap[x]
  <2>1. u.heap = Append(Free(t.heap, b), new) /\ d.block = Len(t.heap) + 1 /\ new \in Blocks
    BY <1>1 DEF Moved
  <2>2. /\ u.heap \in Seq(Blocks) /\ Len(u.heap) = Len(t.heap) + 1 /\ u.heap[Len(t.heap) + 1] = new
        /\ \A x \in 1 .. Len(t.heap) : u.heap[x] = Free(t.heap, b)[x]
    BY <1>4, <2>1, AppendIs
  <2> QED
    BY <1>4, <2>1, <2>2
<1>6. Owns(d, u.heap)
  BY SMTT(30), <1>1, <1>2, <1>5 DEF Owns, Moved
<1>7. Moves(t.var, t.heap, p, d, u.var, u.heap)
  <2>1. u.var = [t.var EXCEPT ![p] = d] /\ d \in Structures /\ d.block > Len(t.heap)
    BY <1>1 DEF Moved, p
  <2> QED
    BY <1>1, <1>5, <1>6, <2>1 DEF Moves, b
<1>8. /\ Held(u.var, u.heap) /\ Len(u.var) = Len(t.var) /\ u.var[p] = d
      /\ \A q \in 1 .. Len(t.var) : q # p => u.var[q] = t.var[q] /\ u.heap[u.var[q].block] = t.heap[t.var[q].block]
  BY <1>7, HeldMove
<1>9. /\ u.pv.varp = p /\ u.pv.type = d.type /\ u.pv.dynamic = t.pv.dynamic /\ u.pv.index = t.pv.index
      /\ u.pv.ptr[d.type] = d.block /\ u.pv.type \notin Text /\ d.dynamic = TRUE /\ t.pv.dynamic = TRUE
      /\ (d.type = "int" => t.pv.type = "int") /\ u \in States /\ ~u.undefined /\ ~u.failed
  <2>1. /\ u = [var |-> u.var, heap |-> u.heap, pv |-> u.pv, undefined |-> FALSE, failed |-> FALSE]
        /\ u.pv \in Globals /\ u.var \in Seq(Structures)
    BY <1>8 DEF Moved, Held, Shape
  <2>2. u \in States /\ ~u.undefined /\ ~u.failed
    <3>1. PICK w, g, o : w = u.var /\ g = u.heap /\ o = u.pv
      OBVIOUS
    <3>2. w \in Seq(Structures) /\ g \in Seq(Blocks) /\ o \in Globals
      BY <1>5, <2>1, <3>1
    <3>3. u = [var |-> w, heap |-> g, pv |-> o, undefined |-> FALSE, failed |-> FALSE]
      BY <2>1, <3>1
    <3> QED
      BY <3>2, <3>3 DEF States
  <2>3. d.dynamic = TRUE /\ t.pv.dynamic = TRUE
    BY DEF Moved, Structures, Fill, Sound, States, Globals
  <2> QED
    BY <2>2, <2>3 DEF Moved, p
<1>10. Sound(u)
  <2>1. Register(u.pv.type) = d.type
    BY <1>9 DEF Register
  <2>2. Points(u.pv, u.var)
    BY <1>1, <1>2, <1>8, <1>9, <2>1 DEF Points
  <2> QED
    BY <1>8, <1>9, <2>2 DEF Sound
<1>11. SameVariable(s, u)
  <2>1. SameVariable(s, t)
    BY DEF Fill
  <2>2. s.pv.alen <= u.pv.alen
    BY <1>2, <2>1 DEF SameVariable
  <2>3. p = s.pv.varp
    BY <2>1 DEF SameVariable, p
  <2>4. \A q \in 1 .. Len(s.var) :
          q # s.pv.varp => u.var[q] = s.var[q] /\ u.heap[u.var[q].block] = s.heap[s.var[q].block]
    BY <1>8, <2>1, <2>3 DEF SameVariable
  <2> QED
    BY <1>8, <1>9, <2>1, <2>2, <2>3, <2>4 DEF SameVariable
<1>12. Advanced(s, u, i)
  <2>1. Advanced(s, t, i)
    BY DEF Fill
  <2> QED
    BY <1>2, <1>9, <2>1 DEF Advanced
<1>13. Given(s, u, args)
  <2>1. Given(s, t, args) /\ Advanced(s, t, i) /\ SameVariable(s, t)
    BY DEF Fill
  <2> SUFFICES ASSUME NEW j \in 0 .. u.pv.alen - 1
               PROVE  IF j \in s.pv.index .. t.pv.index - 1
                        THEN Cell(u, j) = Stored(s, args[j - s.pv.index + 1].v)
                        ELSE j < s.pv.alen => Cell(u, j) = Cell(s, j)
    BY <1>9 DEF Given
  <2>2. Cell(u, j) = new.cells[j + 1]
    BY SMTT(30), <1>5, <1>8, <1>9 DEF Cell
  <2>3. j \in s.pv.index .. t.pv.index - 1 \/ j < s.pv.alen => j \in 0 .. t.pv.alen - 1
    <3>1. j \in Nat /\ s.pv.alen <= t.pv.alen
      BY <1>2, <2>1 DEF SameVariable
    <3>2. t.pv.index = s.pv.index \/ t.pv.index <= t.pv.alen
      BY <2>1 DEF Advanced
    <3> QED
      BY <1>2, <3>1, <3>2
  <2>4. j \in 0 .. t.pv.alen - 1 => Cell(u, j) = Cell(t, j)
    BY <2>2 DEF Moved
  <2> QED
    BY <2>1, <2>3, <2>4 DEF Given
<1> QED
  BY <1>10, <1>11, <1>12, <1>13 DEF Fill

\* A value goes to the next element, when there is one.
LEMMA StoreFill ==
  ASSUME NEW s, NEW t, NEW args, NEW i \in Nat, Fill(s, t, args, i), ~t.failed, t.pv.index < t.pv.alen,
         NEW v \in Int, v = Stored(s, args[i + 1].v), NEW u, u = Store(t, v)
  PROVE  Fill(s, u, args, i + 1) /\ ~u.failed
<1> DEFINE p == t.pv.varp
           b == t.var[p].block
           k == t.pv.index
           c == [t.heap[b].cells EXCEPT ![k + 1] = v]
<1>1. /\ Held(t.var, t.heap) /\ p \in 1 .. Len(t.var) /\ t \in States /\ s \in States
      /\ t.heap \in Seq(Blocks) /\ t.var \in Seq(Structures) /\ Len(t.heap) \in Nat /\ Len(t.var) \in Nat
      /\ t.pv.alen = t.var[p].size /\ t.pv.type = t.var[p].type /\ t.pv.type \notin Text
      /\ t.pv.ptr[Register(t.pv.type)] = b /\ ~t.undefined
  BY DEF Fill, Sound, Points, Held
<1>2. /\ k \in Nat /\ t.pv.alen \in Nat /\ s.pv.index \in Nat /\ s.pv.alen \in Nat
      /\ k < t.pv.alen /\ k = s.pv.index + i
  <2>1. /\ k \in Nat /\ t.pv.alen \in Nat /\ s.pv.index \in Nat /\ s.pv.alen \in Nat
    BY SMTT(30), <1>1 DEF States, Globals
  <2> QED
    BY <2>1 DEF Fill, Advanced
<1>3. b \in 1 .. Len(t.heap) /\ t.heap[b].live /\ t.var[p].size <= Len(t.heap[b].cells)
  <2>1. Owns(t.var[p], t.heap)
    BY SMTT(30), <1>1 DEF Held
  <2> QED
    BY <2>1 DEF Owns
<1>4. t.heap[b].cells \in Seq(Int) /\ Len(t.heap[b].cells) \in Nat
  <2>1. t.heap[b] \in Blocks
    BY SMTT(30), <1>1, <1>3
  <2> QED
    BY SMTT(30), <2>1 DEF Blocks
<1>5. k + 1 \in 1 .. Len(t.heap[b].cells) /\ t.pv.alen <= Len(t.heap[b].cells)
  <2>1. t.pv.alen <= Len(t.heap[b].cells)
    BY <1>1, <1>3
  <2>2. PICK n : n = Len(t.heap[b].cells)
    OBVIOUS
  <2>3. n \in Nat /\ t.pv.alen <= n
    BY <1>4, <2>1, <2>2
  <2>4. k + 1 \in 1 .. n
    BY SMTT(30), <1>2, <2>3
  <2> QED
    BY SMTT(30), <2>2, <2>3, <2>4
<1>6. Pointed(t) = b /\ b # 0
  BY SMTT(30), <1>1, <1>3 DEF Pointed
<1>7. u = [t EXCEPT !.heap[b].cells[k + 1] = v, !.pv.index = @ + 1]
  <2>1. Live(t.heap, b)
    <3> HIDE DEF b
    <3> QED
      BY <1>3, <1>6 DEF Live
  <2>2. k \in 0 .. Len(t.heap[b].cells) - 1
    <3>1. PICK n : n = Len(t.heap[b].cells)
      OBVIOUS
    <3>2. n \in Nat /\ t.pv.alen <= n
      BY <1>4, <1>5, <3>1
    <3>3. k \in 0 .. n - 1
      BY <1>2, <3>2
    <3> QED
      BY SMTT(30), <3>1, <3>3
  <2> HIDE DEF b, k
  <2> QED
    BY <1>6, <2>1, <2>2 DEF Store, k
<1> HIDE DEF p, b
<1>8. /\ u.var = t.var /\ u.heap = [t.heap EXCEPT ![b].cells = c]
      /\ u.pv = [t.pv EXCEPT !.index = k + 1] /\ u.undefined = t.undefined /\ u.failed = t.failed
      /\ u = [var |-> u.var, heap |-> u.heap, pv |-> u.pv, undefined |-> u.undefined, failed |-> u.failed]
  BY <1>1, <1>7 DEF States
<1>9. /\ c \in Seq(Int) /\ Len(c) = Len(t.heap[b].cells) /\ c[k + 1] = v
      /\ \A j \in 1 .. Len(t.heap[b].cells) : j # k + 1 => c[j] = t.heap[b].cells[j]
  BY SMTT(30), <1>4, <1>5
<1>10. Wrote(t.heap, b, c, u.heap)
  BY <1>3, <1>8, <1>9 DEF Wrote
<1>11. /\ Held(t.var, u.heap) /\ Len(u.heap) = Len(t.heap) /\ u.heap[b].cells = c
       /\ \A x \in 1 .. Len(t.heap) : x # b => u.heap[x] = t.heap[x]
  BY <1>1, <1>10, HeldWrite
<1>12. /\ u.pv \in Globals /\ u.pv.index = k + 1 /\ u.pv.varp = p /\ u.pv.type = t.pv.type
       /\ u.pv.dynamic = t.pv.dynamic /\ u.pv.alen = t.pv.alen /\ u.pv.ptr = t.pv.ptr
  <2>1. t.pv \in Globals /\ k + 1 \in Nat
    BY SMTT(30), <1>1, <1>2 DEF States
  <2> QED
    BY <1>8, <2>1 DEF Globals, p
<1>13. Sound(u)
  <2>1. u \in States
    BY <1>1, <1>8, <1>11, <1>12 DEF States, Held
  <2>2. Points(u.pv, u.var)
    BY <1>1, <1>8, <1>12 DEF Points, Fill, Sound, p
  <2> QED
    BY <1>1, <1>8, <1>11, <1>12, <2>1, <2>2 DEF Sound
<1>14. ASSUME NEW q \in 1 .. Len(t.var), q # p
       PROVE  u.heap[t.var[q].block] = t.heap[t.var[q].block]
  <2>1. t.var[q].block \in 1 .. Len(t.heap) /\ t.var[q].block # b
    BY SMTT(30), <1>1, <1>14 DEF Held, Owns, b
  <2> QED
    BY <1>11, <2>1
<1>15. SameVariable(s, u)
  <2>1. SameVariable(s, t)
    BY DEF Fill
  <2>2. p = s.pv.varp /\ Len(t.var) = Len(s.var)
    BY <2>1 DEF SameVariable, p
  <2>3. Target(u) = Target(t)
    BY <1>8, <1>12 DEF Target, p
  <2>4. ASSUME NEW q \in 1 .. Len(s.var), q # s.pv.varp
        PROVE  u.var[q] = s.var[q] /\ u.heap[u.var[q].block] = s.heap[s.var[q].block]
    BY SMTT(30), <1>8, <1>14, <2>1, <2>2, <2>4 DEF SameVariable
  <2> QED
    BY SMTT(30), <1>8, <1>12, <2>1, <2>2, <2>3, <2>4 DEF SameVariable
<1>16. Advanced(s, u, i + 1)
  BY <1>2, <1>8, <1>12 DEF Advanced
<1>17. Given(s, u, args)
  <2>1. Given(s, t, args)
    BY DEF Fill
  <2> SUFFICES ASSUME NEW j \in 0 .. t.pv.alen - 1
               PROVE  IF j \in s.pv.index .. k
                        THEN Cell(u, j) = Stored(s, args[j - s.pv.index + 1].v)
                        ELSE j < s.pv.alen => Cell(u, j) = Cell(s, j)
    BY <1>2, <1>12 DEF Given
  <2>2. j \in Nat /\ j + 1 \in 1 .. Len(t.heap[b].cells)
    <3>1. PICK n : n = Len(t.heap[b].cells)
      BY ZenonT(30)
    <3>2. n \in Nat /\ t.pv.alen <= n
      BY <1>4, <1>5, <3>1
    <3>3. j \in Nat /\ j + 1 \in 1 .. n
      BY <1>2, <3>2
    <3> QED
      BY <3>1, <3>3
  <2>3. Cell(u, j) = c[j + 1] /\ Cell(t, j) = t.heap[b].cells[j + 1]
    BY ZenonT(30), <1>8, <1>11, <1>12 DEF Cell, p, b
  <2>4. CASE j = k
    <3>1. j - s.pv.index + 1 = i + 1 /\ j \in s.pv.index .. k
      BY <1>2, <2>4
    <3> QED
      BY <1>9, <2>3, <2>4, <3>1
  <2>5. CASE j # k
    <3>1. Cell(u, j) = Cell(t, j)
      <4>1. j + 1 # k + 1
        BY SMTT(30), <1>2, <2>2, <2>5
      <4>2. c[j + 1] = t.heap[b].cells[j + 1]
        BY <1>9, <2>2, <4>1
      <4> QED
        BY <2>3, <4>2
    <3>2. j \in s.pv.index .. k <=> j \in s.pv.index .. k - 1
      BY SMTT(30), <1>2, <2>2, <2>5
    <3> QED
      BY <2>1, <3>1, <3>2 DEF Given
  <2> QED
    BY <2>4, <2>5
<1> QED
  BY SMTT(30), <1>8, <1>13, <1>15, <1>16, <1>17 DEF Fill

\* What the state of a line is known to be
LEMMA SoundFacts ==
  ASSUME NEW t, Sound(t)
  PROVE  /\ t \in States /\ ~t.undefined /\ t.pv \in Globals /\ t.pv.index \in Nat /\ t.pv.alen \in Nat
         /\ t.heap \in Seq(Blocks) /\ t.var \in Seq(Structures) /\ Len(t.heap) \in Nat /\ Len(t.var) \in Nat
         /\ t.pv.varp \in 1 .. Len(t.var) /\ Target(t) = t.var[t.pv.varp] /\ Target(t) \in Structures
         /\ Target(t).size = t.pv.alen /\ Target(t).type = t.pv.type /\ Target(t).dynamic = t.pv.dynamic
         /\ t.pv.type \in {"int", "float", "double"} /\ Register(t.pv.type) = t.pv.type
         /\ t.pv.ptr[t.pv.type] = Target(t).block /\ Owns(Target(t), t.heap)
         /\ t.heap[Target(t).block] \in Blocks /\ Target(t).block # 0
<1>1. t \in States /\ ~t.undefined /\ Held(t.var, t.heap) /\ Points(t.pv, t.var) /\ t.pv.type \notin Text
  BY DEF Sound
<1>2. t.pv \in Globals /\ t.heap \in Seq(Blocks) /\ t.var \in Seq(Structures)
  BY <1>1 DEF States
<1>3. t.pv.index \in Nat /\ t.pv.alen \in Nat /\ t.pv.type \in Types
  BY <1>2 DEF Globals
<1>4. t.pv.type \in {"int", "float", "double"} /\ Register(t.pv.type) = t.pv.type
  BY <1>1, <1>3 DEF Types, Register
<1>5. /\ t.pv.varp \in 1 .. Len(t.var) /\ Target(t) = t.var[t.pv.varp]
      /\ Target(t).size = t.pv.alen /\ Target(t).type = t.pv.type /\ Target(t).dynamic = t.pv.dynamic
      /\ t.pv.ptr[t.pv.type] = Target(t).block
  BY <1>1, <1>4 DEF Points, Target
<1>6. Target(t) \in Structures
  BY <1>2, <1>5
<1>7. Owns(Target(t), t.heap)
  BY <1>1, <1>5 DEF Held
<1>8. Target(t).block \in 1 .. Len(t.heap)
  BY <1>7 DEF Owns
<1>9. t.heap[Target(t).block] \in Blocks /\ Target(t).block # 0
  BY <1>2, <1>8
<1> QED
  BY <1>1, <1>2, <1>3, <1>4, <1>5, <1>6, <1>7, <1>9

\* What Repoint changes
Repointed(t, type, new, u) ==
  /\ u.var = [t.var EXCEPT ![t.pv.varp].block = Len(t.heap) + 1]
  /\ u.heap = Append(t.heap, new)
  /\ u.pv = [t.pv EXCEPT !.ptr[type] = Len(t.heap) + 1]
  /\ u.undefined = t.undefined /\ u.failed = t.failed /\ Shape(u)

\* It changes no more.
LEMMA RepointIs ==
  ASSUME NEW t, Shape(t), NEW type, NEW new
  PROVE  Repointed(t, type, new, Repoint(t, type, new))
<1> DEFINE u == Repoint(t, type, new)
<1> HIDE DEF u
<1>1. PICK n, h : n = Len(t.heap) + 1 /\ h = Append(t.heap, new)
  OBVIOUS
<1>2. PICK a : a = [t EXCEPT !.heap = h]
  OBVIOUS
<1>3. Shape(a) /\ a.var = t.var /\ a.heap = h /\ a.pv = t.pv /\ a.undefined = t.undefined /\ a.failed = t.failed
  BY <1>2 DEF Shape
<1>4. PICK g : g = [t.pv EXCEPT !.ptr[type] = n]
  OBVIOUS
<1>5. PICK b : b = [a EXCEPT !.pv = g]
  OBVIOUS
<1>6. Shape(b) /\ b.var = t.var /\ b.heap = h /\ b.pv = g /\ b.undefined = t.undefined /\ b.failed = t.failed
  BY <1>3, <1>5 DEF Shape
<1>7. PICK w : w = [t.var EXCEPT ![t.pv.varp].block = n]
  OBVIOUS
<1>8. PICK c : c = [b EXCEPT !.var = w]
  OBVIOUS
<1>9. Shape(c) /\ c.var = w /\ c.heap = h /\ c.pv = g /\ c.undefined = t.undefined /\ c.failed = t.failed
  BY <1>6, <1>8 DEF Shape
<1>10. u = c
  <2>1. b = [a EXCEPT !.pv.ptr[type] = n]
    BY <1>3, <1>4, <1>5
  <2>2. c = [b EXCEPT !.var[t.pv.varp].block = n]
    BY <1>6, <1>7, <1>8
  <2>3. c = Repoint(t, type, new)
    BY <1>1, <1>2, <2>1, <2>2 DEF Repoint
  <2> QED
    BY <2>3 DEF u
<1>11. Repointed(t, type, new, u)
  BY <1>1, <1>4, <1>7, <1>9, <1>10 DEF Repointed
<1> QED
  BY <1>11 DEF u
\* An array of integers that lines have made becomes one of floats, with the same values.
LEMMA FloatFill ==
  ASSUME NEW s, NEW t, NEW args, NEW i \in Nat, Fill(s, t, args, i), ~t.failed,
         t.pv.dynamic, t.pv.type = "int", NEW u, u = ToFloat(t)
  PROVE  /\ Fill(s, u, args, i) /\ ~u.failed /\ u.pv.type = "float"
         /\ u.pv.index = t.pv.index /\ u.pv.alen = t.pv.alen
<1> DEFINE p == t.pv.varp
           b == Target(t).block
           n == Len(t.heap) + 1
           new == [t.heap[b] EXCEPT !.type = "float"]
           d == [Target(t) EXCEPT !.type = "float", !.block = n]
<1>1. /\ t \in States /\ ~t.undefined /\ t.pv \in Globals
      /\ t.heap \in Seq(Blocks) /\ t.var \in Seq(Structures) /\ Len(t.heap) \in Nat
      /\ p \in 1 .. Len(t.var) /\ Target(t) = t.var[p] /\ Target(t) \in Structures
      /\ Target(t).size = t.pv.alen /\ Target(t).dynamic = t.pv.dynamic
      /\ t.pv.ptr["int"] = b /\ Owns(Target(t), t.heap) /\ t.heap[b] \in Blocks
  BY ZenonT(30), SoundFacts DEF Fill
<1>2. new \in Blocks /\ new.live /\ new.type = "float" /\ new.cells = t.heap[b].cells
  BY ZenonT(30), <1>1 DEF Blocks, Owns, Types, Text
<1>3. /\ d \in Structures /\ d.block = n /\ d.type = "float" /\ d.size = t.pv.alen /\ d.dynamic = t.pv.dynamic
      /\ d.size <= Len(new.cells)
  <2>1. d \in Structures /\ d.block = n /\ d.type = "float" /\ d.size = t.pv.alen /\ d.dynamic = t.pv.dynamic
    <3>1. Target(t) \in Structures /\ n \in Nat /\ Target(t).size = t.pv.alen /\ Target(t).dynamic = t.pv.dynamic
      BY <1>1
    <3> HIDE DEF n
    <3> QED
      BY <3>1 DEF Structures, Types, Text
  <2>2. Target(t).size <= Len(t.heap[b].cells)
    BY <1>1 DEF Owns
  <2> HIDE DEF d, new
  <2> QED
    BY <1>1, <1>2, <2>1, <2>2
<1>4. Len(Free(t.heap, b)) = Len(t.heap)
  BY <1>1 DEF Free
<1>5. PICK f, g, w : /\ f = Free(t.heap, b) /\ g = [t.pv EXCEPT !.type = "float"]
                     /\ w = [t.var EXCEPT ![p].type = "float"]
  OBVIOUS
<1>6. PICK x : x = [t EXCEPT !.heap = Free(@, b), !.pv.type = "float", !.var[p].type = "float"]
  OBVIOUS
<1>7. /\ Shape(x) /\ x.var = w /\ x.heap = f /\ x.pv = g
      /\ x.undefined = FALSE /\ x.failed = FALSE
  <2>1. Shape(t) /\ t.undefined = FALSE /\ t.failed = FALSE
    BY <1>1 DEF States, Shape
  <2>2. PICK x1 : x1 = [t EXCEPT !.heap = f]
    OBVIOUS
  <2>3. Shape(x1) /\ x1.var = t.var /\ x1.heap = f /\ x1.pv = t.pv /\ x1.undefined = FALSE /\ x1.failed = FALSE
    BY <2>1, <2>2 DEF Shape
  <2>4. PICK x2 : x2 = [x1 EXCEPT !.pv = g]
    OBVIOUS
  <2>5. Shape(x2) /\ x2.var = t.var /\ x2.heap = f /\ x2.pv = g /\ x2.undefined = FALSE /\ x2.failed = FALSE
    BY <2>3, <2>4 DEF Shape
  <2>6. x = [x2 EXCEPT !.var = w]
    <3>1. x2 = [x1 EXCEPT !.pv.type = "float"]
      BY <1>5, <2>3, <2>4
    <3>2. [x2 EXCEPT !.var[p].type = "float"] = [x2 EXCEPT !.var = w]
      BY <1>5, <2>5
    <3> QED
      BY <1>5, <1>6, <2>2, <3>1, <3>2
  <2> QED
    BY <2>5, <2>6 DEF Shape
<1>8. /\ u.var = [t.var EXCEPT ![p] = d] /\ u.heap = Append(f, new)
      /\ u.pv = [t.pv EXCEPT !.type = "float", !.ptr["float"] = n]
      /\ Shape(u) /\ u.undefined = FALSE /\ u.failed = FALSE
  <2>1. Len(x.heap) + 1 = n /\ x.pv.varp = p
    BY SMTT(30), <1>1, <1>4, <1>5, <1>7 DEF Globals
  <2>2. u = Repoint(x, "float", new)
    BY ZenonT(30), <1>1, <1>6 DEF ToFloat
  <2>3. /\ u.var = [x.var EXCEPT ![p].block = n] /\ u.heap = Append(x.heap, new)
        /\ u.pv = [x.pv EXCEPT !.ptr["float"] = n]
        /\ Shape(u) /\ u.undefined = FALSE /\ u.failed = FALSE
    <3> HIDE DEF new, n
    <3>1. /\ u.var = [x.var EXCEPT ![x.pv.varp].block = Len(x.heap) + 1] /\ u.heap = Append(x.heap, new)
          /\ u.pv = [x.pv EXCEPT !.ptr["float"] = Len(x.heap) + 1]
          /\ Shape(u) /\ u.undefined = x.undefined /\ u.failed = x.failed
      <4>1. Repointed(x, "float", new, u)
        BY <1>7, <2>2, RepointIs
      <4> QED
        BY <4>1 DEF Repointed
    <3> QED
      BY <1>7, <2>1, <3>1
  <2>4. [x.pv EXCEPT !.ptr["float"] = n] = [t.pv EXCEPT !.type = "float", !.ptr["float"] = n]
    BY <1>5, <1>7
  <2>5. [x.var EXCEPT ![p].block = n] = [t.var EXCEPT ![p] = d]
    <3>1. p \in DOMAIN t.var
      BY <1>1
    <3>2. w[p] = [t.var[p] EXCEPT !.type = "float"] /\ DOMAIN w = DOMAIN t.var
      BY <1>5, <3>1
    <3>3. [w[p] EXCEPT !.block = n] = d
      BY <1>1, <3>2
    <3>4. [w EXCEPT ![p] = d] = [t.var EXCEPT ![p] = d]
      BY <1>5, <3>1
    <3> HIDE DEF d, n
    <3> QED
      BY <1>7, <3>3, <3>4
  <2> HIDE DEF d, new, n
  <2> QED
    BY SMTT(30), <1>7, <2>3, <2>4, <2>5
<1>9. /\ u.pv \in Globals /\ u.pv.varp = p /\ u.pv.type = "float" /\ u.pv.dynamic = t.pv.dynamic
       /\ u.pv.alen = t.pv.alen /\ u.pv.index = t.pv.index /\ u.pv.ptr["float"] = n
  <2>1. t.pv \in Globals /\ n \in Nat
    BY <1>1
  <2>2. PICK q : q = [t.pv.ptr EXCEPT !["float"] = n]
    OBVIOUS
  <2> HIDE DEF n
  <2>3. q \in [Pointers -> Nat] /\ q["float"] = n
    BY <2>1, <2>2 DEF Globals, Pointers
  <2>4. u.pv = [t.pv EXCEPT !.type = "float", !.ptr = q]
    BY SMTT(30), <1>8, <2>1, <2>2 DEF Globals
  <2> QED
    BY ZenonT(30), <2>1, <2>3, <2>4 DEF Globals, Types
<1>10. \A j \in 0 .. t.pv.alen - 1 : new.cells[j + 1] = Cell(t, j)
  BY <1>1, <1>2 DEF Cell, Target
<1>11. Moved(t, d, new, u)
  <2>1. d.type = "float" /\ new.type \notin Text
    BY <1>2, <1>3 DEF Text
  <2>2. d.dynamic /\ d.size = t.pv.alen /\ t.pv.alen <= d.size
    BY <1>3, SoundFacts DEF Fill
  <2> HIDE DEF new, d, p, b
  <2>3. u.var = [t.var EXCEPT ![t.pv.varp] = d] /\ u.heap = Append(Free(t.heap, Target(t).block), new)
    BY <1>5, <1>8 DEF p, b
  <2> QED
    BY <1>2, <1>3, <1>8, <1>10, <1>9, <2>1, <2>2, <2>3 DEF Moved, p
<1>12. Fill(s, u, args, i)
  <2> HIDE DEF new, d
  <2> QED
    BY <1>11, MoveFill
<1> QED
  BY <1>8, <1>9, <1>12

\* An array that lines have made grows and keeps its values; there is room then.
LEMMA GrowFill ==
  ASSUME NEW s, NEW t, NEW args, NEW i \in Nat, Fill(s, t, args, i), ~t.failed,
         t.pv.dynamic, t.pv.alen <= t.pv.index, NEW rest \in Nat, rest > 0, NEW u, u = Grow(t, rest)
  PROVE  u.undefined \/ (Fill(s, u, args, i) /\ ~u.failed /\ u.pv.index < u.pv.alen)
<1> DEFINE p == t.pv.varp
           type == t.pv.type
           b == Target(t).block
           n == Len(t.heap) + 1
           size == t.pv.index + rest
           new == [type |-> type, cells |-> Kept(t.heap, b, t.pv.alen, size), live |-> TRUE]
           d == [Target(t) EXCEPT !.size = size, !.block = n]
<1>1. /\ t \in States /\ ~t.undefined /\ t.pv \in Globals /\ t.pv.index \in Nat /\ t.pv.alen \in Nat
      /\ t.heap \in Seq(Blocks) /\ t.var \in Seq(Structures) /\ Len(t.heap) \in Nat
      /\ p \in 1 .. Len(t.var) /\ Target(t) = t.var[p] /\ Target(t) \in Structures
      /\ Target(t).size = t.pv.alen /\ Target(t).type = type /\ Target(t).dynamic = t.pv.dynamic
      /\ type \in {"int", "float", "double"}
      /\ t.pv.ptr[type] = b /\ Owns(Target(t), t.heap) /\ t.heap[b] \in Blocks /\ b # 0
  BY SoundFacts DEF Fill
<1>2. CASE type = "double"
  <2>1. u = [t EXCEPT !.undefined = TRUE]
    BY <1>2 DEF Grow
  <2> QED
    BY <1>1, <2>1 DEF States
<1>3. CASE type # "double"
  <2>1. type \in {"int", "float"} /\ (IF type = "int" THEN "int" ELSE "float") = type
    BY SMTT(30), <1>1, <1>3
  <2>2. Live(t.heap, b)
    BY <1>1 DEF Live, Owns
  <2>3. size \in Nat /\ n \in Nat /\ t.pv.index < size /\ t.pv.alen <= size
    BY SMTT(30), <1>1
  <2>4. u = Repoint([t EXCEPT !.heap = Free(@, b), !.var[p].size = size, !.pv.alen = size], type, new)
    BY <1>1, <1>3, <2>1, <2>2 DEF Grow
  <2>5. /\ new.cells \in Seq(Int) /\ Len(new.cells) = size
        /\ \A j \in 1 .. t.pv.alen : new.cells[j] = t.heap[b].cells[j]
    <3>1. PICK c : c = t.heap[b].cells
      OBVIOUS
    <3>2. c \in Seq(Int) /\ Len(c) \in Nat /\ t.pv.alen <= Len(c)
      <4>1. t.heap[b] \in Blocks /\ t.pv.alen <= Len(t.heap[b].cells)
        BY <1>1 DEF Owns
      <4>2. c \in Seq(Int)
        BY <3>1, <4>1 DEF Blocks
      <4> QED
        BY <3>1, <4>1, <4>2
    <3>3. new.cells = [j \in 1 .. size |-> IF j <= t.pv.alen /\ j <= Len(c) THEN c[j] ELSE Garbage]
      BY <3>1 DEF Kept
    <3> HIDE DEF size, new
    <3>4. \A j \in 1 .. size : new.cells[j] \in Int
      BY <2>3, <3>2, <3>3 DEF Garbage
    <3>5. new.cells \in Seq(Int) /\ Len(new.cells) = size
      BY <2>3, <3>3, <3>4
    <3>6. \A j \in 1 .. t.pv.alen : new.cells[j] = c[j]
      BY SMTT(30), <1>1, <2>3, <3>2, <3>3
    <3> QED
      BY <3>1, <3>5, <3>6
  <2>6. new \in Blocks /\ new.live /\ new.type = type
    <3>1. type \in Types
      BY <2>1 DEF Types
    <3>2. PICK c : c = Kept(t.heap, b, t.pv.alen, size)
      OBVIOUS
    <3>3. c \in Seq(Int)
      BY <2>5, <3>2
    <3> QED
      BY <3>1, <3>2, <3>3 DEF Blocks
  <2>7. d \in Structures /\ d.block = n /\ d.type = type /\ d.size = size /\ d.dynamic = t.pv.dynamic
    <3> HIDE DEF n, size, type
    <3> QED
      BY <1>1, <2>3 DEF Structures
  <2>8. Len(Free(t.heap, b)) = Len(t.heap)
    BY <1>1 DEF Free
  <2>9. PICK f, g, w : /\ f = Free(t.heap, b) /\ g = [t.pv EXCEPT !.alen = size]
                       /\ w = [t.var EXCEPT ![p].size = size]
    OBVIOUS
  <2>10. PICK x : x = [t EXCEPT !.heap = Free(@, b), !.var[p].size = size, !.pv.alen = size]
    OBVIOUS
  <2> HIDE DEF size
  <2>11. Shape(x) /\ x.var = w /\ x.heap = f /\ x.pv = g /\ x.undefined = FALSE /\ x.failed = FALSE
    <3>1. Shape(t) /\ t.undefined = FALSE /\ t.failed = FALSE
      BY <1>1 DEF States, Shape
    <3>2. PICK x1 : x1 = [t EXCEPT !.heap = f]
      OBVIOUS
    <3>3. Shape(x1) /\ x1.var = t.var /\ x1.heap = f /\ x1.pv = t.pv /\ x1.undefined = FALSE /\ x1.failed = FALSE
      BY <3>1, <3>2 DEF Shape
    <3>4. PICK x2 : x2 = [x1 EXCEPT !.var = w]
      OBVIOUS
    <3>5. Shape(x2) /\ x2.var = w /\ x2.heap = f /\ x2.pv = t.pv /\ x2.undefined = FALSE /\ x2.failed = FALSE
      BY <3>3, <3>4 DEF Shape
    <3>6. x = [x2 EXCEPT !.pv = g]
      <4>1. x2 = [x1 EXCEPT !.var[p].size = size]
        BY <2>9, <3>3, <3>4
      <4>2. [x2 EXCEPT !.pv.alen = size] = [x2 EXCEPT !.pv = g]
        BY <2>9, <3>5
      <4> QED
        BY <2>9, <2>10, <3>2, <4>1, <4>2
    <3> QED
      BY <3>5, <3>6 DEF Shape
  <2>12. /\ u.var = [t.var EXCEPT ![p] = d] /\ u.heap = Append(f, new)
         /\ u.pv = [t.pv EXCEPT !.alen = size, !.ptr[type] = n]
         /\ Shape(u) /\ u.undefined = FALSE /\ u.failed = FALSE
    <3>1. Len(x.heap) + 1 = n /\ x.pv.varp = p
      BY <1>1, <2>8, <2>9, <2>11 DEF Globals
    <3>2. /\ u.var = [x.var EXCEPT ![p].block = n] /\ u.heap = Append(x.heap, new)
          /\ u.pv = [x.pv EXCEPT !.ptr[type] = n]
          /\ Shape(u) /\ u.undefined = FALSE /\ u.failed = FALSE
      <4> HIDE DEF new, n
      <4>1. Repointed(x, type, new, u)
        BY <2>4, <2>10, <2>11, RepointIs
      <4> QED
        BY <2>11, <3>1, <4>1 DEF Repointed
    <3>3. [x.pv EXCEPT !.ptr[type] = n] = [t.pv EXCEPT !.alen = size, !.ptr[type] = n]
      BY <2>9, <2>11
    <3>4. [x.var EXCEPT ![p].block = n] = [t.var EXCEPT ![p] = d]
      <4>1. p \in DOMAIN t.var
        BY <1>1
      <4>2. w[p] = [t.var[p] EXCEPT !.size = size] /\ DOMAIN w = DOMAIN t.var
        BY <2>9, <4>1
      <4>3. [w[p] EXCEPT !.block = n] = d
        BY <1>1, <4>2
      <4>4. [w EXCEPT ![p] = d] = [t.var EXCEPT ![p] = d]
        BY <2>9, <4>1
      <4> HIDE DEF d, n
      <4> QED
        BY <2>11, <4>3, <4>4
    <3> HIDE DEF d, new, n
    <3> QED
      BY SMTT(30), <2>11, <3>2, <3>3, <3>4
  <2>13. /\ u.pv \in Globals /\ u.pv.varp = p /\ u.pv.type = type /\ u.pv.dynamic = t.pv.dynamic
         /\ u.pv.alen = size /\ u.pv.index = t.pv.index /\ u.pv.ptr[type] = n
    <3>1. t.pv \in Globals /\ n \in Nat /\ type \in Pointers
      BY <1>1, <2>1 DEF Pointers
    <3>2. PICK q : q = [t.pv.ptr EXCEPT ![type] = n]
      OBVIOUS
    <3> HIDE DEF n
    <3>3. q \in [Pointers -> Nat] /\ q[type] = n
      BY <3>1, <3>2 DEF Globals
    <3>4. u.pv = [t.pv EXCEPT !.alen = size, !.ptr = q]
      BY <2>12, <3>1, <3>2 DEF Globals
    <3> QED
      BY ZenonT(30), <2>3, <3>1, <3>3, <3>4 DEF Globals
  <2>14. \A j \in 0 .. t.pv.alen - 1 : new.cells[j + 1] = Cell(t, j)
    <3>1. \A j \in 0 .. t.pv.alen - 1 : j + 1 \in 1 .. t.pv.alen
      BY <1>1
    <3>2. \A j \in 0 .. t.pv.alen - 1 : Cell(t, j) = t.heap[b].cells[j + 1]
      BY DEF Cell, Target
    <3> HIDE DEF new, b
    <3> QED
      BY <2>5, <3>1, <3>2
  <2>15. Moved(t, d, new, u)
    <3>1. d.type = type /\ new.type \notin Text /\ (new.type = "int" => t.pv.type = "int")
      BY <2>1, <2>6, <2>7 DEF Text
    <3>2. d.dynamic /\ d.size = size /\ d.size <= Len(new.cells) /\ t.pv.alen <= d.size
      <4> HIDE DEF new, d
      <4> QED
        BY <2>3, <2>5, <2>7
    <3> HIDE DEF new, d, p, b
    <3>3. u.var = [t.var EXCEPT ![t.pv.varp] = d] /\ u.heap = Append(Free(t.heap, Target(t).block), new)
      BY <2>9, <2>12 DEF p, b
    <3> QED
      BY <2>6, <2>7, <2>12, <2>13, <2>14, <3>1, <3>2, <3>3 DEF Moved, p
  <2>16. Fill(s, u, args, i)
    <3> HIDE DEF new, d
    <3> QED
      BY <2>15, MoveFill
  <2> QED
    BY <2>3, <2>12, <2>13, <2>16
<1> QED
  BY <1>2, <1>3

\* The values of a line; an integer has no half.
Values(args) ==
  /\ args \in Seq([kind : {"int", "float", "expr"}, v : Int])
  /\ \A i \in 1 .. Len(args) : args[i].kind = "int" => args[i].v % 2 = 0

\* A value is stored as the variable has it: rounded, unless lines made the variable.
LEMMA StoreArgFill ==
  ASSUME NEW s, NEW t, NEW args, Values(args), NEW i \in Nat, i < Len(args),
         Fill(s, t, args, i), ~t.failed, t.pv.index < t.pv.alen, NEW u, u = StoreArg(t, args[i + 1])
  PROVE  Fill(s, u, args, i + 1)
<1> DEFINE a == args[i + 1]
<1>1. i + 1 \in 1 .. Len(args)
  BY DEF Values
<1>2. a \in [kind : {"int", "float", "expr"}, v : Int]
  <2>1. args \in Seq([kind : {"int", "float", "expr"}, v : Int])
    BY DEF Values
  <2> QED
    BY <1>1, <2>1, ElementIs
<1>3. a.kind = "int" => a.v % 2 = 0
  BY <1>1 DEF Values
<1>4. a.v \in Int /\ floatToLong(a.v) \in Int
  BY <1>2 DEF floatToLong
<1>5. Sound(s) /\ Sound(t) /\ SameVariable(s, t)
  BY DEF Fill
<1>6. t.pv.dynamic = s.pv.dynamic /\ s.pv.dynamic \in BOOLEAN
  BY <1>5, SoundFacts DEF SameVariable, Globals
<1>7. Stored(s, a.v) = IF t.pv.type = "int" /\ ~t.pv.dynamic THEN floatToLong(a.v) ELSE a.v
  <2>1. CASE s.pv.dynamic
    BY <1>6, <2>1 DEF Stored
  <2>2. CASE ~s.pv.dynamic
    <3>1. Target(t) = Target(s)
      BY <1>5, <2>2 DEF SameVariable
    <3>2. t.pv.type = s.pv.type
      BY <1>5, <3>1, SoundFacts
    <3> QED
      BY <1>6, <2>2, <3>2 DEF Stored
  <2> QED
    BY <2>1, <2>2
<1> HIDE DEF a
<1>8. u = StoreArg(t, a)
  BY DEF a
<1>9. CASE t.pv.type = "int" /\ t.pv.dynamic /\ Floats(t, a)
  <2>1. Live(t.heap, t.pv.ptr["int"])
    <3>1. t.pv.ptr[t.pv.type] = Target(t).block /\ Owns(Target(t), t.heap) /\ Target(t).block # 0
      BY <1>5, SoundFacts
    <3> QED
      BY <1>9, <3>1, Zenon DEF Live, Owns
  <2>2. u = Store(ToFloat(t), a.v)
    BY <1>8, <1>9, <2>1 DEF StoreArg
  <2>3. PICK x : x = ToFloat(t)
    OBVIOUS
  <2>4. Fill(s, x, args, i) /\ ~x.failed /\ x.pv.index < x.pv.alen
    BY ZenonT(30), <1>9, <2>3, FloatFill
  <2>5. a.v = Stored(s, args[i + 1].v)
    BY <1>7, <1>9 DEF a
  <2>6. u = Store(x, a.v)
    BY <2>2, <2>3
  <2> QED
    BY <1>4, <2>4, <2>5, <2>6, StoreFill
<1>10. CASE ~(t.pv.type = "int" /\ t.pv.dynamic /\ Floats(t, a))
  <2>1. PICK v : v = IF t.pv.type = "int" THEN floatToLong(a.v) ELSE a.v
    OBVIOUS
  <2>2. u = Store(t, v)
    BY <1>8, <1>10, <2>1 DEF StoreArg
  <2>3. v = Stored(s, a.v)
    <3>1. CASE t.pv.type = "int" /\ t.pv.dynamic
      <4>1. a.v % 2 = 0
        <5>1. a.kind = "int" \/ a.v % 2 = 0
          BY <1>10, <3>1 DEF Floats
        <5> QED
          BY <1>3, <5>1
      <4>2. floatToLong(a.v) = a.v
        BY <4>1 DEF floatToLong
      <4> QED
        BY <1>7, <2>1, <3>1, <4>2
    <3>2. CASE ~(t.pv.type = "int" /\ t.pv.dynamic)
      BY <1>7, <2>1, <3>2
    <3> QED
      BY <3>1, <3>2
  <2>4. v \in Int
    BY <1>4, <2>1
  <2>5. v = Stored(s, args[i + 1].v)
    BY <2>3 DEF a
  <2> QED
    BY <2>2, <2>4, <2>5, StoreFill
<1> QED
  BY <1>9, <1>10

\* The next value of the line, if the program does not use memory that was freed
LEMMA NextFill ==
  ASSUME NEW s, NEW t, NEW args, Values(args), NEW i \in Nat, i < Len(args),
         Fill(s, t, args, i), NEW u, u = NextArg(t, args[i + 1], Len(args) - i)
  PROVE  u.undefined \/ Fill(s, u, args, i + 1)
<1>1. Sound(s) /\ Sound(t) /\ SameVariable(s, t) /\ Advanced(s, t, i) /\ Given(s, t, args)
  BY DEF Fill
<1>2. /\ t \in States /\ ~t.undefined /\ t.pv.index \in Nat /\ t.pv.alen \in Nat /\ s.pv.index \in Nat
      /\ t.pv.dynamic \in BOOLEAN
  BY <1>1, SoundFacts DEF Globals
<1>3. Len(args) \in Nat
  BY DEF Values
<1>4. CASE t.failed
  <2>1. u = t
    BY <1>4 DEF NextArg
  <2>2. Advanced(s, t, i + 1)
    BY SMTT(30), <1>1, <1>2, <1>4 DEF Advanced
  <2> QED
    BY <1>1, <2>1, <2>2 DEF Fill
<1>5. CASE ~t.failed /\ t.pv.alen <= t.pv.index /\ ~t.pv.dynamic
  <2>1. u = [t EXCEPT !.failed = TRUE]
    BY <1>2, <1>5 DEF NextArg
  <2>2. /\ u \in States /\ u.var = t.var /\ u.heap = t.heap /\ u.pv = t.pv
        /\ u.undefined = t.undefined /\ u.failed = TRUE
    BY <1>2, <2>1 DEF States
  <2>3. Sound(u)
    BY <1>1, <2>2 DEF Sound
  <2>4. SameVariable(s, u)
    BY SMTT(30), <1>1, <2>2 DEF SameVariable, Target
  <2>5. Advanced(s, u, i + 1)
    BY SMTT(30), <1>1, <1>2, <1>5, <2>2 DEF Advanced
  <2>6. Given(s, u, args)
    BY ZenonT(30), <1>1, <2>2 DEF Given, Cell
  <2> QED
    BY <1>1, <2>3, <2>4, <2>5, <2>6 DEF Fill
<1>6. CASE ~t.failed /\ t.pv.alen <= t.pv.index /\ t.pv.dynamic
  <2>1. PICK g : g = Grow(t, Len(args) - i)
    OBVIOUS
  <2>2. u = IF g.undefined THEN g ELSE StoreArg(g, args[i + 1])
    BY <1>2, <1>6, <2>1 DEF NextArg
  <2>3. Len(args) - i \in Nat /\ Len(args) - i > 0
    BY <1>3
  <2>4. g.undefined \/ (Fill(s, g, args, i) /\ ~g.failed /\ g.pv.index < g.pv.alen)
    BY <1>6, <2>1, <2>3, GrowFill
  <2>5. CASE g.undefined
    BY <2>2, <2>5
  <2>6. CASE ~g.undefined
    <3>1. u = StoreArg(g, args[i + 1])
      BY <2>2, <2>6
    <3> QED
      BY <2>4, <2>6, <3>1, StoreArgFill
  <2> QED
    BY <2>5, <2>6
<1>7. CASE ~t.failed /\ t.pv.index < t.pv.alen
  <2>1. u = StoreArg(t, args[i + 1])
    BY <1>2, <1>7 DEF NextArg
  <2> QED
    BY <1>7, <2>1, StoreArgFill
<1>8. t.pv.alen <= t.pv.index \/ t.pv.index < t.pv.alen
  BY <1>2
<1> QED
  BY <1>4, <1>5, <1>6, <1>7, <1>8

(***************************************************************************)
(* What all the values of a line do                                        *)
(***************************************************************************)

\* The naturals are well founded by their order.
LEMMA NaturalsWellFounded == IsWellFoundedOn({p \in Nat \X Nat : p[1] < p[2]}, Nat)
<1>1. OpToRel(<, Nat) = {p \in Nat \X Nat : p[1] < p[2]}
  BY DEF OpToRel
<1> QED
  BY <1>1, NatLessThanWellFounded

\* A set of naturals has a least one.
LEMMA LeastOf ==
  ASSUME NEW S \in SUBSET Nat, S # {}
  PROVE  \E m \in S : \A n \in S : m <= n
<1> DEFINE R == {p \in Nat \X Nat : p[1] < p[2]}
<1> HIDE DEF R
<1>1. IsWellFoundedOn(R, Nat)
  BY NaturalsWellFounded DEF R
<1>2. PICK m \in S : \A n \in S : ~(<<n, m>> \in R)
  BY <1>1, WFMin
<1>3. \A n \in S : ~(n < m)
  BY <1>2 DEF R
<1> QED
  BY <1>3

\* A set of naturals up to b has a greatest one.
LEMMA GreatestOf ==
  ASSUME NEW b \in Nat, NEW S \in SUBSET (0 .. b), S # {}
  PROVE  \E m \in S : \A n \in S : n <= m
<1> DEFINE T == {b - n : n \in S}
<1>1. T \in SUBSET Nat /\ T # {}
  <2>1. \A n \in S : n \in Nat /\ n <= b
    OBVIOUS
  <2>2. \A n \in S : b - n \in Nat
    BY <2>1
  <2>3. PICK n \in S : TRUE
    OBVIOUS
  <2>4. b - n \in T
    OBVIOUS
  <2> QED
    BY <2>2, <2>4
<1> HIDE DEF T
<1>2. PICK t \in T : \A u \in T : t <= u
  BY <1>1, LeastOf
<1>3. PICK m \in S : t = b - m
  BY <1>2 DEF T
<1>4. \A n \in S : t <= b - n
  BY <1>2 DEF T
<1>5. \A n \in S : n <= m
  BY <1>3, <1>4
<1> QED
  BY <1>5

\* What holds of 0, and of i + 1 when it holds of i, holds up to n.
LEMMA UpTo ==
  ASSUME NEW n \in Nat, NEW S, 0 \in S, \A i \in 0 .. n - 1 : i \in S => i + 1 \in S
  PROVE  \A i \in 0 .. n : i \in S
<1> DEFINE T == {i \in 0 .. n : i \notin S}
<1> SUFFICES ASSUME T # {} PROVE FALSE
  OBVIOUS
<1>1. T \in SUBSET Nat
  OBVIOUS
<1>2. PICK t \in T : \A u \in T : t <= u
  <2> HIDE DEF T
  <2> QED
    BY <1>1, LeastOf
<1>3. t \in 0 .. n /\ t # 0 /\ t \notin S
  BY <1>2
<1>4. t - 1 \in 0 .. n - 1 /\ t - 1 \notin T
  <2>1. t - 1 \in 0 .. n - 1 /\ ~(t <= t - 1)
    BY <1>3
  <2> QED
    BY <1>2, <2>1
<1>5. t - 1 \in S
  BY <1>4
<1>6. (t - 1) + 1 \in S
  BY <1>4, <1>5
<1> QED
  BY <1>3, <1>6

\* f is what SetNumbers works out, up to the value m.
Filled(f, s, args, m) ==
  f = [i \in 0 .. m |-> IF i = 0 THEN s ELSE NextArg(f[i - 1], args[i], Len(args) - i + 1)]

\* There is one for a value more.
LEMMA FilledNext ==
  ASSUME NEW s, NEW args, Len(args) \in Nat, NEW m \in 0 .. Len(args) - 1, \E f : Filled(f, s, args, m)
  PROVE  \E f : Filled(f, s, args, m + 1)
<1> DEFINE n == Len(args)
<1>1. PICK f : Filled(f, s, args, m)
  OBVIOUS
<1> DEFINE g == [i \in 0 .. m + 1 |-> IF i = m + 1 THEN NextArg(f[m], args[m + 1], n - (m + 1) + 1) ELSE f[i]]
<1>2. \A i \in 0 .. m + 1 : g[i] = IF i = 0 THEN s ELSE NextArg(g[i - 1], args[i], n - i + 1)
  <2> SUFFICES ASSUME NEW i \in 0 .. m + 1
               PROVE  g[i] = IF i = 0 THEN s ELSE NextArg(g[i - 1], args[i], n - i + 1)
    OBVIOUS
  <2>1. CASE i = m + 1
    <3>1. g[i] = NextArg(f[m], args[m + 1], n - (m + 1) + 1) /\ g[m] = f[m] /\ i - 1 = m /\ i # 0
      BY <2>1
    <3> QED
      BY <2>1, <3>1
  <2>2. CASE i # m + 1
    <3>1. i \in 0 .. m /\ g[i] = f[i]
      BY <2>2
    <3>2. f[i] = IF i = 0 THEN s ELSE NextArg(f[i - 1], args[i], n - i + 1)
      BY <1>1, <3>1 DEF Filled
    <3>3. i # 0 => g[i - 1] = f[i - 1]
      BY <3>1
    <3> QED
      BY <3>1, <3>2, <3>3
  <2> QED
    BY <2>1, <2>2
<1>3. Filled(g, s, args, m + 1)
  BY <1>2 DEF Filled
<1> HIDE DEF g
<1> QED
  BY <1>3

\* SetNumbers works them out one by one.
LEMMA SetNumbersIs ==
  ASSUME NEW s, NEW args, Len(args) \in Nat
  PROVE  \E f : Filled(f, s, args, Len(args)) /\ SetNumbers(s, args) = f[Len(args)]
<1> DEFINE n == Len(args)
           S == {m \in 0 .. n : \E f : Filled(f, s, args, m)}
<1>1. 0 \in S
  <2>1. Filled([i \in 0 .. 0 |-> s], s, args, 0)
    BY DEF Filled
  <2>2. 0 \in 0 .. n /\ \E f : Filled(f, s, args, 0)
    BY <2>1
  <2> QED
    BY <2>2
<1>2. \A m \in 0 .. n - 1 : m \in S => m + 1 \in S
  <2> SUFFICES ASSUME NEW m \in 0 .. n - 1, m \in S PROVE m + 1 \in S
    OBVIOUS
  <2>1. \E f : Filled(f, s, args, m + 1)
    BY FilledNext
  <2> QED
    BY <2>1
<1>3. n \in S
  <2>1. \A i \in 0 .. n : i \in S
    <3> HIDE DEF S
    <3> QED
      BY <1>1, <1>2, UpTo
  <2> QED
    BY <2>1
<1>4. \E f : Filled(f, s, args, n)
  BY <1>3
<1>5. Filled(CHOOSE f : Filled(f, s, args, n), s, args, n)
  BY <1>4
<1>6. SetNumbers(s, args) = (CHOOSE f : Filled(f, s, args, n))[n]
  BY DEF SetNumbers, Filled
<1> QED
  BY <1>5, <1>6

\* Memory that is not the program's own stays so: the line stops there.
LEMMA UndefinedStays ==
  ASSUME NEW t, t.undefined, NEW a, NEW rest
  PROVE  NextArg(t, a, rest) = t
  BY DEF NextArg

\* The values of a line, if it uses no memory that was freed
LEMMA SetNumbersFill ==
  ASSUME NEW s, NEW args, Values(args), s.undefined \/ (Sound(s) /\ ~s.failed),
         NEW t, t = SetNumbers(s, args)
  PROVE  t.undefined \/ Fill(s, t, args, Len(args))
<1> DEFINE n == Len(args)
<1>1. n \in Nat
  BY DEF Values
<1>2. PICK f : Filled(f, s, args, n) /\ t = f[n]
  BY <1>1, SetNumbersIs
<1> DEFINE S == {i \in 0 .. n : f[i].undefined \/ Fill(s, f[i], args, i)}
<1>3. 0 \in S
  <2>1. f[0] = s
    BY <1>1, <1>2 DEF Filled
  <2>2. CASE s.undefined
    BY <1>1, <2>1, <2>2
  <2>3. CASE Sound(s) /\ ~s.failed
    <3>1. SameVariable(s, s)
      BY <2>3, SoundFacts DEF SameVariable
    <3>2. Advanced(s, s, 0)
      BY <2>3, SoundFacts DEF Advanced
    <3>3. Given(s, s, args)
      BY <2>3, SoundFacts DEF Given
    <3>4. Fill(s, s, args, 0)
      BY <2>3, <3>1, <3>2, <3>3 DEF Fill
    <3> QED
      BY <1>1, <2>1, <3>4
  <2> QED
    BY <2>2, <2>3
<1>4. \A i \in 0 .. n - 1 : i \in S => i + 1 \in S
  <2> SUFFICES ASSUME NEW i \in 0 .. n - 1, i \in S PROVE i + 1 \in S
    OBVIOUS
  <2>1. f[i + 1] = NextArg(f[i], args[i + 1], n - i)
    <3>1. i + 1 \in 0 .. n /\ i + 1 # 0 /\ (i + 1) - 1 = i /\ n - (i + 1) + 1 = n - i
      BY <1>1
    <3> HIDE DEF n
    <3> QED
      BY <1>2, <3>1 DEF Filled, n
  <2>2. CASE f[i].undefined
    <3>1. f[i + 1] = f[i]
      BY <2>1, <2>2, UndefinedStays
    <3> QED
      BY <1>1, <2>2, <3>1
  <2>3. CASE Fill(s, f[i], args, i)
    <3>1. i \in Nat /\ i < Len(args) /\ i + 1 \in 0 .. n
      BY <1>1
    <3>2. f[i + 1].undefined \/ Fill(s, f[i + 1], args, i + 1)
      BY <2>1, <2>3, <3>1, NextFill
    <3> QED
      BY <3>1, <3>2
  <2> QED
    BY <2>2, <2>3
<1>5. n \in S
  <2>1. \A i \in 0 .. n : i \in S
    <3> HIDE DEF S
    <3> QED
      BY <1>1, <1>3, <1>4, UpTo
  <2> QED
    BY <1>1, <2>1
<1> QED
  BY <1>2, <1>5

(***************************************************************************)
(* What was given, and where it is                                         *)
(***************************************************************************)

\* The values f are in the elements of the structure d.
IsMeant(f, d, h) ==
  /\ d.type \in Text => DOMAIN f = {}
  /\ \A j \in DOMAIN f : j \in 0 .. d.size - 1 /\ h[d.block].cells[j + 1] = f[j]

\* Every value that was given is in its element.
Means(m, v, h) ==
  /\ Len(m) = Len(v) /\ m = [p \in 1 .. Len(m) |-> m[p]]
  /\ \A p \in 1 .. Len(m) : IsMeant(m[p], v[p], h)

\* Where a line without a name goes on: at the element after the last, or past the end.
Follows(g, c) == c = g.index \/ (~g.dynamic /\ g.alen <= g.index /\ g.index <= c)

\* The structure p changes, its values become f, and the others are as they were.
Changes(m, v, h, p, f, k, w, g) ==
  /\ Means(m, v, h) /\ Len(v) \in Nat /\ p \in 1 .. Len(v) /\ Len(w) = Len(v)
  /\ k = [m EXCEPT ![p] = f] /\ IsMeant(f, w[p], g)
  /\ \A q \in 1 .. Len(v) : q # p => w[q] = v[q] /\ g[w[q].block] = h[v[q].block]

\* So every value is in its element again.
LEMMA MeansAt ==
  ASSUME NEW m, NEW v, NEW h, NEW p, NEW f, NEW k, NEW w, NEW g, Changes(m, v, h, p, f, k, w, g)
  PROVE  Means(k, w, g)
<1>1. /\ Means(m, v, h) /\ Len(v) \in Nat /\ p \in 1 .. Len(v) /\ Len(w) = Len(v)
      /\ IsMeant(f, w[p], g)
      /\ \A q \in 1 .. Len(v) : q # p => w[q] = v[q] /\ g[w[q].block] = h[v[q].block]
  BY DEF Changes
<1>2. Len(m) = Len(v) /\ DOMAIN m = 1 .. Len(v)
  BY <1>1 DEF Means
<1>3. k = [q \in 1 .. Len(v) |-> IF q = p THEN f ELSE m[q]]
  BY <1>2 DEF Changes
<1>4. Len(k) = Len(v) /\ \A q \in 1 .. Len(v) : k[q] = IF q = p THEN f ELSE m[q]
  BY <1>1, <1>3
<1>5. k = [q \in 1 .. Len(v) |-> k[q]]
  BY <1>3
<1>6. ASSUME NEW q \in 1 .. Len(v) PROVE IsMeant(k[q], w[q], g)
  <2>1. CASE q = p
    BY <1>1, <1>4, <2>1
  <2>2. CASE q # p
    <3>1. IsMeant(m[q], v[q], h)
      BY <1>1, <1>2 DEF Means
    <3>2. w[q] = v[q] /\ g[w[q].block] = h[v[q].block] /\ k[q] = m[q]
      BY <1>1, <1>4, <2>2
    <3> QED
      BY <3>1, <3>2 DEF IsMeant
  <2> QED
    BY <2>1, <2>2
<1> QED
  BY <1>1, <1>4, <1>5, <1>6 DEF Means

\* A new structure has no values yet.
LEMMA MeansNew ==
  ASSUME NEW m, NEW v, NEW h, Means(m, v, h), Len(v) \in Nat,
         NEW w, NEW g, Len(w) = Len(v) + 1,
         \A q \in 1 .. Len(v) : w[q] = v[q] /\ g[w[q].block] = h[v[q].block]
  PROVE  Means(Append(m, NoneMeant), w, g)
<1> DEFINE k == Append(m, NoneMeant)
           S == {m[q] : q \in 1 .. Len(v)} \cup {NoneMeant}
<1>1. Len(m) = Len(v) /\ m = [q \in 1 .. Len(v) |-> m[q]]
  BY DEF Means
<1>2. m \in Seq(S)
  <2>1. \A q \in 1 .. Len(v) : m[q] \in S
    OBVIOUS
  <2> HIDE DEF S
  <2>2. m \in [1 .. Len(v) -> S]
    BY <1>1, <2>1
  <2> QED
    BY <2>2
<1>3. NoneMeant \in S
  OBVIOUS
<1> HIDE DEF S
<1>4. /\ k \in Seq(S) /\ Len(k) = Len(v) + 1 /\ k[Len(v) + 1] = NoneMeant
      /\ \A q \in 1 .. Len(v) : k[q] = m[q]
  BY <1>1, <1>2, <1>3, AppendIs
<1> HIDE DEF k
<1>5. k = [q \in 1 .. Len(v) + 1 |-> k[q]]
  BY <1>4
<1>6. ASSUME NEW q \in 1 .. Len(v) + 1 PROVE IsMeant(k[q], w[q], g)
  <2>1. CASE q = Len(v) + 1
    BY <1>4, <2>1 DEF IsMeant, NoneMeant
  <2>2. CASE q # Len(v) + 1
    <3>1. q \in 1 .. Len(v)
      BY <2>2
    <3>2. IsMeant(m[q], v[q], h)
      BY <1>1, <3>1 DEF Means
    <3>3. w[q] = v[q] /\ g[w[q].block] = h[v[q].block] /\ k[q] = m[q]
      BY <1>4, <3>1
    <3> QED
      BY <3>2, <3>3 DEF IsMeant
  <2> QED
    BY <2>1, <2>2
<1>7. Means(k, w, g)
  BY <1>4, <1>5, <1>6 DEF Means
<1> QED
  BY <1>7 DEF k

\* The elements from si to ti are those from "from" on that there is room for.
Reach(si, ti, sa, ta, N, from, dynamic, failed, n) ==
  /\ si \in Nat /\ ti \in Nat /\ sa \in Nat /\ ta \in Nat /\ N \in Nat /\ from \in Int /\ dynamic \in BOOLEAN
  /\ n = IF dynamic \/ sa - from >= N THEN N ELSE sa - from
  /\ ~dynamic => ta = sa
  /\ si <= ti /\ ti <= si + N /\ sa <= ta /\ (ti = si \/ ti <= ta)
  /\ IF failed THEN ~dynamic /\ ta <= ti ELSE ti = si + N
  /\ from = si \/ (~dynamic /\ sa <= si /\ si <= from)

\* They are those that have been given, and no other element of the old array.
LEMMA Reached ==
  ASSUME NEW si, NEW ti, NEW sa, NEW ta, NEW N, NEW from, NEW dynamic, NEW failed, NEW n,
         Reach(si, ti, sa, ta, N, from, dynamic, failed, n), NEW j \in Int
  PROVE  /\ j \in from .. from + n - 1 => j \in si .. ti - 1 /\ j \in 0 .. ta - 1 /\ from = si
         /\ j \in 0 .. sa - 1 /\ j \in si .. ti - 1 => j \in from .. from + n - 1
<1> USE DEF Reach
<1>1. CASE dynamic
  <2>1. n = N /\ from = si /\ ti = si + N /\ (ti = si \/ ti <= ta)
    BY <1>1
  <2> QED
    BY <2>1
<1>2. CASE ~dynamic /\ from = si
  <2>1. n \in Int /\ ta = sa /\ n <= N /\ n <= sa - si /\ (n = N \/ n = sa - si)
    BY <1>2
  <2>2. ti = si + N \/ sa <= ti
    BY <1>2
  <2> QED
    BY <1>2, <2>1, <2>2
<1>3. CASE ~dynamic /\ from # si
  <2>1. n \in Int /\ n <= 0 /\ ti = si
    BY <1>3
  <2> QED
    BY <1>3, <2>1
<1> QED
  BY <1>1, <1>2, <1>3

\* What a line gives is what it means: the elements that it reaches have its
\* values, and the others those they had.
LEMMA MeaningFill ==
  ASSUME NEW s, NEW t, NEW args, Values(args), Fill(s, t, args, Len(args)),
         NEW from, Follows(s.pv, from), from \in Int, NEW m, Means(m, s.var, s.heap)
  PROVE  /\ Means(Meaning(m, s.pv.varp, Target(s), from, args), t.var, t.heap)
         /\ Follows(t.pv, from + Len(args))
<1> DEFINE p == s.pv.varp
           N == Len(args)
           def == Target(s)
           room == IF def.dynamic THEN N ELSE def.size - from
           n == IF room < N THEN room ELSE N
           value(a) == IF def.type = "int" /\ ~def.dynamic THEN floatToLong(a.v) ELSE a.v
           over == [j \in from .. from + n - 1 |-> value(args[j - from + 1])]
           f == Over(over, m[p])
<1>1. /\ Sound(s) /\ Sound(t) /\ SameVariable(s, t) /\ Advanced(s, t, N) /\ Given(s, t, args)
      /\ N \in Nat
  BY DEF Fill, Values
<1>2. /\ s.pv.index \in Nat /\ t.pv.index \in Nat /\ s.pv.alen \in Nat /\ t.pv.alen \in Nat
      /\ def.size = s.pv.alen /\ def.dynamic = s.pv.dynamic /\ def.type = s.pv.type
      /\ p \in 1 .. Len(s.var) /\ Len(s.var) \in Nat /\ def = s.var[p] /\ t.pv.varp = p
      /\ t.pv.dynamic = s.pv.dynamic /\ s.pv.dynamic \in BOOLEAN /\ s.pv.alen <= t.pv.alen
      /\ Target(t) = t.var[p] /\ Target(t).size = t.pv.alen /\ Target(t).type = t.pv.type
      /\ Target(t).type \notin Text /\ def.type \notin Text
  BY SMTT(30), <1>1, SoundFacts DEF SameVariable, Globals, Text
<1>3. ~s.pv.dynamic => t.pv.alen = s.pv.alen
  BY <1>1, <1>2 DEF SameVariable
<1>4. /\ s.pv.index <= t.pv.index /\ t.pv.index <= s.pv.index + N
      /\ t.pv.index = s.pv.index \/ t.pv.index <= t.pv.alen
      /\ IF t.failed THEN ~s.pv.dynamic /\ t.pv.alen <= t.pv.index ELSE t.pv.index = s.pv.index + N
  BY <1>1, <1>2 DEF Advanced
<1>5. from = s.pv.index \/ (~s.pv.dynamic /\ s.pv.alen <= s.pv.index /\ s.pv.index <= from)
  BY DEF Follows
<1>6. Follows(t.pv, from + N)
  <2>1. from + N = t.pv.index \/ (~s.pv.dynamic /\ t.pv.alen <= t.pv.index /\ t.pv.index <= from + N)
    BY SMTT(30), <1>1, <1>2, <1>3, <1>4, <1>5
  <2> QED
    BY <1>2, <2>1 DEF Follows
<1>7. ASSUME NEW j \in Int
      PROVE  /\ j \in from .. from + n - 1 =>
                  j \in s.pv.index .. t.pv.index - 1 /\ j \in 0 .. t.pv.alen - 1 /\ from = s.pv.index
             /\ j \in 0 .. s.pv.alen - 1 /\ j \in s.pv.index .. t.pv.index - 1 => j \in from .. from + n - 1
  <2>1. n = IF s.pv.dynamic \/ s.pv.alen - from >= N THEN N ELSE s.pv.alen - from
    BY <1>1, <1>2
  <2> HIDE DEF n, room, N
  <2>2. Reach(s.pv.index, t.pv.index, s.pv.alen, t.pv.alen, N, from, s.pv.dynamic, t.failed, n)
    BY <1>1, <1>2, <1>3, <1>4, <1>5, <2>1 DEF Reach
  <2> QED
    BY <2>2, Reached
<1>8. IsMeant(m[p], def, s.heap)
  BY <1>2 DEF Means
<1>9. Meaning(m, p, def, from, args) = [m EXCEPT ![p] = f]
  BY DEF Meaning
<1> HIDE DEF n, room
<1>10. DOMAIN over = from .. from + n - 1
  OBVIOUS
<1>11. IsMeant(f, Target(t), t.heap)
  <2> HIDE DEF over
  <2>1. DOMAIN f = DOMAIN over \cup DOMAIN m[p]
        /\ \A j \in DOMAIN f : f[j] = IF j \in DOMAIN over THEN over[j] ELSE m[p][j]
    BY SMTT(30) DEF Over
  <2> HIDE DEF f
  <2> SUFFICES ASSUME NEW j \in DOMAIN f
               PROVE  j \in 0 .. t.pv.alen - 1 /\ Cell(t, j) = f[j]
    BY ZenonT(30), <1>2 DEF IsMeant, Cell, Target
  <2>2. DOMAIN f = DOMAIN over \cup DOMAIN m[p] /\ f[j] = IF j \in DOMAIN over THEN over[j] ELSE m[p][j]
    BY <2>1
  <2>3. CASE j \in DOMAIN over
    <3>1. j \in from .. from + n - 1 /\ j \in Int
      BY <1>10, <2>3
    <3>2. j \in s.pv.index .. t.pv.index - 1 /\ j \in 0 .. t.pv.alen - 1 /\ from = s.pv.index
      BY <1>7, <3>1
    <3>3. Cell(t, j) = Stored(s, args[j - s.pv.index + 1].v)
      BY <1>1, <3>2 DEF Given
    <3>4. over[j] = Stored(s, args[j - from + 1].v)
      BY <1>2, <3>1 DEF over, Stored
    <3> QED
      BY <2>2, <2>3, <3>2, <3>3, <3>4
  <2>4. CASE j \notin DOMAIN over
    <3>1. j \in DOMAIN m[p] /\ f[j] = m[p][j]
      BY <2>2, <2>4
    <3>2. j \in 0 .. s.pv.alen - 1 /\ Cell(s, j) = m[p][j]
      BY <1>2, <1>8, <3>1 DEF IsMeant, Cell
    <3>3. j \in 0 .. t.pv.alen - 1 /\ j < s.pv.alen /\ j \in Int
      BY SMTT(30), <1>2, <3>2
    <3>4. j \notin s.pv.index .. t.pv.index - 1
      BY <1>7, <1>10, <2>4, <3>2, <3>3
    <3>5. Cell(t, j) = Cell(s, j)
      BY <1>1, <3>3, <3>4 DEF Given
    <3> QED
      BY <3>1, <3>2, <3>3, <3>5
  <2> QED
    BY <2>3, <2>4
<1>12. \A q \in 1 .. Len(s.var) : q # p => t.var[q] = s.var[q] /\ t.heap[t.var[q].block] = s.heap[s.var[q].block]
  BY <1>1 DEF SameVariable
<1>13. Len(t.var) = Len(s.var) /\ t.var[p] = Target(t)
  BY <1>1, <1>2 DEF SameVariable
<1> HIDE DEF f
<1>14. Means([m EXCEPT ![p] = f], t.var, t.heap)
  <2>1. PICK w, g : w = t.var /\ g = t.heap
    OBVIOUS
  <2>2. IsMeant(f, w[p], g) /\ Len(w) = Len(s.var)
    BY <1>11, <1>13, <2>1
  <2>3. \A q \in 1 .. Len(s.var) : q # p => w[q] = s.var[q] /\ g[w[q].block] = s.heap[s.var[q].block]
    BY <1>12, <2>1
  <2>4. Changes(m, s.var, s.heap, p, f, [m EXCEPT ![p] = f], w, g)
    <3> HIDE DEF p
    <3> QED
      BY <1>2, <2>2, <2>3 DEF Changes
  <2> QED
    BY <2>1, <2>4, MeansAt
<1> QED
  BY <1>6, <1>9, <1>14

(***************************************************************************)
(* The invariant                                                           *)
(***************************************************************************)

\* The line before this one gave the values of an array that was declared anew
\* since; its block was freed.
Lost(g, v, h) ==
  /\ g.varp \in 1 .. Len(v) /\ g.dynamic /\ g.type \notin Text
  /\ g.ptr[Register(g.type)] \in 0 .. Len(h) /\ ~Live(h, g.ptr[Register(g.type)])

\* What a line without a name goes on with
Continues(g, c, v, h) ==
  /\ g \in Globals /\ c \in Int
  /\ g.varp = 0 \/ g.type \in Text \/ (Points(g, v) /\ Follows(g, c)) \/ Lost(g, v, h)

\* Blocks, globals and values are in order,
Memory(v, h, g, c, m) == Held(v, h) /\ Continues(g, c, v, h) /\ Means(m, v, h)

\* as long as the program used no memory that is not its own.
MemoryOK == ~undefined => Memory(var, heap, pv, cursor, meant) /\ Len(var) = Len(names)

\* A variable is registered by the program before the first line of parameters.
MemoryInv == RegistryInv /\ MemoryOK /\ lines \in Nat /\ (lines = 0 => pv.varp = 0)

\* Lengths and domains
LEMMA MemoryFacts ==
  ASSUME NEW v, NEW h, NEW g, NEW c, NEW m, Memory(v, h, g, c, m)
  PROVE  /\ v \in Seq(Structures) /\ h \in Seq(Blocks) /\ Len(v) \in Nat /\ Len(h) \in Nat
         /\ Len(m) = Len(v) /\ DOMAIN m = 1 .. Len(v) /\ g \in Globals /\ c \in Int
         /\ Held(v, h) /\ Means(m, v, h) /\ Continues(g, c, v, h)
  BY DEF Memory, Held, Means, Continues

\* The memory that is allocated
LEMMA MallocIs ==
  ASSUME NEW type \in Types, NEW n \in Nat
  PROVE  /\ Malloc(type, n) \in Blocks /\ Malloc(type, n).live /\ Malloc(type, n).type = type
         /\ Len(Malloc(type, n).cells) = IF n = 0 THEN 1 ELSE n
<1> DEFINE k == IF n = 0 THEN 1 ELSE n
           c == [j \in 1 .. k |-> Garbage]
<1>1. k \in Nat
  OBVIOUS
<1> HIDE DEF k
<1>2. c \in Seq(Int) /\ Len(c) = k
  BY <1>1 DEF Garbage
<1>3. Malloc(type, n) = [type |-> type, cells |-> c, live |-> TRUE]
  BY DEF Malloc, k
<1> HIDE DEF c
<1> QED
  BY <1>2, <1>3 DEF Blocks, k

\* A structure that is described afresh owns it.
LEMMA DefinitionIs ==
  ASSUME NEW type \in Types, NEW n \in Nat, NEW dynamic \in BOOLEAN, NEW b \in Nat,
         NEW d, d = Definition(type, n, dynamic, b), NEW new, new = Malloc(type, n)
  PROVE  /\ d \in Structures /\ d.type = type /\ d.block = b /\ d.dynamic = dynamic
         /\ d.size = Len(new.cells) /\ new \in Blocks /\ new.live /\ new.type = type
  BY MallocIs DEF Definition, Structures

\* A new structure with a new block
Creates(v, h, d, new, w, k) ==
  /\ \E type \in Types, n \in Nat, dynamic \in BOOLEAN :
       d = Definition(type, n, dynamic, Len(h) + 1) /\ new = Malloc(type, n)
  /\ w = Append(v, d) /\ k = Append(h, new)

\* It has no values yet, and the others keep theirs.
LEMMA MemoryNew ==
  ASSUME NEW v, NEW h, NEW g, NEW c, NEW m, Memory(v, h, g, c, m),
         NEW d, NEW new, NEW w, NEW k, Creates(v, h, d, new, w, k)
  PROVE  /\ Memory(w, k, g, c, Append(m, NoneMeant)) /\ Len(w) = Len(v) + 1
         /\ d \in Structures /\ w[Len(v) + 1] = d
<1>1. PICK type \in Types, n \in Nat, dynamic \in BOOLEAN :
        d = Definition(type, n, dynamic, Len(h) + 1) /\ new = Malloc(type, n)
  BY DEF Creates
<1>2. /\ v \in Seq(Structures) /\ h \in Seq(Blocks) /\ Len(v) \in Nat /\ Len(h) \in Nat
      /\ Held(v, h) /\ Means(m, v, h) /\ Continues(g, c, v, h)
  BY MemoryFacts
<1>3. /\ d \in Structures /\ d.block = Len(h) + 1 /\ d.type = type /\ d.size = Len(new.cells)
      /\ new \in Blocks /\ new.live /\ new.type = type
  <2>1. Len(h) + 1 \in Nat
    BY <1>2
  <2> QED
    BY <1>1, <2>1, DefinitionIs
<1>4. /\ k \in Seq(Blocks) /\ Len(k) = Len(h) + 1 /\ k[Len(h) + 1] = new
      /\ \A x \in 1 .. Len(h) : k[x] = h[x]
  BY <1>2, <1>3, AppendIs DEF Creates
<1>5. Owns(d, k)
  <2>1. Len(new.cells) \in Nat
    BY <1>3 DEF Blocks
  <2> QED
    BY <1>2, <1>3, <1>4, <2>1 DEF Owns
<1>6. /\ Held(w, k) /\ Len(w) = Len(v) + 1 /\ w[Len(v) + 1] = d
      /\ \A q \in 1 .. Len(v) : w[q] = v[q] /\ k[v[q].block] = h[v[q].block]
  <2>1. Adds(v, h, d, new, w, k)
    BY <1>2, <1>3, <1>5 DEF Adds, Creates
  <2> QED
    BY <2>1, HeldNew
<1>7. Means(Append(m, NoneMeant), w, k)
  BY <1>2, <1>6, MeansNew
<1>8. Continues(g, c, w, k)
  <2>1. Points(g, v) => Points(g, w)
    BY <1>2, <1>6 DEF Points
  <2>2. Lost(g, v, h) => Lost(g, w, k)
    BY <1>2, <1>4, <1>6 DEF Lost, Live
  <2> QED
    BY <1>2, <2>1, <2>2 DEF Continues
<1> QED
  BY <1>3, <1>6, <1>7, <1>8 DEF Memory

\* A structure gets a new block, and its values become f.
MovesMeant(v, h, m, p, d, f, w, k, o) ==
  Moves(v, h, p, d, w, k) /\ Means(m, v, h) /\ IsMeant(f, d, k) /\ o = [m EXCEPT ![p] = f]

\* The others keep theirs.
LEMMA MemoryMove ==
  ASSUME NEW v, NEW h, NEW m, NEW p, NEW d, NEW f, NEW w, NEW k, NEW o, MovesMeant(v, h, m, p, d, f, w, k, o)
  PROVE  Held(w, k) /\ Len(w) = Len(v) /\ Means(o, w, k)
<1>1. Moves(v, h, p, d, w, k) /\ Means(m, v, h) /\ IsMeant(f, d, k) /\ o = [m EXCEPT ![p] = f]
  BY DEF MovesMeant
<1>2. p \in 1 .. Len(v) /\ Len(v) \in Nat
  BY <1>1 DEF Moves, Held
<1>3. /\ Held(w, k) /\ Len(w) = Len(v) /\ w[p] = d
      /\ \A q \in 1 .. Len(v) : q # p => w[q] = v[q] /\ k[w[q].block] = h[v[q].block]
  BY <1>1, HeldMove
<1>4. Changes(m, v, h, p, f, o, w, k)
  BY <1>1, <1>2, <1>3 DEF Changes
<1> QED
  BY <1>3, <1>4, MeansAt

\* What is found is a structure.
LEMMA FoundIs ==
  ASSUME RegistryInv, NEW n \in Names
  PROVE  crlHashFind(n) \in 0 .. Len(names) /\ Len(names) \in Nat
<1>1. Table(chains, names) /\ Len(names) \in Nat
  BY DEF RegistryInv, Table
<1> QED
  BY <1>1, FindIs, FindRange

\* So it is when the class is tried too, and what is not found is a name to be.
LEMMA LookupIs ==
  ASSUME RegistryInv, NEW n \in Names
  PROVE  /\ daVarLookupPWithClass(n) \in 0 .. Len(names) /\ Len(names) \in Nat
         /\ daVarLookupPWithClass(n) = 0 => NewName(n) \in Names /\ crlHashFind(NewName(n)) = 0
<1>1. Len(n) = 1 => <<Parm>> \o n \in Names
  BY NamesClosed
<1>2. crlHashFind(n) \in 0 .. Len(names) /\ Len(names) \in Nat
  BY FoundIs
<1>3. <<Parm>> \o n \in Names => crlHashFind(<<Parm>> \o n) \in 0 .. Len(names)
  BY FoundIs
<1> QED
  BY <1>1, <1>2, <1>3 DEF daVarLookupPWithClass, NewName

\* A name that is registered for the first time
LEMMA BindNew ==
  ASSUME NEW n \in Names, crlHashFind(n) = 0, Bind(n), RegistryInv
  PROVE  Len(names') = Len(names) + 1 /\ Bound(n) = Len(names) + 1
         /\ \A def : daVarRegister(n, def) = Append(var, def)
<1>1. names \in Seq(Names)
  BY DEF RegistryInv, Table
<1> QED
  BY <1>1 DEF Bind, Bound, daVarRegister

(***************************************************************************)
(* A line that gives values                                                *)
(***************************************************************************)

\* The state that a line starts from: its globals point to its variable, and it
\* goes on from the element "from".
Ready(s, m, from) ==
  /\ s \in States /\ ~s.undefined /\ ~s.failed
  /\ Held(s.var, s.heap) /\ Points(s.pv, s.var) /\ Means(m, s.var, s.heap)
  /\ from \in Int /\ Follows(s.pv, from)

\* What a line gives
LEMMA ArgsAre ==
  ASSUME NEW l \in Lines
  PROVE  Values(l.args) /\ l.ix \in Int /\ l.len \in Nat /\ Len(l.args) \in Nat
<1>1. /\ l.args \in Seq([kind : {"int", "float", "expr"}, v : Int]) /\ l.ix \in Int /\ l.len \in Nat
      /\ \A i \in DOMAIN l.args : l.args[i].kind = "int" => l.args[i].v % 2 = 0
  BY LinesAssumption
<1>2. DOMAIN l.args = 1 .. Len(l.args) /\ Len(l.args) \in Nat
  BY <1>1
<1> QED
  BY SMTT(30), <1>1, <1>2 DEF Values

\* The characters of a string go to the string's own block.
LEMMA SetTextIs ==
  ASSUME NEW s \in States, NEW n \in Nat, NEW t, t = SetText(s, n),
         Held(s.var, s.heap), Points(s.pv, s.var), s.pv.type \in Text
  PROVE  /\ t.var = s.var /\ t.pv = s.pv /\ t.undefined = s.undefined
         /\ \E c : Wrote(s.heap, s.var[s.pv.varp].block, c, t.heap)
<1> DEFINE b == s.pv.ptr["text"]
           room == IF s.pv.type = "string" THEN s.pv.alen - 1 ELSE s.pv.alen
           len == IF n > room THEN room ELSE n
           cell(j) == CASE j <= len -> Character
                        [] j > len /\ s.pv.type = "fstring" -> Blank
                        [] j = len + 1 /\ s.pv.type = "string" -> NUL
                        [] OTHER -> s.heap[b].cells[j]
           c == [j \in DOMAIN s.heap[b].cells |-> cell(j)]
<1>1. b = s.var[s.pv.varp].block /\ s.pv.varp \in 1 .. Len(s.var)
  BY DEF Points, Register
<1>2. Owns(s.var[s.pv.varp], s.heap)
  BY SMTT(30), <1>1 DEF Held
<1>3. b \in 1 .. Len(s.heap)
  BY <1>1, <1>2 DEF Owns
<1>4. s.heap \in Seq(Blocks) /\ s.pv \in Globals
  BY DEF States
<1>5. s.heap[b] \in Blocks
  BY <1>3, <1>4
<1>6. s.heap[b].cells \in Seq(Int) /\ DOMAIN s.heap[b].cells = 1 .. Len(s.heap[b].cells)
      /\ Len(s.heap[b].cells) \in Nat
  BY SMTT(30), <1>5 DEF Blocks
<1>7. t = [s EXCEPT !.heap[b].cells = c]
  BY SMTT(30) DEF SetText
<1>8. c \in Seq(Int) /\ Len(c) = Len(s.heap[b].cells)
  <2>1. \A j \in 1 .. Len(s.heap[b].cells) : s.heap[b].cells[j] \in Int
    BY <1>6
  <2>2. ASSUME NEW j \in 1 .. Len(s.heap[b].cells) PROVE cell(j) \in Int
    <3>1. s.heap[b].cells[j] \in Int /\ len \in Int /\ j \in Int
      BY <1>4, <1>6, <2>1 DEF Globals
    <3>2. PICK x : x = s.heap[b].cells[j]
      OBVIOUS
    <3>3. PICK k \in Int : k = len
      BY <3>1
    <3>4. cell(j) = CASE j <= k -> Character
                      [] j > k /\ s.pv.type = "fstring" -> Blank
                      [] j = k + 1 /\ s.pv.type = "string" -> NUL
                      [] OTHER -> x
      BY <3>2, <3>3
    <3> HIDE DEF cell, len, b
    <3> QED
      BY <3>1, <3>2, <3>4 DEF Character, Blank, NUL
  <2>3. c = [j \in 1 .. Len(s.heap[b].cells) |-> cell(j)]
    BY SMTT(30), <1>6
  <2> HIDE DEF cell
  <2>4. c \in [1 .. Len(s.heap[b].cells) -> Int]
    BY <2>2, <2>3
  <2> HIDE DEF c
  <2> QED
    BY SMTT(30), <1>6, <2>4
<1> HIDE DEF b, c
<1>9. t.var = s.var /\ t.pv = s.pv /\ t.undefined = s.undefined /\ t.heap = [s.heap EXCEPT ![b].cells = c]
  BY <1>7 DEF States
<1> QED
  BY ZenonT(30), <1>1, <1>3, <1>8, <1>9 DEF Wrote

\* A line leaves every structure its block and every value in its element, as
\* long as it uses no memory that is not its own.
LEMMA ApplyKeeps ==
  ASSUME NEW l \in Lines, NEW s, NEW m, NEW from, from = IF l.var = <<>> THEN cursor ELSE l.ix,
         Ready(s, m, from), Apply(s, l, m, s.pv.varp, Target(s))
  PROVE  undefined' \/ (Memory(var', heap', pv', cursor', meant') /\ Len(var') = Len(s.var))
<1> DEFINE p == s.pv.varp
           args == l.args
<1>1. /\ s \in States /\ ~s.undefined /\ ~s.failed /\ Held(s.var, s.heap) /\ Points(s.pv, s.var)
      /\ Means(m, s.var, s.heap) /\ from \in Int /\ Follows(s.pv, from)
  BY DEF Ready
<1>2. Values(args) /\ l.len \in Nat /\ Len(args) \in Nat
  BY ArgsAre
<1>3. p \in 1 .. Len(s.var) /\ Len(s.var) \in Nat /\ s.pv.type = s.var[p].type /\ s.pv \in Globals
  BY <1>1 DEF Points, States, Held
<1>4. cursor' = from + Len(args) /\ cursor' \in Int
  BY <1>1, <1>2 DEF Apply
<1>5. CASE s.pv.type \in Text
  <2>1. PICK t : t = SetText(s, l.len)
    OBVIOUS
  <2>2. var' = t.var /\ heap' = t.heap /\ pv' = t.pv /\ meant' = m
    BY <1>5, <2>1 DEF Apply
  <2>3. /\ t.var = s.var /\ t.pv = s.pv
        /\ \E c : Wrote(s.heap, s.var[p].block, c, t.heap)
    BY <1>1, <1>2, <1>5, <2>1, SetTextIs
  <2>4. /\ Held(s.var, t.heap)
        /\ \A x \in 1 .. Len(s.heap) : x # s.var[p].block => t.heap[x] = s.heap[x]
    BY SMTT(30), <1>1, <2>3, HeldWrite
  <2>5. \A q \in 1 .. Len(s.var) : q # p => t.heap[s.var[q].block] = s.heap[s.var[q].block]
    BY <1>1, <1>3, <2>4 DEF Held, Owns
  <2>6. Means(m, s.var, t.heap)
    <3>1. IsMeant(m[p], s.var[p], t.heap)
      BY <1>1, <1>3, <1>5 DEF Means, IsMeant
    <3>2. m = [m EXCEPT ![p] = m[p]]
      BY <1>1 DEF Means
    <3>3. Changes(m, s.var, s.heap, p, m[p], m, s.var, t.heap)
      BY <1>1, <1>3, <2>5, <3>1, <3>2 DEF Changes
    <3> QED
      BY <3>3, MeansAt
  <2>7. Memory(s.var, t.heap, s.pv, cursor', m)
    BY <1>3, <1>4, <1>5, <2>4, <2>6 DEF Memory, Continues
  <2> QED
    BY <2>2, <2>3, <2>7
<1>6. CASE s.pv.type \notin Text
  <2>1. PICK t : t = SetNumbers(s, args)
    OBVIOUS
  <2>2. /\ var' = t.var /\ heap' = t.heap /\ pv' = t.pv /\ undefined' = t.undefined
        /\ meant' = Meaning(m, p, Target(s), from, args)
    BY <1>6, <2>1 DEF Apply
  <2>3. Sound(s)
    BY <1>1, <1>6 DEF Sound
  <2>4. t.undefined \/ Fill(s, t, args, Len(args))
    BY <1>1, <1>2, <2>1, <2>3, SetNumbersFill
  <2>5. CASE Fill(s, t, args, Len(args))
    <3>1. Means(meant', t.var, t.heap) /\ Follows(t.pv, cursor')
      BY <1>1, <1>2, <1>4, <2>2, <2>5, MeaningFill
    <3>2. Sound(t) /\ Len(t.var) = Len(s.var)
      BY <2>5 DEF Fill, SameVariable
    <3>3. Memory(t.var, t.heap, t.pv, cursor', meant')
      BY <1>4, <3>1, <3>2 DEF Memory, Continues, Sound, States
    <3> QED
      BY <2>2, <3>2, <3>3
  <2> QED
    BY <2>2, <2>4, <2>5
<1> QED
  BY <1>5, <1>6

\* An index below that of the first element
LEMMA ApplyUndefined ==
  ASSUME NEW l \in Lines, NEW s, Shape(s), s.undefined, NEW m, NEW p, NEW def, Apply(s, l, m, p, def)
  PROVE  undefined'
<1>1. CASE s.pv.type \in Text
  <2>1. undefined' = SetText(s, l.len).undefined
    BY <1>1 DEF Apply
  <2>2. SetText(s, l.len).undefined = s.undefined
    BY DEF SetText, Shape
  <2> QED
    BY <2>1, <2>2
<1>2. CASE s.pv.type \notin Text
  <2>1. PICK t : t = SetNumbers(s, l.args)
    OBVIOUS
  <2>2. undefined' = t.undefined
    BY <1>2, <2>1 DEF Apply
  <2>3. t.undefined \/ Fill(s, t, l.args, Len(l.args))
    BY <2>1, ArgsAre, SetNumbersFill
  <2>4. ~Fill(s, t, l.args, Len(l.args))
    BY DEF Fill, Sound
  <2> QED
    BY <2>2, <2>3, <2>4
<1> QED
  BY <1>1, <1>2

\* The globals after the name of the line
LEMMA NamedIs ==
  ASSUME NEW l \in Lines, l.ix >= 0, pv \in Globals, NEW p \in Nat, NEW d \in Structures,
         NEW g, g = Named(l, p, d)
  PROVE  /\ g \in Globals /\ g.varp = p /\ g.index = l.ix /\ g.type = d.type
         /\ g.dynamic = d.dynamic /\ g.alen = d.size /\ g.ptr[Register(g.type)] = d.block
<1>1. d.type \in Types /\ d.size \in Nat /\ d.dynamic \in BOOLEAN /\ d.block \in Nat
  BY DEF Structures
<1>2. Register(d.type) \in Pointers
  BY <1>1 DEF Register, Pointers, Types, Text
<1>3. PICK q : q = [pv.ptr EXCEPT ![Register(d.type)] = d.block]
  OBVIOUS
<1>4. q \in [Pointers -> Nat] /\ q[Register(d.type)] = d.block
  BY <1>1, <1>2, <1>3 DEF Globals
<1>5. g = [varp |-> p, type |-> d.type, dynamic |-> d.dynamic, alen |-> d.size, index |-> l.ix, ptr |-> q]
  BY <1>3 DEF Named
<1>6. l.ix \in Nat
  BY ArgsAre
<1> QED
  BY <1>1, <1>4, <1>5, <1>6 DEF Globals

(***************************************************************************)
(* Lines that name a variable                                              *)
(***************************************************************************)

\* A line that names a variable which is there
LEMMA NamedLineKeeps ==
  ASSUME RegistryInv, MemoryOK, ~undefined, NEW l \in Lines, ParmLine(l), daVarLookupPWithClass(l.var) # 0
  PROVE  MemoryOK'
<1> DEFINE p == daVarLookupPWithClass(l.var)
           s == [var |-> var, heap |-> heap, pv |-> Named(l, p, var[p]), undefined |-> l.ix < 0, failed |-> FALSE]
<1>1. l.var \in Names /\ l.var # <<>> /\ l.ix \in Int
  BY LinesAssumption, ArgsAre DEF ParmLine
<1>2. Memory(var, heap, pv, cursor, meant) /\ Len(var) = Len(names)
  BY DEF MemoryOK
<1>3. /\ var \in Seq(Structures) /\ heap \in Seq(Blocks) /\ pv \in Globals /\ Len(meant) = Len(var)
      /\ Held(var, heap) /\ Means(meant, var, heap) /\ Len(var) \in Nat
  BY <1>2, MemoryFacts
<1>4. p \in 1 .. Len(var) /\ p \in Nat
  BY <1>1, <1>2, LookupIs
<1>5. var[p] \in Structures
  BY <1>3, <1>4
<1>6. Apply(s, l, meant, p, var[p]) /\ names' = names
  BY DEF ParmLine, registry
<1> HIDE DEF p
<1>7. CASE l.ix < 0
  <2>1. Shape(s) /\ s.undefined
    BY <1>7 DEF Shape
  <2> HIDE DEF s
  <2>2. undefined'
    BY <1>6, <2>1, ApplyUndefined
  <2> QED
    BY <2>2 DEF MemoryOK
<1>8. CASE l.ix >= 0
  <2>1. PICK g : g = Named(l, p, var[p])
    OBVIOUS
  <2>2. /\ g \in Globals /\ g.varp = p /\ g.index = l.ix /\ g.type = var[p].type /\ g.dynamic = var[p].dynamic
        /\ g.alen = var[p].size /\ g.ptr[Register(g.type)] = var[p].block
    BY <1>3, <1>4, <1>5, <1>8, <2>1, NamedIs
  <2>3. s = [var |-> var, heap |-> heap, pv |-> g, undefined |-> FALSE, failed |-> FALSE]
    <3>1. (l.ix < 0) = FALSE
      BY <1>1, <1>8
    <3> QED
      BY <2>1, <3>1
  <2> HIDE DEF s
  <2>4. s \in States /\ s.var = var /\ s.heap = heap /\ s.pv = g /\ ~s.undefined /\ ~s.failed
    BY <1>3, <2>2, <2>3 DEF States
  <2>5. Ready(s, meant, l.ix)
    BY <1>1, <1>3, <1>4, <2>2, <2>4 DEF Ready, Points, Follows
  <2>6. Apply(s, l, meant, s.pv.varp, Target(s))
    BY <1>6, <2>2, <2>4 DEF Target
  <2>7. undefined' \/ (Memory(var', heap', pv', cursor', meant') /\ Len(var') = Len(var))
    BY <1>1, <2>4, <2>5, <2>6, ApplyKeeps
  <2> QED
    BY <1>2, <1>6, <2>7 DEF MemoryOK
<1> QED
  BY <1>1, <1>7, <1>8

\* A line that makes a variable
LEMMA NewLineKeeps ==
  ASSUME RegistryInv, MemoryOK, ~undefined, NEW l \in Lines, ParmLine(l), daVarLookupPWithClass(l.var) = 0
  PROVE  MemoryOK'
<1> DEFINE n == NewName(l.var)
           size == l.ix + Len(l.args)
           fresh == Definition("int", size, TRUE, Len(heap) + 1)
           new == Malloc("int", size)
           s == [var |-> daVarRegister(n, fresh), heap |-> Append(heap, new),
                 pv |-> Named(l, Bound(n), fresh), undefined |-> l.ix < 0, failed |-> FALSE]
<1>1. l.var \in Names /\ l.var # <<>> /\ l.ix \in Int /\ Len(l.args) \in Nat
  BY LinesAssumption, ArgsAre DEF ParmLine
<1>2. Memory(var, heap, pv, cursor, meant) /\ Len(var) = Len(names)
  BY DEF MemoryOK
<1>3. /\ var \in Seq(Structures) /\ heap \in Seq(Blocks) /\ pv \in Globals
      /\ Len(var) \in Nat /\ Len(heap) \in Nat
  BY <1>2, MemoryFacts
<1>4. n \in Names /\ crlHashFind(n) = 0
  BY <1>1, LookupIs
<1>5. Bind(n) /\ Apply(s, l, Append(meant, NoneMeant), Bound(n), fresh)
  BY DEF ParmLine
<1>6. /\ Len(names') = Len(var) + 1 /\ Bound(n) = Len(var) + 1
      /\ \A def : daVarRegister(n, def) = Append(var, def)
  <2> HIDE DEF n
  <2> QED
    BY <1>2, <1>4, <1>5, BindNew
<1> HIDE DEF n
<1>7. CASE l.ix < 0
  <2>1. Shape(s) /\ s.undefined
    BY <1>7 DEF Shape
  <2> HIDE DEF s
  <2>2. undefined'
    BY <1>5, <2>1, ApplyUndefined
  <2> QED
    BY <2>2 DEF MemoryOK
<1>8. CASE l.ix >= 0
  <2>1. size \in Nat
    BY <1>1, <1>8
  <2> HIDE DEF size
  <2>2. "int" \in Types /\ TRUE \in BOOLEAN /\ "int" \notin Text
    BY DEF Types, Text
  <2>3. PICK f, b : f = fresh /\ b = new
    OBVIOUS
  <2>4. PICK w, h, m, p : w = Append(var, f) /\ h = Append(heap, b) /\ m = Append(meant, NoneMeant) /\ p = Len(var) + 1
    OBVIOUS
  <2>5. Creates(var, heap, f, b, w, h)
    BY <2>1, <2>2, <2>3, <2>4 DEF Creates
  <2> HIDE DEF fresh, new
  <2>6. Memory(w, h, pv, cursor, m) /\ Len(w) = p /\ f \in Structures /\ w[p] = f
    BY <1>2, <2>4, <2>5, MemoryNew
  <2>7. w \in Seq(Structures) /\ p \in Nat /\ p \in 1 .. Len(w)
    BY <1>3, <2>4, <2>6 DEF Memory, Held
  <2>8. PICK g : g = Named(l, p, f)
    OBVIOUS
  <2>9. /\ g \in Globals /\ g.varp = p /\ g.index = l.ix /\ g.type = f.type /\ g.dynamic = f.dynamic
        /\ g.alen = f.size /\ g.ptr[Register(g.type)] = f.block
    BY <1>3, <1>8, <2>6, <2>7, <2>8, NamedIs
  <2>10. s = [var |-> w, heap |-> h, pv |-> g, undefined |-> FALSE, failed |-> FALSE]
    <3>1. (l.ix < 0) = FALSE
      BY <1>1, <1>8
    <3> QED
      BY <1>6, <2>3, <2>4, <2>8, <3>1
  <2>11. Apply(s, l, m, p, f)
    BY <1>5, <1>6, <2>3, <2>4
  <2> HIDE DEF s
  <2>12. Held(w, h) /\ Means(m, w, h) /\ h \in Seq(Blocks)
    BY <2>6, MemoryFacts
  <2>13. s \in States /\ s.var = w /\ s.heap = h /\ s.pv = g /\ ~s.undefined /\ ~s.failed
    BY <2>6, <2>7, <2>9, <2>10, <2>12 DEF States
  <2>14. Ready(s, m, l.ix)
    BY <1>1, <2>6, <2>7, <2>9, <2>12, <2>13 DEF Ready, Points, Follows
  <2>15. Apply(s, l, m, s.pv.varp, Target(s))
    BY <2>6, <2>7, <2>9, <2>11, <2>13 DEF Target
  <2>16. undefined' \/ (Memory(var', heap', pv', cursor', meant') /\ Len(var') = Len(w))
    BY <1>1, <2>13, <2>14, <2>15, ApplyKeeps
  <2> QED
    BY <1>6, <2>4, <2>6, <2>16 DEF MemoryOK
<1> QED
  BY <1>1, <1>7, <1>8

\* A line that goes on with an array that was declared anew uses its old block.
LEMMA LostLine ==
  ASSUME NEW s \in States, ~s.undefined, ~s.failed, Lost(s.pv, s.var, s.heap),
         NEW args, Values(args), NEW t, t = SetNumbers(s, args)
  PROVE  t.undefined \/ (args = <<>> /\ t = s)
<1> DEFINE n == Len(args)
           b == s.pv.ptr[Register(s.pv.type)]
<1>1. n \in Nat /\ args \in Seq([kind : {"int", "float", "expr"}, v : Int])
  BY DEF Values
<1>2. PICK f : Filled(f, s, args, n) /\ t = f[n]
  BY <1>1, SetNumbersIs
<1>3. f[0] = s
  BY <1>1, <1>2 DEF Filled
<1>4. CASE n = 0
  BY <1>1, <1>2, <1>3, <1>4
<1>5. CASE n # 0
  <2>1. f[1] = NextArg(s, args[1], n)
    <3>1. 1 \in 0 .. n /\ 1 # 0 /\ 1 - 1 = 0 /\ Len(args) - 1 + 1 = n
      BY <1>1, <1>5
    <3> HIDE DEF n
    <3>2. f[1] = NextArg(f[0], args[1], Len(args) - 1 + 1)
      BY <1>2, <3>1 DEF Filled
    <3> QED
      BY <1>3, <3>1, <3>2
  <2>2. /\ s.pv \in Globals /\ s.pv.dynamic /\ s.pv.type \in {"int", "float", "double"}
        /\ Register(s.pv.type) = s.pv.type /\ s.pv.index \in Nat /\ s.pv.alen \in Nat
        /\ ~Live(s.heap, s.pv.ptr[s.pv.type])
    BY DEF Lost, States, Globals, Register, Types, Text
  <2>3. \A v : Store(s, v) = [s EXCEPT !.undefined = TRUE]
    BY <2>2 DEF Store, Pointed
  <2>4. [s EXCEPT !.undefined = TRUE].undefined = TRUE
    BY DEF States
  <2>5. StoreArg(s, args[1]).undefined
    BY <2>2, <2>3, <2>4 DEF StoreArg
  <2>6. Grow(s, n).undefined
    BY <2>2, <2>4 DEF Grow
  <2>7. f[1].undefined
    BY <2>1, <2>2, <2>5, <2>6 DEF NextArg
  <2> DEFINE S == {i \in 0 .. n : i = 0 \/ f[i].undefined}
  <2>8. 0 \in S
    BY <1>1
  <2>9. \A i \in 0 .. n - 1 : i \in S => i + 1 \in S
    <3> SUFFICES ASSUME NEW i \in 0 .. n - 1, i \in S PROVE i + 1 \in S
      OBVIOUS
    <3>1. CASE i = 0
      BY <1>1, <1>5, <2>7, <3>1
    <3>2. CASE i # 0
      <4>1. i + 1 \in 0 .. n /\ i + 1 # 0 /\ (i + 1) - 1 = i
        BY <1>1
      <4>2. f[i + 1] = NextArg(f[i], args[i + 1], n - (i + 1) + 1)
        <5> HIDE DEF n
        <5> QED
          BY <1>2, <4>1 DEF Filled, n
      <4>3. f[i].undefined
        BY <3>2
      <4>4. f[i + 1] = f[i]
        BY <4>2, <4>3, UndefinedStays
      <4> QED
        BY <4>1, <4>3, <4>4
    <3> QED
      BY <3>1, <3>2
  <2>10. \A i \in 0 .. n : i \in S
    <3> HIDE DEF S
    <3> QED
      BY <1>1, <2>8, <2>9, UpTo
  <2>11. n \in S
    BY <1>1, <2>10
  <2> QED
    BY <1>2, <1>5, <2>11
<1> QED
  BY <1>4, <1>5

(***************************************************************************)
(* Lines without a name, registrations and declarations                    *)
(***************************************************************************)

\* A line that goes on with the variable before
LEMMA ContinuationKeeps ==
  ASSUME MemoryOK, ~undefined, NEW l \in Lines, ContinuationLine(l)
  PROVE  MemoryOK'
<1>1. Memory(var, heap, pv, cursor, meant) /\ Len(var) = Len(names)
  BY DEF MemoryOK
<1>2. /\ var \in Seq(Structures) /\ heap \in Seq(Blocks) /\ pv \in Globals /\ Len(meant) = Len(var)
      /\ Held(var, heap) /\ Means(meant, var, heap) /\ Len(var) \in Nat /\ cursor \in Int
      /\ Continues(pv, cursor, var, heap)
  BY <1>1, MemoryFacts
<1>3. l.var = <<>> /\ names' = names
  BY DEF ContinuationLine, registry
<1>4. CASE pv.varp = 0
  <2>1. UNCHANGED <<var, heap, pv, undefined, meant, cursor>>
    BY <1>4 DEF ContinuationLine
  <2> QED
    BY <1>1, <1>3, <2>1 DEF MemoryOK
<1>5. CASE pv.varp # 0 /\ pv.type \in Text
  <2>1. undefined' = TRUE
    BY <1>5 DEF ContinuationLine
  <2> QED
    BY <2>1 DEF MemoryOK
<1>6. CASE pv.varp # 0 /\ pv.type \notin Text
  <2> DEFINE r == [var |-> var, heap |-> heap, pv |-> pv, undefined |-> FALSE, failed |-> FALSE]
  <2>1. Apply(r, l, meant, pv.varp, var[pv.varp])
    BY <1>6 DEF ContinuationLine
  <2>2. PICK s : s = r
    OBVIOUS
  <2>3. s \in States /\ s.var = var /\ s.heap = heap /\ s.pv = pv /\ ~s.undefined /\ ~s.failed
    BY <1>2, <2>2 DEF States
  <2>4. Apply(s, l, meant, s.pv.varp, Target(s))
    BY <2>1, <2>2, <2>3 DEF Target
  <2> HIDE DEF r
  <2>5. CASE Points(pv, var) /\ Follows(pv, cursor)
    <3>1. Ready(s, meant, cursor)
      BY <1>2, <2>3, <2>5 DEF Ready
    <3>2. undefined' \/ (Memory(var', heap', pv', cursor', meant') /\ Len(var') = Len(var))
      BY <1>3, <2>3, <2>4, <3>1, ApplyKeeps
    <3> QED
      BY <1>1, <1>3, <3>2 DEF MemoryOK
  <2>6. CASE Lost(pv, var, heap)
    <3>1. PICK t : t = SetNumbers(s, l.args)
      OBVIOUS
    <3>2. /\ var' = t.var /\ heap' = t.heap /\ pv' = t.pv /\ undefined' = t.undefined
          /\ meant' = Meaning(meant, pv.varp, Target(s), cursor, l.args) /\ cursor' = cursor + Len(l.args)
      BY <1>3, <1>6, <2>3, <2>4, <3>1 DEF Apply
    <3>3. t.undefined \/ (l.args = <<>> /\ t = s)
      BY <2>3, <2>6, <3>1, ArgsAre, LostLine
    <3>4. CASE t.undefined
      BY <3>2, <3>4 DEF MemoryOK
    <3>5. CASE l.args = <<>> /\ t = s
      <4>1. var' = var /\ heap' = heap /\ pv' = pv /\ Len(l.args) = 0 /\ cursor' = cursor
        BY <1>2, <2>3, <3>2, <3>5
      <4>2. Means(meant', var, heap)
        <5>1. pv.varp \in 1 .. Len(var) /\ Target(s) \in Structures
          BY <1>2, <2>3, <2>6 DEF Lost, Target
        <5> DEFINE room == IF Target(s).dynamic THEN 0 ELSE Target(s).size - cursor
                   n == IF room < 0 THEN room ELSE 0
                   value(a) == IF Target(s).type = "int" /\ ~Target(s).dynamic THEN floatToLong(a.v) ELSE a.v
                   over == [j \in cursor .. cursor + n - 1 |-> value(l.args[j - cursor + 1])]
        <5>2. n \in Int /\ n <= 0
          BY <1>2, <5>1 DEF Structures
        <5>3. meant' = [meant EXCEPT ![pv.varp] = Over(over, meant[pv.varp])]
          BY <3>2, <4>1 DEF Meaning
        <5> HIDE DEF n
        <5>4. DOMAIN over = {}
          BY <1>2, <5>2
        <5> HIDE DEF over
        <5>5. \A j \in DOMAIN meant[pv.varp] : Over(over, meant[pv.varp])[j] = meant[pv.varp][j]
          BY <5>4 DEF Over
        <5>6. Changes(meant, var, heap, pv.varp, Over(over, meant[pv.varp]), meant', var, heap)
          <6>1. IsMeant(meant[pv.varp], var[pv.varp], heap)
            BY <1>2, <5>1 DEF Means
          <6>2. DOMAIN Over(over, meant[pv.varp]) = DOMAIN meant[pv.varp]
            BY <5>4 DEF Over
          <6>3. IsMeant(Over(over, meant[pv.varp]), var[pv.varp], heap)
            BY <5>5, <6>1, <6>2 DEF IsMeant
          <6> QED
            BY <1>2, <5>1, <5>3, <6>3 DEF Changes
        <5> QED
          BY <5>6, MeansAt
      <4> QED
        BY <1>1, <1>2, <1>3, <4>1, <4>2 DEF MemoryOK, Memory
    <3> QED
      BY <3>3, <3>4, <3>5
  <2> QED
    BY <1>2, <1>6, <2>5, <2>6 DEF Continues
<1> QED
  BY <1>4, <1>5, <1>6

\* A variable of the program's own is registered before any line is read.
LEMMA RegvarKeeps ==
  ASSUME RegistryInv, MemoryOK, ~undefined, pv.varp = 0, NEW r \in Registrations, regvar(r)
  PROVE  MemoryOK'
<1> DEFINE n == r.name
           d == Definition(r.type, r.size, FALSE, Len(heap) + 1)
           new == Malloc(r.type, r.size)
<1>1. n \in Names /\ r.type \in Types /\ r.size \in Nat
  BY SizesAssumption
<1>2. Memory(var, heap, pv, cursor, meant) /\ Len(var) = Len(names)
  BY DEF MemoryOK
<1>3. /\ var \in Seq(Structures) /\ heap \in Seq(Blocks) /\ pv \in Globals /\ Len(meant) = Len(var)
      /\ Held(var, heap) /\ Means(meant, var, heap) /\ Len(var) \in Nat /\ cursor \in Int /\ Len(heap) \in Nat
  BY <1>2, MemoryFacts
<1>4. /\ Bind(n) /\ var' = daVarRegister(n, d) /\ heap' = Append(heap, new)
      /\ meant' = (IF Bound(n) <= Len(meant) THEN [meant EXCEPT ![Bound(n)] = NoneMeant] ELSE Append(meant, NoneMeant))
      /\ pv' = pv /\ undefined' = undefined /\ cursor' = cursor
  BY DEF regvar
<1>5. PICK e, b : e = d /\ b = new
  OBVIOUS
<1> HIDE DEF d, new, n
<1>6. CASE crlHashFind(n) = 0
  <2>1. Len(names') = Len(var) + 1 /\ Bound(n) = Len(var) + 1 /\ var' = Append(var, e)
    BY <1>1, <1>2, <1>4, <1>5, <1>6, BindNew
  <2>2. Creates(var, heap, e, b, var', heap')
    BY <1>1, <1>4, <1>5, <2>1 DEF Creates, d, new
  <2>3. meant' = Append(meant, NoneMeant)
    BY <1>3, <1>4, <2>1
  <2>4. Memory(var', heap', pv, cursor, Append(meant, NoneMeant)) /\ Len(var') = Len(var) + 1
    BY <1>2, <2>2, MemoryNew
  <2> QED
    BY <1>4, <2>1, <2>3, <2>4 DEF MemoryOK
<1>7. CASE crlHashFind(n) # 0
  <2>1. PICK p : p = crlHashFind(n)
    OBVIOUS
  <2>2. p \in 1 .. Len(var)
    BY <1>1, <1>2, <1>7, <2>1, FoundIs
  <2>3. /\ names' = names /\ Bound(n) = p /\ var' = [var EXCEPT ![p] = e]
        /\ meant' = [meant EXCEPT ![p] = NoneMeant]
    BY <1>3, <1>4, <1>5, <1>7, <2>1, <2>2 DEF Bind, Bound, daVarRegister
  <2>4. /\ e \in Structures /\ e.block = Len(heap) + 1 /\ e.type = r.type /\ e.size = Len(b.cells)
        /\ b \in Blocks /\ b.live /\ b.type = r.type
    <3>1. Len(heap) + 1 \in Nat
      BY <1>3
    <3>2. PICK dynamic \in BOOLEAN : dynamic = FALSE
      OBVIOUS
    <3>3. e = Definition(r.type, r.size, dynamic, Len(heap) + 1) /\ b = Malloc(r.type, r.size)
      BY <1>5, <3>2 DEF d, new
    <3> QED
      BY <1>1, <3>1, <3>3, DefinitionIs
  <2>5. b \in Blocks
    BY <2>4
  <2>6. /\ heap' \in Seq(Blocks) /\ Len(heap') = Len(heap) + 1 /\ heap'[Len(heap) + 1] = b
        /\ \A x \in 1 .. Len(heap) : heap'[x] = heap[x]
    BY <1>3, <1>4, <1>5, <2>5, AppendIs
  <2>7. Owns(e, heap')
    <3>1. Len(b.cells) \in Nat
      BY <2>5 DEF Blocks
    <3> QED
      BY <1>3, <2>4, <2>6, <3>1 DEF Owns
  <2>8. Moves(var, heap, p, e, var', heap')
    BY <1>3, <2>2, <2>3, <2>4, <2>6, <2>7 DEF Moves
  <2>9. IsMeant(NoneMeant, e, heap')
    BY DEF IsMeant, NoneMeant
  <2>10. Held(var', heap') /\ Len(var') = Len(var) /\ Means(meant', var', heap')
    <3>1. MovesMeant(var, heap, meant, p, e, NoneMeant, var', heap', meant')
      BY <1>3, <2>3, <2>8, <2>9 DEF MovesMeant
    <3> QED
      BY <3>1, MemoryMove
  <2>11. Continues(pv', cursor', var', heap')
    BY <1>3, <1>4 DEF Continues
  <2> QED
    BY <1>2, <2>3, <2>10, <2>11 DEF MemoryOK, Memory
<1> QED
  BY <1>6, <1>7

\* A line that declares a variable
LEMMA DeclareKeeps ==
  ASSUME RegistryInv, MemoryOK, ~undefined, NEW d \in Declarations, Declare(d), UNCHANGED <<pv, cursor>>
  PROVE  MemoryOK'
<1> DEFINE p == daVarLookupPWithClass(d.name)
           old == var[p]
<1>1. d.name \in Names /\ d.type \in Types /\ d.size \in Nat
  BY SizesAssumption
<1>2. Memory(var, heap, pv, cursor, meant) /\ Len(var) = Len(names) /\ pv' = pv /\ cursor' = cursor
  BY DEF MemoryOK
<1>3. /\ var \in Seq(Structures) /\ heap \in Seq(Blocks) /\ pv \in Globals /\ Len(meant) = Len(var)
      /\ Held(var, heap) /\ Means(meant, var, heap) /\ Len(var) \in Nat /\ cursor \in Int /\ Len(heap) \in Nat
      /\ Continues(pv, cursor, var, heap)
  BY <1>2, MemoryFacts
<1>4. p \in 0 .. Len(var)
  BY <1>1, <1>2, LookupIs
<1>5. CASE p = 0
  <2> DEFINE n == NewName(d.name)
             fresh == Definition(d.type, d.size, TRUE, Len(heap) + 1)
             new == Malloc(d.type, d.size)
  <2>1. n \in Names /\ crlHashFind(n) = 0
    BY <1>1, <1>5, LookupIs
  <2>2. /\ Bind(n) /\ var' = daVarRegister(n, fresh) /\ heap' = Append(heap, new)
        /\ meant' = Append(meant, NoneMeant)
    BY <1>5 DEF Declare
  <2>3. PICK e, b : e = fresh /\ b = new
    OBVIOUS
  <2> HIDE DEF n, fresh, new
  <2>4. Len(names') = Len(var) + 1 /\ var' = Append(var, e)
    BY <1>2, <2>1, <2>2, <2>3, BindNew
  <2>5. Creates(var, heap, e, b, var', heap')
    BY <1>1, <2>2, <2>3, <2>4 DEF Creates, fresh, new
  <2>6. Memory(var', heap', pv, cursor, Append(meant, NoneMeant)) /\ Len(var') = Len(var) + 1
    BY <1>2, <2>5, MemoryNew
  <2> QED
    BY <1>2, <2>2, <2>4, <2>6 DEF MemoryOK
<1> DEFINE same == old.type = d.type /\ old.size = d.size
<1>6. CASE p # 0 /\ (same \/ ~old.dynamic)
  <2>1. UNCHANGED <<names, var, heap, meant, undefined>>
    BY <1>6 DEF Declare, registry
  <2> QED
    BY <1>2, <2>1 DEF MemoryOK
<1>7. CASE p # 0 /\ ~same /\ old.dynamic
  <2> DEFINE kept == [j \in {i \in DOMAIN meant[p] : i < d.size} |-> meant[p][j]]
             f == IF old.type # d.type THEN NoneMeant ELSE kept
             cells == IF old.type = d.type THEN Kept(heap, old.block, d.size, d.size)
                      ELSE Malloc(d.type, d.size).cells
             b == Len(heap) + 1
             new == [type |-> d.type, cells |-> cells, live |-> TRUE]
             e == [old EXCEPT !.type = d.type, !.size = d.size, !.block = b]
  <2>1. /\ var' = [var EXCEPT ![p].type = d.type, ![p].size = d.size, ![p].block = b]
        /\ heap' = Append(Free(heap, old.block), new)
        /\ meant' = [meant EXCEPT ![p] = f]
        /\ names' = names
    BY <1>7 DEF Declare, registry
  <2>2. p \in 1 .. Len(var) /\ old \in Structures /\ Owns(old, heap)
    BY <1>3, <1>4, <1>7 DEF Held
  <2>3. old.block \in 1 .. Len(heap) /\ heap[old.block] \in Blocks
    BY <1>3, <2>2 DEF Owns
  <2>4. var' = [var EXCEPT ![p] = e]
    BY <1>3, <2>1, <2>2
  <2>5. b \in Nat /\ b > Len(heap)
    BY <1>3
  <2>6. PICK x : x = e
    OBVIOUS
  <2>7. /\ x \in Structures /\ x.type = d.type /\ x.size = d.size /\ x.block = b
        /\ var' = [var EXCEPT ![p] = x]
    <3> HIDE DEF b, old
    <3> QED
      BY <1>1, <2>2, <2>4, <2>5, <2>6 DEF Structures
  <2> HIDE DEF e
  <2>8. /\ cells \in Seq(Int) /\ Len(cells) \in Nat /\ d.size <= Len(cells)
        /\ old.type = d.type =>
             \A j \in 1 .. d.size : j <= Len(heap[old.block].cells) => cells[j] = heap[old.block].cells[j]
    <3>1. CASE old.type = d.type
      <4>1. PICK c : c = heap[old.block].cells
        OBVIOUS
      <4>2. c \in Seq(Int) /\ Len(c) \in Nat
        BY <2>3, <4>1 DEF Blocks
      <4>3. cells = [j \in 1 .. d.size |-> IF j <= d.size /\ j <= Len(c) THEN c[j] ELSE Garbage]
        BY <3>1, <4>1 DEF Kept
      <4> HIDE DEF cells
      <4>4. \A j \in 1 .. d.size : cells[j] \in Int
        BY <1>1, <4>2, <4>3 DEF Garbage
      <4>5. cells \in Seq(Int) /\ Len(cells) = d.size
        <5>1. cells = [j \in 1 .. d.size |-> cells[j]]
          BY <4>3
        <5>2. cells \in [1 .. d.size -> Int]
          BY <4>4, <5>1
        <5> QED
          BY <1>1, <5>2
      <4>6. \A j \in 1 .. d.size : j <= Len(c) => cells[j] = c[j]
        BY <1>1, <4>2, <4>3
      <4> QED
        BY <1>1, <4>1, <4>5, <4>6
    <3>2. CASE old.type # d.type
      <4>1. cells = Malloc(d.type, d.size).cells
        BY <3>2
      <4>2. Malloc(d.type, d.size) \in Blocks /\ Len(Malloc(d.type, d.size).cells) = IF d.size = 0 THEN 1 ELSE d.size
        BY <1>1, MallocIs
      <4> HIDE DEF cells
      <4> QED
        BY <1>1, <3>2, <4>1, <4>2 DEF Blocks
    <3> QED
      BY <3>1, <3>2
  <2> HIDE DEF cells
  <2>9. new \in Blocks /\ new.live = TRUE /\ new.type = d.type /\ new.cells = cells
    BY <1>1, <2>8 DEF Blocks
  <2>10. /\ Free(heap, old.block) \in Seq(Blocks) /\ Len(Free(heap, old.block)) = Len(heap)
         /\ \A y \in 1 .. Len(heap) : y # old.block => Free(heap, old.block)[y] = heap[y]
         /\ Free(heap, old.block)[old.block].live = FALSE
    <3> DEFINE gone == [heap[old.block] EXCEPT !.live = FALSE]
    <3>1. gone \in Blocks /\ gone.live = FALSE
      BY <2>3 DEF Blocks
    <3>2. Free(heap, old.block) = [heap EXCEPT ![old.block] = gone]
      BY <1>3 DEF Free
    <3> HIDE DEF gone, old
    <3> QED
      BY <1>3, <2>3, <3>1, <3>2
  <2>11. PICK nb : nb = new
    OBVIOUS
  <2> HIDE DEF new
  <2>12. /\ heap' \in Seq(Blocks) /\ Len(heap') = Len(heap) + 1 /\ heap'[b] = nb
         /\ \A y \in 1 .. Len(heap) : y # old.block => heap'[y] = heap[y]
         /\ heap'[old.block].live = FALSE
    <3>1. /\ heap' \in Seq(Blocks) /\ Len(heap') = Len(heap) + 1 /\ heap'[Len(heap) + 1] = nb
          /\ \A y \in 1 .. Len(heap) : heap'[y] = Free(heap, old.block)[y]
      BY <1>3, <2>1, <2>9, <2>10, <2>11, AppendIs
    <3> HIDE DEF old
    <3> QED
      BY SMTT(30), <1>3, <2>3, <2>10, <3>1
  <2> HIDE DEF old, p
  <2>13. Owns(x, heap')
    <3> HIDE DEF b
    <3> QED
      BY <1>1, <2>5, <2>7, <2>8, <2>9, <2>11, <2>12 DEF Owns, b
  <2>14. Moves(var, heap, p, x, var', heap')
    <3>1. Len(heap') >= Len(heap) /\ x.block > Len(heap)
      BY <1>3, <2>7, <2>12
    <3> QED
      BY <1>3, <2>2, <2>7, <2>12, <2>13, <3>1 DEF Moves, old
  <2>15. IsMeant(f, x, heap')
    <3>1. CASE old.type # d.type
      BY <3>1 DEF IsMeant, NoneMeant
    <3>2. CASE old.type = d.type
      <4>1. IsMeant(meant[p], old, heap) /\ old.size <= Len(heap[old.block].cells) /\ old.size \in Nat
        BY <1>3, <2>2 DEF Means, Owns, Structures, old
      <4>2. Len(heap[old.block].cells) \in Nat
        BY <2>3 DEF Blocks
      <4>3. f = kept /\ DOMAIN kept = {i \in DOMAIN meant[p] : i < d.size}
            /\ \A j \in DOMAIN kept : kept[j] = meant[p][j]
        BY <3>2
      <4> HIDE DEF kept, f
      <4>4. ASSUME NEW j \in DOMAIN kept
            PROVE  j \in 0 .. d.size - 1 /\ cells[j + 1] = kept[j]
        <5>1. j \in DOMAIN meant[p] /\ j < d.size /\ kept[j] = meant[p][j]
          BY <4>3
        <5>2. j \in 0 .. old.size - 1 /\ heap[old.block].cells[j + 1] = meant[p][j]
          BY <4>1, <5>1 DEF IsMeant
        <5>3. j + 1 \in 1 .. d.size /\ j + 1 <= Len(heap[old.block].cells) /\ j \in 0 .. d.size - 1
          BY <1>1, <4>1, <4>2, <5>1, <5>2
        <5>4. cells[j + 1] = heap[old.block].cells[j + 1]
          BY <2>8, <3>2, <5>3
        <5> QED
          BY <5>1, <5>2, <5>3, <5>4
      <4>5. heap'[x.block].cells = cells
        BY <2>7, <2>9, <2>11, <2>12
      <4>6. x.type \in Text => DOMAIN kept = {}
        BY <2>7, <3>2, <4>1, <4>3 DEF IsMeant
      <4> QED
        BY <2>7, <4>3, <4>4, <4>5, <4>6 DEF IsMeant
    <3> QED
      BY <3>1, <3>2
  <2> HIDE DEF f
  <2>16. Held(var', heap') /\ Len(var') = Len(var) /\ Means(meant', var', heap')
    <3>1. MovesMeant(var, heap, meant, p, x, f, var', heap', meant')
      BY <1>3, <2>1, <2>14, <2>15 DEF MovesMeant
    <3> QED
      BY <3>1, MemoryMove
  <2>17. \A q \in 1 .. Len(var) : q # p => var'[q] = var[q]
    BY <1>3, <2>7
  <2>18. Continues(pv, cursor, var', heap')
    <3>1. CASE Points(pv, var) /\ Follows(pv, cursor) /\ pv.varp # p
      <4>1. Points(pv, var')
        BY <2>16, <2>17, <3>1 DEF Points
      <4> QED
        BY <1>3, <3>1, <4>1 DEF Continues
    <3>2. CASE Points(pv, var) /\ pv.varp = p /\ pv.type \notin Text
      <4>1. pv.dynamic /\ pv.ptr[Register(pv.type)] = old.block /\ pv.varp \in 1 .. Len(var)
        BY <1>7, <3>2 DEF Points, old
      <4>2. Lost(pv, var', heap')
        BY <1>3, <2>3, <2>12, <2>16, <3>2, <4>1 DEF Lost, Live
      <4> QED
        BY <1>3, <4>2 DEF Continues
    <3>3. CASE Lost(pv, var, heap)
      <4>1. PICK y : y = pv.ptr[Register(pv.type)]
        OBVIOUS
      <4>2. y \in 0 .. Len(heap) /\ ~Live(heap, y)
        BY <3>3, <4>1 DEF Lost
      <4>3. y \in 0 .. Len(heap') /\ ~Live(heap', y)
        BY <1>3, <2>12, <4>2 DEF Live
      <4>4. Lost(pv, var', heap')
        BY <2>16, <3>3, <4>1, <4>3 DEF Lost
      <4> QED
        BY <1>3, <4>4 DEF Continues
    <3>4. CASE pv.varp = 0 \/ pv.type \in Text
      BY <1>3, <3>4 DEF Continues
    <3> QED
      BY <1>3, <3>1, <3>2, <3>3, <3>4 DEF Continues
  <2> QED
    BY <1>2, <2>1, <2>16, <2>18 DEF MemoryOK, Memory
<1> QED
  BY <1>3, <1>4, <1>5, <1>6, <1>7

(***************************************************************************)
(* What a path of a client addresses                                       *)
(***************************************************************************)

\* The numbers of components of a path that are the name of a variable
Found(path) == {n \in 1 .. Len(path) : Registered(Prefix(path, n))}

\* The variable with the longest name that a path begins with is the one that
\* the search for the attribute comes to.
LEMMA AddressedIs ==
  ASSUME NEW path \in Seq(STRING)
  PROVE  /\ daVarClassFind(path) = 0 => Addressed(path) = 0
         /\ daVarClassFind(path) # 0 =>
              /\ daVarAttributeFind(path, daVarClassFind(path)) = Addressed(path)
              /\ Addressed(path) \in Found(path)
<1> DEFINE F == Found(path)
           L == Len(path)
           c == daVarClassFind(path)
<1>1. F \in SUBSET (0 .. L) /\ L \in Nat /\ \A n \in F : n \in 1 .. L
  BY DEF Found
<1>2. Addressed(path) = IF F = {} THEN 0 ELSE CHOOSE n \in F : \A m \in F : m <= n
  BY DEF Addressed, Found
<1>3. c = IF F = {} THEN 0 ELSE CHOOSE n \in F : \A m \in F : n <= m
  BY DEF daVarClassFind, Found
<1>4. CASE F = {}
  BY <1>2, <1>3, <1>4
<1>5. CASE F # {}
  <2>1. PICK a \in F : \A m \in F : m <= a
    <3> HIDE DEF F, L
    <3> QED
      BY <1>1, <1>5, GreatestOf
  <2>2. F \in SUBSET Nat
    BY <1>1
  <2>3. PICK e \in F : \A m \in F : e <= m
    <3> HIDE DEF F
    <3> QED
      BY <1>5, <2>2, LeastOf
  <2> HIDE DEF F, L, c
  <2>4. a \in 1 .. L /\ e \in 1 .. L
    BY <1>1, <2>1, <2>3
  <2>5. c = e
    <3>1. (CHOOSE n \in F : \A m \in F : n <= m) \in F
          /\ \A k \in F : (CHOOSE n \in F : \A m \in F : n <= m) <= k
      BY <2>3
    <3> QED
      <4>1. PICK k : k = CHOOSE n \in F : \A m \in F : n <= m
        OBVIOUS
      <4>2. k \in F /\ k <= e
        BY <2>3, <3>1, <4>1
      <4>3. k \in 1 .. L /\ e <= k
        BY <1>1, <2>3, <4>2
      <4>4. k = e
        BY <2>4, <4>2, <4>3
      <4> QED
        BY <1>3, <1>5, <4>1, <4>4 DEF c
  <2>6. Addressed(path) = a
    <3>1. (CHOOSE n \in F : \A m \in F : m <= n) \in F
          /\ \A k \in F : k <= (CHOOSE n \in F : \A m \in F : m <= n)
      BY <2>1
    <3> QED
      <4>1. PICK k : k = CHOOSE n \in F : \A m \in F : m <= n
        OBVIOUS
      <4>2. k \in F /\ a <= k
        BY <2>1, <3>1, <4>1
      <4>3. k \in 1 .. L /\ k <= a
        BY <1>1, <2>1, <4>2
      <4>4. k = a
        BY <2>4, <4>2, <4>3
      <4> QED
        BY <1>2, <1>5, <4>1, <4>4
  <2>7. daVarAttributeFind(path, e) = a
    <3>1. CASE Registered(path)
      <4>1. daVarAttributeFind(path, e) = L
        BY <3>1 DEF daVarAttributeFind, L
      <4>2. Prefix(path, L) = path
        BY DEF Prefix, L
      <4>3. L \in F
        BY <1>1, <2>4, <3>1, <4>2 DEF F, Found, L
      <4> QED
        BY <1>1, <2>1, <2>4, <4>1, <4>3
    <3>2. CASE ~Registered(path)
      <4> DEFINE G == {n \in e + 1 .. L - 1 : Registered(Prefix(path, n))}
      <4>1. daVarAttributeFind(path, e) = IF G = {} THEN e ELSE CHOOSE n \in G : \A m \in G : m <= n
        BY <3>2 DEF daVarAttributeFind, L
      <4>2. Prefix(path, L) = path
        BY DEF Prefix, L
      <4>3. L \notin F
        BY <3>2, <4>2 DEF F, Found, L
      <4>4. \A n \in F : n = e \/ n \in G
        <5> TAKE n \in F
        <5>1. n \in 1 .. L /\ n # L /\ e <= n /\ Registered(Prefix(path, n))
          BY <1>1, <2>3, <4>3 DEF F, Found
        <5>2. n = e \/ n \in e + 1 .. L - 1
          BY <1>1, <2>4, <5>1
        <5> QED
          BY <5>1, <5>2
      <4>5. \A n \in G : n \in F /\ n > e
        <5> TAKE n \in G
        <5>1. n \in e + 1 .. L - 1 /\ Registered(Prefix(path, n))
          OBVIOUS
        <5>2. n \in 1 .. L /\ n > e
          BY <1>1, <2>4, <5>1
        <5> QED
          BY <5>1, <5>2 DEF F, Found, L
      <4> HIDE DEF G
      <4>6. CASE G = {}
        BY <2>1, <4>1, <4>4, <4>6
      <4>7. CASE G # {}
        <5>1. a \in G /\ \A m \in G : m <= a
          <6>1. PICK n \in G : n > e
            BY <4>5, <4>7
          <6>2. n \in F
            BY <4>5, <6>1
          <6>3. n <= a /\ n \in Int
            BY <1>1, <2>1, <6>2
          <6>4. a # e
            BY <2>4, <6>1, <6>3
          <6> QED
            BY <2>1, <4>4, <4>5, <6>4
        <5>2. (CHOOSE n \in G : \A m \in G : m <= n) \in G
              /\ \A k \in G : k <= (CHOOSE n \in G : \A m \in G : m <= n)
          BY <5>1
        <5>3. PICK k : k = CHOOSE n \in G : \A m \in G : m <= n
          OBVIOUS
        <5>4. k \in G /\ a <= k
          BY <5>1, <5>2, <5>3
        <5>5. k <= a /\ k \in F
          BY <4>5, <5>1, <5>4
        <5>6. k \in 1 .. L
          BY <1>1, <5>5
        <5>7. k = a
          BY <2>4, <5>4, <5>5, <5>6
        <5> QED
          BY <4>1, <4>7, <5>3, <5>7
      <4> QED
        BY <4>6, <4>7
    <3> QED
      BY <3>1, <3>2
  <2> QED
    BY <2>1, <2>4, <2>5, <2>6, <2>7 DEF F, c
<1> QED
  BY <1>4, <1>5

\* The cells c of the variable p with the values from the index on
Written(p, ix, kind, values, c) ==
  /\ c \in Seq(Int) /\ Len(c) = Len(heap[var[p].block].cells)
  /\ var[p].type \notin Text =>
       \A j \in 0 .. Len(heap[var[p].block].cells) - 1 :
         c[j + 1] = IF j \in First(ix) .. First(ix) + Len(values) - 1
                      THEN Convert(var[p].type, kind, values[j - First(ix) + 1])
                      ELSE heap[var[p].block].cells[j + 1]

\* They are what daVarRegWatr leaves.
LEMMA WatrIs ==
  ASSUME NEW p, NEW ix \in Int, First(ix) >= 0, NEW kind, NEW values \in Seq(Int),
         heap[var[p].block] \in Blocks
  PROVE  Written(p, ix, kind, values, daVarRegWatr(p, ix, kind, values))
<1> DEFINE d == var[p]
           cells == heap[d.block].cells
           at == First(ix)
           n == Len(values)
           written(j) == IF j - at \in 1 .. n THEN Convert(d.type, kind, values[j - at])
                         ELSE CASE d.type = "fstring" /\ j > at + n /\ j <= d.size -> Blank
                                [] d.type = "string" /\ j = at + n + 1 -> NUL
                                [] OTHER -> cells[j]
           N == Len(cells)
<1>1. cells \in Seq(Int) /\ N \in Nat /\ DOMAIN cells = 1 .. N
  BY DEF Blocks
<1>2. daVarRegWatr(p, ix, kind, values) = [j \in 1 .. N |-> written(j)]
  BY <1>1 DEF daVarRegWatr
<1>3. at \in Nat /\ n \in Nat
  BY DEF First
<1>4. \A v \in Int : Convert(d.type, kind, v) \in Int
  BY DEF Convert, floatToLong
<1> HIDE DEF at, n, N, cells, d
<1>5. ASSUME NEW j \in 1 .. N PROVE written(j) \in Int
  <2>1. CASE j - at \in 1 .. n
    <3>1. values[j - at] \in Int
      BY <2>1 DEF n
    <3>2. written(j) = Convert(d.type, kind, values[j - at])
      BY <2>1
    <3> QED
      BY <1>4, <3>1, <3>2
  <2>2. CASE j - at \notin 1 .. n
    <3>1. PICK x \in Int : x = cells[j]
      BY <1>1
    <3>2. written(j) = CASE d.type = "fstring" /\ j > at + n /\ j <= d.size -> Blank
                         [] d.type = "string" /\ j = at + n + 1 -> NUL
                         [] OTHER -> x
      BY <2>2, <3>1
    <3> HIDE DEF written
    <3> QED
      BY <3>2 DEF Blank, NUL
  <2> QED
    BY <2>1, <2>2
<1>6. ASSUME d.type \notin Text, NEW j \in 0 .. N - 1
      PROVE  written(j + 1) = IF j \in at .. at + n - 1 THEN Convert(d.type, kind, values[j - at + 1]) ELSE cells[j + 1]
  <2>1. d.type # "fstring" /\ d.type # "string"
    BY <1>6 DEF Text
  <2>2. CASE j \in at .. at + n - 1
    <3>1. (j + 1) - at \in 1 .. n /\ (j + 1) - at = j - at + 1
      BY <1>1, <1>3, <2>2
    <3> QED
      BY <2>2, <3>1
  <2>3. CASE j \notin at .. at + n - 1
    <3>1. (j + 1) - at \notin 1 .. n
      BY <1>1, <1>3, <2>3
    <3> QED
      BY <2>1, <2>3, <3>1
  <2> QED
    BY <2>2, <2>3
<1> HIDE DEF written
<1>7. [j \in 1 .. N |-> written(j)] \in [1 .. N -> Int]
  BY <1>5
<1>8. daVarRegWatr(p, ix, kind, values) \in Seq(Int) /\ Len(daVarRegWatr(p, ix, kind, values)) = N
  BY <1>1, <1>2, <1>7
<1>9. ASSUME d.type \notin Text, NEW j \in 0 .. N - 1
      PROVE  daVarRegWatr(p, ix, kind, values)[j + 1] = written(j + 1)
  <2>1. j + 1 \in 1 .. N
    BY <1>1
  <2> QED
    BY <1>2, <2>1
<1> QED
  BY <1>6, <1>8, <1>9 DEF N, cells, d, at, n, Written

(***************************************************************************)
(* What a client writes                                                    *)
(***************************************************************************)

\* The variable that a path begins with
LEMMA FoundVariable ==
  ASSUME RegistryInv, NEW path \in Seq(STRING), NEW n \in Found(path)
  PROVE  crlHashFind(Prefix(path, n)) \in 1 .. Len(names) /\ n > 0
<1>1. Registered(Prefix(path, n)) /\ n \in 1 .. Len(path)
  BY DEF Found
<1>2. Prefix(path, n) \in Names /\ crlHashFind(Prefix(path, n)) # 0
  BY <1>1 DEF Registered
<1>3. crlHashFind(Prefix(path, n)) \in 0 .. Len(names) /\ Len(names) \in Nat
  BY <1>2, FoundIs
<1> QED
  BY <1>1, <1>2, <1>3

\* What a client writes into the variable p
Writing(w, p, n) ==
  /\ heap' = [heap EXCEPT ![var[p].block].cells = daVarRegWatr(p, w.ix, w.kind, w.values)]
  /\ undefined' = (First(w.ix) < 0)
  /\ Takes(p, Attribute(w.path, n), w.ix, w.kind, w.values)
  /\ n = Addressed(w.path) /\ n > 0 /\ p = crlHashFind(Prefix(w.path, n))
  /\ meant' = WriteMeaning(w)
  /\ UNCHANGED <<registry, var, pv, cursor>>

\* It is in the elements it was written to, and nothing else has changed.
LEMMA WritingKeeps ==
  ASSUME RegistryInv, MemoryOK, ~undefined, NEW w \in Writes, NEW n, NEW p \in 1 .. Len(names),
         Writing(w, p, n)
  PROVE  MemoryOK'
<1> DEFINE d == var[p]
           c == daVarRegWatr(p, w.ix, w.kind, w.values)
           at == First(w.ix)
           N == Len(w.values)
<1>1. w.path \in Seq(STRING) /\ w.ix \in Int /\ w.values \in Seq(Int) /\ N \in Nat
  BY WritesAssumption
<1>2. Memory(var, heap, pv, cursor, meant) /\ Len(var) = Len(names)
  BY DEF MemoryOK
<1>3. /\ var \in Seq(Structures) /\ heap \in Seq(Blocks) /\ pv \in Globals /\ Len(meant) = Len(var)
      /\ Held(var, heap) /\ Means(meant, var, heap) /\ Len(var) \in Nat /\ cursor \in Int /\ Len(heap) \in Nat
      /\ Continues(pv, cursor, var, heap)
  BY <1>2, MemoryFacts
<1>4. p \in 1 .. Len(var) /\ d \in Structures /\ Owns(d, heap) /\ heap[d.block] \in Blocks
  BY <1>2, <1>3 DEF Held, Owns
<1>5. var' = var /\ pv' = pv /\ cursor' = cursor /\ names' = names
  BY DEF Writing, registry
<1>6. at \in Int /\ undefined' = (at < 0)
  BY <1>1 DEF Writing, First
<1>7. CASE at < 0
  BY <1>6, <1>7 DEF MemoryOK
<1>8. CASE at >= 0
  <2>1. First(w.ix) >= 0 /\ heap[var[p].block] \in Blocks
    BY <1>4, <1>8
  <2> HIDE DEF d, at, N, c
  <2>2. /\ c \in Seq(Int) /\ Len(c) = Len(heap[d.block].cells)
        /\ d.type \notin Text =>
             \A j \in 0 .. Len(heap[d.block].cells) - 1 :
               c[j + 1] = IF j \in at .. at + N - 1 THEN Convert(d.type, w.kind, w.values[j - at + 1])
                          ELSE heap[d.block].cells[j + 1]
    <3>1. Written(p, w.ix, w.kind, w.values, c)
      BY <1>1, <2>1, WatrIs DEF c
    <3> QED
      BY <3>1 DEF Written, d, at, N
  <2>3. Wrote(heap, d.block, c, heap')
    BY <1>4, <2>2 DEF Wrote, Writing, Owns, c, d
  <2>4. /\ Held(var, heap') /\ Len(heap') = Len(heap) /\ heap'[d.block].cells = c
        /\ \A x \in 1 .. Len(heap) : x # d.block => heap'[x] = heap[x]
        /\ \A x \in 1 .. Len(heap) : heap'[x].live = heap[x].live /\ heap'[x].type = heap[x].type
    BY <1>3, <2>3, HeldWrite
  <2>5. Continues(pv', cursor', var', heap')
    <3>1. Lost(pv, var, heap) => Lost(pv, var, heap')
      BY <1>3, <2>4 DEF Lost, Live
    <3> QED
      BY <1>3, <1>5, <3>1 DEF Continues
  <2>6. \A q \in 1 .. Len(var) : q # p => heap'[var[q].block] = heap[var[q].block]
    <3>1. \A q \in 1 .. Len(var) : q # p => var[q].block # d.block /\ var[q].block \in 1 .. Len(heap)
      BY <1>3, <1>4 DEF Held, Owns, d
    <3> QED
      BY <2>4, <3>1
  <2>7. /\ IsValue(Attribute(w.path, n)) /\ (w.kind = "text") = (d.type \in Text)
        /\ (d.type \notin Text => at + N \in 0 .. d.size)
    <3>1. N + at <= d.size /\ (N + at >= 0 \/ d.type = "fstring")
      BY DEF Writing, Takes, Fits, d, at, N
    <3>2. d.size \in Nat /\ (d.type \notin Text => d.type # "fstring")
      BY <1>4 DEF Structures, Text
    <3>3. d.type \notin Text => at + N \in 0 .. d.size
      BY <1>1, <1>6, <3>1, <3>2
    <3> QED
      BY <3>3 DEF Writing, Takes, d
  <2>8. IsMeant(meant[p], d, heap)
    BY <1>3, <1>4 DEF Means, d
  <2>9. Means(meant', var, heap')
    <3>1. CASE d.type \in Text
      <4>1. meant' = meant
        BY <2>7, <3>1 DEF Writing, WriteMeaning
      <4>2. IsMeant(meant[p], d, heap')
        BY <2>8, <3>1 DEF IsMeant
      <4>3. Means(meant, var, heap')
        <5>1. ASSUME NEW q \in 1 .. Len(var) PROVE IsMeant(meant[q], var[q], heap')
          <6>1. CASE q = p
            BY <4>2, <6>1 DEF d
          <6>2. CASE q # p
            <7>1. IsMeant(meant[q], var[q], heap) /\ heap'[var[q].block] = heap[var[q].block]
              BY <1>3, <2>6, <6>2 DEF Means
            <7> QED
              BY <7>1 DEF IsMeant
          <6> QED
            BY <6>1, <6>2
        <5> QED
          BY <1>3, <5>1 DEF Means
      <4> QED
        BY <4>1, <4>3
    <3>2. CASE d.type \notin Text
      <4> DEFINE v(j) == Convert(d.type, w.kind, w.values[j - at + 1])
                 over == [j \in at .. at + N - 1 |-> v(j)]
                 f == Over(over, meant[p])
      <4>1. meant' = [meant EXCEPT ![p] = f]
        BY <2>7, <3>2 DEF Writing, WriteMeaning, d, at, N
      <4>2. DOMAIN over = at .. at + N - 1 /\ \A j \in at .. at + N - 1 : over[j] = v(j)
        OBVIOUS
      <4>3. IsMeant(f, d, heap')
        <5>1. /\ DOMAIN f = DOMAIN over \cup DOMAIN meant[p]
              /\ \A j \in DOMAIN f : f[j] = IF j \in DOMAIN over THEN over[j] ELSE meant[p][j]
          BY DEF Over
        <5>2. d.size \in Nat /\ Len(heap[d.block].cells) \in Nat /\ d.size <= Len(heap[d.block].cells)
          BY <1>4 DEF Structures, Blocks, Owns
        <5> HIDE DEF f, over, v
        <5> SUFFICES ASSUME NEW j \in DOMAIN f PROVE j \in 0 .. d.size - 1 /\ c[j + 1] = f[j]
          BY <2>4, <3>2 DEF IsMeant
        <5>3. CASE j \in DOMAIN over
          <6>1. j \in at .. at + N - 1 /\ f[j] = v(j)
            BY <4>2, <5>1, <5>3
          <6>2. j \in 0 .. d.size - 1 /\ j \in 0 .. Len(heap[d.block].cells) - 1
            <7>1. at + N \in Int /\ at + N <= d.size
              BY <1>1, <1>6, <2>7, <3>2, <5>2 DEF N
            <7>2. at <= j /\ j < at + N /\ j \in Int
              BY <1>1, <1>6, <6>1 DEF N
            <7>3. 0 <= j /\ j < d.size
              BY <1>6, <1>8, <5>2, <7>1, <7>2
            <7> QED
              BY <5>2, <7>2, <7>3
          <6> QED
            BY <2>2, <3>2, <6>1, <6>2 DEF v
        <5>4. CASE j \notin DOMAIN over
          <6>1. j \in DOMAIN meant[p] /\ f[j] = meant[p][j] /\ j \notin at .. at + N - 1
            BY <4>2, <5>1, <5>4
          <6>2. j \in 0 .. d.size - 1 /\ heap[d.block].cells[j + 1] = meant[p][j]
            BY <2>8, <6>1 DEF IsMeant
          <6>3. j \in 0 .. Len(heap[d.block].cells) - 1
            BY SMTT(30), <5>2, <6>2
          <6> QED
            BY <2>2, <3>2, <6>1, <6>2, <6>3
        <5> QED
          BY <5>3, <5>4
      <4> HIDE DEF f
      <4>4. Changes(meant, var, heap, p, f, meant', var, heap')
        BY <1>3, <1>4, <2>6, <4>1, <4>3 DEF Changes, d
      <4> QED
        BY SMTT(30), <4>4, MeansAt
    <3> QED
      BY <3>1, <3>2
  <2> QED
    BY <1>2, <1>5, <2>4, <2>5, <2>9 DEF MemoryOK, Memory
<1> QED
  BY <1>6, <1>7, <1>8

\* A client writes.
LEMMA WriteKeeps ==
  ASSUME RegistryInv, MemoryOK, ~undefined, daVarWriteVar
  PROVE  MemoryOK'
<1>1. UNCHANGED <<registry, var, pv, cursor>>
  BY SMTT(30) DEF daVarWriteVar
<1>2. PICK w \in Writes :
        LET class == daVarClassFind(w.path)
            n == daVarAttributeFind(w.path, class)
            p == crlHashFind(Prefix(w.path, n))
        IN /\ IF class # 0 /\ Takes(p, Attribute(w.path, n), w.ix, w.kind, w.values)
                THEN /\ heap' = [heap EXCEPT ![var[p].block].cells = daVarRegWatr(p, w.ix, w.kind, w.values)]
                     /\ undefined' = (First(w.ix) < 0)
                ELSE UNCHANGED <<heap, undefined>>
           /\ meant' = WriteMeaning(w)
  BY DEF daVarWriteVar
<1> DEFINE class == daVarClassFind(w.path)
           n == daVarAttributeFind(w.path, class)
           p == crlHashFind(Prefix(w.path, n))
<1>3. w.path \in Seq(STRING)
  BY WritesAssumption
<1>4. class = 0 => Addressed(w.path) = 0
  BY <1>3, AddressedIs
<1>5. class # 0 => n = Addressed(w.path) /\ n \in Found(w.path)
  BY <1>3, AddressedIs
<1>6. /\ IF class # 0 /\ Takes(p, Attribute(w.path, n), w.ix, w.kind, w.values)
           THEN /\ heap' = [heap EXCEPT ![var[p].block].cells = daVarRegWatr(p, w.ix, w.kind, w.values)]
                /\ undefined' = (First(w.ix) < 0)
           ELSE heap' = heap /\ undefined' = undefined
      /\ meant' = WriteMeaning(w)
  BY <1>2
<1> HIDE DEF class, n
<1>7. class # 0 => p \in 1 .. Len(names) /\ n > 0
  BY <1>3, <1>5, FoundVariable
<1>8. CASE class # 0 /\ Takes(p, Attribute(w.path, n), w.ix, w.kind, w.values)
  <2>1. Writing(w, p, n)
    BY <1>1, <1>5, <1>6, <1>7, <1>8 DEF Writing
  <2> HIDE DEF p
  <2> QED
    BY <1>7, <1>8, <2>1, WritingKeeps
<1>9. CASE class # 0 /\ ~Takes(p, Attribute(w.path, n), w.ix, w.kind, w.values)
  <2>1. meant' = meant
    <3>1. ~(/\ IsValue(Attribute(w.path, n)) /\ w.kind # "text" /\ var[p].type \notin Text
            /\ First(w.ix) + Len(w.values) \in 0 .. var[p].size)
      <4>1. SUFFICES ASSUME IsValue(Attribute(w.path, n)), w.kind # "text", var[p].type \notin Text,
                            First(w.ix) + Len(w.values) \in 0 .. var[p].size
                     PROVE  FALSE
        OBVIOUS
      <4>2. w.ix \in Int /\ Len(w.values) \in Nat
        BY WritesAssumption
      <4>3. var[p].size \in Nat
        <5>1. var \in Seq(Structures) /\ p \in 1 .. Len(var)
          BY <1>7, <1>9, MemoryFacts DEF MemoryOK
        <5> QED
          <6> HIDE DEF p
          <6>1. var[p] \in Structures
            BY <5>1, ElementIs
          <6> QED
            BY <6>1 DEF Structures
      <4>4. Fits(p, w.ix, Len(w.values))
        BY <4>1, <4>2, <4>3 DEF Fits, First
      <4> QED
        BY <1>9, <4>1, <4>4 DEF Takes
    <3> QED
      BY <1>5, <1>6, <1>9, <3>1 DEF WriteMeaning
  <2>2. heap' = heap /\ undefined' = undefined
    BY <1>6, <1>9
  <2> QED
    BY <1>1, <2>1, <2>2 DEF MemoryOK, registry
<1>10. CASE class = 0
  <2>1. meant' = meant
    BY <1>4, <1>6, <1>10 DEF WriteMeaning
  <2>2. heap' = heap /\ undefined' = undefined
    BY <1>6, <1>10
  <2> QED
    BY <1>1, <2>1, <2>2 DEF MemoryOK, registry
<1> QED
  BY <1>8, <1>9, <1>10

(***************************************************************************)
(* The theorem                                                             *)
(***************************************************************************)

\* Nothing is registered at first.
LEMMA MemoryFirst == Init => MemoryInv
<1> SUFFICES ASSUME Init PROVE MemoryInv
  OBVIOUS
<1>1. chains = [h \in Slots |-> <<>>] /\ names = <<>>
  BY DEF Init, Slots
<1>2. RegistryInv
  <2>1. <<>> \in Seq(Names) /\ Len(<<>>) = 0 /\ <<>> \in Seq(1 .. 0)
    OBVIOUS
  <2> QED
    BY <1>1, <2>1 DEF RegistryInv, Table
<1>3. /\ var = <<>> /\ heap = <<>> /\ meant = <<>> /\ cursor = 0 /\ lines = 0 /\ pv.varp = 0
      /\ pv = [varp |-> 0, type |-> "int", dynamic |-> FALSE, alen |-> 0, index |-> 0,
               ptr |-> [t \in {"int", "float", "double", "text"} |-> 0]]
  BY DEF Init
<1>4. Held(<<>>, <<>>)
  BY DEF Held
<1>5. Means(<<>>, <<>>, <<>>)
  <2>1. Len(<<>>) = 0 /\ <<>> = [p \in 1 .. 0 |-> <<>>[p]]
    OBVIOUS
  <2> QED
    BY <2>1 DEF Means
<1>6. pv \in Globals
  BY <1>3 DEF Globals, Pointers, Types
<1>7. Continues(pv, cursor, var, heap)
  BY <1>3, <1>6 DEF Continues
<1> QED
  BY <1>1, <1>2, <1>3, <1>4, <1>5, <1>7 DEF MemoryInv, MemoryOK, Memory

\* No operation disturbs it.
LEMMA MemoryKept == MemoryInv /\ [Next]_vars => MemoryInv'
<1> SUFFICES ASSUME MemoryInv, [Next]_vars PROVE MemoryInv'
  OBVIOUS
<1>1. RegistryInv /\ MemoryOK /\ lines \in Nat /\ (lines = 0 => pv.varp = 0)
  BY DEF MemoryInv
<1>2. RegistryInv'
  <2>1. UNCHANGED registry \/ \E n \in Names : Bind(n)
    BY OnlyBind
  <2>2. CASE UNCHANGED registry
    BY <1>1, <2>2 DEF registry, RegistryInv
  <2>3. CASE \E n \in Names : Bind(n)
    BY <1>1, <2>3, BindStep
  <2> QED
    BY <2>1, <2>2, <2>3
<1>3. CASE \E r \in Registrations : regvar(r)
  <2>1. PICK r \in Registrations : regvar(r)
    BY <1>3
  <2>2. lines = 0 /\ lines' = lines /\ pv' = pv /\ undefined' = undefined
    BY <2>1 DEF regvar
  <2>3. MemoryOK'
    <3>1. CASE undefined
      BY <2>2, <3>1 DEF MemoryOK
    <3>2. CASE ~undefined
      BY <1>1, <2>1, <2>2, <3>2, RegvarKeeps
    <3> QED
      BY <3>1, <3>2
  <2> QED
    BY <1>1, <1>2, <2>2, <2>3 DEF MemoryInv
<1>4. CASE thParmLineSet
  <2>1. ~undefined /\ lines' = lines + 1
    BY <1>4 DEF thParmLineSet
  <2>2. PICK l \in Lines : ParmLine(l) \/ ContinuationLine(l) \/ NumberLine(l)
    BY <1>4 DEF thParmLineSet
  <2>3. MemoryOK'
    <3>1. CASE ParmLine(l) /\ daVarLookupPWithClass(l.var) # 0
      BY <1>1, <2>1, <3>1, NamedLineKeeps
    <3>2. CASE ParmLine(l) /\ daVarLookupPWithClass(l.var) = 0
      BY <1>1, <2>1, <3>2, NewLineKeeps
    <3>3. CASE ContinuationLine(l)
      BY <1>1, <2>1, <3>3, ContinuationKeeps
    <3>4. CASE NumberLine(l)
      BY <1>1, <3>4 DEF NumberLine, registry, MemoryOK
    <3> QED
      BY <2>2, <3>1, <3>2, <3>3, <3>4
  <2> QED
    BY <1>1, <1>2, <2>1, <2>3 DEF MemoryInv
<1>5. CASE thSpecial
  <2>1. ~undefined /\ lines' = lines + 1 /\ UNCHANGED <<pv, cursor>>
    BY <1>5 DEF thSpecial
  <2>2. PICK d \in Declarations : Declare(d)
    BY <1>5 DEF thSpecial
  <2>3. MemoryOK'
    BY <1>1, <2>1, <2>2, DeclareKeeps
  <2> QED
    BY <1>1, <1>2, <2>1, <2>3 DEF MemoryInv
<1>6. CASE Request
  <2>1. ~undefined /\ lines' = lines /\ pv' = pv
    BY <1>6 DEF Request, daVarReadVar, daVarWriteVar, daVarList
  <2>2. MemoryOK'
    <3>1. CASE daVarWriteVar
      BY <1>1, <2>1, <3>1, WriteKeeps
    <3>2. CASE daVarReadVar \/ daVarList
      BY <1>1, <3>2 DEF daVarReadVar, daVarList, registry, MemoryOK
    <3> QED
      BY <1>6, <3>1, <3>2 DEF Request
  <2> QED
    BY SMTT(30), <1>1, <1>2, <2>1, <2>2 DEF MemoryInv
<1>7. CASE UNCHANGED vars
  BY <1>1, <1>2, <1>7 DEF vars, registry, counts, MemoryOK, MemoryInv
<1> QED
  BY <1>3, <1>4, <1>5, <1>6, <1>7 DEF Next

\* It has what was given in its place.
LEMMA MemoryKeepsValues == MemoryInv => ValuesKept
<1> SUFFICES ASSUME MemoryInv, ~undefined
             PROVE  /\ \A p \in DOMAIN var :
                         /\ Live(heap, var[p].block)
                         /\ heap[var[p].block].type = var[p].type
                         /\ Len(heap[var[p].block].cells) >= var[p].size
                         /\ \A q \in DOMAIN var : q # p => var[q].block # var[p].block
                    /\ \A p \in DOMAIN meant : \A j \in DOMAIN meant[p] :
                         j < var[p].size /\ heap[var[p].block].cells[j + 1] = meant[p][j]
  BY DEF ValuesKept, RegisteredIsLive
<1>1. Memory(var, heap, pv, cursor, meant)
  BY DEF MemoryInv, MemoryOK
<1>2. /\ var \in Seq(Structures) /\ heap \in Seq(Blocks) /\ Len(var) \in Nat /\ Len(heap) \in Nat
      /\ DOMAIN meant = 1 .. Len(var) /\ Len(meant) = Len(var) /\ Held(var, heap) /\ Means(meant, var, heap)
  BY <1>1, MemoryFacts
<1>3. DOMAIN var = 1 .. Len(var)
  BY <1>2
<1>4. ASSUME NEW p \in 1 .. Len(var)
      PROVE  /\ Live(heap, var[p].block)
             /\ heap[var[p].block].type = var[p].type
             /\ Len(heap[var[p].block].cells) >= var[p].size
             /\ \A q \in 1 .. Len(var) : q # p => var[q].block # var[p].block
  <2>1. Owns(var[p], heap) /\ \A q \in 1 .. Len(var) : q # p => var[q].block # var[p].block
    BY <1>2 DEF Held
  <2>2. var[p] \in Structures /\ heap[var[p].block] \in Blocks
    BY <1>2, <2>1, ElementIs DEF Owns
  <2>3. Len(heap[var[p].block].cells) \in Nat /\ var[p].size \in Nat
    BY <2>2 DEF Blocks, Structures
  <2> QED
    BY <1>2, <2>1, <2>3 DEF Owns, Live
<1>5. ASSUME NEW p \in 1 .. Len(var), NEW j \in DOMAIN meant[p]
      PROVE  j < var[p].size /\ heap[var[p].block].cells[j + 1] = meant[p][j]
  <2>1. j \in 0 .. var[p].size - 1 /\ heap[var[p].block].cells[j + 1] = meant[p][j]
    BY <1>2, <1>5 DEF Means, IsMeant
  <2>2. var[p].size \in Nat
    <3>1. var[p] \in Structures
      BY <1>2, ElementIs
    <3> QED
      BY <3>1 DEF Structures
  <2> QED
    BY <2>1, <2>2
<1> QED
  BY <1>2, <1>3, <1>4, <1>5

\* Whatever the names, the lines and the requests: each registered variable has a
\* live block of its own that holds its elements, and each value that a line or a
\* client has given is there until it is given another or declared anew
\* (thParmLineSet, thVarCreate, daVarRegWatr).
THEOREM ValuesAreKept == Spec => []ValuesKept
  BY MemoryFirst, MemoryKept, MemoryKeepsValues, PTL DEF Spec

(***************************************************************************)
(* The walk through the hash table                                         *)
(***************************************************************************)

\* h is what ChainWalk works out, up to the entry m.
ChainSteps(h, list, pattern, chain, m) ==
  h = [i \in 0 .. m |-> IF i = 0 THEN list ELSE daVarList_node(h[i - 1], pattern, chain[i])]

\* There is one for an entry more.
LEMMA ChainStepsNext ==
  ASSUME NEW list, NEW pattern, NEW chain, Len(chain) \in Nat,
         NEW m \in 0 .. Len(chain) - 1, \E h : ChainSteps(h, list, pattern, chain, m)
  PROVE  \E h : ChainSteps(h, list, pattern, chain, m + 1)
<1>1. PICK g : ChainSteps(g, list, pattern, chain, m)
  OBVIOUS
<1> DEFINE h == [i \in 0 .. m + 1 |-> IF i = m + 1 THEN daVarList_node(g[m], pattern, chain[m + 1]) ELSE g[i]]
<1>2. \A i \in 0 .. m + 1 : h[i] = IF i = 0 THEN list ELSE daVarList_node(h[i - 1], pattern, chain[i])
  <2> SUFFICES ASSUME NEW i \in 0 .. m + 1
               PROVE  h[i] = IF i = 0 THEN list ELSE daVarList_node(h[i - 1], pattern, chain[i])
    OBVIOUS
  <2>1. CASE i = m + 1
    <3>1. h[i] = daVarList_node(g[m], pattern, chain[m + 1]) /\ h[m] = g[m] /\ i - 1 = m /\ i # 0
      BY <2>1
    <3> QED
      BY <2>1, <3>1
  <2>2. CASE i # m + 1
    <3>1. i \in 0 .. m /\ h[i] = g[i]
      BY <2>2
    <3>2. g[i] = IF i = 0 THEN list ELSE daVarList_node(g[i - 1], pattern, chain[i])
      BY <1>1, <3>1 DEF ChainSteps
    <3>3. i # 0 => h[i - 1] = g[i - 1]
      BY <3>1
    <3> QED
      BY <3>1, <3>2, <3>3
  <2> QED
    BY <2>1, <2>2
<1>3. ChainSteps(h, list, pattern, chain, m + 1)
  BY <1>2 DEF ChainSteps
<1> HIDE DEF h
<1> QED
  BY <1>3

\* ChainWalk takes them one by one.
LEMMA ChainStepsIs ==
  ASSUME NEW list, NEW pattern, NEW chain, Len(chain) \in Nat
  PROVE  \E h : ChainSteps(h, list, pattern, chain, Len(chain)) /\ ChainWalk(list, pattern, chain) = h[Len(chain)]
<1> DEFINE n == Len(chain)
           S == {m \in 0 .. n : \E h : ChainSteps(h, list, pattern, chain, m)}
<1>1. 0 \in S
  <2>1. ChainSteps([i \in 0 .. 0 |-> list], list, pattern, chain, 0)
    BY DEF ChainSteps
  <2>2. 0 \in 0 .. n /\ \E h : ChainSteps(h, list, pattern, chain, 0)
    BY <2>1
  <2> QED
    BY <2>2
<1>2. \A m \in 0 .. n - 1 : m \in S => m + 1 \in S
  <2> SUFFICES ASSUME NEW m \in 0 .. n - 1, m \in S PROVE m + 1 \in S
    OBVIOUS
  <2>1. \E h : ChainSteps(h, list, pattern, chain, m + 1)
    BY ChainStepsNext
  <2> QED
    BY <2>1
<1>3. n \in S
  <2>1. \A i \in 0 .. n : i \in S
    <3> HIDE DEF S
    <3> QED
      BY <1>1, <1>2, UpTo
  <2> QED
    BY <2>1
<1>4. \E h : ChainSteps(h, list, pattern, chain, n)
  BY <1>3
<1>5. ChainSteps(CHOOSE h : ChainSteps(h, list, pattern, chain, n), list, pattern, chain, n)
  BY <1>4
<1>6. ChainWalk(list, pattern, chain) = (CHOOSE h : ChainSteps(h, list, pattern, chain, n))[n]
  BY DEF ChainWalk, ChainSteps
<1> QED
  BY <1>5, <1>6

\* h is what crlHashWalk works out, up to the chain m.
WalkSteps(h, pattern, m) ==
  h = [i \in 0 .. m |-> IF i = 0 THEN <<>> ELSE ChainWalk(h[i - 1], pattern, chains[(i) - 1])]

\* There is one for a chain more.
LEMMA WalkStepsNext ==
  ASSUME NEW pattern, SIZE \in Nat, NEW m \in 0 .. SIZE - 1, \E h : WalkSteps(h, pattern, m)
  PROVE  \E h : WalkSteps(h, pattern, m + 1)
<1>1. PICK g : WalkSteps(g, pattern, m)
  OBVIOUS
<1> DEFINE h == [i \in 0 .. m + 1 |-> IF i = m + 1 THEN ChainWalk(g[m], pattern, chains[(m + 1) - 1]) ELSE g[i]]
<1>2. \A i \in 0 .. m + 1 : h[i] = IF i = 0 THEN <<>> ELSE ChainWalk(h[i - 1], pattern, chains[(i) - 1])
  <2> SUFFICES ASSUME NEW i \in 0 .. m + 1
               PROVE  h[i] = IF i = 0 THEN <<>> ELSE ChainWalk(h[i - 1], pattern, chains[(i) - 1])
    OBVIOUS
  <2>1. CASE i = m + 1
    <3>1. h[i] = ChainWalk(g[m], pattern, chains[(m + 1) - 1]) /\ h[m] = g[m] /\ i - 1 = m /\ i # 0
      BY <2>1
    <3> QED
      BY <2>1, <3>1
  <2>2. CASE i # m + 1
    <3>1. i \in 0 .. m /\ h[i] = g[i]
      BY <2>2
    <3>2. g[i] = IF i = 0 THEN <<>> ELSE ChainWalk(g[i - 1], pattern, chains[(i) - 1])
      BY <1>1, <3>1 DEF WalkSteps
    <3>3. i # 0 => h[i - 1] = g[i - 1]
      BY <3>1
    <3> QED
      BY <3>1, <3>2, <3>3
  <2> QED
    BY <2>1, <2>2
<1>3. WalkSteps(h, pattern, m + 1)
  BY <1>2 DEF WalkSteps
<1> HIDE DEF h
<1> QED
  BY <1>3

\* crlHashWalk takes them one by one.
LEMMA WalkStepsIs ==
  ASSUME NEW pattern, SIZE \in Nat
  PROVE  \E h : WalkSteps(h, pattern, SIZE) /\ crlHashWalk(pattern) = h[SIZE]
<1> DEFINE n == SIZE
           S == {m \in 0 .. n : \E h : WalkSteps(h, pattern, m)}
<1>1. 0 \in S
  <2>1. WalkSteps([i \in 0 .. 0 |-> <<>>], pattern, 0)
    BY DEF WalkSteps
  <2>2. 0 \in 0 .. n /\ \E h : WalkSteps(h, pattern, 0)
    BY <2>1
  <2> QED
    BY <2>2
<1>2. \A m \in 0 .. n - 1 : m \in S => m + 1 \in S
  <2> SUFFICES ASSUME NEW m \in 0 .. n - 1, m \in S PROVE m + 1 \in S
    OBVIOUS
  <2>1. \E h : WalkSteps(h, pattern, m + 1)
    BY WalkStepsNext
  <2> QED
    BY <2>1
<1>3. n \in S
  <2>1. \A i \in 0 .. n : i \in S
    <3> HIDE DEF S
    <3> QED
      BY <1>1, <1>2, UpTo
  <2> QED
    BY <2>1
<1>4. \E h : WalkSteps(h, pattern, n)
  BY <1>3
<1>5. WalkSteps(CHOOSE h : WalkSteps(h, pattern, n), pattern, n)
  BY <1>4
<1>6. crlHashWalk(pattern) = (CHOOSE h : WalkSteps(h, pattern, n))[n]
  BY DEF crlHashWalk, WalkSteps
<1> QED
  BY <1>5, <1>6

(***************************************************************************)
(* The list of the names that match                                        *)
(***************************************************************************)

\* f has each member of Z once, and nothing else.
Each(f, Z) ==
  /\ f \in Seq(Nat)
  /\ \A i \in 1 .. Len(f) : f[i] \in Z
  /\ \A i, j \in 1 .. Len(f) : f[i] = f[j] => i = j
  /\ \A x \in Z : \E i \in 1 .. Len(f) : f[i] = x

\* So one more can be added at the end.
LEMMA EachMore ==
  ASSUME NEW f, NEW Z, Each(f, Z), NEW x \in Nat, x \notin Z
  PROVE  Each(Append(f, x), Z \cup {x})
<1>1. f \in Seq(Nat) /\ Len(f) \in Nat
  BY DEF Each
<1>2. PICK g : g = Append(f, x)
  OBVIOUS
<1>3. /\ g \in Seq(Nat) /\ Len(g) = Len(f) + 1 /\ g[Len(f) + 1] = x
      /\ \A i \in 1 .. Len(f) : g[i] = f[i]
  BY <1>1, <1>2, AppendIs
<1>4. \A i \in 1 .. Len(g) : i \in 1 .. Len(f) \/ i = Len(f) + 1
  BY <1>1, <1>3
<1>5. \A i \in 1 .. Len(f) : i \in 1 .. Len(g) /\ Len(f) + 1 \in 1 .. Len(g)
  BY <1>1, <1>3
<1>6. Len(f) + 1 \in 1 .. Len(g)
  BY <1>1, <1>3
<1>7. \A i \in 1 .. Len(g) : g[i] \in Z \cup {x}
  BY <1>3, <1>4 DEF Each
<1>8. \A i, j \in 1 .. Len(g) : g[i] = g[j] => i = j
  <2> SUFFICES ASSUME NEW i \in 1 .. Len(g), NEW j \in 1 .. Len(g), g[i] = g[j] PROVE i = j
    OBVIOUS
  <2>1. CASE i \in 1 .. Len(f) /\ j \in 1 .. Len(f)
    BY <1>3, <2>1 DEF Each
  <2>2. CASE i \in 1 .. Len(f) /\ j = Len(f) + 1
    BY <1>3, <2>2 DEF Each
  <2>3. CASE i = Len(f) + 1 /\ j \in 1 .. Len(f)
    BY <1>3, <2>3 DEF Each
  <2>4. CASE i = Len(f) + 1 /\ j = Len(f) + 1
    BY <2>4
  <2> QED
    BY <1>4, <2>1, <2>2, <2>3, <2>4
<1>9. \A y \in Z \cup {x} : \E i \in 1 .. Len(g) : g[i] = y
  <2> SUFFICES ASSUME NEW y \in Z \cup {x} PROVE \E i \in 1 .. Len(g) : g[i] = y
    OBVIOUS
  <2>1. CASE y = x
    BY <1>3, <1>6, <2>1
  <2>2. CASE y \in Z
    <3>1. PICK i \in 1 .. Len(f) : f[i] = y
      BY <2>2 DEF Each
    <3> QED
      BY <1>3, <1>5, <3>1
  <2> QED
    BY <2>1, <2>2
<1> QED
  BY <1>2, <1>3, <1>7, <1>8, <1>9 DEF Each

\* Every structure is in the chain of its name, and in no other.
Placed(c, nm) ==
  /\ \A h \in Slots : \A i \in 1 .. Len(c[h]) : hashFunction(nm[c[h][i]]) = h
  /\ \A p \in 1 .. Len(nm) : \E i \in 1 .. Len(c[hashFunction(nm[p])]) : c[hashFunction(nm[p])][i] = p

\* So it is when one is added.
LEMMA PlacedMore ==
  ASSUME NEW c, NEW nm, Table(c, nm), Placed(c, nm), NEW n \in Names,
         NEW d, NEW e, Added(c, nm, n, d, e)
  PROVE  Placed(d, e)
<1> DEFINE h == hashFunction(n)
           q == Len(nm) + 1
<1>1. h \in Slots /\ nm \in Seq(Names) /\ Len(nm) \in Nat /\ c \in [Slots -> Seq(1 .. Len(nm))]
  BY HashSlot DEF Table
<1>2. /\ Len(e) = q /\ e[q] = n
      /\ \A p \in 1 .. Len(nm) : e[p] = nm[p]
  BY <1>1 DEF Added
<1>3. /\ Len(d[h]) = Len(c[h]) + 1 /\ d[h][1] = q
      /\ \A j \in 1 .. Len(c[h]) : d[h][j + 1] = c[h][j]
  <2>1. d[h] = <<q>> \o c[h] /\ c[h] \in Seq(1 .. Len(nm))
    BY <1>1 DEF Added
  <2> QED
    BY <2>1
<1>4. \A x \in Slots : x # h => d[x] = c[x]
  BY <1>1 DEF Added
<1>5. \A x \in Slots : c[x] \in Seq(1 .. Len(nm)) /\ Len(c[x]) \in Nat
                       /\ \A i \in 1 .. Len(c[x]) : c[x][i] \in 1 .. Len(nm)
  BY <1>1
<1>6. \A x \in Slots : \A i \in 1 .. Len(c[x]) : hashFunction(e[c[x][i]]) = x
  BY <1>2, <1>5 DEF Placed
<1> HIDE DEF h, q
<1>7. ASSUME NEW x \in Slots, NEW i \in 1 .. Len(d[x]) PROVE hashFunction(e[d[x][i]]) = x
  <2>1. CASE x # h
    BY <1>4, <1>6, <1>7, <2>1
  <2>2. CASE x = h /\ i = 1
    BY <1>2, <1>3, <2>2 DEF h
  <2>3. CASE x = h /\ i # 1
    <3>1. i - 1 \in 1 .. Len(c[h]) /\ (i - 1) + 1 = i
      BY <1>1, <1>3, <1>5, <1>7, <2>3
    <3>2. d[h][i] = c[h][i - 1]
      BY <1>3, <3>1
    <3> QED
      BY <1>1, <1>6, <2>3, <3>1, <3>2
  <2> QED
    BY <2>1, <2>2, <2>3
<1>8. ASSUME NEW p \in 1 .. Len(e)
      PROVE  \E i \in 1 .. Len(d[hashFunction(e[p])]) : d[hashFunction(e[p])][i] = p
  <2>1. CASE p = q
    <3>1. hashFunction(e[p]) = h /\ 1 \in 1 .. Len(d[h])
      BY <1>1, <1>2, <1>3, <1>5, <2>1 DEF h
    <3> QED
      BY <1>3, <2>1, <3>1
  <2>2. CASE p # q
    <3>1. p \in 1 .. Len(nm) /\ e[p] = nm[p]
      BY <1>1, <1>2, <1>8, <2>2 DEF q
    <3> DEFINE x == hashFunction(nm[p])
    <3>2. x \in Slots
      <4>1. nm[p] \in Names
        BY <1>1, <3>1
      <4> QED
        BY <4>1, HashSlot
    <3>3. PICK i \in 1 .. Len(c[x]) : c[x][i] = p
      BY <3>1 DEF Placed
    <3> HIDE DEF x
    <3>4. CASE x = h
      <4>1. i + 1 \in 1 .. Len(d[h]) /\ d[h][i + 1] = p
        BY <1>1, <1>3, <1>5, <3>3, <3>4
      <4> QED
        BY <3>1, <3>4, <4>1 DEF x
    <3>5. CASE x # h
      <4>1. d[x] = c[x]
        BY <1>4, <3>2, <3>5
      <4> QED
        BY <3>1, <3>3, <4>1 DEF x
    <3> QED
      BY <3>4, <3>5
  <2> QED
    BY <2>1, <2>2
<1> QED
  BY <1>7, <1>8 DEF Placed

\* The structures that match in the chains before the chain h,
Below(pattern, h) == {p \in 1 .. Len(names) : hashFunction(names[p]) < h /\ Matches(pattern, names[p])}

\* and those in its first j entries
Among(pattern, h, j) ==
  Below(pattern, h) \cup {p \in 1 .. Len(names) : Matches(pattern, names[p]) /\ \E i \in 1 .. j : chains[h][i] = p}

\* What is known of a chain
LEMMA ChainIs ==
  ASSUME RegistryInv, Placed(chains, names), NEW h \in Slots
  PROVE  /\ names \in Seq(Names) /\ Len(names) \in Nat /\ chains[h] \in Seq(1 .. Len(names)) /\ Len(chains[h]) \in Nat
         /\ \A i \in 1 .. Len(chains[h]) : chains[h][i] \in 1 .. Len(names) /\ hashFunction(names[chains[h][i]]) = h
         /\ \A i, j \in 1 .. Len(chains[h]) : chains[h][i] = chains[h][j] => i = j
<1>1. /\ names \in Seq(Names) /\ Len(names) \in Nat /\ chains \in [Slots -> Seq(1 .. Len(names))]
      /\ \A i, j \in 1 .. Len(chains[h]) : Same(names[chains[h][i]], names[chains[h][j]]) => i = j
  BY DEF RegistryInv, Table
<1>2. chains[h] \in Seq(1 .. Len(names)) /\ Len(chains[h]) \in Nat
  BY <1>1
<1>3. \A i \in 1 .. Len(chains[h]) : chains[h][i] \in 1 .. Len(names)
  BY <1>2
<1> QED
  BY <1>1, <1>2, <1>3 DEF Placed, Same

\* An entry is looked at.
LEMMA AmongNext ==
  ASSUME RegistryInv, Placed(chains, names), NEW pattern, NEW h \in Slots, NEW j \in 0 .. Len(chains[h]) - 1,
         NEW list, Each(list, Among(pattern, h, j))
  PROVE  Each(daVarList_node(list, pattern, chains[h][j + 1]), Among(pattern, h, j + 1))
<1> DEFINE x == chains[h][j + 1]
<1>1. /\ Len(names) \in Nat /\ Len(chains[h]) \in Nat /\ SIZE \in Nat /\ h \in Nat
      /\ \A i \in 1 .. Len(chains[h]) : chains[h][i] \in 1 .. Len(names) /\ hashFunction(names[chains[h][i]]) = h
      /\ \A i, k \in 1 .. Len(chains[h]) : chains[h][i] = chains[h][k] => i = k
  BY ChainIs, SizeAssumption DEF Slots
<1>2. j \in Nat /\ j + 1 \in 1 .. Len(chains[h]) /\ \A i \in 1 .. j : i \in 1 .. Len(chains[h]) /\ i # j + 1
  BY <1>1
<1>3. x \in 1 .. Len(names) /\ hashFunction(names[x]) = h /\ \A i \in 1 .. j : chains[h][i] # x
  BY <1>1, <1>2
<1>4. \A i : i \in 1 .. j + 1 <=> i \in 1 .. j \/ i = j + 1
  BY <1>2
<1>5. x \notin Below(pattern, h)
  BY <1>1, <1>3 DEF Below
<1> HIDE DEF x
<1>6. x \notin Among(pattern, h, j)
  BY <1>3, <1>5 DEF Among
<1>7. CASE Matches(pattern, names[x])
  <2>1. Among(pattern, h, j + 1) = Among(pattern, h, j) \cup {x}
    BY <1>3, <1>4, <1>7 DEF Among, x
  <2>2. Each(Append(list, x), Among(pattern, h, j) \cup {x})
    BY <1>3, <1>6, EachMore
  <2> QED
    BY <1>7, <2>1, <2>2 DEF daVarList_node, x
<1>8. CASE ~Matches(pattern, names[x])
  <2>1. Among(pattern, h, j + 1) = Among(pattern, h, j)
    BY <1>3, <1>4, <1>8 DEF Among, x
  <2> QED
    BY <1>8, <2>1 DEF daVarList_node, x
<1> QED
  BY <1>7, <1>8

\* Before the first entry, and after the last
LEMMA AmongEnds ==
  ASSUME RegistryInv, Placed(chains, names), NEW pattern, NEW h \in Slots
  PROVE  /\ Among(pattern, h, 0) = Below(pattern, h)
         /\ Among(pattern, h, Len(chains[h])) = Below(pattern, h + 1)
<1>1. /\ Len(names) \in Nat /\ Len(chains[h]) \in Nat /\ SIZE \in Nat /\ h \in Nat /\ names \in Seq(Names)
      /\ \A i \in 1 .. Len(chains[h]) : chains[h][i] \in 1 .. Len(names) /\ hashFunction(names[chains[h][i]]) = h
  BY ChainIs, SizeAssumption DEF Slots
<1>2. \A p \in 1 .. Len(names) : hashFunction(names[p]) \in Nat
  <2>1. \A p \in 1 .. Len(names) : names[p] \in Names
    BY <1>1
  <2> QED
    BY <2>1, HashSlot, SizeAssumption DEF Slots
<1>3. \A p \in 1 .. Len(names) : (\E i \in 1 .. Len(chains[h]) : chains[h][i] = p) <=> hashFunction(names[p]) = h
  BY <1>1 DEF Placed
<1>4. \A p \in 1 .. Len(names) :
        hashFunction(names[p]) < h + 1 <=> hashFunction(names[p]) < h \/ hashFunction(names[p]) = h
  BY <1>1, <1>2
<1>5. Among(pattern, h, 0) = Below(pattern, h)
  <2>1. 1 .. 0 = {}
    OBVIOUS
  <2> QED
    BY <2>1 DEF Among
<1>6. Among(pattern, h, Len(chains[h])) = Below(pattern, h + 1)
  BY <1>3, <1>4 DEF Among, Below
<1> QED
  BY <1>5, <1>6

\* A chain is walked through.
LEMMA ChainWalked ==
  ASSUME RegistryInv, Placed(chains, names), NEW pattern, NEW h \in Slots, NEW list, Each(list, Below(pattern, h))
  PROVE  Each(ChainWalk(list, pattern, chains[h]), Below(pattern, h + 1))
<1> DEFINE c == chains[h]
           n == Len(c)
<1>1. n \in Nat
  BY ChainIs
<1>2. PICK f : ChainSteps(f, list, pattern, c, n) /\ ChainWalk(list, pattern, c) = f[n]
  BY <1>1, ChainStepsIs
<1> DEFINE Z == {j \in 0 .. n : Each(f[j], Among(pattern, h, j))}
<1>3. 0 \in Z
  <2>1. f[0] = list /\ 0 \in 0 .. n
    BY <1>1, <1>2 DEF ChainSteps
  <2>2. Each(f[0], Among(pattern, h, 0))
    BY <2>1, AmongEnds
  <2> QED
    BY <2>1, <2>2
<1>4. \A j \in 0 .. n - 1 : j \in Z => j + 1 \in Z
  <2> SUFFICES ASSUME NEW j \in 0 .. n - 1, j \in Z PROVE j + 1 \in Z
    OBVIOUS
  <2>1. j + 1 \in 0 .. n /\ j + 1 # 0 /\ (j + 1) - 1 = j
    BY <1>1
  <2>2. f[j + 1] = daVarList_node(f[(j + 1) - 1], pattern, c[j + 1])
    BY <1>2, <2>1 DEF ChainSteps
  <2>3. f[j + 1] = daVarList_node(f[j], pattern, c[j + 1])
    BY <2>1, <2>2
  <2>4. Each(daVarList_node(f[j], pattern, c[j + 1]), Among(pattern, h, j + 1))
    BY AmongNext
  <2> QED
    BY <2>1, <2>3, <2>4
<1>5. \A j \in 0 .. n : j \in Z
  <2> HIDE DEF Z, n
  <2> QED
    BY <1>1, <1>3, <1>4, UpTo
<1>6. Each(f[n], Among(pattern, h, n))
  BY <1>1, <1>5
<1> QED
  BY <1>2, <1>6, AmongEnds

\* The table is walked through: each name that matches is listed once.
LEMMA TableWalked ==
  ASSUME RegistryInv, Placed(chains, names), NEW pattern
  PROVE  Each(crlHashWalk(pattern), {p \in 1 .. Len(names) : Matches(pattern, names[p])})
<1>1. SIZE \in Nat
  BY SizeAssumption
<1>2. PICK f : WalkSteps(f, pattern, SIZE) /\ crlHashWalk(pattern) = f[SIZE]
  BY <1>1, WalkStepsIs
<1>3. names \in Seq(Names) /\ \A p \in 1 .. Len(names) : hashFunction(names[p]) \in 0 .. SIZE - 1
  <2>1. names \in Seq(Names) /\ \A p \in 1 .. Len(names) : names[p] \in Names
    BY DEF RegistryInv, Table
  <2> QED
    BY <2>1, HashSlot DEF Slots
<1> DEFINE Z == {h \in 0 .. SIZE : Each(f[h], Below(pattern, h))}
<1>4. 0 \in Z
  <2>1. f[0] = <<>> /\ 0 \in 0 .. SIZE
    BY <1>1, <1>2 DEF WalkSteps
  <2>2. Below(pattern, 0) = {}
    BY <1>1, <1>3 DEF Below
  <2>3. Each(<<>>, {})
    BY DEF Each
  <2> QED
    BY <2>1, <2>2, <2>3
<1>5. \A h \in 0 .. SIZE - 1 : h \in Z => h + 1 \in Z
  <2> SUFFICES ASSUME NEW h \in 0 .. SIZE - 1, h \in Z PROVE h + 1 \in Z
    OBVIOUS
  <2>1. h + 1 \in 0 .. SIZE /\ h + 1 # 0 /\ (h + 1) - 1 = h /\ h \in Slots
    BY <1>1 DEF Slots
  <2>2. f[h + 1] = ChainWalk(f[(h + 1) - 1], pattern, chains[(h + 1) - 1])
    BY <1>2, <2>1 DEF WalkSteps
  <2>3. f[h + 1] = ChainWalk(f[h], pattern, chains[h])
    BY <2>1, <2>2
  <2>4. Each(ChainWalk(f[h], pattern, chains[h]), Below(pattern, h + 1))
    BY <2>1, ChainWalked
  <2> QED
    BY <2>1, <2>3, <2>4
<1>6. \A h \in 0 .. SIZE : h \in Z
  <2> HIDE DEF Z
  <2> QED
    BY <1>1, <1>4, <1>5, UpTo
<1>7. Each(f[SIZE], Below(pattern, SIZE))
  BY <1>1, <1>6
<1>8. Below(pattern, SIZE) = {p \in 1 .. Len(names) : Matches(pattern, names[p])}
  BY <1>1, <1>3 DEF Below
<1> QED
  BY <1>2, <1>7, <1>8

(***************************************************************************)
(* What a client is answered                                               *)
(***************************************************************************)

\* AnswersRight of the answer a, for the chains c of structures v that have the
\* names nm and were given the values m
AddressedIn(c, nm, path) ==
  LET found == {n \in 1 .. Len(path) : Prefix(path, n) \in Names /\ FindIn(c, nm, Prefix(path, n)) # 0}
  IN IF found = {} THEN 0 ELSE CHOOSE n \in found : \A m \in found : m <= n

ValueIn(a, n, p, v, m) ==
  n > 0 /\ IsValue(Attribute(a.request.path, n)) /\ v[p].type \notin Text =>
    /\ a.reply.status = "success"
    /\ \A j \in DOMAIN m[p] :
         CASE a.request.ix = -101 -> a.reply.values[j + 1] = m[p][j]
           [] a.request.ix = j -> a.reply.values = <<m[p][j]>>
           [] OTHER -> TRUE

ListIn(a, nm) ==
  /\ \A i, j \in DOMAIN a.found : a.found[i] = a.found[j] => i = j
  /\ ToSet(a.found) = {p \in DOMAIN nm : Matches(a.request, nm[p])}

RightIn(a, c, nm, v, m) ==
  a # <<>> =>
    IF "found" \in DOMAIN a THEN ListIn(a, nm)
    ELSE ValueIn(a, AddressedIn(c, nm, a.request.path),
                 FindIn(c, nm, Prefix(a.request.path, AddressedIn(c, nm, a.request.path))), v, m)

\* It is, before and after a step.
LEMMA RightIs ==
  /\ AnswersRight = RightIn(answer, chains, names, var, meant)
  /\ AnswersRight' = RightIn(answer', chains', names', var', meant')
BY DEF AnswersRight, RightIn, ListIn, ValueIn, AddressedIn, Addressed, Registered,
       crlHashFind, FindIn, Hits, Matches, Attribute, Prefix

\* And so is what a path addresses.
LEMMA AddressedInIs ==
  \A path : Addressed(path) = AddressedIn(chains, names, path)
BY DEF AddressedIn, Addressed, Registered, crlHashFind, FindIn, Hits

\* daVarRegRatr gives what was meant.
LEMMA RatrIs ==
  ASSUME MemoryInv, ~undefined, NEW p \in 1 .. Len(names), NEW attribute, NEW ix \in Int,
         IsValue(attribute), var[p].type \notin Text
  PROVE  /\ daVarRegRatr(p, attribute, ix).status = "success"
         /\ \A j \in DOMAIN meant[p] :
              CASE ix = -101 -> daVarRegRatr(p, attribute, ix).values[j + 1] = meant[p][j]
                [] ix = j -> daVarRegRatr(p, attribute, ix).values = <<meant[p][j]>>
                [] OTHER -> TRUE
<1>1. Memory(var, heap, pv, cursor, meant) /\ Len(var) = Len(names)
  BY DEF MemoryInv, MemoryOK
<1>2. /\ var \in Seq(Structures) /\ heap \in Seq(Blocks) /\ Len(var) \in Nat /\ Len(heap) \in Nat
      /\ DOMAIN meant = 1 .. Len(var) /\ Len(meant) = Len(var) /\ Held(var, heap) /\ Means(meant, var, heap)
  BY <1>1, MemoryFacts
<1>3. Owns(var[p], heap)
  BY <1>1, <1>2 DEF Held
<1>4. var[p] \in Structures /\ heap[var[p].block] \in Blocks
  BY <1>1, <1>2, <1>3, ElementIs DEF Owns
<1>5. PICK b, z : b = heap[var[p].block].cells /\ z = var[p].size
  OBVIOUS
<1>6. b \in Seq(Int) /\ Len(b) \in Nat /\ z \in Nat /\ z <= Len(b)
  BY <1>3, <1>4, <1>5 DEF Structures, Blocks, Owns
<1>7. \A j \in DOMAIN meant[p] : j \in 0 .. z - 1 /\ b[j + 1] = meant[p][j]
  BY <1>1, <1>2, <1>5 DEF Means, IsMeant
<1>8. PICK t : t = daVarRegRatr(p, attribute, ix)
  OBVIOUS
<1>9. t = [status |-> "success",
           values |-> IF ix = -101 THEN Cells(p)
                      ELSE <<IF ix \in 0 .. Len(b) - 1 THEN b[ix + 1] ELSE Garbage>>]
  <2>1. PICK v : v = IF ix = -101 THEN Cells(p)
                     ELSE <<IF ix \in 0 .. Len(b) - 1 THEN b[ix + 1] ELSE Garbage>>
    OBVIOUS
  <2>2. PICK w : w = IF ix = -101 THEN Cells(p) ELSE <<>>
    OBVIOUS
  <2>3. t = CASE IsValue(attribute) /\ var[p].type \in Text -> [status |-> "success", values |-> w]
              [] IsValue(attribute) /\ var[p].type \notin Text -> [status |-> "success", values |-> v]
              [] attribute = <<"size">> -> [status |-> "success", values |-> <<2 * var[p].size>>]
              [] attribute \in {<<"title">>, <<"type">>, <<"flag">>, <<"watr">>, <<"ratr">>} ->
                   [status |-> "success", values |-> <<>>]
              [] OTHER -> Failure
    BY <1>5, <1>8, <2>1, <2>2 DEF daVarRegRatr
  <2>4. attribute \in {<<>>, <<"value">>}
    BY DEF IsValue
  <2>5. attribute # <<"size">> /\ attribute \notin {<<"title">>, <<"type">>, <<"flag">>, <<"watr">>, <<"ratr">>}
    BY <2>4
  <2>6. t = [status |-> "success", values |-> v]
    <3> HIDE DEF Failure
    <3> QED
      BY <2>3, <2>4, <2>5 DEF IsValue
  <2> QED
    BY <2>1, <2>6
<1>10. Cells(p) = [j \in 1 .. z |-> b[j]]
  BY <1>5 DEF Cells
<1>11. ASSUME NEW j \in DOMAIN meant[p]
       PROVE  /\ ix = -101 => t.values[j + 1] = meant[p][j]
              /\ ix = j => t.values = <<meant[p][j]>> /\ ix # -101
  <2>1. j \in 0 .. z - 1 /\ b[j + 1] = meant[p][j]
    BY <1>7, <1>11
  <2>2. j + 1 \in 1 .. z /\ j \in 0 .. Len(b) - 1 /\ j # -101
    BY <1>6, <2>1
  <2>3. ix = -101 => t.values[j + 1] = meant[p][j]
    BY <1>9, <1>10, <2>1, <2>2
  <2>4. ix = j => t.values = <<b[j + 1]>>
    BY <1>9, <2>2
  <2> QED
    BY <2>1, <2>2, <2>3, <2>4
<1>12. t.status = "success"
  BY <1>9
<1>13. \A j \in DOMAIN meant[p] :
         CASE ix = -101 -> t.values[j + 1] = meant[p][j]
           [] ix = j -> t.values = <<meant[p][j]>>
           [] OTHER -> TRUE
  <2> SUFFICES ASSUME NEW j \in DOMAIN meant[p]
               PROVE  CASE ix = -101 -> t.values[j + 1] = meant[p][j]
                        [] ix = j -> t.values = <<meant[p][j]>>
                        [] OTHER -> TRUE
    OBVIOUS
  <2>1. CASE ix = -101
    BY <1>11, <2>1
  <2>2. CASE ix # -101 /\ ix = j
    BY <1>11, <2>2
  <2>3. CASE ix # -101 /\ ix # j
    BY <2>3
  <2> QED
    BY <2>1, <2>2, <2>3
<1> QED
  BY <1>8, <1>12, <1>13

\* So a client that reads is answered right,
LEMMA ReadRight ==
  ASSUME MemoryInv, ~undefined, daVarReadVar
  PROVE  AnswersRight'
<1>1. UNCHANGED <<registry, var, heap, pv, undefined, meant, cursor, regs, lines>>
  BY SMTT(30) DEF daVarReadVar
<1>2. PICK r \in Reads :
        LET class == daVarClassFind(r.path)
            n == daVarAttributeFind(r.path, class)
        IN answer' = IF class = 0 THEN [request |-> r, reply |-> Failure]
                     ELSE [request |-> r,
                           reply |-> daVarRegRatr(crlHashFind(Prefix(r.path, n)), Attribute(r.path, n), r.ix)]
  BY DEF daVarReadVar
<1> DEFINE class == daVarClassFind(r.path)
           n == daVarAttributeFind(r.path, class)
           p == crlHashFind(Prefix(r.path, n))
<1>3. r.path \in Seq(STRING) /\ r.ix \in Int
  BY ReadsAssumption
<1>4. answer' = IF class = 0 THEN [request |-> r, reply |-> Failure]
                ELSE [request |-> r, reply |-> daVarRegRatr(p, Attribute(r.path, n), r.ix)]
  BY <1>2
<1>5. /\ class = 0 => Addressed(r.path) = 0
      /\ class # 0 => n = Addressed(r.path) /\ n \in Found(r.path)
  BY <1>3, AddressedIs
<1>6. RegistryInv
  BY DEF MemoryInv
<1>7. class # 0 => p \in 1 .. Len(names) /\ n > 0
  BY <1>3, <1>5, <1>6, FoundVariable
<1>8. Addressed(r.path) = AddressedIn(chains, names, r.path)
  BY AddressedInIs
<1>9. p = FindIn(chains, names, Prefix(r.path, n))
  BY DEF crlHashFind, FindIn, Hits
<1> HIDE DEF class, n, p
<1>10. PICK a : a = answer'
  OBVIOUS
<1>11. a.request = r /\ "found" \notin DOMAIN a
  BY <1>4, <1>10
<1>12. RightIn(a, chains, names, var, meant)
  <2>1. CASE class = 0
    BY <1>5, <1>8, <1>11, <2>1 DEF RightIn, ValueIn
  <2>2. CASE class # 0
    <3>1. n = AddressedIn(chains, names, r.path) /\ p = FindIn(chains, names, Prefix(r.path, n))
      BY <1>5, <1>8, <1>9, <2>2
    <3>2. a.reply = daVarRegRatr(p, Attribute(r.path, n), r.ix)
      BY <1>4, <1>10, <2>2
    <3>3. ValueIn(a, n, p, var, meant)
      <4> SUFFICES ASSUME IsValue(Attribute(r.path, n)), var[p].type \notin Text
                   PROVE  /\ a.reply.status = "success"
                          /\ \A j \in DOMAIN meant[p] :
                               CASE r.ix = -101 -> a.reply.values[j + 1] = meant[p][j]
                                 [] r.ix = j -> a.reply.values = <<meant[p][j]>>
                                 [] OTHER -> TRUE
        BY <1>11 DEF ValueIn
      <4>1. p \in 1 .. Len(names)
        BY <1>7, <2>2
      <4>2. PICK at : at = Attribute(r.path, n)
        OBVIOUS
      <4>3. IsValue(at)
        BY <4>2
      <4>4. PICK ix \in Int : ix = r.ix
        BY <1>3
      <4>5. /\ daVarRegRatr(p, at, ix).status = "success"
            /\ \A j \in DOMAIN meant[p] :
                 CASE ix = -101 -> daVarRegRatr(p, at, ix).values[j + 1] = meant[p][j]
                   [] ix = j -> daVarRegRatr(p, at, ix).values = <<meant[p][j]>>
                   [] OTHER -> TRUE
        BY <4>1, <4>3, RatrIs
      <4>6. a.reply = daVarRegRatr(p, at, ix)
        BY <3>2, <4>2, <4>4
      <4> QED
        BY <4>4, <4>5, <4>6
    <3> QED
      BY <1>11, <3>1, <3>3 DEF RightIn
  <2> QED
    BY <2>1, <2>2
<1> QED
  BY <1>1, <1>10, <1>12, RightIs DEF registry

\* and one that lists.
LEMMA ListRight ==
  ASSUME RegistryInv, Placed(chains, names), daVarList
  PROVE  AnswersRight'
<1>1. UNCHANGED <<registry, var, heap, pv, undefined, meant, cursor, regs, lines>>
  BY SMTT(30) DEF daVarList
<1>2. PICK pattern \in Patterns : answer' = [request |-> pattern, found |-> crlHashWalk(pattern)]
  BY DEF daVarList
<1>3. PICK f : f = crlHashWalk(pattern)
  OBVIOUS
<1> DEFINE Z == {p \in 1 .. Len(names) : Matches(pattern, names[p])}
<1>4. Each(f, Z)
  BY <1>3, TableWalked
<1>5. DOMAIN names = 1 .. Len(names)
  BY DEF RegistryInv, Table
<1>6. DOMAIN f = 1 .. Len(f)
  BY <1>4 DEF Each
<1>7. PICK a : a = answer'
  OBVIOUS
<1>8. a.request = pattern /\ a.found = f /\ "found" \in DOMAIN a
  BY <1>2, <1>3, <1>7
<1>9. ListIn(a, names)
  <2>1. \A i, j \in DOMAIN f : f[i] = f[j] => i = j
    BY <1>4, <1>6 DEF Each
  <2>2. ToSet(f) = {p \in DOMAIN names : Matches(pattern, names[p])}
    <3>1. ToSet(f) = Z
      <4> HIDE DEF Z
      <4> QED
        BY <1>4, <1>6 DEF Each, ToSet
    <3> QED
      BY <1>5, <3>1
  <2> QED
    BY <1>8, <2>1, <2>2 DEF ListIn
<1> QED
  BY <1>1, <1>7, <1>8, <1>9, RightIs DEF registry, RightIn

\* Nobody has asked before the last variable of the program is registered.
AnswersInv ==
  /\ MemoryInv /\ Placed(chains, names) /\ AnswersRight
  /\ requests \in Nat /\ (requests = 0 => answer = <<>>)

\* Nothing was asked at first.
LEMMA AnswersFirst == Init => AnswersInv
<1> SUFFICES ASSUME Init PROVE AnswersInv
  OBVIOUS
<1>1. chains = [h \in Slots |-> <<>>] /\ names = <<>> /\ answer = <<>> /\ requests = 0
  BY DEF Init, Slots
<1>2. Placed(chains, names)
  <2>1. Len(<<>>) = 0
    OBVIOUS
  <2> QED
    BY <1>1, <2>1 DEF Placed
<1> QED
  BY <1>1, <1>2, MemoryFirst DEF AnswersInv, AnswersRight

\* Every operation keeps the structures where they are found.
LEMMA PlacedKept ==
  ASSUME RegistryInv, Placed(chains, names), [Next]_vars
  PROVE  Placed(chains', names')
<1>1. UNCHANGED registry \/ \E n \in Names : Bind(n)
  BY OnlyBind
<1>2. CASE UNCHANGED registry
  BY <1>2 DEF registry
<1>3. ASSUME NEW n \in Names, Bind(n) PROVE Placed(chains', names')
  <2>1. CASE crlHashFind(n) # 0
    BY <1>3, <2>1 DEF Bind, crlHashAdd
  <2>2. CASE crlHashFind(n) = 0
    <3>1. Added(chains, names, n, chains', names')
      BY <1>3, <2>2 DEF Bind, crlHashAdd, Added
    <3> QED
      BY <3>1, PlacedMore DEF RegistryInv
  <2> QED
    BY <2>1, <2>2
<1> QED
  BY <1>1, <1>2, <1>3

\* No operation leaves a wrong answer.
LEMMA AnswersKept == AnswersInv /\ [Next]_vars => AnswersInv'
<1> SUFFICES ASSUME AnswersInv, [Next]_vars PROVE AnswersInv'
  OBVIOUS
<1>1. /\ MemoryInv /\ Placed(chains, names) /\ AnswersRight /\ RegistryInv
      /\ requests \in Nat /\ (requests = 0 => answer = <<>>)
  BY DEF AnswersInv, MemoryInv
<1>2. MemoryInv'
  BY <1>1, MemoryKept
<1>3. Placed(chains', names')
  BY <1>1, PlacedKept
<1>4. CASE \E r \in Registrations : regvar(r)
  <2>1. requests = 0 /\ requests' = requests /\ answer' = answer
    BY <1>4 DEF regvar
  <2> QED
    BY <1>1, <1>2, <1>3, <2>1 DEF AnswersInv, AnswersRight
<1>5. CASE thParmLineSet \/ thSpecial
  <2>1. requests' = requests /\ answer' = <<>>
    BY <1>5 DEF thParmLineSet, thSpecial
  <2> QED
    BY <1>1, <1>2, <1>3, <2>1 DEF AnswersInv, AnswersRight
<1>6. CASE Request
  <2>1. ~undefined /\ requests' = requests + 1
    BY <1>6 DEF Request, daVarReadVar, daVarWriteVar, daVarList
  <2>2. requests' \in Nat /\ requests' # 0
    BY <1>1, <2>1
  <2>3. CASE daVarReadVar
    BY <1>1, <1>2, <1>3, <2>1, <2>2, <2>3, ReadRight DEF AnswersInv
  <2>4. CASE daVarWriteVar
    <3>1. answer' = <<>>
      BY <2>4 DEF daVarWriteVar
    <3> QED
      BY <1>2, <1>3, <2>2, <3>1 DEF AnswersInv, AnswersRight
  <2>5. CASE daVarList
    BY <1>1, <1>2, <1>3, <2>2, <2>5, ListRight DEF AnswersInv
  <2> QED
    BY <1>6, <2>3, <2>4, <2>5 DEF Request
<1>7. CASE UNCHANGED vars
  <2>1. /\ chains' = chains /\ names' = names /\ var' = var /\ meant' = meant
        /\ answer' = answer /\ requests' = requests
    BY <1>7 DEF vars, registry, counts
  <2>2. AnswersRight'
    BY <1>1, <2>1, RightIs
  <2> QED
    BY <1>1, <1>2, <1>3, <2>1, <2>2 DEF AnswersInv
<1> QED
  BY <1>4, <1>5, <1>6, <1>7 DEF Next

\* Whatever the names, how they share chains, what lines and clients have given
\* and to which of its forms a name is asked for: a client is answered the value
\* that was given, of the variable with the longest name in its path, and a list
\* has each matching name once (daVarHandlers.c:110-260, daVarRegister.c:346-400).
THEOREM AnswersAreRight == Spec => []AnswersRight
<1>1. AnswersInv => AnswersRight
  BY DEF AnswersInv
<1> QED
  BY <1>1, AnswersFirst, AnswersKept, PTL DEF Spec
=============================================================================
