----------------------------- MODULE MCEvSearch -----------------------------
(***************************************************************************)
(* Files for EvSearch: with events that end in their block, that go on in  *)
(* the next one or over several, and events of all shapes to be swapped.   *)
(* An event has its tree of banks besides, and what evSearch has copied is *)
(* swapped as that tree.                                                   *)
(***************************************************************************)
EXTENDS EvSearch, EvSwap

Leaf(type, n) == [type |-> type, data |-> n, parts |-> <<>>]
Node(type, parts) == [type |-> type, data |-> 0, parts |-> parts]

\* The bank with the event number, then others
Wrapped(parts) == Node(BANK, <<Leaf(1, 2)>> \o parts)
Short == Wrapped(<<>>)                    \* 5 words
Long == Wrapped(<<Leaf(4, 6)>>)           \* 10 words
VeryLong == Wrapped(<<Leaf(2, 20)>>)      \* 17 words
Special == Leaf(1, 2)                     \* 3 words

\* Physics events are numbered from 1, with or without a gap after the first.
\* What is read as the number of another event is one of those.
RECURSIVE Number(_, _, _)
Number(kinds, n, gap) ==
  IF kinds = <<>> THEN <<>>
  ELSE LET t == Head(kinds)
       IN IF t = Special THEN <<[phys |-> FALSE, num |-> 1, tree |-> t]>> \o Number(Tail(kinds), n, gap)
          ELSE <<[phys |-> TRUE, num |-> n, tree |-> t]>> \o Number(Tail(kinds), n + 1 + gap, 0)
File(kinds) == {Number(kinds, 1, g) : g \in {0, 1}}
Sequences(S, n) == UNION {[1 .. k -> S] : k \in 1 .. n}
LaidOut == UNION {File(k) : k \in Sequences({Short, Long, VeryLong, Special}, 4)}

Leaves == {Leaf(1, 2), Leaf(5, 2), Leaf(3, 2), Leaf(8, 4), Leaf(15, 4), Leaf(0, 0)}
Packets(type) == {Node(type, p) : p \in {<<Leaf(0, 1)>>, <<Leaf(0, 0), Leaf(0, 2)>>, <<Leaf(0, 3), Leaf(0, 1)>>}}
Segments == {Node(SEGMENT, <<a, b>>) : a, b \in Leaves \cup Packets(52)}
Inner == Leaves \cup Segments \cup Packets(52) \cup Packets(54)
Banks == {Node(BANK, <<a, b>>) : a \in Leaves \cup Packets(54), b \in Leaves} \cup {Node(BANK, <<a>>) : a \in Segments}
Shapes == {Wrapped(<<a>>) : a \in Inner \cup Banks}
          \cup {Wrapped(<<a, b>>) : a \in Packets(54) \cup {Node(SEGMENT, <<Leaf(5, 2)>>)}, b \in Leaves}
Shaped == {<<[phys |-> TRUE, num |-> 1, tree |-> t]>> : t \in Shapes}

Kinds == {f \in LaidOut : \E k \in DOMAIN f : f[k].phys} \cup Shaped

Trees == UNION {{f[k].tree : k \in DOMAIN f} : f \in Kinds}
Swapped == [t \in Trees |-> swapped_memcpy(Flat(BANK, t))]

\* evWrite puts an event where the one before ends.
Written(f, size) ==
  LET pos[k \in DOMAIN f] == IF k = 1 THEN 0 ELSE pos[k - 1] + size[f[k - 1].tree]
  IN [k \in DOMAIN f |->
       [phys |-> f[k].phys, num |-> f[k].num, tree |-> f[k].tree, pos |-> pos[k], size |-> size[f[k].tree]]]
MCFiles == LET size == [t \in Trees |-> Len(Flat(BANK, t)) \div 2] IN {Written(f, size) : f \in Kinds}

\* What evSearch has found is the event that was asked for, whole, and every byte of
\* an event of banks is in the order of this machine (swapped_memcpy, swap_util.c).
FoundIsNative ==
  /\ FoundIsWhole
  /\ (phase = "idle" /\ buffer # <<>>) =>
       LET tree == events[buffer[1]].tree
           want == Needs(BANK, tree)
           copy == Swapped[tree]
       IN tree.type = BANK /\ "long" \notin {want[j] : j \in DOMAIN want} =>
            ~copy.hangs /\ copy.how = want
=============================================================================
