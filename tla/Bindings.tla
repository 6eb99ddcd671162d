------------------------------ MODULE Bindings ------------------------------
(***************************************************************************)
(* What the registry of CTP promises to those who keep a pointer that      *)
(* daVarLookupP gave them: a name, in upper or lower case, is bound to one *)
(* structure, for ever, and no two names share one.                        *)
(***************************************************************************)
EXTENDS Naturals

CONSTANTS
  Names,      \* names, in all spellings
  Folded      \* the name in lower case

VARIABLE binding    \* the structure of each name, 0 when it has none

Init == binding = [n \in Names |-> 0]

\* From old to new, all the spellings of n are bound to a structure that no
\* other name has.
Bound(old, new, n) ==
  LET same == {m \in Names : Folded[m] = Folded[n]}
  IN /\ new \in [Names -> Nat] /\ new[n] # 0
     /\ \A m \in same : old[m] = 0 /\ new[m] = new[n]
     /\ \A m \in Names \ same : new[m] = old[m] /\ old[m] # new[n]

Next == \E old \in {binding}, new \in {binding'} : old # new /\ \E n \in Names : Bound(old, new, n)

Spec == Init /\ [][Next]_binding
=============================================================================
