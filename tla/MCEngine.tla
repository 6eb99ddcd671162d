------------------------------ MODULE MCEngine ------------------------------
(***************************************************************************)
(* Small runs for Engine.                                                  *)
(***************************************************************************)
EXTENDS Engine

Event(type, bcm, long, flag, fault) ==
  [type |-> type, bcm |-> bcm, long |-> long, flag |-> flag, fault |-> fault]

Plain(type) == Event(type, NoBcm, FALSE, 0, FALSE)

Flags == {Event(SyncfilterEvent, NoBcm, FALSE, f, FALSE) : f \in 0..2}

\* Readings without the BCM, below, at and above a threshold of 1, and one
\* that came too late.
Readings ==
  {Event(0, b, FALSE, 0, FALSE) : b \in {NoBcm, 0, 1, 2}}
    \cup {Event(0, 2, TRUE, 0, FALSE)}

Faults ==
  {Event(0, 2, FALSE, 0, TRUE)} \cup {Event(t, NoBcm, FALSE, 0, TRUE) : t \in {5, 16}}

MCEvents ==
  Flags \cup Readings \cup Faults \cup {Plain(t) : t \in {1, 4, 5, 7, 13, 18, 20}}

\* Type 7 triggers are disabled.
MCEnabled == {1, 4, 5, 6}
=============================================================================
