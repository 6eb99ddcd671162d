----------------------------- MODULE EventQueue -----------------------------
(***************************************************************************)
(* What an event stream promises to the program that reads it: the events  *)
(* arrive whole, in the order in which they were put in, none is lost and  *)
(* none arrives twice, and the reader is told that the stream has ended    *)
(* only when nothing more can arrive.  The stream may be cut (its writer   *)
(* dies), and then a tail of it may be missing.                            *)
(***************************************************************************)
EXTENDS Naturals, Sequences

CONSTANT Events             \* the events that can be put into the stream

VARIABLES sent,             \* events put in so far, in order
          got,              \* events delivered so far, in order
          stream,           \* "open", "closed" (complete) or "cut"
          finished          \* the reader has been told that the stream ended

vars == <<sent, got, stream, finished>>

Init ==
  /\ sent = <<>>
  /\ got = <<>>
  /\ stream = "open"
  /\ finished = FALSE

Send(e) ==
  /\ stream = "open"
  /\ sent' = Append(sent, e)
  /\ UNCHANGED <<got, stream, finished>>

Close ==
  /\ stream = "open"
  /\ stream' = "closed"
  /\ UNCHANGED <<sent, got, finished>>

Cut ==
  /\ stream = "open"
  /\ stream' = "cut"
  /\ UNCHANGED <<sent, got, finished>>

Deliver ==
  /\ ~finished
  /\ Len(got) < Len(sent)
  /\ got' = Append(got, sent[Len(got) + 1])
  /\ UNCHANGED <<sent, stream, finished>>

Finish ==
  /\ ~finished
  /\ \/ stream = "cut"
     \/ stream = "closed" /\ Len(got) = Len(sent)
  /\ finished' = TRUE
  /\ UNCHANGED <<sent, got, stream>>

Next ==
  \/ \E e \in Events : Send(e)
  \/ Close
  \/ Cut
  \/ Deliver
  \/ Finish

Spec == Init /\ [][Next]_vars
=============================================================================
