---------------------------- MODULE EventDelivery ----------------------------
(***************************************************************************)
(* What the outbox promises to its users: an event that was accepted is    *)
(* delivered at least once, or given up in a way that is recorded.  The    *)
(* order of delivery and the number of copies are left open.               *)
(***************************************************************************)
CONSTANT Events

VARIABLES
  promised,     \* the events accepted so far
  delivered,    \* those that reached the bus at least once
  givenUp       \* those that nobody will try to deliver again

vars == <<promised, delivered, givenUp>>

Init == promised = {} /\ delivered = {} /\ givenUp = {}

Promise(e) ==
  /\ e \notin promised
  /\ promised' = promised \cup {e}
  /\ UNCHANGED <<delivered, givenUp>>

Deliver(e) ==
  /\ e \in promised
  /\ delivered' = delivered \cup {e}
  /\ UNCHANGED <<promised, givenUp>>

GiveUp(e) ==
  /\ e \in promised
  /\ givenUp' = givenUp \cup {e}
  /\ UNCHANGED <<promised, delivered>>

\* Two workers may disagree: the slower one still tries.
Resume(e) ==
  /\ e \in givenUp
  /\ givenUp' = givenUp \ {e}
  /\ UNCHANGED <<promised, delivered>>

Next == \E e \in Events : Promise(e) \/ Deliver(e) \/ GiveUp(e) \/ Resume(e)

\* A promised event is settled: delivered, or recorded as given up.
Settle(e) == e \notin delivered \cup givenUp /\ (Deliver(e) \/ GiveUp(e))

Spec == Init /\ [][Next]_vars /\ \A e \in Events : WF_vars(Settle(e))

=============================================================================
