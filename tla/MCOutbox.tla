------------------------------ MODULE MCOutbox ------------------------------
(***************************************************************************)
(* Two events and two workers, as during a deployment.                     *)
(***************************************************************************)
EXTENDS Outbox

CONSTANTS e1, e2, w1, w2

MCEvents == {e1, e2}
MCWorkers == {w1, w2}

=============================================================================
