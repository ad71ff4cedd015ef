------------------------------ MODULE MCIntake ------------------------------
(***************************************************************************)
(* Instances of OrderIntake for TLC: two processes, one key.               *)
(***************************************************************************)
EXTENDS OrderIntake, TLC

CONSTANTS key, none, i1, i2, h1, h2

MCKeys == {key}
MCInstances == {i1, i2}
MCHandlers == {h1, h2}
Symmetry == {f @@ g : f \in Permutations(MCHandlers), g \in Permutations(MCInstances)}

=============================================================================
