------------------------------- MODULE MCCart -------------------------------
(***************************************************************************)
(* Two products whose prices may change once, and a fee that may apply.    *)
(***************************************************************************)
EXTENDS CartInvariants, TLC

CONSTANTS p1, p2, h1, h2

MCProducts == {p1, p2}

\* The second catalog has a promotion on p1, and p2 is inactive.
MCCatalogs == {[p \in MCProducts |-> IF p = p1 THEN 2 ELSE 3],
               [p \in MCProducts |-> IF p = p1 THEN 1 ELSE 0]}
MCFees == {0, 1}
MCIds == 1 .. 10
OneCall == {h1}
TwoCalls == {h1, h2}

\* The calls are interchangeable: nothing orders them, and no property is temporal.
CallSymmetry == Permutations(TwoCalls)

=============================================================================
