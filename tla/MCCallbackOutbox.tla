-------------------------- MODULE MCCallbackOutbox --------------------------
(* An entry with a target and, after it, one without; two passes that      *)
(* differ in nothing but their name.                                       *)
EXTENDS CallbackOutbox, TLC

CONSTANTS p1, p2

MCWithTarget == {1, 3} \cap Ids

MCSymmetry == Permutations(Passes)

=============================================================================
