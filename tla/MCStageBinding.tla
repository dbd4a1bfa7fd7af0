--------------------------- MODULE MCStageBinding ---------------------------
(* Instances of StageBinding for TLC.                                      *)
EXTENDS StageBinding, TLC

CONSTANTS l1, l2, l3, s1, s2

(* Two viewers of one session, for a handover of the primary lease, and a  *)
(* viewer of another one.                                                  *)
TwoSessions == (l1 :> s1) @@ (l2 :> s1) @@ (l3 :> s2)

(* The viewers of one session are interchangeable.                         *)
Viewers == Permutations({l1, l2})

=============================================================================
