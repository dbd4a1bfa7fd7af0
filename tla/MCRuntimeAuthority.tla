------------------------- MODULE MCRuntimeAuthority -------------------------
(* Instances of RuntimeAuthority for TLC.                                  *)
EXTENDS RuntimeAuthority, TLC

CONSTANT s1

(* All claims are for one session.                                         *)
OneSession == <<s1, s1>>

ViewerSymmetry == Permutations(Viewers)

=============================================================================
