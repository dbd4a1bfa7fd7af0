------------------------------ MODULE MCCfdJobs ------------------------------
(* Instances of CfdJobs for TLC.                                           *)
EXTENDS CfdJobs

CONSTANTS k1, k2

=============================================================================
