------------------------ MODULE MCConversionAuthority ------------------------
(* Two requests for conversion, by key, each under two fingerprints.       *)
EXTENDS ConversionAuthority, TLC

CONSTANTS k1, k2, p1, p2

Symmetric == Permutations({k1, k2}) \cup Permutations({p1, p2})

=============================================================================
