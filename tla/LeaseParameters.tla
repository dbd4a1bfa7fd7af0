--------------------------- MODULE LeaseParameters ---------------------------
(* What the viewer leases are parameterised by, for the module of their    *)
(* store and for the modules that compose it.                              *)
EXTENDS Integers

CONSTANTS
    Sessions,       \* review sessions
    Viewers,        \* viewers, each an authenticated user's
    Nonces,         \* client_nonce values viewers send
    NoNonce,        \* the claim has no client_nonce
    LeaseTtl,       \* ttlMs
    MaxLeases,      \* bound: leases ever claimed
    SessionOf,      \* the session of the n-th claimed lease
    MaxTime         \* bound: the clock stops here

Leases == 1 .. MaxLeases

ASSUME LeaseBoundsAssumption ==
    /\ LeaseTtl \in Nat \ {0}
    /\ MaxLeases \in Nat
    /\ MaxTime \in Nat

ASSUME SessionOfAssumption == SessionOf \in [Leases -> Sessions]

=============================================================================
