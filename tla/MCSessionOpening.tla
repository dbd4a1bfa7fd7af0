-------------------------- MODULE MCSessionOpening --------------------------
(* Instances of SessionOpening for TLC.                                    *)
EXTENDS SessionOpening, TLC

CONSTANTS a, b, rq, ak, akk, k1, q

AllIds == {a, b, rq, ak, akk}

(* The first automatic session is recreated with one key, its recreation   *)
(* with the same; the second automatic session may replace any of them.    *)
Derived ==
    [p \in AllIds \X {k1} |->
        IF p[1] = a THEN ak ELSE IF p[1] = ak THEN akk ELSE NoId]

OneRequest == q :> rq

=============================================================================
