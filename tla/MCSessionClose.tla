--------------------------- MODULE MCSessionClose ---------------------------
(* Close requests with three lists of two final events, of which two begin *)
(* with the same event and two are of the same events in another order.    *)
EXTENDS SessionClose

CONSTANTS a, b

MCFinalEvents == {<<a, b>>, <<b, a>>, <<a, a>>}

=============================================================================
