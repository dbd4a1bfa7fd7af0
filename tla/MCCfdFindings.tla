---------------------------- MODULE MCCfdFindings ----------------------------
(* Instances of CfdFindings for TLC.                                       *)
EXTENDS CfdFindings

CONSTANTS c1, c2

(* One element and one direction, evaluated with a model binding (1, 2)    *)
(* and without (3, 4).                                                     *)
Kinds == <<"issue", "annotation", "refused", "annotation">>
SomePlans == {<<1, 2>>, <<3, 4>>, <<4>>}

=============================================================================
