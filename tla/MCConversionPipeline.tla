------------------------ MODULE MCConversionPipeline ------------------------
(* Intakes of two keys.                                                    *)
EXTENDS ConversionPipeline

CONSTANTS k1, k2

=============================================================================
