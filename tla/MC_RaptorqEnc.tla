--------------------------- MODULE MC_RaptorqEnc ---------------------------
(* Model-checking the encoder.                                             *)
EXTENDS RaptorqEnc
=============================================================================
