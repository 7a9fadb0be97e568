---------------------------- MODULE MC_TsFrame ----------------------------
(* Model-checking the wire format.                                         *)
EXTENDS TsFrame
=============================================================================
