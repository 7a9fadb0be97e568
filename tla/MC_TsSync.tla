----------------------------- MODULE MC_TsSync -----------------------------
(* Model-checking the decoder's reader and the end of its process.         *)
EXTENDS TsSync
=============================================================================
