-------------------------- MODULE MC_PacedWriter --------------------------
(* Model-checking the writer's clock.                                      *)
EXTENDS PacedWriter
=============================================================================
