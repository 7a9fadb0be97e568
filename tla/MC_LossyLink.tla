---------------------------- MODULE MC_LossyLink ----------------------------
(* Constants for model-checking the decoder behind a sender and a link.    *)
EXTENDS LossyLink

(* The OTI of the wire, and one garbled one.                               *)
LinkOtis == {WireOti, [symbol_size |-> 0, transfer_length |-> 1]}
LinkEsis == 0..K + Repair + MaxExtra
LinkSymbols == 0..LastBlk
=============================================================================
