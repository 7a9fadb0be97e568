--------------------------- MODULE MC_RaptorqDec ---------------------------
(* Constants for model-checking the decoder against arbitrary frames.      *)
EXTENDS RaptorqDec

Oti(symbol_size, transfer_length) ==
  [symbol_size |-> symbol_size, transfer_length |-> transfer_length]

(* Blocks of two symbols, and one of each kind of garbage: another symbol  *)
(* size (0 among them), no symbols, a broken symbol, too many symbols.     *)
Otis2 == {Oti(2, 4)}
         \cup {Oti(0, 4), Oti(3, 4), Oti(2, 0), Oti(2, 3), Oti(2, 8)}

(* A garbled length that is still legal: a block of one symbol.            *)
Otis1or2 == Otis2 \cup {Oti(2, 2)}
=============================================================================
