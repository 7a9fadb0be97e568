---------------------------- MODULE BlockStream ----------------------------
(***************************************************************************)
(* What a receiver of raptorq-dec's standard output may rely on, with no   *)
(* word of how it is achieved.  The receiver joins the stream at a block   *)
(* of the sender's choosing; from there on every block is written once,    *)
(* in order and with none left out, decoded or as well as it can be        *)
(* ("besteffort" or "zero").  Only when the input has closed may blocks be *)
(* left out, and even then what is written is written in order and none    *)
(* of it is made up.                                                       *)
(***************************************************************************)
EXTENDS Naturals, Sequences

CONSTANTS
  FirstBlocks,   \* where a receiver may join
  Lengths        \* the lengths a block may be written with

VARIABLES
  written,   \* the blocks written so far, oldest first: [blk, kind, len]
  next,      \* the next block of the stream
  phase      \* "idle", "live", "closing" or "ended"

streamVars == <<written, next, phase>>

Kinds == {"decoded", "besteffort", "zero"}

Block(blk, kind, len) == [blk |-> blk, kind |-> kind, len |-> len]

Init ==
  /\ written = <<>>
  /\ next = 0
  /\ phase = "idle"

Join ==
  /\ phase = "idle"
  /\ phase' = "live"
  /\ next' \in FirstBlocks
  /\ UNCHANGED written

Write(kind, len) ==
  /\ phase = "live"
  /\ written' = Append(written, Block(next, kind, len))
  /\ next' = next + 1
  /\ UNCHANGED phase

Close ==
  /\ phase \in {"idle", "live"}
  /\ phase' = "closing"
  /\ UNCHANGED <<written, next>>

(* A block written after the input closed: the stream may jump forward.    *)
WriteLast(kind, len) ==
  /\ phase = "closing"
  /\ next' > next
  /\ written' = Append(written, Block(next' - 1, kind, len))
  /\ UNCHANGED phase

End ==
  /\ phase # "ended"
  /\ phase' = "ended"
  /\ UNCHANGED <<written, next>>

Next ==
  \/ Join
  \/ \E kind \in Kinds, len \in Lengths : Write(kind, len)
  \/ Close
  \/ \E kind \in Kinds \ {"zero"}, len \in Lengths : WriteLast(kind, len)
  \/ End

Spec == Init /\ [][Next]_streamVars
=============================================================================
