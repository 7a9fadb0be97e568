----------------------------- MODULE LossyLink -----------------------------
(***************************************************************************)
(* A raptorq-enc, the radio link and raptorq-dec: the frames the decoder   *)
(* takes are those an encoder sends, in the order sent, less those the     *)
(* link loses or garbles.                                                  *)
(*                                                                         *)
(* The encoder is module EncWire, which RaptorqEnc implements.  It may be  *)
(* restarted (its unit has Restart=always) while the decoder runs on.      *)
(* Blocks have their true number here; a frame carries it from the start   *)
(* of the encoder on, modulo SbnMod.                                       *)
(***************************************************************************)
EXTENDS RaptorqDec

CONSTANTS
  K,           \* source symbols of a block
  Repair,      \* baseline repair symbols of a block
  ExtraReach,  \* how many blocks back extra repair may be for
  FirstBlk,    \* the block being sent when the receiver is switched on
  LastJoin,    \* the last block the receiver may first hear of
  LastBlk,     \* bound: the last block sent
  MaxOutage,   \* blocks the link may lose in a row once the receiver joined
  MaxBurst,    \* frames in a row the link may lose or garble
  MaxFaults,   \* bound: frames lost, made unparseable or given a wrong OTI
  MaxExtra,    \* bound: extra repair frames
  MaxNoops,    \* bound: noop frames
  MaxRestarts  \* bound: restarts of the encoder

ASSUME LinkAssumption ==
  /\ K \in Nat \ {0} /\ Repair \in Nat
  /\ FirstBlk \in Nat /\ LastJoin \in Nat /\ LastBlk \in Nat
  /\ FirstBlk <= LastJoin /\ LastJoin <= LastBlk
  /\ MaxBurst \in Nat /\ MaxFaults \in Nat /\ MaxExtra \in Nat
  /\ MaxNoops \in Nat /\ MaxRestarts \in Nat
  /\ 0..K + Repair + MaxExtra - 1 \subseteq Esis
  /\ 0..LastBlk \subseteq Symbols
  /\ [symbol_size |-> SymbolSize, transfer_length |-> K * SymbolSize] \in Otis

VARIABLES
  first, blk, pos, extra, sent,   \* the sender's: see EncWire
  budget,      \* what is left of the bounds, by kind
  base,        \* true number of the decoder's block 0
  missing,     \* frames [lost, garbled] since the decoder last read a counter
  truly,       \* frames [lost, garbled] between two whose counter was read
  hurt,        \* blocks that lost a source or baseline repair symbol
  heard,       \* blocks a sane frame was delivered of
  wire_blk,    \* the block of the last data frame delivered
  old_pool     \* the numbers of the blocks held at the last restart

(* What the last frame was is not followed here.                           *)
Sender == INSTANCE EncWire
            WITH frame <- 0, Blocks <- FirstBlk..LastBlk,
                 MaxRing <- ExtraReach, MaxRepair <- Repair + MaxExtra

senderVars == <<first, blk, pos, extra, sent>>
ghostVars == <<base, missing, truly, hurt, heard, wire_blk>>
linkAllVars == <<vars, senderVars, budget, ghostVars, old_pool>>

-----------------------------------------------------------------------------
WireOti == [symbol_size |-> SymbolSize, transfer_length |-> K * SymbolSize]
WireCc == sent % CcMod

(* A symbol's payload is the true number of its block.                     *)
DataFrame(p) ==
  [cc |-> WireCc, oti |-> WireOti, sbn |-> p.sbn, esi |-> p.esi, symbol |-> p.blk]

Spend(kind) ==
  /\ budget[kind] > 0
  /\ budget' = [budget EXCEPT ![kind] = @ - 1]

Live == ~Ended

Nothing == [lost |-> 0, garbled |-> 0]

LinkInit ==
  /\ Init
  /\ first = 0 /\ blk = FirstBlk /\ pos = 0 /\ sent = 0
  /\ extra = [b \in FirstBlk..LastBlk |-> 0]
  /\ budget = [fault |-> MaxFaults, extra |-> MaxExtra, noop |-> MaxNoops,
               restart |-> MaxRestarts]
  /\ base = 0
  /\ missing = Nothing /\ truly = Nothing
  /\ hurt = {} /\ heard = {} /\ wire_blk = FirstBlk
  /\ old_pool = {}

-----------------------------------------------------------------------------
(* A frame whose counter the decoder reads tells it what went missing.     *)
CounterRead ==
  /\ missing' = Nothing
  /\ truly' = IF last_cc = None THEN truly
              ELSE [fate \in {"lost", "garbled"} |-> truly[fate] + missing[fate]]

Deliver(p) ==
  /\ \/ DropRedundant(DataFrame(p))
     \/ Accept(DataFrame(p))
     \/ Panic(DataFrame(p))
  /\ base' = IF started THEN base ELSE p.blk - p.sbn
  /\ CounterRead
  /\ heard' = heard \cup {p.blk}
  /\ wire_blk' = p.blk
  /\ UNCHANGED hurt

(* Frames in a row whose counter was not read.                             *)
Unread == missing.lost + missing.garbled

(* The link may lose or garble a frame while a receiver that is new can    *)
(* still hear a first one by LastJoin, and later while the outage is not   *)
(* too long.                                                               *)
MayLose ==
  /\ Live
  /\ Unread < MaxBurst
  /\ IF started THEN \E b \in heard : blk < b + MaxOutage ELSE blk < LastJoin

(* A frame of a block in damage is garbled in its OTI,                     *)
DeliverInsane(p, damage) ==
  /\ MayLose
  /\ \E oti \in Otis : DropInsane([DataFrame(p) EXCEPT !.oti = oti])
  /\ CounterRead
  /\ hurt' = hurt \cup damage
  /\ UNCHANGED <<base, heard, wire_blk>>

(* ... so that it does not parse,                                          *)
DeliverGarbled(damage) ==
  /\ MayLose
  /\ RecvUnparseable
  /\ missing' = [missing EXCEPT !.garbled = @ + 1]
  /\ hurt' = hurt \cup damage
  /\ UNCHANGED <<base, truly, heard, wire_blk>>

(* ... or never comes.                                                     *)
Lose(damage) ==
  /\ MayLose
  /\ missing' = [missing EXCEPT !.lost = @ + 1]
  /\ hurt' = hurt \cup damage
  /\ UNCHANGED <<vars, base, truly, heard, wire_blk>>

Unheard(damage) == DeliverGarbled(damage) \/ Lose(damage)
Fault(p, damage) == DeliverInsane(p, damage) \/ Unheard(damage)

Data ==
  /\ Sender!InBand
  /\ \/ Deliver(Sender!InBandPacket) /\ UNCHANGED budget
     \/ /\ Fault(Sender!InBandPacket, {Sender!InBandPacket.blk})
        /\ Spend("fault")
  /\ UNCHANGED old_pool

ExtraData(b) ==
  /\ Sender!Extra(b)
  /\ \/ Deliver(Sender!ExtraPacket(b)) /\ Spend("extra")
     \/ Fault(Sender!ExtraPacket(b), {}) /\ Spend("fault")
  /\ UNCHANGED old_pool

Noop ==
  /\ Sender!Noop
  /\ \/ /\ Spend("noop")
        /\ RecvNoop(WireCc)
        /\ CounterRead
        /\ UNCHANGED <<base, hurt, heard, wire_blk>>
     \/ Unheard({}) /\ Spend("fault")
  /\ UNCHANGED old_pool

(* The encoder is started again; the decoder hears nothing of it.          *)
EncRestart ==
  /\ blk < LastBlk
  /\ Sender!Restart
  /\ Spend("restart")
  /\ old_pool' = DOMAIN pool
  /\ UNCHANGED <<vars, ghostVars>>

(* The decoder on its own.                                                 *)
DecoderStep ==
  /\ PollTimeout \/ Disconnect \/ Drain \/ Flush \/ StdoutError \/ Tick
  /\ UNCHANGED <<senderVars, budget, ghostVars, old_pool>>

LinkNext ==
  \/ Data
  \/ \E b \in FirstBlk..LastBlk : ExtraData(b)
  \/ Noop
  \/ EncRestart
  \/ DecoderStep

LinkSpec == LinkInit /\ [][LinkNext]_linkAllVars

-----------------------------------------------------------------------------
(* The sender's and the link's variables have their types.                 *)
LinkTypeOK ==
  /\ first \in Nat /\ blk \in FirstBlk..LastBlk + 1 /\ pos \in 0..K + Repair - 1
  /\ extra \in [FirstBlk..LastBlk -> 0..MaxExtra]
  /\ \A kind \in DOMAIN budget : budget[kind] \in Nat
  /\ sent \in Nat /\ base \in Nat
  /\ missing \in [{"lost", "garbled"} -> 0..MaxBurst]
  /\ truly \in [{"lost", "garbled"} -> Nat]
  /\ hurt \subseteq FirstBlk..LastBlk /\ heard \subseteq FirstBlk..LastBlk
  /\ wire_blk \in FirstBlk..LastBlk
  /\ old_pool \subseteq Nat

(* Symbols of different blocks are never mixed: however the 8-bit block    *)
(* numbers wrapped and whatever was lost, every symbol held for a block    *)
(* was made from that block (unwrap_sbn, main.rs:250).                     *)
PureSymbols ==
  \A n \in DOMAIN pool : \A s \in pool[n].symbols : s.symbol = base + n

(* The decoder is never given a symbol that its crate's decode asserts     *)
(* against: however the numbers wrap, whatever was lost and however late   *)
(* repair comes, a symbol reaches a decoder made for its number            *)
(* (main.rs:250, 339, 168).  The code drops beforehand what would panic    *)
(* (main.rs:310-312); for this there is no check, and nothing restarts the *)
(* decoder.                                                                *)
NeverPanics == pc # "panicked"

(* main.rs:327: "Block already emitted; this is unneeded repair, not       *)
(* loss."  A frame dropped as redundant is of a block before the cursor.   *)
RedundantIsEmitted ==
  [][redundant_packets' # redundant_packets => wire_blk' < base + cursor]_linkAllVars

(* A block that lost nothing is written decoded, whatever happened to its  *)
(* neighbours: the link keeps the order, so once the sender is past a      *)
(* block all the symbols of it have been here and have decoded it.  Only   *)
(* the block being sent may be given up undamaged, and only if its timeout *)
(* or the end of the input comes (main.rs:393-431, 448-468).               *)
NewlyWritten == base + out'[Len(out')].blk
GivesUp == out' # out /\ out'[Len(out')].kind # "decoded"

OnlyHurtIsGivenUp ==
  [][GivesUp => \/ NewlyWritten \in hurt
                \/ NewlyWritten = blk /\ (HeadOverdue \/ pc = "flush")]_linkAllVars

(* Nothing heard of is left out: when the program has ended after its      *)
(* input, every block any frame was taken of has been written, but for     *)
(* blocks from before the first written, of which late repair may come.    *)
Written(b) == \E i \in DOMAIN out : base + out[i].blk = b
BeforeFirst(b) == out # <<>> /\ b < base + out[1].blk

HeardIsWritten ==
  pc = "done" => \A b \in heard : Written(b) \/ BeforeFirst(b)

(* src/raptorq/README.md:23, "as zeros if nothing arrived": no frame of a  *)
(* block that is written as zeros was ever delivered.                      *)
ZeroMeansNothingCame ==
  [][EmitZero => base + cursor \notin heard]_linkAllVars

(* As long as fewer than 16 frames in a row go unread, the continuity      *)
(* counter gives exactly the frames sent in between and not read, the      *)
(* garbled ones among them (main.rs:256-260, 349-353).                     *)
LossIsExact == lost_packets = truly.lost + truly.garbled

(* With restarts the count is still off by less than one round of the      *)
(* counter for each of them.                                               *)
LossWithinCounter ==
  LET restarts == MaxRestarts - budget.restart
      error == lost_packets - (truly.lost + truly.garbled)
  IN  error \in -(CcMod - 1) * restarts..(CcMod - 1) * restarts

(* After a restart new blocks may be taken for old ones, but only blocks   *)
(* that were held at that moment get symbols of two blocks.                *)
MixedWasHeld ==
  \A n \in DOMAIN pool : \A s, t \in pool[n].symbols :
    s.symbol # t.symbol => n \in old_pool

(* After a restart new blocks are dropped as already written (main.rs:325) *)
(* for less than half the block numbers, and what the decoder still held,  *)
(* beyond the first new block it heard of: the picture comes back after    *)
(* that, though the decoder never learns of the restart.                   *)
NewestDropped ==
  redundant_packets' # redundant_packets /\ \A h \in heard : h < wire_blk'

BlackoutBounded ==
  [][NewestDropped =>
       \A h \in heard : h >= first =>
         2 * (wire_blk' - h - MaxInFlight) < SbnMod]_linkAllVars

(* main.rs:199: a frame that fails to parse is "NOT counted as link loss". *)
(* Frames counted as lost are frames that were lost.                       *)
LossIsLinkLoss == lost_packets <= truly.lost
=============================================================================
