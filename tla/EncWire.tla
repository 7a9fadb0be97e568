------------------------------ MODULE EncWire ------------------------------
(***************************************************************************)
(* raptorq-enc as seen from the wire, with no word of its threads: block   *)
(* after block its source symbols with the baseline repair among them,     *)
(* between two blocks extra repair for blocks not long gone, noops at any  *)
(* time, and one continuity counter over all frames.  The process may be   *)
(* restarted, and then knows nothing of what it sent.                      *)
(***************************************************************************)
EXTENDS Integers

CONSTANTS
  K,          \* source symbols of a block
  Repair,     \* baseline repair symbols of a block
  MaxRepair,  \* repair symbols of a block, the extra ones included
  MaxRing,    \* how many blocks back extra repair may be for
  SbnMod,     \* block numbers on the wire are taken modulo this
  CcMod,      \* continuity counters are taken modulo this
  Blocks      \* the blocks there are, by true number

VARIABLES
  first,      \* the first block of this run of the process
  blk,        \* the block being sent ...
  pos,        \* ... and how many of its packets were
  extra,      \* the extra repair symbols sent for each block
  sent,       \* frames sent in this run
  frame       \* the last one

senderVars == <<first, blk, pos, extra, sent>>
wireVars == <<senderVars, frame>>

(* One repair packet comes after every rep_interval source packets (with   *)
(* no repair there is no such interval), ...                               *)
rep_interval == IF Repair = 0 THEN K + 1
                ELSE IF K \div Repair > 1 THEN K \div Repair ELSE 1

(* ... as long as there are both.                                          *)
Paired == IF Repair < K \div rep_interval THEN Repair ELSE K \div rep_interval

(* The symbol id of the packet after p others of its block.                *)
Esi(p) ==
  LET pair == p \div (rep_interval + 1)
      at == p % (rep_interval + 1)
      rest == p - Paired * (rep_interval + 1)
      tail == K - Paired * rep_interval
  IN  CASE pair < Paired /\ at < rep_interval -> pair * rep_interval + at
        [] pair < Paired /\ at = rep_interval -> K + pair
        [] pair >= Paired /\ rest < tail      -> Paired * rep_interval + rest
        [] OTHER                              -> K + Paired + rest - tail

(* (slip: the block number stops at its greatest instead of wrapping)      *)
Packet_saturating(b, e) ==
  [blk |-> b, esi |-> e,
   sbn |-> IF b - first < SbnMod THEN b - first ELSE SbnMod - 1]

Packet(b, e) == [blk |-> b, sbn |-> (b - first) % SbnMod, esi |-> e]
NoPacket == [blk |-> -1, sbn |-> -1, esi |-> -1]
Frame(p) == [cc |-> sent % CcMod, pkt |-> p]

InBandPacket == Packet(blk, Esi(pos))
ExtraPacket(b) == Packet(b, K + Repair + extra[b])

(* (slip: a block has a packet more)                                       *)
LastOfBlock_long == pos = K + Repair

LastOfBlock == pos = K + Repair - 1

InBand ==
  /\ blk \in Blocks
  /\ IF LastOfBlock
     THEN blk' = blk + 1 /\ pos' = 0
     ELSE blk' = blk /\ pos' = pos + 1
  /\ sent' = sent + 1
  /\ UNCHANGED <<first, extra>>

Extra(b) ==
  /\ pos = 0
  /\ b >= first /\ b < blk /\ b >= blk - MaxRing
  /\ Repair + extra[b] < MaxRepair
  /\ extra' = [extra EXCEPT ![b] = @ + 1]
  /\ sent' = sent + 1
  /\ UNCHANGED <<first, blk, pos>>

Noop ==
  /\ sent' = sent + 1
  /\ UNCHANGED <<first, blk, pos, extra>>

(* The process starts again, with numbers from zero and a block of which   *)
(* nothing was sent.                                                       *)
Restart ==
  /\ blk' = IF pos = 0 THEN blk ELSE blk + 1
  /\ first' = blk'
  /\ pos' = 0 /\ sent' = 0
  /\ UNCHANGED extra

WireInit ==
  /\ first = 0 /\ blk = 0 /\ pos = 0 /\ sent = 0
  /\ extra = [b \in Blocks |-> 0]
  /\ frame = Frame(NoPacket)

WireNext ==
  \/ InBand /\ frame' = Frame(InBandPacket)
  \/ \E b \in Blocks : Extra(b) /\ frame' = Frame(ExtraPacket(b))
  \/ Noop /\ frame' = Frame(NoPacket)
  \/ Restart /\ UNCHANGED frame

WireSpec == WireInit /\ [][WireNext]_wireVars
=============================================================================
