----------------------------- MODULE RaptorqEnc -----------------------------
(***************************************************************************)
(* raptorq-enc: three threads and two bounded channels between standard    *)
(* input and the wire.  The reader cuts the input into blocks, the encoder *)
(* turns a block into source and repair symbols, interleaved, and spends   *)
(* idle airtime on extra repair for the blocks of a ring, and the writer   *)
(* sends a symbol, or a noop if none is there, each time a frame is due.   *)
(*                                                                         *)
(* A packet names its block (true number and 8-bit number) and its symbol  *)
(* id; what the symbols hold is the raptorq crate's.  Pacing is left out:  *)
(* the writer may take any time over a frame.                              *)
(***************************************************************************)
EXTENDS Integers, Sequences

CONSTANTS
  K,            \* source symbols of a block: block_size / SYMBOL_SIZE
  Repair,       \* baseline repair symbols: ceil(K * repair_overhead)
  MaxRepair,    \* ceiling: ceil(K * max_repair_overhead)
  Horizon,      \* --repair-horizon-ms, in ticks
  MaxRing,      \* MAX_RING
  QueueBlocks,  \* --queue-blocks
  SbnMod,       \* 256
  CcMod,        \* 16
  MaxBlocks,    \* bound: blocks on standard input, a padded last one among them
  MaxNoops      \* bound: noops the writer sends

ASSUME EncAssumption ==
  /\ K \in Nat \ {0} /\ Repair \in Nat /\ MaxRepair \in Nat
  /\ Repair <= MaxRepair
  /\ Horizon \in Nat /\ MaxRing \in Nat \ {0}
  /\ QueueBlocks \in Nat \ {0}   \* with 0 the channels would be rendezvous
  /\ SbnMod \in Nat \ {0} /\ CcMod \in Nat \ {0}
  /\ MaxBlocks \in Nat /\ MaxNoops \in Nat

VARIABLES
  \* reader
  rpc,          \* "read", "send", "last" or "exited"
  nread,        \* blocks handed to the encoder
  leftover,     \* does the input end within a block?
  blocks,       \* the channel of blocks
  \* encoder
  adaptive,     \* --adaptive-fec
  epc,          \* "poll", "emit", "extra" or "exited"
  block,        \* the block being emitted
  sbn,          \* its 8-bit number
  src_count, rep_count, next_rep_after,   \* interleave
  minted,       \* the extra packet being sent
  ring,         \* BlockGen records, oldest first
  packets,      \* the channel of packets
  \* writer
  wpc,          \* "poll", "write" or "exited"
  buf,          \* the frame being written
  cc,           \* the next continuity counter
  noops_sent,
  sink_ok,      \* no write has failed
  wire,         \* the frames written
  in_band, extras   \* history: how many of them were packets of emit_block,
                    \* and how many extra repair, by block

readerVars == <<rpc, nread, leftover>>
blockVars == <<block, sbn, src_count, rep_count, next_rep_after>>
ringVars == <<minted, ring>>
encoderVars == <<adaptive, epc, blockVars, ringVars>>
outVars == <<wire, in_band, extras>>
writerVars == <<wpc, buf, cc, noops_sent, sink_ok, outVars>>
encVars == <<readerVars, blocks, encoderVars, packets, writerVars>>

Packet(b, n, e) == [blk |-> b, sbn |-> n, esi |-> e]
NoPacket == Packet(-1, -1, -1)
Frame(c, p) == [cc |-> c, pkt |-> p]
IsNoop(frame) == frame.pkt = NoPacket
IsExtra(frame) == ~IsNoop(frame) /\ frame.pkt.esi >= K + Repair
IsInBand(frame) == ~IsNoop(frame) /\ ~IsExtra(frame)

PacketCap == QueueBlocks * (K + Repair)

(* Without repair the interval is u32::MAX, more than any block has.      *)
rep_interval == IF Repair = 0 THEN K + 1
                ELSE IF K \div Repair > 1 THEN K \div Repair ELSE 1

(* Without headroom above the baseline no extra repair is sent.            *)
Adaptive == adaptive /\ MaxRepair > Repair

-----------------------------------------------------------------------------
EncInit ==
  /\ rpc = "read" /\ nread = 0 /\ leftover \in BOOLEAN
  /\ blocks = <<>>
  /\ adaptive \in BOOLEAN
  /\ epc = "poll" /\ block = 0 /\ sbn = 0
  /\ src_count = 0 /\ rep_count = 0 /\ next_rep_after = rep_interval
  /\ minted = NoPacket /\ ring = <<>>
  /\ packets = <<>>
  /\ wpc = "poll" /\ buf = Frame(0, NoPacket) /\ cc = 0 /\ noops_sent = 0
  /\ sink_ok = TRUE /\ wire = <<>>
  /\ in_band = 0 /\ extras = [b \in 0..MaxBlocks |-> 0]

(* A whole block has been read.                                            *)
ReadBlock ==
  /\ rpc = "read"
  /\ nread < IF leftover THEN MaxBlocks - 1 ELSE MaxBlocks
  /\ rpc' = "send"
  /\ UNCHANGED <<nread, leftover, blocks, encoderVars, packets, writerVars>>

(* The input ends; what was read of a block is padded with zeros and sent. *)
ReadEof ==
  /\ rpc = "read"
  /\ rpc' = IF leftover THEN "last" ELSE "exited"
  /\ UNCHANGED <<nread, leftover, blocks, encoderVars, packets, writerVars>>

(* Reading fails; what was read of a block is dropped.                     *)
ReadError ==
  /\ rpc = "read"
  /\ rpc' = "exited"
  /\ UNCHANGED <<nread, leftover, blocks, encoderVars, packets, writerVars>>

(* Sending blocks while the channel is full.                               *)
SendBlock ==
  /\ rpc \in {"send", "last"}
  /\ epc # "exited" /\ Len(blocks) < QueueBlocks
  /\ blocks' = Append(blocks, nread)
  /\ nread' = nread + 1
  /\ rpc' = IF rpc = "last" THEN "exited" ELSE "read"
  /\ UNCHANGED <<leftover, encoderVars, packets, writerVars>>

SendBlockFails ==
  /\ rpc \in {"send", "last"}
  /\ epc = "exited"
  /\ rpc' = "exited"
  /\ UNCHANGED <<nread, leftover, blocks, encoderVars, packets, writerVars>>

Reader == ReadBlock \/ ReadEof \/ ReadError \/ SendBlock \/ SendBlockFails

-----------------------------------------------------------------------------
exhausted(bg) == bg.next_repair_id >= MaxRepair

(* (slip: the cap is forgotten)                                            *)
Stays_uncapped(r, i) == r[i].age <= Horizon /\ ~exhausted(r[i])

(* (slip: the horizon is forgotten)                                        *)
Stays_ageless(r, i) == Len(r) - i < MaxRing /\ ~exhausted(r[i])

Stays(r, i) ==
  /\ Len(r) - i < MaxRing
  /\ r[i].age <= Horizon
  /\ ~exhausted(r[i])

(* Blocks leave the ring at the front only, up to the first that stays.    *)
prune_ring(r) ==
  LET First(i) == Stays(r, i) /\ \A j \in 1..i - 1 : ~Stays(r, j)
  IN  IF \E i \in 1..Len(r) : Stays(r, i)
      THEN SubSeq(r, CHOOSE i \in 1..Len(r) : First(i), Len(r))
      ELSE <<>>

(* (slip: exhausted blocks are left to prune_ring)                         *)
pick_block_any(r) == DOMAIN r

(* Any live block may be picked: the coin decides.                         *)
pick_block(r) == {i \in DOMAIN r : ~exhausted(r[i])}

(* interleave: the next packets of a block, or none.                       *)
RepairDue == src_count >= next_rep_after /\ rep_count < Repair
SourceNext == ~RepairDue /\ src_count < K
RepairNext == RepairDue \/ (src_count >= K /\ rep_count < Repair)

TakeBlock ==
  /\ epc = "poll"
  /\ blocks # <<>>
  /\ block' = Head(blocks)
  /\ blocks' = Tail(blocks)
  /\ epc' = "emit"
  /\ src_count' = 0 /\ rep_count' = 0 /\ next_rep_after' = rep_interval
  /\ UNCHANGED <<readerVars, adaptive, sbn, ringVars, packets, writerVars>>

(* (slip: the closed channel is noticed before it is empty)                *)
InputEnded_early == rpc = "exited"

(* The reader is gone and its channel empty.                               *)
InputEnded == rpc = "exited" /\ blocks = <<>>

InputClosed ==
  /\ epc = "poll"
  /\ InputEnded
  /\ epc' = "exited"
  /\ UNCHANGED <<readerVars, blocks, adaptive, blockVars, ringVars, packets,
                 writerVars>>

Send(p) ==
  /\ wpc # "exited"
  /\ Len(packets) < PacketCap
  /\ packets' = Append(packets, p)

EmitSource ==
  /\ epc = "emit"
  /\ SourceNext
  /\ Send(Packet(block, sbn, src_count))
  /\ src_count' = src_count + 1
  /\ UNCHANGED <<readerVars, blocks, adaptive, epc, block, sbn, rep_count,
                 next_rep_after, ringVars, writerVars>>

(* (slip: the next repair stays due once the first was)                    *)
NextRepAfter_bunched == next_rep_after

NextRepAfter ==
  IF RepairDue THEN next_rep_after + rep_interval ELSE next_rep_after

EmitRepair ==
  /\ epc = "emit"
  /\ RepairNext
  /\ Send(Packet(block, sbn, K + rep_count))
  /\ rep_count' = rep_count + 1
  /\ next_rep_after' = NextRepAfter
  /\ UNCHANGED <<readerVars, blocks, adaptive, epc, block, sbn, src_count,
                 ringVars, writerVars>>

(* (slip: extra repair starts over with the baseline's)                    *)
BlockGen_over ==
  [blk |-> block, sbn |-> sbn, next_repair_id |-> 0, age |-> 0]

BlockGen ==
  [blk |-> block, sbn |-> sbn, next_repair_id |-> Repair, age |-> 0]

(* (slip: the block number is not kept to eight bits)                      *)
NextSbn_wide == sbn + 1

NextSbn == (sbn + 1) % SbnMod

(* All of the block is sent; with adaptive FEC it goes into the ring.      *)
EmitDone ==
  /\ epc = "emit"
  /\ ~SourceNext /\ ~RepairNext
  /\ epc' = "poll"
  /\ sbn' = NextSbn
  /\ ring' = IF Adaptive THEN prune_ring(Append(ring, BlockGen)) ELSE ring
  /\ UNCHANGED <<readerVars, blocks, adaptive, block, src_count, rep_count,
                 next_rep_after, minted, packets, writerVars>>

Idle == epc = "poll" /\ Adaptive /\ blocks = <<>> /\ rpc # "exited"

(* No block is waiting: mint one more repair symbol for a block of the     *)
(* ring, ...                                                               *)
MintExtra ==
  /\ Idle
  /\ LET r == prune_ring(ring) IN
       \E i \in pick_block(r) :
         /\ ring' = [r EXCEPT ![i].next_repair_id = @ + 1]
         /\ minted' = Packet(r[i].blk, r[i].sbn, K + r[i].next_repair_id)
  /\ epc' = "extra"
  /\ UNCHANGED <<readerVars, blocks, adaptive, blockVars, packets, writerVars>>

(* ... and send it, which blocks while the channel is full.                *)
SendExtra ==
  /\ epc = "extra"
  /\ Send(minted)
  /\ minted' = NoPacket
  /\ epc' = "poll"
  /\ UNCHANGED <<readerVars, blocks, adaptive, blockVars, ring, writerVars>>

(* Nothing to protect either: nap, with the ring pruned.                   *)
Nap ==
  /\ Idle
  /\ pick_block(prune_ring(ring)) = {}
  /\ ring' = prune_ring(ring)
  /\ UNCHANGED <<readerVars, blocks, adaptive, epc, blockVars, minted, packets,
                 writerVars>>

(* (slip: the extra packet's send is retried for ever)                     *)
Sending_inBand == epc = "emit" /\ (SourceNext \/ RepairNext)

Sending == epc = "extra" \/ (epc = "emit" /\ (SourceNext \/ RepairNext))

(* The writer is gone: the next send fails and the thread ends.            *)
SendFails ==
  /\ Sending
  /\ wpc = "exited"
  /\ epc' = "exited"
  /\ UNCHANGED <<readerVars, blocks, adaptive, blockVars, ringVars, packets,
                 writerVars>>

Encoder ==
  \/ TakeBlock \/ InputClosed \/ EmitSource \/ EmitRepair \/ EmitDone
  \/ MintExtra \/ SendExtra \/ Nap \/ SendFails

-----------------------------------------------------------------------------
(* (slip: the counter skips its last value)                                *)
NextCc_short == (cc + 1) % (CcMod - 1)

NextCc == (cc + 1) % CcMod

TakePacket ==
  /\ wpc = "poll"
  /\ packets # <<>>
  /\ buf' = Frame(cc, Head(packets))
  /\ packets' = Tail(packets)
  /\ cc' = NextCc
  /\ wpc' = "write"
  /\ UNCHANGED <<readerVars, blocks, encoderVars, noops_sent, sink_ok, outVars>>

StuffNoop ==
  /\ wpc = "poll"
  /\ packets = <<>> /\ epc # "exited"
  /\ noops_sent < MaxNoops
  /\ noops_sent' = noops_sent + 1
  /\ buf' = Frame(cc, NoPacket)
  /\ cc' = NextCc
  /\ wpc' = "write"
  /\ UNCHANGED <<readerVars, blocks, encoderVars, packets, sink_ok, outVars>>

(* The encoder is gone and the channel empty.                              *)
Drained ==
  /\ wpc = "poll"
  /\ packets = <<>> /\ epc = "exited"
  /\ wpc' = "exited"
  /\ UNCHANGED <<readerVars, blocks, encoderVars, packets, buf, cc,
                 noops_sent, sink_ok, outVars>>

WriteFrame ==
  /\ wpc = "write"
  /\ wire' = Append(wire, buf)
  /\ in_band' = IF IsInBand(buf) THEN in_band + 1 ELSE in_band
  /\ extras' = IF IsExtra(buf) THEN [extras EXCEPT ![buf.pkt.blk] = @ + 1]
               ELSE extras
  /\ wpc' = "poll"
  /\ UNCHANGED <<readerVars, blocks, encoderVars, packets, buf, cc,
                 noops_sent, sink_ok>>

(* Standard output or the ZeroMQ socket fails.                             *)
WriteFails ==
  /\ wpc = "write"
  /\ sink_ok' = FALSE
  /\ wpc' = "exited"
  /\ UNCHANGED <<readerVars, blocks, encoderVars, packets, buf, cc,
                 noops_sent, outVars>>

Writer == TakePacket \/ StuffNoop \/ Drained \/ WriteFrame \/ WriteFails

(* Time passes for the blocks of the ring (created.elapsed()).             *)
EncTick ==
  /\ \E i \in DOMAIN ring : ring[i].age <= Horizon
  /\ ring' = [i \in DOMAIN ring |->
                [ring[i] EXCEPT !.age = IF @ <= Horizon THEN @ + 1 ELSE @]]
  /\ UNCHANGED <<readerVars, blocks, adaptive, epc, blockVars, minted, packets,
                 writerVars>>

EncNext == Reader \/ Encoder \/ Writer \/ EncTick

EncSpec == EncInit /\ [][EncNext]_encVars

(* Every thread runs; that a write fails is not assumed, that the input    *)
(* ends is.                                                                *)
EncFairness ==
  /\ WF_encVars(Reader)
  /\ WF_encVars(Encoder)
  /\ WF_encVars(Writer)

EncFairSpec == EncSpec /\ EncFairness

-----------------------------------------------------------------------------
Packets == [blk : Nat, sbn : 0..SbnMod - 1, esi : Nat] \cup {NoPacket}
Frames == [cc : 0..CcMod - 1, pkt : Packets]

(* Every variable has its type.                                            *)
EncTypeOK ==
  /\ rpc \in {"read", "send", "last", "exited"}
  /\ nread \in Nat /\ leftover \in BOOLEAN
  /\ blocks \in Seq(Nat) /\ Len(blocks) <= QueueBlocks
  /\ adaptive \in BOOLEAN
  /\ epc \in {"poll", "emit", "extra", "exited"}
  /\ block \in Nat /\ sbn \in 0..SbnMod - 1
  /\ src_count \in 0..K /\ rep_count \in 0..Repair /\ next_rep_after \in Nat
  /\ minted \in Packets
  /\ ring \in Seq([blk : Nat, sbn : 0..SbnMod - 1, next_repair_id : Nat,
                   age : 0..Horizon + 1])
  /\ packets \in Seq(Packets) /\ Len(packets) <= PacketCap
  /\ wpc \in {"poll", "write", "exited"}
  /\ buf \in Frames /\ cc \in 0..CcMod - 1
  /\ noops_sent \in 0..MaxNoops /\ sink_ok \in BOOLEAN
  /\ wire \in Seq(Frames)
  /\ in_band \in Nat /\ extras \in [0..MaxBlocks -> Nat]

DataOnWire == {i \in DOMAIN wire : ~IsNoop(wire[i])}
IsInBandRepair(frame) == IsInBand(frame) /\ frame.pkt.esi >= K

(* No symbol is ever sent twice: extra repair goes on where the baseline,  *)
(* or the last extra repair for that block, left off, so every frame can   *)
(* help (enc main.rs:225-229, 399-402).                                    *)
EverySymbolIsNew ==
  \A i, j \in DataOnWire : wire[i].pkt = wire[j].pkt => i = j

(* No repair is minted for a block older than the horizon, nor beyond the  *)
(* ceiling, though prune_ring looks at the front of the ring only.         *)
NoStaleMint ==
  [][MintExtra => \E i \in DOMAIN ring :
       /\ ring[i].blk = minted'.blk
       /\ ring[i].age <= Horizon
       /\ minted'.esi < K + MaxRepair]_encVars

(* The baseline repair is spread over the block: symbol j of it follows    *)
(* (j+1) * rep_interval source symbols, or all of them, so a burst of      *)
(* losses takes few (interleave, enc main.rs:493-517).                     *)
RepairIsSpread ==
  \A i \in DOMAIN wire : IsInBandRepair(wire[i]) =>
    LET j == wire[i].pkt.esi - K
        Before == {s \in DataOnWire : /\ s < i
                                      /\ wire[s].pkt.blk = wire[i].pkt.blk
                                      /\ wire[s].pkt.esi < K}
        due == (j + 1) * rep_interval
    IN  Before = {s \in DataOnWire : /\ wire[s].pkt.blk = wire[i].pkt.blk
                                     /\ wire[s].pkt.esi < K
                                     /\ wire[s].pkt.esi < due}

(* Nothing read is lost on the way out: when the writer ends and no write  *)
(* has failed, every symbol of every block read, the padded last one       *)
(* included, is on the wire, whatever was in the channels when the input   *)
(* closed.                                                                 *)
ShutdownDrains ==
  wpc = "exited" /\ sink_ok =>
    \A b \in 0..nread - 1 : \A e \in 0..K + Repair - 1 :
      \E i \in DataOnWire : wire[i].pkt.blk = b /\ wire[i].pkt.esi = e

(* The continuity counter goes up by one from frame to frame, noops        *)
(* included, which is what the decoder's loss count relies on.             *)
CounterHasNoGap ==
  \A i \in 1..Len(wire) - 1 : wire[i + 1].cc = (wire[i].cc + 1) % CcMod

(* What goes on the wire is what EncWire says, which the decoder's side    *)
(* takes for granted (LossyLink): a block's symbols all, in the order of   *)
(* interleave, under the right 8-bit number, and extra repair between two  *)
(* blocks, each symbol the next of its block, for one of the last MAX_RING *)
(* blocks and within the ceiling, whatever the threads and the channels    *)
(* between them did (enc main.rs:264-329, 493-517).                        *)
Wire == INSTANCE EncWire
          WITH Blocks <- 0..MaxBlocks, first <- 0,
               blk <- in_band \div (K + Repair), pos <- in_band % (K + Repair),
               extra <- extras, sent <- Len(wire),
               frame <- IF wire = <<>> THEN Frame(0, NoPacket)
                        ELSE wire[Len(wire)]

WireSpec == Wire!WireSpec

(* Once the input has ended all three threads end, whether the writer      *)
(* drains the channels or a write fails while they are full.               *)
Terminates == <>(rpc = "exited" /\ epc = "exited" /\ wpc = "exited")

=============================================================================
