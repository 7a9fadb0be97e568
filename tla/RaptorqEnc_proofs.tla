-------------------------- MODULE RaptorqEnc_proofs --------------------------
(***************************************************************************)
(* Proofs about the encoder, for every block size, repair, ring, queue,    *)
(* modulus and length of input.                                            *)
(***************************************************************************)
EXTENDS RaptorqEnc, SequenceTheorems, WellFoundedInduction, TLAPS

-----------------------------------------------------------------------------
(* Every set of numbers has a least one.                                   *)
LEMMA Least ==
  ASSUME NEW S, S \subseteq Nat, S # {}
  PROVE  \E n \in S : \A k \in S : n <= k
<1> DEFINE Below == {p \in Nat \X Nat : p[1] < p[2]}
<1>1. IsWellFoundedOn(Below, Nat)
  BY NatLessThanWellFounded DEF OpToRel
<1>2. \A j, k \in Nat : j < k => <<j, k>> \in Below
  OBVIOUS
<1> HIDE DEF Below
<1>3. PICK n \in S : \A k \in S : ~ (<<k, n>> \in Below)
  BY <1>1, WFMin
<1>4. ASSUME NEW k \in S PROVE n <= k
  <2>1. n \in Nat /\ k \in Nat
    OBVIOUS
  <2>2. ~ (k < n)
    BY <1>2, <1>3, <2>1, Zenon
  <2> QED
    BY <2>1, <2>2
<1> QED
  BY <1>4

(* The ring.                                                               *)

Gens == [blk : Nat, sbn : 0..SbnMod - 1, next_repair_id : Nat,
         age : 0..Horizon + 1]

(* prune_ring leaves a suffix, the first of which stays (enc               *)
(* main.rs:264-286).                                                       *)
LEMMA PruneIsSuffix ==
  ASSUME NEW r \in Seq(Gens)
  PROVE  \E m \in 1..Len(r) + 1 :
           /\ prune_ring(r) = SubSeq(r, m, Len(r))
           /\ m <= Len(r) => Stays(r, m)
<1> DEFINE S == {i \in 1..Len(r) : Stays(r, i)}
<1>0. Len(r) \in Nat
  BY LenProperties
<1>1. CASE S = {}
  <2>1. prune_ring(r) = <<>>
    BY <1>1 DEF prune_ring
  <2>2. SubSeq(r, Len(r) + 1, Len(r)) = <<>>
    BY <1>0, SubSeqEmpty
  <2> QED
    BY <1>0, <2>1, <2>2
<1>2. CASE S # {}
  <2> DEFINE First(i) == Stays(r, i) /\ \A j \in 1..i - 1 : ~Stays(r, j)
  <2>1. S \subseteq Nat
    BY <1>0
  <2>2. PICK n \in S : \A k \in S : n <= k
    BY <1>2, <2>1, Least
  <2>3. n \in 1..Len(r) /\ First(n)
    BY <1>0, <2>2
  <2> DEFINE m == CHOOSE i \in 1..Len(r) : First(i)
  <2>4. m \in 1..Len(r) /\ First(m)
    BY <2>3
  <2>5. prune_ring(r) = SubSeq(r, m, Len(r))
    BY <1>2 DEF prune_ring
  <2> HIDE DEF m
  <2> QED
    BY <1>0, <2>4, <2>5
<1> QED
  BY <1>1, <1>2

LEMMA PrunedType ==
  ASSUME NEW r \in Seq(Gens) PROVE prune_ring(r) \in Seq(Gens)
<1>0. Len(r) \in Nat /\ \A i \in 1..Len(r) : r[i] \in Gens
  BY LenProperties, ElementOfSeq
<1>1. PICK m \in 1..Len(r) + 1 : prune_ring(r) = SubSeq(r, m, Len(r))
  BY PruneIsSuffix
<1> QED
  BY <1>0, <1>1, SubSeqProperties

-----------------------------------------------------------------------------
(* Type correctness.                                                       *)

LEMMA IntervalType == rep_interval \in Nat \ {0}
BY EncAssumption DEF rep_interval

LEMMA PacketType ==
  ASSUME NEW b \in Nat, NEW n \in 0..SbnMod - 1, NEW e \in Nat
  PROVE  Packet(b, n, e) \in Packets
BY DEF Packet, Packets

LEMMA SendType ==
  ASSUME EncTypeOK, NEW p \in Packets, Send(p)
  PROVE  packets' \in Seq(Packets) /\ Len(packets') <= PacketCap
<1>1. packets \in Seq(Packets) /\ Len(packets) < PacketCap
      /\ packets' = Append(packets, p)
  BY DEF EncTypeOK, Send
<1>2. PacketCap \in Nat
  BY EncAssumption DEF PacketCap
<1>3. packets' \in Seq(Packets) /\ Len(packets') = Len(packets) + 1
  BY <1>1, AppendProperties
<1> QED
  BY <1>1, <1>2, <1>3, LenProperties

LEMMA EncInitType == ASSUME EncInit PROVE EncTypeOK
<1> USE EncAssumption
<1>1. NoPacket \in Packets /\ 0 \in 0..CcMod - 1 /\ 0 \in 0..SbnMod - 1
  BY DEF Packets
<1>2. Frame(0, NoPacket) \in Frames
  BY <1>1 DEF Frame, Frames
<1>3. PacketCap \in Nat /\ rep_interval \in Nat
  BY IntervalType DEF PacketCap
<1>4. extras \in [0..MaxBlocks -> Nat]
  BY DEF EncInit
<1> QED
  BY <1>1, <1>2, <1>3, <1>4 DEF EncInit, EncTypeOK

LEMMA ReaderType == ASSUME EncTypeOK, Reader PROVE EncTypeOK'
<1> USE EncAssumption DEF readerVars, encoderVars, blockVars, ringVars, writerVars,
                          outVars
<1>1. CASE ReadBlock
  BY <1>1 DEF ReadBlock, EncTypeOK
<1>2. CASE ReadEof
  BY <1>2 DEF ReadEof, EncTypeOK
<1>3. CASE ReadError
  BY <1>3 DEF ReadError, EncTypeOK
<1>4. CASE SendBlock
  <2>1. /\ blocks \in Seq(Nat) /\ nread \in Nat
        /\ blocks' = Append(blocks, nread) /\ Len(blocks) < QueueBlocks
    BY <1>4 DEF SendBlock, EncTypeOK
  <2>2. blocks' \in Seq(Nat) /\ Len(blocks') = Len(blocks) + 1
    BY <2>1, AppendProperties
  <2>3. Len(blocks') <= QueueBlocks
    BY <2>1, <2>2, LenProperties
  <2> QED
    BY <1>4, <2>2, <2>3 DEF SendBlock, EncTypeOK
<1>5. CASE SendBlockFails
  BY <1>5 DEF SendBlockFails, EncTypeOK
<1> QED
  BY <1>1, <1>2, <1>3, <1>4, <1>5 DEF Reader

LEMMA EncoderType == ASSUME EncTypeOK, Encoder PROVE EncTypeOK'
<1> USE EncAssumption DEF readerVars, encoderVars, blockVars, ringVars, writerVars,
                          outVars
<1>0. /\ blocks \in Seq(Nat) /\ ring \in Seq(Gens) /\ minted \in Packets
      /\ block \in Nat /\ sbn \in 0..SbnMod - 1
      /\ src_count \in 0..K /\ rep_count \in 0..Repair /\ next_rep_after \in Nat
  BY DEF EncTypeOK, Gens
<1>1. CASE TakeBlock
  <2>1. blocks # <<>> /\ block' = Head(blocks) /\ blocks' = Tail(blocks)
    BY <1>1 DEF TakeBlock
  <2>2. block' \in Nat /\ blocks' \in Seq(Nat) /\ Len(blocks') = Len(blocks) - 1
    BY <1>0, <2>1, HeadTailProperties
  <2>3. Len(blocks') <= QueueBlocks
    BY <1>0, <2>2, LenProperties DEF EncTypeOK
  <2>4. rep_interval \in Nat
    BY IntervalType
  <2> QED
    BY <1>1, <2>2, <2>3, <2>4 DEF TakeBlock, EncTypeOK
<1>2. CASE InputClosed
  BY <1>2 DEF InputClosed, EncTypeOK
<1>3. CASE EmitSource
  <2>1. Packet(block, sbn, src_count) \in Packets
    BY <1>0, PacketType
  <2>2. packets' \in Seq(Packets) /\ Len(packets') <= PacketCap
    BY <1>3, <2>1, SendType DEF EmitSource
  <2>3. src_count' \in 0..K
    BY <1>0, <1>3 DEF EmitSource, SourceNext
  <2> QED
    BY <1>3, <2>2, <2>3 DEF EmitSource, EncTypeOK
<1>4. CASE EmitRepair
  <2>1. Packet(block, sbn, K + rep_count) \in Packets
    BY <1>0, PacketType
  <2>2. packets' \in Seq(Packets) /\ Len(packets') <= PacketCap
    BY <1>4, <2>1, SendType DEF EmitRepair
  <2>3. rep_count' \in 0..Repair
    BY <1>0, <1>4 DEF EmitRepair, RepairNext, RepairDue
  <2>4. next_rep_after' \in Nat
    BY <1>0, <1>4, IntervalType DEF EmitRepair, NextRepAfter
  <2> QED
    BY <1>4, <2>2, <2>3, <2>4 DEF EmitRepair, EncTypeOK
<1>5. CASE EmitDone
  <2>1. sbn' \in 0..SbnMod - 1
    BY <1>0, <1>5 DEF EmitDone, NextSbn
  <2>2. BlockGen \in Gens
    BY <1>0 DEF BlockGen, Gens
  <2>3. Append(ring, BlockGen) \in Seq(Gens)
    BY <1>0, <2>2, AppendProperties
  <2>4. ring' \in Seq(Gens)
    BY <1>0, <1>5, <2>3, PrunedType DEF EmitDone
  <2> QED
    BY <1>5, <2>1, <2>4 DEF EmitDone, EncTypeOK, Gens
<1>6. CASE MintExtra
  <2> DEFINE r == prune_ring(ring)
  <2>1. r \in Seq(Gens)
    BY <1>0, PrunedType
  <2>2. PICK i \in pick_block(r) :
          /\ ring' = [r EXCEPT ![i].next_repair_id = @ + 1]
          /\ minted' = Packet(r[i].blk, r[i].sbn, K + r[i].next_repair_id)
    BY <1>6 DEF MintExtra
  <2> HIDE DEF r
  <2>3. i \in 1..Len(r) /\ r[i] \in Gens
    BY <2>1, <2>2, LenProperties, ElementOfSeq DEF pick_block
  <2>4. /\ r[i].blk \in Nat /\ r[i].sbn \in 0..SbnMod - 1
        /\ r[i].next_repair_id \in Nat /\ r[i].age \in 0..Horizon + 1
    BY <2>3 DEF Gens
  <2>5. K + r[i].next_repair_id \in Nat /\ r[i].next_repair_id + 1 \in Nat
    BY <2>4
  <2>6. minted' \in Packets
    BY <2>2, <2>4, <2>5, PacketType, Zenon
  <2>7. ring' = [r EXCEPT ![i] = [r[i] EXCEPT !.next_repair_id = @ + 1]]
    BY <2>2
  <2>8. [r[i] EXCEPT !.next_repair_id = @ + 1] \in Gens
    BY <2>3, <2>5 DEF Gens
  <2>9. ring' \in Seq(Gens)
    BY <2>1, <2>3, <2>7, <2>8, ExceptSeq
  <2> QED
    BY <1>6, <2>6, <2>9 DEF MintExtra, EncTypeOK, Gens
<1>7. CASE SendExtra
  <2>1. packets' \in Seq(Packets) /\ Len(packets') <= PacketCap
    BY <1>0, <1>7, SendType DEF SendExtra
  <2>2. NoPacket \in Packets
    BY DEF Packets
  <2> QED
    BY <1>7, <2>1, <2>2 DEF SendExtra, EncTypeOK
<1>8. CASE Nap
  <2>1. ring' \in Seq(Gens)
    BY <1>0, <1>8, PrunedType DEF Nap
  <2> QED
    BY <1>8, <2>1 DEF Nap, EncTypeOK, Gens
<1>9. CASE SendFails
  BY <1>9 DEF SendFails, EncTypeOK
<1> QED
  BY <1>1, <1>2, <1>3, <1>4, <1>5, <1>6, <1>7, <1>8, <1>9 DEF Encoder

LEMMA WriterType == ASSUME EncTypeOK, Writer PROVE EncTypeOK'
<1> USE EncAssumption DEF readerVars, encoderVars, blockVars, ringVars, writerVars,
                          outVars
<1>0. /\ packets \in Seq(Packets) /\ Len(packets) <= PacketCap
      /\ cc \in 0..CcMod - 1 /\ buf \in Frames /\ wire \in Seq(Frames)
      /\ noops_sent \in 0..MaxNoops
  BY DEF EncTypeOK
<1>1. NextCc \in 0..CcMod - 1
  BY <1>0 DEF NextCc
<1>2. CASE TakePacket
  <2>1. /\ Head(packets) \in Packets /\ packets' \in Seq(Packets)
        /\ Len(packets') = Len(packets) - 1
    BY <1>0, <1>2, HeadTailProperties DEF TakePacket
  <2>2. Len(packets') <= PacketCap
    BY <1>0, <2>1, LenProperties DEF PacketCap
  <2>3. buf' \in Frames
    BY <1>0, <1>2, <2>1 DEF TakePacket, Frame, Frames
  <2> QED
    BY <1>1, <1>2, <2>1, <2>2, <2>3 DEF TakePacket, EncTypeOK
<1>3. CASE StuffNoop
  <2>1. buf' \in Frames
    BY <1>0, <1>3 DEF StuffNoop, Frame, Frames, Packets
  <2>2. noops_sent' \in 0..MaxNoops
    BY <1>0, <1>3 DEF StuffNoop
  <2> QED
    BY <1>1, <1>3, <2>1, <2>2 DEF StuffNoop, EncTypeOK
<1>4. CASE Drained
  BY <1>4 DEF Drained, EncTypeOK
<1>5. CASE WriteFrame
  <2>1. wire' \in Seq(Frames)
    BY <1>0, <1>5, AppendProperties DEF WriteFrame
  <2>2. in_band' \in Nat
    BY <1>5 DEF WriteFrame, EncTypeOK
  <2>3. extras' \in [0..MaxBlocks -> Nat]
    <3>1. extras \in [0..MaxBlocks -> Nat]
      BY DEF EncTypeOK
    <3>2. extras' = extras \/ extras' = [extras EXCEPT ![buf.pkt.blk] = @ + 1]
      BY <1>5 DEF WriteFrame
    <3>3. ASSUME NEW b PROVE [extras EXCEPT ![b] = @ + 1] \in [0..MaxBlocks -> Nat]
      <4>1. CASE b \in 0..MaxBlocks
        BY <3>1, <4>1
      <4>2. CASE b \notin 0..MaxBlocks
        BY <3>1, <4>2
      <4> QED
        BY <4>1, <4>2
    <3> QED
      BY <3>1, <3>2, <3>3
  <2> QED
    BY <1>5, <2>1, <2>2, <2>3 DEF WriteFrame, EncTypeOK
<1>6. CASE WriteFails
  BY <1>6 DEF WriteFails, EncTypeOK
<1> QED
  BY <1>2, <1>3, <1>4, <1>5, <1>6 DEF Writer

LEMMA TickType == ASSUME EncTypeOK, EncTick PROVE EncTypeOK'
<1> USE EncAssumption DEF readerVars, encoderVars, blockVars, ringVars, writerVars,
                          outVars
<1>1. ring \in Seq(Gens)
  BY DEF EncTypeOK, Gens
<1>2. /\ Len(ring) \in Nat /\ DOMAIN ring = 1..Len(ring)
      /\ \A i \in 1..Len(ring) : ring[i] \in Gens
  BY <1>1, LenProperties, ElementOfSeq
<1> DEFINE Older(g) == [g EXCEPT !.age = IF @ <= Horizon THEN @ + 1 ELSE @]
<1>3. \A g \in Gens : Older(g) \in Gens
  BY DEF Gens
<1>4. ring' = [i \in 1..Len(ring) |-> Older(ring[i])]
  BY <1>2 DEF EncTick
<1> HIDE DEF Older
<1>5. ring' \in Seq(Gens)
  BY <1>2, <1>3, <1>4
<1> QED
  BY <1>5 DEF EncTick, EncTypeOK, Gens

LEMMA EncStepType ==
  ASSUME EncTypeOK, [EncNext]_encVars
  PROVE  EncTypeOK'
<1>1. CASE UNCHANGED encVars
  BY <1>1 DEF encVars, readerVars, encoderVars, blockVars, ringVars, writerVars,
              outVars, EncTypeOK
<1> QED
  BY <1>1, ReaderType, EncoderType, WriterType, TickType DEF EncNext

(* Counts, ids, channels and the ring keep their types and bounds for every *)
(* size of block, queue and ring (enc main.rs:140-173, 347-420).           *)
THEOREM EncTypeCorrect == EncSpec => []EncTypeOK
<1>1. EncInit => EncTypeOK
  BY EncInitType
<1>2. EncTypeOK /\ [EncNext]_encVars => EncTypeOK'
  BY EncStepType
<1> QED
  BY <1>1, <1>2, PTL DEF EncSpec

-----------------------------------------------------------------------------
(* The continuity counter.                                                 *)

Last(s) == s[Len(s)]
Follows(c, frames) == frames # <<>> => c = (Last(frames).cc + 1) % CcMod

(* The next frame's counter is the one after the last frame's, whether     *)
(* that is on the wire or still to be written.                             *)
CounterInv ==
  /\ CounterHasNoGap
  /\ wpc = "poll" => Follows(cc, wire)
  /\ wpc = "write" => Follows(buf.cc, wire) /\ cc = (buf.cc + 1) % CcMod

LEMMA CounterStep ==
  ASSUME EncTypeOK, CounterInv, [EncNext]_encVars
  PROVE  CounterInv'
<1> USE DEF readerVars, encoderVars, blockVars, ringVars, writerVars, outVars
<1>1. ASSUME UNCHANGED <<wpc, buf, cc, wire>> PROVE CounterInv'
  BY <1>1 DEF CounterInv, CounterHasNoGap, Follows, Last
<1>2. CASE Reader
  BY <1>1, <1>2 DEF Reader, ReadBlock, ReadEof, ReadError, SendBlock, SendBlockFails
<1>3. CASE Encoder
  BY <1>1, <1>3 DEF Encoder, TakeBlock, InputClosed, EmitSource, EmitRepair, EmitDone,
                    MintExtra, SendExtra, Nap, SendFails
<1>4. CASE TakePacket
  BY <1>4 DEF TakePacket, Frame, NextCc, CounterInv, CounterHasNoGap, Follows, Last
<1>5. CASE StuffNoop
  BY <1>5 DEF StuffNoop, Frame, NextCc, CounterInv, CounterHasNoGap, Follows, Last
<1>6. CASE Drained
  BY <1>6 DEF Drained, CounterInv, CounterHasNoGap, Follows, Last
<1>7. CASE WriteFrame
  <2>1. wire \in Seq(Frames) /\ buf \in Frames /\ wire' = Append(wire, buf)
    BY <1>7 DEF WriteFrame, EncTypeOK
  <2>2. /\ Len(wire) \in Nat /\ Len(wire') = Len(wire) + 1
        /\ \A i \in 1..Len(wire) : wire'[i] = wire[i]
        /\ wire'[Len(wire) + 1] = buf
    BY <2>1, AppendProperties, LenProperties
  <2>3. Follows(buf.cc, wire) /\ cc = (buf.cc + 1) % CcMod /\ CounterHasNoGap
    BY <1>7 DEF WriteFrame, CounterInv
  <2>4. ASSUME NEW i \in 1..Len(wire') - 1
        PROVE  wire'[i + 1].cc = (wire'[i].cc + 1) % CcMod
    <3>1. CASE i = Len(wire)
      <4>1. wire # <<>>
        BY <2>1, <2>2, <2>4, <3>1, EmptySeq
      <4> QED
        BY <2>2, <2>3, <2>4, <3>1, <4>1 DEF Follows, Last
    <3>2. CASE i # Len(wire)
      <4>1. i \in 1..Len(wire) - 1 /\ i + 1 \in 1..Len(wire)
        BY <2>2, <2>4, <3>2
      <4> QED
        BY <2>2, <2>3, <4>1 DEF CounterHasNoGap
    <3> QED
      BY <3>1, <3>2
  <2>5. CounterHasNoGap'
    BY <2>4 DEF CounterHasNoGap
  <2>6. Follows(cc, wire)'
    BY <1>7, <2>2, <2>3 DEF WriteFrame, Follows, Last
  <2> QED
    BY <1>7, <2>5, <2>6 DEF WriteFrame, CounterInv
<1>8. CASE WriteFails
  BY <1>8 DEF WriteFails, CounterInv, CounterHasNoGap, Follows, Last
<1>9. CASE EncTick
  BY <1>1, <1>9 DEF EncTick
<1>10. CASE UNCHANGED encVars
  BY <1>1, <1>10 DEF encVars
<1> QED
  BY <1>2, <1>3, <1>4, <1>5, <1>6, <1>7, <1>8, <1>9, <1>10 DEF EncNext, Writer

(* Whatever the three threads do, the counter on the wire has no gap (enc  *)
(* main.rs:452-465, common lib.rs:83-89).                                  *)
THEOREM CounterCorrect == EncSpec => []CounterHasNoGap
<1>1. EncInit => CounterInv
  BY EmptySeq DEF EncInit, CounterInv, CounterHasNoGap, Follows
<1>2. EncTypeOK /\ CounterInv /\ [EncNext]_encVars => CounterInv'
  BY CounterStep
<1>3. CounterInv => CounterHasNoGap
  BY DEF CounterInv
<1> QED
  BY <1>1, <1>2, <1>3, EncTypeCorrect, PTL DEF EncSpec

-----------------------------------------------------------------------------
(* The ring is in order of age.                                            *)

InOrderOfAge(r) == \A i, j \in 1..Len(r) : i < j => r[j].age <= r[i].age

RingInv == InOrderOfAge(ring)

LEMMA PrunedOrder ==
  ASSUME NEW r \in Seq(Gens), InOrderOfAge(r)
  PROVE  /\ InOrderOfAge(prune_ring(r))
         /\ \A i \in 1..Len(prune_ring(r)) :
              /\ prune_ring(r)[i].age <= Horizon
              /\ \E j \in 1..Len(r) : prune_ring(r)[i] = r[j]
<1>1. PICK m \in 1..Len(r) + 1 : /\ prune_ring(r) = SubSeq(r, m, Len(r))
                                 /\ m <= Len(r) => Stays(r, m)
  BY PruneIsSuffix
<1>2. /\ Len(r) \in Nat
      /\ \A i \in 1..Len(r) : r[i] \in Gens
  BY LenProperties, ElementOfSeq
<1>3. \A i \in 1..Len(r) : r[i].age \in Int
  BY SMTT(30), <1>2, EncAssumption DEF Gens
<1> DEFINE p == prune_ring(r)
<1>4. /\ Len(p) = IF m <= Len(r) THEN Len(r) - m + 1 ELSE 0
      /\ \A i \in 1..Len(r) - m + 1 : p[i] = r[m + i - 1]
  BY <1>1, <1>2, SubSeqProperties
<1> HIDE DEF p
<1>5. ASSUME NEW i \in 1..Len(p)
      PROVE  /\ m <= Len(r) /\ m + i - 1 \in 1..Len(r) /\ p[i] = r[m + i - 1]
  BY <1>2, <1>4, <1>5
<1>6. InOrderOfAge(p)
  <2> SUFFICES ASSUME NEW i \in 1..Len(p), NEW j \in 1..Len(p), i < j
               PROVE  p[j].age <= p[i].age
    BY DEF InOrderOfAge
  <2>1. m + i - 1 < m + j - 1
    BY <1>4
  <2> QED
    BY <1>5, <2>1 DEF InOrderOfAge
<1>7. ASSUME NEW i \in 1..Len(p) PROVE p[i].age <= Horizon
  <2>1. m <= Len(r) /\ r[m].age <= Horizon
    BY <1>1, <1>5, <1>7 DEF Stays
  <2>2. PICK k \in 1..Len(r) : k = m + i - 1 /\ p[i] = r[k]
    BY <1>5, <1>7
  <2>3. k = m \/ m < k
    BY <1>4, <1>7, <2>2
  <2>4. m \in 1..Len(r)
    BY <2>1
  <2>5. r[k].age <= r[m].age
    <3>1. CASE k = m
      BY <1>3, <2>4, <3>1
    <3>2. CASE m < k
      BY <2>2, <2>4, <3>2 DEF InOrderOfAge
    <3> QED
      BY <2>3, <3>1, <3>2
  <2>6. r[k].age \in Int /\ r[m].age \in Int /\ Horizon \in Int
    BY <1>3, <2>2, <2>4, EncAssumption
  <2> QED
    BY <2>1, <2>2, <2>5, <2>6
<1> QED
  BY <1>5, <1>6, <1>7 DEF p

LEMMA RingStep ==
  ASSUME EncTypeOK, RingInv, [EncNext]_encVars
  PROVE  RingInv'
<1> USE DEF readerVars, encoderVars, blockVars, ringVars, writerVars, outVars
<1>1. ring \in Seq(Gens) /\ InOrderOfAge(ring)
  BY DEF EncTypeOK, RingInv, Gens
<1>2. /\ Len(ring) \in Nat /\ DOMAIN ring = 1..Len(ring)
      /\ \A i \in 1..Len(ring) : ring[i] \in Gens
  BY <1>1, LenProperties, ElementOfSeq
<1>3. \A g \in Gens : g.age \in 0..Horizon + 1
  BY DEF Gens
<1>4. CASE UNCHANGED ring
  BY <1>4 DEF RingInv, InOrderOfAge
<1>5. CASE EmitDone /\ ring' = prune_ring(Append(ring, BlockGen))
  <2> DEFINE r == Append(ring, BlockGen)
  <2>1. BlockGen \in Gens /\ BlockGen.age = 0
    BY EncAssumption DEF BlockGen, Gens, EncTypeOK
  <2>2. /\ r \in Seq(Gens) /\ Len(r) = Len(ring) + 1
        /\ \A i \in 1..Len(ring) : r[i] = ring[i]
        /\ r[Len(ring) + 1] = BlockGen
    BY <1>1, <2>1, AppendProperties
  <2> HIDE DEF r
  <2>3. ASSUME NEW i \in 1..Len(r), NEW j \in 1..Len(r), i < j
        PROVE  r[j].age <= r[i].age
    <3>1. i \in 1..Len(ring)
      BY <1>2, <2>2, <2>3
    <3>2. CASE j \in 1..Len(ring)
      BY <1>1, <2>2, <2>3, <3>1, <3>2 DEF InOrderOfAge
    <3>3. CASE j = Len(ring) + 1
      <4>1. r[j].age = 0 /\ r[i].age \in 0..Horizon + 1
        BY <1>2, <1>3, <2>1, <2>2, <3>1, <3>3
      <4> QED
        BY <4>1
    <3> QED
      BY <1>2, <2>2, <2>3, <3>2, <3>3
  <2>4. InOrderOfAge(r)
    BY <2>3 DEF InOrderOfAge
  <2>5. InOrderOfAge(prune_ring(r))
    BY <2>2, <2>4, PrunedOrder
  <2> QED
    BY <1>5, <2>5 DEF r, RingInv
<1>6. CASE MintExtra
  <2> DEFINE r == prune_ring(ring)
  <2>1. r \in Seq(Gens) /\ InOrderOfAge(r)
    BY <1>1, PrunedType, PrunedOrder
  <2>2. PICK n \in pick_block(r) : ring' = [r EXCEPT ![n].next_repair_id = @ + 1]
    BY <1>6 DEF MintExtra
  <2> HIDE DEF r
  <2>3. /\ n \in 1..Len(r) /\ DOMAIN r = 1..Len(r)
        /\ \A i \in 1..Len(r) : r[i] \in Gens
    BY <2>1, <2>2, LenProperties, ElementOfSeq DEF pick_block
  <2>4. Len(ring') = Len(r) /\ \A i \in 1..Len(r) : ring'[i].age = r[i].age
    <3>1. ring' = [r EXCEPT ![n] = [r[n] EXCEPT !.next_repair_id = @ + 1]]
      BY <2>2
    <3>2. [r[n] EXCEPT !.next_repair_id = @ + 1] \in Gens
      BY <2>3 DEF Gens
    <3>3. Len(ring') = Len(r)
      BY <2>1, <2>3, <3>1, <3>2, ExceptSeq
    <3>4. [r[n] EXCEPT !.next_repair_id = @ + 1].age = r[n].age
      BY <2>3 DEF Gens
    <3> QED
      BY <2>3, <3>1, <3>3, <3>4
  <2> QED
    BY <2>1, <2>4 DEF RingInv, InOrderOfAge
<1>7. CASE Nap
  BY <1>1, <1>7, PrunedOrder DEF Nap, RingInv
<1>8. CASE EncTick
  <2> DEFINE Older(g) == [g EXCEPT !.age = IF @ <= Horizon THEN @ + 1 ELSE @]
  <2>1. ring' = [i \in 1..Len(ring) |-> Older(ring[i])]
    BY <1>2, <1>8 DEF EncTick
  <2>2. ASSUME NEW g \in Gens, NEW h \in Gens, g.age <= h.age
        PROVE  Older(g).age <= Older(h).age
    <3>1. Older(g).age = (IF g.age <= Horizon THEN g.age + 1 ELSE g.age)
          /\ Older(h).age = (IF h.age <= Horizon THEN h.age + 1 ELSE h.age)
      BY DEF Gens
    <3>2. g.age \in 0..Horizon + 1 /\ h.age \in 0..Horizon + 1 /\ Horizon \in Nat
      BY <1>3, EncAssumption
    <3> QED
      BY <2>2, <3>1, <3>2
  <2> HIDE DEF Older
  <2>3. DOMAIN ring' = 1..Len(ring)
    BY <2>1
  <2>4. Len(ring') = Len(ring)
    BY <1>2, <2>3
  <2> QED
    BY <1>1, <1>2, <2>1, <2>2, <2>4 DEF RingInv, InOrderOfAge
<1>9. CASE Reader
  BY <1>4, <1>9 DEF Reader, ReadBlock, ReadEof, ReadError, SendBlock, SendBlockFails
<1>10. CASE Writer
  BY <1>4, <1>10 DEF Writer, TakePacket, StuffNoop, Drained, WriteFrame, WriteFails
<1>11. CASE Encoder
  BY <1>4, <1>5, <1>6, <1>7, <1>11
     DEF Encoder, TakeBlock, InputClosed, EmitSource, EmitRepair, EmitDone, SendExtra,
         SendFails
<1>12. CASE UNCHANGED encVars
  BY <1>4, <1>12 DEF encVars
<1> QED
  BY <1>8, <1>9, <1>10, <1>11, <1>12 DEF EncNext

(* Looking at the front of the ring only is enough: for every horizon,     *)
(* ceiling and length of the ring, extra repair is for a block within the  *)
(* horizon and below the ceiling (enc main.rs:264-286, 391-402).           *)
THEOREM MintIsFresh == EncSpec => NoStaleMint
<1>1. EncInit => RingInv
  BY EmptySeq DEF EncInit, RingInv, InOrderOfAge
<1>2. EncTypeOK /\ RingInv /\ [EncNext]_encVars => RingInv'
  BY RingStep
<1>3. ASSUME EncTypeOK, RingInv, MintExtra
      PROVE  \E i \in DOMAIN ring : /\ ring[i].blk = minted'.blk
                                    /\ ring[i].age <= Horizon
                                    /\ minted'.esi < K + MaxRepair
  <2> DEFINE r == prune_ring(ring)
  <2>1. ring \in Seq(Gens) /\ InOrderOfAge(ring)
    BY <1>3 DEF EncTypeOK, RingInv, Gens
  <2>2. r \in Seq(Gens)
        /\ \A i \in 1..Len(r) : /\ r[i].age <= Horizon
                                /\ \E j \in 1..Len(ring) : r[i] = ring[j]
    BY <2>1, PrunedType, PrunedOrder
  <2>3. PICK n \in pick_block(r) :
          minted' = Packet(r[n].blk, r[n].sbn, K + r[n].next_repair_id)
    BY <1>3 DEF MintExtra
  <2> HIDE DEF r
  <2>4. n \in 1..Len(r) /\ r[n] \in Gens /\ ~ exhausted(r[n])
    BY <2>2, <2>3, LenProperties, ElementOfSeq DEF pick_block
  <2>5. PICK j \in 1..Len(ring) : r[n] = ring[j]
    BY <2>2, <2>4
  <2>6. minted'.esi < K + MaxRepair
    BY <2>3, <2>4, EncAssumption DEF Packet, exhausted, Gens
  <2>7. j \in DOMAIN ring
    BY <2>1, LenProperties
  <2>8. ring[j].blk = minted'.blk /\ ring[j].age <= Horizon
    BY <2>2, <2>3, <2>4, <2>5 DEF Packet
  <2> QED
    BY <2>6, <2>7, <2>8
<1>4. EncTypeOK /\ RingInv /\ [EncNext]_encVars =>
        [MintExtra => \E i \in DOMAIN ring : /\ ring[i].blk = minted'.blk
                                             /\ ring[i].age <= Horizon
                                             /\ minted'.esi < K + MaxRepair]_encVars
  BY <1>3
<1> QED
  BY <1>1, <1>2, <1>4, EncTypeCorrect, PTL DEF EncSpec, NoStaleMint

-----------------------------------------------------------------------------
(* No symbol twice.  Blocks are taken one after the other, the ring has    *)
(* each of them once, and every packet there is, on the wire or on the way *)
(* to it, was made: it is of a block already taken, its id one that        *)
(* emit_block or the ring has gone past.                                   *)

Taken == nread - Len(blocks)

QueueInv ==
  /\ Taken \in Nat
  /\ \A i \in 1..Len(blocks) : blocks[i] = Taken + i - 1
  /\ Taken > 0 => block = Taken - 1
  /\ epc = "emit" => Taken > 0

Entries(r) ==
  /\ \A i, j \in 1..Len(r) : r[i].blk = r[j].blk => i = j
  /\ \A i \in 1..Len(r) : r[i].next_repair_id >= Repair

EntriesInv ==
  /\ Entries(ring)
  /\ \A i \in 1..Len(ring) : /\ ring[i].blk < Taken
                             /\ epc = "emit" => ring[i].blk < block

Made(p) ==
  /\ p.blk \in Nat /\ p.esi \in Nat
  /\ p.blk < Taken
  /\ p.blk = block /\ p.esi < K + Repair =>
       p.esi < src_count \/ (K <= p.esi /\ p.esi < K + rep_count)
  /\ p.esi >= K + Repair =>
       /\ epc = "emit" => p.blk < block
       /\ \A i \in 1..Len(ring) :
            ring[i].blk = p.blk => p.esi < K + ring[i].next_repair_id

LEMMA EntryTypes ==
  ASSUME NEW r \in Seq(Gens)
  PROVE  \A i \in 1..Len(r) : r[i].blk \in Nat /\ r[i].next_repair_id \in Nat
<1>1. \A i \in 1..Len(r) : r[i] \in Gens
  BY ElementOfSeq
<1> QED
  BY <1>1 DEF Gens

LEMMA PrunedEntries ==
  ASSUME NEW r \in Seq(Gens)
  PROVE  /\ Entries(r) => Entries(prune_ring(r))
         /\ \A i \in 1..Len(prune_ring(r)) :
              \E j \in 1..Len(r) : prune_ring(r)[i] = r[j]
<1>1. PICK m \in 1..Len(r) + 1 : prune_ring(r) = SubSeq(r, m, Len(r))
  BY PruneIsSuffix
<1>2. /\ Len(r) \in Nat
      /\ \A i \in 1..Len(r) : r[i] \in Gens
  BY LenProperties, ElementOfSeq
<1> DEFINE p == prune_ring(r)
<1>3. /\ Len(p) = IF m <= Len(r) THEN Len(r) - m + 1 ELSE 0
      /\ \A i \in 1..Len(r) - m + 1 : p[i] = r[m + i - 1]
  BY <1>1, <1>2, SubSeqProperties
<1> HIDE DEF p
<1>4. ASSUME NEW i \in 1..Len(p)
      PROVE  m + i - 1 \in 1..Len(r) /\ p[i] = r[m + i - 1]
  BY <1>2, <1>3, <1>4
<1>5. ASSUME Entries(r), NEW i \in 1..Len(p), NEW j \in 1..Len(p),
             p[i].blk = p[j].blk
      PROVE  i = j
  <2>1. m + i - 1 = m + j - 1
    <3>1. \A k, l \in 1..Len(r) : r[k].blk = r[l].blk => k = l
      BY <1>5 DEF Entries
    <3>2. /\ m + i - 1 \in 1..Len(r) /\ p[i] = r[m + i - 1]
          /\ m + j - 1 \in 1..Len(r) /\ p[j] = r[m + j - 1]
      BY <1>4
    <3> QED
      BY <1>5, <3>1, <3>2
  <2> QED
    BY <1>3, <2>1
<1>6. ASSUME Entries(r) PROVE Entries(p)
  BY <1>4, <1>5, <1>6 DEF Entries
<1> QED
  BY <1>4, <1>6 DEF p

LEMMA QueueStep ==
  ASSUME EncTypeOK, QueueInv, [EncNext]_encVars
  PROVE  QueueInv'
<1> USE DEF readerVars, encoderVars, blockVars, ringVars, writerVars, outVars
<1>0. /\ blocks \in Seq(Nat) /\ Len(blocks) \in Nat /\ nread \in Nat
      /\ block \in Nat
  BY LenProperties DEF EncTypeOK
<1>1. CASE UNCHANGED <<nread, blocks, block>> /\ (epc' = "emit" => epc = "emit")
  BY <1>1 DEF QueueInv, Taken
<1>2. CASE SendBlock
  <2>1. /\ blocks' = Append(blocks, nread) /\ nread' = nread + 1
        /\ UNCHANGED <<block, epc>>
    BY <1>2 DEF SendBlock
  <2>2. /\ Len(blocks') = Len(blocks) + 1
        /\ \A i \in 1..Len(blocks) : blocks'[i] = blocks[i]
        /\ blocks'[Len(blocks) + 1] = nread
    BY <1>0, <2>1, AppendProperties
  <2>3. Taken' = Taken
    BY <1>0, <2>1, <2>2 DEF Taken
  <2>4. ASSUME NEW i \in 1..Len(blocks') PROVE blocks'[i] = Taken + i - 1
    <3>1. CASE i \in 1..Len(blocks)
      BY <2>2, <3>1 DEF QueueInv
    <3>2. CASE i = Len(blocks) + 1
      BY <1>0, <2>2, <3>2 DEF Taken
    <3> QED
      BY <1>0, <2>2, <3>1, <3>2
  <2> QED
    BY <2>1, <2>3, <2>4 DEF QueueInv
<1>3. CASE TakeBlock
  <2>1. blocks # <<>> /\ block' = Head(blocks) /\ blocks' = Tail(blocks)
        /\ nread' = nread
    BY <1>3 DEF TakeBlock
  <2>2. /\ Len(blocks') = Len(blocks) - 1 /\ Len(blocks) > 0
        /\ \A i \in 1..Len(blocks') : blocks'[i] = blocks[i + 1]
        /\ Head(blocks) = blocks[1]
    BY <1>0, <2>1, HeadTailProperties, EmptySeq
  <2>3. Taken' = Taken + 1
    BY <1>0, <2>1, <2>2 DEF Taken
  <2>4. block' = Taken
    BY <2>1, <2>2 DEF QueueInv
  <2>5. ASSUME NEW i \in 1..Len(blocks') PROVE blocks'[i] = Taken' + i - 1
    <3>1. i + 1 \in 1..Len(blocks)
      BY <1>0, <2>2
    <3>2. blocks[i + 1] = Taken + (i + 1) - 1
      BY <3>1 DEF QueueInv
    <3> QED
      BY <2>2, <2>3, <3>2 DEF QueueInv
  <2> QED
    BY <2>3, <2>4, <2>5 DEF QueueInv
<1>4. CASE Reader
  BY <1>1, <1>2, <1>4 DEF Reader, ReadBlock, ReadEof, ReadError, SendBlockFails
<1>5. CASE Encoder
  BY <1>1, <1>3, <1>5
     DEF Encoder, InputClosed, EmitSource, EmitRepair, EmitDone, MintExtra, SendExtra,
         Nap, SendFails
<1>6. CASE Writer
  BY <1>1, <1>6 DEF Writer, TakePacket, StuffNoop, Drained, WriteFrame, WriteFails
<1>7. CASE EncTick
  BY <1>1, <1>7 DEF EncTick
<1>8. CASE UNCHANGED encVars
  BY <1>1, <1>8 DEF encVars
<1> QED
  BY <1>4, <1>5, <1>6, <1>7, <1>8 DEF EncNext

(* How the ring changes: entries go at the front; the block just emitted   *)
(* comes in at the back, none of its extra repair spent; and one entry's   *)
(* next_repair_id goes up when a packet is minted.                         *)
LEMMA RingEntries ==
  ASSUME EncTypeOK, EntriesInv, QueueInv, [EncNext]_encVars
  PROVE  /\ Entries(ring')
         /\ \A i \in 1..Len(ring') :
              \/ EmitDone /\ ring'[i].blk = block
              \/ \E j \in 1..Len(ring) :
                   /\ ring'[i].blk = ring[j].blk
                   /\ ring'[i].next_repair_id >= ring[j].next_repair_id
<1> USE DEF readerVars, encoderVars, blockVars, ringVars, writerVars, outVars
<1>1. ring \in Seq(Gens) /\ Entries(ring)
  BY DEF EncTypeOK, EntriesInv, Gens
<1>2. /\ Len(ring) \in Nat /\ DOMAIN ring = 1..Len(ring)
      /\ \A i \in 1..Len(ring) : ring[i] \in Gens
  BY <1>1, LenProperties, ElementOfSeq
<1>3. \A g \in Gens : g.next_repair_id \in Nat
  BY DEF Gens
<1>4. CASE UNCHANGED ring
  BY <1>1, <1>2, <1>3, <1>4
<1>5. CASE EmitDone /\ ring' = prune_ring(Append(ring, BlockGen))
  <2> DEFINE r == Append(ring, BlockGen)
  <2>1. BlockGen \in Gens /\ BlockGen.blk = block /\ BlockGen.next_repair_id = Repair
    BY EncAssumption DEF BlockGen, Gens, EncTypeOK
  <2>2. /\ r \in Seq(Gens) /\ Len(r) = Len(ring) + 1
        /\ \A i \in 1..Len(ring) : r[i] = ring[i]
        /\ r[Len(ring) + 1] = BlockGen
    BY <1>1, <2>1, AppendProperties
  <2> HIDE DEF r
  <2>3. \A i \in 1..Len(ring) : ring[i].blk # block
    <3>1. \A i \in 1..Len(ring) : ring[i].blk < block
      BY <1>5 DEF EmitDone, EntriesInv
    <3>2. block \in Nat /\ \A i \in 1..Len(ring) : ring[i].blk \in Nat
      BY <1>2 DEF EncTypeOK, Gens
    <3> QED
      BY <3>1, <3>2
  <2>4. \A i \in 1..Len(r) : i \in 1..Len(ring) \/ i = Len(ring) + 1
    BY <1>2, <2>2
  <2>5. ASSUME NEW i \in 1..Len(r), NEW j \in 1..Len(r), r[i].blk = r[j].blk
        PROVE  i = j
    <3>1. CASE i \in 1..Len(ring) /\ j \in 1..Len(ring)
      BY <1>1, <2>2, <2>5, <3>1 DEF Entries
    <3>2. CASE i = Len(ring) + 1 /\ j \in 1..Len(ring)
      BY <2>1, <2>2, <2>3, <2>5, <3>2
    <3>3. CASE i \in 1..Len(ring) /\ j = Len(ring) + 1
      BY <2>1, <2>2, <2>3, <2>5, <3>3
    <3> QED
      BY <2>4, <3>1, <3>2, <3>3
  <2>6. \A i \in 1..Len(r) : r[i].next_repair_id >= Repair
    BY <1>1, <2>1, <2>2, <2>4, EncAssumption DEF Entries
  <2>7. Entries(r)
    BY <2>5, <2>6 DEF Entries
  <2>8. ring' = prune_ring(r)
    BY <1>5 DEF r
  <2>9. /\ Entries(ring')
        /\ \A i \in 1..Len(ring') : \E j \in 1..Len(r) : ring'[i] = r[j]
    BY <2>2, <2>7, <2>8, PrunedEntries
  <2>10. \A j \in 1..Len(r) : r[j].blk = block \/ \E l \in 1..Len(ring) : r[j] = ring[l]
    BY <2>1, <2>2, <2>4
  <2>11. ASSUME NEW i \in 1..Len(ring')
         PROVE  \/ EmitDone /\ ring'[i].blk = block
                \/ \E j \in 1..Len(ring) :
                     /\ ring'[i].blk = ring[j].blk
                     /\ ring'[i].next_repair_id >= ring[j].next_repair_id
    <3>1. CASE ring'[i].blk = block
      BY <1>5, <3>1
    <3>2. CASE \E l \in 1..Len(ring) : ring'[i] = ring[l]
      BY <1>2, <1>3, <3>2
    <3>3. PICK k \in 1..Len(r) : ring'[i] = r[k]
      BY <2>9
    <3>4. r[k].blk = block \/ \E l \in 1..Len(ring) : r[k] = ring[l]
      BY <2>10, <3>3
    <3> QED
      BY <3>1, <3>2, <3>3, <3>4
  <2> QED
    BY <2>9, <2>11
<1>6. CASE MintExtra
  <2> DEFINE r == prune_ring(ring)
  <2>1. /\ r \in Seq(Gens) /\ Entries(r)
        /\ \A i \in 1..Len(r) : \E j \in 1..Len(ring) : r[i] = ring[j]
    BY <1>1, PrunedType, PrunedEntries
  <2>2. PICK n \in pick_block(r) : ring' = [r EXCEPT ![n].next_repair_id = @ + 1]
    BY <1>6 DEF MintExtra
  <2> HIDE DEF r
  <2>3. /\ n \in 1..Len(r) /\ DOMAIN r = 1..Len(r)
        /\ \A i \in 1..Len(r) : r[i] \in Gens
    BY <2>1, <2>2, LenProperties, ElementOfSeq DEF pick_block
  <2>4. /\ Len(ring') = Len(r)
        /\ \A i \in 1..Len(r) : /\ ring'[i].blk = r[i].blk
                                /\ ring'[i].next_repair_id >= r[i].next_repair_id
                                /\ ring'[i].next_repair_id \in Nat
    <3> DEFINE g == [r[n] EXCEPT !.next_repair_id = @ + 1]
    <3>1. ring' = [r EXCEPT ![n] = g]
      BY <2>2
    <3>2. /\ g \in Gens /\ g.blk = r[n].blk
          /\ g.next_repair_id = r[n].next_repair_id + 1
      BY <2>3 DEF Gens
    <3> HIDE DEF g
    <3>3. Len(ring') = Len(r)
          /\ \A i \in 1..Len(r) : ring'[i] = IF i = n THEN g ELSE r[i]
      BY <2>1, <2>3, <3>1, <3>2, ExceptSeq
    <3> QED
      BY <1>3, <2>3, <3>2, <3>3
  <2>5. Entries(ring')
    <3>1. \A i, j \in 1..Len(ring') : ring'[i].blk = ring'[j].blk => i = j
      <4>1. \A i, j \in 1..Len(r) : r[i].blk = r[j].blk => i = j
        BY <2>1 DEF Entries
      <4> QED
        BY <2>4, <4>1
    <3>2. ASSUME NEW i \in 1..Len(ring')
          PROVE  ring'[i].next_repair_id >= Repair
      <4>1. r[i].next_repair_id >= Repair /\ r[i].next_repair_id \in Nat
        BY <1>3, <2>1, <2>3, <2>4, <3>2 DEF Entries
      <4>2. /\ ring'[i].next_repair_id >= r[i].next_repair_id
            /\ ring'[i].next_repair_id \in Nat
        BY <2>4, <3>2
      <4> QED
        BY <4>1, <4>2, EncAssumption
    <3> QED
      BY <3>1, <3>2 DEF Entries
  <2> QED
    BY <2>1, <2>4, <2>5
<1>7. CASE Nap
  <2>1. ring' = prune_ring(ring)
    BY <1>7 DEF Nap
  <2>2. /\ Entries(ring')
        /\ \A i \in 1..Len(ring') : \E j \in 1..Len(ring) : ring'[i] = ring[j]
    <3>1. /\ Entries(prune_ring(ring))
          /\ \A i \in 1..Len(prune_ring(ring)) :
               \E j \in 1..Len(ring) : prune_ring(ring)[i] = ring[j]
      BY <1>1, PrunedEntries
    <3> QED
      BY Zenon, <2>1, <3>1
  <2>3. ASSUME NEW i \in 1..Len(ring')
        PROVE  \E j \in 1..Len(ring) :
                 /\ ring'[i].blk = ring[j].blk
                 /\ ring'[i].next_repair_id >= ring[j].next_repair_id
    BY <1>2, <1>3, <2>2
  <2> QED
    BY <2>2, <2>3
<1>8. CASE EncTick
  <2>1. ring' = [i \in 1..Len(ring) |->
                   [ring[i] EXCEPT !.age = IF @ <= Horizon THEN @ + 1 ELSE @]]
    BY <1>2, <1>8 DEF EncTick
  <2>2. DOMAIN ring' = 1..Len(ring) /\ Len(ring') = Len(ring)
    BY <1>2, <2>1
  <2>3. \A i \in 1..Len(ring) : /\ ring'[i].blk = ring[i].blk
                                /\ ring'[i].next_repair_id = ring[i].next_repair_id
    BY <1>2, <2>1 DEF Gens
  <2>4. Entries(ring')
    BY <1>1, <2>2, <2>3 DEF Entries
  <2>5. \A i \in 1..Len(ring) : ring'[i].next_repair_id >= ring[i].next_repair_id
    BY <1>2, <1>3, <2>3
  <2> QED
    BY <2>2, <2>3, <2>4, <2>5
<1>9. CASE Reader
  BY <1>4, <1>9 DEF Reader, ReadBlock, ReadEof, ReadError, SendBlock, SendBlockFails
<1>10. CASE Writer
  BY <1>4, <1>10 DEF Writer, TakePacket, StuffNoop, Drained, WriteFrame, WriteFails
<1>11. CASE Encoder
  BY <1>4, <1>5, <1>6, <1>7, <1>11
     DEF Encoder, TakeBlock, InputClosed, EmitSource, EmitRepair, EmitDone, SendExtra,
         SendFails
<1>12. CASE UNCHANGED encVars
  BY <1>4, <1>12 DEF encVars
<1> QED
  BY <1>8, <1>9, <1>10, <1>11, <1>12 DEF EncNext

LEMMA TakenStep ==
  ASSUME EncTypeOK, QueueInv, [EncNext]_encVars
  PROVE  \/ /\ epc = "poll" /\ epc' = "emit"
            /\ Taken' = Taken + 1 /\ block' = Taken
         \/ /\ Taken' = Taken /\ block' = block
            /\ epc' = "emit" => epc = "emit"
            /\ src_count' >= src_count /\ rep_count' >= rep_count
<1> USE DEF readerVars, encoderVars, blockVars, ringVars, writerVars, outVars
<1>0. /\ blocks \in Seq(Nat) /\ Len(blocks) \in Nat /\ nread \in Nat
      /\ src_count \in Nat /\ rep_count \in Nat
  BY EncAssumption, LenProperties DEF EncTypeOK
<1>1. CASE UNCHANGED <<nread, blocks, block, src_count, rep_count>>
           /\ (epc' = "emit" => epc = "emit")
  BY <1>0, <1>1 DEF Taken
<1>2. CASE SendBlock
  <2>1. Len(blocks') = Len(blocks) + 1
    BY <1>0, <1>2, AppendProperties DEF SendBlock
  <2> QED
    BY <1>0, <1>2, <2>1 DEF SendBlock, Taken
<1>3. CASE TakeBlock
  <2>1. blocks # <<>> /\ block' = Head(blocks) /\ blocks' = Tail(blocks)
        /\ nread' = nread
    BY <1>3 DEF TakeBlock
  <2>2. Len(blocks') = Len(blocks) - 1 /\ Len(blocks) > 0
        /\ Head(blocks) = blocks[1]
    BY <1>0, <2>1, HeadTailProperties, EmptySeq
  <2>3. Taken' = Taken + 1
    BY <1>0, <2>1, <2>2 DEF Taken
  <2>4. block' = Taken
    BY <2>1, <2>2 DEF QueueInv
  <2> QED
    BY <1>3, <2>3, <2>4 DEF TakeBlock
<1>4. CASE EmitSource \/ EmitRepair
  BY <1>0, <1>4 DEF EmitSource, EmitRepair, Taken
<1>5. CASE Reader
  BY <1>1, <1>2, <1>5 DEF Reader, ReadBlock, ReadEof, ReadError, SendBlockFails
<1>6. CASE Encoder
  BY <1>1, <1>3, <1>4, <1>6
     DEF Encoder, InputClosed, EmitDone, MintExtra, SendExtra, Nap, SendFails
<1>7. CASE Writer
  BY <1>1, <1>7 DEF Writer, TakePacket, StuffNoop, Drained, WriteFrame, WriteFails
<1>8. CASE EncTick
  BY <1>1, <1>8 DEF EncTick
<1>9. CASE UNCHANGED encVars
  BY <1>1, <1>9 DEF encVars
<1> QED
  BY <1>5, <1>6, <1>7, <1>8, <1>9 DEF EncNext

LEMMA EntriesStep ==
  ASSUME EncTypeOK, QueueInv, EntriesInv, [EncNext]_encVars
  PROVE  EntriesInv'
<1>1. Entries(ring')
  BY RingEntries
<1>2. /\ Taken \in Nat /\ block \in Nat /\ ring \in Seq(Gens)
  BY DEF QueueInv, EncTypeOK, Gens
<1>3. \A j \in 1..Len(ring) : ring[j].blk \in Nat
  BY <1>2, EntryTypes
<1>4. ASSUME NEW i \in 1..Len(ring')
      PROVE  ring'[i].blk < Taken' /\ (epc' = "emit" => ring'[i].blk < block')
  <2>1. CASE EmitDone /\ ring'[i].blk = block
    <3>1. epc = "emit" /\ epc' = "poll"
      BY <2>1 DEF EmitDone
    <3>2. block < Taken
      BY <1>2, <3>1 DEF QueueInv
    <3> QED
      BY <1>2, <2>1, <3>1, <3>2, TakenStep
  <2>2. ASSUME NEW j \in 1..Len(ring), ring'[i].blk = ring[j].blk
        PROVE  ring'[i].blk < Taken' /\ (epc' = "emit" => ring'[i].blk < block')
    <3>1. ring[j].blk < Taken /\ (epc = "emit" => ring[j].blk < block)
          /\ ring[j].blk \in Nat
      BY <1>3 DEF EntriesInv
    <3> QED
      BY <1>2, <2>2, <3>1, TakenStep
  <2> QED
    BY <2>1, <2>2, RingEntries
<1> QED
  BY <1>1, <1>4 DEF EntriesInv

LEMMA StaysMade ==
  ASSUME EncTypeOK, QueueInv, EntriesInv, [EncNext]_encVars, NEW p, Made(p)
  PROVE  Made(p)'
<1>1. /\ Taken \in Nat /\ block \in Nat /\ ring \in Seq(Gens)
      /\ src_count \in 0..K /\ rep_count \in 0..Repair
      /\ K \in Nat /\ Repair \in Nat
  BY EncAssumption DEF QueueInv, EncTypeOK, Gens
<1>2. \A j \in 1..Len(ring) : ring[j].next_repair_id \in Nat
  BY <1>1, EntryTypes
<1>3. src_count' \in Nat /\ rep_count' \in Nat
  BY <1>1, EncStepType DEF EncTypeOK
<1>4. p.blk \in Nat /\ p.esi \in Nat /\ p.blk < Taken
  BY DEF Made
<1>5. p.blk < Taken'
  BY <1>1, <1>4, TakenStep
<1>6. ASSUME p.blk = block', p.esi < K + Repair
      PROVE  p.esi < src_count' \/ (K <= p.esi /\ p.esi < K + rep_count')
  <2>1. block' # Taken
    BY <1>1, <1>4, <1>6
  <2>2. block' = block /\ src_count' >= src_count /\ rep_count' >= rep_count
    BY <2>1, TakenStep
  <2>3. p.esi < src_count \/ (K <= p.esi /\ p.esi < K + rep_count)
    BY <1>6, <2>2 DEF Made
  <2> QED
    BY <1>1, <1>3, <1>4, <2>2, <2>3
<1>7. ASSUME p.esi >= K + Repair, epc' = "emit" PROVE p.blk < block'
  BY <1>1, <1>4, <1>7, TakenStep DEF Made
<1>8. ASSUME p.esi >= K + Repair, NEW i \in 1..Len(ring'), ring'[i].blk = p.blk
      PROVE  p.esi < K + ring'[i].next_repair_id
  <2>1. CASE EmitDone /\ ring'[i].blk = block
    <3>1. p.blk < block
      BY <1>8, <2>1 DEF EmitDone, Made
    <3> QED
      BY <1>1, <1>4, <1>8, <2>1, <3>1
  <2>2. ASSUME NEW j \in 1..Len(ring), ring'[i].blk = ring[j].blk,
               ring'[i].next_repair_id >= ring[j].next_repair_id
        PROVE  p.esi < K + ring'[i].next_repair_id
    <3>1. p.esi < K + ring[j].next_repair_id
      BY <1>8, <2>2 DEF Made
    <3>2. ring'[i].next_repair_id \in Nat
      <4>1. ring' \in Seq(Gens)
        BY EncStepType DEF EncTypeOK, Gens
      <4> QED
        BY <4>1, EntryTypes
    <3> QED
      BY SMTT(30), <1>1, <1>2, <1>4, <2>2, <3>1, <3>2
  <2> QED
    BY <2>1, <2>2, RingEntries
<1> QED
  BY <1>4, <1>5, <1>6, <1>7, <1>8 DEF Made

Same(p, q) == p.blk = q.blk /\ p.esi = q.esi
New(p) == \A q : Made(q) => ~ Same(p, q)

LEMMA EmittedIsNew ==
  ASSUME EncTypeOK, QueueInv, EntriesInv, EmitSource \/ EmitRepair
  PROVE  \E p \in Packets : /\ New(p) /\ Made(p)'
                            /\ packets' = Append(packets, p)
<1> USE EncAssumption
        DEF readerVars, encoderVars, blockVars, ringVars, writerVars, outVars
<1>1. /\ block \in Nat /\ sbn \in 0..SbnMod - 1
      /\ src_count \in 0..K /\ rep_count \in 0..Repair
      /\ Taken \in Nat
  BY DEF EncTypeOK, QueueInv
<1>2. epc = "emit" /\ block < Taken
  BY <1>1 DEF EmitSource, EmitRepair, QueueInv
<1>3. UNCHANGED <<nread, blocks, block>>
  BY DEF EmitSource, EmitRepair
<1>4. Taken' = Taken
  BY <1>3 DEF Taken
<1>5. CASE EmitSource
  <2>0. PICK p \in Packets : p = Packet(block, sbn, src_count)
    BY <1>1, PacketType
  <2>1. p.blk = block /\ p.esi = src_count
    BY <2>0 DEF Packet
  <2>2. src_count < K /\ src_count' = src_count + 1 /\ rep_count' = rep_count
        /\ packets' = Append(packets, p)
    BY <1>5, <2>0 DEF EmitSource, SourceNext, Send
  <2>3. New(p)
    BY <1>1, <2>1, <2>2 DEF New, Same, Made
  <2>4. Made(p)'
    BY <1>1, <1>2, <1>3, <1>4, <2>1, <2>2 DEF Made
  <2> QED
    BY <2>1, <2>2, <2>3, <2>4
<1>6. CASE EmitRepair
  <2>0. PICK p \in Packets : p = Packet(block, sbn, K + rep_count)
    BY <1>1, PacketType
  <2>1. p.blk = block /\ p.esi = K + rep_count
    BY <2>0 DEF Packet
  <2>2. rep_count < Repair /\ rep_count' = rep_count + 1 /\ src_count' = src_count
        /\ packets' = Append(packets, p)
    BY <1>6, <2>0 DEF EmitRepair, RepairNext, RepairDue, Send
  <2>3. New(p)
    BY <1>1, <2>1, <2>2 DEF New, Same, Made
  <2>4. Made(p)'
    BY <1>1, <1>2, <1>3, <1>4, <2>1, <2>2 DEF Made
  <2> QED
    BY <2>1, <2>2, <2>3, <2>4
<1> QED
  BY <1>5, <1>6

LEMMA MintedIsNew ==
  ASSUME EncTypeOK, QueueInv, EntriesInv, MintExtra
  PROVE  New(minted') /\ Made(minted)'
<1> USE EncAssumption
        DEF readerVars, encoderVars, blockVars, ringVars, writerVars, outVars
<1> DEFINE r == prune_ring(ring)
<1>1. ring \in Seq(Gens) /\ Entries(ring) /\ Taken \in Nat
  BY DEF EncTypeOK, EntriesInv, QueueInv, Gens
<1>2. /\ r \in Seq(Gens) /\ Entries(r)
      /\ \A i \in 1..Len(r) : \E j \in 1..Len(ring) : r[i] = ring[j]
  BY <1>1, PrunedType, PrunedEntries
<1>3. PICK n \in pick_block(r) :
        /\ ring' = [r EXCEPT ![n].next_repair_id = @ + 1]
        /\ minted' = Packet(r[n].blk, r[n].sbn, K + r[n].next_repair_id)
  BY DEF MintExtra
<1> HIDE DEF r
<1>4. n \in 1..Len(r) /\ \A i \in 1..Len(r) : r[i] \in Gens
  BY <1>2, <1>3, LenProperties, ElementOfSeq DEF pick_block
<1> DEFINE b == r[n].blk
           id == r[n].next_repair_id
<1>5. b \in Nat /\ id \in Nat /\ id >= Repair
  BY <1>2, <1>4, EntryTypes DEF Entries
<1>6. minted'.blk = b /\ minted'.esi = K + id
  BY <1>3 DEF Packet
<1>7. PICK j \in 1..Len(ring) : ring[j].blk = b /\ ring[j].next_repair_id = id
  BY <1>2, <1>4
<1>8. b < Taken
  BY <1>7 DEF EntriesInv
<1>9. ring'[n].next_repair_id = id + 1 /\ Len(ring') = Len(r)
      /\ \A i \in 1..Len(r) : ring'[i].blk = r[i].blk
  <2> DEFINE g == [r[n] EXCEPT !.next_repair_id = @ + 1]
  <2>1. ring' = [r EXCEPT ![n] = g]
    BY <1>3
  <2>2. g \in Gens /\ g.blk = b /\ g.next_repair_id = id + 1
    <3>1. r[n] \in Gens /\ id + 1 \in Nat
      BY <1>4, <1>5
    <3> QED
      BY <3>1 DEF Gens
  <2> HIDE DEF g
  <2>3. Len(ring') = Len(r)
        /\ \A i \in 1..Len(r) : ring'[i] = IF i = n THEN g ELSE r[i]
    BY SMTT(60), <1>2, <1>4, <2>1, <2>2, ExceptSeq
  <2> QED
    BY <1>4, <2>2, <2>3
<1> HIDE DEF b, id
<1>10. New(minted')
  <2> SUFFICES ASSUME NEW q, Made(q), Same(minted', q) PROVE FALSE
    BY DEF New
  <2>1. q.blk = b /\ q.esi = K + id
    BY <1>6 DEF Same
  <2>2. q.esi < K + id
    BY <1>5, <1>7, <2>1 DEF Made
  <2> QED
    BY <1>5, <2>1, <2>2
<1>11. /\ nread' = nread /\ blocks' = blocks /\ epc' = "extra"
  BY DEF MintExtra
<1>12. Taken' = Taken
  BY <1>11 DEF Taken
<1>13. ASSUME NEW i \in 1..Len(ring'), ring'[i].blk = minted'.blk
       PROVE  minted'.esi < K + ring'[i].next_repair_id
  <2>1. i = n
    BY <1>2, <1>4, <1>6, <1>9, <1>13 DEF Entries, b
  <2> QED
    BY <1>5, <1>6, <1>9, <2>1
<1>14. minted'.blk \in Nat /\ minted'.esi \in Nat /\ minted'.esi >= K + Repair
       /\ minted'.blk < Taken
  BY <1>5, <1>6, <1>8
<1>15. K + Repair \in Nat
  OBVIOUS
<1>16. ~ (minted'.esi < K + Repair)
  BY <1>14, <1>15
<1>17. Made(minted)'
  BY <1>11, <1>12, <1>13, <1>14, <1>16 DEF Made
<1> QED
  BY <1>10, <1>17

(* The same by the ids alone.                                              *)
Id(p) == <<p.blk, p.esi>>
IdsMade == {id \in Nat \X Nat : Made([blk |-> id[1], esi |-> id[2]])}

LEMMA IdOfMade ==
  ASSUME NEW p
  PROVE  /\ Made(p) => Id(p) \in IdsMade
         /\ Made(p)' => Id(p) \in IdsMade'
         /\ New(p) => Id(p) \notin IdsMade
<1>1. Made(p) => Id(p) \in IdsMade
  BY DEF IdsMade, Id, Made
<1>2. Made(p)' => Id(p) \in IdsMade'
  BY DEF IdsMade, Id, Made
<1>3. ASSUME New(p) PROVE Id(p) \notin IdsMade
  <2> DEFINE q == [blk |-> p.blk, esi |-> p.esi]
  <2>1. ~ Made(q)
    BY <1>3 DEF New, Same
  <2> QED
    BY <2>1 DEF IdsMade, Id
<1> QED
  BY <1>1, <1>2, <1>3

LEMMA IdsStay ==
  ASSUME EncTypeOK, QueueInv, EntriesInv, [EncNext]_encVars
  PROVE  IdsMade \subseteq IdsMade'
<1> SUFFICES ASSUME NEW id \in IdsMade PROVE id \in IdsMade'
  OBVIOUS
<1>1. PICK p : p = [blk |-> id[1], esi |-> id[2]]
  OBVIOUS
<1>2. id \in Nat \X Nat /\ Made(p)
  BY <1>1 DEF IdsMade
<1>3. Made(p)'
  BY <1>2, StaysMade
<1>4. Id(p) = id
  BY <1>1, <1>2 DEF Id
<1> QED
  BY <1>3, <1>4, IdOfMade

(* The packets there are: on the wire, in the writer's hand, in the        *)
(* channel and just minted.                                                *)
InHand == wpc = "write" /\ ~ IsNoop(buf)

AllMade ==
  /\ \A i \in DataOnWire : Id(wire[i].pkt) \in IdsMade
  /\ \A i \in 1..Len(packets) : Id(packets[i]) \in IdsMade
  /\ InHand => Id(buf.pkt) \in IdsMade
  /\ epc = "extra" => Id(minted) \in IdsMade

NoRepeats ==
  /\ \A i, j \in DataOnWire : Id(wire[i].pkt) = Id(wire[j].pkt) => i = j
  /\ \A i, j \in 1..Len(packets) : Id(packets[i]) = Id(packets[j]) => i = j
  /\ \A i \in DataOnWire, j \in 1..Len(packets) : Id(wire[i].pkt) # Id(packets[j])
  /\ InHand => /\ \A i \in DataOnWire : Id(wire[i].pkt) # Id(buf.pkt)
               /\ \A j \in 1..Len(packets) : Id(packets[j]) # Id(buf.pkt)
  /\ epc = "extra" => /\ \A i \in DataOnWire : Id(wire[i].pkt) # Id(minted)
                      /\ \A j \in 1..Len(packets) : Id(packets[j]) # Id(minted)
                      /\ InHand => Id(buf.pkt) # Id(minted)

SymbolInv == QueueInv /\ EntriesInv /\ AllMade /\ NoRepeats

(* A new packet goes into the channel, or the minted one does.             *)
LEMMA AppendStep ==
  ASSUME EncTypeOK, AllMade, NoRepeats, IdsMade \subseteq IdsMade',
         NEW p \in Packets, Id(p) \in IdsMade', packets' = Append(packets, p),
         \A i \in DataOnWire : Id(wire[i].pkt) # Id(p),
         \A i \in 1..Len(packets) : Id(packets[i]) # Id(p),
         InHand => Id(buf.pkt) # Id(p),
         UNCHANGED <<wire, wpc, buf>>, epc' # "extra"
  PROVE  AllMade' /\ NoRepeats'
<1>1. packets \in Seq(Packets)
  BY DEF EncTypeOK
<1>2. /\ Len(packets) \in Nat /\ Len(packets') = Len(packets) + 1
      /\ \A i \in 1..Len(packets) : packets'[i] = packets[i]
      /\ packets'[Len(packets) + 1] = p
  BY <1>1, AppendProperties, LenProperties
<1>3. \A i \in 1..Len(packets') : i \in 1..Len(packets) \/ i = Len(packets) + 1
  BY <1>2
<1>4. DataOnWire' = DataOnWire /\ InHand' = InHand
  BY DEF DataOnWire, InHand, IsNoop
<1>5. \A i \in 1..Len(packets') : Id(packets'[i]) \in IdsMade'
  BY <1>2, <1>3 DEF AllMade
<1>6. AllMade'
  BY <1>4, <1>5 DEF AllMade
<1>7. ASSUME NEW i \in 1..Len(packets'), NEW j \in 1..Len(packets'),
             Id(packets'[i]) = Id(packets'[j])
      PROVE  i = j
  BY <1>2, <1>3, <1>7 DEF NoRepeats
<1>8. \A i \in DataOnWire, j \in 1..Len(packets') :
        Id(wire[i].pkt) # Id(packets'[j])
  BY <1>2, <1>3 DEF NoRepeats
<1>9. InHand => \A j \in 1..Len(packets') : Id(packets'[j]) # Id(buf.pkt)
  BY <1>2, <1>3 DEF NoRepeats
<1>10. NoRepeats'
  BY <1>4, <1>7, <1>8, <1>9 DEF NoRepeats
<1> QED
  BY <1>6, <1>10

(* The minted packet, if there is one, is new.                             *)
LEMMA MintStep ==
  ASSUME AllMade, NoRepeats, IdsMade \subseteq IdsMade',
         epc' = "extra" =>
           \/ epc = "extra" /\ minted' = minted
           \/ Id(minted') \notin IdsMade /\ Id(minted') \in IdsMade',
         UNCHANGED <<wire, packets, buf>>, wpc' = "write" => wpc = "write"
  PROVE  AllMade' /\ NoRepeats'
<1>1. DataOnWire' = DataOnWire /\ (InHand' => InHand)
  BY DEF DataOnWire, InHand, IsNoop
<1>2. CASE epc' # "extra"
  BY <1>1, <1>2 DEF AllMade, NoRepeats
<1>3. CASE epc = "extra" /\ minted' = minted
  BY <1>1, <1>3 DEF AllMade, NoRepeats
<1>4. CASE Id(minted') \notin IdsMade /\ Id(minted') \in IdsMade'
  BY <1>1, <1>4 DEF AllMade, NoRepeats
<1> QED
  BY <1>2, <1>3, <1>4

(* A packet goes from the channel into the writer's hand, ...              *)
LEMMA TakePacketStep ==
  ASSUME EncTypeOK, AllMade, NoRepeats, IdsMade \subseteq IdsMade', TakePacket
  PROVE  AllMade' /\ NoRepeats'
<1> USE DEF readerVars, encoderVars, blockVars, ringVars, writerVars, outVars
<1>1. packets \in Seq(Packets) /\ packets # <<>> /\ packets' = Tail(packets)
      /\ buf'.pkt = Head(packets)
  BY DEF TakePacket, EncTypeOK, Frame
<1>2. /\ Len(packets) \in Nat /\ Len(packets') = Len(packets) - 1
      /\ 1 \in 1..Len(packets) /\ buf'.pkt = packets[1]
      /\ \A i \in 1..Len(packets') : packets'[i] = packets[i + 1]
  BY <1>1, HeadTailProperties, LenProperties, EmptySeq
<1>3. \A i \in 1..Len(packets') : i + 1 \in 1..Len(packets) /\ i + 1 # 1
  BY <1>2
<1>4. DataOnWire' = DataOnWire /\ UNCHANGED <<wire, epc, minted>>
  BY DEF TakePacket, DataOnWire, IsNoop
<1>5. ~ InHand
  BY DEF InHand, TakePacket
<1>6. AllMade'
  BY <1>2, <1>3, <1>4 DEF AllMade
<1>7. ASSUME NEW i \in 1..Len(packets'), NEW j \in 1..Len(packets'),
             Id(packets'[i]) = Id(packets'[j])
      PROVE  i = j
  <2>1. i + 1 = j + 1
    BY <1>2, <1>3, <1>7 DEF NoRepeats
  <2> QED
    BY <1>2, <2>1
<1>8. \A j \in 1..Len(packets') : Id(packets'[j]) # Id(buf'.pkt)
  BY <1>2, <1>3 DEF NoRepeats
<1>9. \A i \in DataOnWire, j \in 1..Len(packets') :
        Id(wire[i].pkt) # Id(packets'[j])
  BY <1>2, <1>3 DEF NoRepeats
<1>10. \A i \in DataOnWire : Id(wire[i].pkt) # Id(buf'.pkt)
  BY <1>2 DEF NoRepeats
<1>11. epc = "extra" => /\ \A j \in 1..Len(packets') : Id(packets'[j]) # Id(minted)
                        /\ Id(buf'.pkt) # Id(minted)
  BY <1>2, <1>3 DEF NoRepeats
<1>12. NoRepeats'
  BY <1>4, <1>7, <1>8, <1>9, <1>10, <1>11 DEF NoRepeats
<1> QED
  BY <1>6, <1>12

(* ... and from there to the wire.                                         *)
LEMMA WriteFrameStep ==
  ASSUME EncTypeOK, AllMade, NoRepeats, IdsMade \subseteq IdsMade', WriteFrame
  PROVE  AllMade' /\ NoRepeats'
<1> USE DEF readerVars, encoderVars, blockVars, ringVars, writerVars, outVars
<1>1. /\ wire \in Seq(Frames) /\ buf \in Frames /\ wire' = Append(wire, buf)
      /\ wpc = "write" /\ wpc' = "poll" /\ UNCHANGED <<packets, epc, minted, buf>>
  BY DEF WriteFrame, EncTypeOK
<1>2. /\ Len(wire) \in Nat /\ Len(wire') = Len(wire) + 1
      /\ DOMAIN wire = 1..Len(wire) /\ DOMAIN wire' = 1..Len(wire) + 1
      /\ \A i \in 1..Len(wire) : wire'[i] = wire[i]
      /\ wire'[Len(wire) + 1] = buf
  BY <1>1, AppendProperties, LenProperties
<1>3. ~ InHand'
  BY <1>1 DEF InHand
<1>4. ASSUME NEW i \in DataOnWire'
      PROVE  \/ i \in DataOnWire /\ wire'[i] = wire[i]
             \/ i = Len(wire) + 1 /\ wire'[i] = buf /\ InHand
  <2>1. CASE i \in 1..Len(wire)
    BY <1>2, <1>4, <2>1 DEF DataOnWire
  <2>2. CASE i = Len(wire) + 1
    BY <1>1, <1>2, <1>4, <2>2 DEF DataOnWire, InHand
  <2> QED
    BY <1>2, <1>4, <2>1, <2>2 DEF DataOnWire
<1>5. AllMade'
  BY <1>1, <1>3, <1>4 DEF AllMade
<1>6. ASSUME NEW i \in DataOnWire', NEW j \in DataOnWire',
             Id(wire'[i].pkt) = Id(wire'[j].pkt)
      PROVE  i = j
  <2>1. CASE i \in DataOnWire /\ wire'[i] = wire[i]
             /\ j \in DataOnWire /\ wire'[j] = wire[j]
    BY <1>6, <2>1 DEF NoRepeats
  <2>2. CASE i \in DataOnWire /\ wire'[i] = wire[i] /\ wire'[j] = buf /\ InHand
    BY <1>6, <2>2 DEF NoRepeats
  <2>3. CASE j \in DataOnWire /\ wire'[j] = wire[j] /\ wire'[i] = buf /\ InHand
    BY <1>6, <2>3 DEF NoRepeats
  <2> QED
    BY <1>4, <2>1, <2>2, <2>3
<1>7. \A i \in DataOnWire', j \in 1..Len(packets') :
        Id(wire'[i].pkt) # Id(packets'[j])
  BY <1>1, <1>4 DEF NoRepeats
<1>8. epc' = "extra" => \A i \in DataOnWire' : Id(wire'[i].pkt) # Id(minted')
  BY <1>1, <1>4 DEF NoRepeats
<1>9. NoRepeats'
  BY <1>1, <1>3, <1>6, <1>7, <1>8 DEF NoRepeats
<1> QED
  BY <1>5, <1>9

LEMMA SymbolStep ==
  ASSUME EncTypeOK, SymbolInv, [EncNext]_encVars
  PROVE  SymbolInv'
<1> USE DEF readerVars, encoderVars, blockVars, ringVars, writerVars, outVars
<1>1. QueueInv' /\ EntriesInv' /\ IdsMade \subseteq IdsMade'
  BY QueueStep, EntriesStep, IdsStay DEF SymbolInv
<1> SUFFICES AllMade' /\ NoRepeats'
  BY <1>1 DEF SymbolInv
<1> USE DEF SymbolInv
<1>2. CASE /\ UNCHANGED <<wire, packets, buf, minted>>
           /\ wpc' = "write" => wpc = "write"
           /\ epc' = "extra" => epc = "extra"
  BY <1>1, <1>2, MintStep
<1>3. CASE EmitSource \/ EmitRepair
  <2>1. PICK p \in Packets : New(p) /\ Made(p)' /\ packets' = Append(packets, p)
    BY <1>3, EmittedIsNew
  <2>2. Id(p) \in IdsMade' /\ Id(p) \notin IdsMade
    BY <2>1, IdOfMade
  <2>3. UNCHANGED <<wire, wpc, buf>> /\ epc' # "extra"
    BY <1>3 DEF EmitSource, EmitRepair
  <2>4. /\ \A i \in DataOnWire : Id(wire[i].pkt) # Id(p)
        /\ \A i \in 1..Len(packets) : Id(packets[i]) # Id(p)
        /\ InHand => Id(buf.pkt) # Id(p)
    BY <2>2 DEF AllMade
  <2> QED
    BY <1>1, <2>1, <2>2, <2>3, <2>4, AppendStep
<1>4. CASE MintExtra
  <2>1. PICK p : p = minted'
    OBVIOUS
  <2>2. New(p) /\ Made(minted)'
    BY <1>4, <2>1, MintedIsNew
  <2>3. Id(minted') \notin IdsMade
    BY <2>1, <2>2, IdOfMade
  <2>4. Id(minted') \in IdsMade'
    BY <2>2 DEF IdsMade, Id, Made
  <2> QED
    BY <1>1, <1>4, <2>3, <2>4, MintStep DEF MintExtra
<1>5. CASE SendExtra
  <2>1. PICK p \in Packets : p = minted
    BY DEF EncTypeOK
  <2>2. /\ packets' = Append(packets, p) /\ UNCHANGED <<wire, wpc, buf>>
        /\ epc = "extra" /\ epc' = "poll"
    BY <1>5, <2>1 DEF SendExtra, Send
  <2>3. Id(p) \in IdsMade'
    BY <1>1, <2>1, <2>2 DEF AllMade
  <2>4. /\ \A i \in DataOnWire : Id(wire[i].pkt) # Id(p)
        /\ \A i \in 1..Len(packets) : Id(packets[i]) # Id(p)
        /\ InHand => Id(buf.pkt) # Id(p)
    BY <2>1, <2>2 DEF NoRepeats
  <2> QED
    BY <1>1, <2>2, <2>3, <2>4, AppendStep
<1>6. CASE TakePacket
  BY <1>1, <1>6, TakePacketStep
<1>7. CASE StuffNoop
  <2>1. ~ InHand' /\ DataOnWire' = DataOnWire
        /\ UNCHANGED <<wire, packets, epc, minted>>
    BY <1>7 DEF StuffNoop, InHand, IsNoop, Frame, DataOnWire
  <2> QED
    BY <1>1, <2>1 DEF AllMade, NoRepeats
<1>8. CASE WriteFrame
  BY <1>1, <1>8, WriteFrameStep
<1>9. CASE Reader
  BY <1>2, <1>9 DEF Reader, ReadBlock, ReadEof, ReadError, SendBlock, SendBlockFails
<1>10. CASE Encoder
  BY <1>2, <1>3, <1>4, <1>5, <1>10
     DEF Encoder, TakeBlock, InputClosed, EmitDone, Nap, SendFails
<1>11. CASE Writer
  BY <1>2, <1>6, <1>7, <1>8, <1>11 DEF Writer, Drained, WriteFails
<1>12. CASE EncTick
  BY <1>2, <1>12 DEF EncTick
<1>13. CASE UNCHANGED encVars
  BY <1>2, <1>13 DEF encVars
<1> QED
  BY <1>9, <1>10, <1>11, <1>12, <1>13 DEF EncNext

(* For every size of block, amount of repair, horizon and ring, no symbol  *)
(* of a block goes on the wire twice (enc main.rs:225-229, 399-402, 505,   *)
(* 512).                                                                   *)
THEOREM SymbolsAreNew == EncSpec => []EverySymbolIsNew
<1>1. EncInit => SymbolInv
  <2> SUFFICES ASSUME EncInit PROVE SymbolInv
    OBVIOUS
  <2>1. Len(blocks) = 0 /\ Len(ring) = 0 /\ Len(packets) = 0 /\ DataOnWire = {}
    BY EmptySeq DEF EncInit, DataOnWire
  <2>2. ~ InHand /\ epc = "poll" /\ nread = 0
    BY DEF EncInit, InHand
  <2>3. QueueInv
    BY <2>1, <2>2 DEF QueueInv, Taken
  <2>4. EntriesInv
    BY <2>1, <2>2 DEF EntriesInv, Entries
  <2> QED
    BY <2>1, <2>2, <2>3, <2>4 DEF SymbolInv, AllMade, NoRepeats
<1>2. EncTypeOK /\ SymbolInv /\ [EncNext]_encVars => SymbolInv'
  BY SymbolStep
<1>3. SymbolInv => EverySymbolIsNew
  BY DEF SymbolInv, NoRepeats, EverySymbolIsNew, Id
<1> QED
  BY <1>1, <1>2, <1>3, EncTypeCorrect, PTL DEF EncSpec
=============================================================================
