--------------------------- MODULE TsSync_proofs ---------------------------
(***************************************************************************)
(* That the reader cuts the input into packets rightly, for every packet   *)
(* size, channel and input, proved with TLAPS.                             *)
(***************************************************************************)
EXTENDS TsSync, SequenceTheorems, TLAPS

(* How many bytes have left the scratch buffer.                            *)
Done == Len(is_sync) - Len(scratch)

(* The buffer holds the last bytes read, in order.                         *)
ScratchIsTail ==
  /\ Len(scratch) <= Len(is_sync)
  /\ \A k \in 1..Len(scratch) : scratch[k] = Done + k

(* What was sent was read and has left the buffer.                         *)
SentIsDone ==
  \A i \in DOMAIN sent : Start(sent[i]) >= 1 /\ End(sent[i]) <= Done + 1

(* The inductive invariant.                                                *)
SyncInv ==
  /\ SyncTypeOK
  /\ ScratchIsTail /\ SentIsDone
  /\ FramesAreWhole /\ NoSyncSkipped /\ StaysLocked

LEMMA SyncInitInv == SyncInit => SyncInv
<1> SUFFICES ASSUME SyncInit PROVE SyncInv
  OBVIOUS
<1> USE SyncAssumption DEF SyncInit
<1>1. SyncTypeOK
  BY DEF SyncTypeOK
<1>2. ScratchIsTail /\ SentIsDone
  BY DEF ScratchIsTail, SentIsDone
<1>3. FramesAreWhole /\ NoSyncSkipped /\ StaysLocked
  BY DEF FramesAreWhole, NoSyncSkipped, StaysLocked
<1> QED BY <1>1, <1>2, <1>3 DEF SyncInv

(* A step that leaves the bytes, the buffer and the packets sent alone     *)
(* keeps the invariant if it keeps the types.                              *)
LEMMA Elsewhere ==
  ASSUME SyncInv, SyncTypeOK', UNCHANGED <<is_sync, scratch, sent>>
  PROVE  SyncInv'
BY DEF SyncInv, ScratchIsTail, SentIsDone, Done, FramesAreWhole, NoSyncSkipped,
       StaysLocked, InFrame, InScratch, Start, End

(* Where a packet sent lies.                                               *)
LEMMA SentPlace ==
  ASSUME SyncInv, NEW i \in DOMAIN sent
  PROVE  Start(sent[i]) \in Nat /\ Start(sent[i]) >= 1 /\ End(sent[i]) <= Done + 1
<1>1. Start(sent[i]) >= 1 /\ End(sent[i]) <= Done + 1
  BY DEF SyncInv, SentIsDone
<1>2. sent[i] \in Seq(Positions) /\ Len(sent[i]) = PacketSize
  BY DEF SyncInv, SyncTypeOK, FramesAreWhole
<1>3. 1 \in 1..PacketSize
  BY SyncAssumption
<1>4. sent[i][1] \in Positions
  BY <1>2, <1>3
<1>. QED
  BY <1>1, <1>4 DEF Start, Positions

(* A sequence and what is put behind it.                                   *)
LEMMA Behind ==
  ASSUME NEW Q, NEW s \in Seq(Q), NEW t \in Seq(Q), NEW r, r = s \o t
  PROVE  /\ r \in Seq(Q)
         /\ Len(r) = Len(s) + Len(t)
         /\ \A k \in 1..Len(s) : r[k] = s[k]
         /\ \A k \in Len(s) + 1..Len(s) + Len(t) : r[k] = t[k - Len(s)]
OBVIOUS

LEMMA BytesGrow ==
  ASSUME is_sync \in Seq(BOOLEAN), NEW bytes \in Seq(BOOLEAN),
         is_sync' = is_sync \o bytes
  PROVE  /\ is_sync' \in Seq(BOOLEAN)
         /\ Len(is_sync') = Len(is_sync) + Len(bytes)
         /\ \A p \in 1..Len(is_sync) : is_sync'[p] = is_sync[p]
BY Behind

LEMMA ScratchGrows ==
  ASSUME scratch \in Seq(Positions), NEW new \in Seq(Positions),
         scratch' = scratch \o new
  PROVE  /\ scratch' \in Seq(Positions)
         /\ Len(scratch') = Len(scratch) + Len(new)
         /\ \A k \in 1..Len(scratch) : scratch'[k] = scratch[k]
         /\ \A k \in Len(scratch) + 1..Len(scratch) + Len(new) :
              scratch'[k] = new[k - Len(scratch)]
BY Behind

(* What a read adds to the buffer is what it adds to the bytes.            *)
LEMMA ReadBytesInv == SyncInv /\ ReadBytes => SyncInv'
<1> SUFFICES ASSUME SyncInv, ReadBytes PROVE SyncInv'
  OBVIOUS
<1> USE SyncAssumption
<1>1. PICK n \in 1..PacketSize - Len(scratch) :
        /\ \E bytes \in [1..n -> BOOLEAN] : is_sync' = is_sync \o bytes
        /\ scratch' = scratch \o Upto(n)
        /\ rpc' = IF Len(scratch) + n = PacketSize THEN "scan" ELSE "read"
  BY DEF ReadBytes, Wanted
<1>2. PICK bytes \in [1..n -> BOOLEAN] : is_sync' = is_sync \o bytes
  BY <1>1
<1>3. UNCHANGED <<stdin, frames, dpc, dec_ok, sent, received>>
  BY DEF ReadBytes
<1> DEFINE L == Len(is_sync)
           S == Len(scratch)
<1>4. /\ is_sync \in Seq(BOOLEAN) /\ scratch \in Seq(Positions)
      /\ L \in Nat /\ S \in Nat /\ n \in Nat /\ n >= 1 /\ PacketSize \in Nat
      /\ S + n <= PacketSize
  BY <1>1 DEF SyncInv, SyncTypeOK
<1>5. bytes \in Seq(BOOLEAN) /\ Len(bytes) = n
  BY <1>4
<1>6. /\ is_sync' \in Seq(BOOLEAN) /\ Len(is_sync') = L + n
      /\ \A p \in 1..L : is_sync'[p] = is_sync[p]
  <2>1. /\ is_sync' \in Seq(BOOLEAN)
        /\ Len(is_sync') = Len(is_sync) + Len(bytes)
        /\ \A p \in 1..Len(is_sync) : is_sync'[p] = is_sync[p]
    <3>1. is_sync \in Seq(BOOLEAN)
      BY <1>4
    <3> QED BY <1>2, <1>5, <3>1, BytesGrow, Zenon
  <2> QED BY <1>5, <2>1
<1>7. Upto(n) \in Seq(Positions) /\ Len(Upto(n)) = n
      /\ \A k \in 1..n : Upto(n)[k] = L + k
  BY <1>4 DEF Upto, Positions
<1>8. /\ scratch' \in Seq(Positions) /\ Len(scratch') = S + n
      /\ \A k \in 1..S : scratch'[k] = scratch[k]
      /\ \A k \in S + 1..S + n : scratch'[k] = L + (k - S)
  <2> DEFINE new == Upto(n)
  <2>1. new \in Seq(Positions) /\ Len(new) = n /\ scratch' = scratch \o new
    BY <1>1, <1>7
  <2>2. \A k \in 1..n : new[k] = L + k
    BY <1>7
  <2> HIDE DEF new
  <2>3. /\ scratch' \in Seq(Positions)
        /\ Len(scratch') = Len(scratch) + Len(new)
        /\ \A k \in 1..Len(scratch) : scratch'[k] = scratch[k]
        /\ \A k \in Len(scratch) + 1..Len(scratch) + Len(new) :
             scratch'[k] = new[k - Len(scratch)]
    <3>1. scratch \in Seq(Positions)
      BY <1>4
    <3> QED BY <2>1, <3>1, ScratchGrows, Zenon
  <2>4. ASSUME NEW k \in S + 1..S + n PROVE scratch'[k] = L + (k - S)
    <3>1. k - S \in 1..n
      BY <1>4
    <3> QED BY <2>1, <2>2, <2>3, <3>1
  <2> QED BY <2>1, <2>3, <2>4
<1>9. SyncTypeOK'
  <2>1. rpc' \in {"read", "scan"} /\ (rpc' = "scan" => Len(scratch') = PacketSize)
    BY <1>1, <1>8
  <2> QED BY <1>3, <1>4, <1>6, <1>8, <2>1 DEF SyncInv, SyncTypeOK
<1>10. Done' = Done /\ Done \in Int
  BY <1>4, <1>6, <1>8 DEF Done
<1>11. ScratchIsTail'
  <2>1. Len(scratch') <= Len(is_sync')
    BY <1>4, <1>6, <1>8 DEF SyncInv, ScratchIsTail
  <2>2. ASSUME NEW k \in 1..S + n PROVE scratch'[k] = Done + k
    <3>1. CASE k <= S
      BY <1>4, <1>8, <3>1 DEF SyncInv, ScratchIsTail
    <3>2. CASE k > S
      BY SMTT(60), <1>4, <1>8, <3>2 DEF Done
    <3> QED BY <1>4, <3>1, <3>2
  <2> QED BY <1>8, <1>10, <2>1, <2>2 DEF ScratchIsTail
<1>12. SentIsDone'
  BY <1>3, <1>10 DEF SyncInv, SentIsDone, Start, End
<1>13. FramesAreWhole'
  <2>1. ASSUME NEW i \in DOMAIN sent
        PROVE  Start(sent[i]) \in 1..L
    <3>1. Start(sent[i]) \in Nat /\ Start(sent[i]) >= 1
          /\ Start(sent[i]) + PacketSize <= Done + 1
      BY SentPlace DEF Start, End
    <3> QED BY <1>4, <3>1 DEF Done
  <2> QED BY <1>3, <1>6, <2>1 DEF SyncInv, FramesAreWhole, Start, End
<1>14. NoSyncSkipped'
  <2> SUFFICES ASSUME NEW p \in DOMAIN is_sync', is_sync'[p]
               PROVE  (InFrame(p) \/ InScratch(p))'
    BY DEF NoSyncSkipped
  <2>1. p \in 1..L + n
    BY <1>6
  <2>2. CASE p <= L
    <3>1. InFrame(p) \/ InScratch(p)
      BY SMTT(30), <1>4, <1>6, <2>1, <2>2 DEF SyncInv, NoSyncSkipped
    <3>2. InScratch(p) => InScratch(p)'
      <4> SUFFICES ASSUME NEW k \in DOMAIN scratch, scratch[k] = p
                   PROVE  InScratch(p)'
        BY DEF InScratch
      <4>1. k \in 1..S /\ k \in 1..S + n
        BY <1>4
      <4>2. k \in DOMAIN scratch' /\ scratch'[k] = p
        BY <1>8, <4>1
      <4> QED BY <4>2 DEF InScratch
    <3> QED BY <1>3, <3>1, <3>2 DEF InFrame, Start, End
  <2>3. CASE p > L
    <3>1. S + (p - L) \in 1..S + n /\ scratch'[S + (p - L)] = p
      <4>1. S + (p - L) \in S + 1..S + n /\ S + (p - L) \in 1..S + n
        BY <1>4, <2>1, <2>3
      <4>2. scratch'[S + (p - L)] = L + ((S + (p - L)) - S)
        BY <1>8, <4>1
      <4> QED BY <1>4, <2>1, <4>1, <4>2
    <3> QED BY <1>8, <3>1 DEF InScratch
  <2> QED BY <1>4, <2>1, <2>2, <2>3
<1>15. StaysLocked'
  <2> SUFFICES ASSUME NEW i \in DOMAIN sent, End(sent[i]) \in 1..L + n
               PROVE  IF is_sync'[End(sent[i])]
                      THEN \/ i < Len(sent) /\ Start(sent[i + 1]) = End(sent[i])
                           \/ i = Len(sent) /\ scratch' # <<>>
                              /\ scratch'[1] = End(sent[i])
                      ELSE i < Len(sent) => Start(sent[i + 1]) > End(sent[i])
    BY SMTT(30), <1>3, <1>6 DEF StaysLocked, Start, End
  <2> DEFINE next == End(sent[i])
  <2>1. i \in Nat /\ Len(sent) \in Nat /\ i >= 1 /\ i <= Len(sent)
    BY DEF SyncInv, SyncTypeOK
  <2>2. CASE next <= L
    <3>1. next \in DOMAIN is_sync /\ is_sync'[next] = is_sync[next]
      BY <1>4, <1>6, <2>2
    <3>2. IF is_sync[next]
          THEN \/ i < Len(sent) /\ Start(sent[i + 1]) = next
               \/ i = Len(sent) /\ scratch # <<>> /\ scratch[1] = next
          ELSE i < Len(sent) => Start(sent[i + 1]) > next
      BY <3>1 DEF SyncInv, StaysLocked
    <3>3. scratch # <<>> => scratch' # <<>> /\ scratch'[1] = scratch[1]
      BY <1>4, <1>8
    <3> QED BY <3>1, <3>2, <3>3
  <2>3. CASE next > L
    <3>1. next <= Done + 1
      BY DEF SyncInv, SentIsDone
    <3>2. S = 0 /\ next = L + 1
      BY <1>4, <2>3, <3>1 DEF Done
    <3>3. scratch' # <<>> /\ scratch'[1] = next
      BY <1>4, <1>8, <3>2
    <3>4. i = Len(sent)
      <4> SUFFICES ASSUME i < Len(sent) PROVE FALSE
        BY <2>1
      <4>1. i + 1 \in DOMAIN sent
        BY <2>1 DEF SyncInv, SyncTypeOK
      <4>2. next <= Start(sent[i + 1])
        BY <2>1, <4>1 DEF SyncInv, FramesAreWhole
      <4>3. Start(sent[i + 1]) + PacketSize <= Done + 1
        BY <4>1 DEF SyncInv, SentIsDone, Start, End
      <4>4. Start(sent[i + 1]) \in Int
        BY <4>1, SentPlace
      <4> QED BY <1>4, <3>2, <4>2, <4>3, <4>4 DEF Done
    <3> QED BY <3>3, <3>4
  <2> QED BY <1>4, <2>2, <2>3
<1> QED BY <1>9, <1>11, <1>12, <1>13, <1>14, <1>15 DEF SyncInv

(* The byte skipped is not a sync byte.                                    *)
LEMMA SkipByteInv == SyncInv /\ SkipByte => SyncInv'
<1> SUFFICES ASSUME SyncInv, SkipByte PROVE SyncInv'
  OBVIOUS
<1> USE SyncAssumption
<1> DEFINE L == Len(is_sync)
           S == Len(scratch)
<1>1. /\ scratch' = Tail(scratch) /\ rpc' = "read" /\ ~is_sync[scratch[1]]
      /\ UNCHANGED <<is_sync, stdin, frames, dpc, dec_ok, sent, received>>
  BY DEF SkipByte, AfterSkip, AtSync
<1>2. /\ scratch \in Seq(Positions) /\ S = PacketSize /\ S \in Nat /\ S >= 1
      /\ L \in Nat /\ S <= L
  BY DEF SkipByte, SyncInv, SyncTypeOK, ScratchIsTail
<1>3. /\ scratch' \in Seq(Positions) /\ Len(scratch') = S - 1
      /\ \A k \in 1..S - 1 : scratch'[k] = scratch[k + 1]
  BY <1>1, <1>2
<1>4. Done' = Done + 1 /\ Done \in Nat /\ scratch[1] = Done + 1
  BY <1>1, <1>2, <1>3 DEF SyncInv, ScratchIsTail, Done
<1>5. SyncTypeOK'
  BY <1>1, <1>2, <1>3 DEF SyncInv, SyncTypeOK
<1>6. ScratchIsTail'
  <2>1. \A k \in 1..S - 1 : scratch'[k] = Done + 1 + k
    BY <1>2, <1>3, <1>4 DEF SyncInv, ScratchIsTail
  <2> QED BY <1>1, <1>2, <1>3, <1>4, <2>1 DEF ScratchIsTail
<1>7. SentIsDone'
  <2> SUFFICES ASSUME NEW i \in DOMAIN sent
               PROVE  Start(sent[i]) >= 1 /\ End(sent[i]) <= Done + 2
    BY <1>1, <1>4 DEF SentIsDone, Start, End
  <2>1. Start(sent[i]) >= 1 /\ End(sent[i]) <= Done + 1
    BY DEF SyncInv, SentIsDone
  <2>2. End(sent[i]) \in Int
    BY SMTT(30), <1>2 DEF SyncInv, SyncTypeOK, FramesAreWhole, End, Positions
  <2> QED BY <1>4, <2>1, <2>2
<1>8. FramesAreWhole'
  BY <1>1 DEF SyncInv, FramesAreWhole, Start, End
<1>9. NoSyncSkipped'
  <2> SUFFICES ASSUME NEW p \in DOMAIN is_sync, is_sync[p]
               PROVE  InFrame(p) \/ InScratch(p)'
    BY <1>1 DEF NoSyncSkipped, InFrame, Start, End
  <2>1. CASE InFrame(p)
    BY <2>1
  <2>2. CASE InScratch(p)
    <3>1. PICK k \in DOMAIN scratch : scratch[k] = p
      BY <2>2 DEF InScratch
    <3>2. k # 1
      BY <1>1, <3>1
    <3>3. k - 1 \in 1..S - 1 /\ scratch'[k - 1] = p
      BY <1>2, <1>3, <3>1, <3>2
    <3> QED BY <1>3, <3>3 DEF InScratch
  <2> QED BY <2>1, <2>2 DEF SyncInv, NoSyncSkipped
<1>10. StaysLocked'
  <2> SUFFICES ASSUME NEW i \in DOMAIN sent, End(sent[i]) \in DOMAIN is_sync
               PROVE  IF is_sync[End(sent[i])]
                      THEN \/ i < Len(sent) /\ Start(sent[i + 1]) = End(sent[i])
                           \/ i = Len(sent) /\ scratch' # <<>>
                              /\ scratch'[1] = End(sent[i])
                      ELSE i < Len(sent) => Start(sent[i + 1]) > End(sent[i])
    BY <1>1 DEF StaysLocked, Start, End
  <2> QED BY <1>1 DEF SyncInv, StaysLocked
<1> QED BY <1>5, <1>6, <1>7, <1>8, <1>9, <1>10 DEF SyncInv

(* The packet sent begins where the last one ended, or later and at the    *)
(* first sync byte from there on.                                          *)
LEMMA SendFrameInv == SyncInv /\ SendFrame => SyncInv'
<1> SUFFICES ASSUME SyncInv, SendFrame PROVE SyncInv'
  OBVIOUS
<1> USE SyncAssumption
<1> DEFINE L == Len(is_sync)
           N == Len(sent)
<1>1. /\ frames' = Append(frames, scratch) /\ sent' = Append(sent, scratch)
      /\ scratch' = <<>> /\ rpc' = "read" /\ is_sync[scratch[1]]
      /\ UNCHANGED <<is_sync, stdin, dpc, dec_ok, received>>
      /\ Len(frames) < ChannelCap
  BY DEF SendFrame, AfterSend, FrameFound, AtSync
<1>2. /\ is_sync \in Seq(BOOLEAN) /\ L \in Nat
      /\ scratch \in Seq(Positions) /\ Len(scratch) = PacketSize
      /\ PacketSize \in Nat /\ PacketSize >= 1 /\ PacketSize <= L
      /\ sent \in Seq(Seq(Positions)) /\ frames \in Seq(Seq(Positions))
      /\ N \in Nat
  BY DEF SendFrame, FrameFound, SyncInv, SyncTypeOK, ScratchIsTail
<1>3. /\ sent' \in Seq(Seq(Positions)) /\ Len(sent') = N + 1
      /\ \A i \in 1..N : sent'[i] = sent[i]
      /\ sent'[N + 1] = scratch
  BY <1>1, <1>2
<1>3a. /\ DOMAIN sent = 1..N /\ DOMAIN sent' = 1..N + 1
      /\ DOMAIN is_sync = 1..L /\ DOMAIN scratch = 1..PacketSize
  BY <1>2, <1>3
<1>4. Done \in Nat /\ Done + PacketSize = L /\ Done' = L
  BY <1>1, <1>2 DEF Done
<1>5. \A k \in 1..PacketSize : scratch[k] = Done + k
  BY <1>2 DEF SyncInv, ScratchIsTail
<1>6. Start(scratch) = Done + 1 /\ End(scratch) = L + 1
  <2>1. 1 \in 1..PacketSize
    BY <1>2
  <2>2. scratch[1] = Done + 1
    BY <1>5, <2>1
  <2>3. End(scratch) = Start(scratch) + PacketSize /\ Start(scratch) = scratch[1]
    BY DEF Start, End
  <2>4. (Done + 1) + PacketSize = L + 1
    <3>1. L \in Nat /\ PacketSize \in Nat
      BY <1>2
    <3> HIDE DEF L
    <3> QED BY <1>4, <3>1
  <2> QED BY <2>2, <2>3, <2>4, Zenon
<1>7. ASSUME NEW i \in 1..N
      PROVE  /\ Start(sent[i]) \in Nat /\ Start(sent[i]) >= 1
             /\ End(sent[i]) = Start(sent[i]) + PacketSize
             /\ End(sent[i]) <= Done + 1
  <2>1. i \in DOMAIN sent
    BY <1>2
  <2>2. Start(sent[i]) \in Nat
    BY <1>2, <2>1 DEF SyncInv, FramesAreWhole, Start, Positions
  <2> QED BY <2>1, <2>2 DEF SyncInv, SentIsDone, Start, End
<1>8. SyncTypeOK'
  <2>1. frames' \in Seq(Seq(Positions)) /\ Len(frames') = Len(frames) + 1
    BY <1>1, <1>2
  <2>2. Len(frames') <= ChannelCap
    BY <1>1, <1>2, <2>1
  <2>3. scratch' \in Seq(Positions) /\ Len(scratch') <= PacketSize
    BY <1>1, <1>2
  <2> QED BY <1>1, <1>3, <2>1, <2>2, <2>3 DEF SyncInv, SyncTypeOK
<1>9. ScratchIsTail'
  BY <1>1, <1>2 DEF ScratchIsTail
<1>10. SentIsDone'
  <2> SUFFICES ASSUME NEW i \in 1..N + 1
               PROVE  Start(sent'[i]) >= 1 /\ End(sent'[i]) <= L + 1
    BY <1>3, <1>4 DEF SentIsDone, Start, End
  <2>1. CASE i \in 1..N
    <3>1. sent'[i] = sent[i]
      BY <1>3, <2>1
    <3>2. Start(sent[i]) >= 1 /\ End(sent[i]) <= Done + 1 /\ End(sent[i]) \in Int
      BY <1>2, <1>7, <2>1
    <3>3. End(sent[i]) <= L + 1
      BY <1>2, <1>4, <3>2
    <3> QED BY <3>1, <3>2, <3>3
  <2>2. CASE i = N + 1
    <3>1. sent'[i] = scratch
      BY <1>3, <2>2
    <3> QED BY <1>2, <1>4, <1>6, <3>1
  <2> QED BY <1>2, <2>1, <2>2
<1>11. FramesAreWhole'
  <2>1. ASSUME NEW i \in 1..N + 1
        PROVE  /\ Len(sent'[i]) = PacketSize
               /\ \A k \in 1..PacketSize : sent'[i][k] = Start(sent'[i]) + k - 1
               /\ is_sync[Start(sent'[i])]
    <3>1. CASE i \in 1..N
      <4>1. sent'[i] = sent[i]
        BY <1>3, <3>1
      <4> QED BY <1>3a, <3>1, <4>1 DEF SyncInv, FramesAreWhole
    <3>2. CASE i = N + 1
      <4>1. sent'[i] = scratch
        BY <1>3, <3>2
      <4>2. \A k \in 1..PacketSize : scratch[k] = Start(scratch) + k - 1
        BY <1>2, <1>4, <1>5, <1>6
      <4>3. is_sync[Start(scratch)]
        BY <1>1 DEF Start
      <4> QED BY <1>2, <4>1, <4>2, <4>3
    <3> QED BY <1>2, <3>1, <3>2
  <2>2. ASSUME NEW i \in 1..N + 1, NEW j \in 1..N + 1, i < j
        PROVE  End(sent'[i]) <= Start(sent'[j])
    <3>1. i \in 1..N
      BY <1>2, <2>2
    <3>2. CASE j \in 1..N
      <4>1. sent'[i] = sent[i] /\ sent'[j] = sent[j]
        BY <1>3, <3>1, <3>2
      <4> QED BY <1>3a, <2>2, <3>1, <3>2, <4>1 DEF SyncInv, FramesAreWhole
    <3>3. CASE j = N + 1
      <4>1. sent'[i] = sent[i] /\ sent'[j] = scratch
        BY <1>3, <3>1, <3>3
      <4>2. End(sent[i]) <= Done + 1
        BY <1>7, <3>1
      <4> QED BY <1>6, <4>1, <4>2
    <3> QED BY <1>2, <3>2, <3>3
  <2> HIDE DEF N
  <2> QED BY <1>3a, <1>1, <2>1, <2>2 DEF FramesAreWhole, Start, End
<1>12. NoSyncSkipped'
  <2> SUFFICES ASSUME NEW p \in DOMAIN is_sync, is_sync[p]
               PROVE  \E i \in 1..N + 1 : /\ p >= Start(sent'[i])
                                          /\ p < End(sent'[i])
    BY <1>3a, <1>1 DEF NoSyncSkipped, InFrame, Start, End
  <2>1. CASE InFrame(p)
    <3>1. PICK i \in 1..N : p >= Start(sent[i]) /\ p < End(sent[i])
      BY <1>3a, <2>1 DEF InFrame
    <3>2. sent'[i] = sent[i] /\ i \in 1..N + 1
      BY <1>2, <1>3
    <3> QED BY <3>1, <3>2
  <2>2. CASE InScratch(p)
    <3>1. PICK k \in 1..PacketSize : p = Done + k
      BY <1>3a, <1>5, <2>2 DEF InScratch
    <3>2. p >= Start(scratch) /\ p < End(scratch)
      BY <1>2, <1>4, <1>6, <3>1
    <3>3. N + 1 \in 1..N + 1
      BY <1>2
    <3> QED BY <1>3, <3>2, <3>3
  <2> QED BY <2>1, <2>2 DEF SyncInv, NoSyncSkipped
<1>13. StaysLocked'
  <2> SUFFICES ASSUME NEW i \in 1..N + 1, End(sent'[i]) \in 1..L
               PROVE  IF is_sync[End(sent'[i])]
                      THEN i < N + 1 /\ Start(sent'[i + 1]) = End(sent'[i])
                      ELSE i < N + 1 => Start(sent'[i + 1]) > End(sent'[i])
    <3>1. Len(sent') = N + 1 /\ Len(is_sync) = L
      BY <1>3
    <3> QED BY <1>3a, <1>1, <3>1 DEF StaysLocked, Start, End
  <2>1. i \in 1..N /\ sent'[i] = sent[i]
    <3>1. i # N + 1
      BY <1>2, <1>3, <1>6
    <3> QED BY <1>2, <1>3, <3>1
  <2> DEFINE next == End(sent[i])
  <2>2. IF is_sync[next]
        THEN \/ i < N /\ Start(sent[i + 1]) = next
             \/ i = N /\ scratch # <<>> /\ scratch[1] = next
        ELSE i < N => Start(sent[i + 1]) > next
    BY <1>3a, <2>1 DEF SyncInv, StaysLocked
  <2>3. CASE i < N
    <3>1. i + 1 \in 1..N
      BY <1>2, <2>1, <2>3
    <3>2. sent'[i + 1] = sent[i + 1]
      BY <1>3, <3>1
    <3> QED BY <1>2, <2>1, <2>2, <2>3, <3>2
  <2>4. CASE i = N
    <3>1. sent'[i + 1] = scratch /\ Start(scratch) = scratch[1]
      BY <1>3, <2>4 DEF Start
    <3>2. CASE is_sync[next]
      BY <1>2, <2>1, <2>2, <2>4, <3>1, <3>2
    <3>3. CASE ~is_sync[next]
      <4>1. Start(scratch) # next
        BY <1>1, <3>1, <3>3
      <4>2. next <= Start(scratch) /\ next \in Nat
        BY <1>2, <1>6, <1>7, <2>1
      <4>3. Start(scratch) > next
        BY <1>4, <1>6, <4>1, <4>2
      <4> QED BY <2>1, <3>1, <3>3, <4>3
    <3> QED BY <3>2, <3>3
  <2> QED BY <1>2, <2>1, <2>3, <2>4
<1> QED BY <1>8, <1>9, <1>10, <1>11, <1>12, <1>13 DEF SyncInv

(* The decoder's steps, and the reader's ends, leave the bytes alone.      *)
LEMMA ElsewhereTypes ==
  ASSUME SyncInv,
         CloseStdin \/ ReadEof \/ ReadError \/ SendFails
         \/ RecvFrame \/ RecvClosed \/ DecoderFails \/ DecoderPanics \/ Join
  PROVE  SyncTypeOK' /\ UNCHANGED <<is_sync, scratch, sent>>
<1> USE SyncAssumption DEF SyncInv, SyncTypeOK
<1>1. CASE CloseStdin \/ ReadEof \/ ReadError \/ SendFails \/ RecvClosed \/ Join
  BY <1>1 DEF CloseStdin, ReadEof, ReadError, SendFails, FrameFound, RecvClosed, Join
<1>2. CASE RecvFrame
  <2>1. /\ Head(frames) \in Seq(Positions) /\ Tail(frames) \in Seq(Seq(Positions))
        /\ Len(Tail(frames)) = Len(frames) - 1
    BY <1>2 DEF RecvFrame
  <2>2. received' \in Seq(Seq(Positions)) /\ Len(frames') <= ChannelCap
    BY <1>2, <2>1 DEF RecvFrame
  <2> QED BY <1>2, <2>1, <2>2 DEF RecvFrame
<1>3. CASE DecoderFails \/ DecoderPanics
  <2>1. frames' = <<>>
    BY <1>3 DEF DecoderFails, DecoderPanics
  <2>2. frames' \in Seq(Seq(Positions)) /\ Len(frames') <= ChannelCap
    BY <2>1
  <2> QED BY <1>3, <2>2 DEF DecoderFails, DecoderPanics
<1> QED BY <1>1, <1>2, <1>3

LEMMA SyncStepInv == SyncInv /\ [SyncNext]_syncVars => SyncInv'
<1> SUFFICES ASSUME SyncInv, [SyncNext]_syncVars PROVE SyncInv'
  OBVIOUS
<1>1. CASE ReadBytes
  BY <1>1, ReadBytesInv
<1>2. CASE SkipByte
  BY <1>2, SkipByteInv
<1>3. CASE SendFrame
  BY <1>3, SendFrameInv
<1>4. CASE \/ CloseStdin \/ ReadEof \/ ReadError \/ SendFails
           \/ RecvFrame \/ RecvClosed \/ DecoderFails \/ DecoderPanics \/ Join
  BY <1>4, ElsewhereTypes, Elsewhere
<1>5. CASE UNCHANGED syncVars
  <2>1. SyncTypeOK'
    BY <1>5 DEF syncVars, SyncInv, SyncTypeOK
  <2> QED BY <1>5, <2>1, Elsewhere DEF syncVars
<1> QED BY <1>1, <1>2, <1>3, <1>4, <1>5 DEF SyncNext, Scan

THEOREM SyncInvariant == SyncSpec => []SyncInv
BY SyncInitInv, SyncStepInv, PTL DEF SyncSpec

(* The buffer never holds more than a packet, nor the channel more than it *)
(* can, and all else has its type.                                         *)
THEOREM SyncTypeCorrect == SyncSpec => []SyncTypeOK
<1>1. SyncInv => SyncTypeOK
  BY DEF SyncInv
<1> QED BY SyncInvariant, <1>1, PTL

(* Every packet is a whole one: bytes in a row, from a sync byte on, none  *)
(* in two packets.                                                         *)
THEOREM WholeFrames == SyncSpec => []FramesAreWhole
<1>1. SyncInv => FramesAreWhole
  BY DEF SyncInv
<1> QED BY SyncInvariant, <1>1, PTL

(* No sync byte is thrown away.                                            *)
THEOREM SyncNotSkipped == SyncSpec => []NoSyncSkipped
<1>1. SyncInv => NoSyncSkipped
  BY DEF SyncInv
<1> QED BY SyncInvariant, <1>1, PTL

(* The reader stays in step with sync bytes a packet apart, and leaves a   *)
(* false step at its first miss.                                           *)
THEOREM LockHolds == SyncSpec => []StaysLocked
<1>1. SyncInv => StaysLocked
  BY DEF SyncInv
<1> QED BY SyncInvariant, <1>1, PTL

(* While run_decoder runs, what was sent is what it has had and what is in *)
(* the channel; afterwards nothing more is sent.                           *)
ChannelKeeps == dpc = "run" => sent = received \o frames

LEMMA ChannelInit == SyncInit => ChannelKeeps /\ DrainsBeforeEnd
BY DEF SyncInit, ChannelKeeps, DrainsBeforeEnd

LEMMA ChannelStep ==
  ASSUME SyncTypeOK, ChannelKeeps, DrainsBeforeEnd, [SyncNext]_syncVars
  PROVE  ChannelKeeps' /\ DrainsBeforeEnd'
<1>1. /\ sent \in Seq(Seq(Positions)) /\ received \in Seq(Seq(Positions))
      /\ frames \in Seq(Seq(Positions)) /\ scratch \in Seq(Positions)
  BY DEF SyncTypeOK
<1>2. CASE SendFrame
  <2>1. Append(received \o frames, scratch) = received \o Append(frames, scratch)
    <3>1. received \o frames \in Seq(Seq(Positions)) /\ <<scratch>> \in Seq(Seq(Positions))
      BY <1>1, ConcatProperties
    <3>2. /\ Append(received \o frames, scratch) = (received \o frames) \o <<scratch>>
          /\ Append(frames, scratch) = frames \o <<scratch>>
      BY <1>1, <3>1, AppendIsConcat, Zenon
    <3>3. (received \o frames) \o <<scratch>> = received \o (frames \o <<scratch>>)
      <4> DEFINE Q == Seq(Positions)
      <4>1. received \in Seq(Q) /\ frames \in Seq(Q) /\ <<scratch>> \in Seq(Q)
        BY <1>1, <3>1
      <4> HIDE DEF Q
      <4> QED BY <4>1, ConcatAssociative
    <3> QED BY <3>2, <3>3, Zenon
  <2> QED BY <1>2, <2>1 DEF SendFrame, ChannelKeeps, DrainsBeforeEnd
<1>3. CASE RecvFrame
  <2>1. Append(received, Head(frames)) \o Tail(frames) = received \o frames
    BY SMTT(30), <1>1, <1>3 DEF RecvFrame
  <2> QED BY <1>3, <2>1 DEF RecvFrame, ChannelKeeps, DrainsBeforeEnd
<1>4. CASE RecvClosed
  <2>1. received \o <<>> = received
    BY <1>1
  <2> QED BY <1>4, <2>1 DEF RecvClosed, Disconnected, ChannelKeeps, DrainsBeforeEnd
<1>5. CASE DecoderFails \/ DecoderPanics
  BY <1>5 DEF DecoderFails, DecoderPanics, ChannelKeeps, DrainsBeforeEnd
<1>6. CASE \/ CloseStdin \/ ReadBytes \/ ReadEof \/ ReadError \/ SkipByte
           \/ SendFails
  <2>1. UNCHANGED <<frames, dpc, dec_ok, sent, received>>
    BY <1>6 DEF CloseStdin, ReadBytes, ReadEof, ReadError, SkipByte, SendFails
  <2> QED BY <2>1 DEF ChannelKeeps, DrainsBeforeEnd
<1>7. CASE Join \/ UNCHANGED syncVars
  BY <1>7 DEF Join, syncVars, ChannelKeeps, DrainsBeforeEnd
<1> QED BY <1>2, <1>3, <1>4, <1>5, <1>6, <1>7 DEF SyncNext, Scan

(* A decoder that ends for want of input has had every packet sent.        *)
THEOREM ChannelDrained == SyncSpec => []DrainsBeforeEnd
<1>1. SyncSpec => [](ChannelKeeps /\ DrainsBeforeEnd)
  BY ChannelInit, ChannelStep, SyncTypeCorrect, PTL DEF SyncSpec
<1> QED BY <1>1, PTL

-----------------------------------------------------------------------------
(* Quotient and remainder of natural numbers.                              *)
LEMMA Division ==
  ASSUME NEW a \in Nat, NEW m \in Nat \ {0}
  PROVE  a \div m \in Nat /\ a = m * (a \div m) + (a % m) /\ a % m \in 0..m - 1
BY SMT

(* A number that is r over a multiple of m has the remainder r.            *)
LEMMA RemainderIs ==
  ASSUME NEW m \in Nat \ {0}, NEW a \in Int, NEW q \in Int, NEW r \in 0..m - 1,
         a = m * q + r
  PROVE  a % m = r
<1>. DEFINE d == a \div m
            e == a % m
<1>1. d \in Int /\ a = m * d + e /\ e \in 0..m - 1
  BY SMT
<1>. HIDE DEF d, e
<1>2. e \in Nat /\ e < m /\ r \in Nat /\ r < m
  BY <1>1
<1>3. CASE d = q
  <2>1. m * d = m * q
    BY <1>3
  <2>2. m * d \in Int
    BY <1>1
  <2>3. e = r
    BY <2>1, <2>2, <1>1, <1>2
  <2>. QED
    BY <2>3 DEF e
<1>4. CASE d < q
  <2>1. m * q >= m * (d + 1)
    BY <1>4, <1>1
  <2>2. m * (d + 1) = m * d + m
    BY <1>1
  <2>. QED
    BY <2>1, <2>2, <1>1, <1>2
<1>5. CASE d > q
  <2>1. m * d >= m * (q + 1)
    BY <1>5, <1>1
  <2>2. m * (q + 1) = m * q + m
    BY <1>1
  <2>. QED
    BY <2>1, <2>2, <1>1, <1>2
<1>. QED
  BY <1>1, <1>3, <1>4, <1>5

(* And its quotient is the multiple's.                                     *)
LEMMA QuotientIs ==
  ASSUME NEW m \in Nat \ {0}, NEW q \in Nat, NEW r \in 0..m - 1
  PROVE  (m * q + r) \div m = q
<1>. DEFINE a == m * q + r
            d == a \div m
<1>1. m * q \in Nat /\ r \in Nat /\ r < m
  OBVIOUS
<1>2. a \in Nat
  BY <1>1
<1>. HIDE DEF a
<1>3. d \in Nat /\ a = m * d + (a % m) /\ a % m \in 0..m - 1
  BY <1>2, Division
<1>4. a % m = r
  BY <1>1, <1>2, RemainderIs DEF a
<1>. HIDE DEF d
<1>5. m * d \in Nat /\ m * d = m * q
  BY <1>1, <1>3, <1>4 DEF a
<1>6. ASSUME d < q PROVE FALSE
  <2>1. m * (d + 1) <= m * q /\ m * (d + 1) = m * d + m
    BY <1>3, <1>6
  <2>. QED
    BY <1>1, <1>5, <2>1
<1>7. ASSUME q < d PROVE FALSE
  <2>1. m * (q + 1) <= m * d /\ m * (q + 1) = m * q + m
    BY <1>3, <1>7
  <2>. QED
    BY <1>1, <1>5, <2>1
<1>8. d = q
  BY <1>3, <1>6, <1>7
<1>. QED
  BY <1>8 DEF a, d

(* The byte after N packets is where one begins.                           *)
LEMMA PacketBegins ==
  ASSUME NEW N \in Nat
  PROVE  PacketSize * N \in Nat /\ (PacketSize * N) % PacketSize = 0
<1>1. PacketSize \in Nat \ {0}
  BY SyncAssumption
<1> DEFINE a == PacketSize * N
<1>2. a \in Nat
  BY <1>1
<1>3. a = PacketSize * N + 0 /\ 0 \in 0..PacketSize - 1
  BY <1>1
<1> HIDE DEF a
<1>4. a % PacketSize = 0
  BY <1>1, <1>2, <1>3, RemainderIs
<1> QED BY <1>2, <1>4 DEF a

-----------------------------------------------------------------------------
(* A reader that waits for bytes, or has seen the input end, has less than *)
(* a packet; only one whose packet nobody takes ends with a whole one.     *)
LeftOver ==
  /\ rpc = "read" => Len(scratch) < PacketSize
  /\ dpc = "run" /\ rpc = "exited" => Len(scratch) < PacketSize
  /\ dpc # "run" /\ dec_ok => rpc = "exited" /\ Len(scratch) < PacketSize

(* Behind an input in step nothing has been skipped.                       *)
NothingSkipped ==
  InStep =>
    /\ Done = PacketSize * Len(sent)
    /\ \A i \in DOMAIN sent : Start(sent[i]) = PacketSize * (i - 1) + 1

StepInv == LeftOver /\ NothingSkipped

LEMMA StepInvInit == SyncInit => StepInv
<1> SUFFICES ASSUME SyncInit PROVE StepInv
  OBVIOUS
<1> USE SyncAssumption DEF SyncInit
<1>1. LeftOver
  BY DEF LeftOver
<1>2. Done = 0 /\ Len(sent) = 0 /\ DOMAIN sent = {}
  BY DEF Done
<1>3. PacketSize * 0 = 0
  OBVIOUS
<1> QED BY <1>1, <1>2, <1>3 DEF StepInv, NothingSkipped

LEMMA GrowsBy ==
  ASSUME scratch \in Seq(Positions), NEW n, Upto(n) \in Seq(Positions),
         Len(Upto(n)) = n, scratch' = scratch \o Upto(n)
  PROVE  Len(scratch') = Len(scratch) + n
<1> DEFINE new == Upto(n)
<1>1. new \in Seq(Positions) /\ Len(new) = n /\ scratch' = scratch \o new
  OBVIOUS
<1> HIDE DEF new
<1> QED BY <1>1, ScratchGrows, Zenon

LEMMA LeftOverStep ==
  ASSUME SyncInv, LeftOver, [SyncNext]_syncVars
  PROVE  LeftOver'
<1> USE SyncAssumption DEF LeftOver
<1>1. scratch \in Seq(Positions) /\ rpc \in {"read", "scan", "exited"}
  BY DEF SyncInv, SyncTypeOK
<1>2. CASE ReadBytes
  <2>1. PICK n \in 1..PacketSize - Len(scratch) :
          /\ scratch' = scratch \o Upto(n)
          /\ rpc' = IF Len(scratch) + n = PacketSize THEN "scan" ELSE "read"
    BY <1>2 DEF ReadBytes, Wanted
  <2>2. Upto(n) \in Seq(Positions) /\ Len(Upto(n)) = n
    BY <1>2 DEF Upto, Positions, SyncInv, SyncTypeOK
  <2>3. Len(scratch') = Len(scratch) + n
    BY <1>1, <2>1, <2>2, GrowsBy
  <2>4. rpc = "read" /\ UNCHANGED <<dpc, dec_ok>>
    BY <1>2 DEF ReadBytes
  <2> QED BY <1>1, <2>1, <2>3, <2>4
<1>3. CASE SkipByte
  <2>1. Len(scratch) = PacketSize /\ rpc = "scan"
    BY <1>3 DEF SkipByte, SyncInv, SyncTypeOK
  <2>2. Len(scratch') = PacketSize - 1
    BY <1>1, <1>3, <2>1 DEF SkipByte, AfterSkip
  <2> QED BY <1>3, <2>1, <2>2 DEF SkipByte
<1>4. CASE SendFrame
  BY <1>4 DEF SendFrame, AfterSend, FrameFound
<1>5. CASE SendFails
  BY <1>5 DEF SendFails, FrameFound, DecoderGone
<1>6. CASE ReadEof \/ ReadError
  BY <1>6 DEF ReadEof, ReadError
<1>7. CASE CloseStdin \/ RecvFrame \/ Join \/ UNCHANGED syncVars
  BY <1>7 DEF CloseStdin, RecvFrame, Join, syncVars
<1>8. CASE RecvClosed
  BY <1>8 DEF RecvClosed, Disconnected
<1>9. CASE DecoderFails \/ DecoderPanics
  BY <1>9 DEF DecoderFails, DecoderPanics
<1> QED BY <1>2, <1>3, <1>4, <1>5, <1>6, <1>7, <1>8, <1>9 DEF SyncNext, Scan

(* More bytes in step are in step so far.                                  *)
LEMMA StepSoFar ==
  ASSUME SyncInv, ReadBytes, InStep'
  PROVE  InStep /\ Done' = Done
<1> USE SyncAssumption
<1>1. PICK n \in 1..PacketSize - Len(scratch) :
        /\ \E bytes \in [1..n -> BOOLEAN] : is_sync' = is_sync \o bytes
        /\ scratch' = scratch \o Upto(n)
  BY DEF ReadBytes, Wanted
<1>2. PICK bytes \in [1..n -> BOOLEAN] : is_sync' = is_sync \o bytes
  BY <1>1
<1>3. /\ is_sync \in Seq(BOOLEAN) /\ scratch \in Seq(Positions)
      /\ n \in Nat /\ Len(is_sync) \in Nat /\ Len(scratch) \in Nat
  BY DEF SyncInv, SyncTypeOK
<1>4. bytes \in Seq(BOOLEAN) /\ Len(bytes) = n
  BY <1>3
<1>5. /\ Len(is_sync') = Len(is_sync) + n
      /\ DOMAIN is_sync' = 1..Len(is_sync')
      /\ \A p \in 1..Len(is_sync) : is_sync'[p] = is_sync[p]
  <2>1. /\ is_sync' \in Seq(BOOLEAN)
        /\ Len(is_sync') = Len(is_sync) + Len(bytes)
        /\ \A p \in 1..Len(is_sync) : is_sync'[p] = is_sync[p]
    BY <1>2, <1>3, <1>4, BytesGrow, Zenon
  <2> QED BY <1>4, <2>1
<1>6. Upto(n) \in Seq(Positions) /\ Len(Upto(n)) = n
  BY <1>3 DEF Upto, Positions
<1>7. Len(scratch') = Len(scratch) + n
  BY <1>1, <1>3, <1>6, GrowsBy
<1>8. Done' = Done
  BY <1>3, <1>5, <1>7 DEF Done
<1>9. InStep
  <2> SUFFICES ASSUME NEW p \in 1..Len(is_sync), (p - 1) % PacketSize = 0
               PROVE  is_sync[p]
    BY <1>3 DEF InStep
  <2>1. p \in DOMAIN is_sync'
    BY <1>3, <1>5
  <2>2. is_sync'[p]
    BY <2>1 DEF InStep
  <2> QED BY <1>5, <2>2
<1> QED BY <1>8, <1>9

(* A full buffer behind an input in step begins with its sync byte.        *)
LEMMA FullIsAtSync ==
  ASSUME SyncInv, NothingSkipped, InStep, rpc = "scan"
  PROVE  /\ AtSync /\ Len(sent) \in Nat
         /\ Start(scratch) = PacketSize * Len(sent) + 1
         /\ Done = PacketSize * Len(sent)
<1> USE SyncAssumption
<1>1. /\ Len(sent) \in Nat /\ is_sync \in Seq(BOOLEAN) /\ scratch \in Seq(Positions)
      /\ Len(scratch) = PacketSize /\ PacketSize <= Len(is_sync)
      /\ \A k \in 1..Len(scratch) : scratch[k] = Done + k
  BY DEF SyncInv, SyncTypeOK, ScratchIsTail
<1>2. scratch[1] = Done + 1 /\ Done = Len(is_sync) - PacketSize /\ Done \in Nat
  BY <1>1 DEF Done
<1>3. Done = PacketSize * Len(sent) /\ Done % PacketSize = 0
  <2>1. Done = PacketSize * Len(sent)
    BY DEF NothingSkipped
  <2> QED BY <1>1, <2>1, PacketBegins
<1>4. Done + 1 \in DOMAIN is_sync /\ ((Done + 1) - 1) % PacketSize = 0
  <2>1. Done + 1 \in DOMAIN is_sync
    BY <1>1, <1>2
  <2>2. (Done + 1) - 1 = Done
    BY <1>2
  <2> QED BY <1>3, <2>1, <2>2
<1>5. is_sync[Done + 1]
  BY <1>4 DEF InStep
<1> QED BY <1>1, <1>2, <1>3, <1>5 DEF AtSync, Start

LEMMA NothingSkippedStep ==
  ASSUME SyncInv, NothingSkipped, [SyncNext]_syncVars
  PROVE  NothingSkipped'
<1> SUFFICES ASSUME InStep'
             PROVE  /\ Done' = PacketSize * Len(sent')
                    /\ \A i \in DOMAIN sent' :
                         Start(sent'[i]) = PacketSize * (i - 1) + 1
  BY DEF NothingSkipped, Start
<1>1. CASE ReadBytes
  <2>1. InStep /\ Done' = Done
    BY <1>1, StepSoFar
  <2>2. sent' = sent
    BY <1>1 DEF ReadBytes
  <2> QED BY <2>1, <2>2 DEF NothingSkipped
<1>2. CASE SkipByte
  <2>1. InStep /\ rpc = "scan" /\ ~AtSync
    BY <1>2 DEF SkipByte, InStep
  <2> QED BY <2>1, FullIsAtSync
<1>3. CASE SendFrame
  <2>1. InStep /\ rpc = "scan"
    BY <1>3 DEF SendFrame, FrameFound, InStep
  <2> DEFINE N == Len(sent)
  <2>2. N \in Nat /\ Start(scratch) = PacketSize * N + 1 /\ Done = PacketSize * N
    BY <2>1, FullIsAtSync
  <2>3. /\ sent' = Append(sent, scratch) /\ scratch' = <<>> /\ is_sync' = is_sync
        /\ sent \in Seq(Seq(Positions)) /\ scratch \in Seq(Positions)
        /\ Len(scratch) = PacketSize /\ Len(is_sync) \in Nat
    BY <1>3, <2>1 DEF SendFrame, AfterSend, SyncInv, SyncTypeOK
  <2>4. /\ Len(sent') = N + 1 /\ DOMAIN sent' = 1..N + 1 /\ DOMAIN sent = 1..N
        /\ sent'[N + 1] = scratch
        /\ \A i \in 1..N : sent'[i] = sent[i]
    BY <2>3
  <2>5. Done' = Done + PacketSize
    BY <2>3, SyncAssumption DEF Done
  <2>6. PacketSize * (N + 1) = PacketSize * N + PacketSize
    BY <2>2, SyncAssumption
  <2>7. ASSUME NEW i \in 1..N + 1
        PROVE  Start(sent'[i]) = PacketSize * (i - 1) + 1
    <3>1. CASE i \in 1..N
      <4>1. Start(sent[i]) = PacketSize * (i - 1) + 1
        BY <2>1, <2>4, <3>1 DEF NothingSkipped
      <4> QED BY <2>4, <3>1, <4>1
    <3>2. CASE i = N + 1
      <4>1. i - 1 = N /\ sent'[i] = scratch
        BY <2>2, <2>4, <3>2
      <4> QED BY <2>2, <4>1
    <3> QED BY <2>2, <3>1, <3>2
  <2> QED BY <2>2, <2>4, <2>5, <2>6, <2>7
<1>4. CASE \/ CloseStdin \/ ReadEof \/ ReadError \/ SendFails
           \/ RecvFrame \/ RecvClosed \/ DecoderFails \/ DecoderPanics \/ Join
           \/ UNCHANGED syncVars
  <2>1. UNCHANGED <<is_sync, scratch, sent>>
    BY <1>4, ElsewhereTypes DEF syncVars
  <2> QED BY <2>1 DEF InStep, Done, NothingSkipped
<1> QED BY <1>1, <1>2, <1>3, <1>4 DEF SyncNext, Scan

THEOREM StepInvariant == SyncSpec => []StepInv
<1>1. SyncInv /\ StepInv /\ [SyncNext]_syncVars => StepInv'
  BY LeftOverStep, NothingSkippedStep DEF StepInv
<1> QED BY <1>1, StepInvInit, SyncInvariant, PTL DEF SyncSpec

(* An input in step comes through as it is, byte by byte, and only an      *)
(* incomplete packet at its end is left over.                              *)
THEOREM StepComesThrough == SyncSpec => []InStepComesThrough
<1>1. ASSUME SyncInv, StepInv, DrainsBeforeEnd
      PROVE  InStepComesThrough
  <2> SUFFICES ASSUME InStep
               PROVE  /\ \A i \in DOMAIN sent : \A k \in 1..PacketSize :
                            sent[i][k] = (i - 1) * PacketSize + k
                      /\ dpc # "run" /\ dec_ok =>
                            Len(received) = Len(is_sync) \div PacketSize
    BY DEF InStepComesThrough
  <2>0. SyncInv /\ LeftOver /\ NothingSkipped /\ DrainsBeforeEnd
    BY <1>1 DEF StepInv
  <2>1. ASSUME NEW i \in DOMAIN sent, NEW k \in 1..PacketSize
        PROVE  sent[i][k] = (i - 1) * PacketSize + k
    <3>1. sent[i][k] = Start(sent[i]) + k - 1
      BY <2>0, <2>1 DEF SyncInv, FramesAreWhole
    <3>2. Start(sent[i]) = PacketSize * (i - 1) + 1
      BY <2>0, <2>1 DEF NothingSkipped
    <3>3. i \in Int /\ PacketSize \in Int /\ k \in Int
      BY <2>0, <2>1, SyncAssumption DEF SyncInv, SyncTypeOK
    <3>4. PacketSize * (i - 1) = (i - 1) * PacketSize /\ PacketSize * (i - 1) \in Int
      BY <3>3
    <3> QED BY <3>1, <3>2, <3>3, <3>4
  <2>2. ASSUME dpc # "run", dec_ok
        PROVE  Len(received) = Len(is_sync) \div PacketSize
    <3>1. received = sent /\ Len(scratch) < PacketSize
      BY <2>0, <2>2 DEF DrainsBeforeEnd, LeftOver
    <3>2. /\ Len(sent) \in Nat /\ Len(is_sync) \in Nat
          /\ Len(scratch) \in 0..PacketSize - 1 /\ PacketSize \in Nat \ {0}
      BY <2>0, <3>1, SyncAssumption DEF SyncInv, SyncTypeOK
    <3>3. Len(is_sync) - Len(scratch) = PacketSize * Len(sent)
      BY <2>0 DEF NothingSkipped, Done
    <3>4. Len(is_sync) = PacketSize * Len(sent) + Len(scratch)
      <4>1. PacketSize * Len(sent) \in Nat
        BY <3>2, PacketBegins
      <4> QED BY <3>2, <3>3, <4>1
    <3>5. (PacketSize * Len(sent) + Len(scratch)) \div PacketSize = Len(sent)
      BY <3>2, QuotientIs
    <3> QED BY <3>1, <3>4, <3>5
  <2> QED BY <2>1, <2>2
<1> QED BY <1>1, SyncInvariant, StepInvariant, ChannelDrained, PTL
=============================================================================
