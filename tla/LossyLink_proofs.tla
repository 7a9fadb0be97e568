-------------------------- MODULE LossyLink_proofs --------------------------
(***************************************************************************)
(* Proofs about an encoder that may be restarted, a link that loses and    *)
(* garbles frames and the decoder behind them, for every value of the      *)
(* constants: types, that the decoder in the composition is RaptorqDec's,  *)
(* and the count of lost frames, for every modulus of the continuity       *)
(* counter above the longest burst.                                        *)
(*                                                                         *)
(* For the count only little of a step matters: whether the decoder read   *)
(* the frame, whether one went unread, whether the encoder started again.  *)
(***************************************************************************)
EXTENDS LossyLink, RaptorqDec_proofs

-----------------------------------------------------------------------------
(* Quotient and remainder of natural numbers.                              *)
LEMMA Division ==
  ASSUME NEW a \in Nat, NEW m \in Nat \ {0}
  PROVE  a \div m \in Nat /\ a = m * (a \div m) + (a % m) /\ a % m \in 0..m - 1
BY SMT

(* A number that is r over a multiple of m has the remainder r.            *)
LEMMA RemainderIs ==
  ASSUME NEW m \in Nat \ {0}, NEW a \in Int, NEW q \in Int, NEW r \in 0..m - 1,
         a = m * q + r
  PROVE  a % m = r
<1>. DEFINE d == a \div m
            e == a % m
<1>1. d \in Int /\ a = m * d + e /\ e \in 0..m - 1
  BY SMT
<1>. HIDE DEF d, e
<1>2. e \in Nat /\ e < m /\ r \in Nat /\ r < m
  BY <1>1
<1>3. CASE d = q
  <2>1. m * d = m * q
    BY <1>3
  <2>2. m * d \in Int
    BY <1>1
  <2>3. e = r
    BY <2>1, <2>2, <1>1, <1>2
  <2>. QED
    BY <2>3 DEF e
<1>4. CASE d < q
  <2>1. m * q >= m * (d + 1)
    BY <1>4, <1>1
  <2>2. m * (d + 1) = m * d + m
    BY <1>1
  <2>. QED
    BY <2>1, <2>2, <1>1, <1>2
<1>5. CASE d > q
  <2>1. m * d >= m * (q + 1)
    BY <1>5, <1>1
  <2>2. m * (q + 1) = m * q + m
    BY <1>1
  <2>. QED
    BY <2>1, <2>2, <1>1, <1>2
<1>. QED
  BY <1>1, <1>3, <1>4, <1>5

(* cc_gap (main.rs:261): between the counter of one frame and that of the  *)
(* frame after u others, u below the modulus, the gap is u.                *)
LEMMA GapIsUnread ==
  ASSUME NEW s \in Int, NEW u \in 0..CcMod - 1
  PROVE  cc_gap((s - 1 - u) % CcMod, s % CcMod) = u
<1>. DEFINE t == s - 1 - u
            p == t \div CcMod
            c == t % CcMod
            q == s \div CcMod
            d == s % CcMod
<1>0. CcMod \in Nat \ {0} /\ u \in Nat
  BY DecAssumption
<1>1. t \in Int
  BY <1>0
<1>. HIDE DEF t
<1>2. p \in Int /\ t = CcMod * p + c /\ c \in 0..CcMod - 1
  BY <1>0, <1>1, SMT
<1>3. q \in Int /\ s = CcMod * q + d /\ d \in 0..CcMod - 1
  BY <1>0, SMT
<1>. HIDE DEF p, c, q, d
<1>4. t = s - 1 - u
  BY DEF t
<1>5. CcMod * (p - q) = CcMod * p - CcMod * q
  BY <1>0, <1>2, <1>3
<1>6. CcMod * p \in Int /\ CcMod * q \in Int
  BY <1>0, <1>2, <1>3
<1>7. d - (c + 1) = CcMod * (p - q) + u
  BY <1>0, <1>2, <1>3, <1>4, <1>5, <1>6
<1>8. (d - (c + 1)) % CcMod = u
  <2>1. d - (c + 1) \in Int /\ p - q \in Int
    BY <1>0, <1>2, <1>3
  <2>. QED
    BY <2>1, <1>0, <1>7, RemainderIs
<1>9. c # None
  BY <1>0, <1>2 DEF None
<1>10. cc_gap(c, d) = u
  BY <1>8, <1>9 DEF cc_gap
<1>. QED
  BY <1>10 DEF t, c, d

-----------------------------------------------------------------------------
(* What the four kinds of step do to the counts: a frame is read, a frame  *)
(* goes unread, the encoder starts again, or none of these.                *)
Restarts == MaxRestarts - budget.restart

FrameRead ==
  /\ lost_packets' = lost_packets + cc_gap(last_cc, WireCc)
  /\ last_cc' = WireCc /\ sent' = sent + 1
  /\ CounterRead
  /\ budget'.restart = budget.restart

FrameUnread ==
  /\ UNCHANGED linkVars /\ sent' = sent + 1
  /\ Unread' = Unread + 1 /\ Unread < MaxBurst
  /\ UNCHANGED truly
  /\ budget'.restart = budget.restart

StartedAgain ==
  /\ UNCHANGED linkVars /\ sent' = 0
  /\ UNCHANGED <<missing, truly>>
  /\ budget'.restart = budget.restart - 1 /\ budget.restart > 0

NoFrame ==
  /\ UNCHANGED <<linkVars, sent, missing, truly>>
  /\ budget'.restart = budget.restart

LossTypes ==
  /\ budget \in [{"fault", "extra", "noop", "restart"} -> Nat]
  /\ missing \in [{"lost", "garbled"} -> Nat]
  /\ truly \in [{"lost", "garbled"} -> Nat]
  /\ last_cc \in {None} \cup 0..CcMod - 1
  /\ lost_packets \in Int /\ sent \in Nat
  /\ Unread <= MaxBurst
  /\ Restarts \in Nat

(* The counter of the next frame.                                          *)
LEMMA WireCcRange ==
  ASSUME LossTypes
  PROVE  WireCc \in 0..CcMod - 1
<1>1. sent \in Int /\ CcMod \in Nat \ {0}
  BY DecAssumption DEF LossTypes
<1>2. sent % CcMod \in 0..CcMod - 1
  BY <1>1, ModRange
<1>. QED
  BY <1>2 DEF WireCc

(* Spending a bound leaves the others.                                     *)
LEMMA SpendOne ==
  ASSUME LossTypes, NEW kind \in {"fault", "extra", "noop", "restart"}, Spend(kind)
  PROVE  /\ budget' \in [{"fault", "extra", "noop", "restart"} -> Nat]
         /\ budget'.restart = IF kind = "restart" THEN budget.restart - 1
                              ELSE budget.restart
         /\ budget[kind] > 0
BY DEF LossTypes, Spend

(* A counter that is read settles what went missing before it.             *)
LEMMA CounterReadSettles ==
  ASSUME LossTypes, CounterRead
  PROVE  /\ missing' \in [{"lost", "garbled"} -> Nat]
         /\ truly' \in [{"lost", "garbled"} -> Nat]
         /\ Unread' = 0
         /\ truly'.lost + truly'.garbled
              = truly.lost + truly.garbled + (IF last_cc = None THEN 0 ELSE Unread)
<1>1. missing' = Nothing
  BY DEF CounterRead
<1>2. Nothing \in [{"lost", "garbled"} -> Nat] /\ Nothing.lost = 0 /\ Nothing.garbled = 0
  BY DEF Nothing
<1>3. missing' \in [{"lost", "garbled"} -> Nat] /\ Unread' = 0
  BY <1>1, <1>2 DEF Unread
<1>4. CASE last_cc = None
  BY <1>3, <1>4 DEF CounterRead, LossTypes
<1>5. CASE last_cc # None
  BY <1>3, <1>5 DEF CounterRead, LossTypes, Unread
<1>. QED
  BY <1>4, <1>5

(* Delivered frames are read, and so are those with a garbled OTI.         *)
LEMMA DeliveredIsRead ==
  ASSUME NEW p, NEW damage, Deliver(p) \/ DeliverInsane(p, damage)
  PROVE  /\ Receive(WireCc) /\ CounterRead
<1>1. \A oti : [DataFrame(p) EXCEPT !.oti = oti].cc = WireCc
  BY DEF DataFrame
<1>2. DataFrame(p).cc = WireCc
  BY DEF DataFrame
<1>. QED
  BY <1>1, <1>2 DEF Deliver, DeliverInsane, DropInsane, DropRedundant, Accept,
                   Panic

(* Frames lost or garbled go unread.                                       *)
LEMMA LostIsUnread ==
  ASSUME LossTypes, NEW damage, Unheard(damage)
  PROVE  /\ UNCHANGED linkVars /\ UNCHANGED truly
         /\ missing' \in [{"lost", "garbled"} -> Nat]
         /\ Unread' = Unread + 1 /\ Unread < MaxBurst
<1>1. Unread < MaxBurst /\ UNCHANGED linkVars /\ UNCHANGED truly
  BY DEF Unheard, DeliverGarbled, Lose, MayLose, RecvUnparseable, vars
<1>2. \E fate \in {"lost", "garbled"} : missing' = [missing EXCEPT ![fate] = @ + 1]
  BY DEF Unheard, DeliverGarbled, Lose
<1>3. missing' \in [{"lost", "garbled"} -> Nat] /\ Unread' = Unread + 1
  BY <1>2 DEF LossTypes, Unread
<1>. QED
  BY <1>1, <1>3

(* A step of the decoder on its own reads no frame.                        *)
LEMMA DecoderReadsNothing ==
  ASSUME DecoderStep
  PROVE  UNCHANGED <<linkVars, sent, missing, truly, budget>>
BY DEF DecoderStep, PollTimeout, Disconnect, Drain, EmitDecoded, EmitBestEffort,
       EmitZero, Emit, DrainDone, Flush, FlushNext, FlushDone, StdoutError, Tick,
       senderVars, ghostVars

(* A data frame is read or goes unread.                                    *)
LEMMA FrameKinds ==
  ASSUME LossTypes, NEW p, NEW damage, sent' = sent + 1,
         \/ Deliver(p) /\ (UNCHANGED budget \/ Spend("extra"))
         \/ Fault(p, damage) /\ Spend("fault")
  PROVE  /\ FrameRead \/ FrameUnread
         /\ budget' \in [{"fault", "extra", "noop", "restart"} -> Nat]
         /\ missing' \in [{"lost", "garbled"} -> Nat]
<1>1. /\ budget' \in [{"fault", "extra", "noop", "restart"} -> Nat]
      /\ budget'.restart = budget.restart
  BY SpendOne DEF LossTypes
<1>2. CASE Deliver(p) \/ DeliverInsane(p, damage)
  BY <1>1, <1>2, DeliveredIsRead, CounterReadSettles DEF FrameRead, Receive
<1>3. CASE Unheard(damage)
  BY <1>1, <1>3, LostIsUnread DEF FrameUnread
<1>. QED
  BY <1>1, <1>2, <1>3 DEF Fault

LEMMA StepKinds ==
  ASSUME LossTypes, [LinkNext]_linkAllVars
  PROVE  /\ FrameRead \/ FrameUnread \/ StartedAgain \/ NoFrame
         /\ budget' \in [{"fault", "extra", "noop", "restart"} -> Nat]
         /\ missing' = missing \/ missing' \in [{"lost", "garbled"} -> Nat]
<1>1. CASE Data
  <2>1. sent' = sent + 1
    BY <1>1 DEF Data, Sender!InBand
  <2>2. \E p, damage :
          \/ Deliver(p) /\ UNCHANGED budget
          \/ Fault(p, damage) /\ Spend("fault")
    BY <1>1 DEF Data
  <2>. QED
    BY <2>1, <2>2, FrameKinds
<1>2. ASSUME NEW b \in FirstBlk..LastBlk, ExtraData(b)
      PROVE  /\ FrameRead \/ FrameUnread
             /\ budget' \in [{"fault", "extra", "noop", "restart"} -> Nat]
             /\ missing' \in [{"lost", "garbled"} -> Nat]
  <2>1. sent' = sent + 1
    BY <1>2 DEF ExtraData, Sender!Extra
  <2>2. \E p, damage :
          \/ Deliver(p) /\ Spend("extra")
          \/ Fault(p, damage) /\ Spend("fault")
    BY <1>2 DEF ExtraData
  <2>. QED
    BY <2>1, <2>2, FrameKinds
<1>3. CASE Noop
  <2>1. sent' = sent + 1
    BY <1>3 DEF Noop, Sender!Noop
  <2>2. CASE Spend("noop") /\ RecvNoop(WireCc) /\ CounterRead
    BY <2>1, <2>2, SpendOne, CounterReadSettles DEF FrameRead, RecvNoop, Receive
  <2>3. CASE Unheard({}) /\ Spend("fault")
    BY <2>1, <2>3, SpendOne, LostIsUnread DEF FrameUnread
  <2>. QED
    BY <1>3, <2>2, <2>3 DEF Noop
<1>4. CASE EncRestart
  BY <1>4, SpendOne DEF EncRestart, Sender!Restart, StartedAgain, vars, ghostVars
<1>5. CASE DecoderStep
  BY <1>5, DecoderReadsNothing DEF NoFrame, LossTypes
<1>6. CASE UNCHANGED linkAllVars
  BY <1>6 DEF linkAllVars, vars, senderVars, ghostVars, linkVars, NoFrame, LossTypes
<1>. QED
  BY <1>1, <1>2, <1>3, <1>4, <1>5, <1>6 DEF LinkNext

-----------------------------------------------------------------------------
(* What is counted beyond what was lost.                                   *)
Error == lost_packets - (truly.lost + truly.garbled)

(* The decoder expects the counter the sender goes on with.                *)
InStep == last_cc # None => last_cc = (sent - 1 - Unread) % CcMod

(* Every restart may cost a round of the counter, once: at the first frame *)
(* that is read after it.                                                  *)
LossInv ==
  /\ LossTypes
  /\ \E rounds \in 0..Restarts :
       /\ InStep \/ rounds < Restarts
       /\ -(CcMod - 1) * rounds <= Error /\ Error <= (CcMod - 1) * rounds

LEMMA NextLossTypes ==
  ASSUME LossTypes, [LinkNext]_linkAllVars
  PROVE  LossTypes'
<1>1. /\ FrameRead \/ FrameUnread \/ StartedAgain \/ NoFrame
      /\ budget' \in [{"fault", "extra", "noop", "restart"} -> Nat]
      /\ missing' = missing \/ missing' \in [{"lost", "garbled"} -> Nat]
  BY StepKinds
<1>2. /\ missing' \in [{"lost", "garbled"} -> Nat]
      /\ budget.restart \in Nat /\ budget'.restart \in Nat /\ MaxRestarts \in Nat
      /\ Unread \in Nat /\ Restarts \in Nat
  BY <1>1, LinkAssumption DEF LossTypes, Unread
<1>3. CASE FrameRead
  <2>1. truly' \in [{"lost", "garbled"} -> Nat] /\ Unread' = 0
    BY <1>3, CounterReadSettles DEF FrameRead
  <2>2. WireCc \in 0..CcMod - 1
    BY WireCcRange
  <2>3. last_cc' \in {None} \cup 0..CcMod - 1 /\ sent' \in Nat
    BY <1>3, <2>2 DEF FrameRead, LossTypes
  <2>4. lost_packets' \in Int
    <3>1. cc_gap(last_cc, WireCc) \in Nat
      BY <2>2, GapNat DEF LossTypes
    <3>. QED
      BY <1>3, <3>1 DEF FrameRead, LossTypes
  <2>5. Restarts' = Restarts
    BY <1>3 DEF FrameRead, Restarts
  <2>. QED
    BY <1>1, <1>2, <2>1, <2>3, <2>4, <2>5, LinkAssumption DEF LossTypes
<1>4. CASE FrameUnread
  <2>1. UNCHANGED <<last_cc, lost_packets, truly>> /\ Restarts' = Restarts
    BY <1>4 DEF FrameUnread, linkVars, Restarts
  <2>2. Unread' <= MaxBurst /\ sent' \in Nat
    BY <1>2, <1>4, LinkAssumption DEF FrameUnread, LossTypes
  <2>. QED
    BY <1>1, <1>2, <2>1, <2>2 DEF LossTypes
<1>5. CASE StartedAgain
  <2>1. UNCHANGED <<last_cc, lost_packets, missing, truly>> /\ sent' = 0
    BY <1>5 DEF StartedAgain, linkVars
  <2>2. Restarts' = Restarts + 1
    BY <1>2, <1>5 DEF StartedAgain, Restarts
  <2>. QED
    BY <1>1, <1>2, <2>1, <2>2 DEF LossTypes, Unread
<1>6. CASE NoFrame
  <2>1. UNCHANGED <<last_cc, lost_packets, missing, truly, sent>> /\ Restarts' = Restarts
    BY <1>6 DEF NoFrame, linkVars, Restarts
  <2>. QED
    BY <1>1, <2>1 DEF LossTypes, Unread
<1>. QED
  BY <1>1, <1>3, <1>4, <1>5, <1>6

LEMMA InitLossInv == LinkInit => LossInv
<1>. SUFFICES ASSUME LinkInit PROVE LossInv
  OBVIOUS
<1>1. /\ missing = Nothing /\ truly = Nothing /\ sent = 0
      /\ last_cc = None /\ lost_packets = 0
      /\ budget = [fault |-> MaxFaults, extra |-> MaxExtra, noop |-> MaxNoops,
                   restart |-> MaxRestarts]
  BY DEF LinkInit, Init
<1>2. Nothing \in [{"lost", "garbled"} -> Nat] /\ Nothing.lost = 0 /\ Nothing.garbled = 0
  BY DEF Nothing
<1>3. /\ budget \in [{"fault", "extra", "noop", "restart"} -> Nat]
      /\ Restarts = 0
  BY <1>1, LinkAssumption DEF Restarts
<1>4. LossTypes
  BY <1>1, <1>2, <1>3, LinkAssumption DEF LossTypes, Unread
<1>5. InStep
  BY <1>1 DEF InStep
<1>6. Error = 0
  BY <1>1, <1>2 DEF Error
<1>7. -(CcMod - 1) * 0 = 0 /\ (CcMod - 1) * 0 = 0
  BY DecAssumption
<1>. QED
  BY <1>3, <1>4, <1>5, <1>6, <1>7 DEF LossInv

LEMMA NextLossInv ==
  ASSUME MaxBurst < CcMod, LossInv, [LinkNext]_linkAllVars
  PROVE  LossInv'
<1>. DEFINE C == CcMod - 1
<1>1. LossTypes /\ C \in Nat /\ MaxBurst \in Nat
  BY DecAssumption, LinkAssumption DEF LossInv
<1>2. PICK rounds \in 0..Restarts :
        /\ InStep \/ rounds < Restarts
        /\ -C * rounds <= Error /\ Error <= C * rounds
  BY DEF LossInv
<1>3. /\ FrameRead \/ FrameUnread \/ StartedAgain \/ NoFrame
      /\ budget' \in [{"fault", "extra", "noop", "restart"} -> Nat]
      /\ missing' = missing \/ missing' \in [{"lost", "garbled"} -> Nat]
  BY <1>1, StepKinds
<1>4. /\ missing' \in [{"lost", "garbled"} -> Nat]
      /\ budget.restart \in Nat /\ budget'.restart \in Nat /\ MaxRestarts \in Nat
      /\ Unread \in Nat /\ Error \in Int /\ Restarts \in Nat
  BY <1>1, <1>3, LinkAssumption DEF LossTypes, Unread, Error
<1>5. /\ C * rounds \in Int /\ -C * rounds = -(C * rounds)
      /\ -C * (rounds + 1) = -(C * rounds) - C /\ C * (rounds + 1) = C * rounds + C
  BY <1>1, <1>4
<1>types. LossTypes'
  BY <1>1, NextLossTypes
<1>6. CASE FrameRead
  <2>1. /\ truly' \in [{"lost", "garbled"} -> Nat]
        /\ Unread' = 0
        /\ truly'.lost + truly'.garbled
             = truly.lost + truly.garbled + (IF last_cc = None THEN 0 ELSE Unread)
    BY <1>1, <1>6, CounterReadSettles DEF FrameRead
  <2>2. WireCc \in 0..CcMod - 1
    BY <1>1, WireCcRange
  <2>3. cc_gap(last_cc, WireCc) \in 0..C
    <3>1. CASE last_cc = None
      BY <3>1, <1>1 DEF cc_gap
    <3>2. CASE last_cc # None
      <4>1. WireCc - (last_cc + 1) \in Int
        BY <3>2, <2>2, <1>1, DecAssumption DEF LossTypes, None
      <4>2. (WireCc - (last_cc + 1)) % CcMod \in 0..CcMod - 1
        BY <4>1, ModRange, DecAssumption
      <4>. QED
        BY <4>2, <3>2 DEF cc_gap
    <3>. QED
      BY <3>1, <3>2
  <2>. DEFINE gap == cc_gap(last_cc, WireCc)
  <2>. HIDE DEF gap
  <2>4. lost_packets' = lost_packets + gap /\ gap \in 0..C
    BY <1>6, <2>3 DEF FrameRead, gap
  <2>5. LossTypes' /\ Restarts' = Restarts
    BY <1>6, <1>types DEF FrameRead, Restarts
  <2>6. InStep'
    BY <1>6, <2>1, <1>1 DEF InStep, FrameRead, WireCc, LossTypes
  <2>7. Error' = Error + gap - (IF last_cc = None THEN 0 ELSE Unread)
    BY <2>1, <2>4, <1>1, <1>4 DEF Error, LossTypes
  <2>8. CASE InStep
    <3>1. last_cc # None => gap = Unread
      <4>1. Unread \in 0..CcMod - 1 /\ sent \in Int
        BY <1>1, <1>4, DecAssumption DEF LossTypes
      <4>. QED
        BY <2>8, <4>1, GapIsUnread DEF InStep, gap, WireCc
    <3>2. last_cc = None => gap = 0
      BY DEF gap, cc_gap
    <3>3. Error' = Error
      BY <3>1, <3>2, <2>4, <2>7, <1>4
    <3>. QED
      BY <1>2, <2>5, <2>6, <3>3 DEF LossInv
  <2>9. CASE rounds < Restarts
    <3>1. rounds + 1 \in 0..Restarts'
      BY <2>9, <2>5, <1>4
    <3>2. Unread <= C
      BY <1>1, <1>4, DecAssumption DEF LossTypes
    <3>3. -C * (rounds + 1) <= Error' /\ Error' <= C * (rounds + 1)
      BY <1>1, <1>2, <1>4, <1>5, <2>4, <2>7, <3>2
    <3>. QED
      BY <2>5, <2>6, <3>1, <3>3 DEF LossInv
  <2>. QED
    BY <1>2, <2>8, <2>9
<1>7. CASE FrameUnread
  <2>1. UNCHANGED <<last_cc, lost_packets, truly>> /\ Restarts' = Restarts
    BY <1>7 DEF FrameUnread, linkVars, Restarts
  <2>2. sent' - 1 - Unread' = sent - 1 - Unread /\ Unread' <= MaxBurst /\ sent' \in Nat
    BY <1>1, <1>4, <1>7 DEF FrameUnread, LossTypes
  <2>4. InStep => InStep'
    BY <2>1, <2>2 DEF InStep
  <2>5. Error' = Error
    BY <2>1 DEF Error
  <2>. QED
    BY <1>2, <1>types, <2>1, <2>4, <2>5 DEF LossInv
<1>8. CASE StartedAgain
  <2>1. UNCHANGED <<last_cc, lost_packets, missing, truly>> /\ sent' = 0
    BY <1>8 DEF StartedAgain, linkVars
  <2>2. Restarts' = Restarts + 1
    BY <1>4, <1>8 DEF StartedAgain, Restarts
  <2>4. Error' = Error /\ rounds \in 0..Restarts' /\ rounds < Restarts'
    BY <1>4, <2>1, <2>2 DEF Error
  <2>. QED
    BY <1>2, <1>types, <2>4 DEF LossInv
<1>9. CASE NoFrame
  <2>1. UNCHANGED <<last_cc, lost_packets, missing, truly, sent>> /\ Restarts' = Restarts
    BY <1>9 DEF NoFrame, linkVars, Restarts
  <2>3. Error' = Error /\ (InStep => InStep')
    BY <2>1 DEF Error, InStep, Unread
  <2>. QED
    BY <1>2, <1>types, <2>1, <2>3 DEF LossInv
<1>. QED
  BY <1>3, <1>6, <1>7, <1>8, <1>9

LEMMA LossInvariant == MaxBurst < CcMod => (LinkSpec => []LossInv)
<1>. SUFFICES ASSUME MaxBurst < CcMod PROVE LinkSpec => []LossInv
  OBVIOUS
<1>1. LossInv /\ [LinkNext]_linkAllVars => LossInv'
  BY NextLossInv
<1>. QED
  BY <1>1, InitLossInv, PTL DEF LinkSpec

LEMMA TypesInvariant == LinkSpec => []LossTypes
<1>1. LinkInit => LossTypes
  BY InitLossInv DEF LossInv
<1>. QED
  BY <1>1, NextLossTypes, PTL DEF LinkSpec

(* As long as bursts are shorter than a round of the continuity counter,   *)
(* an encoder restart costs the loss count (main.rs:256-271) at most one   *)
(* round in either direction, however many frames are lost around it.      *)
THEOREM RestartsCostARound == MaxBurst < CcMod => (LinkSpec => []LossWithinCounter)
<1>1. LossInv => LossWithinCounter
  <2>. SUFFICES ASSUME LossInv PROVE LossWithinCounter
    OBVIOUS
  <2>. DEFINE C == CcMod - 1
  <2>1. PICK rounds \in 0..Restarts : -C * rounds <= Error /\ Error <= C * rounds
    BY DEF LossInv
  <2>2. C \in Nat /\ Restarts \in Nat /\ Error \in Int
    BY DecAssumption DEF LossInv, LossTypes, Error
  <2>3. C * rounds <= C * Restarts /\ C * rounds \in Int /\ C * Restarts \in Int
    BY <2>2
  <2>4. -C * rounds = -(C * rounds) /\ -C * Restarts = -(C * Restarts)
    BY <2>2
  <2>5. Error \in -C * Restarts..C * Restarts
    BY <2>1, <2>2, <2>3, <2>4
  <2>. QED
    BY <2>5 DEF LossWithinCounter, Error, Restarts
<1>. QED
  BY <1>1, LossInvariant, PTL

(* Without restarts the count is exact: the gaps in the counter add up to  *)
(* the frames that went unread (main.rs:349-353).                          *)
THEOREM LossesAreCounted ==
  MaxBurst < CcMod /\ MaxRestarts = 0 => (LinkSpec => []LossIsExact)
<1>. SUFFICES ASSUME MaxBurst < CcMod, MaxRestarts = 0
              PROVE  LinkSpec => []LossIsExact
  OBVIOUS
<1>1. LossInv => LossIsExact
  <2>. SUFFICES ASSUME LossInv PROVE LossIsExact
    OBVIOUS
  <2>1. Restarts = 0
    BY DEF LossInv, LossTypes, Restarts
  <2>2. -(CcMod - 1) * 0 = 0 /\ (CcMod - 1) * 0 = 0
    BY DecAssumption
  <2>3. Error = 0
    BY <2>1, <2>2 DEF LossInv, LossTypes, Error
  <2>. QED
    BY <2>3 DEF LossInv, LossTypes, Error, LossIsExact
<1>. QED
  BY <1>1, LossInvariant, PTL

-----------------------------------------------------------------------------
(* What the sender sends is what the decoder's model takes.                *)
WirePackets == [blk : FirstBlk..LastBlk, sbn : 0..SbnMod - 1,
                esi : 0..K + Repair + MaxExtra - 1]

LEMMA IntervalOfRepair ==
  /\ Sender!rep_interval \in Nat \ {0}
  /\ Sender!Paired \in Nat /\ Sender!Paired <= Repair
  /\ Sender!Paired * Sender!rep_interval <= K
<1>. DEFINE r == Sender!rep_interval
            n == K \div r
<1>1. r \in Nat \ {0}
  <2>1. CASE Repair = 0
    BY <2>1, LinkAssumption DEF Sender!rep_interval
  <2>2. CASE Repair # 0
    <3>1. K \div Repair \in Int
      BY <2>2, LinkAssumption
    <3>. QED
      BY <2>2, <3>1 DEF Sender!rep_interval
  <2>. QED
    BY <2>1, <2>2
<1>2. Sender!Paired = IF Repair < n THEN Repair ELSE n
  BY DEF Sender!Paired
<1>. HIDE DEF r
<1>3. n \in Nat /\ K = r * n + (K % r) /\ K % r \in 0..r - 1
  BY <1>1, LinkAssumption, SMT
<1>. HIDE DEF n
<1>4. r * n <= K /\ r * n \in Int
  BY <1>1, <1>3, LinkAssumption
<1>5. Sender!Paired \in Nat /\ Sender!Paired <= Repair /\ Sender!Paired <= n
  BY <1>2, <1>3, LinkAssumption
<1>6. Sender!Paired * r <= n * r /\ n * r = r * n /\ Sender!Paired * r \in Int
  BY <1>1, <1>3, <1>5
<1>7. Sender!Paired * r <= K
  BY <1>4, <1>6, LinkAssumption
<1>. QED
  BY <1>1, <1>5, <1>7 DEF r

(* interleave (enc main.rs:493-517) makes no symbol id beyond the          *)
(* baseline's.                                                             *)
LEMMA EsiRange ==
  ASSUME NEW p \in 0..K + Repair - 1
  PROVE  Sender!Esi(p) \in 0..K + Repair - 1
<1>. DEFINE r == Sender!rep_interval
            n == Sender!Paired
            pair == p \div (r + 1)
            at == p % (r + 1)
<1>1. r \in Nat \ {0} /\ n \in Nat /\ n <= Repair /\ n * r <= K
  BY IntervalOfRepair
<1>2. K \in Nat /\ Repair \in Nat /\ p \in Nat /\ p < K + Repair
  BY LinkAssumption
<1>. DEFINE rest == p - n * (r + 1)
            tail == K - n * r
<1>3. Sender!Esi(p) =
        CASE pair < n /\ at < r   -> pair * r + at
          [] pair < n /\ at = r   -> K + pair
          [] pair >= n /\ rest < tail -> n * r + rest
          [] OTHER -> K + n + rest - tail
  BY DEF Sender!Esi
<1>. HIDE DEF r, n
<1>4. pair \in Nat /\ p = (r + 1) * pair + at /\ at \in 0..r
  <2>. DEFINE m == r + 1
  <2>1. m \in Nat \ {0} /\ m - 1 = r
    BY <1>1
  <2>. HIDE DEF m
  <2>2. p \div m \in Nat /\ p = m * (p \div m) + (p % m) /\ p % m \in 0..m - 1
    BY <1>2, <2>1, Division
  <2>. QED
    BY <2>1, <2>2 DEF m
<1>. HIDE DEF pair, at
<1>5. n * (r + 1) = n * r + n /\ n * r \in Nat /\ n * (r + 1) \in Nat
  BY <1>1
<1>6. CASE pair < n
  <2>1. (pair + 1) * r <= n * r /\ (pair + 1) * r = pair * r + r /\ pair * r \in Nat
    BY <1>1, <1>4, <1>6
  <2>2. CASE at < r
    <3>1. Sender!Esi(p) = pair * r + at
      <4>1. at # r /\ ~(pair >= n)
        BY <1>1, <1>4, <1>6, <2>2
      <4>. QED
        BY <1>3, <1>6, <2>2, <4>1
    <3>2. pair * r + at \in Nat /\ pair * r + at < K
      BY <1>1, <1>2, <1>4, <1>5, <2>1, <2>2
    <3>. QED
      BY <1>2, <3>1, <3>2
  <2>3. CASE at = r
    <3>1. Sender!Esi(p) = K + pair
      <4>1. ~(at < r) /\ ~(pair >= n)
        BY <1>1, <1>4, <1>6, <2>3
      <4>. QED
        BY <1>3, <1>6, <2>3, <4>1
    <3>. QED
      BY <1>1, <1>2, <1>4, <1>6, <3>1
  <2>. QED
    BY <1>1, <1>4, <2>2, <2>3
<1>7. CASE pair >= n
  <2>1. (r + 1) * n <= (r + 1) * pair /\ (r + 1) * n = n * (r + 1) /\ (r + 1) * pair \in Nat
    BY <1>1, <1>4, <1>7
  <2>2. rest \in Nat /\ tail \in Nat /\ rest - tail = p - n - K
    BY <1>1, <1>2, <1>4, <1>5, <2>1
  <2>3. ~(pair < n)
    BY <1>1, <1>4, <1>7
  <2>4. CASE rest < tail
    <3>1. Sender!Esi(p) = n * r + rest
      BY <1>3, <1>7, <2>3, <2>4
    <3>2. n * r + rest \in Nat /\ n * r + rest < K
      BY <1>2, <1>5, <2>2, <2>4
    <3>. QED
      BY <1>2, <3>1, <3>2
  <2>5. CASE ~(rest < tail)
    <3>1. Sender!Esi(p) = K + n + rest - tail
      BY <1>3, <2>3, <2>5
    <3>2. Sender!Esi(p) = p
      BY <1>1, <1>2, <1>5, <2>2, <3>1
    <3>. QED
      BY <3>2
  <2>. QED
    BY <2>4, <2>5
<1>. QED
  BY <1>1, <1>4, <1>6, <1>7

(* The sender's own variables.                                             *)
SenderInv ==
  /\ first \in Nat /\ blk \in FirstBlk..LastBlk + 1 /\ first <= blk
  /\ pos \in 0..K + Repair - 1
  /\ extra \in [FirstBlk..LastBlk -> 0..MaxExtra]

LEMMA SbnRange ==
  ASSUME NEW b \in Nat, NEW f \in Nat, f <= b
  PROVE  (b - f) % SbnMod \in 0..SbnMod - 1 /\ b - ((b - f) % SbnMod) \in Nat
<1>1. b - f \in Nat /\ SbnMod \in Nat \ {0}
  BY DecAssumption
<1>. DEFINE d == b - f
            e == d % SbnMod
            q == d \div SbnMod
<1>2. d \in Nat /\ d = b - f
  BY <1>1
<1>. HIDE DEF d
<1>3. q \in Nat /\ d = SbnMod * q + e /\ e \in 0..SbnMod - 1
  BY <1>1, <1>2, SMT
<1>. HIDE DEF q, e
<1>4. SbnMod * q \in Nat
  BY <1>1, <1>3
<1>5. e \in Nat /\ e <= d
  BY <1>1, <1>2, <1>3, <1>4
<1>6. b - e \in Nat
  BY <1>2, <1>5
<1>. QED
  BY <1>3, <1>6 DEF e, d

LEMMA PacketTypes ==
  ASSUME SenderInv
  PROVE  /\ Sender!InBand => Sender!InBandPacket \in WirePackets
                             /\ Sender!InBandPacket.blk - Sender!InBandPacket.sbn \in Nat
         /\ \A b \in FirstBlk..LastBlk : Sender!Extra(b) =>
              /\ Sender!ExtraPacket(b) \in WirePackets
              /\ Sender!ExtraPacket(b).blk - Sender!ExtraPacket(b).sbn \in Nat
<1>1. ASSUME Sender!InBand
      PROVE  Sender!InBandPacket \in WirePackets
             /\ Sender!InBandPacket.blk - Sender!InBandPacket.sbn \in Nat
  <2>1. blk \in FirstBlk..LastBlk /\ blk \in Nat
    BY <1>1, LinkAssumption DEF Sender!InBand
  <2>2. (blk - first) % SbnMod \in 0..SbnMod - 1 /\ blk - ((blk - first) % SbnMod) \in Nat
    BY <2>1, SbnRange DEF SenderInv
  <2>3. Sender!Esi(pos) \in 0..K + Repair + MaxExtra - 1
    <3>1. Sender!Esi(pos) \in 0..K + Repair - 1
      BY EsiRange DEF SenderInv
    <3>. QED
      BY <3>1, LinkAssumption
  <2>4. Sender!InBandPacket = [blk |-> blk, sbn |-> (blk - first) % SbnMod,
                               esi |-> Sender!Esi(pos)]
    BY DEF Sender!InBandPacket, Sender!Packet
  <2>. QED
    BY <2>1, <2>2, <2>3, <2>4 DEF WirePackets
<1>2. ASSUME NEW b \in FirstBlk..LastBlk, Sender!Extra(b)
      PROVE  /\ Sender!ExtraPacket(b) \in WirePackets
             /\ Sender!ExtraPacket(b).blk - Sender!ExtraPacket(b).sbn \in Nat
  <2>1. b \in Nat /\ first <= b /\ Repair + extra[b] < Repair + MaxExtra
    BY <1>2, LinkAssumption DEF Sender!Extra, SenderInv
  <2>2. (b - first) % SbnMod \in 0..SbnMod - 1 /\ b - ((b - first) % SbnMod) \in Nat
    BY <2>1, SbnRange DEF SenderInv
  <2>3. K + Repair + extra[b] \in 0..K + Repair + MaxExtra - 1
    <3>1. extra[b] \in 0..MaxExtra
      BY DEF SenderInv
    <3>. QED
      BY <2>1, <3>1, LinkAssumption
  <2>4. Sender!ExtraPacket(b) = [blk |-> b, sbn |-> (b - first) % SbnMod,
                                 esi |-> K + Repair + extra[b]]
    BY DEF Sender!ExtraPacket, Sender!Packet
  <2>. QED
    BY <2>2, <2>3, <2>4 DEF WirePackets
<1>. QED
  BY <1>1, <1>2

-----------------------------------------------------------------------------
(* The composition takes only steps the decoder's own model has.           *)
LEMMA FrameIsDataFrame ==
  ASSUME LossTypes, NEW p \in WirePackets, NEW oti \in Otis
  PROVE  /\ DataFrame(p) \in DataFrames
         /\ [DataFrame(p) EXCEPT !.oti = oti] \in DataFrames
<1>1. WireCc \in 0..CcMod - 1
  BY WireCcRange
<1>2. WireOti \in Otis
  BY LinkAssumption DEF WireOti
<1>3. p.blk \in Symbols /\ p.esi \in Esis /\ p.sbn \in 0..SbnMod - 1
  BY LinkAssumption DEF WirePackets
<1>. QED
  BY <1>1, <1>2, <1>3 DEF DataFrame, DataFrames

LEMMA UnheardIsDecoderStep ==
  ASSUME NEW damage, Unheard(damage)
  PROVE  [Next]_vars
BY DEF Unheard, DeliverGarbled, Lose, Next

(* A data frame on the link is, for the decoder, one of its frames, an     *)
(* unparseable one, or none.                                               *)
LEMMA FrameIsDecoderStep ==
  ASSUME LossTypes, NEW p \in WirePackets, NEW damage, Deliver(p) \/ Fault(p, damage)
  PROVE  [Next]_vars
<1>1. CASE Deliver(p)
  <2>1. WireOti \in Otis
    BY LinkAssumption DEF WireOti
  <2>2. DataFrame(p) \in DataFrames
    BY <2>1, FrameIsDataFrame
  <2>. QED
    BY <1>1, <2>2 DEF Deliver, Next
<1>2. CASE DeliverInsane(p, damage)
  <2>1. PICK oti \in Otis : DropInsane([DataFrame(p) EXCEPT !.oti = oti])
    BY <1>2 DEF DeliverInsane
  <2>2. [DataFrame(p) EXCEPT !.oti = oti] \in DataFrames
    BY FrameIsDataFrame
  <2>. QED
    BY <2>1, <2>2 DEF Next
<1>3. CASE Unheard(damage)
  BY <1>3, UnheardIsDecoderStep
<1>. QED
  BY <1>1, <1>2, <1>3 DEF Fault

LEMMA LinkStepIsDecoderStep ==
  ASSUME LossTypes, SenderInv, [LinkNext]_linkAllVars
  PROVE  [Next]_vars
<1>1. CASE Data
  <2>1. Sender!InBandPacket \in WirePackets
    BY <1>1, PacketTypes DEF Data
  <2>2. \E damage : Deliver(Sender!InBandPacket) \/ Fault(Sender!InBandPacket, damage)
    BY <1>1 DEF Data
  <2>. QED
    BY <2>1, <2>2, FrameIsDecoderStep
<1>2. ASSUME NEW b \in FirstBlk..LastBlk, ExtraData(b)
      PROVE  [Next]_vars
  <2>1. Sender!ExtraPacket(b) \in WirePackets
    BY <1>2, PacketTypes DEF ExtraData
  <2>2. \E damage : Deliver(Sender!ExtraPacket(b)) \/ Fault(Sender!ExtraPacket(b), damage)
    BY <1>2 DEF ExtraData
  <2>. QED
    BY <2>1, <2>2, FrameIsDecoderStep
<1>3. CASE Noop
  <2>1. WireCc \in 0..CcMod - 1
    BY WireCcRange
  <2>2. CASE RecvNoop(WireCc)
    BY <2>1, <2>2 DEF Next
  <2>3. CASE Unheard({})
    BY <2>3, UnheardIsDecoderStep
  <2>. QED
    BY <1>3, <2>2, <2>3 DEF Noop
<1>4. CASE EncRestart
  BY <1>4 DEF EncRestart
<1>5. CASE DecoderStep
  BY <1>5 DEF DecoderStep, Next
<1>6. CASE UNCHANGED linkAllVars
  BY <1>6 DEF linkAllVars
<1>. QED
  BY <1>1, <1>2, <1>3, <1>4, <1>5, <1>6 DEF LinkNext

(* The sender stays within its blocks and the bound on extra repair.       *)
LEMMA InitSenderInv == LinkInit => SenderInv
BY LinkAssumption DEF LinkInit, SenderInv

LEMMA NextSenderInv ==
  ASSUME SenderInv, [LinkNext]_linkAllVars
  PROVE  SenderInv'
<1>1. CASE Sender!InBand
  <2>1. CASE Sender!LastOfBlock
    BY <1>1, <2>1, LinkAssumption DEF Sender!InBand, SenderInv
  <2>2. CASE ~Sender!LastOfBlock
    <3>1. blk' = blk /\ pos' = pos + 1 /\ pos # K + Repair - 1
      BY <1>1, <2>2 DEF Sender!InBand, Sender!LastOfBlock
    <3>. QED
      BY <1>1, <3>1, LinkAssumption DEF Sender!InBand, SenderInv
  <2>. QED
    BY <2>1, <2>2
<1>2. ASSUME NEW b \in FirstBlk..LastBlk, Sender!Extra(b)
      PROVE  SenderInv'
  <2>1. extra[b] \in 0..MaxExtra /\ Repair + extra[b] < Repair + MaxExtra
    BY <1>2 DEF Sender!Extra, SenderInv
  <2>2. extra[b] + 1 \in 0..MaxExtra
    BY <2>1, LinkAssumption
  <2>. QED
    BY <1>2, <2>2 DEF Sender!Extra, SenderInv
<1>3. CASE Sender!Restart /\ blk < LastBlk
  BY <1>3, LinkAssumption DEF Sender!Restart, SenderInv
<1>4. CASE UNCHANGED <<first, blk, pos, extra>>
  BY <1>4 DEF SenderInv
<1>. QED
  BY <1>1, <1>2, <1>3, <1>4
     DEF LinkNext, Data, ExtraData, Noop, Sender!Noop, EncRestart, DecoderStep,
         linkAllVars, senderVars

(* Whatever the encoder and the link do, the decoder behind them is one    *)
(* that RaptorqDec describes (main.rs:273-446): what is proved of it for   *)
(* every sequence of frames holds behind every encoder and link.           *)
THEOREM DecoderIsInside == LinkSpec => Spec
<1>1. LinkInit => Init
  BY DEF LinkInit
<1>2. LossTypes /\ SenderInv /\ [LinkNext]_linkAllVars => [Next]_vars
  BY LinkStepIsDecoderStep
<1>3. SenderInv /\ [LinkNext]_linkAllVars => SenderInv'
  BY NextSenderInv
<1>. QED
  BY <1>1, <1>2, <1>3, InitSenderInv, TypesInvariant, PTL DEF LinkSpec, Spec

-----------------------------------------------------------------------------
(* What is remembered of the link names blocks that are sent.              *)
GhostTypes ==
  /\ base \in Nat
  /\ hurt \subseteq FirstBlk..LastBlk /\ heard \subseteq FirstBlk..LastBlk
  /\ wire_blk \in FirstBlk..LastBlk
  /\ old_pool \subseteq Nat

LEMMA FrameGhosts ==
  ASSUME GhostTypes, NEW p, p \in WirePackets, p.blk - p.sbn \in Nat,
         NEW damage \in SUBSET {p.blk}, Deliver(p) \/ Fault(p, damage),
         old_pool' = old_pool
  PROVE  GhostTypes'
<1>1. p.blk \in FirstBlk..LastBlk
  BY DEF WirePackets
<1>2. CASE Deliver(p)
  BY <1>1, <1>2 DEF Deliver, GhostTypes
<1>3. CASE Fault(p, damage)
  BY <1>1, <1>3 DEF Fault, DeliverInsane, Unheard, DeliverGarbled, Lose, GhostTypes
<1>. QED
  BY <1>2, <1>3

LEMMA NextGhosts ==
  ASSUME GhostTypes, SenderInv, TypeOK, [LinkNext]_linkAllVars
  PROVE  GhostTypes'
<1>1. CASE Data
  <2>1. /\ Sender!InBand /\ old_pool' = old_pool
        /\ \/ Deliver(Sender!InBandPacket)
           \/ Fault(Sender!InBandPacket, {Sender!InBandPacket.blk})
    BY <1>1 DEF Data
  <2>. QED
    BY <2>1, PacketTypes, FrameGhosts
<1>2. ASSUME NEW b \in FirstBlk..LastBlk, ExtraData(b)
      PROVE  GhostTypes'
  <2>1. /\ Sender!Extra(b) /\ old_pool' = old_pool
        /\ Deliver(Sender!ExtraPacket(b)) \/ Fault(Sender!ExtraPacket(b), {})
    BY <1>2 DEF ExtraData
  <2>. QED
    BY <2>1, PacketTypes, FrameGhosts
<1>3. CASE Noop
  BY <1>3 DEF Noop, Unheard, DeliverGarbled, Lose, GhostTypes
<1>4. CASE EncRestart
  BY <1>4 DEF EncRestart, ghostVars, GhostTypes, TypeOK
<1>5. CASE DecoderStep \/ UNCHANGED linkAllVars
  BY <1>5 DEF DecoderStep, linkAllVars, ghostVars, GhostTypes
<1>. QED
  BY <1>1, <1>2, <1>3, <1>4, <1>5 DEF LinkNext

(* The sender and the link stay in their types for every block size,       *)
(* repair overhead and burst: the sender keeps to its packets and to the   *)
(* ceiling of extra repair (enc main.rs:305-329, 396-409).                 *)
THEOREM LinkTypeCorrect == LinkSpec => []LinkTypeOK
<1>1. LinkInit => GhostTypes
  BY LinkAssumption DEF LinkInit, GhostTypes
<1>2. GhostTypes /\ SenderInv /\ TypeOK /\ [LinkNext]_linkAllVars => GhostTypes'
  BY NextGhosts
<1>3. SenderInv /\ [LinkNext]_linkAllVars => SenderInv'
  BY NextSenderInv
<1>4. GhostTypes /\ SenderInv /\ LossTypes => LinkTypeOK
  <2>. SUFFICES ASSUME GhostTypes, SenderInv, LossTypes PROVE LinkTypeOK
    OBVIOUS
  <2>1. missing \in [{"lost", "garbled"} -> 0..MaxBurst]
    <3>1. \A fate \in {"lost", "garbled"} : missing[fate] \in 0..MaxBurst
      BY LinkAssumption DEF LossTypes, Unread
    <3>. QED
      BY <3>1 DEF LossTypes
  <2>. QED
    BY <2>1 DEF GhostTypes, SenderInv, LossTypes, LinkTypeOK
<1>. QED
  BY <1>1, <1>2, <1>3, <1>4, InitSenderInv, TypesInvariant, DecoderIsInside,
     TypeCorrect, PTL DEF LinkSpec
=============================================================================
