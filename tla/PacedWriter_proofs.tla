------------------------- MODULE PacedWriter_proofs -------------------------
(***************************************************************************)
(* Proofs about the writer's clock, for every rate, frame size and         *)
(* lateness.                                                               *)
(*                                                                         *)
(* The invariant follows the schedule through the three places of the      *)
(* loop: a frame is written at its place in the schedule or after it, a    *)
(* sleep ends at that place or after it, and the lag of the last frame     *)
(* written is bounded already before the writer knows whether to sleep.    *)
(***************************************************************************)
EXTENDS PacedWriter, TLAPS

(* The schedule is never ahead of the rate by a bit's time a frame         *)
(* (enc main.rs:426): what the integer division leaves over is less than   *)
(* the rate.                                                               *)
LEMMA Rounding ==
  /\ nanos_per_packet \in Nat
  /\ FrameBits * Second <= nanos_per_packet * Rate + (Rate - 1)
<1> DEFINE p == Second * FrameBits
<1>1. p \in Nat /\ p = FrameBits * Second
  BY PaceAssumption
<1>2. Rate \in Nat \ {0}
  BY PaceAssumption
<1>3. \A x \in Nat, r \in Nat \ {0} :
        x \div r \in Nat /\ x = r * (x \div r) + (x % r) /\ x % r \in 0..r - 1
  OBVIOUS
<1> HIDE DEF p
<1>4. p \div Rate \in Nat /\ p = Rate * (p \div Rate) + (p % Rate)
      /\ p % Rate \in 0..Rate - 1
  BY <1>1, <1>2, <1>3
<1>5. nanos_per_packet = p \div Rate
  BY DEF nanos_per_packet, p
<1> QED
  BY <1>1, <1>2, <1>4, <1>5

(* Whoever keeps to the schedule keeps to the rate.                        *)
LEMMA ScheduleKeepsRate ==
  ASSUME NEW n \in Nat, NEW t \in Nat, n >= nanos_per_packet * t
  PROVE  t * FrameBits * Second <= n * Rate + t * (Rate - 1)
<1> DEFINE d == nanos_per_packet
           q == FrameBits * Second
<1>1. d \in Nat /\ q \in Nat /\ Rate \in Nat \ {0} /\ q <= d * Rate + (Rate - 1)
  BY Rounding, PaceAssumption
<1>2. \A a, b, c \in Nat : a <= b => c * a <= c * b
  OBVIOUS
<1>3. t * FrameBits * Second = t * q
  BY PaceAssumption
<1>4. n >= d * t
  OBVIOUS
<1> HIDE DEF d, q
<1>5. t * q <= t * (d * Rate + (Rate - 1))
  BY <1>1, <1>2
<1>6. t * (d * Rate + (Rate - 1)) = Rate * (d * t) + t * (Rate - 1)
  BY <1>1
<1>7. Rate * (d * t) <= Rate * n
  BY <1>1, <1>2, <1>4
<1> QED
  BY <1>1, <1>3, <1>5, <1>6, <1>7

-----------------------------------------------------------------------------
(* The frame being written is due, and a sleep ends when the next one is.  *)
OnSchedule ==
  /\ wpc = "write" => Lag >= 0
  /\ wpc = "sleep" => nap = -Lag

LagBounded ==
  WriteTime <= nanos_per_packet /\ wpc # "sleep" => Lag <= Late + stalled

LagShrinks ==
  WriteTime <= nanos_per_packet /\ wpc # "sleep" =>
    \/ Lag <= Late
    \/ Lag + since * (nanos_per_packet - WriteTime) <= Late + stalled

PaceInv == PaceTypeOK /\ OnSchedule /\ LagBounded /\ LagShrinks

LEMMA PaceInitInv == PaceInit => PaceInv
BY Rounding, PaceAssumption
   DEF PaceInit, PaceInv, PaceTypeOK, OnSchedule, LagBounded, LagShrinks, Lag

LEMMA WriteFrameInv ==
  ASSUME PaceInv, WriteFrame
  PROVE  PaceInv'
<1> DEFINE d == nanos_per_packet
<1>1. PICK time \in 0..WriteTime, stall \in 0..MaxStall - stalled :
        /\ now' = now + time + stall
        /\ stalled' = stalled + stall
        /\ since' = IF stall > 0 THEN 0 ELSE since + 1
  BY DEF WriteFrame
<1>2. wpc = "write" /\ total < MaxFrames /\ total' = total + 1
      /\ wpc' = "pace" /\ nap' = nap
  BY DEF WriteFrame
<1>3. d \in Nat /\ WriteTime \in Nat /\ Late \in Nat /\ MaxStall \in Nat
      /\ MaxFrames \in Nat
  BY Rounding, PaceAssumption
<1>4. now \in Nat /\ nap \in Nat /\ total \in 0..MaxFrames
      /\ stalled \in 0..MaxStall /\ since \in 0..total
  BY DEF PaceInv, PaceTypeOK
<1>5. Lag = now - d * total /\ Lag' = now' - (d * total + d)
  BY <1>2, <1>3, <1>4 DEF Lag, nanos_per_packet
<1> DEFINE g == d * total
<1>6. g \in Nat
  BY <1>3, <1>4
<1> HIDE DEF d, g
<1>7. PaceTypeOK'
  BY <1>1, <1>2, <1>3, <1>4 DEF PaceTypeOK
<1>8. OnSchedule'
  BY <1>2 DEF OnSchedule
<1>9. Lag' = Lag + time + stall - d /\ Lag \in Int
  BY <1>1, <1>3, <1>4, <1>5, <1>6 DEF g
<1>10. nanos_per_packet' = nanos_per_packet /\ nanos_per_packet = d
  BY DEF nanos_per_packet, d
<1>11. WriteTime <= d => Lag' <= Late + stalled'
  BY <1>1, <1>2, <1>3, <1>4, <1>9, <1>10 DEF PaceInv, LagBounded
<1>12. ASSUME WriteTime <= d
       PROVE  \/ Lag' <= Late
              \/ Lag' + since' * (d - WriteTime) <= Late + stalled'
  <2>1. CASE stall > 0
    BY <2>1, <1>1, <1>3, <1>9, <1>11, <1>12
  <2>2. CASE ~(stall > 0)
    <3>1. Lag' <= Lag - (d - WriteTime) /\ since' = since + 1 /\ stalled' = stalled
      BY <2>2, <1>1, <1>3, <1>4, <1>9
    <3>2. since' * (d - WriteTime) = since * (d - WriteTime) + (d - WriteTime)
      BY <3>1, <1>3, <1>4
    <3>3. since * (d - WriteTime) \in Int
      BY <1>3, <1>4
    <3>4. \/ Lag <= Late
          \/ Lag + since * (d - WriteTime) <= Late + stalled
      BY <1>2, <1>10, <1>12 DEF PaceInv, LagShrinks
    <3> QED
      BY <3>1, <3>2, <3>3, <3>4, <1>3, <1>4, <1>9, <1>12
  <2> QED
    BY <2>1, <2>2
<1> QED
  BY <1>7, <1>8, <1>10, <1>11, <1>12 DEF PaceInv, LagBounded, LagShrinks

LEMMA PaceStepInv ==
  ASSUME PaceInv, Pace
  PROVE  PaceInv'
<1>1. /\ nanos_per_packet \in Nat
      /\ now \in Nat /\ total \in Nat /\ stalled \in Nat /\ since \in Nat
      /\ WriteTime \in Nat /\ Late \in Nat
  BY Rounding, PaceAssumption DEF PaceInv, PaceTypeOK
<1>2. nanos_per_packet * total \in Nat
  BY <1>1
<1>3. Lag' = Lag /\ nanos_per_packet' = nanos_per_packet
      /\ Lag = now - nanos_per_packet * total
      /\ next_deadline = nanos_per_packet * total
  BY DEF Pace, Lag, nanos_per_packet, next_deadline
<1>4. PaceTypeOK'
  BY <1>1, <1>2, <1>3 DEF PaceInv, PaceTypeOK, Pace, Ahead
<1>5. OnSchedule'
  BY <1>1, <1>2, <1>3 DEF PaceInv, PaceTypeOK, OnSchedule, Pace, Ahead
<1>6. LagBounded' /\ LagShrinks'
  BY <1>1, <1>2, <1>3 DEF PaceInv, LagBounded, LagShrinks, Pace
<1> QED
  BY <1>4, <1>5, <1>6 DEF PaceInv

LEMMA SleepInv ==
  ASSUME PaceInv, Sleep
  PROVE  PaceInv'
<1>1. PICK late \in 0..Late : now' = now + nap + late
  BY DEF Sleep
<1>2. /\ nanos_per_packet \in Nat
      /\ now \in Nat /\ nap \in Nat /\ total \in Nat /\ stalled \in Nat
      /\ WriteTime \in Nat /\ Late \in Nat
  BY Rounding, PaceAssumption DEF PaceInv, PaceTypeOK
<1>3. nanos_per_packet * total \in Nat
  BY <1>2
<1>4. /\ Lag = now - nanos_per_packet * total
      /\ Lag' = now' - nanos_per_packet * total
      /\ nap = -Lag
  BY DEF PaceInv, OnSchedule, Sleep, Lag, nanos_per_packet
<1>5. Lag' = late
  BY <1>1, <1>2, <1>3, <1>4
<1>6. PaceTypeOK'
  BY <1>1, <1>2 DEF PaceInv, PaceTypeOK, Sleep
<1>7. OnSchedule' /\ LagBounded' /\ LagShrinks'
  BY <1>2, <1>5 DEF OnSchedule, LagBounded, LagShrinks, Sleep
<1> QED
  BY <1>6, <1>7 DEF PaceInv

LEMMA PaceInvariant == PaceSpec => []PaceInv
<1>1. ASSUME PaceInv, [PaceNext]_paceVars
      PROVE  PaceInv'
  <2>1. CASE WriteFrame
    BY <1>1, <2>1, WriteFrameInv
  <2>2. CASE Pace
    BY <1>1, <2>2, PaceStepInv
  <2>3. CASE Sleep
    BY <1>1, <2>3, SleepInv
  <2>4. CASE UNCHANGED paceVars
    BY <1>1, <2>4 DEF paceVars, PaceInv, PaceTypeOK, OnSchedule, LagBounded,
                      LagShrinks, Lag, nanos_per_packet
  <2> QED
    BY <1>1, <2>1, <2>2, <2>3, <2>4 DEF PaceNext
<1> QED
  BY <1>1, PaceInitInv, PTL DEF PaceSpec

-----------------------------------------------------------------------------
(* Nothing negative is ever slept: the writer subtracts unsigned times     *)
(* only after comparing them (enc main.rs:480-481).                        *)
THEOREM PaceTypeCorrect == PaceSpec => []PaceTypeOK
BY PaceInvariant, PTL DEF PaceInv

(* The bits written never outrun --rate but for the rounding of            *)
(* nanos_per_packet, at every rate and however the writes went (enc        *)
(* main.rs:426, 477-482).                                                  *)
THEOREM KeepsRate == PaceSpec => []RateKept
<1>1. ASSUME PaceInv
      PROVE  RateKept
  <2>1. nanos_per_packet \in Nat /\ now \in Nat /\ total \in Nat
    BY <1>1, Rounding, PaceAssumption DEF PaceInv, PaceTypeOK
  <2>2. nanos_per_packet * total \in Nat
    BY <2>1
  <2>3. wpc = "write" => now >= nanos_per_packet * total
    BY <1>1, <2>1, <2>2 DEF PaceInv, OnSchedule, Lag
  <2> QED
    BY <2>1, <2>3, ScheduleKeepsRate DEF RateKept
<1> QED
  BY <1>1, PaceInvariant, PTL

(* However many sleeps end late, the writer is behind by one lateness and  *)
(* the stalls at most (enc main.rs:477-482).                               *)
THEOREM LatenessBounded == PaceSpec => []LatenessDoesNotAdd
<1>1. PaceInv => LatenessDoesNotAdd
  BY DEF PaceInv, LagBounded, LatenessDoesNotAdd
<1> QED
  BY <1>1, PaceInvariant, PTL

(* After a stall every frame takes off the lag what it leaves of its time, *)
(* until the writer is on schedule again.                                  *)
THEOREM StallsAreMadeUp == PaceSpec => []StallIsMadeUp
<1>1. PaceInv => StallIsMadeUp
  BY DEF PaceInv, LagShrinks, StallIsMadeUp
<1> QED
  BY <1>1, PaceInvariant, PTL
=============================================================================
