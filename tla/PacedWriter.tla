---------------------------- MODULE PacedWriter ----------------------------
(***************************************************************************)
(* The clock of raptorq-enc's writer: after each frame it sleeps until the *)
(* frame's place in a schedule that counts from the start of the thread.   *)
(* Writing a frame takes some time, now and then a great deal (a full pipe *)
(* or socket), and a sleep may end late.  What is written is RaptorqEnc's. *)
(***************************************************************************)
EXTENDS Integers

CONSTANTS
  Second,      \* 1_000_000_000, the nanoseconds of a second
  FrameBits,   \* TS_PACKET_SIZE * 8
  Rate,        \* --rate, in bits per second
  WriteTime,   \* the most a write takes when nothing is in its way
  Late,        \* the most a sleep ends late
  MaxStall,    \* bound: what writes may take longer, all together
  MaxFrames    \* bound: frames written

ASSUME PaceAssumption ==
  /\ Second \in Nat \ {0} /\ FrameBits \in Nat \ {0} /\ Rate \in Nat \ {0}
  /\ WriteTime \in Nat /\ Late \in Nat
  /\ MaxStall \in Nat /\ MaxFrames \in Nat

VARIABLES
  wpc,        \* "write", "pace" or "sleep"
  now,        \* start.elapsed()
  nap,        \* how long to sleep
  total,      \* packets_sent + noops_sent
  stalled,    \* what writes took longer so far
  since       \* frames written since the last that took longer

paceVars == <<wpc, now, nap, total, stalled, since>>

(* (slip: the rate is divided first)                                       *)
nanos_per_packet_early == (Second \div Rate) * FrameBits

nanos_per_packet == (Second * FrameBits) \div Rate

(* (slip: each frame is scheduled from the one before)                     *)
next_deadline_relative == now + nanos_per_packet

next_deadline == nanos_per_packet * total

(* (slip: the deadline is taken to lie ahead)                              *)
Ahead_always == TRUE

Ahead == next_deadline > now

PaceInit ==
  /\ wpc = "write" /\ now = 0 /\ nap = 0 /\ total = 0
  /\ stalled = 0 /\ since = 0

WriteFrame ==
  /\ wpc = "write"
  /\ total < MaxFrames
  /\ \E time \in 0..WriteTime, stall \in 0..MaxStall - stalled :
       /\ now' = now + time + stall
       /\ stalled' = stalled + stall
       /\ since' = IF stall > 0 THEN 0 ELSE since + 1
  /\ total' = total + 1
  /\ wpc' = "pace"
  /\ UNCHANGED nap

(* Ahead of the schedule the writer will sleep; behind it the next frame   *)
(* is written at once.                                                     *)
Pace ==
  /\ wpc = "pace"
  /\ wpc' = IF Ahead THEN "sleep" ELSE "write"
  /\ nap' = IF Ahead THEN next_deadline - now ELSE nap
  /\ UNCHANGED <<now, total, stalled, since>>

Sleep ==
  /\ wpc = "sleep"
  /\ \E late \in 0..Late : now' = now + nap + late
  /\ wpc' = "write"
  /\ UNCHANGED <<nap, total, stalled, since>>

PaceNext == WriteFrame \/ Pace \/ Sleep

PaceSpec == PaceInit /\ [][PaceNext]_paceVars

-----------------------------------------------------------------------------
(* Every variable has its type; what is slept is never negative, which     *)
(* Duration could not hold.                                                *)
PaceTypeOK ==
  /\ wpc \in {"write", "pace", "sleep"}
  /\ now \in Nat /\ nap \in Nat /\ total \in 0..MaxFrames
  /\ stalled \in 0..MaxStall /\ since \in 0..total

(* How far the writer is behind the schedule.                              *)
Lag == now - nanos_per_packet * total

(* The rate is not exceeded: the bits written never outrun --rate, counted *)
(* from the start, but for what rounding nanos_per_packet down gives away, *)
(* less than a bit's time a frame (enc main.rs:426).                       *)
RateKept ==
  wpc = "write" =>
    total * FrameBits * Second <= now * Rate + total * (Rate - 1)

(* Sleeps that end late do not add up: the schedule is absolute, so        *)
(* however many there were, the writer is behind by one such lateness and  *)
(* the stalls at most (enc main.rs:477-482).                               *)
LatenessDoesNotAdd ==
  WriteTime <= nanos_per_packet /\ wpc = "write" => Lag <= Late + stalled

(* After a stall the writer makes up for it: with every frame since, the   *)
(* lag has shrunk by the slack a frame leaves, until it is gone.           *)
StallIsMadeUp ==
  WriteTime <= nanos_per_packet /\ wpc = "write" =>
    \/ Lag <= Late
    \/ Lag + since * (nanos_per_packet - WriteTime) <= Late + stalled
=============================================================================
