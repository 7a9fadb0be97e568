------------------------------ MODULE TsFrame ------------------------------
(***************************************************************************)
(* The wire format of raptorq-common: how a data or noop frame becomes a   *)
(* TS packet and is read again, with the continuity counter advanced on    *)
(* one side and its gaps counted on the other.  Every frame arrives here,  *)
(* one bit of its TS header or frame type perhaps flipped; what a lost     *)
(* frame does is module LossyLink's.                                       *)
(*                                                                         *)
(* A packet is five bytes, the header and the frame type, and its body,    *)
(* which is the OTI, the payload id and the symbol of a data frame in one. *)
(* It is always whole: the decoder's reader sees to that (TsSync).         *)
(***************************************************************************)
EXTENDS Integers

CONSTANTS
  Pids,       \* --pid of the encoder, sixteen bits
  Wants,      \* --pid of the decoder, sixteen bits
  Counters,   \* where the counter stands at the beginning
  Bodies,     \* bodies of data frames
  Stuffing,   \* the body of a noop frame: 0xFF throughout
  MaxFrames,  \* bound: frames sent
  MaxFlips    \* bound: bits flipped

ASSUME FrameAssumption ==
  /\ Pids \subseteq Nat /\ Wants \subseteq Nat
  /\ Counters \subseteq 0..15
  /\ Stuffing \notin Bodies
  /\ MaxFrames \in Nat /\ MaxFlips \in Nat

VARIABLES
  pid, want,   \* the two programs' --pid
  cc,          \* ContinuityCounter of the encoder
  meant,       \* the frame on the wire
  bytes, body, \* the packet it is in
  flipped,     \* the bits of it flipped, as [byte, bit]
  got,         \* what parse_packet made of it
  phase,       \* "idle", "wire" or "read"
  last_cc,     \* the decoder's: counter of the last frame, or None
  pkts_lost,   \* the decoder's: frames missed, going by the counter
  nsent, nflipped

frameVars == <<pid, want, cc, meant, bytes, body, flipped, got, phase,
               last_cc, pkts_lost, nsent, nflipped>>

-----------------------------------------------------------------------------
TS_SYNC_BYTE == 71
FRAME_TYPE_DATA == 1
FRAME_TYPE_NOOP == 2

None == -1

(* TsHeader::write, with the flags both kinds of frame give it, of which   *)
(* only adaptation is not zero, and the frame type that follows.           *)
PidHigh(p) == (p \div 256) % 32
PidLow(p) == p % 256
Control(c) == 16 + (c % 16)

write(p, c, frame_type) ==
  <<TS_SYNC_BYTE, PidHigh(p), PidLow(p), Control(c), frame_type>>

(* (slip: the counter goes on past four bits)                              *)
advance_wide(c) == c + 1

advance(c) == (c + 1) % 16

(* TsHeader::parse                                                         *)
Tei(b) == b[2] \div 128 = 1

(* (slip: the high bits of the pid are dropped)                            *)
Pid_low(b) == b[3]

Pid(b) == (b[2] % 32) * 256 + b[3]

Counter(b) == b[4] % 16

Refused(why) == [kind |-> why]
Data(c, rest) == [kind |-> "data", cc |-> c, body |-> rest]
Noop(c) == [kind |-> "noop", cc |-> c, body |-> Stuffing]

(* (slip: what is not a noop is data)                                      *)
parse_payload_lax(b, rest) ==
  IF b[5] = FRAME_TYPE_NOOP THEN Noop(Counter(b)) ELSE Data(Counter(b), rest)

parse_payload(b, rest) ==
  CASE b[5] = FRAME_TYPE_NOOP -> Noop(Counter(b))
    [] b[5] = FRAME_TYPE_DATA -> Data(Counter(b), rest)
    [] OTHER                  -> Refused("UnknownFrameType")

parse_packet(b, rest, expected) ==
  IF b[1] # TS_SYNC_BYTE THEN Refused("BadSync")
  ELSE IF Tei(b) THEN Refused("TransportError")
  ELSE IF Pid(b) # expected THEN Refused("WrongPid")
  ELSE parse_payload(b, rest)

IsRead(frame) == frame.kind \in {"data", "noop"}

(* (slip: the counter of the last frame is expected again)                 *)
cc_gap_repeated(last, c) == IF last = None THEN 0 ELSE (c - last) % 16

(* As in module RaptorqDec, with the modulus it has in the code.           *)
cc_gap(last, c) == IF last = None THEN 0 ELSE (c - (last + 1)) % 16

Weight(bit) == <<1, 2, 4, 8, 16, 32, 64, 128>>[bit + 1]

Flip(byte, bit) ==
  IF (byte \div Weight(bit)) % 2 = 1 THEN byte - Weight(bit)
  ELSE byte + Weight(bit)

-----------------------------------------------------------------------------
FrameInit ==
  /\ pid \in Pids /\ want \in Wants
  /\ cc \in Counters
  /\ meant = Noop(0) /\ bytes = write(0, 0, FRAME_TYPE_NOOP) /\ body = Stuffing
  /\ flipped = {}
  /\ got = Refused("BadSync")
  /\ phase = "idle"
  /\ last_cc = None /\ pkts_lost = 0
  /\ nsent = 0 /\ nflipped = 0

(* The writer puts one frame on the wire.                                  *)
Put(frame, frame_type, rest) ==
  /\ phase = "idle"
  /\ nsent < MaxFrames
  /\ nsent' = nsent + 1
  /\ meant' = frame /\ flipped' = {}
  /\ bytes' = write(pid, cc, frame_type) /\ body' = rest
  /\ cc' = advance(cc)
  /\ phase' = "wire"
  /\ UNCHANGED <<pid, want, got, last_cc, pkts_lost, nflipped>>

PutData(symbol) == Put(Data(cc, symbol), FRAME_TYPE_DATA, symbol)
PutNoop == Put(Noop(cc), FRAME_TYPE_NOOP, Stuffing)

(* A bit of the header or of the frame type is received wrong.             *)
FlipBit(i, bit) ==
  /\ phase = "wire"
  /\ nflipped < MaxFlips
  /\ <<i, bit>> \notin flipped
  /\ bytes' = [bytes EXCEPT ![i] = Flip(@, bit)]
  /\ flipped' = flipped \cup {<<i, bit>>}
  /\ nflipped' = nflipped + 1
  /\ UNCHANGED <<pid, want, cc, meant, body, got, phase, last_cc, pkts_lost,
                 nsent>>

(* The decoder reads the packet; only a frame it can read has a counter.   *)
Read ==
  /\ phase = "wire"
  /\ LET frame == parse_packet(bytes, body, want) IN
       /\ got' = frame
       /\ pkts_lost' = IF IsRead(frame) THEN pkts_lost + cc_gap(last_cc, frame.cc)
                       ELSE pkts_lost
       /\ last_cc' = IF IsRead(frame) THEN frame.cc ELSE last_cc
  /\ phase' = "read"
  /\ UNCHANGED <<pid, want, cc, meant, bytes, body, flipped, nsent, nflipped>>

NextFrame ==
  /\ phase = "read"
  /\ phase' = "idle"
  /\ UNCHANGED <<pid, want, cc, meant, bytes, body, flipped, got, last_cc, pkts_lost,
                 nsent, nflipped>>

FrameNext ==
  \/ \E symbol \in Bodies : PutData(symbol)
  \/ PutNoop
  \/ \E i \in 1..5, bit \in 0..7 : FlipBit(i, bit)
  \/ Read
  \/ NextFrame

FrameSpec == FrameInit /\ [][FrameNext]_frameVars

-----------------------------------------------------------------------------
Frames == [kind : {"data", "noop"}, cc : 0..15, body : Bodies \cup {Stuffing}]
Refusals == [kind : {"BadSync", "TransportError", "WrongPid",
                     "UnknownFrameType"}]

(* Every variable has its type: what is written and flipped are bytes.     *)
FrameTypeOK ==
  /\ pid \in Pids /\ want \in Wants
  /\ cc \in 0..15 /\ last_cc \in {None} \cup 0..15 /\ pkts_lost \in Nat
  /\ meant \in Frames /\ got \in Frames \cup Refusals
  /\ bytes \in [1..5 -> 0..255] /\ body \in Bodies \cup {Stuffing}
  /\ flipped \subseteq (1..5) \X (0..7)
  /\ phase \in {"idle", "wire", "read"}
  /\ nsent \in 0..MaxFrames /\ nflipped \in 0..MaxFlips

(* A frame that arrives as it was sent is read as it was meant, if the     *)
(* decoder's --pid is the low thirteen bits of the encoder's, and refused  *)
(* otherwise.  So the two programs must not be given one --pid of 0x2000   *)
(* or more: every frame would be refused (common lib.rs:71, 167).          *)
ReadAsMeant ==
  phase = "read" /\ flipped = {} =>
    IF want = pid % (32 * 256) THEN got = meant ELSE got = Refused("WrongPid")

(* One flipped bit of the header or the type never turns one kind of frame *)
(* into another: the frame is refused, or is read as it was meant but for  *)
(* its counter, and for that only if the bit was one of the counter's.     *)
OneFlipIsSafe ==
  phase = "read" /\ (\E f \in flipped : flipped = {f}) /\ IsRead(got) =>
    /\ got = [meant EXCEPT !.cc = got.cc]
    /\ got.cc # meant.cc => flipped \subseteq {4} \X (0..3)

(* What flipped bits cost the loss statistics (dec main.rs:261) when no    *)
(* frame is lost: nothing without them, and with them at most a round of   *)
(* the counter for each, whether a frame was refused, and is counted when  *)
(* the next one is read, or was read with a wrong counter, which is        *)
(* counted going away from the right one and coming back.                  *)
FlipsCost == pkts_lost <= 16 * nflipped
=============================================================================
