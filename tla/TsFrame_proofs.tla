--------------------------- MODULE TsFrame_proofs ---------------------------
(***************************************************************************)
(* Proofs about the wire format, for every --pid of the two programs and   *)
(* any number of frames and flipped bits.                                  *)
(*                                                                         *)
(* The invariant says what is in the packet on the wire: what was built,   *)
(* or that with the one bit flipped.  The loss count needs another: what   *)
(* is counted, and what the next good frame will add to it, is paid for by *)
(* the bits flipped.                                                       *)
(***************************************************************************)
EXTENDS TsFrame, TLAPS

(* Header bytes are bytes, and the pid that TsHeader::parse reads is the   *)
(* low thirteen bits of the one that TsHeader::write was given (common     *)
(* lib.rs:60, 72-73).                                                      *)
LEMMA PidHighByte == ASSUME NEW p \in Nat PROVE PidHigh(p) \in 0..31
BY DEF PidHigh

LEMMA PidLowByte == ASSUME NEW p \in Nat PROVE PidLow(p) \in 0..255
BY DEF PidLow

LEMMA ControlByte ==
  ASSUME NEW c \in 0..15
  PROVE  Control(c) = 16 + c /\ Control(c) \in 0..255
<1>1. c % 16 = c
  OBVIOUS
<1> QED
  BY <1>1 DEF Control

LEMMA ThirteenBits ==
  ASSUME NEW p \in Nat
  PROVE  (PidHigh(p) % 32) * 256 + PidLow(p) = p % (32 * 256)
BY DEF PidHigh, PidLow

(* A flipped byte is another byte; its low half stays if the bit is in the *)
(* high one; and no one bit makes a frame type the other.                  *)
LEMMA FlippedByte ==
  ASSUME NEW byte \in 0..255, NEW bit \in 0..7
  PROVE  /\ Flip(byte, bit) \in 0..255
         /\ Flip(byte, bit) # byte
         /\ bit \notin 0..3 => Flip(byte, bit) % 16 = byte % 16
         /\ byte = 1 => Flip(byte, bit) # 2
         /\ byte = 2 => Flip(byte, bit) # 1
<1>0. CASE bit = 0
  BY <1>0 DEF Flip, Weight
<1>1. CASE bit = 1
  BY <1>1 DEF Flip, Weight
<1>2. CASE bit = 2
  BY <1>2 DEF Flip, Weight
<1>3. CASE bit = 3
  BY <1>3 DEF Flip, Weight
<1>4. CASE bit = 4
  BY <1>4 DEF Flip, Weight
<1>5. CASE bit = 5
  BY <1>5 DEF Flip, Weight
<1>6. CASE bit = 6
  BY <1>6 DEF Flip, Weight
<1>7. CASE bit = 7
  BY <1>7 DEF Flip, Weight
<1> QED
  BY <1>0, <1>1, <1>2, <1>3, <1>4, <1>5, <1>6, <1>7

LEMMA FiveOf ==
  ASSUME NEW B, NEW b1 \in B, NEW b2 \in B, NEW b3 \in B, NEW b4 \in B,
         NEW b5 \in B, NEW packet, packet = <<b1, b2, b3, b4, b5>>
  PROVE  /\ packet \in [1..5 -> B]
         /\ packet[1] = b1 /\ packet[2] = b2 /\ packet[3] = b3
         /\ packet[4] = b4 /\ packet[5] = b5
OBVIOUS

(* The bytes of a packet as it is built.                                   *)
LEMMA WrittenBytes ==
  ASSUME NEW p \in Nat, NEW c \in 0..15, NEW frame_type \in 0..255
  PROVE  /\ write(p, c, frame_type) \in [1..5 -> 0..255]
         /\ write(p, c, frame_type)[1] = TS_SYNC_BYTE
         /\ write(p, c, frame_type)[2] = PidHigh(p)
         /\ write(p, c, frame_type)[3] = PidLow(p)
         /\ write(p, c, frame_type)[4] = Control(c)
         /\ write(p, c, frame_type)[5] = frame_type
<1>1. PidHigh(p) \in 0..31
  BY PidHighByte
<1>2. PidHigh(p) \in 0..255
  BY <1>1
<1>3. PidLow(p) \in 0..255
  BY PidLowByte
<1>4. Control(c) \in 0..255
  BY ControlByte
<1>5. TS_SYNC_BYTE \in 0..255
  BY DEF TS_SYNC_BYTE
<1>6. write(p, c, frame_type)
      = <<TS_SYNC_BYTE, PidHigh(p), PidLow(p), Control(c), frame_type>>
  BY DEF write
<1> QED
  BY <1>2, <1>3, <1>4, <1>5, <1>6, FiveOf

-----------------------------------------------------------------------------
(* Parsing.                                                                *)

LEMMA ParsedType ==
  ASSUME NEW b \in [1..5 -> 0..255], NEW rest \in Bodies \cup {Stuffing},
         NEW expected
  PROVE  parse_packet(b, rest, expected) \in Frames \cup Refusals
<1>1. Counter(b) \in 0..15
  BY DEF Counter
<1>2. parse_payload(b, rest) \in Frames \cup Refusals
  BY <1>1 DEF parse_payload, Noop, Data, Refused, Frames, Refusals
<1>3. \A why : Refused(why) = [kind |-> why]
  BY DEF Refused
<1>4. /\ Refused("BadSync") \in Refusals
      /\ Refused("TransportError") \in Refusals
      /\ Refused("WrongPid") \in Refusals
  BY <1>3 DEF Refusals
<1> QED
  BY <1>2, <1>4 DEF parse_packet

(* A frame that is read is what parse_payload made of it.                  *)
LEMMA ReadIsPayload ==
  ASSUME NEW b, NEW rest, NEW expected, IsRead(parse_packet(b, rest, expected))
  PROVE  /\ parse_packet(b, rest, expected) = parse_payload(b, rest)
         /\ b[1] = TS_SYNC_BYTE
BY DEF parse_packet, IsRead, Refused

(* Which frame has which type on the wire, and what comes back of it.      *)
FrameType(frame) ==
  IF frame.kind = "noop" THEN FRAME_TYPE_NOOP ELSE FRAME_TYPE_DATA

WellFormed(frame) ==
  /\ frame \in Frames
  /\ frame.kind = "noop" => frame.body = Stuffing

LEMMA PayloadOfType ==
  ASSUME NEW frame, WellFormed(frame), NEW b, b[5] = FrameType(frame)
  PROVE  parse_payload(b, frame.body) = [frame EXCEPT !.cc = Counter(b)]
<1>1. CASE frame.kind = "noop"
  <2>1. parse_payload(b, frame.body)
        = [kind |-> "noop", cc |-> Counter(b), body |-> Stuffing]
    <3>1. b[5] = FRAME_TYPE_NOOP /\ FRAME_TYPE_DATA # FRAME_TYPE_NOOP
      BY <1>1 DEF FrameType, FRAME_TYPE_DATA, FRAME_TYPE_NOOP
    <3> QED
      BY <3>1 DEF parse_payload, Noop
  <2> QED
    BY <1>1, <2>1 DEF WellFormed, Frames
<1>2. CASE frame.kind = "data"
  <2>1. parse_payload(b, frame.body)
        = [kind |-> "data", cc |-> Counter(b), body |-> frame.body]
    <3>1. b[5] = FRAME_TYPE_DATA /\ FRAME_TYPE_DATA # FRAME_TYPE_NOOP
      BY <1>2 DEF FrameType, FRAME_TYPE_DATA, FRAME_TYPE_NOOP
    <3> QED
      BY <3>1 DEF parse_payload, Data
  <2> QED
    BY <1>2, <2>1 DEF WellFormed, Frames
<1> QED
  BY <1>1, <1>2 DEF WellFormed, Frames

LEMMA FrameBytes ==
  ASSUME NEW p \in Nat, NEW frame, WellFormed(frame),
         NEW b, b = write(p, frame.cc, FrameType(frame))
  PROVE  /\ b \in [1..5 -> 0..255]
         /\ b[1] = TS_SYNC_BYTE /\ b[2] = PidHigh(p) /\ b[3] = PidLow(p)
         /\ b[4] = Control(frame.cc) /\ b[5] = FrameType(frame)
<1>1. PICK c \in 0..15 : c = frame.cc
  BY DEF WellFormed, Frames
<1>2. PICK type \in 0..255 : type = FrameType(frame)
  BY DEF FrameType, FRAME_TYPE_DATA, FRAME_TYPE_NOOP
<1>3. /\ write(p, c, type) \in [1..5 -> 0..255]
      /\ write(p, c, type)[1] = TS_SYNC_BYTE
      /\ write(p, c, type)[2] = PidHigh(p)
      /\ write(p, c, type)[3] = PidLow(p)
      /\ write(p, c, type)[4] = Control(c)
      /\ write(p, c, type)[5] = type
  BY ZenonT(60), WrittenBytes
<1>4. b = write(p, c, type)
  BY <1>1, <1>2
<1> QED
  BY ZenonT(60), <1>1, <1>2, <1>3, <1>4

(* A packet as it was built is read as it was meant by a decoder with the  *)
(* same thirteen bits of --pid, and by no other.                           *)
LEMMA BuiltIsParsed ==
  ASSUME NEW p \in Nat, NEW w \in Nat, NEW frame, WellFormed(frame)
  PROVE  parse_packet(write(p, frame.cc, FrameType(frame)), frame.body, w)
         = IF w = p % (32 * 256) THEN frame ELSE Refused("WrongPid")
<1> DEFINE b == write(p, frame.cc, FrameType(frame))
<1>1. frame.cc \in 0..15 /\ FrameType(frame) \in 0..255
  BY DEF WellFormed, Frames, FrameType, FRAME_TYPE_DATA, FRAME_TYPE_NOOP
<1>2. /\ b[1] = TS_SYNC_BYTE /\ b[2] = PidHigh(p) /\ b[3] = PidLow(p)
      /\ b[4] = Control(frame.cc) /\ b[5] = FrameType(frame)
  BY FrameBytes
<1> HIDE DEF b
<1>3. ~ Tei(b)
  BY <1>2, PidHighByte DEF Tei
<1>4. Pid(b) = p % (32 * 256)
  BY <1>2, ThirteenBits DEF Pid
<1>5. Counter(b) = frame.cc
  <2>1. Control(frame.cc) = 16 + frame.cc
    BY <1>1, ControlByte
  <2> QED
    BY <1>1, <1>2, <2>1 DEF Counter
<1>6. parse_payload(b, frame.body) = [frame EXCEPT !.cc = frame.cc]
  BY <1>2, <1>5, PayloadOfType
<1>7. [frame EXCEPT !.cc = frame.cc] = frame
  BY DEF WellFormed, Frames
<1>8. parse_packet(b, frame.body, w)
      = IF w = p % (32 * 256) THEN frame ELSE Refused("WrongPid")
  BY <1>2, <1>3, <1>4, <1>6, <1>7 DEF parse_packet
<1> QED
  BY <1>8 DEF b

(* With one bit flipped a packet is refused, or read as it was meant but   *)
(* for its counter.                                                        *)
LEMMA FlippedIsParsed ==
  ASSUME NEW p \in Nat, NEW w \in Nat, NEW frame, WellFormed(frame),
         NEW i \in 1..5, NEW bit \in 0..7, NEW b,
         b = [write(p, frame.cc, FrameType(frame)) EXCEPT ![i] = Flip(@, bit)],
         IsRead(parse_packet(b, frame.body, w))
  PROVE  /\ parse_packet(b, frame.body, w)
            = [frame EXCEPT !.cc = Counter(b)]
         /\ Counter(b) # frame.cc => i = 4 /\ bit \in 0..3
<1> DEFINE sent == write(p, frame.cc, FrameType(frame))
<1>1. frame.cc \in 0..15 /\ FrameType(frame) \in {1, 2}
  BY DEF WellFormed, Frames, FrameType, FRAME_TYPE_DATA, FRAME_TYPE_NOOP
<1>2. FrameType(frame) \in 0..255
  BY <1>1
<1>3. /\ sent \in [1..5 -> 0..255]
      /\ sent[1] = TS_SYNC_BYTE
      /\ sent[4] = Control(frame.cc) /\ sent[5] = FrameType(frame)
  BY FrameBytes
<1> HIDE DEF sent
<1>4. b = [sent EXCEPT ![i] = Flip(sent[i], bit)]
  BY DEF sent
<1>5. /\ b[i] = Flip(sent[i], bit)
      /\ \A j \in 1..5 : j # i => b[j] = sent[j]
  BY <1>3, <1>4
<1>6. parse_packet(b, frame.body, w) = parse_payload(b, frame.body)
  BY ReadIsPayload
<1>7. b[5] = FrameType(frame)
  <2>1. CASE i = 5
    <3>1. b[5] = Flip(FrameType(frame), bit)
      BY <1>3, <1>5, <2>1
    <3>2. /\ b[5] # FrameType(frame)
          /\ FrameType(frame) = 1 => b[5] # 2
          /\ FrameType(frame) = 2 => b[5] # 1
      BY <1>2, <3>1, FlippedByte, ZenonT(60)
    <3>3. b[5] # FRAME_TYPE_NOOP /\ b[5] # FRAME_TYPE_DATA
      BY <1>1, <3>2 DEF FRAME_TYPE_NOOP, FRAME_TYPE_DATA
    <3>4. parse_payload(b, frame.body) = Refused("UnknownFrameType")
      BY <3>3 DEF parse_payload
    <3> QED
      BY <1>6, <3>4 DEF Refused, IsRead
  <2>2. CASE i # 5
    BY <1>3, <1>5, <2>2
  <2> QED
    BY <2>1, <2>2
<1>8. Control(frame.cc) = 16 + frame.cc /\ Control(frame.cc) \in 0..255
  BY <1>1, ControlByte
<1>9. (16 + frame.cc) % 16 = frame.cc
  BY <1>1
<1>10. ASSUME Counter(b) # frame.cc PROVE i = 4 /\ bit \in 0..3
  <2>1. b[4] # sent[4]
    BY <1>3, <1>8, <1>9, <1>10 DEF Counter
  <2>2. i = 4
    BY <1>5, <2>1
  <2>3. Flip(sent[4], bit) % 16 # sent[4] % 16
    BY <1>3, <1>5, <1>8, <1>9, <1>10, <2>2 DEF Counter
  <2> QED
    BY <1>3, <1>8, <2>2, <2>3, FlippedByte
<1> QED
  BY <1>6, <1>7, <1>10, PayloadOfType

-----------------------------------------------------------------------------
(* What is on the wire, and what the decoder made of it.                   *)

OnTheWire ==
  /\ WellFormed(meant) /\ body = meant.body
  /\ cc = advance(meant.cc)
  /\ flipped = {} => bytes = write(pid, meant.cc, FrameType(meant))
  /\ \A i \in 1..5, bit \in 0..7 :
       flipped = {<<i, bit>>} =>
         bytes = [write(pid, meant.cc, FrameType(meant))
                    EXCEPT ![i] = Flip(@, bit)]

FrameInv ==
  /\ FrameTypeOK
  /\ phase # "idle" => OnTheWire
  /\ phase = "read" => got = parse_packet(bytes, body, want)

LEMMA FrameInitInv == ASSUME FrameInit PROVE FrameInv
<1> USE FrameAssumption
<1>1. 0 \in Nat
  OBVIOUS
<1>2. WellFormed(Noop(0)) /\ FrameType(Noop(0)) = FRAME_TYPE_NOOP
      /\ Noop(0).cc = 0
  BY DEF WellFormed, Noop, Frames, FrameType
<1>3. bytes \in [1..5 -> 0..255]
  BY <1>1, <1>2, FrameBytes DEF FrameInit
<1>4. got \in Refusals
  BY DEF FrameInit, Refused, Refusals
<1> QED
  BY <1>2, <1>3, <1>4
     DEF FrameInit, FrameInv, FrameTypeOK, WellFormed, Noop, None

LEMMA PutInv ==
  ASSUME FrameInv, NEW frame, WellFormed(frame), frame.cc = cc,
         NEW frame_type, frame_type = FrameType(frame),
         NEW rest, rest = frame.body, Put(frame, frame_type, rest)
  PROVE  FrameInv'
<1> USE FrameAssumption
<1>1. pid \in Nat /\ cc \in 0..15
  BY DEF FrameInv, FrameTypeOK
<1>2. bytes' = write(pid, frame.cc, FrameType(frame))
  BY DEF Put
<1>3. bytes' \in [1..5 -> 0..255]
  BY <1>1, <1>2, FrameBytes
<1>4. frame \in Frames /\ rest \in Bodies \cup {Stuffing}
  BY DEF WellFormed, Frames
<1>5. cc' \in 0..15
  BY <1>1 DEF Put, advance
<1>6. nsent' \in 0..MaxFrames
  BY DEF FrameInv, FrameTypeOK, Put
<1>7. FrameTypeOK'
  BY <1>3, <1>4, <1>5, <1>6 DEF FrameInv, FrameTypeOK, Put
<1>8. OnTheWire'
  BY <1>2 DEF OnTheWire, Put, WellFormed
<1> QED
  BY <1>7, <1>8 DEF FrameInv, Put

LEMMA FlipInv ==
  ASSUME FrameInv, NEW i \in 1..5, NEW bit \in 0..7, FlipBit(i, bit)
  PROVE  FrameInv'
<1> USE FrameAssumption
<1>1. bytes \in [1..5 -> 0..255] /\ bytes[i] \in 0..255
  BY DEF FrameInv, FrameTypeOK
<1>2. Flip(bytes[i], bit) \in 0..255
  BY <1>1, FlippedByte, Zenon
<1>3. bytes' = [bytes EXCEPT ![i] = Flip(bytes[i], bit)]
  BY DEF FlipBit
<1>4. bytes' \in [1..5 -> 0..255]
  BY <1>1, <1>2, <1>3
<1>5. nflipped' \in 0..MaxFlips
  BY DEF FrameInv, FrameTypeOK, FlipBit
<1>6. flipped' \subseteq (1..5) \X (0..7)
  BY DEF FrameInv, FrameTypeOK, FlipBit
<1>7. FrameTypeOK'
  BY <1>4, <1>5, <1>6 DEF FrameInv, FrameTypeOK, FlipBit
<1>8. OnTheWire /\ flipped' # {}
  BY DEF FrameInv, FlipBit
<1>9. ASSUME NEW j \in 1..5, NEW b \in 0..7, flipped' = {<<j, b>>}
      PROVE  bytes' = [write(pid, meant.cc, FrameType(meant))
                         EXCEPT ![j] = Flip(@, b)]
  <2>1. flipped = {} /\ j = i /\ b = bit
    BY <1>9 DEF FlipBit
  <2>2. bytes = write(pid, meant.cc, FrameType(meant))
    BY <1>8, <2>1 DEF OnTheWire
  <2> QED
    BY <1>3, <2>1, <2>2
<1>10. OnTheWire'
  BY <1>8, <1>9 DEF OnTheWire, FlipBit, WellFormed
<1> QED
  BY <1>7, <1>10 DEF FrameInv, FlipBit

LEMMA ReadInv == ASSUME FrameInv, Read PROVE FrameInv'
<1> DEFINE frame == parse_packet(bytes, body, want)
<1>1. frame \in Frames \cup Refusals
  BY ParsedType DEF FrameInv, FrameTypeOK
<1> HIDE DEF frame
<1>2. /\ got' = frame
      /\ pkts_lost' = IF IsRead(frame) THEN pkts_lost + cc_gap(last_cc, frame.cc)
                      ELSE pkts_lost
      /\ last_cc' = IF IsRead(frame) THEN frame.cc ELSE last_cc
  BY DEF Read, frame
<1>3. IsRead(frame) => frame.cc \in 0..15
  BY <1>1 DEF IsRead, Frames, Refusals
<1>4. last_cc \in {None} \cup 0..15 /\ pkts_lost \in Nat
  BY DEF FrameInv, FrameTypeOK
<1>5. last_cc' \in {None} \cup 0..15
  BY <1>2, <1>3, <1>4
<1>6. IsRead(frame) => cc_gap(last_cc, frame.cc) \in Nat
  BY <1>3, <1>4 DEF cc_gap, None
<1>7. pkts_lost' \in Nat
  BY <1>2, <1>4, <1>6
<1>8. FrameTypeOK'
  BY <1>1, <1>2, <1>5, <1>7 DEF FrameInv, FrameTypeOK, Read
<1>9. OnTheWire'
  BY DEF FrameInv, OnTheWire, Read, WellFormed
<1>10. got' = parse_packet(bytes', body', want')
  BY <1>2 DEF Read, frame
<1> QED
  BY <1>8, <1>9, <1>10 DEF FrameInv

LEMMA FrameStepInv ==
  ASSUME FrameInv, [FrameNext]_frameVars
  PROVE  FrameInv'
<1> USE FrameAssumption
<1>1. ASSUME NEW symbol \in Bodies, PutData(symbol) PROVE FrameInv'
  <2>1. WellFormed(Data(cc, symbol)) /\ Data(cc, symbol).cc = cc
        /\ Data(cc, symbol).body = symbol
        /\ FrameType(Data(cc, symbol)) = FRAME_TYPE_DATA
    BY DEF WellFormed, Data, Frames, FrameType, FrameInv, FrameTypeOK
  <2> QED
    BY <1>1, <2>1, PutInv DEF PutData
<1>2. CASE PutNoop
  <2>1. WellFormed(Noop(cc)) /\ Noop(cc).cc = cc /\ Noop(cc).body = Stuffing
        /\ FrameType(Noop(cc)) = FRAME_TYPE_NOOP
    BY DEF WellFormed, Noop, Frames, FrameType, FrameInv, FrameTypeOK
  <2> QED
    BY <1>2, <2>1, PutInv DEF PutNoop
<1>3. ASSUME NEW i \in 1..5, NEW bit \in 0..7, FlipBit(i, bit)
      PROVE  FrameInv'
  BY <1>3, FlipInv
<1>4. CASE Read
  BY <1>4, ReadInv
<1>5. CASE NextFrame
  BY <1>5 DEF NextFrame, FrameInv, FrameTypeOK
<1>6. CASE UNCHANGED frameVars
  BY <1>6 DEF frameVars, FrameInv, FrameTypeOK, OnTheWire, WellFormed
<1> QED
  BY <1>1, <1>2, <1>3, <1>4, <1>5, <1>6 DEF FrameNext

LEMMA FrameInvariant == FrameSpec => []FrameInv
<1>1. FrameInit => FrameInv
  BY FrameInitInv
<1>2. FrameInv /\ [FrameNext]_frameVars => FrameInv'
  BY FrameStepInv
<1> QED
  BY <1>1, <1>2, PTL DEF FrameSpec

(* Every header byte stays a byte, every counter in its four bits, for     *)
(* all pids, bodies and flipped bits (common lib.rs:67-77, 87).            *)
THEOREM FrameTypeCorrect == FrameSpec => []FrameTypeOK
<1>1. FrameInv => FrameTypeOK
  BY DEF FrameInv
<1> QED
  BY <1>1, FrameInvariant, PTL

(* What is built is read as it was meant, for every pair of --pid that     *)
(* agree in thirteen bits, and refused for every other (lib.rs:159-198).   *)
THEOREM MeaningSurvives == FrameSpec => []ReadAsMeant
<1>1. ASSUME FrameInv, phase = "read", flipped = {}
      PROVE  IF want = pid % (32 * 256) THEN got = meant
             ELSE got = Refused("WrongPid")
  <2>1. pid \in Nat /\ want \in Nat
    BY <1>1, FrameAssumption DEF FrameInv, FrameTypeOK
  <2>2. OnTheWire /\ got = parse_packet(bytes, body, want)
    BY <1>1 DEF FrameInv
  <2>3. /\ WellFormed(meant) /\ body = meant.body
        /\ bytes = write(pid, meant.cc, FrameType(meant))
    BY <1>1, <2>2 DEF OnTheWire
  <2> QED
    BY <2>1, <2>2, <2>3, BuiltIsParsed
<1>2. FrameInv => ReadAsMeant
  BY <1>1 DEF ReadAsMeant
<1> QED
  BY <1>2, FrameInvariant, PTL

(* One flipped bit loses a frame or garbles its counter, and does nothing  *)
(* else to it (lib.rs:52-65, 164-198).                                     *)
THEOREM KindSurvives == FrameSpec => []OneFlipIsSafe
<1>1. ASSUME FrameInv, phase = "read", NEW f \in flipped, flipped = {f},
             IsRead(got)
      PROVE  /\ got = [meant EXCEPT !.cc = got.cc]
             /\ got.cc # meant.cc => flipped \subseteq {4} \X (0..3)
  <2>1. pid \in Nat /\ want \in Nat
    BY <1>1, FrameAssumption DEF FrameInv, FrameTypeOK
  <2>2. PICK i \in 1..5, bit \in 0..7 : f = <<i, bit>>
    BY <1>1 DEF FrameInv, FrameTypeOK
  <2>3. OnTheWire /\ got = parse_packet(bytes, body, want)
    BY <1>1 DEF FrameInv
  <2>4. /\ WellFormed(meant) /\ body = meant.body
        /\ bytes = [write(pid, meant.cc, FrameType(meant))
                      EXCEPT ![i] = Flip(@, bit)]
    BY <1>1, <2>2, <2>3 DEF OnTheWire
  <2>5. /\ got = [meant EXCEPT !.cc = Counter(bytes)]
        /\ Counter(bytes) # meant.cc => i = 4 /\ bit \in 0..3
    BY <1>1, <2>1, <2>3, <2>4, FlippedIsParsed
  <2>6. got.cc = Counter(bytes)
    BY <2>4, <2>5 DEF WellFormed, Frames
  <2> QED
    BY <1>1, <2>2, <2>5, <2>6
<1>2. FrameInv => OneFlipIsSafe
  BY <1>1 DEF OneFlipIsSafe
<1> QED
  BY <1>2, FrameInvariant, PTL

-----------------------------------------------------------------------------
(* The loss count.  A decoder on the encoder's pid has yet to count the    *)
(* frames up to the next one that is good, and a flipped frame that is on  *)
(* the wire will add up to a round of the counter.                         *)

Due == IF phase = "wire" THEN meant.cc ELSE cc
Owed == IF want = pid % (32 * 256) THEN cc_gap(last_cc, Due) ELSE 0
Coming == IF phase = "wire" /\ flipped # {} THEN 16 ELSE 0

Paid == pkts_lost + Owed + Coming <= 16 * nflipped

LEMMA GapOf ==
  ASSUME NEW last \in 0..15, NEW c \in 0..15
  PROVE  cc_gap(last, c) = IF c > last THEN c - last - 1 ELSE c - last + 15
BY DEF cc_gap, None

LEMMA GapBounds ==
  ASSUME NEW last \in {None} \cup 0..15, NEW c \in 0..15, NEW due \in 0..15
  PROVE  /\ cc_gap(last, c) \in 0..15
         /\ cc_gap(c, advance(c)) = 0
         /\ cc_gap(last, advance(due)) <= cc_gap(last, due) + 16
         /\ cc_gap(last, c) + cc_gap(c, advance(due)) <= cc_gap(last, due) + 16
<1>1. \A a, b \in 0..15 :
        cc_gap(a, b) = IF b > a THEN b - a - 1 ELSE b - a + 15
  BY GapOf
<1>2. \A a \in 0..15 : advance(a) = IF a = 15 THEN 0 ELSE a + 1
  BY DEF advance
<1>3. advance(c) \in 0..15 /\ advance(due) \in 0..15
  BY <1>2
<1>4. CASE last = None
  <2>1. \A b : cc_gap(last, b) = 0
    BY <1>4 DEF cc_gap
  <2> QED
    BY <1>1, <1>2, <1>3, <2>1
<1>5. CASE last \in 0..15
  BY <1>1, <1>2, <1>3, <1>5
<1> QED
  BY <1>4, <1>5

LEMMA ReadPaid == ASSUME FrameInv, Paid, Read PROVE Paid'
<1> DEFINE frame == parse_packet(bytes, body, want)
<1>1. frame \in Frames \cup Refusals
  BY ParsedType DEF FrameInv, FrameTypeOK
<1>2. frame = parse_packet(bytes, body, want)
  OBVIOUS
<1> HIDE DEF frame
<1>3. /\ pkts_lost' = IF IsRead(frame) THEN pkts_lost + cc_gap(last_cc, frame.cc)
                      ELSE pkts_lost
      /\ last_cc' = IF IsRead(frame) THEN frame.cc ELSE last_cc
  BY <1>2 DEF Read
<1>4. /\ phase = "wire" /\ phase' = "read"
      /\ UNCHANGED <<pid, want, cc, flipped, nflipped>>
  BY DEF Read
<1>5. /\ last_cc \in {None} \cup 0..15 /\ pkts_lost \in Nat
      /\ cc \in 0..15 /\ nflipped \in Nat
      /\ pid \in Nat /\ want \in Nat
  BY FrameAssumption DEF FrameInv, FrameTypeOK
<1>6. OnTheWire /\ cc = advance(meant.cc) /\ meant.cc \in 0..15
  BY <1>4 DEF FrameInv, OnTheWire, WellFormed, Frames
<1>7. Owed = (IF want = pid % (32 * 256) THEN cc_gap(last_cc, meant.cc) ELSE 0)
      /\ Owed' = (IF want = pid % (32 * 256) THEN cc_gap(last_cc', cc) ELSE 0)
  BY <1>4 DEF Owed, Due
<1>8. Coming' = 0
  BY <1>4 DEF Coming
<1>9. cc_gap(last_cc, meant.cc) \in 0..15 /\ cc_gap(last_cc, cc) \in 0..15
  BY <1>5, <1>6, GapBounds, Zenon
<1>10. CASE flipped = {}
  <2>1. WellFormed(meant) /\ body = meant.body
        /\ bytes = write(pid, meant.cc, FrameType(meant))
    BY <1>6, <1>10 DEF OnTheWire
  <2>2. frame = IF want = pid % (32 * 256) THEN meant ELSE Refused("WrongPid")
    BY <1>2, <1>5, <2>1, BuiltIsParsed
  <2>3. CASE want = pid % (32 * 256)
    <3>1. frame = meant /\ IsRead(frame)
      BY <2>1, <2>2, <2>3 DEF WellFormed, Frames, IsRead
    <3>2. cc_gap(meant.cc, cc) = 0
      BY <1>6, GapBounds, Zenon DEF None
    <3>3. pkts_lost' = pkts_lost + Owed /\ Owed' = 0
      BY <1>3, <1>7, <2>3, <3>1, <3>2
    <3> QED
      BY <1>4, <1>5, <1>7, <1>8, <1>9, <1>10, <2>3, <3>3 DEF Paid, Coming
  <2>4. CASE want # pid % (32 * 256)
    <3>1. ~ IsRead(frame)
      BY <2>2, <2>4 DEF Refused, IsRead
    <3> QED
      BY <1>3, <1>4, <1>5, <1>7, <1>8, <1>10, <2>4, <3>1 DEF Paid, Coming
  <2> QED
    BY <2>3, <2>4
<1>11. CASE flipped # {}
  <2>1. pkts_lost + Owed + 16 <= 16 * nflipped
    BY <1>4, <1>11 DEF Paid, Coming
  <2>2. pkts_lost' + Owed' <= pkts_lost + Owed + 16
    <3>1. CASE IsRead(frame)
      <4>1. frame.cc \in 0..15
        BY <1>1, <3>1 DEF IsRead, Frames, Refusals
      <4>2. /\ cc_gap(last_cc, frame.cc) \in 0..15
            /\ cc_gap(last_cc, frame.cc) + cc_gap(frame.cc, cc)
               <= cc_gap(last_cc, meant.cc) + 16
        BY <1>5, <1>6, <4>1, GapBounds, Zenon
      <4>3. cc_gap(frame.cc, cc) \in 0..15
        BY <1>5, <4>1, GapBounds, Zenon
      <4> QED
        BY <1>3, <1>5, <1>7, <1>9, <3>1, <4>2, <4>3
    <3>2. CASE ~ IsRead(frame)
      <4>1. cc_gap(last_cc, cc) <= cc_gap(last_cc, meant.cc) + 16
        BY <1>5, <1>6, GapBounds, Zenon
      <4> QED
        BY <1>3, <1>5, <1>7, <1>9, <3>2, <4>1
    <3> QED
      BY <3>1, <3>2
  <2>3. pkts_lost' \in Nat /\ Owed' \in Nat /\ Owed \in Nat
    <3>1. IsRead(frame) => frame.cc \in 0..15
      BY <1>1 DEF IsRead, Frames, Refusals
    <3>2. last_cc' \in {None} \cup 0..15
      BY <1>3, <1>5, <3>1
    <3>3. cc_gap(last_cc', cc) \in 0..15
      BY <1>5, <3>2, GapBounds, Zenon
    <3>4. IsRead(frame) => cc_gap(last_cc, frame.cc) \in 0..15
      BY <1>5, <3>1, GapBounds, Zenon
    <3> QED
      BY <1>3, <1>5, <1>7, <1>9, <3>3, <3>4
  <2> QED
    <3>1. ASSUME NEW a \in Nat, NEW b \in Nat, NEW c \in Nat, NEW d \in Nat,
                 NEW n \in Nat, a + b + 16 <= 16 * n, c + d <= a + b + 16
          PROVE  c + d + 0 <= 16 * n
      BY <3>1
    <3>2. pkts_lost' + Owed' + 0 <= 16 * nflipped
      BY <1>5, <2>1, <2>2, <2>3, <3>1, Zenon
    <3> QED
      BY <1>4, <1>8, <3>2, Zenon DEF Paid
<1> QED
  BY <1>10, <1>11

LEMMA PaidStep ==
  ASSUME FrameInv, Paid, [FrameNext]_frameVars
  PROVE  Paid'
<1>0. /\ pkts_lost \in Nat /\ nflipped \in Nat /\ cc \in 0..15
      /\ last_cc \in {None} \cup 0..15
  BY FrameAssumption DEF FrameInv, FrameTypeOK
<1>1. ASSUME NEW frame, NEW frame_type, NEW rest, frame.cc = cc,
             Put(frame, frame_type, rest)
      PROVE  Paid'
  <2>1. Owed' = Owed
    BY <1>1 DEF Put, Owed, Due
  <2>2. Coming' = 0 /\ Coming = 0
    BY <1>1 DEF Put, Coming
  <2> QED
    BY <1>1, <2>1, <2>2 DEF Put, Paid
<1>2. ASSUME NEW symbol \in Bodies, PutData(symbol) PROVE Paid'
  <2>1. Data(cc, symbol).cc = cc
    BY DEF Data
  <2> QED
    BY <1>1, <1>2, <2>1 DEF PutData
<1>3. CASE PutNoop
  <2>1. Noop(cc).cc = cc
    BY DEF Noop
  <2> QED
    BY <1>1, <1>3, <2>1 DEF PutNoop
<1>4. ASSUME NEW i \in 1..5, NEW bit \in 0..7, FlipBit(i, bit) PROVE Paid'
  <2>1. Owed' = Owed
    BY <1>4 DEF FlipBit, Owed, Due
  <2>2. Coming' = 16 /\ Coming \in {0, 16}
    BY <1>4 DEF FlipBit, Coming
  <2>3. Owed \in Nat
    <3>1. phase = "wire" /\ meant.cc \in 0..15
      BY <1>4 DEF FlipBit, FrameInv, OnTheWire, WellFormed, Frames
    <3>2. cc_gap(last_cc, meant.cc) \in 0..15
      BY <1>0, <3>1, GapBounds, Zenon
    <3> QED
      BY <3>1, <3>2 DEF Owed, Due
  <2>4. pkts_lost' = pkts_lost /\ nflipped' = nflipped + 1
    BY <1>4 DEF FlipBit
  <2> QED
    BY <1>0, <2>1, <2>2, <2>3, <2>4 DEF Paid
<1>5. CASE Read
  BY <1>5, ReadPaid
<1>6. CASE NextFrame
  <2>1. Owed' = Owed
    BY <1>6 DEF NextFrame, Owed, Due
  <2>2. Coming' = 0 /\ Coming = 0
    BY <1>6 DEF NextFrame, Coming
  <2> QED
    BY <1>6, <2>1, <2>2 DEF NextFrame, Paid
<1>7. CASE UNCHANGED frameVars
  BY <1>7 DEF frameVars, Paid, Owed, Due, Coming
<1> QED
  BY <1>2, <1>3, <1>4, <1>5, <1>6, <1>7 DEF FrameNext

(* However many frames there are, without a flipped bit none is counted    *)
(* lost, and each flipped bit costs at most a round (dec main.rs:261-271,  *)
(* 299-301, 349).                                                          *)
THEOREM FlipsAreBounded == FrameSpec => []FlipsCost
<1>1. FrameInit => Paid
  BY DEF FrameInit, Paid, Owed, Due, Coming, cc_gap
<1>2. FrameInv /\ Paid /\ [FrameNext]_frameVars => Paid'
  BY PaidStep
<1>3. FrameInv /\ Paid => FlipsCost
  <2> SUFFICES ASSUME FrameInv, Paid PROVE FlipsCost
    OBVIOUS
  <2>1. pkts_lost \in Nat /\ nflipped \in Nat
    BY FrameAssumption DEF FrameInv, FrameTypeOK
  <2>2. Due \in 0..15 /\ last_cc \in {None} \cup 0..15
    BY DEF FrameInv, FrameTypeOK, OnTheWire, WellFormed, Frames, Due
  <2>3. cc_gap(last_cc, Due) \in 0..15
    BY <2>2, GapBounds, Zenon
  <2>4. Owed \in Nat /\ Coming \in Nat
    BY <2>3 DEF Owed, Coming
  <2> QED
    BY <2>1, <2>4 DEF Paid, FlipsCost
<1> QED
  BY <1>1, <1>2, <1>3, FrameInvariant, PTL DEF FrameSpec
=============================================================================
