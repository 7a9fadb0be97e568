------------------------------- MODULE TsSync -------------------------------
(***************************************************************************)
(* The way into raptorq-dec and out of it: ts-reader cuts the bytes of     *)
(* standard input into packets at the 0x47 sync bytes and puts them into a *)
(* bounded channel, run_decoder takes them from there, and main waits for  *)
(* both to end.                                                            *)
(*                                                                         *)
(* Of a byte only its position in the input and whether it is 0x47 matter; *)
(* the input is any bytes at all, in pieces of any size.  What run_decoder *)
(* does with a packet is module RaptorqDec.                                *)
(***************************************************************************)
EXTENDS Integers, Sequences

CONSTANTS
  PacketSize,   \* TS_PACKET_SIZE
  ChannelCap,   \* sync_channel(1024)
  MaxBytes      \* bound: bytes on standard input

ASSUME SyncAssumption ==
  PacketSize \in Nat \ {0} /\ ChannelCap \in Nat \ {0} /\ MaxBytes \in Nat

VARIABLES
  is_sync,      \* the bytes read so far: is the i-th one 0x47?
  stdin,        \* "open", or "closed" when all has been read
  rpc,          \* the reader: "read", "scan" or "exited"
  scratch,      \* the positions of the bytes in the scratch buffer
  frames,       \* the channel
  dpc,          \* "run", "join" when run_decoder is back, or "ended"
  dec_ok,       \* run_decoder has neither failed nor panicked
  sent,         \* history: the packets the reader put into the channel
  received      \* history: the packets the decoder took from it

syncVars == <<is_sync, stdin, rpc, scratch, frames, dpc, dec_ok, sent, received>>

SyncInit ==
  /\ is_sync = <<>> /\ stdin = "open"
  /\ rpc = "read" /\ scratch = <<>>
  /\ frames = <<>> /\ dpc = "run" /\ dec_ok = TRUE
  /\ sent = <<>> /\ received = <<>>

(* Nothing more will come on standard input.                               *)
CloseStdin ==
  /\ stdin = "open"
  /\ stdin' = "closed"
  /\ UNCHANGED <<is_sync, rpc, scratch, frames, dpc, dec_ok, sent, received>>

-----------------------------------------------------------------------------
Upto(n) == [i \in 1..n |-> Len(is_sync) + i]

(* (slip: a read may fill the buffer from its beginning again)             *)
Wanted_over == 1..PacketSize

Wanted == 1..PacketSize - Len(scratch)

(* A read gives some of what the packet lacks, ...                         *)
ReadBytes ==
  /\ rpc = "read" /\ stdin = "open"
  /\ \E n \in Wanted :
       /\ Len(is_sync) + n <= MaxBytes
       /\ \E bytes \in [1..n -> BOOLEAN] : is_sync' = is_sync \o bytes
       /\ scratch' = scratch \o Upto(n)
       /\ rpc' = IF Len(scratch) + n = PacketSize THEN "scan" ELSE "read"
  /\ UNCHANGED <<stdin, frames, dpc, dec_ok, sent, received>>

(* ... or nothing at the end of the input, ...                             *)
ReadEof ==
  /\ rpc = "read" /\ stdin = "closed"
  /\ rpc' = "exited"
  /\ UNCHANGED <<is_sync, stdin, scratch, frames, dpc, dec_ok, sent, received>>

(* ... or fails (but for Interrupted, after which it is tried again).      *)
ReadError ==
  /\ rpc = "read"
  /\ rpc' = "exited"
  /\ UNCHANGED <<is_sync, stdin, scratch, frames, dpc, dec_ok, sent, received>>

AtSync == is_sync[scratch[1]]

(* The packet found is ready to be sent.                                   *)
FrameFound == rpc = "scan" /\ AtSync

(* (slip: all of the buffer is thrown away)                                *)
AfterSkip_empty == <<>>

AfterSkip == Tail(scratch)

(* A full buffer that does not begin with 0x47: drop its first byte.       *)
SkipByte ==
  /\ rpc = "scan" /\ ~AtSync
  /\ scratch' = AfterSkip
  /\ rpc' = "read"
  /\ UNCHANGED <<is_sync, stdin, frames, dpc, dec_ok, sent, received>>

(* (slip: the last byte is looked at again)                                *)
AfterSend_keep == <<scratch[PacketSize]>>

(* (slip: the next sync byte is looked for within the packet)              *)
AfterSend_hunt == Tail(scratch)

AfterSend == <<>>

(* A full buffer that begins with 0x47 is a packet; sending it blocks      *)
(* while the channel is full.                                              *)
SendFrame ==
  /\ FrameFound
  /\ dpc = "run" /\ Len(frames) < ChannelCap
  /\ frames' = Append(frames, scratch)
  /\ sent' = Append(sent, scratch)
  /\ scratch' = AfterSend
  /\ rpc' = "read"
  /\ UNCHANGED <<is_sync, stdin, dpc, dec_ok, received>>

(* (slip: the channel is open until the process has ended)                 *)
DecoderGone_late == dpc = "ended"

DecoderGone == dpc # "run"

(* run_decoder is gone: the reader ends.                                   *)
SendFails ==
  /\ FrameFound
  /\ DecoderGone
  /\ rpc' = "exited"
  /\ UNCHANGED <<is_sync, stdin, scratch, frames, dpc, dec_ok, sent, received>>

Scan == SkipByte \/ SendFrame \/ SendFails

-----------------------------------------------------------------------------
RecvFrame ==
  /\ dpc = "run"
  /\ frames # <<>>
  /\ received' = Append(received, Head(frames))
  /\ frames' = Tail(frames)
  /\ UNCHANGED <<is_sync, stdin, rpc, scratch, dpc, dec_ok, sent>>

(* (slip: the end of the reader is noticed before its last packets)        *)
Disconnected_early == rpc = "exited"

(* The reader is gone and the channel empty.                               *)
Disconnected == frames = <<>> /\ rpc = "exited"

(* Flush and return.                                                       *)
RecvClosed ==
  /\ dpc = "run"
  /\ Disconnected
  /\ dpc' = "join"
  /\ UNCHANGED <<is_sync, stdin, rpc, scratch, frames, dec_ok, sent, received>>

(* Writing standard output fails: run_decoder returns, and what is in the  *)
(* channel goes with it.                                                   *)
DecoderFails ==
  /\ dpc = "run"
  /\ dec_ok' = FALSE
  /\ frames' = <<>>
  /\ dpc' = "join"
  /\ UNCHANGED <<is_sync, stdin, rpc, scratch, sent, received>>

(* A packet makes run_decoder panic: main is its thread, and the process   *)
(* ends with it, the reader wherever it is.                                *)
DecoderPanics ==
  /\ dpc = "run"
  /\ received # <<>>
  /\ dec_ok' = FALSE
  /\ frames' = <<>>
  /\ dpc' = "ended" /\ rpc' = "exited"
  /\ UNCHANGED <<is_sync, stdin, scratch, sent, received>>

(* main waits for the reader and returns.                                  *)
Join ==
  /\ dpc = "join"
  /\ rpc = "exited"
  /\ dpc' = "ended"
  /\ UNCHANGED <<is_sync, stdin, rpc, scratch, frames, dec_ok, sent, received>>

SyncNext ==
  \/ CloseStdin \/ ReadBytes \/ ReadEof \/ ReadError \/ Scan
  \/ RecvFrame \/ RecvClosed \/ DecoderFails \/ DecoderPanics \/ Join

SyncSpec == SyncInit /\ [][SyncNext]_syncVars

(* Both threads run.  A read that has nothing to give may block for ever.  *)
SyncFairness ==
  /\ WF_syncVars(ReadEof)
  /\ WF_syncVars(Scan)
  /\ WF_syncVars(RecvFrame \/ RecvClosed \/ Join)

SyncFairSpec == SyncSpec /\ SyncFairness

-----------------------------------------------------------------------------
Positions == Nat \ {0}

(* Every variable has its type.                                            *)
SyncTypeOK ==
  /\ is_sync \in Seq(BOOLEAN) /\ stdin \in {"open", "closed"}
  /\ rpc \in {"read", "scan", "exited"}
  /\ scratch \in Seq(Positions) /\ Len(scratch) <= PacketSize
  /\ rpc = "scan" => Len(scratch) = PacketSize
  /\ frames \in Seq(Seq(Positions)) /\ Len(frames) <= ChannelCap
  /\ dpc \in {"run", "join", "ended"} /\ dec_ok \in BOOLEAN
  /\ sent \in Seq(Seq(Positions)) /\ received \in Seq(Seq(Positions))

Start(frame) == frame[1]
End(frame) == frame[1] + PacketSize

(* A packet is PacketSize bytes as they stood in the input, in a row and   *)
(* from a sync byte on, and packets do not overlap: however the reads cut  *)
(* the input up and however often the reader had to wait, skip or start    *)
(* again (reader_thread, dec main.rs:95-127).                              *)
FramesAreWhole ==
  /\ \A i \in DOMAIN sent :
       /\ Len(sent[i]) = PacketSize
       /\ \A k \in 1..PacketSize : sent[i][k] = Start(sent[i]) + k - 1
       /\ is_sync[Start(sent[i])]
  /\ \A i, j \in DOMAIN sent : i < j => End(sent[i]) <= Start(sent[j])

InFrame(p) == \E i \in DOMAIN sent : p >= Start(sent[i]) /\ p < End(sent[i])
InScratch(p) == \E k \in DOMAIN scratch : scratch[k] = p

(* Only bytes that are not sync bytes are thrown away: a 0x47 that was     *)
(* read is in a packet sent or is yet to be looked at, so the reader locks *)
(* on at the first one it sees (dec main.rs:108-117).                      *)
NoSyncSkipped ==
  \A p \in DOMAIN is_sync : is_sync[p] => InFrame(p) \/ InScratch(p)

(* Once in step, always in step: after a packet, if the byte PacketSize    *)
(* on is 0x47 too, the next packet begins there, whatever 0x47 bytes there *)
(* are within the packets; and if it is not, the lock was false or bytes   *)
(* were lost, and the reader leaves it.                                    *)
StaysLocked ==
  \A i \in DOMAIN sent :
    LET next == End(sent[i]) IN
    next \in DOMAIN is_sync =>
      IF is_sync[next]
      THEN \/ i < Len(sent) /\ Start(sent[i + 1]) = next
           \/ i = Len(sent) /\ scratch # <<>> /\ scratch[1] = next
      ELSE i < Len(sent) => Start(sent[i + 1]) > next

(* When the decoder ends for want of input it has had every packet: the    *)
(* channel is drained before its closing is seen.                          *)
DrainsBeforeEnd == dpc # "run" /\ dec_ok => received = sent

(* An input in step from its first byte on, as an encoder's is over a link *)
(* that loses whole frames only, comes through as it is: packet i is its   *)
(* i-th PacketSize bytes, and a decoder that ends for want of input has    *)
(* had all of them, only an incomplete packet at the end is left over.     *)
InStep == \A p \in DOMAIN is_sync : (p - 1) % PacketSize = 0 => is_sync[p]

InStepComesThrough ==
  InStep =>
    /\ \A i \in DOMAIN sent : \A k \in 1..PacketSize :
         sent[i][k] = (i - 1) * PacketSize + k
    /\ dpc # "run" /\ dec_ok => Len(received) = Len(is_sync) \div PacketSize

(* The process ends after the input does, even with the channel full and   *)
(* nobody taking from it, and after run_decoder failed, as soon as one     *)
(* more packet comes.                                                      *)
ProcessEnds ==
  (stdin = "closed" \/ (dpc = "join" /\ FrameFound)) ~> dpc = "ended"
=============================================================================
