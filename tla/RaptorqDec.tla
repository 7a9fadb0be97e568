----------------------------- MODULE RaptorqDec -----------------------------
(***************************************************************************)
(* The block decoder of raptorq-dec (run_decoder): one thread that takes   *)
(* frames from the reader's channel, collects the symbols of the blocks    *)
(* they belong to in a pool, and writes the blocks to standard output in   *)
(* order, each decoded, best-effort (the source symbols that came) or as   *)
(* zeros.  Here any sequence of frames may come, so what holds here holds  *)
(* on every link; module LossyLink puts a sender and a link in front.      *)
(*                                                                         *)
(* A symbol's payload is the number of the block it was made from.  Time   *)
(* passes in ticks, and a block's age is followed up to the timeout.       *)
(***************************************************************************)
EXTENDS Integers, Sequences

CONSTANTS
  SbnMod,            \* source block numbers are taken modulo this: 256
  CcMod,             \* continuity counters are taken modulo this: 16
  SymbolSize,        \* SYMBOL_SIZE: bytes of a symbol on this wire
  MaxSourceSymbols,  \* MAX_SOURCE_SYMBOLS_PER_BLOCK: the largest legal K
  DefaultBlockSize,  \* DEFAULT_BLOCK_SIZE: bytes written for a zero block
  Otis,              \* what a frame's OTI field may say, garbage included
  Esis,              \* encoding symbol ids
  Symbols,           \* payloads
  MaxInFlight,       \* --max-blocks-in-flight
  Timeout,           \* --block-timeout-ms, in ticks
  MaxFrames          \* bound: the frames that come before the input closes

ASSUME DecAssumption ==
  /\ SbnMod \in Nat \ {0} /\ CcMod \in Nat \ {0}
  /\ SymbolSize \in Nat \ {0} /\ MaxSourceSymbols \in Nat
  /\ DefaultBlockSize \in Nat
  /\ Otis \subseteq [symbol_size : Nat, transfer_length : Nat]
  /\ Esis \subseteq Nat
  /\ MaxInFlight \in Nat \ {0}
  /\ Timeout \in Nat
  /\ MaxFrames \in Nat

VARIABLES
  pc,                \* where run_decoder is: "recv", "drain", "flush",
                     \* or how it ended: "done", "failed", "panicked"
  pool,              \* the blocks held, by logical block number
  cursor,            \* the next block to write
  highest_seen,      \* the newest block any frame was for
  started,           \* has a first frame fixed the cursor?
  last_cc,           \* continuity counter of the last frame, or None
  lost_packets,      \* frames missed, going by the continuity counter
  redundant_packets, \* frames dropped as being of a block already written
  out,               \* what was written: [blk, kind, len]
  received           \* frames taken so far (for MaxFrames only)

linkVars == <<last_cc, lost_packets>>
windowVars == <<cursor, highest_seen, started>>
vars == <<pc, pool, windowVars, linkVars, redundant_packets, out, received>>

None == -1

DataFrames == [cc : 0..CcMod - 1, oti : Otis, sbn : 0..SbnMod - 1,
               esi : Esis, symbol : Symbols]

-----------------------------------------------------------------------------
oti_is_sane(oti) ==
  /\ oti.symbol_size = SymbolSize
  /\ oti.transfer_length > 0
  /\ oti.transfer_length % SymbolSize = 0
  /\ oti.transfer_length \div SymbolSize <= MaxSourceSymbols

(* (slip: every number lies ahead)                                         *)
unwrap_sbn_forward(at, sbn) == at + ((sbn - at) % SbnMod)

(* (slip: the numbers are never taken to wrap)                             *)
unwrap_sbn_raw(at, sbn) == at - (at % SbnMod) + sbn

(* (slip: numbers behind the cursor are clamped to the cursor, not to zero) *)
unwrap_sbn_clamped(at, sbn) ==
  LET ahead == (sbn - at) % SbnMod
  IN  IF 2 * ahead < SbnMod THEN at + ahead ELSE at

(* The block meant by an 8-bit block number: the one nearest to the cursor *)
(* that has it, ahead or behind, and never below zero.                     *)
unwrap_sbn(at, sbn) ==
  LET ahead == (sbn - at) % SbnMod
      near == IF 2 * ahead < SbnMod THEN at + ahead ELSE at + ahead - SbnMod
  IN  IF near < 0 THEN 0 ELSE near

(* (slip: the number before the last frame's is expected again)            *)
cc_gap_repeated(last, cc) == IF last = None THEN 0 ELSE (cc - last) % CcMod

(* (slip: the difference is not masked)                                    *)
cc_gap_unmasked(last, cc) == IF last = None THEN 0 ELSE cc - (last + 1)

cc_gap(last, cc) == IF last = None THEN 0 ELSE (cc - (last + 1)) % CcMod

BlockStates == [sbn : 0..SbnMod - 1, k : Nat, block_size : Nat,
                symbols : SUBSET [esi : Esis, symbol : Symbols],
                completed : BOOLEAN, age : 0..Timeout]

NewBlockState(sbn, oti) ==
  [sbn |-> sbn, k |-> oti.transfer_length \div oti.symbol_size,
   block_size |-> oti.transfer_length,
   symbols |-> {}, completed |-> FALSE, age |-> 0]

(* The raptorq crate: what decoding k source symbols from these may yield. *)
(* With all source symbols it succeeds, with fewer than k symbols it       *)
(* cannot; with k or more that include repair it nearly always succeeds.   *)
DecodeOutcomes(k, symbols) ==
  LET esis == {s.esi : s \in symbols}
      Enough(n) == \E f \in [1..n -> esis] :
                     \A i, j \in 1..n : f[i] = f[j] => i = j
  IN  IF 0..k - 1 \subseteq esis THEN {TRUE}
      ELSE IF Enough(k) THEN BOOLEAN
      ELSE {FALSE}

(* The raptorq crate: decode asserts that a symbol carries the number the  *)
(* decoder was made for.  A block that is complete does not call it.       *)
DecodeAsserts(b, sbn) == b.completed \/ b.sbn = sbn

(* A symbol id that came before is kept as it first came, and a block that *)
(* is complete takes no more.                                              *)
ingest(b, esi, symbol) ==
  IF b.completed THEN {b}
  ELSE LET known == \E s \in b.symbols : s.esi = esi
           symbols == IF known THEN b.symbols
                      ELSE b.symbols \cup {[esi |-> esi, symbol |-> symbol]}
       IN  {[b EXCEPT !.symbols = symbols, !.completed = c] :
              c \in DecodeOutcomes(b.k, symbols)}

(* (slip: the block after it goes too)                                     *)
Without_both(n) == [m \in DOMAIN pool \ {n, n + 1} |-> pool[m]]

Without(n) == [m \in DOMAIN pool \ {n} |-> pool[m]]

(* (slip: room is made in the pool when a block comes, not by the drain)   *)
With_evict(n, b) ==
  [m \in {x \in DOMAIN pool : x > n - MaxInFlight} \cup {n} |->
     IF m = n THEN b ELSE pool[m]]

With(n, b) == [m \in DOMAIN pool \cup {n} |-> IF m = n THEN b ELSE pool[m]]

(* (slip: a missing block is passed over)                                  *)
Emitted_skip(blk, kind, len) ==
  IF kind = "zero" THEN out
  ELSE Append(out, [blk |-> blk, kind |-> kind, len |-> len])

Emitted(blk, kind, len) == Append(out, [blk |-> blk, kind |-> kind, len |-> len])

-----------------------------------------------------------------------------
Init ==
  /\ pc = "recv"
  /\ pool = [n \in {} |-> NewBlockState(0, CHOOSE oti \in Otis : TRUE)]
  /\ cursor = 0 /\ highest_seen = 0 /\ started = FALSE
  /\ last_cc = None
  /\ lost_packets = 0 /\ redundant_packets = 0
  /\ out = <<>>
  /\ received = 0

(* A frame of this continuity counter leaves the channel.                  *)
Receive(cc) ==
  /\ pc = "recv"
  /\ received < MaxFrames
  /\ received' = received + 1
  /\ lost_packets' = lost_packets + cc_gap(last_cc, cc)
  /\ last_cc' = cc

(* Garbage that passed for a data frame: on to the next frame at once.     *)
DropInsane(f) ==
  /\ Receive(f.cc)
  /\ ~oti_is_sane(f.oti)
  /\ UNCHANGED <<pc, pool, windowVars, redundant_packets, out>>

(* The first data frame fixes the cursor.                                  *)
CursorAt(f) == IF started THEN cursor ELSE f.sbn
Logical(f) == IF started THEN unwrap_sbn(cursor, f.sbn) ELSE f.sbn

(* A frame of a block before the cursor: on to the next frame at once.     *)
DropRedundant(f) ==
  /\ Receive(f.cc)
  /\ oti_is_sane(f.oti)
  /\ Logical(f) < CursorAt(f)
  /\ redundant_packets' = redundant_packets + 1
  /\ UNCHANGED <<pc, pool, windowVars, out>>

(* The block a frame is for: the one held, or a new one.                   *)
Entry(f) ==
  IF Logical(f) \in DOMAIN pool THEN pool[Logical(f)]
  ELSE NewBlockState(f.sbn, f.oti)

Accept(f) ==
  /\ Receive(f.cc)
  /\ oti_is_sane(f.oti)
  /\ Logical(f) >= CursorAt(f)
  /\ DecodeAsserts(Entry(f), f.sbn)
  /\ LET n == Logical(f)
         seen == IF started THEN highest_seen ELSE f.sbn
     IN  /\ started' = TRUE
         /\ cursor' = CursorAt(f)
         /\ highest_seen' = IF n > seen THEN n ELSE seen
         /\ \E b \in ingest(Entry(f), f.esi, f.symbol) : pool' = With(n, b)
  /\ pc' = "drain"
  /\ UNCHANGED <<redundant_packets, out>>

(* A symbol that decode refuses: run_decoder panics in the main thread,    *)
(* and with it the process ends; the blocks held are not written.          *)
Panic(f) ==
  /\ Receive(f.cc)
  /\ oti_is_sane(f.oti)
  /\ Logical(f) >= CursorAt(f)
  /\ ~DecodeAsserts(Entry(f), f.sbn)
  /\ pc' = "panicked"
  /\ UNCHANGED <<pool, windowVars, redundant_packets, out>>

RecvNoop(cc) ==
  /\ Receive(cc)
  /\ pc' = "drain"
  /\ UNCHANGED <<pool, windowVars, redundant_packets, out>>

(* A frame parse_packet refuses; its continuity counter stays unread.      *)
RecvUnparseable ==
  /\ pc = "recv"
  /\ received < MaxFrames
  /\ received' = received + 1
  /\ pc' = "drain"
  /\ UNCHANGED <<pool, windowVars, linkVars, redundant_packets, out>>

(* (slip: a timeout goes back to the channel without draining)             *)
PollTimeout_undrained == pc = "recv" /\ UNCHANGED vars

(* No frame for 20 ms.                                                     *)
PollTimeout ==
  /\ pc = "recv"
  /\ pc' = "drain"
  /\ UNCHANGED <<pool, windowVars, linkVars, redundant_packets, out, received>>

(* The reader is gone and the channel empty.                               *)
Disconnect ==
  /\ pc = "recv"
  /\ pc' = "flush"
  /\ UNCHANGED <<pool, windowVars, linkVars, redundant_packets, out, received>>

-----------------------------------------------------------------------------
(* (slip: any block held forces the head out)                              *)
should_force_soon == \E n \in DOMAIN pool : n >= cursor

(* (slip: one block too many is held)                                      *)
should_force_late == \E n \in DOMAIN pool : n > cursor + MaxInFlight

should_force == \E n \in DOMAIN pool : n >= cursor + MaxInFlight
HeadHeld == cursor \in DOMAIN pool
HeadReady == HeadHeld /\ pool[cursor].completed
HeadOverdue == HeadHeld /\ pool[cursor].age >= Timeout
HeadForced == HeadHeld /\ should_force

(* (slip: one block too few is waited for)                                 *)
NewestFarAhead_early == highest_seen >= cursor + MaxInFlight - 1

NewestFarAhead == highest_seen >= cursor + MaxInFlight
HeadMissing == ~HeadHeld /\ started /\ (should_force \/ NewestFarAhead)

Emit(kind, len) ==
  /\ pc = "drain"
  /\ out' = Emitted(cursor, kind, len)
  /\ pool' = Without(cursor)
  /\ cursor' = cursor + 1
  /\ UNCHANGED <<pc, highest_seen, started, linkVars, redundant_packets, received>>

EmitDecoded == HeadReady /\ Emit("decoded", pool[cursor].block_size)

EmitBestEffort ==
  /\ ~HeadReady
  /\ HeadOverdue \/ HeadForced
  /\ Emit("besteffort", pool[cursor].block_size)

EmitZero == HeadMissing /\ Emit("zero", DefaultBlockSize)

(* (slip: a block that is ready is left for the next frame to release)     *)
NothingToWrite_blind == ~HeadOverdue /\ ~HeadForced /\ ~HeadMissing

NothingToWrite == ~HeadReady /\ ~HeadOverdue /\ ~HeadForced /\ ~HeadMissing

(* The loop breaks: flush standard output, take the next frame.            *)
DrainDone ==
  /\ pc = "drain"
  /\ NothingToWrite
  /\ pc' = "recv"
  /\ UNCHANGED <<pool, windowVars, linkVars, redundant_packets, out, received>>

(* (slip: the flush waits for blocks to be complete)                       *)
FirstHeld_complete(n) == pool[n].completed /\ \A m \in DOMAIN pool : n <= m

FirstHeld(n) == \A m \in DOMAIN pool : n <= m

(* flush_remaining: the blocks still held, in order, whatever is between.  *)
FlushNext ==
  /\ pc = "flush"
  /\ \E n \in DOMAIN pool :
       /\ FirstHeld(n)
       /\ out' = Emitted(n, IF pool[n].completed THEN "decoded" ELSE "besteffort",
                         pool[n].block_size)
       /\ pool' = Without(n)
       /\ cursor' = n + 1
  /\ UNCHANGED <<pc, highest_seen, started, linkVars, redundant_packets, received>>

FlushDone ==
  /\ pc = "flush"
  /\ DOMAIN pool = {}
  /\ pc' = "done"
  /\ UNCHANGED <<pool, windowVars, linkVars, redundant_packets, out, received>>

(* Standard output fails at a write or a flush, and run_decoder returns    *)
(* the error; what part of the block was written is not followed.          *)
StdoutError ==
  /\ pc \in {"drain", "flush"}
  /\ pc' = "failed"
  /\ UNCHANGED <<pool, windowVars, linkVars, redundant_packets, out, received>>

Ended == pc \in {"done", "failed", "panicked"}

(* Time passes for every block held (Instant::elapsed).                    *)
Tick ==
  /\ ~Ended
  /\ \E n \in DOMAIN pool : pool[n].age < Timeout
  /\ pool' = [n \in DOMAIN pool |->
                [pool[n] EXCEPT !.age = IF @ < Timeout THEN @ + 1 ELSE @]]
  /\ UNCHANGED <<pc, windowVars, linkVars, redundant_packets, out, received>>

-----------------------------------------------------------------------------
Drain == EmitDecoded \/ EmitBestEffort \/ EmitZero \/ DrainDone
Flush == FlushNext \/ FlushDone

Next ==
  \/ \E f \in DataFrames :
       DropInsane(f) \/ DropRedundant(f) \/ Accept(f) \/ Panic(f)
  \/ \E cc \in 0..CcMod - 1 : RecvNoop(cc)
  \/ RecvUnparseable
  \/ PollTimeout
  \/ Disconnect
  \/ Drain
  \/ Flush
  \/ StdoutError
  \/ Tick

Spec == Init /\ [][Next]_vars

(* The loop never rests, its receive included (recv_timeout), and time     *)
(* passes; that frames come, that the input closes or that standard output *)
(* fails is never assumed.                                                 *)
Fairness ==
  /\ WF_vars(PollTimeout) /\ WF_vars(Drain) /\ WF_vars(Flush)
  /\ WF_vars(Tick)

FairSpec == Spec /\ Fairness

-----------------------------------------------------------------------------
(* Every variable has its type.                                            *)
TypeOK ==
  /\ pc \in {"recv", "drain", "flush", "done", "failed", "panicked"}
  /\ DOMAIN pool \subseteq Nat
  /\ pool \in [DOMAIN pool -> BlockStates]
  /\ cursor \in Nat /\ highest_seen \in Nat /\ started \in BOOLEAN
  /\ last_cc \in {None} \cup 0..CcMod - 1
  /\ lost_packets \in Nat /\ redundant_packets \in Nat
  /\ out \in Seq([blk : Nat, kind : {"decoded", "besteffort", "zero"}, len : Nat])
  /\ received \in 0..MaxFrames

(* What is held stays within --max-blocks-in-flight of the cursor whenever *)
(* the decoder waits for a frame: however far ahead one frame jumps, the   *)
(* drain loop (main.rs:372-431) brings the cursor within reach of it       *)
(* before the next frame is taken, so memory is bounded.                   *)
PoolWindow ==
  pc = "recv" => DOMAIN pool \subseteq cursor..cursor + MaxInFlight - 1

(* A block that is complete and next in order is never left waiting for    *)
(* another frame to come, though two paths of the loop (main.rs:315, 331)  *)
(* go back to the channel without draining.                                *)
NothingReadyWaits == pc = "recv" => ~HeadReady

(* No frame, garbled ones included, moves the decoder half the block       *)
(* numbers or more beyond the cursor (unwrap_sbn, main.rs:250): that is    *)
(* the most one bad number can cost, and a --max-blocks-in-flight past it  *)
(* never has anything forced out or written as zeros.                      *)
NewestInReach == started => 2 * (highest_seen - cursor) < SbnMod

(* Blocks leave the pool only by being written, and none is written over:  *)
(* a step that forgets a block writes that very block.                     *)
NoSilentDrop ==
  [][\A n \in DOMAIN pool \ DOMAIN pool' :
       /\ Len(out') = Len(out) + 1
       /\ out'[Len(out')].blk = n]_vars

(* Zeros are written only to make room: some block at least                *)
(* max_blocks_in_flight ahead is really held at that moment, so the second *)
(* alternative of the guard (main.rs:421), highest_seen, which outlives    *)
(* the blocks it counted, never writes zeros on its own.                   *)
ZeroOnlyMakesRoom ==
  [][(out' # out /\ out'[Len(out')].kind = "zero") => should_force]_vars

(* The bytes written are an ordered, gapless stream of blocks until the    *)
(* input closes, and an ordered one after: run_decoder implements          *)
(* BlockStream.                                                            *)
Phase ==
  CASE pc = "flush" -> "closing"
    [] Ended -> "ended"
    [] OTHER -> IF started THEN "live" ELSE "idle"

BlockLengths ==
  {DefaultBlockSize} \cup {o.transfer_length : o \in {p \in Otis : oti_is_sane(p)}}

Stream == INSTANCE BlockStream
            WITH written <- out, next <- cursor, phase <- Phase,
                 FirstBlocks <- 0..SbnMod - 1, Lengths <- BlockLengths

StreamSpec == Stream!Spec

(* The next block in order, once any symbol of it has come, is written or  *)
(* the program ends: by the timeout if by nothing else (main.rs:394), even *)
(* when no further frame ever comes.  (A block that is held stays so until *)
(* the cursor passes it, so either no block is at the head ever again and  *)
(* again, or the cursor moves on again and again.)                         *)
HeadLeaves ==
  \/ []<>(~HeadHeld \/ Ended)
  \/ []<><<cursor' # cursor>>_vars

(* Once the input has closed, the program writes out what it holds and     *)
(* ends.                                                                   *)
FlushEnds == pc = "flush" ~> pc \in {"done", "failed"}

-----------------------------------------------------------------------------
(* Said of the program and not kept by it; each is checked to be violated. *)

(* src/raptorq/README.md:23: "Blocks that exceed the timeout are emitted   *)
(* best-effort (partial source symbols) or as zeros if nothing arrived."   *)
(* When the decoder goes back to wait, no block it holds is overdue.       *)
OverdueIsEmitted ==
  [][DrainDone => \A n \in DOMAIN pool : pool[n].age < Timeout]_vars

(* src/raptorq/README.md:106: the decoder reads the block size from the    *)
(* OTI of every packet.  A block written as zeros is as long as its        *)
(* neighbours when all blocks of the stream have one size.                 *)
ZeroBlockIsBlockSized ==
  \A i \in 1..Len(out) - 1 : out[i].len = out[i + 1].len
=============================================================================
