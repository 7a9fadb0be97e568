-------------------------- MODULE RaptorqDec_proofs --------------------------
(***************************************************************************)
(* Proofs about the block decoder, for every value of its constants: every *)
(* window, timeout, modulus and sequence of frames.                        *)
(*                                                                         *)
(* The invariant says, besides the types, that what is held lies at or     *)
(* after the cursor, that the newest block heard of is held or already     *)
(* written, and what a finished drain loop leaves behind.                  *)
(***************************************************************************)
EXTENDS RaptorqDec, FiniteSetTheorems, TLAPS

OutBlocks == [blk : Nat, kind : {"decoded", "besteffort", "zero"}, len : Nat]

-----------------------------------------------------------------------------
(* Remainders by a positive number are natural numbers below it.           *)
LEMMA ModRange ==
  ASSUME NEW a \in Int, NEW m \in Nat \ {0}
  PROVE  a % m \in 0..m - 1
BY SMT

(* unwrap_sbn (main.rs:250) always names a block.                          *)
LEMMA UnwrapNat ==
  ASSUME NEW at \in Nat, NEW sbn \in Nat
  PROVE  unwrap_sbn(at, sbn) \in Nat
<1>1. (sbn - at) % SbnMod \in 0..SbnMod - 1
  BY ModRange, DecAssumption
<1>. DEFINE ahead == (sbn - at) % SbnMod
<1>. HIDE DEF ahead
<1>2. ahead \in Int
  BY <1>1, DecAssumption DEF ahead
<1>3. QED
  BY <1>2, DecAssumption DEF unwrap_sbn, ahead

(* ... and one less than half the block numbers ahead.                     *)
LEMMA UnwrapReach ==
  ASSUME NEW at \in Nat, NEW sbn \in Nat
  PROVE  2 * (unwrap_sbn(at, sbn) - at) < SbnMod
<1>1. (sbn - at) % SbnMod \in 0..SbnMod - 1
  BY ModRange, DecAssumption
<1>. DEFINE ahead == (sbn - at) % SbnMod
            near == IF 2 * ahead < SbnMod THEN at + ahead ELSE at + ahead - SbnMod
<1>2. unwrap_sbn(at, sbn) = IF near < 0 THEN 0 ELSE near
  BY DEF unwrap_sbn
<1>. HIDE DEF ahead
<1>3. ahead \in Nat /\ ahead < SbnMod
  BY <1>1, DecAssumption DEF ahead
<1>4. near \in Int /\ 2 * (near - at) < SbnMod
  BY <1>3, DecAssumption
<1>. HIDE DEF near
<1>5. CASE near < 0
  BY <1>2, <1>5, DecAssumption
<1>6. CASE ~(near < 0)
  BY <1>2, <1>4, <1>6
<1>. QED
  BY <1>5, <1>6

(* cc_gap (main.rs:261) never counts backwards.                            *)
LEMMA GapNat ==
  ASSUME NEW last \in {None} \cup 0..CcMod - 1, NEW cc \in 0..CcMod - 1
  PROVE  cc_gap(last, cc) \in Nat
<1>1. CASE last = None
  BY <1>1 DEF cc_gap
<1>2. CASE last # None
  <2>. DEFINE apart == cc - (last + 1)
  <2>1. apart \in Int
    BY <1>2, DecAssumption DEF None
  <2>. HIDE DEF apart
  <2>2. apart % CcMod \in 0..CcMod - 1
    BY <2>1, ModRange, DecAssumption
  <2>. QED
    BY <1>2, <2>2, DecAssumption DEF cc_gap, apart
<1>. QED
  BY <1>1, <1>2

(* A sane OTI (main.rs:54) makes a well-formed block.                      *)
LEMMA NewBlockStateType ==
  ASSUME NEW sbn \in 0..SbnMod - 1, NEW oti \in Otis, oti_is_sane(oti)
  PROVE  NewBlockState(sbn, oti) \in BlockStates
<1>1. oti \in [symbol_size : Nat, transfer_length : Nat]
  BY DecAssumption
<1>2. oti.transfer_length \div oti.symbol_size \in Nat
  BY <1>1, DecAssumption DEF oti_is_sane
<1>. QED
  BY <1>1, <1>2, DecAssumption DEF NewBlockState, BlockStates

(* ingest (main.rs:156) keeps a block well-formed.                         *)
LEMMA IngestType ==
  ASSUME NEW b \in BlockStates, NEW e \in Esis, NEW s \in Symbols,
         NEW c \in ingest(b, e, s)
  PROVE  c \in BlockStates
<1>1. CASE b.completed
  BY <1>1 DEF ingest
<1>2. CASE ~b.completed
  <2>. DEFINE known == \E x \in b.symbols : x.esi = e
              symbols == IF known THEN b.symbols
                         ELSE b.symbols \cup {[esi |-> e, symbol |-> s]}
  <2>1. symbols \in SUBSET [esi : Esis, symbol : Symbols]
    BY DEF BlockStates
  <2>2. DecodeOutcomes(b.k, symbols) \subseteq BOOLEAN
    BY DEF DecodeOutcomes
  <2>. HIDE DEF symbols
  <2>3. PICK d \in DecodeOutcomes(b.k, symbols) :
          c = [b EXCEPT !.symbols = symbols, !.completed = d]
    BY <1>2 DEF ingest, symbols
  <2>. QED
    BY <2>1, <2>2, <2>3 DEF BlockStates
<1>. QED
  BY <1>1, <1>2

-----------------------------------------------------------------------------
(* Before the first data frame nothing is held.                            *)
IdleIsEmpty == ~started => DOMAIN pool = {}

(* Blocks before the cursor are written, so they are not held.             *)
HeldAhead == \A n \in DOMAIN pool : cursor <= n

(* The newest block heard of is held until the cursor passes it.           *)
NewestIsHeld ==
  /\ \A n \in DOMAIN pool : n <= highest_seen
  /\ started => (highest_seen \in DOMAIN pool \/ highest_seen < cursor)

(* The blocks held have the length of a sane OTI.                          *)
HeldLengths == \A n \in DOMAIN pool : pool[n].block_size \in BlockLengths

IInv ==
  /\ TypeOK
  /\ IdleIsEmpty /\ HeldAhead /\ NewestIsHeld /\ HeldLengths
  /\ PoolWindow /\ NothingReadyWaits /\ NewestInReach

(* The invariant holds before the first frame.                             *)
LEMMA InitIInv == Init => IInv
<1>. SUFFICES ASSUME Init PROVE IInv
  OBVIOUS
<1>1. pool = [n \in {} |-> NewBlockState(0, CHOOSE oti \in Otis : TRUE)] /\ DOMAIN pool = {}
  BY DEF Init
<1>2. TypeOK
  <2>1. pool \in [DOMAIN pool -> BlockStates] /\ DOMAIN pool \subseteq Nat
    BY <1>1
  <2>2. out \in Seq(OutBlocks)
    BY DEF Init
  <2>3. pc \in {"recv", "drain", "flush", "done", "failed", "panicked"}
    BY DEF Init
  <2>4. cursor \in Nat /\ highest_seen \in Nat /\ started \in BOOLEAN
    BY DEF Init
  <2>5. last_cc \in {None} \cup 0..CcMod - 1
    BY DEF Init
  <2>6. lost_packets \in Nat /\ redundant_packets \in Nat /\ received \in 0..MaxFrames
    BY DecAssumption DEF Init
  <2>. QED
    BY <2>1, <2>2, <2>3, <2>4, <2>5, <2>6 DEF TypeOK, OutBlocks
<1>3. IdleIsEmpty /\ HeldAhead /\ HeldLengths
  BY <1>1 DEF Init, IdleIsEmpty, HeldAhead, HeldLengths
<1>4. NewestIsHeld
  BY <1>1 DEF Init, NewestIsHeld
<1>5. PoolWindow /\ NothingReadyWaits
  BY <1>1 DEF Init, PoolWindow, NothingReadyWaits, HeadReady, HeadHeld
<1>6. NewestInReach
  BY DEF Init, NewestInReach
<1>. QED
  BY <1>2, <1>3, <1>4, <1>5, <1>6 DEF IInv

(* Reading a continuity counter keeps the counts well-typed.               *)
LEMMA ReceiveType ==
  ASSUME TypeOK, NEW cc \in 0..CcMod - 1, Receive(cc)
  PROVE  /\ lost_packets' \in Nat
         /\ last_cc' \in {None} \cup 0..CcMod - 1
         /\ received' \in 0..MaxFrames
<1>. DEFINE gap == cc_gap(last_cc, cc)
<1>1. gap \in Nat
  BY GapNat DEF TypeOK
<1>2. /\ lost_packets' = lost_packets + gap /\ last_cc' = cc
      /\ received' = received + 1 /\ received < MaxFrames
  BY DEF Receive
<1>. HIDE DEF gap
<1>3. lost_packets \in Nat /\ received \in 0..MaxFrames
  BY DEF TypeOK
<1>4. lost_packets' \in Nat
  BY <1>1, <1>2, <1>3
<1>5. received' \in 0..MaxFrames
  BY <1>2, <1>3, DecAssumption
<1>. QED
  BY <1>2, <1>4, <1>5

(* Steps that leave the pool, the window and the output alone keep the     *)
(* invariant unless they go back to the channel; DrainDone is the only one *)
(* that does, see below.                                                   *)
LEMMA QuietStep ==
  ASSUME IInv, UNCHANGED <<pool, windowVars>>, TypeOK',
         pc' = "recv" => pc = "recv"
  PROVE  IInv'
<1>1. pool' = pool /\ cursor' = cursor /\ highest_seen' = highest_seen
      /\ started' = started
  BY DEF windowVars
<1>2. (IdleIsEmpty /\ HeldAhead /\ NewestIsHeld /\ HeldLengths)'
  BY <1>1 DEF IInv, IdleIsEmpty, HeldAhead, NewestIsHeld, HeldLengths, BlockLengths
<1>3. PoolWindow'
  BY <1>1 DEF IInv, PoolWindow
<1>4. NothingReadyWaits'
  BY <1>1 DEF IInv, NothingReadyWaits, HeadReady, HeadHeld
<1>5. NewestInReach'
  BY <1>1 DEF IInv, NewestInReach
<1>. QED
  BY <1>2, <1>3, <1>4, <1>5 DEF IInv

(* Frames that are dropped, and noops.                                     *)
LEMMA DropInsaneStep ==
  ASSUME IInv, NEW f \in DataFrames, DropInsane(f)
  PROVE  IInv'
<1>1. f.cc \in 0..CcMod - 1
  BY DEF DataFrames
<1>2. TypeOK'
  BY <1>1, ReceiveType DEF IInv, DropInsane, TypeOK, windowVars
<1>. QED
  BY <1>2, QuietStep DEF DropInsane

LEMMA DropRedundantStep ==
  ASSUME IInv, NEW f \in DataFrames, DropRedundant(f)
  PROVE  IInv'
<1>1. f.cc \in 0..CcMod - 1
  BY DEF DataFrames
<1>2. TypeOK'
  BY <1>1, ReceiveType DEF IInv, DropRedundant, TypeOK, windowVars
<1>. QED
  BY <1>2, QuietStep DEF DropRedundant

LEMMA PanicStep ==
  ASSUME IInv, NEW f \in DataFrames, Panic(f)
  PROVE  IInv'
<1>1. f.cc \in 0..CcMod - 1
  BY DEF DataFrames
<1>2. TypeOK'
  BY <1>1, ReceiveType DEF IInv, Panic, TypeOK, windowVars
<1>. QED
  BY <1>2, QuietStep DEF Panic

LEMMA RecvNoopStep ==
  ASSUME IInv, NEW cc \in 0..CcMod - 1, RecvNoop(cc)
  PROVE  IInv'
<1>2. TypeOK'
  BY ReceiveType DEF IInv, RecvNoop, TypeOK, windowVars
<1>. QED
  BY <1>2, QuietStep DEF RecvNoop

LEMMA RecvUnparseableStep ==
  ASSUME IInv, RecvUnparseable
  PROVE  IInv'
<1>2. TypeOK'
  BY SMTT(60), DecAssumption
     DEF IInv, RecvUnparseable, TypeOK, windowVars, linkVars
<1>. QED
  BY <1>2, QuietStep DEF RecvUnparseable

(* Steps that only move the program on.                                    *)
LEMMA MoveStep ==
  ASSUME IInv, PollTimeout \/ Disconnect \/ FlushDone \/ StdoutError
  PROVE  IInv'
<1>1. UNCHANGED <<pool, windowVars, linkVars, redundant_packets, out, received>>
      /\ pc' \in {"drain", "flush", "done", "failed"}
  BY DEF PollTimeout, Disconnect, FlushDone, StdoutError
<1>2. TypeOK'
  BY <1>1 DEF IInv, TypeOK, windowVars, linkVars
<1>. QED
  BY <1>1, <1>2, QuietStep

(* An accepted frame: the join, or a block at or after the cursor.         *)
LEMMA AcceptStep ==
  ASSUME IInv, NEW f \in DataFrames, Accept(f)
  PROVE  IInv'
<1>. DEFINE n == Logical(f)
            seen == IF started THEN highest_seen ELSE f.sbn
            entry == Entry(f)
<1>1. /\ f.cc \in 0..CcMod - 1 /\ f.sbn \in 0..SbnMod - 1 /\ f.sbn \in Nat
      /\ f.oti \in Otis
      /\ f.esi \in Esis /\ f.symbol \in Symbols
  BY DecAssumption DEF DataFrames
<1>2. n \in Nat /\ CursorAt(f) \in Nat /\ seen \in Nat
  BY <1>1, UnwrapNat DEF Logical, CursorAt, IInv, TypeOK
<1>3. n >= CursorAt(f) /\ oti_is_sane(f.oti) /\ Receive(f.cc)
  BY DEF Accept
<1>4. entry \in BlockStates
  BY <1>1, <1>3, NewBlockStateType DEF Entry, IInv, TypeOK
<1>. HIDE DEF n, seen, entry
<1>5. PICK b \in ingest(entry, f.esi, f.symbol) : pool' = With(n, b)
  BY DEF Accept, n, entry, seen
<1>6. /\ started' = TRUE /\ cursor' = CursorAt(f)
      /\ highest_seen' = (IF n > seen THEN n ELSE seen)
      /\ pc' = "drain" /\ UNCHANGED <<redundant_packets, out>>
  BY DEF Accept, n, seen
<1>7. b \in BlockStates
  BY <1>1, <1>4, IngestType
<1>8. /\ DOMAIN pool' = DOMAIN pool \cup {n}
      /\ \A m \in DOMAIN pool' : pool'[m] = IF m = n THEN b ELSE pool[m]
      /\ pool' = [m \in DOMAIN pool' |-> IF m = n THEN b ELSE pool[m]]
  BY <1>5 DEF With
<1>9. TypeOK'
  <2>1. pool' \in [DOMAIN pool' -> BlockStates] /\ DOMAIN pool' \subseteq Nat
    BY <1>2, <1>7, <1>8 DEF IInv, TypeOK
  <2>. QED
    BY <1>1, <1>2, <1>3, <1>6, <2>1, ReceiveType DEF IInv, TypeOK
<1>10. IdleIsEmpty'
  BY <1>6 DEF IdleIsEmpty
<1>11. HeldAhead'
  <2>1. CASE started
    BY <2>1, <1>2, <1>3, <1>6, <1>8 DEF IInv, TypeOK, HeldAhead, CursorAt
  <2>2. CASE ~started
    BY <2>2, <1>2, <1>3, <1>6, <1>8 DEF IInv, IdleIsEmpty, HeldAhead
  <2>. QED
    BY <2>1, <2>2
<1>12. NewestIsHeld'
  <2>1. CASE started
    <3>1. seen = highest_seen /\ cursor' = cursor
      BY <2>1, <1>6 DEF seen, CursorAt
    <3>. QED
      BY <2>1, <3>1, <1>2, <1>6, <1>8 DEF IInv, TypeOK, NewestIsHeld
  <2>2. CASE ~started
    <3>1. seen = n
      BY <2>2 DEF seen, n, Logical
    <3>. QED
      BY <2>2, <3>1, <1>2, <1>6, <1>8 DEF IInv, IdleIsEmpty, NewestIsHeld
  <2>. QED
    BY <2>1, <2>2
<1>13. HeldLengths'
  <2>1. entry.block_size \in BlockLengths
    <3>1. CASE n \in DOMAIN pool
      BY <3>1 DEF IInv, HeldLengths, entry, Entry, n
    <3>2. CASE n \notin DOMAIN pool
      <4>1. entry.block_size = f.oti.transfer_length
        BY <3>2 DEF entry, Entry, n, NewBlockState
      <4>. QED
        BY <4>1, <1>1, <1>3 DEF BlockLengths
    <3>. QED
      BY <3>1, <3>2
  <2>2. b.block_size = entry.block_size
    BY <1>4 DEF ingest, BlockStates
  <2>. QED
    BY <1>8, <2>1, <2>2 DEF IInv, HeldLengths, BlockLengths
<1>14. PoolWindow' /\ NothingReadyWaits'
  BY <1>6 DEF PoolWindow, NothingReadyWaits
<1>15. NewestInReach'
  <2>1. CASE started
    <3>1. seen = highest_seen /\ cursor' = cursor
      BY <2>1, <1>6 DEF seen, CursorAt
    <3>2. 2 * (n - cursor) < SbnMod
      BY <2>1, <1>1, UnwrapReach DEF n, Logical, IInv, TypeOK
    <3>3. 2 * (highest_seen - cursor) < SbnMod
      BY <2>1 DEF IInv, NewestInReach
    <3>4. highest_seen' = n \/ highest_seen' = highest_seen
      BY <1>6, <3>1
    <3>. QED
      BY <3>1, <3>2, <3>3, <3>4 DEF NewestInReach
  <2>2. CASE ~started
    <3>1. highest_seen' = f.sbn /\ cursor' = f.sbn
      BY <2>2, <1>6 DEF seen, n, Logical, CursorAt
    <3>. QED
      BY <3>1, <1>1, DecAssumption DEF NewestInReach
  <2>. QED
    BY <2>1, <2>2
<1>. QED
  BY <1>9, <1>10, <1>11, <1>12, <1>13, <1>14, <1>15 DEF IInv

(* Time passing changes ages only.                                         *)
LEMMA TickStep ==
  ASSUME IInv, Tick
  PROVE  IInv'
<1>1. /\ DOMAIN pool' = DOMAIN pool
      /\ UNCHANGED <<pc, windowVars, linkVars, redundant_packets, out, received>>
  BY DEF Tick
<1>2. \A n \in DOMAIN pool : /\ pool'[n] \in BlockStates
                             /\ pool'[n].completed = pool[n].completed
                             /\ pool'[n].block_size = pool[n].block_size
  <2>. SUFFICES ASSUME NEW n \in DOMAIN pool
                PROVE  /\ pool'[n] \in BlockStates
                       /\ pool'[n].completed = pool[n].completed
                       /\ pool'[n].block_size = pool[n].block_size
    OBVIOUS
  <2>. DEFINE b == pool[n]
              age == IF b.age < Timeout THEN b.age + 1 ELSE b.age
  <2>1. b \in BlockStates
    BY DEF IInv, TypeOK
  <2>2. age \in 0..Timeout
    BY <2>1, DecAssumption DEF BlockStates
  <2>. HIDE DEF age
  <2>3. pool'[n] = [b EXCEPT !.age = age]
    BY DEF Tick, age
  <2>. QED
    BY <2>1, <2>2, <2>3 DEF BlockStates
<1>3. pool' \in [DOMAIN pool' -> BlockStates]
  BY <1>1, <1>2 DEF Tick
<1>4. TypeOK'
  BY <1>1, <1>3 DEF IInv, TypeOK, windowVars, linkVars
<1>5. (IdleIsEmpty /\ HeldAhead /\ NewestIsHeld /\ NewestInReach)'
  BY <1>1 DEF IInv, IdleIsEmpty, HeldAhead, NewestIsHeld, NewestInReach, windowVars
<1>6. HeldLengths'
  BY <1>1, <1>2 DEF IInv, HeldLengths, BlockLengths
<1>7. PoolWindow' /\ NothingReadyWaits'
  BY <1>1, <1>2 DEF IInv, PoolWindow, NothingReadyWaits, HeadReady, HeadHeld,
                    windowVars
<1>. QED
  BY <1>4, <1>5, <1>6, <1>7 DEF IInv

(* A block written by the drain loop: the cursor passes it.                *)
LEMMA EmitStep ==
  ASSUME IInv, Drain, ~DrainDone
  PROVE  IInv'
<1>1. PICK kind \in {"decoded", "besteffort", "zero"}, len \in Nat :
        Emit(kind, len) /\ started
  <2>1. CASE EmitDecoded
    BY <2>1 DEF EmitDecoded, HeadReady, HeadHeld, IInv, TypeOK, IdleIsEmpty,
                BlockStates
  <2>2. CASE EmitBestEffort
    BY <2>2 DEF EmitBestEffort, HeadOverdue, HeadForced, HeadHeld, IInv,
                TypeOK, IdleIsEmpty, BlockStates
  <2>3. CASE EmitZero
    BY <2>3, DecAssumption DEF EmitZero, HeadMissing
  <2>. QED
    BY <2>1, <2>2, <2>3 DEF Drain
<1>2. /\ pc = "drain" /\ pc' = "drain" /\ cursor' = cursor + 1
      /\ highest_seen' = highest_seen /\ started' = started
      /\ UNCHANGED <<linkVars, redundant_packets, received>>
      /\ DOMAIN pool' = DOMAIN pool \ {cursor}
      /\ pool' = [m \in DOMAIN pool' |-> pool[m]]
      /\ \A m \in DOMAIN pool' : pool'[m] = pool[m]
      /\ out' = Append(out, [blk |-> cursor, kind |-> kind, len |-> len])
  BY <1>1 DEF Emit, Without, Emitted
<1>3. TypeOK'
  <2>1. pool' \in [DOMAIN pool' -> BlockStates] /\ DOMAIN pool' \subseteq Nat
    BY <1>2 DEF IInv, TypeOK
  <2>2. out' \in Seq(OutBlocks)
    BY <1>2 DEF IInv, TypeOK, OutBlocks
  <2>. QED
    BY <1>2, <2>1, <2>2 DEF IInv, TypeOK, linkVars, OutBlocks
<1>4. IdleIsEmpty' /\ HeldLengths'
  BY <1>1, <1>2 DEF IInv, IdleIsEmpty, HeldLengths, BlockLengths
<1>5. HeldAhead'
  BY <1>2 DEF IInv, TypeOK, HeldAhead
<1>6. NewestIsHeld'
  BY <1>2 DEF IInv, TypeOK, NewestIsHeld
<1>7. PoolWindow' /\ NothingReadyWaits'
  BY <1>2 DEF PoolWindow, NothingReadyWaits
<1>8. NewestInReach'
  <2>1. cursor \in Nat /\ highest_seen \in Nat
    BY DEF IInv, TypeOK
  <2>. QED
    BY SMTT(30), <1>2, <2>1, DecAssumption DEF IInv, NewestInReach
<1>. QED
  BY <1>3, <1>4, <1>5, <1>6, <1>7, <1>8 DEF IInv

(* The drain loop ends only when nothing at the cursor can be written and  *)
(* nothing held forces it out: what it leaves is within the window.        *)
LEMMA DrainDoneStep ==
  ASSUME IInv, DrainDone
  PROVE  IInv'
<1>1. UNCHANGED <<pool, windowVars, linkVars, redundant_packets, out, received>>
      /\ pc' = "recv"
  BY DEF DrainDone
<1>2. pool' = pool /\ cursor' = cursor /\ highest_seen' = highest_seen
      /\ started' = started
  BY <1>1 DEF windowVars
<1>3. TypeOK'
  BY <1>1 DEF IInv, TypeOK, windowVars, linkVars
<1>4. (IdleIsEmpty /\ HeldAhead /\ NewestIsHeld /\ HeldLengths /\ NewestInReach)'
  BY <1>2 DEF IInv, IdleIsEmpty, HeldAhead, NewestIsHeld, HeldLengths, BlockLengths,
              NewestInReach
<1>5. ~should_force
  <2>1. CASE started
    BY <2>1 DEF DrainDone, NothingToWrite, HeadForced, HeadMissing
  <2>2. CASE ~started
    BY <2>2 DEF IInv, IdleIsEmpty, should_force
  <2>. QED
    BY <2>1, <2>2
<1>6. PoolWindow'
  <2>1. \A n \in DOMAIN pool : n \in Nat /\ n < cursor + MaxInFlight /\ cursor <= n
    BY SMTT(30), <1>5, DecAssumption DEF IInv, TypeOK, should_force, HeldAhead
  <2>. QED
    BY SMTT(60), <1>2, <2>1, DecAssumption DEF IInv, TypeOK, PoolWindow
<1>7. NothingReadyWaits'
  BY <1>2 DEF DrainDone, NothingToWrite, NothingReadyWaits, HeadReady, HeadHeld
<1>. QED
  BY <1>3, <1>4, <1>6, <1>7 DEF IInv

(* A block flushed at the end: the cursor passes it.                       *)
LEMMA FlushNextStep ==
  ASSUME IInv, FlushNext
  PROVE  IInv'
<1>1. PICK n \in DOMAIN pool :
        /\ FirstHeld(n)
        /\ out' = Emitted(n, IF pool[n].completed THEN "decoded" ELSE "besteffort",
                          pool[n].block_size)
        /\ pool' = Without(n)
        /\ cursor' = n + 1
  BY DEF FlushNext
<1>2. /\ pc' = "flush" /\ highest_seen' = highest_seen /\ started' = started
      /\ UNCHANGED <<linkVars, redundant_packets, received>>
      /\ DOMAIN pool' = DOMAIN pool \ {n}
      /\ pool' = [m \in DOMAIN pool' |-> pool[m]]
      /\ \A m \in DOMAIN pool' : pool'[m] = pool[m]
  BY <1>1 DEF FlushNext, Without
<1>3. n \in Nat /\ pool[n].block_size \in Nat /\ \A m \in DOMAIN pool : n <= m
  BY <1>1 DEF IInv, TypeOK, BlockStates, FirstHeld
<1>4. TypeOK'
  <2>1. pool' \in [DOMAIN pool' -> BlockStates] /\ DOMAIN pool' \subseteq Nat
    BY <1>2 DEF IInv, TypeOK
  <2>2. out' \in Seq(OutBlocks)
    BY <1>1, <1>3 DEF IInv, TypeOK, OutBlocks, Emitted
  <2>3. cursor' \in Nat
    BY <1>1, <1>3
  <2>. QED
    BY <1>2, <2>1, <2>2, <2>3 DEF IInv, TypeOK, linkVars, OutBlocks
<1>5. IdleIsEmpty' /\ HeldLengths'
  BY <1>2 DEF IInv, IdleIsEmpty, HeldLengths, BlockLengths
<1>6. HeldAhead'
  BY <1>1, <1>2, <1>3 DEF IInv, TypeOK, HeldAhead
<1>7. NewestIsHeld'
  BY <1>1, <1>2, <1>3 DEF IInv, TypeOK, HeldAhead, NewestIsHeld
<1>8. PoolWindow' /\ NothingReadyWaits'
  BY <1>2 DEF PoolWindow, NothingReadyWaits
<1>9. NewestInReach'
  <2>1. cursor \in Nat /\ highest_seen \in Nat /\ cursor <= n
    BY DEF IInv, TypeOK, HeldAhead
  <2>2. cursor' = n + 1
    BY <1>1
  <2>. QED
    BY <1>2, <1>3, <2>1, <2>2, DecAssumption DEF IInv, NewestInReach
<1>. QED
  BY <1>4, <1>5, <1>6, <1>7, <1>8, <1>9 DEF IInv

(* Every step keeps the invariant.                                         *)
LEMMA NextIInv == IInv /\ [Next]_vars => IInv'
<1>. SUFFICES ASSUME IInv, [Next]_vars PROVE IInv'
  OBVIOUS
<1>1. CASE \E f \in DataFrames :
             DropInsane(f) \/ DropRedundant(f) \/ Accept(f) \/ Panic(f)
  BY <1>1, DropInsaneStep, DropRedundantStep, AcceptStep, PanicStep
<1>2. CASE \E cc \in 0..CcMod - 1 : RecvNoop(cc)
  BY <1>2, RecvNoopStep
<1>3. CASE RecvUnparseable
  BY <1>3, RecvUnparseableStep
<1>4. CASE PollTimeout \/ Disconnect \/ FlushDone \/ StdoutError
  BY <1>4, MoveStep
<1>5. CASE Drain
  BY <1>5, EmitStep, DrainDoneStep
<1>6. CASE FlushNext
  BY <1>6, FlushNextStep
<1>7. CASE Tick
  BY <1>7, TickStep
<1>8. CASE UNCHANGED vars
  <2>1. UNCHANGED <<pc, pool, windowVars, linkVars, redundant_packets, out, received>>
    BY <1>8 DEF vars
  <2>2. TypeOK'
    BY <2>1 DEF IInv, TypeOK, windowVars, linkVars
  <2>. QED
    BY <2>1, <2>2, QuietStep
<1>. QED
  BY <1>1, <1>2, <1>3, <1>4, <1>5, <1>6, <1>7, <1>8 DEF Next, Flush

(* The decoder keeps the invariant for ever.                               *)
THEOREM Invariant == Spec => []IInv
BY InitIInv, NextIInv, PTL DEF Spec

(* Every variable keeps its type; the arithmetic of block numbers and loss *)
(* counts (main.rs:250-271) never leaves the naturals.                     *)
THEOREM TypeCorrect == Spec => []TypeOK
<1>1. IInv => TypeOK
  BY DEF IInv
<1>. QED
  BY <1>1, Invariant, PTL

(* Whatever frames come, between two of them the decoder holds only blocks *)
(* within max_blocks_in_flight of the cursor (main.rs:372-431).            *)
THEOREM WindowBounded == Spec => []PoolWindow
<1>1. IInv => PoolWindow
  BY DEF IInv
<1>. QED
  BY <1>1, Invariant, PTL

(* A complete block that is next in order is never left for a later frame  *)
(* to release (main.rs:315, 331, 381).                                     *)
THEOREM ReadyIsWritten == Spec => []NothingReadyWaits
<1>1. IInv => NothingReadyWaits
  BY DEF IInv
<1>. QED
  BY <1>1, Invariant, PTL

(* No frame moves the decoder half the block numbers beyond the cursor     *)
(* (main.rs:250).                                                          *)
THEOREM ReachBounded == Spec => []NewestInReach
<1>1. IInv => NewestInReach
  BY DEF IInv
<1>. QED
  BY <1>1, Invariant, PTL

-----------------------------------------------------------------------------
(* What is held at any moment, in the middle of the drain loop and of the  *)
(* flush too, is in the window but for one block.                          *)
InWindow == cursor..cursor + MaxInFlight - 1
OneBeyond == \E n \in Nat : DOMAIN pool \subseteq InWindow \cup {n}

(* When blocks leave and none comes, and the cursor does not pass what is  *)
(* held, no more lie beyond it.                                            *)
LEMMA WindowMovesOn ==
  ASSUME TypeOK, OneBeyond, HeldAhead', DOMAIN pool' \subseteq DOMAIN pool,
         cursor' \in Nat, cursor <= cursor'
  PROVE  OneBeyond'
<1>1. PICK n \in Nat : DOMAIN pool \subseteq InWindow \cup {n}
  BY DEF OneBeyond
<1>2. ASSUME NEW m \in DOMAIN pool', m # n
      PROVE  m \in InWindow'
  <2>1. m \in Nat /\ m \in cursor..cursor + MaxInFlight - 1 /\ cursor' <= m
    BY <1>1, <1>2 DEF TypeOK, InWindow, HeldAhead
  <2>2. cursor \in Nat /\ MaxInFlight \in Nat
    BY DecAssumption DEF TypeOK
  <2>. QED
    BY <2>1, <2>2 DEF InWindow
<1>. QED
  BY <1>2 DEF OneBeyond

LEMMA OneBeyondStep ==
  ASSUME IInv, IInv', OneBeyond, [Next]_vars
  PROVE  OneBeyond'
<1>1. TypeOK /\ cursor' \in Nat /\ HeldAhead'
  BY DEF IInv, TypeOK
<1>2. CASE \E f \in DataFrames : Accept(f)
  <2>1. PICK f \in DataFrames : Accept(f)
    BY <1>2
  <2>. DEFINE n == Logical(f)
  <2>2. n \in Nat
    <3>1. f.sbn \in Nat /\ cursor \in Nat
      BY DecAssumption DEF DataFrames, IInv, TypeOK
    <3>. QED
      BY <3>1, UnwrapNat DEF Logical
  <2>3. DOMAIN pool' = DOMAIN pool \cup {n}
    BY <2>1 DEF Accept, With
  <2>4. DOMAIN pool \subseteq InWindow'
    <3>1. CASE started
      BY <2>1, <3>1 DEF Accept, Receive, CursorAt, IInv, PoolWindow, InWindow
    <3>2. CASE ~started
      BY <3>2 DEF IInv, IdleIsEmpty
    <3>. QED
      BY <3>1, <3>2
  <2>. HIDE DEF n
  <2>. QED
    BY <2>2, <2>3, <2>4 DEF OneBeyond
<1>3. CASE Drain /\ ~DrainDone
  <2>1. DOMAIN pool' \subseteq DOMAIN pool /\ cursor' = cursor + 1
    BY <1>3 DEF Drain, EmitDecoded, EmitBestEffort, EmitZero, Emit, Without
  <2>2. cursor <= cursor'
    BY <1>1, <2>1 DEF TypeOK
  <2>. QED
    BY <1>1, <2>1, <2>2, WindowMovesOn
<1>4. CASE FlushNext
  <2>1. PICK n \in DOMAIN pool : pool' = Without(n) /\ cursor' = n + 1
    BY <1>4 DEF FlushNext
  <2>2. cursor <= cursor' /\ DOMAIN pool' \subseteq DOMAIN pool
    BY <1>1, <2>1 DEF IInv, HeldAhead, TypeOK, Without
  <2>. QED
    BY <1>1, <2>2, WindowMovesOn
<1>5. CASE \/ \E f \in DataFrames : DropInsane(f) \/ DropRedundant(f) \/ Panic(f)
           \/ \E cc \in 0..CcMod - 1 : RecvNoop(cc)
           \/ RecvUnparseable \/ PollTimeout \/ Disconnect
           \/ DrainDone \/ FlushDone \/ StdoutError \/ Tick \/ UNCHANGED vars
  <2>1. DOMAIN pool' = DOMAIN pool /\ cursor' = cursor
    BY <1>5 DEF DropInsane, DropRedundant, Panic, RecvNoop, RecvUnparseable, PollTimeout,
                Disconnect, DrainDone, FlushDone, StdoutError, Tick, windowVars, vars
  <2>. QED
    BY <2>1 DEF OneBeyond, InWindow
<1>. QED
  BY <1>2, <1>3, <1>4, <1>5 DEF Next, Drain, Flush

(* However far ahead frames jump and wherever the loop is, the decoder     *)
(* never holds more than one block over max_blocks_in_flight               *)
(* (main.rs:275, 336-431).                                                 *)
THEOREM PoolNeverLarger ==
  Spec => [](IsFiniteSet(DOMAIN pool) /\ Cardinality(DOMAIN pool) <= MaxInFlight + 1)
<1>1. Init => OneBeyond
  <2>. SUFFICES ASSUME Init PROVE OneBeyond
    OBVIOUS
  <2>1. DOMAIN pool = {} /\ 0 \in Nat
    BY DEF Init
  <2>. QED
    BY <2>1 DEF OneBeyond
<1>2. ASSUME IInv, OneBeyond
      PROVE  IsFiniteSet(DOMAIN pool) /\ Cardinality(DOMAIN pool) <= MaxInFlight + 1
  <2>1. PICK n \in Nat : DOMAIN pool \subseteq InWindow \cup {n}
    BY <1>2 DEF OneBeyond
  <2>2. cursor \in Int /\ MaxInFlight \in Nat \ {0}
    BY <1>2, DecAssumption DEF IInv, TypeOK
  <2>3. IsFiniteSet(InWindow) /\ Cardinality(InWindow) = MaxInFlight
    <3>1. cursor + MaxInFlight - 1 \in Int /\ ~(cursor > cursor + MaxInFlight - 1)
      BY <2>2
    <3>2. /\ IsFiniteSet(cursor..cursor + MaxInFlight - 1)
          /\ Cardinality(cursor..cursor + MaxInFlight - 1)
               = (cursor + MaxInFlight - 1) - cursor + 1
      BY <2>2, <3>1, FS_Interval
    <3>. QED
      BY <2>2, <3>2 DEF InWindow
  <2>4. /\ IsFiniteSet(InWindow \cup {n})
        /\ Cardinality(InWindow \cup {n}) <= MaxInFlight + 1
    BY <2>2, <2>3, FS_AddElement
  <2>5. /\ IsFiniteSet(DOMAIN pool)
        /\ Cardinality(DOMAIN pool) <= Cardinality(InWindow \cup {n})
    BY <2>1, <2>4, FS_Subset
  <2>6. Cardinality(DOMAIN pool) \in Nat /\ Cardinality(InWindow \cup {n}) \in Nat
    BY <2>4, <2>5, FS_CardinalityType
  <2>. QED
    BY <2>2, <2>4, <2>5, <2>6
<1>. QED
  BY <1>1, <1>2, Invariant, OneBeyondStep, PTL DEF Spec

-----------------------------------------------------------------------------
(* What one write of the drain loop does, whichever of the three it is.    *)
LEMMA EmitFacts ==
  ASSUME IInv, Drain, ~DrainDone
  PROVE  \E kind \in {"decoded", "besteffort", "zero"}, len \in BlockLengths :
           /\ Emit(kind, len)
           /\ started
           /\ kind = "zero" => HeadMissing
<1>1. CASE EmitDecoded
  <2>1. cursor \in DOMAIN pool /\ pool[cursor].block_size \in BlockLengths
    BY <1>1 DEF EmitDecoded, HeadReady, HeadHeld, IInv, HeldLengths
  <2>. QED
    BY <1>1, <2>1 DEF EmitDecoded, IInv, TypeOK, IdleIsEmpty
<1>2. CASE EmitBestEffort
  <2>1. cursor \in DOMAIN pool /\ pool[cursor].block_size \in BlockLengths
    BY <1>2 DEF EmitBestEffort, HeadOverdue, HeadForced, HeadHeld, IInv, HeldLengths
  <2>. QED
    BY <1>2, <2>1 DEF EmitBestEffort, IInv, TypeOK, IdleIsEmpty
<1>3. CASE EmitZero
  <2>1. DefaultBlockSize \in BlockLengths
    BY DEF BlockLengths
  <2>. QED
    BY <1>3, <2>1 DEF EmitZero, HeadMissing
<1>. QED
  BY <1>1, <1>2, <1>3 DEF Drain

(* The last element of a written stream.                                   *)
LEMMA LastWritten ==
  ASSUME TypeOK, NEW rec, out' = Append(out, rec)
  PROVE  /\ Len(out') = Len(out) + 1
         /\ out'[Len(out')] = rec
<1>1. out \in Seq(OutBlocks)
  BY DEF TypeOK, OutBlocks
<1>. QED
  BY <1>1

(* Steps that neither write nor forget.                                    *)
Silent == out' = out /\ DOMAIN pool \subseteq DOMAIN pool'

LEMMA SilentSteps ==
  ASSUME IInv, [Next]_vars,
         ~(Drain /\ ~DrainDone), ~FlushNext
  PROVE  Silent
<1>1. CASE \E f \in DataFrames :
             DropInsane(f) \/ DropRedundant(f) \/ Accept(f) \/ Panic(f)
  <2>1. PICK f \in DataFrames :
          DropInsane(f) \/ DropRedundant(f) \/ Accept(f) \/ Panic(f)
    BY <1>1
  <2>2. CASE DropInsane(f) \/ DropRedundant(f) \/ Panic(f)
    BY <2>2 DEF DropInsane, DropRedundant, Panic, Silent
  <2>3. CASE Accept(f)
    <3>1. out' = out
      BY <2>3 DEF Accept
    <3>2. \E n, b : pool' = With(n, b)
      BY <2>3 DEF Accept
    <3>. QED
      BY <3>1, <3>2 DEF Silent, With
  <2>. QED
    BY <2>1, <2>2, <2>3
<1>2. CASE \E cc \in 0..CcMod - 1 : RecvNoop(cc)
  BY <1>2 DEF RecvNoop, Silent
<1>3. CASE RecvUnparseable \/ PollTimeout \/ Disconnect \/ DrainDone \/ FlushDone
           \/ StdoutError
  BY <1>3 DEF RecvUnparseable, PollTimeout, Disconnect, DrainDone, FlushDone,
              StdoutError, Silent
<1>4. CASE Tick
  BY <1>4 DEF Tick, Silent
<1>5. CASE UNCHANGED vars
  BY <1>5 DEF vars, Silent
<1>. QED
  BY <1>1, <1>2, <1>3, <1>4, <1>5 DEF Next, Flush

(* A block leaves the pool only in the step that writes it (main.rs:384,   *)
(* 400, 458).                                                              *)
THEOREM NothingDropped == Spec => NoSilentDrop
<1>1. IInv /\ [Next]_vars =>
        [\A n \in DOMAIN pool \ DOMAIN pool' :
           /\ Len(out') = Len(out) + 1
           /\ out'[Len(out')].blk = n]_vars
  <2>. SUFFICES ASSUME IInv, [Next]_vars, NEW n \in DOMAIN pool \ DOMAIN pool'
                PROVE  Len(out') = Len(out) + 1 /\ out'[Len(out')].blk = n
    OBVIOUS
  <2>1. CASE Drain /\ ~DrainDone
    <3>1. PICK kind \in {"decoded", "besteffort", "zero"}, len \in BlockLengths :
            Emit(kind, len)
      BY <2>1, EmitFacts
    <3>2. n = cursor
      BY <3>1 DEF Emit, Without
    <3>. QED
      BY <3>1, <3>2, LastWritten DEF Emit, Emitted, IInv
  <2>2. CASE FlushNext
    <3>1. PICK m \in DOMAIN pool :
            /\ out' = Emitted(m, IF pool[m].completed THEN "decoded" ELSE "besteffort",
                              pool[m].block_size)
            /\ pool' = Without(m)
      BY <2>2 DEF FlushNext
    <3>2. n = m
      BY <3>1 DEF Without
    <3>. QED
      BY <3>1, <3>2, LastWritten DEF Emitted, IInv
  <2>3. CASE ~(Drain /\ ~DrainDone) /\ ~FlushNext
    BY <2>3, SilentSteps DEF Silent
  <2>. QED
    BY <2>1, <2>2, <2>3
<1>. QED
  BY <1>1, Invariant, PTL DEF Spec, NoSilentDrop

(* Zeros are written only while a block at least max_blocks_in_flight      *)
(* ahead is held: highest_seen alone never has them written (main.rs:421). *)
THEOREM ZerosMakeRoom == Spec => ZeroOnlyMakesRoom
<1>1. IInv /\ [Next]_vars =>
        [(out' # out /\ out'[Len(out')].kind = "zero") => should_force]_vars
  <2>. SUFFICES ASSUME IInv, [Next]_vars, out' # out, out'[Len(out')].kind = "zero"
                PROVE  should_force
    OBVIOUS
  <2>1. CASE Drain /\ ~DrainDone
    <3>1. PICK kind \in {"decoded", "besteffort", "zero"}, len \in BlockLengths :
            /\ Emit(kind, len)
            /\ kind = "zero" => HeadMissing
      BY <2>1, EmitFacts
    <3>2. HeadMissing
      BY <3>1, LastWritten DEF Emit, Emitted, IInv
    <3>3. CASE highest_seen >= cursor + MaxInFlight
      BY <3>2, <3>3, DecAssumption
         DEF HeadMissing, IInv, NewestIsHeld, TypeOK, should_force
    <3>. QED
      BY <3>2, <3>3 DEF HeadMissing, NewestFarAhead
  <2>2. CASE FlushNext
    <3>1. PICK m \in DOMAIN pool :
            out' = Emitted(m, IF pool[m].completed THEN "decoded" ELSE "besteffort",
                           pool[m].block_size)
      BY <2>2 DEF FlushNext
    <3>2. out'[Len(out')].kind \in {"decoded", "besteffort"}
      BY <3>1, LastWritten DEF Emitted, IInv
    <3>. QED
      BY <3>2
  <2>3. CASE ~(Drain /\ ~DrainDone) /\ ~FlushNext
    BY <2>3, SilentSteps DEF Silent
  <2>. QED
    BY <2>1, <2>2, <2>3
<1>. QED
  BY <1>1, Invariant, PTL DEF Spec, ZeroOnlyMakesRoom

(* A window of half the block numbers or more disables the rule that makes *)
(* room: no missing block is ever written as zeros (main.rs:275, 421).     *)
THEOREM WideWindowNeverZeroes ==
  ASSUME 2 * MaxInFlight >= SbnMod
  PROVE  Spec => [][~EmitZero]_vars
<1>1. IInv => ~EmitZero
  <2>. SUFFICES ASSUME IInv, EmitZero PROVE FALSE
    OBVIOUS
  <2>1. started /\ (should_force \/ highest_seen >= cursor + MaxInFlight)
    BY DEF EmitZero, HeadMissing, NewestFarAhead
  <2>2. cursor \in Nat /\ highest_seen \in Nat /\ DOMAIN pool \subseteq Nat
    BY DEF IInv, TypeOK
  <2>3. highest_seen >= cursor + MaxInFlight
    <3>1. CASE should_force
      <4>1. PICK n \in DOMAIN pool : n >= cursor + MaxInFlight
        BY <3>1 DEF should_force
      <4>2. n <= highest_seen /\ n \in Nat
        BY <2>2 DEF IInv, NewestIsHeld
      <4>. QED
        BY <4>1, <4>2, <2>2, DecAssumption
    <3>. QED
      BY <2>1, <3>1
  <2>4. 2 * (highest_seen - cursor) < SbnMod
    BY <2>1 DEF IInv, NewestInReach
  <2>. QED
    BY <2>2, <2>3, <2>4, DecAssumption
<1>. QED
  BY <1>1, Invariant, PTL DEF Spec

-----------------------------------------------------------------------------
(* The refinement of BlockStream, step by step.                            *)
StreamStep == Stream!Next \/ UNCHANGED <<out, cursor, Phase>>

LEMMA InitStream == Init => Stream!Init
<1>. SUFFICES ASSUME Init PROVE Stream!Init
  OBVIOUS
<1>1. Phase = "idle"
  BY DEF Init, Phase, Ended
<1>. QED
  BY <1>1 DEF Init, Stream!Init

(* The join, or one more symbol.                                           *)
LEMMA AcceptStream ==
  ASSUME IInv, NEW f \in DataFrames, Accept(f)
  PROVE  StreamStep
<1>1. pc = "recv" /\ pc' = "drain" /\ out' = out /\ started' = TRUE
      /\ cursor' = CursorAt(f)
  BY DEF Accept, Receive
<1>2. Phase' = "live"
  BY <1>1 DEF Phase, Ended
<1>3. CASE started
  BY <1>1, <1>2, <1>3 DEF Phase, Ended, StreamStep, CursorAt
<1>4. CASE ~started
  <2>1. Phase = "idle"
    BY <1>1, <1>4 DEF Phase, Ended
  <2>2. cursor' \in 0..SbnMod - 1
    BY <1>1, <1>4 DEF CursorAt, DataFrames
  <2>. QED
    BY <1>1, <1>2, <2>1, <2>2 DEF StreamStep, Stream!Next, Stream!Join
<1>. QED
  BY <1>3, <1>4

(* A write of the drain loop is a write of the live stream.                *)
LEMMA EmitStream ==
  ASSUME IInv, Drain, ~DrainDone
  PROVE  StreamStep
<1>1. PICK kind \in {"decoded", "besteffort", "zero"}, len \in BlockLengths :
        Emit(kind, len) /\ started
  BY EmitFacts
<1>2. pc = "drain" /\ pc' = pc /\ started' = started /\ cursor' = cursor + 1
      /\ out' = Append(out, [blk |-> cursor, kind |-> kind, len |-> len])
  BY <1>1 DEF Emit, Emitted
<1>3. Phase = "live" /\ Phase' = "live"
  BY <1>1, <1>2 DEF Phase, Ended
<1>4. Stream!Write(kind, len)
  BY <1>2, <1>3 DEF Stream!Write, Stream!Block
<1>. QED
  BY <1>4 DEF StreamStep, Stream!Next, Stream!Kinds

(* A flushed block is one written after the input closed.                  *)
LEMMA FlushStream ==
  ASSUME IInv, FlushNext
  PROVE  StreamStep
<1>1. PICK n \in DOMAIN pool :
        /\ out' = Emitted(n, IF pool[n].completed THEN "decoded" ELSE "besteffort",
                          pool[n].block_size)
        /\ cursor' = n + 1
  BY DEF FlushNext
<1>2. n \in Nat /\ cursor \in Nat /\ cursor <= n
      /\ pool[n].block_size \in BlockLengths
  BY DEF IInv, TypeOK, HeldAhead, HeldLengths
<1>. DEFINE kind == IF pool[n].completed THEN "decoded" ELSE "besteffort"
<1>3. kind \in Stream!Kinds \ {"zero"}
  BY DEF Stream!Kinds
<1>4. Phase = "closing" /\ Phase' = "closing"
  BY DEF FlushNext, Phase, Ended
<1>5. Stream!WriteLast(kind, pool[n].block_size)
  <2>1. cursor' > cursor /\ cursor' - 1 = n
    BY <1>1, <1>2
  <2>2. out' = Append(out, Stream!Block(cursor' - 1, kind, pool[n].block_size))
    BY <1>1, <2>1 DEF Emitted, Stream!Block
  <2>. QED
    BY <1>4, <2>1, <2>2 DEF Stream!WriteLast
<1>. QED
  BY <1>2, <1>3, <1>5 DEF StreamStep, Stream!Next

(* The input closes, or the program ends.                                  *)
LEMMA CloseStream ==
  ASSUME IInv,
         Disconnect \/ FlushDone \/ StdoutError \/ \E f \in DataFrames : Panic(f)
  PROVE  StreamStep
<1>1. UNCHANGED <<out, cursor>>
  BY DEF Disconnect, FlushDone, StdoutError, Panic, windowVars
<1>2. CASE Disconnect
  <2>1. Phase \in {"idle", "live"} /\ Phase' = "closing"
    BY <1>2 DEF Disconnect, Phase, Ended
  <2>. QED
    BY <1>1, <2>1 DEF StreamStep, Stream!Next, Stream!Close
<1>3. CASE FlushDone \/ StdoutError \/ \E f \in DataFrames : Panic(f)
  <2>1. Phase # "ended" /\ Phase' = "ended"
    BY <1>3 DEF FlushDone, StdoutError, Panic, Receive, Phase, Ended
  <2>. QED
    BY <1>1, <2>1 DEF StreamStep, Stream!Next, Stream!End
<1>. QED
  BY <1>2, <1>3

(* Every other step is hidden from the receiver.                           *)
LEMMA HiddenStream ==
  ASSUME IInv,
         \/ \E f \in DataFrames : DropInsane(f) \/ DropRedundant(f)
         \/ \E cc \in 0..CcMod - 1 : RecvNoop(cc)
         \/ RecvUnparseable \/ PollTimeout \/ DrainDone \/ Tick
         \/ UNCHANGED vars
  PROVE  StreamStep
<1>1. UNCHANGED <<windowVars, out>>
  BY DEF DropInsane, DropRedundant, RecvNoop, RecvUnparseable, PollTimeout,
         DrainDone, Tick, vars
<1>2. pc' = pc \/ (pc \in {"recv", "drain"} /\ pc' \in {"recv", "drain"})
  BY DEF DropInsane, DropRedundant, RecvNoop, RecvUnparseable, PollTimeout,
         DrainDone, Tick, vars, Receive
<1>3. Phase' = Phase
  BY <1>1, <1>2 DEF Phase, Ended, windowVars
<1>. QED
  BY <1>1, <1>3 DEF StreamStep, windowVars

(* run_decoder implements BlockStream: whatever frames come and however    *)
(* long they take, what it writes is the stream of blocks from the one it  *)
(* joined at, in order and without a gap until the input closes, in order  *)
(* after that.                                                             *)
THEOREM ImplementsStream == Spec => StreamSpec
<1>1. IInv /\ [Next]_vars => [Stream!Next]_(Stream!streamVars)
  <2>. SUFFICES ASSUME IInv, [Next]_vars PROVE StreamStep
    BY DEF StreamStep, Stream!streamVars
  <2>1. CASE \E f \in DataFrames : Accept(f)
    BY <2>1, AcceptStream
  <2>2. CASE Drain /\ ~DrainDone
    BY <2>2, EmitStream
  <2>3. CASE FlushNext
    BY <2>3, FlushStream
  <2>4. CASE Disconnect \/ FlushDone \/ StdoutError \/ \E f \in DataFrames : Panic(f)
    BY <2>4, CloseStream
  <2>5. CASE \/ \E f \in DataFrames : DropInsane(f) \/ DropRedundant(f)
             \/ \E cc \in 0..CcMod - 1 : RecvNoop(cc)
             \/ RecvUnparseable \/ PollTimeout \/ DrainDone \/ Tick
             \/ UNCHANGED vars
    BY <2>5, HiddenStream
  <2>. QED
    BY <2>1, <2>2, <2>3, <2>4, <2>5 DEF Next, Flush
<1>. QED
  BY <1>1, InitStream, Invariant, PTL DEF Spec, StreamSpec, Stream!Spec
-----------------------------------------------------------------------------
(* What is written so far: no block twice and each after those before it,  *)
(* and until the input closes, all the blocks from the first to the cursor.*)
WrittenInOrder ==
  /\ \A i \in DOMAIN out : out[i].blk < cursor
  /\ \A i, j \in DOMAIN out : i < j => out[i].blk < out[j].blk
  /\ pc \in {"recv", "drain"} =>
       \A i \in DOMAIN out : out[i].blk = cursor - Len(out) + i - 1

WrittenInv == WrittenInOrder /\ (out # <<>> => started)

(* Another block is written behind those there are.                        *)
LEMMA OneMore ==
  ASSUME TypeOK, NEW rec, rec \in OutBlocks, out' = Append(out, rec)
  PROVE  /\ Len(out) \in Nat /\ DOMAIN out = 1..Len(out)
         /\ Len(out') = Len(out) + 1 /\ DOMAIN out' = 1..Len(out) + 1
         /\ out'[Len(out) + 1] = rec
         /\ \A i \in 1..Len(out) : out'[i] = out[i] /\ out[i].blk \in Nat
<1>1. out \in Seq(OutBlocks)
  BY DEF TypeOK, OutBlocks
<1>2. \A b \in OutBlocks : b.blk \in Nat
  BY DEF OutBlocks
<1>. QED
  BY <1>1, <1>2

(* A block at the cursor or after it, behind blocks before the cursor.     *)
LEMMA WritesBehind ==
  ASSUME TypeOK, WrittenInv, started, started' = started,
         NEW rec, rec \in OutBlocks, out' = Append(out, rec),
         cursor <= rec.blk, cursor' = rec.blk + 1,
         pc' \in {"recv", "drain"} => pc \in {"recv", "drain"} /\ rec.blk = cursor
  PROVE  WrittenInv'
<1>. DEFINE N == Len(out)
<1>1. /\ N \in Nat /\ DOMAIN out = 1..N
      /\ Len(out') = N + 1 /\ DOMAIN out' = 1..N + 1
      /\ out'[N + 1] = rec
      /\ \A i \in 1..N : out'[i] = out[i] /\ out[i].blk \in Nat
  BY OneMore
<1>2. cursor \in Nat /\ rec.blk \in Nat
  BY DEF TypeOK, OutBlocks
<1>. HIDE DEF N
<1>3. ASSUME NEW i \in 1..N
      PROVE  /\ out'[i] = out[i] /\ out[i].blk \in Nat /\ out[i].blk < cursor
             /\ out[i].blk < rec.blk
  <2>1. out'[i] = out[i] /\ out[i].blk \in Nat /\ i \in DOMAIN out
    BY <1>1, <1>3
  <2>2. out[i].blk < cursor
    BY <2>1 DEF WrittenInv, WrittenInOrder
  <2>3. out[i].blk < rec.blk
    BY <1>2, <2>1, <2>2
  <2>. QED
    BY <2>1, <2>2, <2>3
<1>4. ASSUME NEW i \in 1..N + 1
      PROVE  out'[i].blk < cursor'
  <2>1. CASE i \in 1..N
    <3>1. out'[i] = out[i] /\ out[i].blk \in Nat /\ out[i].blk < rec.blk
      BY <1>3, <2>1
    <3>. QED
      BY <1>2, <3>1
  <2>2. CASE i = N + 1
    BY <1>1, <1>2, <2>2
  <2>. QED
    BY <1>1, <1>4, <2>1, <2>2
<1>5. ASSUME NEW i \in 1..N + 1, NEW j \in 1..N + 1, i < j
      PROVE  out'[i].blk < out'[j].blk
  <2>1. i \in 1..N
    BY <1>1, <1>5
  <2>2. CASE j \in 1..N
    <3>1. out[i].blk < out[j].blk
      BY <1>1, <1>5, <2>1, <2>2 DEF WrittenInv, WrittenInOrder
    <3>. QED
      BY <1>3, <2>1, <2>2, <3>1
  <2>3. CASE j = N + 1
    <3>1. out'[i].blk < rec.blk
      BY <1>3, <2>1
    <3>. QED
      BY <1>1, <2>3, <3>1
  <2>4. N \in Nat /\ j \in 1..N + 1
    BY <1>1, <1>5
  <2>5. j \in 1..N \/ j = N + 1
    BY <2>4
  <2>. QED
    BY <2>2, <2>3, <2>5
<1>6. ASSUME pc' \in {"recv", "drain"}, NEW i \in 1..N + 1
      PROVE  out'[i].blk = cursor' - (N + 1) + i - 1
  <2>1. pc \in {"recv", "drain"} /\ cursor' = cursor + 1 /\ rec.blk = cursor
    BY <1>6
  <2>2. CASE i \in 1..N
    <3>1. out[i].blk = cursor - N + i - 1
      BY <1>1, <2>1, <2>2 DEF WrittenInv, WrittenInOrder, N
    <3>. QED
      BY <1>1, <1>2, <1>3, <2>1, <2>2, <3>1
  <2>3. CASE i = N + 1
    BY <1>1, <1>2, <2>1, <2>3
  <2>. QED
    BY <1>1, <1>6, <2>2, <2>3
<1>. QED
  BY <1>1, <1>4, <1>5, <1>6 DEF WrittenInv, WrittenInOrder

LEMMA WrittenStep ==
  ASSUME IInv, IInv', WrittenInv, [Next]_vars
  PROVE  WrittenInv'
<1>1. TypeOK /\ cursor \in Nat
  BY DEF IInv, TypeOK
<1>2. CASE Drain /\ ~DrainDone
  <2>1. PICK kind \in {"decoded", "besteffort", "zero"}, len \in BlockLengths :
          Emit(kind, len) /\ started
    BY <1>2, EmitFacts
  <2>. DEFINE rec == [blk |-> cursor, kind |-> kind, len |-> len]
  <2>2. /\ out' = Append(out, rec) /\ cursor' = cursor + 1
        /\ pc = "drain" /\ started' = started
    BY <2>1 DEF Emit, Emitted
  <2>3. rec \in OutBlocks /\ rec.blk = cursor
    <3>1. BlockLengths \subseteq Nat
      BY DecAssumption DEF BlockLengths
    <3>. QED
      BY <1>1, <3>1 DEF OutBlocks
  <2>. HIDE DEF rec
  <2>. QED
    BY <1>1, <2>1, <2>2, <2>3, WritesBehind
<1>3. CASE FlushNext
  <2>1. PICK n \in DOMAIN pool :
          /\ out' = Emitted(n, IF pool[n].completed THEN "decoded" ELSE "besteffort",
                            pool[n].block_size)
          /\ cursor' = n + 1
    BY <1>3 DEF FlushNext
  <2>. DEFINE rec == [blk |-> n,
                      kind |-> IF pool[n].completed THEN "decoded" ELSE "besteffort",
                      len |-> pool[n].block_size]
  <2>2. out' = Append(out, rec) /\ rec.blk = n
    BY <2>1 DEF Emitted
  <2>3. n \in Nat /\ pool[n].block_size \in Nat /\ cursor <= n /\ started
    BY DEF IInv, TypeOK, BlockStates, HeldAhead, IdleIsEmpty
  <2>4. rec \in OutBlocks
    BY <2>3 DEF OutBlocks
  <2>5. pc' = "flush" /\ started' = started
    BY <1>3 DEF FlushNext
  <2>. HIDE DEF rec
  <2>. QED
    BY <1>1, <2>1, <2>2, <2>3, <2>4, <2>5, WritesBehind
<1>4. CASE \E f \in DataFrames : Accept(f)
  <2>1. out' = out /\ started' /\ pc = "recv"
    BY <1>4 DEF Accept, Receive
  <2>2. CASE started
    <3>1. cursor' = cursor
      BY <1>4, <2>2 DEF Accept, CursorAt
    <3>. QED
      BY <2>1, <3>1 DEF WrittenInv, WrittenInOrder
  <2>3. CASE ~started
    <3>1. out = <<>>
      BY <2>3 DEF WrittenInv
    <3>2. DOMAIN out' = {}
      BY <2>1, <3>1
    <3>. QED
      BY <2>1, <3>2 DEF WrittenInv, WrittenInOrder
  <2>. QED
    BY <2>2, <2>3
<1>5. CASE \/ \E f \in DataFrames : DropInsane(f) \/ DropRedundant(f) \/ Panic(f)
           \/ \E cc \in 0..CcMod - 1 : RecvNoop(cc)
           \/ RecvUnparseable \/ PollTimeout \/ Disconnect
           \/ DrainDone \/ FlushDone \/ StdoutError \/ Tick \/ UNCHANGED vars
  <2>1. /\ out' = out /\ cursor' = cursor /\ started' = started
        /\ pc' \in {"recv", "drain"} => pc \in {"recv", "drain"}
    BY <1>5 DEF DropInsane, DropRedundant, Panic, Receive, RecvNoop, RecvUnparseable, PollTimeout,
                Disconnect, DrainDone, FlushDone, StdoutError, Tick, windowVars, vars
  <2>. QED
    BY <2>1 DEF WrittenInv, WrittenInOrder
<1>. QED
  BY <1>2, <1>3, <1>4, <1>5 DEF Next, Drain, Flush

(* The output as a whole: every block from the first to the cursor, each   *)
(* once and in order; after the input has closed blocks may be missing,    *)
(* but none comes twice or late (main.rs:372-431, 448-468).                *)
THEOREM OutputInOrder == Spec => []WrittenInOrder
<1>1. Init => WrittenInv
  BY DEF Init, WrittenInv, WrittenInOrder
<1>2. WrittenInv => WrittenInOrder
  BY DEF WrittenInv
<1>. QED
  BY <1>1, <1>2, Invariant, WrittenStep, PTL DEF Spec
=============================================================================
