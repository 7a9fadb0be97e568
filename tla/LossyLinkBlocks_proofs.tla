---------------------- MODULE LossyLinkBlocks_proofs ----------------------
(***************************************************************************)
(* Proofs about block numbers behind a link that loses frames: 8-bit       *)
(* numbers are enough to tell the blocks apart, whatever is lost, as long  *)
(* as an outage and the window together stay below half the numbers.       *)
(*                                                                         *)
(* The invariant ties the decoder's window to the block being sent: the    *)
(* newest block it heard of is at most an outage behind the sender, and    *)
(* its cursor at most a window behind that.  When the encoder restarts     *)
(* this holds again for its new run, but for an offset the decoder does    *)
(* not know, and for the blocks it still holds of the run before.          *)
(***************************************************************************)
EXTENDS LossyLink_proofs

(* What the numbers must suffice for.  With the default window of 8 blocks *)
(* and the ring of 64, 256 numbers suffice for outages of 120 blocks.  The *)
(* first part says that the encoder is not restarted.                      *)
NumbersSuffice ==
  /\ MaxRestarts = 0
  /\ MaxOutage \in Nat \ {0}
  /\ ExtraReach \in Nat /\ 2 * (ExtraReach + 1) <= SbnMod
  /\ \A far \in {MaxOutage, ExtraReach} : 2 * (far + MaxInFlight - 1) < SbnMod

(* The receiver is not switched on while a later block of number 0 is      *)
(* being sent (run link_clamp shows what happens when it is).              *)
JoinsClear == \A b \in FirstBlk..LastJoin : b = 0 \/ b % SbnMod # 0

-----------------------------------------------------------------------------
(* unwrap_sbn (main.rs:250) finds a block less than half the numbers away. *)
LEMMA UnwrapFinds ==
  ASSUME NEW at \in Nat, NEW b \in Nat, NEW turns \in Nat,
         NEW d \in Int, d = b - SbnMod * turns - at,
         2 * d < SbnMod, -SbnMod <= 2 * d
  PROVE  unwrap_sbn(at, b % SbnMod)
           = IF b - SbnMod * turns < 0 THEN 0 ELSE b - SbnMod * turns
<1>. DEFINE S == SbnMod
            q == b \div S
            sbn == b % S
            ahead == (sbn - at) % S
<1>1. S \in Nat \ {0}
  BY DecAssumption
<1>. HIDE DEF S
<1>2. q \in Nat /\ b = S * q + sbn /\ sbn \in 0..S - 1
  BY <1>1, SMT
<1>. HIDE DEF q, sbn
<1>. DEFINE x == S * turns
            y == S * q
            w == S * (turns - q)
            v == S * (turns - q - 1)
<1>3. x \in Nat /\ y \in Nat /\ sbn \in Nat /\ w = x - y /\ v = x - y - S
  BY <1>1, <1>2
<1>. HIDE DEF x, y, w, v
<1>4. /\ d = b - x - at /\ 2 * d < S /\ -S <= 2 * d
      /\ b = y + sbn
  BY <1>2 DEF S, x, y
<1>5. sbn - at \in Int /\ turns - q \in Int /\ turns - q - 1 \in Int
  BY <1>2, <1>3
<1>6. CASE d >= 0
  <2>1. sbn - at = w + d /\ d \in 0..S - 1
    BY <1>1, <1>3, <1>4, <1>6
  <2>2. (sbn - at) % S = d
    BY <1>1, <1>5, <2>1, RemainderIs DEF w
  <2>3. at + d = b - x
    BY <1>3, <1>4
  <2>. QED
    BY <1>4, <2>2, <2>3 DEF unwrap_sbn, S, sbn, x
<1>7. CASE d < 0
  <2>. DEFINE e == d + S
  <2>1. e \in 0..S - 1 /\ S <= 2 * e
    BY <1>1, <1>4, <1>7
  <2>2. sbn - at = v + e
    BY <1>1, <1>3, <1>4
  <2>3. at + e - S = b - x
    BY <1>1, <1>3, <1>4
  <2>. HIDE DEF e
  <2>4. (sbn - at) % S = e
    BY <1>1, <1>5, <2>1, <2>2, RemainderIs DEF v
  <2>5. ~(2 * e < S)
    BY <1>1, <2>1
  <2>. QED
    BY <2>3, <2>4, <2>5 DEF unwrap_sbn, S, sbn, x
<1>. QED
  BY <1>6, <1>7

-----------------------------------------------------------------------------
(* The decoder's window, by true numbers, and the block being sent.        *)
Window ==
  /\ cursor = 0 => base \in heard
  /\ cursor <= highest_seen + 1
  /\ \E turns \in Nat : base = SbnMod * turns
  /\ \A b \in heard : b <= base + highest_seen
  /\ base + highest_seen <= blk
  /\ \E b \in heard, far \in {MaxOutage, ExtraReach} : blk <= b + far

(* A block heard of is held until it is written.                           *)
HeardIsHeld == \A b \in heard : b >= base + cursor => b - base \in DOMAIN pool

(* A block's decoder was made for the number the block has on the wire.    *)
OwnNumbers == \A n \in DOMAIN pool : pool[n].sbn = (base + n) % SbnMod

BlockInv ==
  /\ first = 0
  /\ heard \subseteq Nat /\ base \in Nat
  /\ ~started => blk <= LastJoin /\ heard = {}
  /\ started => Window /\ HeardIsHeld
  /\ PureSymbols /\ OwnNumbers

(* What else is known of every state.                                      *)
Known == IInv /\ LossTypes /\ SenderInv

(* The next block read is near enough for its number to tell.              *)
LEMMA NumberTells ==
  ASSUME NumbersSuffice, Known, BlockInv, started, pc = "recv",
         NEW b \in Nat, b <= blk, blk <= b + ExtraReach
  PROVE  unwrap_sbn(cursor, b % SbnMod) = IF b - base < 0 THEN 0 ELSE b - base
<1>1. /\ cursor \in Nat /\ highest_seen \in Nat /\ base \in Nat /\ blk \in Nat
      /\ heard \subseteq Nat
  BY LinkAssumption DEF Known, IInv, TypeOK, BlockInv, SenderInv
<1>2. highest_seen < cursor + MaxInFlight
  <2>1. CASE highest_seen \in DOMAIN pool
    BY <1>1, <2>1, DecAssumption DEF Known, IInv, PoolWindow
  <2>2. CASE highest_seen < cursor
    BY <1>1, <2>2, DecAssumption
  <2>. QED
    BY <2>1, <2>2 DEF Known, IInv, NewestIsHeld
<1>3. PICK turns \in Nat : base = SbnMod * turns
  BY DEF BlockInv, Window
<1>4. PICK h \in heard, far \in {MaxOutage, ExtraReach} : blk <= h + far
  BY DEF BlockInv, Window
<1>5. h <= base + highest_seen /\ cursor <= highest_seen + 1
      /\ base + highest_seen <= blk
  BY DEF BlockInv, Window
<1>6. /\ far \in Nat /\ 2 * (far + MaxInFlight - 1) < SbnMod
      /\ ExtraReach \in Nat /\ 2 * (ExtraReach + 1) <= SbnMod
      /\ MaxInFlight \in Nat /\ SbnMod \in Nat
  BY DecAssumption DEF NumbersSuffice
<1>. DEFINE d == b - base - cursor
<1>7. d \in Int /\ d <= far + MaxInFlight - 1 /\ -(ExtraReach + 1) <= d
  BY <1>1, <1>2, <1>4, <1>5, <1>6
<1>. HIDE DEF d
<1>8. 2 * d < SbnMod /\ -SbnMod <= 2 * d
  BY <1>6, <1>7
<1>9. d = b - SbnMod * turns - cursor
  BY <1>3 DEF d
<1>. QED
  BY <1>1, <1>3, <1>7, <1>8, <1>9, UnwrapFinds

(* A packet on the wire while block blk is being sent.                     *)
OnTheWire(p) ==
  /\ p \in WirePackets
  /\ p.blk <= blk /\ blk <= p.blk + ExtraReach
  /\ p.sbn = p.blk % SbnMod

(* How the sender goes on after it.                                        *)
GoesOn(p) ==
  /\ first' = first
  /\ blk' = blk \/ (blk' = blk + 1 /\ p.blk = blk)

(* A frame dropped as redundant is of a block before the cursor.           *)
LEMMA RedundantIsOld ==
  ASSUME NumbersSuffice, Known, BlockInv, NEW p, OnTheWire(p),
         DropRedundant(DataFrame(p))
  PROVE  started /\ p.blk < base + cursor
<1>1. DataFrame(p).sbn = p.blk % SbnMod
  BY DEF DataFrame, OnTheWire
<1>2. Logical(DataFrame(p)) < CursorAt(DataFrame(p)) /\ pc = "recv"
  BY DEF DropRedundant, Receive
<1>3. p.blk % SbnMod \in Nat /\ p.blk \in Nat
  BY LinkAssumption, DecAssumption DEF OnTheWire, WirePackets
<1>4. started
  BY <1>1, <1>2, <1>3 DEF Logical, CursorAt
<1>5. unwrap_sbn(cursor, p.blk % SbnMod)
        = IF p.blk - base < 0 THEN 0 ELSE p.blk - base
  BY <1>2, <1>3, <1>4, NumberTells DEF OnTheWire
<1>6. unwrap_sbn(cursor, p.blk % SbnMod) < cursor
  BY <1>1, <1>2, <1>4 DEF Logical, CursorAt
<1>7. cursor \in Nat /\ base \in Nat
  BY DEF Known, IInv, TypeOK, BlockInv
<1>8. p.blk < base + cursor
  BY <1>3, <1>5, <1>6, <1>7
<1>. QED
  BY <1>4, <1>8

(* A frame of a block from before the decoder's block 0 is given to block  *)
(* 0 (main.rs:253) if that is still held, and its decoder refuses it.      *)
LEMMA ClampedIsRefused ==
  ASSUME NumbersSuffice, Known, BlockInv, NEW p, OnTheWire(p), started, pc = "recv",
         p.blk < base, Logical(DataFrame(p)) >= CursorAt(DataFrame(p))
  PROVE  cursor = 0 /\ ~DecodeAsserts(Entry(DataFrame(p)), DataFrame(p).sbn)
<1>1. DataFrame(p).sbn = p.blk % SbnMod
  BY DEF DataFrame, OnTheWire
<1>2. /\ p.blk \in Nat /\ p.blk <= blk /\ blk <= p.blk + ExtraReach
      /\ cursor \in Nat /\ highest_seen \in Nat /\ base \in Nat /\ blk \in Nat
      /\ SbnMod \in Nat \ {0} /\ ExtraReach \in Nat /\ 2 * (ExtraReach + 1) <= SbnMod
  <2>1. p.blk \in Nat /\ p.blk <= blk /\ blk <= p.blk + ExtraReach /\ blk \in Nat
    BY LinkAssumption DEF OnTheWire, WirePackets, Known, SenderInv
  <2>2. cursor \in Nat /\ highest_seen \in Nat /\ base \in Nat
    BY DEF Known, IInv, TypeOK, BlockInv
  <2>. QED
    BY <2>1, <2>2, DecAssumption DEF NumbersSuffice
<1>3. Logical(DataFrame(p)) = 0 /\ cursor = 0
  <2>1. Logical(DataFrame(p)) = unwrap_sbn(cursor, p.blk % SbnMod)
    BY <1>1 DEF Logical
  <2>2. Logical(DataFrame(p)) = IF p.blk - base < 0 THEN 0 ELSE p.blk - base
    BY <1>2, <2>1, NumberTells
  <2>3. Logical(DataFrame(p)) = 0
    BY <1>2, <2>2
  <2>. QED
    BY <1>2, <2>3 DEF CursorAt
<1>4. 0 \in DOMAIN pool /\ pool[0].sbn = base % SbnMod
  <2>1. base \in heard /\ base >= base + cursor /\ base - base = 0
    BY <1>2, <1>3 DEF BlockInv, Window
  <2>2. 0 \in DOMAIN pool
    BY <2>1 DEF BlockInv, HeardIsHeld
  <2>3. base + 0 = base
    BY <1>2
  <2>. QED
    BY <2>2, <2>3 DEF BlockInv, OwnNumbers
<1>5. Entry(DataFrame(p)) = pool[0]
  BY <1>3, <1>4 DEF Entry
<1>6. ~pool[0].completed
  BY <1>3, <1>4 DEF Known, IInv, NothingReadyWaits, HeadReady, HeadHeld
<1>7. base % SbnMod # p.blk % SbnMod
  <2>1. PICK turns \in Nat : base = SbnMod * turns
    BY DEF BlockInv, Window
  <2>2. base % SbnMod = 0
    <3>1. base = SbnMod * turns + 0 /\ 0 \in 0..SbnMod - 1
      BY <1>2, <2>1
    <3>. QED
      BY <1>2, <2>1, <3>1, RemainderIs
  <2>3. base <= blk
    BY <1>2 DEF BlockInv, Window
  <2>. DEFINE left == p.blk - base + SbnMod
  <2>4. left \in 1..SbnMod - 1
    BY <1>2, <2>3
  <2>5. p.blk = SbnMod * (turns - 1) + left
    <3>1. SbnMod * (turns - 1) = SbnMod * turns - SbnMod /\ SbnMod * turns \in Nat
      BY <1>2
    <3>. QED
      BY <1>2, <2>1, <3>1
  <2>. HIDE DEF left
  <2>6. p.blk % SbnMod = left
    BY <1>2, <2>4, <2>5, RemainderIs
  <2>. QED
    BY <2>2, <2>4, <2>6
<1>. QED
  BY <1>1, <1>3, <1>4, <1>5, <1>6, <1>7 DEF DecodeAsserts

LEMMA AcceptIsAhead ==
  ASSUME NumbersSuffice, Known, BlockInv, NEW p, OnTheWire(p), started,
         Accept(DataFrame(p))
  PROVE  p.blk >= base
<1>1. p.blk \in Nat /\ base \in Nat
  BY LinkAssumption DEF OnTheWire, WirePackets, BlockInv
<1>2. pc = "recv" /\ Logical(DataFrame(p)) >= CursorAt(DataFrame(p))
      /\ DecodeAsserts(Entry(DataFrame(p)), DataFrame(p).sbn)
  BY DEF Accept, Receive
<1>3. ~(p.blk < base)
  BY <1>2, ClampedIsRefused
<1>. QED
  BY <1>1, <1>3

(* What a decoder refuses is of such a block.                              *)
LEMMA PanicIsOld ==
  ASSUME NumbersSuffice, Known, BlockInv, NEW p, OnTheWire(p),
         Panic(DataFrame(p))
  PROVE  started /\ p.blk < base /\ cursor = 0
<1>. DEFINE n == Logical(DataFrame(p))
<1>1. DataFrame(p).sbn = p.blk % SbnMod
  BY DEF DataFrame, OnTheWire
<1>2. p.blk \in Nat /\ base \in Nat /\ p.blk <= blk /\ blk <= p.blk + ExtraReach
  BY LinkAssumption DEF OnTheWire, WirePackets, BlockInv
<1>3. pc = "recv" /\ n >= CursorAt(DataFrame(p))
      /\ ~DecodeAsserts(Entry(DataFrame(p)), DataFrame(p).sbn)
  BY DEF Panic, Receive
<1>4. n \in DOMAIN pool /\ Entry(DataFrame(p)) = pool[n]
  BY <1>3 DEF Entry, DecodeAsserts, NewBlockState
<1>5. started
  BY <1>4 DEF Known, IInv, IdleIsEmpty
<1>6. ASSUME ~(p.blk < base) PROVE FALSE
  <2>1. n = IF p.blk - base < 0 THEN 0 ELSE p.blk - base
    BY <1>1, <1>2, <1>3, <1>5, NumberTells DEF Logical
  <2>. HIDE DEF n
  <2>2. base + n = p.blk
    BY <1>2, <1>6, <2>1
  <2>3. pool[n].sbn = p.blk % SbnMod
    BY <1>4, <2>2 DEF BlockInv, OwnNumbers
  <2>. QED
    BY <1>1, <1>3, <1>4, <2>3 DEF DecodeAsserts
<1>. QED
  BY <1>3, <1>5, <1>6, ClampedIsRefused

LEMMA UnfiledIsOld ==
  ASSUME NumbersSuffice, Known, BlockInv, NEW p, OnTheWire(p),
         DropRedundant(DataFrame(p)) \/ Panic(DataFrame(p))
  PROVE  started /\ p.blk < base + cursor
<1>1. CASE DropRedundant(DataFrame(p))
  BY <1>1, RedundantIsOld
<1>2. CASE Panic(DataFrame(p))
  <2>1. p.blk \in Nat /\ base \in Nat
    BY LinkAssumption DEF OnTheWire, WirePackets, BlockInv
  <2>. QED
    BY <1>2, <2>1, PanicIsOld
<1>. QED
  BY <1>1, <1>2

(* Bounds that move up stay bounds.                                        *)
LEMMA BoundsMoveUp ==
  \A a, b, c, d \in Nat :
    /\ a <= b + 1 /\ b <= c => a <= c + 1
    /\ a <= b + c /\ c <= d => a <= b + d
    /\ a + b <= c /\ c <= d => a + b <= d
OBVIOUS

(* ingest (main.rs:156) adds no symbol but the one that came, and keeps    *)
(* the number.                                                             *)
LEMMA IngestSymbols ==
  ASSUME NEW b \in BlockStates, NEW e, NEW s, NEW c \in ingest(b, e, s)
  PROVE  /\ c.sbn = b.sbn
         /\ \A x \in c.symbols : x \in b.symbols \/ x.symbol = s
<1>1. CASE b.completed
  BY <1>1 DEF ingest
<1>2. CASE ~b.completed
  <2>. DEFINE known == \E x \in b.symbols : x.esi = e
              symbols == IF known THEN b.symbols
                         ELSE b.symbols \cup {[esi |-> e, symbol |-> s]}
  <2>1. PICK d \in DecodeOutcomes(b.k, symbols) :
          c = [b EXCEPT !.symbols = symbols, !.completed = d]
    BY <1>2 DEF ingest
  <2>2. \A x \in symbols : x \in b.symbols \/ x.symbol = s
    OBVIOUS
  <2>. HIDE DEF symbols
  <2>3. c.symbols = symbols /\ c.sbn = b.sbn
    BY <2>1 DEF BlockStates
  <2>. QED
    BY <2>2, <2>3
<1>. QED
  BY <1>1, <1>2

(* An accepted frame is filed under the block it was made from.            *)
LEMMA AcceptKeeps ==
  ASSUME NumbersSuffice, Known, BlockInv, NEW p, OnTheWire(p), GoesOn(p),
         Accept(DataFrame(p)),
         base' = IF started THEN base ELSE p.blk - p.sbn,
         heard' = heard \cup {p.blk}
  PROVE  BlockInv'
<1>. DEFINE f == DataFrame(p)
            n == Logical(f)
            entry == Entry(f)
            seen == IF started THEN highest_seen ELSE f.sbn
<1>1. /\ f.sbn = p.sbn /\ f.oti = WireOti /\ f.esi = p.esi /\ f.symbol = p.blk
      /\ p.sbn = p.blk % SbnMod
  BY DEF DataFrame, OnTheWire
<1>2. /\ p.blk \in Nat /\ p.sbn \in Nat /\ p.blk \in FirstBlk..LastBlk
      /\ p.blk <= blk /\ blk <= p.blk + ExtraReach
  BY LinkAssumption, DecAssumption DEF OnTheWire, WirePackets
<1>3. /\ cursor \in Nat /\ highest_seen \in Nat /\ base \in Nat /\ blk \in Nat
      /\ heard \subseteq Nat /\ blk' \in Nat /\ blk <= blk' /\ SbnMod \in Nat \ {0}
      /\ blk' = blk \/ (blk' = blk + 1 /\ p.blk = blk)
  <2>1. /\ cursor \in Nat /\ highest_seen \in Nat /\ base \in Nat
        /\ heard \subseteq Nat /\ SbnMod \in Nat \ {0}
    BY DecAssumption DEF Known, IInv, TypeOK, BlockInv
  <2>2. blk \in Nat
    BY LinkAssumption DEF Known, SenderInv
  <2>3. blk' = blk \/ (blk' = blk + 1 /\ p.blk = blk)
    BY DEF GoesOn
  <2>4. blk' \in Nat /\ blk <= blk'
    BY <2>2, <2>3
  <2>. QED
    BY <2>1, <2>2, <2>3, <2>4
<1>4. /\ pc = "recv" /\ oti_is_sane(f.oti) /\ n >= CursorAt(f)
      /\ started' = TRUE /\ cursor' = CursorAt(f)
      /\ highest_seen' = (IF n > seen THEN n ELSE seen)
  BY DEF Accept, Receive
<1>6. MaxOutage \in Nat \ {0} /\ ExtraReach \in Nat
  BY DEF NumbersSuffice
<1>7. /\ n \in Nat /\ base' \in Nat /\ p.blk = base' + n
      /\ cursor' \in Nat /\ (cursor' = 0 => base' \in heard') /\ n >= cursor'
      /\ \E turns \in Nat : base' = SbnMod * turns
      /\ highest_seen' \in Nat /\ n <= highest_seen'
      /\ cursor' <= highest_seen' + 1
      /\ started => highest_seen <= highest_seen'
      /\ base' + highest_seen' <= blk
  <2>1. CASE started
    <3>1. base' = base /\ cursor' = cursor /\ seen = highest_seen
      BY <2>1, <1>4 DEF CursorAt
    <3>2. n = IF p.blk - base < 0 THEN 0 ELSE p.blk - base
      BY <2>1, <1>1, <1>2, <1>4, NumberTells DEF Logical
    <3>3. Window
      BY <2>1 DEF BlockInv
    <3>4. n \in Nat /\ p.blk = base + n /\ n >= cursor
      <4>1. n >= cursor /\ p.blk >= base
        BY <2>1, <3>1, <1>4, AcceptIsAhead
      <4>. QED
        BY <4>1, <3>2, <1>2, <1>3
    <3>5. \E turns \in Nat : base = SbnMod * turns
      BY <3>3 DEF Window
    <3>6. /\ cursor = 0 => base \in heard
          /\ cursor <= highest_seen + 1 /\ base + highest_seen <= blk
      BY <3>3 DEF Window
    <3>7. highest_seen' = (IF n > highest_seen THEN n ELSE highest_seen)
      BY <3>1, <1>4
    <3>. HIDE DEF n, seen
    <3>8. /\ highest_seen' \in Nat /\ n <= highest_seen'
          /\ highest_seen <= highest_seen' /\ base + highest_seen' <= blk
      BY <1>2, <1>3, <3>4, <3>6, <3>7
    <3>9. cursor <= highest_seen' + 1
      <4>1. highest_seen <= highest_seen' /\ highest_seen' \in Nat
        BY <3>8
      <4>2. cursor <= highest_seen + 1 /\ cursor \in Nat /\ highest_seen \in Nat
        BY <1>3, <3>6
      <4>. QED
        BY <4>1, <4>2, BoundsMoveUp
    <3>10. base' \in Nat /\ cursor' \in Nat /\ (cursor' = 0 => base' \in heard')
      BY <1>3, <3>1, <3>6
    <3>11. p.blk = base' + n /\ n >= cursor' /\ n \in Nat
      BY <3>1, <3>4
    <3>12. cursor' <= highest_seen' + 1 /\ base' + highest_seen' <= blk
      BY <3>1, <3>8, <3>9
    <3>13. \E turns \in Nat : base' = SbnMod * turns
      BY <3>1, <3>5
    <3>. QED
      BY <3>8, <3>10, <3>11, <3>12, <3>13
  <2>2. CASE ~started
    <3>1. /\ base' = p.blk - p.sbn /\ cursor' = p.sbn /\ n = p.sbn
          /\ seen = p.sbn /\ highest_seen' = p.sbn
      BY <2>2, <1>1, <1>2, <1>4 DEF CursorAt, Logical
    <3>3. PICK q \in Nat : p.blk = SbnMod * q + p.sbn
      <4>1. p.blk \div SbnMod \in Nat
            /\ p.blk = SbnMod * (p.blk \div SbnMod) + (p.blk % SbnMod)
        <5>1. \A x \in Nat, m \in Nat \ {0} : x \div m \in Nat /\ x = m * (x \div m) + (x % m)
          BY SMT
        <5>. QED
          BY <1>2, <1>3, <5>1
      <4>. QED
        BY <4>1, <1>1
    <3>4. SbnMod * q \in Nat
      BY <1>3
    <3>5. base' = SbnMod * q /\ p.blk = base' + p.sbn
      BY <1>2, <3>1, <3>3, <3>4
    <3>6. base' \in Nat
      BY <3>4, <3>5
    <3>7. base' + p.sbn <= blk
      BY <1>2, <3>5
    <3>8. /\ n \in Nat /\ p.blk = base' + n
          /\ cursor' \in Nat /\ (cursor' = 0 => base' \in heard') /\ n >= cursor'
          /\ highest_seen' \in Nat /\ n <= highest_seen' /\ cursor' <= highest_seen' + 1
      BY <1>2, <3>1, <3>5, <3>6
    <3>9. base' + highest_seen' <= blk
      BY <3>1, <3>7
    <3>10. \E turns \in Nat : base' = SbnMod * turns
      BY <3>3, <3>5
    <3>. QED
      BY <2>2, <3>6, <3>8, <3>9, <3>10
  <2>. QED
    BY <2>1, <2>2
<1>. HIDE DEF n
<1>window. /\ base' \in Nat /\ highest_seen' \in Nat /\ base' + highest_seen' <= blk
          /\ p.blk <= base' + highest_seen' /\ (started => highest_seen <= highest_seen')
  BY <1>7
<1>8. Window'
  <2>1. \A b \in heard' : b <= base' + highest_seen'
    <3>1. CASE started
      <4>1. \A b \in heard : b <= base + highest_seen
        BY <3>1 DEF BlockInv, Window
      <4>2. base' = base
        BY <3>1
      <4>3. ASSUME NEW b \in heard
            PROVE  b <= base + highest_seen'
        <5>1. highest_seen <= highest_seen' /\ highest_seen' \in Nat
          BY <3>1, <1>window
        <5>2. b <= base + highest_seen /\ b \in Nat /\ base \in Nat /\ highest_seen \in Nat
          BY <4>1, <1>3
        <5>. QED
          BY <5>1, <5>2, BoundsMoveUp
      <4>. QED
        BY <4>2, <4>3, <1>window
    <3>2. CASE ~started
      BY <3>2, <1>window DEF BlockInv
    <3>. QED
      BY <3>1, <3>2
  <2>2. p.blk \in heard'
    OBVIOUS
  <2>3. blk' <= p.blk + ExtraReach \/ blk' <= p.blk + MaxOutage
    BY <1>2, <1>3, <1>6
  <2>4. base' + highest_seen' <= blk'
    <3>1. blk <= blk' /\ blk \in Nat /\ blk' \in Nat
      BY <1>3
    <3>2. base' + highest_seen' <= blk /\ base' \in Nat /\ highest_seen' \in Nat
      BY <1>window
    <3>. QED
      BY <3>1, <3>2, BoundsMoveUp
  <2>. QED
    BY <1>7, <2>1, <2>2, <2>3, <2>4 DEF Window
<1>5. PICK c \in ingest(entry, f.esi, f.symbol) : pool' = With(n, c)
  BY DEF Accept, n
<1>9. /\ DOMAIN pool' = DOMAIN pool \cup {n}
      /\ pool'[n] = c
      /\ \A m \in DOMAIN pool : m # n => pool'[m] = pool[m]
  BY <1>5 DEF With
<1>10. HeardIsHeld'
  <2>1. ASSUME NEW b \in heard', b >= base' + cursor'
        PROVE  b - base' \in DOMAIN pool'
    <3>1. CASE b = p.blk
      BY <3>1, <1>2, <1>7, <1>9
    <3>2. CASE b # p.blk
      <4>1. started /\ base' = base /\ cursor' = cursor /\ b \in heard
        BY <3>2, <1>4 DEF BlockInv, CursorAt
      <4>. QED
        BY <4>1, <2>1, <1>9 DEF BlockInv, HeardIsHeld
    <3>. QED
      BY <3>1, <3>2
  <2>. QED
    BY <2>1 DEF HeardIsHeld
<1>11. PureSymbols' /\ OwnNumbers'
  <2>1. /\ entry \in BlockStates /\ entry.sbn = p.blk % SbnMod
        /\ \A x \in entry.symbols : x.symbol = p.blk
    <3>1. CASE n \in DOMAIN pool
      <4>1. entry = pool[n] /\ started
        BY <3>1 DEF Entry, n, Known, IInv, IdleIsEmpty
      <4>2. base' = base
        BY <4>1
      <4>. QED
        BY <3>1, <4>1, <4>2, <1>7
           DEF Known, IInv, TypeOK, BlockInv, PureSymbols, OwnNumbers
    <3>2. CASE n \notin DOMAIN pool
      <4>1. entry = NewBlockState(f.sbn, f.oti) /\ f.sbn \in 0..SbnMod - 1
        BY <3>2, <1>1 DEF Entry, n, OnTheWire, WirePackets
      <4>2. WireOti \in Otis
        BY LinkAssumption DEF WireOti
      <4>. QED
        BY <4>1, <4>2, <1>1, <1>4, NewBlockStateType DEF NewBlockState
    <3>. QED
      BY <3>1, <3>2
  <2>. HIDE DEF entry
  <2>2. c.sbn = p.blk % SbnMod /\ \A x \in c.symbols : x.symbol = p.blk
    BY <2>1, <1>1, IngestSymbols
  <2>3. ASSUME NEW m \in DOMAIN pool, m # n
        PROVE  /\ pool[m].sbn = (base' + m) % SbnMod
               /\ \A x \in pool[m].symbols : x.symbol = base' + m
    <3>1. started
      BY DEF Known, IInv, IdleIsEmpty
    <3>. QED
      BY <3>1 DEF BlockInv, PureSymbols, OwnNumbers
  <2>4. PureSymbols'
    BY <2>2, <2>3, <1>7, <1>9 DEF PureSymbols
  <2>5. OwnNumbers'
    BY <2>2, <2>3, <1>7, <1>9 DEF OwnNumbers
  <2>. QED
    BY <2>4, <2>5
<1>12. first' = 0 /\ heard' \subseteq Nat /\ base' \in Nat
  BY <1>2, <1>3, <1>7 DEF BlockInv, GoesOn
<1>. QED
  BY <1>4, <1>8, <1>10, <1>11, <1>12 DEF BlockInv

(* Frames that leave the pool and the window alone: the link loses at most *)
(* an outage's worth of blocks.                                            *)
LEMMA QuietKeeps ==
  ASSUME NumbersSuffice, Known, BlockInv,
         UNCHANGED <<pool, windowVars, base, heard, first>>,
         blk' = blk \/ (blk' = blk + 1 /\ MayLose)
  PROVE  BlockInv'
<1>1. /\ pool' = pool /\ cursor' = cursor /\ highest_seen' = highest_seen
      /\ started' = started /\ base' = base /\ heard' = heard /\ first' = first
  BY DEF windowVars
<1>2. /\ blk \in Nat /\ heard \subseteq Nat /\ base \in Nat /\ highest_seen \in Nat
      /\ MaxOutage \in Nat /\ ExtraReach \in Nat /\ LastJoin \in Nat
  BY LinkAssumption DEF Known, IInv, TypeOK, SenderInv, BlockInv, NumbersSuffice
<1>3. PureSymbols' /\ OwnNumbers' /\ (HeardIsHeld => HeardIsHeld')
  BY <1>1 DEF BlockInv, PureSymbols, OwnNumbers, HeardIsHeld
<1>4. CASE blk' = blk
  <2>1. Window => Window'
    BY <1>1, <1>4 DEF Window
  <2>. QED
    BY <1>1, <1>3, <1>4, <2>1 DEF BlockInv
<1>5. CASE blk' = blk + 1 /\ MayLose
  <2>1. CASE started
    <3>1. Window /\ \E b \in heard : blk < b + MaxOutage
      BY <2>1, <1>5 DEF MayLose, BlockInv
    <3>2. PICK b \in heard : blk < b + MaxOutage
      BY <3>1
    <3>3. blk + 1 <= b + MaxOutage
      BY <1>2, <3>2
    <3>4. base + highest_seen <= blk + 1
      BY <1>2, <3>1 DEF Window
    <3>5. \E x \in heard, far \in {MaxOutage, ExtraReach} : blk + 1 <= x + far
      BY <3>3
    <3>. HIDE <1>2
    <3>6. Window'
      BY <1>1, <1>5, <3>1, <3>4, <3>5 DEF Window
    <3>. QED
      BY <1>1, <1>3, <2>1, <3>6 DEF BlockInv
  <2>2. CASE ~started
    <3>1. blk < LastJoin
      BY <2>2, <1>5 DEF MayLose
    <3>2. blk + 1 <= LastJoin
      BY <1>2, <3>1
    <3>. QED
      BY <1>1, <1>3, <1>5, <2>2, <3>2 DEF BlockInv
  <2>. QED
    BY <2>1, <2>2
<1>. QED
  BY <1>4, <1>5

(* The blocks held get older, nothing else.                                *)
LEMMA TickKeeps ==
  ASSUME BlockInv, Known, Tick, UNCHANGED <<base, heard, first, blk>>
  PROVE  BlockInv'
<1>1. /\ cursor' = cursor /\ highest_seen' = highest_seen /\ started' = started
      /\ base' = base /\ heard' = heard /\ first' = first /\ blk' = blk
  BY DEF Tick, windowVars
<1>2. /\ DOMAIN pool' = DOMAIN pool
      /\ \A n \in DOMAIN pool : pool'[n].symbols = pool[n].symbols
                               /\ pool'[n].sbn = pool[n].sbn
  BY DEF Tick, Known, IInv, TypeOK, BlockStates
<1>3. /\ PureSymbols' /\ OwnNumbers'
      /\ (HeardIsHeld => HeardIsHeld') /\ (Window => Window')
  BY <1>1, <1>2 DEF BlockInv, PureSymbols, OwnNumbers, HeardIsHeld, Window
<1>. QED
  BY <1>1, <1>3 DEF BlockInv

(* A block is written and the cursor goes past it.                         *)
LEMMA WriteKeeps ==
  ASSUME BlockInv, Known, started, started', NEW n \in Nat,
         n >= cursor, n <= highest_seen,
         \A m \in DOMAIN pool : m # n => m > n,
         pool' = Without(n), cursor' = n + 1,
         UNCHANGED <<highest_seen, base, heard, first, blk>>
  PROVE  BlockInv'
<1>1. /\ highest_seen' = highest_seen /\ base' = base /\ heard' = heard
      /\ first' = first /\ blk' = blk
  OBVIOUS
<1>2. /\ cursor \in Nat /\ highest_seen \in Nat /\ base \in Nat /\ heard \subseteq Nat
      /\ DOMAIN pool \subseteq Nat
  BY DEF Known, IInv, TypeOK, BlockInv
<1>3. /\ DOMAIN pool' = DOMAIN pool \ {n}
      /\ \A m \in DOMAIN pool' : pool'[m] = pool[m]
  BY DEF Without
<1>4. Window'
  <2>1. n + 1 # 0 /\ n + 1 <= highest_seen + 1
    BY <1>2
  <2>. QED
    BY <1>1, <2>1 DEF BlockInv, Window
<1>5. ASSUME NEW b \in heard, b >= base + (n + 1)
      PROVE  b - base \in DOMAIN pool \ {n}
  <2>1. b >= base + cursor /\ b - base # n
    BY <1>2, <1>5
  <2>. QED
    BY <2>1 DEF BlockInv, HeardIsHeld
<1>6. HeardIsHeld'
  BY <1>1, <1>3, <1>5 DEF HeardIsHeld
<1>7. PureSymbols' /\ OwnNumbers'
  BY <1>1, <1>3 DEF BlockInv, PureSymbols, OwnNumbers
<1>. QED
  BY <1>1, <1>4, <1>6, <1>7 DEF BlockInv

(* The decoder on its own.                                                 *)
LEMMA DecoderKeeps ==
  ASSUME NumbersSuffice, Known, BlockInv, DecoderStep
  PROVE  BlockInv'
<1>1. UNCHANGED <<base, heard, first, blk>>
  BY DEF DecoderStep, senderVars, ghostVars
<1>2. CASE PollTimeout \/ Disconnect \/ DrainDone \/ FlushDone \/ StdoutError
  <2>1. UNCHANGED <<pool, windowVars>>
    BY <1>2 DEF PollTimeout, Disconnect, DrainDone, FlushDone, StdoutError
  <2>. QED
    BY <1>1, <2>1, QuietKeeps
<1>3. CASE Tick
  BY <1>1, <1>3, TickKeeps
<1>4. CASE EmitDecoded \/ EmitBestEffort \/ EmitZero
  <2>1. /\ pool' = Without(cursor) /\ cursor' = cursor + 1
        /\ UNCHANGED <<highest_seen, started>>
    BY <1>4 DEF EmitDecoded, EmitBestEffort, EmitZero, Emit
  <2>2. cursor \in Nat /\ highest_seen \in Nat /\ DOMAIN pool \subseteq Nat
    BY DEF Known, IInv, TypeOK
  <2>3. started /\ cursor <= highest_seen
    <3>1. CASE HeadHeld
      BY <3>1 DEF HeadHeld, Known, IInv, IdleIsEmpty, NewestIsHeld
    <3>2. CASE HeadMissing
      <4>1. started /\ (should_force \/ NewestFarAhead)
        BY <3>2 DEF HeadMissing
      <4>2. CASE should_force
        <5>1. PICK m \in DOMAIN pool : m >= cursor + MaxInFlight
          BY <4>2 DEF should_force
        <5>2. m <= highest_seen
          BY DEF Known, IInv, NewestIsHeld
        <5>. QED
          BY <4>1, <5>1, <5>2, <2>2, DecAssumption
      <4>3. CASE NewestFarAhead
        BY <4>1, <4>3, <2>2, DecAssumption DEF NewestFarAhead
      <4>. QED
        BY <4>1, <4>2, <4>3
    <3>. QED
      BY <1>4, <3>1, <3>2
         DEF EmitDecoded, EmitBestEffort, EmitZero, HeadReady, HeadOverdue, HeadForced
  <2>4. \A m \in DOMAIN pool : m # cursor => m > cursor
    BY <2>2 DEF Known, IInv, HeldAhead
  <2>5. cursor >= cursor
    BY <2>2
  <2>. QED
    BY <1>1, <2>1, <2>2, <2>3, <2>4, <2>5, WriteKeeps
<1>5. CASE FlushNext
  <2>1. PICK n \in DOMAIN pool : /\ FirstHeld(n) /\ pool' = Without(n)
                                 /\ cursor' = n + 1
    BY <1>5 DEF FlushNext
  <2>2. UNCHANGED <<highest_seen, started>>
    BY <1>5 DEF FlushNext
  <2>3. n \in Nat /\ DOMAIN pool \subseteq Nat /\ cursor \in Nat
    BY DEF Known, IInv, TypeOK
  <2>4. started /\ n <= highest_seen /\ n >= cursor
    <3>1. started /\ n <= highest_seen /\ cursor <= n
      BY DEF Known, IInv, IdleIsEmpty, NewestIsHeld, HeldAhead
    <3>. QED
      BY <3>1, <2>3
  <2>5. \A m \in DOMAIN pool : m # n => m > n
    BY <2>1, <2>3 DEF FirstHeld
  <2>. QED
    BY <1>1, <2>1, <2>2, <2>3, <2>4, <2>5, WriteKeeps
<1>. QED
  BY <1>2, <1>3, <1>4, <1>5 DEF DecoderStep, Drain, Flush

(* A frame that is not filed changes only what was heard of.               *)
LEMMA UnfiledKeeps ==
  ASSUME NumbersSuffice, Known, BlockInv, NEW p, OnTheWire(p), GoesOn(p),
         DropRedundant(DataFrame(p)) \/ Panic(DataFrame(p)),
         base' = IF started THEN base ELSE p.blk - p.sbn,
         heard' = heard \cup {p.blk}
  PROVE  BlockInv'
<1>1. started /\ p.blk < base + cursor
  BY UnfiledIsOld
<1>2. /\ pool' = pool /\ cursor' = cursor /\ highest_seen' = highest_seen
      /\ started' = started /\ base' = base /\ first' = first
  BY <1>1 DEF DropRedundant, Panic, windowVars, GoesOn
<1>3. /\ cursor \in Nat /\ highest_seen \in Nat /\ base \in Nat /\ blk \in Nat
      /\ heard \subseteq Nat /\ p.blk \in Nat /\ MaxOutage \in Nat \ {0}
      /\ p.blk <= blk
  <2>1. cursor \in Nat /\ highest_seen \in Nat /\ base \in Nat /\ heard \subseteq Nat
    BY DEF Known, IInv, TypeOK, BlockInv
  <2>2. blk \in Nat
    BY LinkAssumption DEF Known, SenderInv
  <2>3. p.blk \in Nat /\ p.blk <= blk
    BY LinkAssumption DEF OnTheWire, WirePackets
  <2>4. MaxOutage \in Nat \ {0}
    BY DEF NumbersSuffice
  <2>. QED
    BY <2>1, <2>2, <2>3, <2>4
<1>4. Window
  BY <1>1 DEF BlockInv
<1>5. p.blk <= base + highest_seen
  BY <1>1, <1>3, <1>4 DEF Window
<1>6. Window'
  <2>1. CASE blk' = blk
    BY <1>2, <1>4, <1>5, <2>1 DEF Window
  <2>2. CASE blk' = blk + 1 /\ p.blk = blk
    <3>1. blk + 1 <= p.blk + MaxOutage /\ base + highest_seen <= blk + 1
      BY <1>3, <1>4, <2>2 DEF Window
    <3>2. \E b \in heard \cup {p.blk}, far \in {MaxOutage, ExtraReach} : blk + 1 <= b + far
      BY <3>1
    <3>3. \A b \in heard \cup {p.blk} : b <= base + highest_seen
      BY <1>4, <1>5 DEF Window
    <3>4. /\ cursor = 0 => base \in heard
          /\ cursor <= highest_seen + 1
          /\ \E turns \in Nat : base = SbnMod * turns
      BY <1>4 DEF Window
    <3>. HIDE <1>3
    <3>. QED
      BY <1>2, <2>2, <3>1, <3>2, <3>3, <3>4 DEF Window
  <2>. QED
    BY <2>1, <2>2 DEF GoesOn
<1>7. HeardIsHeld'
  <2>1. ASSUME NEW b \in heard \cup {p.blk}, b >= base + cursor
        PROVE  b - base \in DOMAIN pool
    <3>1. b # p.blk
      BY <1>1, <1>3, <2>1
    <3>. QED
      BY <1>1, <2>1, <3>1 DEF BlockInv, HeardIsHeld
  <2>. QED
    BY <1>2, <2>1 DEF HeardIsHeld
<1>8. PureSymbols' /\ OwnNumbers'
  BY <1>2 DEF BlockInv, PureSymbols, OwnNumbers
<1>. QED
  BY <1>1, <1>2, <1>3, <1>6, <1>7, <1>8 DEF BlockInv

LEMMA FrameKeeps ==
  ASSUME NumbersSuffice, Known, BlockInv, NEW p, OnTheWire(p), GoesOn(p),
         Deliver(p) \/ \E damage : Fault(p, damage)
  PROVE  BlockInv'
<1>1. CASE Deliver(p)
  BY <1>1, AcceptKeeps, UnfiledKeeps DEF Deliver
<1>2. CASE \E damage : Fault(p, damage)
  <2>1. MayLose /\ UNCHANGED <<pool, windowVars, base, heard>>
    BY <1>2 DEF Fault, Unheard, DeliverInsane, DropInsane, DeliverGarbled,
                RecvUnparseable, Lose, vars
  <2>. QED
    BY <2>1, QuietKeeps DEF GoesOn
<1>. QED
  BY <1>1, <1>2

(* The packets the sender sends are near the block it is at.               *)
LEMMA InBandOnTheWire ==
  ASSUME NumbersSuffice, Known, BlockInv, Sender!InBand
  PROVE  OnTheWire(Sender!InBandPacket) /\ Sender!InBandPacket.blk = blk
<1>1. first = 0 /\ blk \in Nat /\ blk - first = blk
  BY LinkAssumption DEF Known, SenderInv, BlockInv
<1>2. Sender!InBandPacket \in WirePackets
  BY PacketTypes DEF Known
<1>3. Sender!InBandPacket.blk = blk /\ Sender!InBandPacket.sbn = blk % SbnMod
  BY <1>1 DEF Sender!InBandPacket, Sender!Packet
<1>. QED
  BY <1>1, <1>2, <1>3 DEF OnTheWire, NumbersSuffice

LEMMA ExtraOnTheWire ==
  ASSUME NumbersSuffice, Known, BlockInv,
         NEW b \in FirstBlk..LastBlk, Sender!Extra(b)
  PROVE  OnTheWire(Sender!ExtraPacket(b))
<1>1. first = 0 /\ blk \in Nat
  BY LinkAssumption DEF Known, SenderInv, BlockInv
<1>2. Sender!ExtraPacket(b) \in WirePackets
  BY PacketTypes DEF Known
<1>3. b \in Nat /\ b < blk /\ b >= blk - ExtraReach /\ ExtraReach \in Nat
  BY LinkAssumption DEF Sender!Extra, NumbersSuffice
<1>4. b - first = b
  BY <1>1, <1>3
<1>5. Sender!ExtraPacket(b).blk = b /\ Sender!ExtraPacket(b).sbn = b % SbnMod
  BY <1>4 DEF Sender!ExtraPacket, Sender!Packet
<1>. QED
  BY <1>1, <1>2, <1>3, <1>5 DEF OnTheWire

LEMMA InitBlockInv ==
  ASSUME NumbersSuffice, LinkInit
  PROVE  BlockInv
<1>1. /\ first = 0 /\ base = 0 /\ heard = {} /\ blk = FirstBlk /\ started = FALSE
      /\ DOMAIN pool = {}
  BY DEF LinkInit, Init
<1>. QED
  BY <1>1, LinkAssumption DEF BlockInv, PureSymbols, OwnNumbers

LEMMA NextBlockInv ==
  ASSUME NumbersSuffice, Known, BlockInv, [LinkNext]_linkAllVars
  PROVE  BlockInv'
<1>1. CASE Data
  <2>. DEFINE p == Sender!InBandPacket
  <2>1. Sender!InBand /\ (Deliver(p) \/ \E damage : Fault(p, damage))
    BY <1>1 DEF Data
  <2>2. OnTheWire(p) /\ p.blk = blk
    BY <2>1, InBandOnTheWire
  <2>. HIDE DEF p
  <2>3. GoesOn(p)
    BY <2>1, <2>2 DEF GoesOn, Sender!InBand
  <2>. QED
    BY <2>1, <2>2, <2>3, FrameKeeps
<1>2. ASSUME NEW b \in FirstBlk..LastBlk, ExtraData(b)
      PROVE  BlockInv'
  <2>. DEFINE p == Sender!ExtraPacket(b)
  <2>1. Sender!Extra(b) /\ (Deliver(p) \/ \E damage : Fault(p, damage))
    BY <1>2 DEF ExtraData
  <2>2. OnTheWire(p)
    BY <2>1, ExtraOnTheWire
  <2>. HIDE DEF p
  <2>3. GoesOn(p)
    BY <2>1 DEF GoesOn, Sender!Extra
  <2>. QED
    BY <2>1, <2>2, <2>3, FrameKeeps
<1>3. CASE Noop
  <2>1. UNCHANGED <<pool, windowVars, base, heard, first, blk>>
    BY <1>3 DEF Noop, Sender!Noop, RecvNoop, Unheard, DeliverGarbled,
                RecvUnparseable, Lose, vars
  <2>. QED
    BY <2>1, QuietKeeps
<1>4. ~EncRestart
  <2>1. budget.restart \in Nat /\ MaxRestarts - budget.restart \in Nat /\ MaxRestarts = 0
    BY DEF Known, LossTypes, Restarts, NumbersSuffice
  <2>2. ~(budget.restart > 0)
    BY <2>1
  <2>. QED
    BY <2>2 DEF EncRestart, Spend
<1>5. CASE DecoderStep
  BY <1>5, DecoderKeeps
<1>6. CASE UNCHANGED linkAllVars
  <2>1. UNCHANGED <<pool, windowVars, base, heard, first, blk>>
    BY <1>6 DEF linkAllVars, vars, ghostVars, senderVars
  <2>. QED
    BY <2>1, QuietKeeps
<1>. QED
  BY <1>1, <1>2, <1>3, <1>4, <1>5, <1>6 DEF LinkNext

LEMMA BlockInvariant == NumbersSuffice => (LinkSpec => [](Known /\ BlockInv))
<1>. SUFFICES ASSUME NumbersSuffice PROVE LinkSpec => [](Known /\ BlockInv)
  OBVIOUS
<1>1. LinkInit => BlockInv
  BY InitBlockInv
<1>2. Known /\ BlockInv /\ [LinkNext]_linkAllVars => BlockInv'
  BY NextBlockInv
<1>3. SenderInv /\ [LinkNext]_linkAllVars => SenderInv'
  BY NextSenderInv
<1>4. Known <=> IInv /\ LossTypes /\ SenderInv
  BY DEF Known
<1>. QED
  BY <1>1, <1>2, <1>3, <1>4, InitSenderInv, DecoderIsInside, Invariant, TypesInvariant,
     PTL DEF LinkSpec

-----------------------------------------------------------------------------
(* Symbols of different blocks are never mixed, however often the 8-bit    *)
(* numbers wrapped and whatever was lost (main.rs:250-254).                *)
THEOREM NeverMixed == NumbersSuffice => (LinkSpec => []PureSymbols)
<1>1. BlockInv => PureSymbols
  BY DEF BlockInv
<1>. QED
  BY <1>1, BlockInvariant, PTL

(* main.rs:327: a frame dropped as redundant is of a block the decoder is  *)
(* done with.                                                              *)
THEOREM OnlyOldIsDropped == NumbersSuffice => (LinkSpec => RedundantIsEmitted)
<1>. SUFFICES ASSUME NumbersSuffice PROVE LinkSpec => RedundantIsEmitted
  OBVIOUS
<1>1. Known /\ BlockInv /\ [LinkNext]_linkAllVars
        => [redundant_packets' # redundant_packets => wire_blk' < base + cursor]_linkAllVars
  <2>. SUFFICES ASSUME Known, BlockInv, [LinkNext]_linkAllVars,
                       redundant_packets' # redundant_packets
                PROVE  wire_blk' < base + cursor
    OBVIOUS
  <2>1. ASSUME NEW p, OnTheWire(p), Deliver(p)
        PROVE  wire_blk' < base + cursor
    <3>1. DropRedundant(DataFrame(p)) /\ wire_blk' = p.blk
      BY <2>1 DEF Deliver, Accept, Panic
    <3>. QED
      BY <2>1, <3>1, RedundantIsOld
  <2>2. CASE Data
    <3>1. Sender!InBand /\ Deliver(Sender!InBandPacket)
      BY <2>2 DEF Data, Fault, Unheard, DeliverInsane, DropInsane, DeliverGarbled,
                  RecvUnparseable, Lose, vars
    <3>. QED
      BY <2>1, <3>1, InBandOnTheWire
  <2>3. ASSUME NEW b \in FirstBlk..LastBlk, ExtraData(b)
        PROVE  wire_blk' < base + cursor
    <3>1. Sender!Extra(b) /\ Deliver(Sender!ExtraPacket(b))
      BY <2>3 DEF ExtraData, Fault, Unheard, DeliverInsane, DropInsane, DeliverGarbled,
                  RecvUnparseable, Lose, vars
    <3>. QED
      BY <2>1, <3>1, ExtraOnTheWire
  <2>4. CASE Noop \/ EncRestart \/ DecoderStep \/ UNCHANGED linkAllVars
    BY <2>4 DEF Noop, RecvNoop, Unheard, DeliverGarbled, RecvUnparseable, Lose, EncRestart, DecoderStep, PollTimeout, Disconnect,
       Drain, EmitDecoded, EmitBestEffort, EmitZero, Emit, DrainDone, Flush, FlushNext,
       FlushDone, StdoutError, Tick, vars, linkAllVars
  <2>. QED
    BY <2>2, <2>3, <2>4 DEF LinkNext
<1>. QED
  BY <1>1, BlockInvariant, PTL DEF RedundantIsEmitted, LinkSpec

(* src/raptorq/README.md:23: a block is written as zeros only if nothing   *)
(* of it was ever delivered.                                               *)
THEOREM ZerosAreUnheard == NumbersSuffice => (LinkSpec => ZeroMeansNothingCame)
<1>. SUFFICES ASSUME NumbersSuffice PROVE LinkSpec => ZeroMeansNothingCame
  OBVIOUS
<1>1. Known /\ BlockInv => (EmitZero => base + cursor \notin heard)
  <2>. SUFFICES ASSUME Known, BlockInv, EmitZero, base + cursor \in heard PROVE FALSE
    OBVIOUS
  <2>1. started /\ cursor \notin DOMAIN pool
    BY DEF EmitZero, HeadMissing, HeadHeld
  <2>2. base \in Nat /\ cursor \in Nat
    BY DEF Known, IInv, TypeOK, BlockInv
  <2>3. base + cursor >= base + cursor /\ (base + cursor) - base = cursor
    BY <2>2
  <2>4. (base + cursor) - base \in DOMAIN pool
    BY <2>1, <2>3 DEF BlockInv, HeardIsHeld
  <2>. QED
    BY <2>1, <2>3, <2>4
<1>2. Known /\ BlockInv /\ [LinkNext]_linkAllVars
        => [EmitZero => base + cursor \notin heard]_linkAllVars
  BY <1>1
<1>. QED
  BY <1>2, BlockInvariant, PTL DEF ZeroMeansNothingCame, LinkSpec

-----------------------------------------------------------------------------
(* What is held of a block is what was sent of it.                         *)

(* Quotients of natural numbers.                                           *)
LEMMA QuotientIs ==
  ASSUME NEW m \in Nat \ {0}, NEW q \in Nat, NEW r \in 0..m - 1
  PROVE  (m * q + r) \div m = q
<1>. DEFINE a == m * q + r
            d == a \div m
<1>1. m * q \in Nat /\ r \in Nat /\ r < m
  OBVIOUS
<1>2. a \in Nat
  BY <1>1
<1>. HIDE DEF a
<1>3. d \in Nat /\ a = m * d + (a % m) /\ a % m \in 0..m - 1
  BY <1>2, Division
<1>4. a % m = r
  BY <1>1, <1>2, RemainderIs DEF a
<1>. HIDE DEF d
<1>5. m * d \in Nat /\ m * d = m * q
  BY <1>1, <1>3, <1>4 DEF a
<1>6. ASSUME d < q PROVE FALSE
  <2>1. m * (d + 1) <= m * q /\ m * (d + 1) = m * d + m
    BY <1>3, <1>6
  <2>. QED
    BY <1>1, <1>5, <2>1
<1>7. ASSUME q < d PROVE FALSE
  <2>1. m * (q + 1) <= m * d /\ m * (q + 1) = m * q + m
    BY <1>3, <1>7
  <2>. QED
    BY <1>1, <1>5, <2>1
<1>8. d = q
  BY <1>3, <1>6, <1>7
<1>. QED
  BY <1>8 DEF a, d

(* interleave (enc main.rs:493-517) sends every source symbol of a block.  *)
LEMMA SourcesAreSent ==
  ASSUME NEW e \in 0..K - 1
  PROVE  \E q \in 0..K + Repair - 1 : Sender!Esi(q) = e
<1>. DEFINE r == Sender!rep_interval
            n == Sender!Paired
<1>1. /\ r \in Nat \ {0} /\ n \in Nat /\ n <= Repair /\ n * r <= K
      /\ K \in Nat \ {0} /\ Repair \in Nat
  BY IntervalOfRepair, LinkAssumption
<1>2. ASSUME NEW p \in Nat
      PROVE  Sender!Esi(p) =
        CASE p \div (r + 1) < n /\ p % (r + 1) < r -> ((p \div (r + 1)) * r) + (p % (r + 1))
          [] p \div (r + 1) < n /\ p % (r + 1) = r -> K + p \div (r + 1)
          [] p \div (r + 1) >= n /\ p - n * (r + 1) < K - n * r ->
               n * r + (p - n * (r + 1))
          [] OTHER -> K + n + (p - n * (r + 1)) - (K - n * r)
  BY DEF Sender!Esi
<1>. HIDE DEF r, n
<1>3. n * r \in Nat /\ n * (r + 1) = n * r + n /\ r + 1 \in Nat \ {0} /\ r = (r + 1) - 1
  BY <1>1
<1>4. CASE e < n * r
  <2>. DEFINE a == e \div r
              c == e % r
  <2>1. a \in Nat /\ e = r * a + c /\ c \in 0..r - 1
    <3>1. e \in Nat
      BY <1>1
    <3>. QED
      BY <1>1, <3>1, Division
  <2>. HIDE DEF a, c
  <2>2. a < n
    <3>1. ASSUME n <= a PROVE FALSE
      <4>1. n * r <= a * r /\ a * r = r * a /\ r * a \in Nat
        BY <1>1, <2>1, <3>1
      <4>. QED
        BY <1>3, <1>4, <2>1, <4>1
    <3>. QED
      BY <1>1, <2>1, <3>1
  <2>. DEFINE q == (r + 1) * a + c
  <2>3. c \in 0..(r + 1) - 1
    BY <1>1, <2>1
  <2>4. q \in Nat
    BY <1>3, <2>1
  <2>5. q \div (r + 1) = a /\ q % (r + 1) = c
    BY <1>3, <2>1, <2>3, <2>4, QuotientIs, RemainderIs
  <2>6. q \in 0..K + Repair - 1
    <3>1. (a + 1) * (r + 1) <= n * (r + 1) /\ (a + 1) * (r + 1) = (r + 1) * a + (r + 1)
      BY <1>1, <2>1, <2>2
    <3>2. (r + 1) * a \in Nat /\ c < r + 1
      BY <1>1, <2>1
    <3>3. \A x, y, d, s \in Nat : x + s <= y + n /\ y <= K /\ d < s => x + d < K + n
      BY <1>1
    <3>4. (r + 1) * a + (r + 1) <= n * r + n
      BY <1>3, <3>1
    <3>5. c \in Nat /\ r + 1 \in Nat
      BY <1>1, <2>1
    <3>6. q < K + n
      BY <1>1, <1>3, <3>2, <3>3, <3>4, <3>5
    <3>. QED
      BY <1>1, <2>4, <3>6
  <2>. HIDE DEF q
  <2>7. Sender!Esi(q) = a * r + c
    <3>1. Sender!Esi(q) =
        CASE a < n /\ c < r -> a * r + c
          [] a < n /\ c = r -> K + a
          [] a >= n /\ q - n * (r + 1) < K - n * r -> n * r + (q - n * (r + 1))
          [] OTHER -> K + n + (q - n * (r + 1)) - (K - n * r)
      BY <1>2, <2>4, <2>5
    <3>2. a < n /\ c < r /\ ~(a < n /\ c = r) /\ ~(a >= n)
      BY <1>1, <2>1, <2>2
    <3>. QED
      BY <3>1, <3>2
  <2>8. a * r + c = e
    BY <1>1, <2>1
  <2>. QED
    BY <2>6, <2>7, <2>8
<1>5. CASE e >= n * r
  <2>. DEFINE q == e + n
              pair == q \div (r + 1)
  <2>1. /\ q \in Nat /\ q \in 0..K + Repair - 1 /\ q >= n * (r + 1)
        /\ q - n * (r + 1) = e - n * r /\ e - n * r < K - n * r
        /\ n * r + (e - n * r) = e
    BY <1>1, <1>3, <1>5
  <2>2. pair \in Nat /\ q = (r + 1) * pair + (q % (r + 1)) /\ q % (r + 1) \in 0..r
    <3>. DEFINE m == r + 1
    <3>1. m \in Nat \ {0} /\ r = m - 1
      BY <1>3
    <3>. HIDE DEF q, m
    <3>2. q \div m \in Nat /\ q = m * (q \div m) + (q % m) /\ q % m \in 0..m - 1
      BY <2>1, <3>1, Division
    <3>. QED
      BY <3>1, <3>2 DEF m
  <2>. HIDE DEF q, pair
  <2>3. pair >= n
    <3>1. ASSUME pair < n PROVE FALSE
      <4>1. (pair + 1) * (r + 1) <= n * (r + 1)
            /\ (pair + 1) * (r + 1) = (r + 1) * pair + (r + 1)
            /\ (r + 1) * pair \in Nat
        BY <1>1, <2>2, <3>1
      <4>. QED
        BY <1>1, <1>3, <2>1, <2>2, <4>1
    <3>. QED
      BY <1>1, <2>2, <3>1
  <2>4. Sender!Esi(q) = n * r + (e - n * r)
    <3>1. Sender!Esi(q) =
        CASE pair < n /\ q % (r + 1) < r -> (pair * r) + (q % (r + 1))
          [] pair < n /\ q % (r + 1) = r -> K + pair
          [] pair >= n /\ e - n * r < K - n * r -> n * r + (e - n * r)
          [] OTHER -> K + n + (e - n * r) - (K - n * r)
      BY <1>2, <2>1 DEF pair
    <3>2. ~(pair < n)
      BY <1>1, <2>2, <2>3
    <3>. QED
      BY <2>1, <2>3, <3>1, <3>2
  <2>. QED
    BY <2>1, <2>4
<1>. QED
  BY <1>1, <1>3, <1>4, <1>5

(* A frame of the wire's size announces a block of K source symbols.       *)
LEMMA WireBlockSize ==
  \A sbn : NewBlockState(sbn, WireOti).k = K /\ ~NewBlockState(sbn, WireOti).completed
<1>1. SymbolSize \in Nat \ {0} /\ K \in Nat
  BY DecAssumption, LinkAssumption
<1>2. K * SymbolSize = SymbolSize * K + 0 /\ 0 \in 0..SymbolSize - 1
  BY <1>1
<1>3. (K * SymbolSize) \div SymbolSize = K
  BY <1>1, <1>2, QuotientIs
<1>. QED
  BY <1>3 DEF NewBlockState, WireOti

(* The places of a block whose symbols were sent in band.                  *)
SentOf(b) == {q \in 0..K + Repair - 1 : b < blk \/ (b = blk /\ q < pos)}

Got(block, e) == block.completed \/ \E s \in block.symbols : s.esi = e
Has(n, e) == n \in DOMAIN pool /\ Got(pool[n], e)

(* What was sent of a block that lost nothing is held until the block is   *)
(* written, and before the first frame is heard everything is lost.        *)
Gathered ==
  \A b \in (FirstBlk..LastBlk) \ hurt : \A q \in SentOf(b) :
    started /\ (b >= base + cursor => Has(b - base, Sender!Esi(q)))

(* A block of which all source symbols are held is decoded.                *)
Decoded ==
  \A n \in DOMAIN pool :
    /\ pool[n].k = K /\ base + n \in FirstBlk..LastBlk
    /\ (\A e \in 0..K - 1 : \E s \in pool[n].symbols : s.esi = e) => pool[n].completed

GatherInv == Gathered /\ Decoded

LEMMA InitGatherInv == ASSUME LinkInit PROVE GatherInv
<1>1. blk = FirstBlk /\ pos = 0 /\ DOMAIN pool = {}
  BY DEF LinkInit, Init
<1>2. \A b \in FirstBlk..LastBlk : SentOf(b) = {}
  BY <1>1, LinkAssumption DEF SentOf
<1>. QED
  BY <1>1, <1>2 DEF GatherInv, Gathered, Decoded

(* ingest (main.rs:156) keeps what it has, takes what came, and decodes    *)
(* once it has every source symbol.                                        *)
LEMMA IngestGathers ==
  ASSUME NEW b \in BlockStates, NEW e, NEW s, NEW c \in ingest(b, e, s)
  PROVE  /\ c.k = b.k
         /\ b.completed => c.completed
         /\ b.symbols \subseteq c.symbols
         /\ c.completed \/ \E x \in c.symbols : x.esi = e
         /\ (\A i \in 0..b.k - 1 : \E x \in c.symbols : x.esi = i) => c.completed
<1>1. CASE b.completed
  BY <1>1 DEF ingest
<1>2. CASE ~b.completed
  <2>. DEFINE known == \E x \in b.symbols : x.esi = e
              symbols == IF known THEN b.symbols
                         ELSE b.symbols \cup {[esi |-> e, symbol |-> s]}
  <2>1. PICK d \in DecodeOutcomes(b.k, symbols) :
          c = [b EXCEPT !.symbols = symbols, !.completed = d]
    BY <1>2 DEF ingest
  <2>2. b.symbols \subseteq symbols /\ \E x \in symbols : x.esi = e
    <3>1. CASE known
      BY <3>1
    <3>2. CASE ~known
      <4>1. [esi |-> e, symbol |-> s] \in symbols /\ [esi |-> e, symbol |-> s].esi = e
        BY <3>2
      <4>. QED
        BY <3>2, <4>1
    <3>. QED
      BY <3>1, <3>2
  <2>. HIDE DEF symbols
  <2>3. c.symbols = symbols /\ c.completed = d /\ c.k = b.k
    BY <2>1 DEF BlockStates
  <2>4. ASSUME \A i \in 0..b.k - 1 : \E x \in symbols : x.esi = i
        PROVE  d
    <3>1. 0..b.k - 1 \subseteq {x.esi : x \in symbols}
      BY <2>4
    <3>2. DecodeOutcomes(b.k, symbols) = {TRUE}
      BY <3>1 DEF DecodeOutcomes
    <3>. QED
      BY <2>1, <3>2
  <2>. QED
    BY <1>2, <2>2, <2>3, <2>4
<1>. QED
  BY <1>1, <1>2

(* An accepted frame finds the place of its block.                         *)
LEMMA AcceptPlaces ==
  ASSUME NumbersSuffice, Known, BlockInv, NEW p, OnTheWire(p), Accept(DataFrame(p)),
         base' = IF started THEN base ELSE p.blk - p.sbn
  PROVE  /\ Logical(DataFrame(p)) \in Nat
         /\ p.blk = base' + Logical(DataFrame(p))
         /\ base' \in Nat
<1>1. DataFrame(p).sbn = p.sbn /\ p.sbn = p.blk % SbnMod
  BY DEF DataFrame, OnTheWire
<1>2. /\ p.blk \in Nat /\ p.sbn \in Nat /\ p.blk <= blk /\ blk <= p.blk + ExtraReach
      /\ p.blk - p.sbn \in Nat
  <2>1. p.blk \in Nat /\ p.sbn \in Nat /\ SbnMod \in Nat \ {0}
    BY LinkAssumption, DecAssumption DEF OnTheWire, WirePackets
  <2>2. \A a \in Nat, m \in Nat \ {0} : a - (a % m) \in Nat
    <3>. SUFFICES ASSUME NEW a \in Nat, NEW m \in Nat \ {0} PROVE a - (a % m) \in Nat
      OBVIOUS
    <3>1. PICK q \in Nat, r \in 0..m - 1 : a = m * q + r /\ r = a % m
      BY Division
    <3>2. m * q \in Nat
      OBVIOUS
    <3>. QED
      BY <3>1, <3>2
  <2>. QED
    BY <1>1, <2>1, <2>2 DEF OnTheWire
<1>3. pc = "recv" /\ Logical(DataFrame(p)) >= CursorAt(DataFrame(p))
  BY DEF Accept, Receive
<1>4. CASE started
  <2>1. base \in Nat /\ cursor \in Nat /\ p.blk >= base
    BY <1>4, AcceptIsAhead DEF Known, IInv, TypeOK, BlockInv
  <2>2. Logical(DataFrame(p)) = IF p.blk - base < 0 THEN 0 ELSE p.blk - base
    BY <1>1, <1>2, <1>3, <1>4, NumberTells DEF Logical
  <2>. QED
    BY <1>2, <1>4, <2>1, <2>2
<1>5. CASE ~started
  <2>1. Logical(DataFrame(p)) = p.sbn
    BY <1>1, <1>5 DEF Logical
  <2>. QED
    BY <1>2, <1>5, <2>1
<1>. QED
  BY <1>4, <1>5

LEMMA AcceptGathers ==
  ASSUME NumbersSuffice, Known, BlockInv, GatherInv, NEW p, OnTheWire(p),
         Accept(DataFrame(p)),
         base' = IF started THEN base ELSE p.blk - p.sbn,
         hurt' = hurt,
         \A b \in FirstBlk..LastBlk : \A q \in SentOf(b)' :
           q \in SentOf(b) \/ (b = p.blk /\ Sender!Esi(q) = p.esi)
  PROVE  GatherInv'
<1>0. PICK n : n = Logical(DataFrame(p))
  OBVIOUS
<1>. DEFINE entry == IF n \in DOMAIN pool THEN pool[n]
                     ELSE NewBlockState(p.sbn, WireOti)
<1>1. /\ DataFrame(p).oti = WireOti /\ DataFrame(p).esi = p.esi
      /\ DataFrame(p).symbol = p.blk /\ DataFrame(p).sbn = p.sbn
  BY DEF DataFrame
<1>2. /\ started' = TRUE /\ cursor' = CursorAt(DataFrame(p)) /\ oti_is_sane(WireOti)
      /\ started => base' = base /\ cursor' = cursor
  BY <1>1 DEF Accept, CursorAt
<1>3. n \in Nat /\ p.blk = base' + n /\ base' \in Nat /\ p.blk \in FirstBlk..LastBlk
  <2>1. p.blk \in FirstBlk..LastBlk
    BY DEF OnTheWire, WirePackets
  <2>. QED
    BY <1>0, <2>1, AcceptPlaces
<1>4. PICK c \in ingest(entry, p.esi, p.blk) : pool' = With(n, c)
  BY <1>0, <1>1 DEF Accept, Entry
<1>5. /\ DOMAIN pool' = DOMAIN pool \cup {n}
      /\ pool'[n] = c
      /\ \A m \in DOMAIN pool : m # n => pool'[m] = pool[m]
  BY <1>4 DEF With
<1>6. n \in DOMAIN pool => entry = pool[n]
  OBVIOUS
<1>7. entry \in BlockStates /\ entry.k = K
  <2>1. CASE n \in DOMAIN pool
    BY <2>1 DEF Known, IInv, TypeOK, GatherInv, Decoded
  <2>2. CASE n \notin DOMAIN pool
    <3>1. WireOti \in Otis
      BY LinkAssumption DEF WireOti
    <3>2. p.sbn \in 0..SbnMod - 1
      BY DEF OnTheWire, WirePackets
    <3>. QED
      BY <1>2, <2>2, <3>1, <3>2, NewBlockStateType, WireBlockSize
  <2>. QED
    BY <2>1, <2>2
<1>. HIDE DEF entry
<1>8. /\ c.k = K
      /\ entry.completed => c.completed
      /\ entry.symbols \subseteq c.symbols
      /\ c.completed \/ \E x \in c.symbols : x.esi = p.esi
      /\ (\A i \in 0..K - 1 : \E x \in c.symbols : x.esi = i) => c.completed
  BY <1>7, IngestGathers
<1>9. ASSUME NEW m \in DOMAIN pool PROVE started /\ base' = base
  BY <1>2 DEF Known, IInv, IdleIsEmpty
<1>10. Decoded'
  <2>1. ASSUME NEW m \in DOMAIN pool'
        PROVE  /\ pool'[m].k = K /\ base' + m \in FirstBlk..LastBlk
               /\ (\A e \in 0..K - 1 : \E s \in pool'[m].symbols : s.esi = e)
                    => pool'[m].completed
    <3>1. CASE m = n
      BY <1>3, <1>5, <1>8, <3>1
    <3>2. CASE m # n
      <4>1. m \in DOMAIN pool /\ pool'[m] = pool[m]
        BY <1>5, <3>2
      <4>. QED
        BY <1>9, <4>1 DEF GatherInv, Decoded
    <3>. QED
      BY <3>1, <3>2
  <2>. QED
    BY <2>1 DEF Decoded
<1>11. ASSUME NEW m \in DOMAIN pool, NEW e, Got(pool[m], e)
       PROVE  m \in DOMAIN pool' /\ Got(pool'[m], e)
  <2>1. CASE m = n
    BY <1>5, <1>6, <1>8, <1>11, <2>1 DEF Got
  <2>2. CASE m # n
    BY <1>5, <1>11, <2>2
  <2>. QED
    BY <2>1, <2>2
<1>12. n \in DOMAIN pool' /\ Got(pool'[n], p.esi)
  BY <1>5, <1>8 DEF Got
<1>13. ASSUME NEW b \in (FirstBlk..LastBlk) \ hurt, NEW q \in SentOf(b)',
              b >= base' + cursor'
       PROVE  b - base' \in DOMAIN pool' /\ Got(pool'[b - base'], Sender!Esi(q))
  <2>1. CASE q \in SentOf(b)
    <3>1. started /\ (b >= base + cursor => Has(b - base, Sender!Esi(q)))
      BY <2>1 DEF GatherInv, Gathered
    <3>2. base' = base /\ cursor' = cursor
      BY <1>2, <3>1
    <3>3. b - base \in DOMAIN pool /\ Got(pool[b - base], Sender!Esi(q))
      BY <1>13, <3>1, <3>2 DEF Has
    <3>. QED
      BY <1>11, <3>2, <3>3
  <2>2. CASE b = p.blk /\ Sender!Esi(q) = p.esi
    <3>1. b - base' = n
      BY <1>3, <2>2
    <3>. QED
      BY <1>12, <2>2, <3>1
  <2>. QED
    BY <2>1, <2>2
<1>14. Gathered'
  <2>1. ASSUME NEW b \in (FirstBlk..LastBlk) \ hurt', NEW q \in SentOf(b)',
               b >= base' + cursor'
        PROVE  Has(b - base, Sender!Esi(q))'
    BY <1>13, <2>1 DEF Has
  <2>. QED
    BY <1>2, <2>1 DEF Gathered
<1>. QED
  BY <1>10, <1>14 DEF GatherInv

LEMMA PastTheCursor ==
  \A a, b, c, d \in Nat : c <= d /\ a >= b + d => a >= b + c /\ a - b >= d
OBVIOUS

(* Every other step: what goes from the pool is before the cursor, and     *)
(* what is newly sent is of a block that is hurt or written.               *)
LEMMA OthersGather ==
  ASSUME Known, BlockInv, GatherInv,
         base' = base, started' = started, cursor' \in Nat, cursor <= cursor',
         hurt \subseteq hurt',
         DOMAIN pool' \subseteq DOMAIN pool,
         \A m \in DOMAIN pool : m >= cursor' => m \in DOMAIN pool',
         \A m \in DOMAIN pool' : /\ pool'[m].k = pool[m].k
                                 /\ pool'[m].symbols = pool[m].symbols
                                 /\ pool'[m].completed = pool[m].completed,
         \A b \in (FirstBlk..LastBlk) \ hurt' : \A q \in SentOf(b)' :
           q \in SentOf(b) \/ (started /\ b < base + cursor)
  PROVE  GatherInv'
<1>1. cursor \in Nat /\ base \in Nat /\ FirstBlk..LastBlk \subseteq Nat
  <2>1. cursor \in Nat
    BY DEF Known, IInv, TypeOK
  <2>2. base \in Nat
    BY DEF BlockInv
  <2>3. FirstBlk..LastBlk \subseteq Nat
    BY LinkAssumption
  <2>. QED
    BY <2>1, <2>2, <2>3
<1>2. Decoded'
  BY DEF GatherInv, Decoded
<1>3. ASSUME NEW b \in (FirstBlk..LastBlk) \ hurt', NEW q \in SentOf(b)'
      PROVE  started /\ (b >= base + cursor' => Has(b - base, Sender!Esi(q))')
  <2>0. b \in Nat
    BY <1>1
  <2>1. CASE q \in SentOf(b)
    <3>1. started /\ (b >= base + cursor => Has(b - base, Sender!Esi(q)))
      BY <2>1 DEF GatherInv, Gathered
    <3>2. ASSUME b >= base + cursor' PROVE Has(b - base, Sender!Esi(q))'
      <4>1. b >= base + cursor /\ b - base >= cursor'
        BY <1>1, <2>0, <3>2, PastTheCursor
      <4>2. b - base \in DOMAIN pool /\ Got(pool[b - base], Sender!Esi(q))
        BY <3>1, <4>1 DEF Has
      <4>3. b - base \in DOMAIN pool'
        BY <4>1, <4>2
      <4>. QED
        BY <4>2, <4>3 DEF Has, Got
    <3>. QED
      BY <3>1, <3>2
  <2>2. CASE started /\ b < base + cursor
    <3>1. ASSUME b >= base + cursor' PROVE FALSE
      <4>1. b >= base + cursor
        BY <1>1, <2>0, <3>1, PastTheCursor
      <4>. QED
        BY <1>1, <2>0, <2>2, <4>1
    <3>. QED
      BY <2>2, <3>1
  <2>. QED
    BY <2>1, <2>2
<1>4. Gathered'
  BY <1>3 DEF Gathered
<1>. QED
  BY <1>2, <1>4 DEF GatherInv

(* In band one more place of the block being sent is filled.               *)
LEMMA InBandSends ==
  ASSUME SenderInv, Sender!InBand, NEW b \in FirstBlk..LastBlk, NEW q \in SentOf(b)'
  PROVE  q \in SentOf(b) \/ (b = blk /\ q = pos)
<1>1. /\ b \in Nat /\ blk \in Nat /\ K \in Nat /\ Repair \in Nat
      /\ q \in 0..K + Repair - 1 /\ pos \in 0..K + Repair - 1
      /\ b < blk' \/ (b = blk' /\ q < pos')
  BY LinkAssumption DEF SenderInv, SentOf
<1>2. CASE Sender!LastOfBlock
  <2>1. blk' = blk + 1 /\ pos' = 0 /\ pos = K + Repair - 1
    BY <1>2 DEF Sender!InBand, Sender!LastOfBlock
  <2>2. b < blk \/ (b = blk /\ (q < pos \/ q = pos))
    BY <1>1, <2>1
  <2>. QED
    BY <1>1, <2>2 DEF SentOf
<1>3. CASE ~Sender!LastOfBlock
  <2>1. blk' = blk /\ pos' = pos + 1
    BY <1>3 DEF Sender!InBand
  <2>2. b < blk \/ (b = blk /\ (q < pos \/ q = pos))
    BY <1>1, <2>1
  <2>. QED
    BY <1>1, <2>2 DEF SentOf
<1>. QED
  BY <1>2, <1>3

(* The decoder on its own.                                                 *)
LEMMA DecoderGathers ==
  ASSUME Known, BlockInv, GatherInv, DecoderStep
  PROVE  GatherInv'
<1>1. /\ base' = base /\ hurt' = hurt /\ blk' = blk /\ pos' = pos
  BY DEF DecoderStep, senderVars, ghostVars
<1>2. \A b \in FirstBlk..LastBlk : SentOf(b)' = SentOf(b)
  BY <1>1 DEF SentOf
<1>3. cursor \in Nat /\ DOMAIN pool \subseteq Nat
  BY DEF Known, IInv, TypeOK
<1>4. CASE PollTimeout \/ Disconnect \/ DrainDone \/ FlushDone \/ StdoutError
  <2>1. UNCHANGED <<pool, cursor, started>>
    BY <1>4 DEF PollTimeout, Disconnect, DrainDone, FlushDone, StdoutError, windowVars
  <2>. QED
    BY <1>1, <1>2, <1>3, <2>1, OthersGather
<1>5. CASE Tick
  <2>1. UNCHANGED <<cursor, started>> /\ DOMAIN pool' = DOMAIN pool
    BY <1>5 DEF Tick, windowVars
  <2>2. \A m \in DOMAIN pool : /\ pool'[m].k = pool[m].k
                               /\ pool'[m].symbols = pool[m].symbols
                               /\ pool'[m].completed = pool[m].completed
    BY <1>5 DEF Tick, Known, IInv, TypeOK, BlockStates
  <2>. QED
    BY <1>1, <1>2, <1>3, <2>1, <2>2, OthersGather
<1>6. ASSUME NEW n \in Nat, cursor <= n, pool' = Without(n), cursor' = n + 1,
             started' = started,
             \A m \in DOMAIN pool : m # n => m > n
      PROVE  GatherInv'
  <2>1. /\ DOMAIN pool' = DOMAIN pool \ {n}
        /\ \A m \in DOMAIN pool' : pool'[m] = pool[m]
    BY <1>6 DEF Without
  <2>2. cursor' \in Nat /\ cursor <= cursor'
    BY <1>3, <1>6
  <2>3. \A m \in DOMAIN pool : m >= cursor' => m \in DOMAIN pool'
    BY <1>3, <1>6, <2>1
  <2>. QED
    BY <1>1, <1>2, <1>6, <2>1, <2>2, <2>3, OthersGather
<1>7. CASE EmitDecoded \/ EmitBestEffort \/ EmitZero
  <2>1. pool' = Without(cursor) /\ cursor' = cursor + 1 /\ started' = started
    BY <1>7 DEF EmitDecoded, EmitBestEffort, EmitZero, Emit
  <2>2. \A m \in DOMAIN pool : m # cursor => m > cursor
    BY <1>3 DEF Known, IInv, HeldAhead
  <2>. QED
    BY <1>3, <1>6, <2>1, <2>2
<1>8. CASE FlushNext
  <2>1. PICK n \in DOMAIN pool : FirstHeld(n) /\ pool' = Without(n) /\ cursor' = n + 1
    BY <1>8 DEF FlushNext
  <2>2. started' = started
    BY <1>8 DEF FlushNext
  <2>3. \A m \in DOMAIN pool : m # n => m > n
    BY <1>3, <2>1 DEF FirstHeld
  <2>4. n \in Nat /\ cursor <= n
    BY <1>3 DEF Known, IInv, HeldAhead
  <2>. QED
    BY <1>6, <2>1, <2>2, <2>3, <2>4
<1>. QED
  BY <1>4, <1>5, <1>7, <1>8 DEF DecoderStep, Drain, Flush

LEMMA NextGatherInv ==
  ASSUME NumbersSuffice, Known, BlockInv, GatherInv, [LinkNext]_linkAllVars
  PROVE  GatherInv'
<1>0. SenderInv /\ cursor \in Nat
  BY DEF Known, IInv, TypeOK
<1>1. ASSUME NEW p, OnTheWire(p),
             DropRedundant(DataFrame(p)) \/ Panic(DataFrame(p)),
             base' = (IF started THEN base ELSE p.blk - p.sbn), hurt' = hurt,
             \A b \in FirstBlk..LastBlk : \A q \in SentOf(b)' :
               q \in SentOf(b) \/ (b = p.blk /\ Sender!Esi(q) = p.esi)
      PROVE  GatherInv'
  <2>1. started /\ p.blk < base + cursor
    BY <1>1, UnfiledIsOld
  <2>2. UNCHANGED <<pool, cursor, started, base>>
    BY <1>1, <2>1 DEF DropRedundant, Panic, windowVars
  <2>. QED
    BY <1>0, <1>1, <2>1, <2>2, OthersGather
<1>2. ASSUME NEW p, OnTheWire(p), Deliver(p),
             \A b \in FirstBlk..LastBlk : \A q \in SentOf(b)' :
               q \in SentOf(b) \/ (b = p.blk /\ Sender!Esi(q) = p.esi)
      PROVE  GatherInv'
  <2>1. /\ base' = IF started THEN base ELSE p.blk - p.sbn
        /\ hurt' = hurt
        /\ DropRedundant(DataFrame(p)) \/ Accept(DataFrame(p)) \/ Panic(DataFrame(p))
    BY <1>2 DEF Deliver
  <2>. QED
    BY <1>1, <1>2, <2>1, AcceptGathers
<1>3. CASE Data
  <2>. DEFINE p == Sender!InBandPacket
  <2>1. Sender!InBand /\ (Deliver(p) \/ Fault(p, {p.blk}))
    BY <1>3 DEF Data
  <2>2. p.blk = blk /\ p.esi = Sender!Esi(pos) /\ OnTheWire(p)
    BY <2>1, InBandOnTheWire DEF Sender!InBandPacket, Sender!Packet
  <2>. HIDE DEF p
  <2>3. \A b \in FirstBlk..LastBlk : \A q \in SentOf(b)' :
          q \in SentOf(b) \/ (b = blk /\ q = pos)
    BY <1>0, <2>1, InBandSends
  <2>4. CASE Deliver(p)
    BY <1>2, <2>2, <2>3, <2>4
  <2>5. CASE Fault(p, {p.blk})
    <3>1. UNCHANGED <<pool, cursor, started, base>> /\ hurt' = hurt \cup {blk}
      BY <2>2, <2>5 DEF Fault, Unheard, DeliverInsane, DropInsane, DeliverGarbled,
                        RecvUnparseable, Lose, vars, windowVars
    <3>. QED
      BY <1>0, <2>3, <3>1, OthersGather
  <2>. QED
    BY <2>1, <2>4, <2>5
<1>4. ASSUME NEW b \in FirstBlk..LastBlk, ExtraData(b)
      PROVE  GatherInv'
  <2>. DEFINE p == Sender!ExtraPacket(b)
  <2>1. Sender!Extra(b) /\ (Deliver(p) \/ Fault(p, {}))
    BY <1>4 DEF ExtraData
  <2>2. blk' = blk /\ pos' = pos
    BY <2>1 DEF Sender!Extra
  <2>3. \A x \in FirstBlk..LastBlk : SentOf(x)' = SentOf(x)
    BY <2>2 DEF SentOf
  <2>4. OnTheWire(p)
    BY <2>1, ExtraOnTheWire
  <2>. HIDE DEF p
  <2>5. CASE Deliver(p)
    BY <1>2, <2>3, <2>4, <2>5
  <2>6. CASE Fault(p, {})
    <3>1. UNCHANGED <<pool, cursor, started, base, hurt>>
      BY <2>6 DEF Fault, Unheard, DeliverInsane, DropInsane, DeliverGarbled,
                  RecvUnparseable, Lose, vars, windowVars
    <3>. QED
      BY <1>0, <2>3, <3>1, OthersGather
  <2>. QED
    BY <2>1, <2>5, <2>6
<1>5. CASE Noop \/ UNCHANGED linkAllVars
  <2>1. UNCHANGED <<pool, cursor, started, base, blk, pos>> /\ hurt \subseteq hurt'
    BY <1>5 DEF Noop, Sender!Noop, RecvNoop, Unheard, DeliverGarbled, RecvUnparseable,
                Lose, vars, windowVars, linkAllVars, senderVars, ghostVars
  <2>2. \A x \in FirstBlk..LastBlk : SentOf(x)' = SentOf(x)
    BY <2>1 DEF SentOf
  <2>. QED
    BY <1>0, <2>1, <2>2, OthersGather
<1>6. ~EncRestart
  <2>1. budget.restart \in Nat /\ MaxRestarts - budget.restart \in Nat /\ MaxRestarts = 0
    BY DEF Known, LossTypes, Restarts, NumbersSuffice
  <2>2. ~(budget.restart > 0)
    BY <2>1
  <2>. QED
    BY <2>2 DEF EncRestart, Spend
<1>7. CASE DecoderStep
  BY <1>7, DecoderGathers
<1>. QED
  BY <1>3, <1>4, <1>5, <1>6, <1>7 DEF LinkNext

LEMMA GatherInvariant ==
  NumbersSuffice => (LinkSpec => [](Known /\ BlockInv /\ GatherInv))
<1>. SUFFICES ASSUME NumbersSuffice
              PROVE  LinkSpec => [](Known /\ BlockInv /\ GatherInv)
  OBVIOUS
<1>1. LinkInit => GatherInv
  BY InitGatherInv
<1>2. Known /\ BlockInv /\ GatherInv /\ [LinkNext]_linkAllVars => GatherInv'
  BY NextGatherInv
<1>. QED
  BY <1>1, <1>2, BlockInvariant, PTL DEF LinkSpec

-----------------------------------------------------------------------------
(* Nothing heard of is left out, and blocks that were given up are blocks  *)
(* that lost a symbol: what is held of a block is what was sent of it.     *)

(* Only blocks that were heard of are written.                             *)
LEMMA WrittenWasSeen ==
  ASSUME Known, DecoderStep
  PROVE  /\ UNCHANGED <<highest_seen, started>>
         /\ cursor' # cursor => started /\ cursor' \in Nat
                                /\ cursor < cursor' /\ cursor' <= highest_seen + 1
<1>1. cursor \in Nat /\ highest_seen \in Nat /\ DOMAIN pool \subseteq Nat
  BY DEF Known, IInv, TypeOK
<1>2. CASE PollTimeout \/ Disconnect \/ DrainDone \/ FlushDone \/ StdoutError \/ Tick
  BY <1>2 DEF PollTimeout, Disconnect, DrainDone, FlushDone, StdoutError, Tick, windowVars
<1>3. CASE EmitDecoded \/ EmitBestEffort \/ EmitZero
  <2>1. cursor' = cursor + 1 /\ UNCHANGED <<highest_seen, started>>
    BY <1>3 DEF EmitDecoded, EmitBestEffort, EmitZero, Emit
  <2>2. started /\ cursor <= highest_seen
    <3>1. CASE HeadHeld
      BY <3>1 DEF HeadHeld, Known, IInv, IdleIsEmpty, NewestIsHeld
    <3>2. CASE HeadMissing /\ should_force
      <4>1. PICK m \in DOMAIN pool : m >= cursor + MaxInFlight
        BY <3>2 DEF should_force
      <4>2. m <= highest_seen
        BY DEF Known, IInv, NewestIsHeld
      <4>. QED
        BY <1>1, <3>2, <4>1, <4>2, DecAssumption DEF HeadMissing
    <3>3. CASE HeadMissing /\ NewestFarAhead
      BY <1>1, <3>3, DecAssumption DEF HeadMissing, NewestFarAhead
    <3>. QED
      BY <1>3, <3>1, <3>2, <3>3
         DEF EmitDecoded, EmitBestEffort, EmitZero, HeadReady, HeadOverdue, HeadForced,
             HeadMissing
  <2>. QED
    BY <1>1, <2>1, <2>2
<1>4. CASE FlushNext
  <2>1. PICK n \in DOMAIN pool : cursor' = n + 1
    BY <1>4 DEF FlushNext
  <2>2. UNCHANGED <<highest_seen, started>>
    BY <1>4 DEF FlushNext
  <2>3. started /\ n \in Nat /\ n <= highest_seen /\ cursor <= n
    BY <1>1 DEF Known, IInv, IdleIsEmpty, NewestIsHeld, HeldAhead
  <2>. QED
    BY <1>1, <2>1, <2>2, <2>3
<1>. QED
  BY <1>2, <1>3, <1>4 DEF DecoderStep, Drain, Flush

(* Block n is written, in its turn or, at the end, as the first held.      *)
PutsOut(n, kind, len) ==
  /\ started /\ cursor <= n /\ n <= highest_seen
  /\ out' = Append(out, [blk |-> n, kind |-> kind, len |-> len])
  /\ cursor' = n + 1 /\ DOMAIN pool' = DOMAIN pool \ {n}
  /\ pc' = pc
  /\ IF pc = "flush" THEN n \in DOMAIN pool ELSE n = cursor
  /\ \A m \in DOMAIN pool : n <= m

LEMMA WriteSteps ==
  ASSUME Known, DecoderStep
  PROVE  \/ UNCHANGED <<out, cursor>> /\ DOMAIN pool' = DOMAIN pool
         \/ \E n \in Nat : \E kind, len : PutsOut(n, kind, len)
<1>1. cursor \in Nat /\ highest_seen \in Nat /\ DOMAIN pool \subseteq Nat
  BY DEF Known, IInv, TypeOK
<1>2. CASE PollTimeout \/ Disconnect \/ DrainDone \/ FlushDone \/ StdoutError
  BY <1>2 DEF PollTimeout, Disconnect, DrainDone, FlushDone, StdoutError, windowVars
<1>3. CASE Tick
  BY <1>3 DEF Tick, windowVars
<1>4. ASSUME NEW kind, NEW len, Emit(kind, len)
      PROVE  /\ out' = Append(out, [blk |-> cursor, kind |-> kind, len |-> len])
             /\ cursor' = cursor + 1 /\ DOMAIN pool' = DOMAIN pool \ {cursor}
             /\ pc' = pc /\ pc = "drain"
  BY <1>4 DEF Emit, Emitted, Without
<1>5. CASE EmitDecoded \/ EmitBestEffort \/ EmitZero
  <2>1. PICK kind, len : Emit(kind, len)
    BY <1>5 DEF EmitDecoded, EmitBestEffort, EmitZero
  <2>2. /\ out' = Append(out, [blk |-> cursor, kind |-> kind, len |-> len])
        /\ cursor' = cursor + 1 /\ DOMAIN pool' = DOMAIN pool \ {cursor}
        /\ pc' = pc /\ pc = "drain"
    BY <2>1, <1>4
  <2>3. started /\ cursor <= highest_seen
    BY <1>1, <2>2, WrittenWasSeen
  <2>4. \A m \in DOMAIN pool : cursor <= m
    BY DEF Known, IInv, HeldAhead
  <2>5. PutsOut(cursor, kind, len)
    BY <1>1, <2>2, <2>3, <2>4 DEF PutsOut
  <2>. QED
    BY <1>1, <2>5
<1>6. CASE FlushNext
  <2>1. PICK n \in DOMAIN pool :
          /\ FirstHeld(n) /\ pool' = Without(n) /\ cursor' = n + 1
          /\ out' = Emitted(n, IF pool[n].completed THEN "decoded" ELSE "besteffort",
                            pool[n].block_size)
    BY <1>6 DEF FlushNext
  <2>2. pc = "flush" /\ pc' = pc
    BY <1>6 DEF FlushNext
  <2>3. DOMAIN pool' = DOMAIN pool \ {n}
    BY <2>1 DEF Without
  <2>4. \A m \in DOMAIN pool : n <= m
    BY <2>1 DEF FirstHeld
  <2>5. started /\ n <= highest_seen /\ cursor <= n /\ n \in Nat
    BY <1>1 DEF Known, IInv, IdleIsEmpty, NewestIsHeld, HeldAhead
  <2>6. PutsOut(n, IF pool[n].completed THEN "decoded" ELSE "besteffort",
                 pool[n].block_size)
    BY <2>1, <2>2, <2>3, <2>4, <2>5 DEF Emitted, PutsOut
  <2>. QED
    BY <2>5, <2>6
<1>. QED
  BY <1>2, <1>3, <1>5, <1>6 DEF DecoderStep, Drain, Flush

(* Until the flush what is written has no gap, and a block heard of that   *)
(* the cursor has passed was written or is older than the first that was.  *)
NoGapYet ==
  pc \in {"recv", "drain"} =>
    \A n \in Nat : out # <<>> /\ out[1].blk <= n /\ n < cursor =>
      \E i \in DOMAIN out : out[i].blk = n

OutInv ==
  /\ started => FirstBlk <= base + cursor
  /\ started /\ out = <<>> => base + cursor \in heard
  /\ out # <<>> => started
  /\ NoGapYet
  /\ \A b \in heard : b < base + cursor /\ out # <<>> => Written(b) \/ BeforeFirst(b)
  /\ pc = "done" => DOMAIN pool = {}

LEMMA OutTypes ==
  ASSUME Known, BlockInv
  PROVE  /\ cursor \in Nat /\ base \in Nat /\ heard \subseteq Nat
         /\ DOMAIN out = 1..Len(out) /\ Len(out) \in Nat
         /\ out # <<>> <=> 1 \in DOMAIN out
         /\ \A i \in DOMAIN out : out[i].blk \in Nat
<1>1. out \in Seq(OutBlocks)
  BY DEF Known, IInv, TypeOK, OutBlocks
<1>2. cursor \in Nat /\ base \in Nat /\ heard \subseteq Nat
  BY DEF Known, IInv, TypeOK, BlockInv
<1>3. /\ DOMAIN out = 1..Len(out) /\ Len(out) \in Nat
      /\ out # <<>> <=> Len(out) > 0
      /\ \A i \in DOMAIN out : out[i] \in OutBlocks
  BY <1>1
<1>4. \A i \in DOMAIN out : out[i].blk \in Nat
  BY <1>3 DEF OutBlocks
<1>. QED
  BY <1>2, <1>3, <1>4

LEMMA OutIsSeq ==
  ASSUME Known, NEW x
  PROVE  /\ DOMAIN Append(out, x) = 1..Len(out) + 1
         /\ \A i \in DOMAIN out : Append(out, x)[i] = out[i]
         /\ Append(out, x)[Len(out) + 1] = x
         /\ Append(out, x) # <<>>
<1>. DEFINE T == OutBlocks \cup {x}
<1>1. out \in Seq(OutBlocks)
  BY DEF Known, IInv, TypeOK, OutBlocks
<1>2. out \in Seq(T) /\ x \in T
  BY <1>1
<1>. HIDE DEF T
<1>. QED
  BY <1>2

LEMMA InitOutInv == ASSUME LinkInit PROVE OutInv
BY DEF LinkInit, Init, OutInv, NoGapYet

(* A frame is delivered.                                                   *)
LEMMA DeliveredOut ==
  ASSUME NumbersSuffice, Known, BlockInv, OutInv, NEW p, OnTheWire(p), Deliver(p)
  PROVE  OutInv'
<1>1. /\ p.blk \in Nat /\ FirstBlk <= p.blk
      /\ base' = IF started THEN base ELSE p.blk - p.sbn
      /\ heard' = heard \cup {p.blk}
      /\ DropRedundant(DataFrame(p)) \/ Accept(DataFrame(p)) \/ Panic(DataFrame(p))
  BY LinkAssumption DEF Deliver, OnTheWire, WirePackets
<1>2. out' = out /\ pc = "recv"
  BY <1>1 DEF DropRedundant, Accept, Panic, Receive
<1>3. /\ cursor \in Nat /\ base \in Nat /\ heard \subseteq Nat
      /\ \A i \in DOMAIN out : out[i].blk \in Nat
      /\ out # <<>> => out[1].blk \in Nat
  BY OutTypes
<1>4. CASE DropRedundant(DataFrame(p)) \/ Panic(DataFrame(p))
  <2>1. started /\ p.blk < base + cursor
    BY <1>4, UnfiledIsOld
  <2>2. UNCHANGED <<pool, cursor, started, base>> /\ pc' \in {pc, "panicked"}
    BY <1>1, <1>4, <2>1 DEF DropRedundant, Panic, windowVars
  <2>3. ASSUME out # <<>>, ~BeforeFirst(p.blk) PROVE Written(p.blk)
    <3>1. p.blk - base \in Nat /\ out[1].blk <= p.blk - base /\ p.blk - base < cursor
      BY <1>1, <1>3, <2>1, <2>3 DEF BeforeFirst
    <3>2. PICK i \in DOMAIN out : out[i].blk = p.blk - base
      BY <1>2, <2>3, <3>1 DEF OutInv, NoGapYet
    <3>3. base + out[i].blk = p.blk
      BY <1>1, <1>3, <3>2
    <3>. QED
      BY <3>3 DEF Written
  <2>4. \A b : Written(b)' = Written(b) /\ BeforeFirst(b)' = BeforeFirst(b)
    BY <1>2, <2>2 DEF Written, BeforeFirst
  <2>. QED
    BY <1>1, <1>2, <2>1, <2>2, <2>3, <2>4 DEF OutInv, NoGapYet
<1>5. CASE Accept(DataFrame(p))
  <2>1. started' /\ cursor' = CursorAt(DataFrame(p)) /\ pc' = "drain"
        /\ Logical(DataFrame(p)) >= CursorAt(DataFrame(p))
    BY <1>5 DEF Accept
  <2>2. /\ Logical(DataFrame(p)) \in Nat /\ base' \in Nat
        /\ p.blk = base' + Logical(DataFrame(p))
    BY <1>1, <1>5, AcceptPlaces
  <2>3. CASE started
    <3>1. cursor' = cursor /\ base' = base
      BY <1>1, <2>1, <2>3 DEF CursorAt
    <3>2. ~(p.blk < base + cursor)
      BY <1>3, <2>1, <2>2, <3>1
    <3>3. \A b : Written(b)' = Written(b) /\ BeforeFirst(b)' = BeforeFirst(b)
      BY <1>2, <3>1 DEF Written, BeforeFirst
    <3>4. NoGapYet'
      BY <1>2, <3>1 DEF OutInv, NoGapYet
    <3>. QED
      BY <1>1, <1>2, <2>1, <2>3, <3>1, <3>2, <3>3, <3>4 DEF OutInv
  <2>4. CASE ~started
    <3>1. base' + cursor' = p.blk
      BY <2>1, <2>2, <2>4 DEF CursorAt, Logical
    <3>2. out' = <<>>
      BY <1>2, <2>4 DEF OutInv
    <3>. QED
      BY <1>1, <2>1, <3>1, <3>2 DEF OutInv, NoGapYet
  <2>. QED
    BY <2>3, <2>4
<1>. QED
  BY <1>1, <1>4, <1>5

(* A frame goes unread, a noop comes, or nothing happens.                  *)
LEMMA QuietOut ==
  ASSUME OutInv, UNCHANGED <<pool, cursor, started, out, base, heard>>,
         pc' = pc \/ (pc \in {"recv", "drain"} /\ pc' \in {"recv", "drain", "flush", "failed"})
  PROVE  OutInv'
<1>1. \A b : Written(b)' = Written(b) /\ BeforeFirst(b)' = BeforeFirst(b)
  BY DEF Written, BeforeFirst
<1>. QED
  BY <1>1 DEF OutInv, NoGapYet

(* A block is written.                                                     *)
LEMMA PutsOutOut ==
  ASSUME Known, BlockInv, OutInv, UNCHANGED <<started, base, heard>>,
         pc \in {"drain", "flush"},
         NEW n \in Nat, NEW kind, NEW len, PutsOut(n, kind, len)
  PROVE  OutInv'
<1>1. /\ cursor \in Nat /\ base \in Nat /\ heard \subseteq Nat
      /\ DOMAIN out = 1..Len(out) /\ Len(out) \in Nat
      /\ out # <<>> <=> 1 \in DOMAIN out
      /\ \A i \in DOMAIN out : out[i].blk \in Nat
  BY OutTypes
<1>2. /\ started /\ cursor <= n /\ cursor' = n + 1 /\ pc' = pc
      /\ pc # "flush" => n = cursor
      /\ pc = "flush" => n \in DOMAIN pool
      /\ \A m \in DOMAIN pool : n <= m
      /\ out' = Append(out, [blk |-> n, kind |-> kind, len |-> len])
  BY DEF PutsOut
<1>3. /\ DOMAIN out' = 1..Len(out) + 1
      /\ \A i \in DOMAIN out : out'[i] = out[i] /\ i \in DOMAIN out'
      /\ out'[Len(out) + 1].blk = n /\ Len(out) + 1 \in DOMAIN out'
      /\ out' # <<>>
      /\ out = <<>> => out'[1].blk = n
  BY <1>1, <1>2, OutIsSeq
<1>4. NoGapYet'
  <2>. SUFFICES ASSUME pc' = "drain", NEW m \in Nat, out'[1].blk <= m, m < cursor'
                PROVE  \E i \in DOMAIN out' : out'[i].blk = m
    BY <1>2 DEF NoGapYet
  <2>1. n = cursor
    BY <1>2
  <2>2. CASE m = n
    BY <1>3, <2>2
  <2>3. CASE m # n
    <3>1. m < cursor
      BY <1>1, <1>2, <2>1, <2>3
    <3>2. out # <<>>
      BY <1>1, <1>3, <2>1, <3>1
    <3>3. out'[1] = out[1]
      BY <1>1, <1>3, <3>2
    <3>4. PICK i \in DOMAIN out : out[i].blk = m
      BY <1>2, <3>1, <3>2, <3>3 DEF OutInv, NoGapYet
    <3>. QED
      BY <1>3, <3>4
  <2>. QED
    BY <2>2, <2>3
<1>5. ASSUME NEW b \in heard, b < base + cursor'
      PROVE  Written(b)' \/ BeforeFirst(b)'
  <2>0. b \in Nat /\ base' = base
    BY <1>1
  <2>1. CASE b = base + n
    BY <1>3, <2>0, <2>1 DEF Written
  <2>2. CASE b # base + n /\ out = <<>>
    BY <1>1, <1>2, <1>3, <1>5, <2>0, <2>2 DEF BeforeFirst
  <2>3. CASE b # base + n /\ out # <<>> /\ b < base + cursor
    <3>1. Written(b) \/ BeforeFirst(b)
      BY <2>3 DEF OutInv
    <3>2. CASE Written(b)
      BY <1>3, <2>0, <3>2 DEF Written
    <3>3. CASE BeforeFirst(b)
      <4>1. out'[1] = out[1]
        BY <1>1, <1>3, <2>3
      <4>. QED
        BY <1>3, <2>0, <3>3, <4>1 DEF BeforeFirst
    <3>. QED
      BY <3>1, <3>2, <3>3
  <2>4. ~(b # base + n /\ b >= base + cursor)
    <3>. SUFFICES ASSUME b # base + n, b >= base + cursor PROVE FALSE
      OBVIOUS
    <3>1. b - base \in DOMAIN pool
      BY <1>2 DEF BlockInv, HeardIsHeld
    <3>. QED
      BY <1>1, <1>2, <1>5, <2>0, <3>1
  <2>. QED
    BY <1>1, <2>0, <2>1, <2>2, <2>3, <2>4
<1>6. started' /\ FirstBlk <= base' + cursor'
  BY <1>1, <1>2, LinkAssumption DEF OutInv
<1>. QED
  BY <1>2, <1>3, <1>4, <1>5, <1>6 DEF OutInv
LEMMA NextOutInv ==
  ASSUME NumbersSuffice, Known, BlockInv, OutInv, [LinkNext]_linkAllVars
  PROVE  OutInv'
<1>0. ASSUME NEW p, NEW damage, Fault(p, damage)
      PROVE  OutInv'
  BY <1>0, QuietOut DEF Fault, Unheard, DeliverInsane, DropInsane, DeliverGarbled,
                        RecvUnparseable, Receive, Lose, vars, windowVars
<1>1. CASE Data
  <2>. DEFINE p == Sender!InBandPacket
  <2>1. Sender!InBand /\ (Deliver(p) \/ \E damage : Fault(p, damage))
    BY <1>1 DEF Data
  <2>2. OnTheWire(p)
    BY <2>1, InBandOnTheWire
  <2>. HIDE DEF p
  <2>. QED
    BY <1>0, <2>1, <2>2, DeliveredOut
<1>2. ASSUME NEW b \in FirstBlk..LastBlk, ExtraData(b)
      PROVE  OutInv'
  <2>. DEFINE p == Sender!ExtraPacket(b)
  <2>1. Sender!Extra(b) /\ (Deliver(p) \/ \E damage : Fault(p, damage))
    BY <1>2 DEF ExtraData
  <2>2. OnTheWire(p)
    BY <2>1, ExtraOnTheWire
  <2>. HIDE DEF p
  <2>. QED
    BY <1>0, <2>1, <2>2, DeliveredOut
<1>3. CASE Noop \/ EncRestart \/ UNCHANGED linkAllVars
  <2>1. /\ UNCHANGED <<pool, cursor, started, out, base, heard>>
        /\ pc' = pc \/ (pc = "recv" /\ pc' = "drain")
    BY <1>3 DEF Noop, RecvNoop, Receive, Unheard, DeliverGarbled, RecvUnparseable, Lose,
                EncRestart, vars, windowVars, linkAllVars, ghostVars
  <2>. QED
    BY <2>1, QuietOut
<1>4. CASE DecoderStep
  <2>1. UNCHANGED <<base, heard>> /\ started' = started
    BY <1>4, WrittenWasSeen DEF DecoderStep, ghostVars
  <2>2. CASE FlushDone
    BY <2>1, <2>2 DEF FlushDone, windowVars, OutInv, NoGapYet, Written, BeforeFirst
  <2>3. CASE PollTimeout \/ Disconnect \/ DrainDone \/ StdoutError
    <3>1. /\ UNCHANGED <<pool, cursor, out>>
          /\ pc' \in {"recv", "drain", "flush", "failed"}
          /\ pc' \in {"recv", "drain"} => pc \in {"recv", "drain"}
      BY <2>3 DEF PollTimeout, Disconnect, DrainDone, StdoutError, windowVars
    <3>. QED
      BY <2>1, <3>1 DEF OutInv, NoGapYet, Written, BeforeFirst
  <2>4. CASE Tick
    BY <2>1, <2>4 DEF Tick, windowVars, OutInv, NoGapYet, Written, BeforeFirst
  <2>5. CASE EmitDecoded \/ EmitBestEffort \/ EmitZero \/ FlushNext
    <3>1. pc \in {"drain", "flush"} /\ cursor' # cursor /\ pc' = pc
      <4>1. CASE EmitDecoded \/ EmitBestEffort \/ EmitZero
        <5>1. pc = "drain" /\ cursor' = cursor + 1 /\ pc' = pc /\ cursor \in Nat
          BY <4>1 DEF EmitDecoded, EmitBestEffort, EmitZero, Emit, Known, IInv, TypeOK
        <5>. QED
          BY <5>1
      <4>2. CASE FlushNext
        <5>1. PICK n \in DOMAIN pool : cursor' = n + 1
          BY <4>2 DEF FlushNext
        <5>2. pc = "flush" /\ pc' = pc /\ cursor \in Nat /\ n \in Nat /\ cursor <= n
          BY <4>2 DEF FlushNext, Known, IInv, TypeOK, HeldAhead
        <5>. QED
          BY <5>1, <5>2
      <4>. QED
        BY <2>5, <4>1, <4>2
    <3>2. PICK n \in Nat : \E kind, len : PutsOut(n, kind, len)
      BY <1>4, <3>1, WriteSteps
    <3>. QED
      BY <2>1, <3>1, <3>2, PutsOutOut
  <2>. QED
    BY <1>4, <2>2, <2>3, <2>4, <2>5 DEF DecoderStep, Drain, Flush
<1>. QED
  BY <1>1, <1>2, <1>3, <1>4 DEF LinkNext

LEMMA OutInvariant ==
  NumbersSuffice => (LinkSpec => [](Known /\ BlockInv /\ GatherInv /\ OutInv))
<1>. SUFFICES ASSUME NumbersSuffice
              PROVE  LinkSpec => [](Known /\ BlockInv /\ GatherInv /\ OutInv)
  OBVIOUS
<1>1. LinkInit => OutInv
  BY InitOutInv
<1>2. Known /\ BlockInv /\ OutInv /\ [LinkNext]_linkAllVars => OutInv'
  BY NextOutInv
<1>. QED
  BY <1>1, <1>2, GatherInvariant, PTL DEF LinkSpec

(* Every block a frame was taken of is written before the program ends     *)
(* after its input (main.rs:357-369), but for late repair of blocks from   *)
(* before the join.                                                        *)
THEOREM HeardAreWritten == NumbersSuffice => (LinkSpec => []HeardIsWritten)
<1>. SUFFICES ASSUME NumbersSuffice PROVE LinkSpec => []HeardIsWritten
  OBVIOUS
<1>1. ASSUME Known, BlockInv, OutInv PROVE HeardIsWritten
  <2>. SUFFICES ASSUME pc = "done", NEW b \in heard
                PROVE  Written(b) \/ BeforeFirst(b)
    BY DEF HeardIsWritten
  <2>1. /\ cursor \in Nat /\ base \in Nat /\ b \in Nat
        /\ DOMAIN pool = {}
    BY <1>1, OutTypes DEF OutInv
  <2>2. started
    BY <1>1 DEF BlockInv
  <2>3. \A h \in heard : ~(h >= base + cursor)
    BY <1>1, <2>1, <2>2 DEF BlockInv, HeardIsHeld
  <2>4. out # <<>>
    <3>1. ASSUME out = <<>> PROVE FALSE
      <4>1. base + cursor \in heard /\ base + cursor >= base + cursor
        BY <1>1, <2>1, <2>2, <3>1 DEF OutInv
      <4>. QED
        BY <2>3, <4>1
    <3>. QED
      BY <3>1
  <2>. QED
    BY <1>1, <2>1, <2>3, <2>4 DEF OutInv
<1>. QED
  BY <1>1, OutInvariant, PTL

(* The block at n was sent whole and lost nothing: it is held and decoded. *)
LEMMA IntactIsComplete ==
  ASSUME Known, BlockInv, GatherInv, NEW n \in Nat, n >= cursor,
         base + n \in FirstBlk..LastBlk, base + n < blk, base + n \notin hurt
  PROVE  n \in DOMAIN pool /\ pool[n].completed
<1>1. cursor \in Nat /\ base \in Nat /\ K \in Nat \ {0}
  BY LinkAssumption DEF Known, IInv, TypeOK, BlockInv
<1>2. ASSUME NEW q \in 0..K + Repair - 1
      PROVE  Has(n, Sender!Esi(q))
  <2>1. q \in SentOf(base + n)
    BY DEF SentOf
  <2>2. base + n >= base + cursor /\ (base + n) - base = n
    BY <1>1
  <2>3. \A b \in (FirstBlk..LastBlk) \ hurt : \A x \in SentOf(b) :
          b >= base + cursor => Has(b - base, Sender!Esi(x))
    BY DEF GatherInv, Gathered
  <2>4. Has((base + n) - base, Sender!Esi(q))
    BY <2>1, <2>2, <2>3
  <2>. QED
    BY <2>2, <2>4
<1>3. ASSUME NEW e \in 0..K - 1 PROVE Has(n, e)
  <2>1. PICK q \in 0..K + Repair - 1 : Sender!Esi(q) = e
    BY SourcesAreSent
  <2>. QED
    BY <1>2, <2>1
<1>4. n \in DOMAIN pool
  BY <1>1, <1>3 DEF Has
<1>5. ASSUME ~pool[n].completed, NEW e \in 0..K - 1
      PROVE  \E s \in pool[n].symbols : s.esi = e
  BY <1>3, <1>5 DEF Has, Got
<1>. QED
  BY <1>4, <1>5 DEF GatherInv, Decoded

(* A block that lost nothing is never given up but while it is being sent, *)
(* when its timeout or the end of the input comes (main.rs:393-431,        *)
(* 448-468): as soon as the sender is past it, all of it has been here.    *)
THEOREM GivenUpIsHurt == NumbersSuffice => (LinkSpec => OnlyHurtIsGivenUp)
<1>. DEFINE Justified == \/ NewlyWritten \in hurt
                         \/ NewlyWritten = blk /\ (HeadOverdue \/ pc = "flush")
<1>. SUFFICES ASSUME NumbersSuffice PROVE LinkSpec => OnlyHurtIsGivenUp
  OBVIOUS
<1>1. ASSUME Known, BlockInv, GatherInv, OutInv, [LinkNext]_linkAllVars, GivesUp
      PROVE  Justified
  <2>1. /\ cursor \in Nat /\ highest_seen \in Nat /\ base \in Nat /\ blk \in Nat
        /\ blk <= LastBlk + 1 /\ LastBlk \in Nat /\ FirstBlk \in Nat
        /\ DOMAIN pool \subseteq Nat /\ MaxInFlight \in Nat \ {0}
    BY <1>1, LinkAssumption, DecAssumption
       DEF Known, IInv, TypeOK, BlockInv, SenderInv
  <2>2. DecoderStep
    BY <1>1 DEF GivesUp, LinkNext, Data, Deliver, DropRedundant, Accept, Panic, Fault,
                Unheard, DeliverInsane, DropInsane, DeliverGarbled, RecvUnparseable, Lose,
                ExtraData, Noop, RecvNoop, EncRestart, vars, linkAllVars
  <2>3. base' = base
    BY <2>2 DEF DecoderStep, ghostVars
  <2>4. ASSUME NEW kind, NEW len, NEW n \in Nat,
               out' = Append(out, [blk |-> n, kind |-> kind, len |-> len])
        PROVE  out'[Len(out')].kind = kind /\ NewlyWritten = base + n
    <3>1. /\ out'[Len(out) + 1] = [blk |-> n, kind |-> kind, len |-> len]
          /\ DOMAIN out' = 1..Len(out) + 1
      BY <1>1, <2>4, OutIsSeq
    <3>2. Len(out') = Len(out) + 1
      BY <1>1, <2>4 DEF Known, IInv, TypeOK
    <3>. QED
      BY <3>1, <3>2 DEF NewlyWritten
  <2>5. ASSUME NEW n \in Nat, n >= cursor, base + n < blk,
               ~(n \in DOMAIN pool /\ pool[n].completed)
        PROVE  base + n \in hurt
    <3>1. started => FirstBlk <= base + cursor
      BY <1>1 DEF OutInv
    <3>2. started
      BY <1>1, <2>2, WriteSteps DEF GivesUp, PutsOut
    <3>3. base + n \in FirstBlk..LastBlk
      BY <2>1, <2>5, <3>1, <3>2
    <3>. QED
      BY <1>1, <2>5, <3>3, IntactIsComplete
  <2>6. ASSUME NEW m \in DOMAIN pool
        PROVE  m \in Nat /\ base + m <= blk /\ cursor <= m /\ m <= highest_seen
    BY <1>1, <2>1 DEF Known, IInv, NewestIsHeld, HeldAhead, IdleIsEmpty, BlockInv, Window
  <2>7. CASE EmitDecoded
    <3>1. out' = Append(out, [blk |-> cursor, kind |-> "decoded",
                              len |-> pool[cursor].block_size])
      BY <2>7 DEF EmitDecoded, Emit, Emitted
    <3>. QED
      BY <1>1, <2>1, <2>4, <3>1 DEF GivesUp
  <2>8. CASE EmitBestEffort
    <3>1. NewlyWritten = base + cursor
      <4>1. out' = Append(out, [blk |-> cursor, kind |-> "besteffort",
                                len |-> pool[cursor].block_size])
        BY <2>8 DEF EmitBestEffort, Emit, Emitted
      <4>. QED
        BY <2>1, <2>4, <4>1
    <3>2. cursor \in DOMAIN pool /\ ~pool[cursor].completed
      BY <2>8 DEF EmitBestEffort, HeadReady, HeadOverdue, HeadForced, HeadHeld
    <3>3. CASE base + cursor < blk
      BY <2>1, <2>5, <3>1, <3>2, <3>3
    <3>4. CASE ~(base + cursor < blk)
      <4>1. base + cursor = blk
        BY <2>1, <2>6, <3>2, <3>4
      <4>2. ~should_force
        <5>1. ASSUME NEW m \in DOMAIN pool, m >= cursor + MaxInFlight PROVE FALSE
          BY <2>1, <2>6, <4>1, <5>1
        <5>. QED
          BY <5>1 DEF should_force
      <4>3. HeadOverdue
        BY <2>8, <4>2 DEF EmitBestEffort, HeadForced
      <4>. QED
        BY <3>1, <4>1, <4>3
    <3>. QED
      BY <3>3, <3>4
  <2>9. CASE EmitZero
    <3>1. NewlyWritten = base + cursor
      <4>1. out' = Append(out, [blk |-> cursor, kind |-> "zero", len |-> DefaultBlockSize])
        BY <2>9 DEF EmitZero, Emit, Emitted
      <4>. QED
        BY <2>1, <2>4, <4>1
    <3>2. cursor \notin DOMAIN pool /\ started /\ (should_force \/ NewestFarAhead)
      BY <2>9 DEF EmitZero, HeadMissing, HeadHeld
    <3>3. base + cursor < blk
      <4>1. base + highest_seen <= blk
        BY <1>1, <3>2 DEF BlockInv, Window
      <4>2. highest_seen >= cursor + MaxInFlight
        <5>1. ASSUME NEW m \in DOMAIN pool, m >= cursor + MaxInFlight
              PROVE  highest_seen >= cursor + MaxInFlight
          BY <2>1, <2>6, <5>1
        <5>. QED
          BY <3>2, <5>1 DEF should_force, NewestFarAhead
      <4>. QED
        BY <2>1, <4>1, <4>2
    <3>. QED
      BY <2>1, <2>5, <3>1, <3>2, <3>3
  <2>10. CASE FlushNext
    <3>1. PICK n \in DOMAIN pool :
            out' = Emitted(n, IF pool[n].completed THEN "decoded" ELSE "besteffort",
                           pool[n].block_size)
      BY <2>10 DEF FlushNext
    <3>2. n \in Nat /\ base + n <= blk /\ n >= cursor
      BY <2>1, <2>6
    <3>3. NewlyWritten = base + n /\ ~pool[n].completed
      <4>1. out' = Append(out, [blk |-> n,
                                kind |-> IF pool[n].completed THEN "decoded" ELSE "besteffort",
                                len |-> pool[n].block_size])
        BY <3>1 DEF Emitted
      <4>2. /\ NewlyWritten = base + n
            /\ out'[Len(out')].kind = IF pool[n].completed THEN "decoded" ELSE "besteffort"
        BY <2>4, <3>2, <4>1
      <4>. QED
        BY <1>1, <4>2 DEF GivesUp
    <3>4. pc = "flush"
      BY <2>10 DEF FlushNext
    <3>5. base + n < blk => base + n \in hurt
      BY <2>5, <3>2, <3>3
    <3>. QED
      BY <2>1, <3>2, <3>3, <3>4, <3>5
  <2>11. ~(PollTimeout \/ Disconnect \/ DrainDone \/ FlushDone \/ StdoutError \/ Tick)
    BY <1>1 DEF GivesUp, PollTimeout, Disconnect, DrainDone, FlushDone, StdoutError, Tick
  <2>. QED
    BY <2>2, <2>7, <2>8, <2>9, <2>10, <2>11 DEF DecoderStep, Drain, Flush
<1>. QED
  BY <1>1, OutInvariant, PTL DEF OnlyHurtIsGivenUp, LinkSpec

-----------------------------------------------------------------------------
(* The decoder's block 0 is written, or it is the first block there is: no *)
(* frame is of a block before it.                                          *)
ClearOfClamp ==
  /\ NeverPanics
  /\ started => cursor # 0 \/ base = 0

LEMMA DeliveredClear ==
  ASSUME NumbersSuffice, JoinsClear, Known, BlockInv, ClearOfClamp,
         NEW p, OnTheWire(p), Deliver(p)
  PROVE  ClearOfClamp'
<1>1. /\ p.blk \in Nat /\ p.blk \in FirstBlk..LastBlk /\ p.blk <= blk
      /\ p.sbn = p.blk % SbnMod /\ DataFrame(p).sbn = p.sbn
      /\ base' = IF started THEN base ELSE p.blk - p.sbn
  BY LinkAssumption DEF Deliver, OnTheWire, WirePackets, DataFrame
<1>2. CASE DropRedundant(DataFrame(p))
  <2>1. started
    BY <1>2, RedundantIsOld
  <2>2. UNCHANGED <<pc, cursor, started, base>>
    BY <1>1, <1>2, <2>1 DEF DropRedundant, windowVars
  <2>. QED
    BY <2>2 DEF ClearOfClamp, NeverPanics
<1>3. CASE Panic(DataFrame(p))
  <2>1. started /\ p.blk < base /\ cursor = 0
    BY <1>3, PanicIsOld
  <2>2. base = 0
    BY <2>1 DEF ClearOfClamp
  <2>. QED
    BY <1>1, <2>1, <2>2
<1>4. CASE Accept(DataFrame(p))
  <2>1. pc' = "drain" /\ cursor' = CursorAt(DataFrame(p)) /\ started'
    BY <1>4 DEF Accept
  <2>2. CASE started
    BY <1>1, <2>1, <2>2 DEF CursorAt, ClearOfClamp, NeverPanics
  <2>3. CASE ~started
    <3>1. cursor' = p.blk % SbnMod
      BY <1>1, <2>1, <2>3 DEF CursorAt
    <3>2. base' \in Nat /\ base' = p.blk - p.sbn
      BY <1>1, <1>4, <2>3, AcceptPlaces
    <3>3. p.blk \in FirstBlk..LastJoin
      <4>1. blk <= LastJoin /\ blk \in Nat /\ LastJoin \in Nat /\ FirstBlk \in Nat
        BY <2>3, LinkAssumption DEF BlockInv, Known, SenderInv
      <4>. QED
        BY <1>1, <4>1
    <3>4. CASE p.blk = 0
      <4>1. p.sbn \in Nat
        BY DecAssumption DEF OnTheWire, WirePackets
      <4>. QED
        BY <2>1, <3>2, <3>4, <4>1 DEF ClearOfClamp, NeverPanics
    <3>5. CASE p.blk % SbnMod # 0
      BY <2>1, <3>1, <3>5 DEF ClearOfClamp, NeverPanics
    <3>. QED
      BY <3>3, <3>4, <3>5 DEF JoinsClear
  <2>. QED
    BY <2>2, <2>3
<1>. QED
  BY <1>2, <1>3, <1>4 DEF Deliver

LEMMA NextClear ==
  ASSUME NumbersSuffice, JoinsClear, Known, BlockInv, ClearOfClamp,
         [LinkNext]_linkAllVars
  PROVE  ClearOfClamp'
<1>1. ASSUME UNCHANGED <<cursor, started, base>>, pc' = pc \/ pc' = "drain"
      PROVE  ClearOfClamp'
  BY <1>1 DEF ClearOfClamp, NeverPanics
<1>2. ASSUME NEW p, NEW damage, Fault(p, damage)
      PROVE  ClearOfClamp'
  BY <1>1, <1>2 DEF Fault, Unheard, DeliverInsane, DropInsane, DeliverGarbled,
                    RecvUnparseable, Lose, vars, windowVars
<1>3. CASE Data
  <2>. DEFINE p == Sender!InBandPacket
  <2>1. Sender!InBand /\ (Deliver(p) \/ \E damage : Fault(p, damage))
    BY <1>3 DEF Data
  <2>2. OnTheWire(p)
    BY <2>1, InBandOnTheWire
  <2>. HIDE DEF p
  <2>. QED
    BY <1>2, <2>1, <2>2, DeliveredClear
<1>4. ASSUME NEW b \in FirstBlk..LastBlk, ExtraData(b)
      PROVE  ClearOfClamp'
  <2>. DEFINE p == Sender!ExtraPacket(b)
  <2>1. Sender!Extra(b) /\ (Deliver(p) \/ \E damage : Fault(p, damage))
    BY <1>4 DEF ExtraData
  <2>2. OnTheWire(p)
    BY <2>1, ExtraOnTheWire
  <2>. HIDE DEF p
  <2>. QED
    BY <1>2, <2>1, <2>2, DeliveredClear
<1>5. CASE Noop \/ EncRestart \/ UNCHANGED linkAllVars
  BY <1>1, <1>5 DEF Noop, RecvNoop, Unheard, DeliverGarbled, RecvUnparseable, Lose,
                    EncRestart, vars, windowVars, linkAllVars, ghostVars
<1>6. CASE DecoderStep
  <2>1. started' = started /\ base' = base /\ (cursor' = 0 => cursor = 0)
    <3>1. cursor \in Nat
      BY DEF Known, IInv, TypeOK
    <3>. QED
      BY <1>6, <3>1, WrittenWasSeen DEF DecoderStep, ghostVars
  <2>2. pc' # "panicked"
    BY <1>6 DEF DecoderStep, PollTimeout, Disconnect, Drain, EmitDecoded, EmitBestEffort,
                EmitZero, Emit, DrainDone, Flush, FlushNext, FlushDone, StdoutError, Tick,
                ClearOfClamp, NeverPanics
  <2>. QED
    BY <2>1, <2>2 DEF ClearOfClamp, NeverPanics
<1>. QED
  BY <1>3, <1>4, <1>5, <1>6 DEF LinkNext

(* No symbol reaches a decoder that panics on its number (main.rs:253,     *)
(* 168), unless the receiver first hears a later block of number 0.        *)
THEOREM RefusesNothing ==
  NumbersSuffice /\ JoinsClear => (LinkSpec => []NeverPanics)
<1>. SUFFICES ASSUME NumbersSuffice, JoinsClear PROVE LinkSpec => []NeverPanics
  OBVIOUS
<1>1. LinkInit => ClearOfClamp
  BY DEF LinkInit, Init, ClearOfClamp, NeverPanics
<1>2. Known /\ BlockInv /\ ClearOfClamp /\ [LinkNext]_linkAllVars => ClearOfClamp'
  BY NextClear
<1>3. ClearOfClamp => NeverPanics
  BY DEF ClearOfClamp
<1>. QED
  BY <1>1, <1>2, <1>3, BlockInvariant, PTL DEF LinkSpec

-----------------------------------------------------------------------------
(* With restarts of the encoder: a new run counts its blocks from zero,    *)
(* and the decoder takes each for the nearest block of that number.        *)

(* Numbers and window must leave room for an outage and for extra repair.  *)
(* With the default window and ring, 256 numbers suffice for outages of 56 *)
(* blocks.                                                                 *)
RestartsSuffice ==
  /\ MaxOutage \in Nat \ {0} /\ ExtraReach \in Nat
  /\ 2 * (ExtraReach + MaxOutage + MaxInFlight - 1) < SbnMod

LEMMA Multiples ==
  ASSUME NEW m \in Nat \ {0}, NEW k \in Int
  PROVE  m * k \in Int /\ (m * k = 0 \/ m * k >= m \/ m * k <= -m)
<1>1. CASE k = 0
  BY <1>1
<1>2. CASE k >= 1
  <2>1. m * k >= m * 1
    BY <1>2
  <2>. QED
    BY <2>1
<1>3. CASE k <= -1
  <2>1. m * k <= m * (-1)
    BY <1>3
  <2>. QED
    BY <2>1
<1>. QED
  BY <1>1, <1>2, <1>3

(* unwrap_sbn (main.rs:250): the nearest number with this remainder.       *)
LEMMA UnwrapNearest ==
  ASSUME NEW at \in Nat, NEW x \in Nat
  PROVE  \E near \in Int, t \in Int :
           /\ near = x + SbnMod * t
           /\ 2 * (near - at) < SbnMod /\ -SbnMod <= 2 * (near - at)
           /\ unwrap_sbn(at, x % SbnMod) = IF near < 0 THEN 0 ELSE near
<1>0. SbnMod \in Nat \ {0}
  BY DecAssumption
<1>1. PICK p \in Nat, s \in 0..SbnMod - 1 : s = x % SbnMod /\ x = SbnMod * p + s
  BY <1>0, Division
<1>2. PICK q \in Int, ahead \in 0..SbnMod - 1 :
        ahead = (s - at) % SbnMod /\ s - at = SbnMod * q + ahead
  <2>. DEFINE y == s - at
  <2>1. y \in Int
    BY <1>0
  <2>. HIDE DEF y
  <2>2. y \div SbnMod \in Int /\ y % SbnMod \in 0..SbnMod - 1
        /\ y = SbnMod * (y \div SbnMod) + (y % SbnMod)
    BY <1>0, <2>1, SMT
  <2>. QED
    BY <2>2 DEF y
<1>3. /\ SbnMod * p \in Int /\ SbnMod * q \in Int
      /\ SbnMod * (-p - q) = -(SbnMod * p) - SbnMod * q
      /\ SbnMod * (-p - q - 1) = -(SbnMod * p) - SbnMod * q - SbnMod
      /\ -p - q \in Int /\ -p - q - 1 \in Int
  BY <1>0, <1>1, <1>2
<1>. DEFINE d == SbnMod * p
            e == SbnMod * q
<1>4. /\ d \in Int /\ e \in Int /\ x = d + s /\ s - at = e + ahead
      /\ s \in Nat /\ ahead \in Nat /\ ahead < SbnMod
  BY <1>0, <1>1, <1>2, <1>3
<1>5. SbnMod * (-p - q) = -d - e /\ SbnMod * (-p - q - 1) = -d - e - SbnMod
  BY <1>3
<1>. HIDE DEF d, e
<1>6. CASE 2 * ahead < SbnMod
  <2>. DEFINE near == at + ahead
  <2>1. near = x + (-d - e) /\ near \in Int
    BY <1>0, <1>4
  <2>2. 2 * (near - at) < SbnMod /\ -SbnMod <= 2 * (near - at)
    BY <1>0, <1>4, <1>6
  <2>3. unwrap_sbn(at, x % SbnMod) = IF near < 0 THEN 0 ELSE near
    BY <1>1, <1>2, <1>6 DEF unwrap_sbn
  <2>. HIDE DEF near
  <2>. QED
    BY <1>3, <1>5, <2>1, <2>2, <2>3
<1>7. CASE ~(2 * ahead < SbnMod)
  <2>. DEFINE near == at + ahead - SbnMod
  <2>1. near = x + (-d - e - SbnMod) /\ near \in Int
    BY <1>0, <1>4
  <2>2. 2 * (near - at) < SbnMod /\ -SbnMod <= 2 * (near - at)
    BY <1>0, <1>4, <1>7
  <2>3. unwrap_sbn(at, x % SbnMod) = IF near < 0 THEN 0 ELSE near
    BY <1>1, <1>2, <1>7 DEF unwrap_sbn
  <2>. HIDE DEF near
  <2>. QED
    BY <1>3, <1>5, <2>1, <2>2, <2>3
<1>. QED
  BY <1>6, <1>7

(* When a frame is read the newest block is within the window.             *)
LEMMA NewestIsNear ==
  ASSUME Known, started, pc = "recv"
  PROVE  highest_seen < cursor + MaxInFlight
<1>1. cursor \in Nat /\ highest_seen \in Nat
  BY DEF Known, IInv, TypeOK
<1>2. CASE highest_seen \in DOMAIN pool
  BY <1>1, <1>2, DecAssumption DEF Known, IInv, PoolWindow
<1>3. CASE highest_seen < cursor
  BY <1>1, <1>3, DecAssumption
<1>. QED
  BY <1>2, <1>3 DEF Known, IInv, NewestIsHeld

(* A packet of the run of the encoder that is on.                          *)
InThisRun(p) ==
  /\ p \in WirePackets
  /\ first <= p.blk /\ p.blk <= blk /\ blk <= p.blk + ExtraReach
  /\ p.sbn = (p.blk - first) % SbnMod

(* How the sender goes on after it.                                        *)
MovesOn(p) ==
  /\ first' = first
  /\ \/ p.blk < blk /\ UNCHANGED <<blk, pos>>
     \/ p.blk = blk /\ blk' = blk /\ pos' = pos + 1
     \/ p.blk = blk /\ blk' = blk + 1 /\ pos' = 0

(* What was heard is of blocks begun, and what is written was heard of.    *)
HeardOf ==
  /\ heard \subseteq Nat
  /\ \A h \in heard : h <= blk /\ (pos = 0 => h < blk)
  /\ ~started => heard = {}
  /\ started => cursor <= highest_seen + 1

(* A delivered frame is taken for block near: the nearest of its number,   *)
(* or for the first frame the number itself.                               *)
TakenFor(p, near) ==
  /\ \E t \in Int : near = p.blk - first + SbnMod * t
  /\ started =>
       /\ 2 * (near - cursor) < SbnMod /\ -SbnMod <= 2 * (near - cursor)
       /\ cursor' = cursor
       /\ highest_seen' = IF near > highest_seen THEN near ELSE highest_seen
  /\ ~started => near = p.sbn /\ cursor' = near /\ highest_seen' = near
  /\ redundant_packets' # redundant_packets => started /\ near < cursor
  /\ started'

(* It is dropped or filed, and that under no block below zero.             *)
FiledAt(p, near) ==
  \/ started /\ pool' = pool
  \/ \E n \in DOMAIN pool' :
       /\ n = IF near < 0 THEN 0 ELSE near
       /\ n >= cursor'
       /\ DOMAIN pool' = DOMAIN pool \cup {n}
       /\ \A m \in DOMAIN pool : m # n => pool'[m] = pool[m]
       /\ \A s \in pool'[n].symbols :
            s.symbol = p.blk \/ (n \in DOMAIN pool /\ s \in pool[n].symbols)

LEMMA FrameIsTaken ==
  ASSUME Known, HeardOf, NEW p, InThisRun(p), Deliver(p)
  PROVE  \E near \in Int : TakenFor(p, near) /\ FiledAt(p, near)
<1>1. DataFrame(p).sbn = p.sbn /\ DataFrame(p).symbol = p.blk
      /\ DataFrame(p).oti = WireOti /\ DataFrame(p).esi = p.esi
  BY DEF DataFrame
<1>. DEFINE x == p.blk - first
<1>2. /\ x \in Nat /\ p.sbn = x % SbnMod /\ p.sbn \in Nat
      /\ cursor \in Nat /\ highest_seen \in Nat
  <2>1. p.blk \in Nat /\ p.sbn \in Nat
    BY LinkAssumption, DecAssumption DEF InThisRun, WirePackets
  <2>2. first \in Nat /\ first <= p.blk
    BY DEF Known, SenderInv, InThisRun
  <2>. QED
    BY <2>1, <2>2 DEF InThisRun, Known, IInv, TypeOK
<1>. HIDE DEF x
<1>3. PICK n : n = Logical(DataFrame(p))
  OBVIOUS
<1>4. \E near \in Int :
        /\ \E t \in Int : near = x + SbnMod * t
        /\ n = IF near < 0 THEN 0 ELSE near
        /\ started => 2 * (near - cursor) < SbnMod /\ -SbnMod <= 2 * (near - cursor)
        /\ ~started => near = p.sbn
  <2>1. CASE started
    <3>1. n = unwrap_sbn(cursor, x % SbnMod)
      BY <1>1, <1>2, <1>3, <2>1 DEF Logical
    <3>. QED
      BY <1>2, <2>1, <3>1, UnwrapNearest
  <2>2. CASE ~started
    <3>1. n = p.sbn
      BY <1>1, <1>3, <2>2 DEF Logical
    <3>2. \E t \in Int : p.sbn = x + SbnMod * t
      <4>1. SbnMod \in Nat \ {0}
        BY DecAssumption
      <4>2. x \div SbnMod \in Nat /\ x = SbnMod * (x \div SbnMod) + (x % SbnMod)
        BY <1>2, <4>1, Division
      <4>3. PICK q \in Nat : x = SbnMod * q + p.sbn
        BY <1>2, <4>2
      <4>4. SbnMod * (-q) = -(SbnMod * q) /\ SbnMod * q \in Nat /\ -q \in Int
        BY <4>1, <4>3
      <4>5. p.sbn = x + SbnMod * (-q)
        BY <1>2, <4>3, <4>4
      <4>. QED
        BY <4>4, <4>5
    <3>. QED
      BY <1>2, <2>2, <3>1, <3>2
  <2>. QED
    BY <2>1, <2>2
<1>5. PICK near \in Int :
        /\ \E t \in Int : near = x + SbnMod * t
        /\ n = IF near < 0 THEN 0 ELSE near
        /\ started => 2 * (near - cursor) < SbnMod /\ -SbnMod <= 2 * (near - cursor)
        /\ ~started => near = p.sbn
  BY <1>4
<1>6. \E t \in Int : near = p.blk - first + SbnMod * t
  BY <1>5 DEF x
<1>7. CASE DropRedundant(DataFrame(p))
  <2>1. /\ n < CursorAt(DataFrame(p))
        /\ UNCHANGED <<pool, cursor, highest_seen, started>>
    BY <1>3, <1>7 DEF DropRedundant, windowVars
  <2>2. started
    BY <1>1, <1>2, <1>5, <2>1 DEF CursorAt
  <2>3. near < cursor
    BY <1>2, <1>5, <2>1, <2>2 DEF CursorAt
  <2>4. near <= highest_seen
    BY <1>2, <2>2, <2>3 DEF HeardOf
  <2>5. highest_seen = IF near > highest_seen THEN near ELSE highest_seen
    BY <1>2, <2>4
  <2>. QED
    BY <1>5, <1>6, <2>1, <2>2, <2>3, <2>5 DEF TakenFor, FiledAt
<1>8. CASE Accept(DataFrame(p))
  <2>. DEFINE seen == IF started THEN highest_seen ELSE p.sbn
              entry == IF n \in DOMAIN pool THEN pool[n]
                       ELSE NewBlockState(p.sbn, WireOti)
  <2>1. /\ started' = TRUE /\ cursor' = CursorAt(DataFrame(p)) /\ n >= cursor'
        /\ highest_seen' = (IF n > seen THEN n ELSE seen)
        /\ redundant_packets' = redundant_packets
        /\ oti_is_sane(WireOti)
    BY <1>1, <1>3, <1>8 DEF Accept
  <2>2. started => highest_seen' = IF near > highest_seen THEN near ELSE highest_seen
    BY <1>2, <1>5, <2>1
  <2>3. started => cursor' = cursor
    BY <2>1 DEF CursorAt
  <2>4. ~started => cursor' = near /\ highest_seen' = near
    BY <1>1, <1>2, <1>5, <2>1 DEF CursorAt
  <2>5. TakenFor(p, near)
    BY <1>5, <1>6, <2>1, <2>2, <2>3, <2>4 DEF TakenFor
  <2>6. PICK c \in ingest(entry, p.esi, p.blk) : pool' = With(n, c)
    BY <1>1, <1>3, <1>8 DEF Accept, Entry
  <2>7. /\ DOMAIN pool' = DOMAIN pool \cup {n} /\ pool'[n] = c
        /\ \A m \in DOMAIN pool : m # n => pool'[m] = pool[m]
    BY <2>6 DEF With
  <2>8. entry \in BlockStates
    <3>1. CASE n \in DOMAIN pool
      BY <3>1 DEF Known, IInv, TypeOK
    <3>2. CASE n \notin DOMAIN pool
      <4>1. WireOti \in Otis /\ p.sbn \in 0..SbnMod - 1
        BY LinkAssumption DEF WireOti, WirePackets, InThisRun
      <4>. QED
        BY <2>1, <3>2, <4>1, NewBlockStateType
    <3>. QED
      BY <3>1, <3>2
  <2>9. n \notin DOMAIN pool => entry.symbols = {}
    BY DEF NewBlockState
  <2>10. n \in DOMAIN pool => entry = pool[n]
    OBVIOUS
  <2>. HIDE DEF entry
  <2>11. \A s \in c.symbols : s \in entry.symbols \/ s.symbol = p.blk
    BY <2>8, IngestSymbols
  <2>12. \A s \in c.symbols :
           s.symbol = p.blk \/ (n \in DOMAIN pool /\ s \in pool[n].symbols)
    BY <2>9, <2>10, <2>11
  <2>13. FiledAt(p, near)
    BY <1>5, <2>1, <2>7, <2>12 DEF FiledAt
  <2>. QED
    BY <2>5, <2>13
<1>9. CASE Panic(DataFrame(p))
  <2>1. /\ n >= CursorAt(DataFrame(p))
        /\ ~DecodeAsserts(Entry(DataFrame(p)), DataFrame(p).sbn)
        /\ UNCHANGED <<pool, cursor, highest_seen, started, redundant_packets>>
    BY <1>3, <1>9 DEF Panic, windowVars
  <2>2. n \in DOMAIN pool
    BY <1>3, <2>1 DEF Entry, DecodeAsserts, NewBlockState
  <2>3. started /\ n <= highest_seen /\ n \in Nat
    BY <2>2 DEF Known, IInv, TypeOK, IdleIsEmpty, NewestIsHeld
  <2>4. highest_seen = IF near > highest_seen THEN near ELSE highest_seen
    BY <1>2, <1>5, <2>3
  <2>. QED
    BY <1>5, <1>6, <2>1, <2>3, <2>4 DEF TakenFor, FiledAt
<1>. QED
  BY <1>7, <1>8, <1>9 DEF Deliver

(* The packets sent are of the run that is on.                             *)
LEMMA SentInThisRun ==
  ASSUME RestartsSuffice, Known
  PROVE  /\ Sender!InBand => InThisRun(Sender!InBandPacket) /\ MovesOn(Sender!InBandPacket)
                             /\ Sender!InBandPacket.blk = blk
         /\ \A b \in FirstBlk..LastBlk : Sender!Extra(b) =>
              InThisRun(Sender!ExtraPacket(b)) /\ MovesOn(Sender!ExtraPacket(b))
<1>1. first \in Nat /\ blk \in Nat /\ first <= blk /\ ExtraReach \in Nat
  BY LinkAssumption DEF Known, SenderInv, RestartsSuffice
<1>2. ASSUME Sender!InBand
      PROVE  InThisRun(Sender!InBandPacket) /\ MovesOn(Sender!InBandPacket)
             /\ Sender!InBandPacket.blk = blk
  <2>1. Sender!InBandPacket \in WirePackets
    BY <1>2, PacketTypes DEF Known
  <2>2. Sender!InBandPacket.blk = blk /\ Sender!InBandPacket.sbn = (blk - first) % SbnMod
    BY DEF Sender!InBandPacket, Sender!Packet
  <2>3. /\ first' = first
        /\ (blk' = blk /\ pos' = pos + 1) \/ (blk' = blk + 1 /\ pos' = 0)
    BY <1>2 DEF Sender!InBand
  <2>. QED
    BY <1>1, <2>1, <2>2, <2>3 DEF InThisRun, MovesOn
<1>3. ASSUME NEW b \in FirstBlk..LastBlk, Sender!Extra(b)
      PROVE  InThisRun(Sender!ExtraPacket(b)) /\ MovesOn(Sender!ExtraPacket(b))
  <2>1. Sender!ExtraPacket(b) \in WirePackets
    BY <1>3, PacketTypes DEF Known
  <2>2. Sender!ExtraPacket(b).blk = b /\ Sender!ExtraPacket(b).sbn = (b - first) % SbnMod
    BY DEF Sender!ExtraPacket, Sender!Packet
  <2>3. b >= first /\ b < blk /\ b >= blk - ExtraReach /\ UNCHANGED <<first, blk, pos>>
    BY <1>3 DEF Sender!Extra
  <2>4. b \in Nat
    BY LinkAssumption
  <2>. QED
    BY <1>1, <2>1, <2>2, <2>3, <2>4 DEF InThisRun, MovesOn
<1>. QED
  BY <1>2, <1>3

(* The steps of the link, as far as blocks go: a frame is delivered, the   *)
(* sender goes on and nothing is, the decoder steps, or the encoder starts *)
(* again.                                                                  *)
Delivered ==
  \E p \in WirePackets : InThisRun(p) /\ MovesOn(p) /\ Deliver(p)

Missed ==
  /\ UNCHANGED <<pool, cursor, highest_seen, started, redundant_packets,
                 heard, first, old_pool>>
  /\ \/ UNCHANGED <<blk, pos>>
     \/ MayLose /\ blk' = blk /\ pos' = pos + 1
     \/ MayLose /\ blk' = blk + 1 /\ pos' = 0

Decodes ==
  /\ UNCHANGED <<heard, first, blk, pos, old_pool, redundant_packets>>
  /\ DecoderStep

Renumbers ==
  /\ UNCHANGED <<pool, cursor, highest_seen, started, redundant_packets, heard>>
  /\ blk' = (IF pos = 0 THEN blk ELSE blk + 1) /\ pos' = 0 /\ first' = blk'
  /\ old_pool' = DOMAIN pool

LEMMA KindsOfStep ==
  ASSUME RestartsSuffice, Known, [LinkNext]_linkAllVars
  PROVE  \/ Delivered /\ old_pool' = old_pool
         \/ Missed
         \/ Decodes
         \/ Renumbers
<1>0. ASSUME NEW p, NEW damage, Fault(p, damage)
      PROVE  /\ UNCHANGED <<pool, cursor, highest_seen, started, redundant_packets, heard>>
             /\ MayLose
  BY <1>0 DEF Fault, Unheard, DeliverInsane, DropInsane, DeliverGarbled,
              RecvUnparseable, Lose, vars, windowVars
<1>1. CASE Data
  <2>. DEFINE p == Sender!InBandPacket
  <2>1. /\ Sender!InBand /\ old_pool' = old_pool
        /\ Deliver(p) \/ \E damage : Fault(p, damage)
    BY <1>1 DEF Data
  <2>2. InThisRun(p) /\ MovesOn(p) /\ p.blk = blk
    BY <2>1, SentInThisRun
  <2>. HIDE DEF p
  <2>3. CASE Deliver(p)
    BY <2>1, <2>2, <2>3 DEF Delivered, InThisRun
  <2>4. CASE \E damage : Fault(p, damage)
    <3>1. /\ UNCHANGED <<pool, cursor, highest_seen, started, redundant_packets, heard>>
          /\ MayLose
      BY <1>0, <2>4
    <3>. QED
      BY <2>1, <2>2, <3>1 DEF MovesOn, Missed
  <2>. QED
    BY <2>1, <2>3, <2>4
<1>2. ASSUME NEW b \in FirstBlk..LastBlk, ExtraData(b)
      PROVE  (Delivered /\ old_pool' = old_pool) \/ Missed
  <2>. DEFINE p == Sender!ExtraPacket(b)
  <2>1. /\ Sender!Extra(b) /\ old_pool' = old_pool
        /\ Deliver(p) \/ \E damage : Fault(p, damage)
    BY <1>2 DEF ExtraData
  <2>2. InThisRun(p) /\ MovesOn(p)
    BY <2>1, SentInThisRun
  <2>. HIDE DEF p
  <2>3. CASE Deliver(p)
    BY <2>1, <2>2, <2>3 DEF Delivered, InThisRun
  <2>4. CASE \E damage : Fault(p, damage)
    <3>1. UNCHANGED <<pool, cursor, highest_seen, started, redundant_packets, heard>>
      BY <1>0, <2>4
    <3>2. UNCHANGED <<first, blk, pos>>
      BY <2>1 DEF Sender!Extra
    <3>. QED
      BY <2>1, <3>1, <3>2 DEF Missed
  <2>. QED
    BY <2>1, <2>3, <2>4
<1>3. CASE Noop \/ UNCHANGED linkAllVars
  BY <1>3 DEF Noop, Sender!Noop, RecvNoop, Unheard, DeliverGarbled, RecvUnparseable,
              Lose, vars, windowVars, linkAllVars, senderVars, ghostVars, Missed
<1>4. CASE EncRestart
  BY <1>4 DEF EncRestart, Sender!Restart, vars, windowVars, ghostVars, Renumbers
<1>5. CASE DecoderStep
  <2>1. UNCHANGED redundant_packets
    BY <1>5 DEF DecoderStep, PollTimeout, Disconnect, Drain, EmitDecoded, EmitBestEffort,
                EmitZero, Emit, DrainDone, Flush, FlushNext, FlushDone, StdoutError, Tick
  <2>. QED
    BY <1>5, <2>1 DEF DecoderStep, senderVars, ghostVars, Decodes
<1>. QED
  BY <1>1, <1>2, <1>3, <1>4, <1>5 DEF LinkNext

(* What a delivered frame does to what was heard of.                       *)
LEMMA DeliveredHeard ==
  ASSUME Known, HeardOf, NEW p \in WirePackets, InThisRun(p), MovesOn(p), Deliver(p)
  PROVE  HeardOf' /\ heard' = heard \cup {p.blk}
<1>1. PICK near \in Int : TakenFor(p, near)
  BY FrameIsTaken
<1>2. heard' = heard \cup {p.blk}
  BY DEF Deliver
<1>3. /\ p.blk \in Nat /\ blk \in Nat /\ pos \in Nat /\ p.blk <= blk
      /\ cursor \in Nat /\ highest_seen \in Nat /\ p.sbn \in Nat
  <2>1. p.blk \in Nat /\ p.sbn \in Nat
    BY LinkAssumption, DecAssumption DEF WirePackets
  <2>2. blk \in Nat /\ pos \in Nat
    BY LinkAssumption DEF Known, SenderInv
  <2>. QED
    BY <2>1, <2>2 DEF InThisRun, Known, IInv, TypeOK
<1>4. \A h \in heard' : h <= blk' /\ (pos' = 0 => h < blk')
  <2>1. CASE p.blk < blk /\ UNCHANGED <<blk, pos>>
    BY <1>2, <1>3, <2>1 DEF HeardOf
  <2>2. CASE p.blk = blk /\ blk' = blk /\ pos' = pos + 1
    BY <1>2, <1>3, <2>2 DEF HeardOf
  <2>3. CASE p.blk = blk /\ blk' = blk + 1 /\ pos' = 0
    <3>1. \A h \in heard : h \in Nat /\ h <= blk
      BY DEF HeardOf
    <3>. QED
      BY <1>2, <1>3, <2>3, <3>1
  <2>. QED
    BY <2>1, <2>2, <2>3 DEF MovesOn
<1>5. cursor' <= highest_seen' + 1
  <2>1. CASE started
    <3>1. cursor' = cursor /\ highest_seen' = (IF near > highest_seen THEN near ELSE highest_seen)
      BY <1>1, <2>1 DEF TakenFor
    <3>2. cursor <= highest_seen + 1
      BY <2>1 DEF HeardOf
    <3>. QED
      BY <1>3, <3>1, <3>2
  <2>2. CASE ~started
    <3>1. cursor' = highest_seen' /\ cursor' = p.sbn
      BY <1>1, <2>2 DEF TakenFor
    <3>. QED
      BY <1>3, <3>1
  <2>. QED
    BY <2>1, <2>2
<1>6. started'
  BY <1>1 DEF TakenFor
<1>. QED
  BY <1>2, <1>3, <1>4, <1>5, <1>6 DEF HeardOf

LEMMA NextHeardOf ==
  ASSUME RestartsSuffice, Known, HeardOf, [LinkNext]_linkAllVars
  PROVE  HeardOf'
<1>1. /\ blk \in Nat /\ pos \in Nat /\ heard \subseteq Nat
      /\ cursor \in Nat /\ highest_seen \in Nat
  <2>1. blk \in Nat /\ pos \in Nat
    BY LinkAssumption DEF Known, SenderInv
  <2>. QED
    BY <2>1 DEF Known, IInv, TypeOK, HeardOf
<1>2. CASE Delivered
  BY <1>2, DeliveredHeard DEF Delivered
<1>3. CASE Missed
  <2>1. \/ blk' = blk /\ pos' = pos
        \/ blk' = blk /\ pos' = pos + 1
        \/ blk' = blk + 1 /\ pos' = 0
    BY <1>3 DEF Missed
  <2>2. \A h \in heard : h <= blk' /\ (pos' = 0 => h < blk')
    BY <1>1, <2>1 DEF HeardOf
  <2>. QED
    BY <1>3, <2>2 DEF Missed, HeardOf
<1>4. CASE Decodes
  <2>1. /\ UNCHANGED <<heard, blk, pos, started, highest_seen>>
        /\ cursor' = cursor \/ cursor' <= highest_seen + 1
    BY <1>4, WrittenWasSeen DEF Decodes
  <2>. QED
    BY <2>1 DEF HeardOf
<1>5. CASE Renumbers
  <2>1. \A h \in heard : h < blk'
    BY <1>1, <1>5 DEF HeardOf, Renumbers
  <2>2. blk' \in Nat
    BY <1>1, <1>5 DEF Renumbers
  <2>3. \A h \in heard : h <= blk' /\ (pos' = 0 => h < blk')
    BY <1>1, <2>1, <2>2
  <2>. QED
    BY <1>5, <2>3 DEF HeardOf, Renumbers
<1>. QED
  BY <1>2, <1>3, <1>4, <1>5, KindsOfStep

-----------------------------------------------------------------------------
(* How long new blocks may be dropped after a restart.                     *)

(* What was heard of this run of the encoder.                              *)
Fresh == {h \in heard : h >= first}

(* Block 0 of the decoder, in true numbers of this run, may be off: then   *)
(* the newest block heard of is new, or it is an old one and not half the  *)
(* numbers beyond any new block.                                           *)
Anchor(off) ==
  /\ \E t \in Int : off = first + SbnMod * t
  /\ blk <= off + highest_seen + ExtraReach + MaxOutage
  /\ \A h \in Fresh : h <= off + highest_seen + ExtraReach
  /\ \/ off + highest_seen \in Fresh
     \/ \A h \in Fresh : 2 * (off + highest_seen + 1 - h - MaxInFlight) <= SbnMod

AnchorInv == Fresh # {} => \E off \in Int : Anchor(off)

(* A frame that changes the newest block, or is the first of the run.      *)
LEMMA NewAnchor ==
  ASSUME RestartsSuffice, Known, HeardOf, NEW p \in WirePackets,
         InThisRun(p), MovesOn(p), Deliver(p),
         NEW near \in Int, TakenFor(p, near),
         ~started \/ near >= highest_seen \/ Fresh = {}
  PROVE  Anchor(p.blk - near)'
<1>1. heard' = heard \cup {p.blk}
  BY DEF Deliver
<1>2. /\ p.blk \in Nat /\ first \in Nat /\ blk \in Nat /\ first' = first
      /\ first <= p.blk /\ p.blk <= blk /\ blk <= p.blk + ExtraReach
      /\ highest_seen \in Nat /\ cursor \in Nat /\ heard \subseteq Nat
      /\ blk' = blk \/ (blk' = blk + 1 /\ p.blk = blk)
  <2>1. p.blk \in Nat /\ blk \in Nat /\ first \in Nat
    BY LinkAssumption DEF Known, SenderInv, WirePackets
  <2>. QED
    BY <2>1 DEF Known, IInv, TypeOK, HeardOf, InThisRun, MovesOn
<1>3. /\ MaxOutage \in Nat \ {0} /\ ExtraReach \in Nat /\ MaxInFlight \in Nat
      /\ SbnMod \in Nat \ {0}
  BY DecAssumption DEF RestartsSuffice
<1>. DEFINE off == p.blk - near
<1>4. off \in Int /\ off + near = p.blk
  BY <1>2
<1>5. \E t \in Int : off = first' + SbnMod * t
  <2>1. PICK t \in Int : near = p.blk - first + SbnMod * t
    BY DEF TakenFor
  <2>2. SbnMod * (-t) = -(SbnMod * t) /\ SbnMod * t \in Int /\ -t \in Int
    BY <1>3
  <2>3. off = first + SbnMod * (-t)
    BY <1>2, <2>1, <2>2
  <2>. QED
    BY <1>2, <2>2, <2>3
<1>. HIDE DEF off
<1>6. Fresh' = Fresh \cup {p.blk}
  BY <1>1, <1>2 DEF Fresh
<1>7. ~started => Fresh = {}
  BY DEF HeardOf, Fresh
<1>8. /\ highest_seen' \in Int /\ near <= highest_seen'
      /\ ~started \/ near >= highest_seen => highest_seen' = near
      /\ started /\ near < highest_seen => highest_seen' = highest_seen
  <2>1. CASE started
    <3>1. highest_seen' = IF near > highest_seen THEN near ELSE highest_seen
      BY <2>1 DEF TakenFor
    <3>. QED
      BY <1>2, <2>1, <3>1
  <2>2. CASE ~started
    BY <2>2 DEF TakenFor
  <2>. QED
    BY <2>1, <2>2
<1>9. p.blk <= off + highest_seen'
  BY <1>2, <1>4, <1>8
<1>10. blk' <= off + highest_seen' + ExtraReach + MaxOutage
  BY <1>2, <1>3, <1>4, <1>8, <1>9
<1>11. ASSUME NEW h \in Fresh \cup {p.blk}
       PROVE  h <= off + highest_seen' + ExtraReach
  <2>1. h \in Nat /\ h <= blk
    BY <1>2 DEF Fresh, HeardOf
  <2>2. h <= p.blk + ExtraReach
    BY <1>2, <1>3, <2>1
  <2>3. \A a, b, c, d \in Int : a <= b + d /\ b <= c => a <= c + d
    OBVIOUS
  <2>4. off + highest_seen' \in Int
    BY <1>4, <1>8
  <2>. QED
    BY <1>2, <1>3, <1>9, <2>1, <2>2, <2>3, <2>4
<1>12. CASE ~started \/ near >= highest_seen
  <2>1. off + highest_seen' \in Fresh'
    BY <1>4, <1>6, <1>8, <1>12
  <2>. QED
    BY <1>5, <1>6, <1>10, <1>11, <2>1 DEF Anchor, off
<1>13. CASE started /\ near < highest_seen
  <2>1. Fresh = {} /\ highest_seen' = highest_seen
    BY <1>8, <1>13, <1>2
  <2>2. highest_seen < cursor + MaxInFlight
    <3>1. pc = "recv"
      BY DEF Deliver, DropRedundant, Accept, Panic, Receive
    <3>. QED
      BY <1>13, <3>1, NewestIsNear
  <2>3. -SbnMod <= 2 * (near - cursor)
    BY <1>13 DEF TakenFor
  <2>4. 2 * (off + highest_seen + 1 - p.blk - MaxInFlight) <= SbnMod
    BY <1>2, <1>3, <1>4, <2>2, <2>3
  <2>5. \A h \in Fresh' : 2 * (off + highest_seen' + 1 - h - MaxInFlight) <= SbnMod
    BY <1>6, <2>1, <2>4
  <2>. QED
    BY <1>5, <1>6, <1>10, <1>11, <2>5 DEF Anchor, off
<1>. QED
  BY <1>2, <1>12, <1>13

(* The place the decoder gives a frame against the one it has in this run. *)
LEMMA PlaceAgainst ==
  ASSUME RestartsSuffice, Known, HeardOf, started, pc = "recv",
         NEW p \in WirePackets, InThisRun(p),
         NEW near \in Int, TakenFor(p, near), NEW off \in Int, Anchor(off)
  PROVE  near = p.blk - off \/ near >= p.blk - off + SbnMod
<1>1. /\ p.blk \in Nat /\ first \in Nat /\ blk \in Nat /\ p.blk <= blk
      /\ highest_seen \in Nat /\ cursor \in Nat
  <2>1. p.blk \in Nat /\ blk \in Nat /\ first \in Nat
    BY LinkAssumption DEF Known, SenderInv, WirePackets
  <2>. QED
    BY <2>1 DEF Known, IInv, TypeOK, InThisRun
<1>2. /\ MaxOutage \in Nat \ {0} /\ ExtraReach \in Nat /\ MaxInFlight \in Nat
      /\ SbnMod \in Nat \ {0}
      /\ 2 * (ExtraReach + MaxOutage + MaxInFlight - 1) < SbnMod
  BY DecAssumption DEF RestartsSuffice
<1>3. PICK t \in Int : near = p.blk - first + SbnMod * t
  BY DEF TakenFor
<1>4. PICK u \in Int : off = first + SbnMod * u
  BY DEF Anchor
<1>. DEFINE k == t + u
<1>5. SbnMod * k = SbnMod * t + SbnMod * u /\ k \in Int
      /\ SbnMod * t \in Int /\ SbnMod * u \in Int
  BY <1>2
<1>. HIDE DEF k
<1>. DEFINE gap == SbnMod * k
<1>6. gap \in Int /\ (gap = 0 \/ gap >= SbnMod \/ gap <= -SbnMod)
  BY <1>2, <1>5, Multiples
<1>7. near = p.blk - off + gap
  BY <1>1, <1>3, <1>4, <1>5
<1>. HIDE DEF gap
<1>8. ASSUME gap <= -SbnMod PROVE FALSE
  <2>1. highest_seen < cursor + MaxInFlight
    BY NewestIsNear
  <2>2. blk <= off + highest_seen + ExtraReach + MaxOutage
    BY DEF Anchor
  <2>3. -SbnMod <= 2 * (near - cursor)
    BY DEF TakenFor
  <2>4. near - cursor <= ExtraReach + MaxOutage + MaxInFlight - 1 - SbnMod
    BY <1>1, <1>2, <1>6, <1>7, <1>8, <2>1, <2>2
  <2>. QED
    BY <1>1, <1>2, <2>3, <2>4
<1>9. p.blk - off \in Int
  BY <1>1
<1>. QED
  BY <1>2, <1>6, <1>7, <1>8, <1>9

(* A frame of a block before the newest one.                               *)
LEMMA AnchorHolds ==
  ASSUME RestartsSuffice, Known, HeardOf, NEW p \in WirePackets,
         InThisRun(p), MovesOn(p), Deliver(p),
         NEW near \in Int, TakenFor(p, near),
         started, near < highest_seen, Fresh # {},
         NEW off \in Int, Anchor(off)
  PROVE  Anchor(off)'
<1>0. pc = "recv"
  BY DEF Deliver, DropRedundant, Accept, Panic, Receive
<1>1. heard' = heard \cup {p.blk}
  BY DEF Deliver
<1>2. /\ p.blk \in Nat /\ first \in Nat /\ blk \in Nat /\ first' = first
      /\ first <= p.blk /\ p.blk <= blk /\ blk <= p.blk + ExtraReach
      /\ highest_seen \in Nat /\ cursor \in Nat /\ heard \subseteq Nat
      /\ blk' = blk \/ (blk' = blk + 1 /\ p.blk = blk)
  <2>1. p.blk \in Nat /\ blk \in Nat /\ first \in Nat
    BY LinkAssumption DEF Known, SenderInv, WirePackets
  <2>. QED
    BY <2>1 DEF Known, IInv, TypeOK, HeardOf, InThisRun, MovesOn
<1>3. /\ MaxOutage \in Nat \ {0} /\ ExtraReach \in Nat /\ MaxInFlight \in Nat
      /\ SbnMod \in Nat \ {0}
      /\ 2 * (ExtraReach + MaxOutage + MaxInFlight - 1) < SbnMod
  BY DecAssumption DEF RestartsSuffice
<1>4. highest_seen' = highest_seen
  <2>1. highest_seen' = IF near > highest_seen THEN near ELSE highest_seen
    BY DEF TakenFor
  <2>. QED
    BY <1>2, <2>1
<1>5. Fresh' = Fresh \cup {p.blk}
  BY <1>1, <1>2 DEF Fresh
<1>6. PICK f \in Fresh : TRUE
  OBVIOUS
<1>7. \A h \in Fresh : h \in Nat /\ h <= blk
  BY <1>2 DEF Fresh, HeardOf
<1>8. ASSUME near >= p.blk - off + SbnMod PROVE FALSE
  <2>1. p.blk < off + highest_seen - SbnMod
    BY <1>2, <1>3, <1>8
  <2>2. CASE off + highest_seen \in Fresh
    <3>1. off + highest_seen <= p.blk + ExtraReach
      BY <1>2, <1>3, <1>7, <2>2
    <3>. QED
      BY <1>2, <1>3, <2>1, <3>1
  <2>3. CASE \A h \in Fresh : 2 * (off + highest_seen + 1 - h - MaxInFlight) <= SbnMod
    <3>1. 2 * (off + highest_seen + 1 - f - MaxInFlight) <= SbnMod
      BY <1>6, <2>3
    <3>2. f \in Nat /\ f <= p.blk + ExtraReach
      BY <1>2, <1>3, <1>6, <1>7
    <3>. QED
      BY <1>2, <1>3, <2>1, <3>1, <3>2
  <2>. QED
    BY <2>2, <2>3 DEF Anchor
<1>9. near = p.blk - off
  BY <1>0, <1>8, PlaceAgainst
<1>10. p.blk < off + highest_seen
  BY <1>2, <1>9
<1>11. blk' <= off + highest_seen + ExtraReach + MaxOutage
  <2>1. blk <= off + highest_seen + ExtraReach + MaxOutage
    BY DEF Anchor
  <2>. QED
    BY <1>2, <1>3, <1>10, <2>1
<1>12. ASSUME NEW h \in Fresh \cup {p.blk}
       PROVE  h <= off + highest_seen + ExtraReach
  <2>1. CASE h \in Fresh
    BY <2>1 DEF Anchor
  <2>2. CASE h = p.blk
    BY <1>2, <1>3, <1>10, <2>2
  <2>. QED
    BY <2>1, <2>2
<1>13. 2 * (off + highest_seen + 1 - p.blk - MaxInFlight) <= SbnMod
  <2>1. highest_seen < cursor + MaxInFlight
    BY <1>0, NewestIsNear
  <2>2. -SbnMod <= 2 * (near - cursor)
    BY DEF TakenFor
  <2>. QED
    BY <1>2, <1>3, <1>9, <2>1, <2>2
<1>14. \/ off + highest_seen \in Fresh \cup {p.blk}
       \/ \A h \in Fresh \cup {p.blk} :
            2 * (off + highest_seen + 1 - h - MaxInFlight) <= SbnMod
  BY <1>13 DEF Anchor
<1>15. \E t \in Int : off = first + SbnMod * t
  BY DEF Anchor
<1>. QED
  BY <1>2, <1>4, <1>5, <1>11, <1>12, <1>14, <1>15 DEF Anchor

LEMMA NextAnchorInv ==
  ASSUME RestartsSuffice, Known, HeardOf, AnchorInv, [LinkNext]_linkAllVars
  PROVE  AnchorInv'
<1>1. CASE Delivered
  <2>1. PICK p \in WirePackets : InThisRun(p) /\ MovesOn(p) /\ Deliver(p)
    BY <1>1 DEF Delivered
  <2>2. PICK near \in Int : TakenFor(p, near)
    BY <2>1, FrameIsTaken
  <2>3. CASE ~started \/ near >= highest_seen \/ Fresh = {}
    <3>1. Anchor(p.blk - near)'
      BY <2>1, <2>2, <2>3, NewAnchor
    <3>2. p.blk \in Int
      BY LinkAssumption DEF WirePackets
    <3>3. PICK off \in Int : off = p.blk - near
      BY <3>2
    <3>. QED
      BY <3>1, <3>3 DEF AnchorInv
  <2>4. CASE started /\ ~(near >= highest_seen) /\ Fresh # {}
    <3>1. PICK off \in Int : Anchor(off)
      BY <2>4 DEF AnchorInv
    <3>2. near < highest_seen
      BY <2>4 DEF Known, IInv, TypeOK
    <3>3. Anchor(off)'
      BY <2>1, <2>2, <2>4, <3>1, <3>2, AnchorHolds
    <3>. QED
      BY <3>3 DEF AnchorInv
  <2>. QED
    BY <2>3, <2>4
<1>2. CASE Missed
  <2>1. Fresh' = Fresh /\ highest_seen' = highest_seen /\ first' = first
    BY <1>2 DEF Missed, Fresh
  <2>2. ASSUME Fresh # {} PROVE \E off \in Int : Anchor(off)'
    <3>1. PICK off \in Int : Anchor(off)
      BY <2>2 DEF AnchorInv
    <3>2. /\ blk \in Nat /\ first \in Nat /\ highest_seen \in Nat /\ heard \subseteq Nat
          /\ ExtraReach \in Nat /\ MaxOutage \in Nat
      <4>1. blk \in Nat /\ first \in Nat
        BY LinkAssumption DEF Known, SenderInv
      <4>. QED
        BY <4>1 DEF Known, IInv, TypeOK, HeardOf, RestartsSuffice
    <3>3. blk' <= off + highest_seen + ExtraReach + MaxOutage
      <4>1. CASE blk' = blk
        BY <3>1, <4>1 DEF Anchor
      <4>2. CASE MayLose /\ blk' = blk + 1
        <5>1. started
          BY <2>2 DEF HeardOf, Fresh
        <5>2. PICK b \in heard : blk < b + MaxOutage
          BY <4>2, <5>1 DEF MayLose
        <5>3. PICK f \in Fresh : TRUE
          BY <2>2
        <5>4. \E h \in Fresh : blk < h + MaxOutage
          <6>1. CASE b \in Fresh
            BY <5>2, <6>1
          <6>2. CASE b \notin Fresh
            <7>1. b < first /\ first <= f /\ f \in Nat /\ b \in Nat
              BY <3>2, <5>2, <5>3, <6>2 DEF Fresh
            <7>2. blk < f + MaxOutage
              BY <3>2, <5>2, <7>1
            <7>. QED
              BY <5>3, <7>2
          <6>. QED
            BY <6>1, <6>2
        <5>5. PICK h \in Fresh : blk < h + MaxOutage
          BY <5>4
        <5>6. h <= off + highest_seen + ExtraReach /\ h \in Nat
          BY <3>1, <3>2, <5>5 DEF Anchor, Fresh
        <5>. QED
          BY <3>2, <4>2, <5>5, <5>6
      <4>. QED
        BY <1>2, <4>1, <4>2 DEF Missed
    <3>. QED
      BY <2>1, <3>1, <3>3 DEF Anchor
  <2>. QED
    BY <2>1, <2>2 DEF AnchorInv
<1>3. CASE Decodes
  <2>1. UNCHANGED <<heard, first, blk, highest_seen>>
    BY <1>3, WrittenWasSeen DEF Decodes
  <2>. QED
    BY <2>1 DEF AnchorInv, Anchor, Fresh
<1>4. CASE Renumbers
  <2>1. \A h \in heard : h < first'
    <3>1. blk \in Nat /\ pos \in Nat /\ heard \subseteq Nat
      BY LinkAssumption DEF Known, SenderInv, HeardOf
    <3>. QED
      BY <1>4, <3>1 DEF HeardOf, Renumbers
  <2>2. heard' = heard /\ first' \in Nat /\ heard \subseteq Nat
    <3>1. blk \in Nat
      BY LinkAssumption DEF Known, SenderInv
    <3>. QED
      BY <1>4, <3>1 DEF Renumbers, HeardOf
  <2>3. Fresh' = {}
    <3>1. \A h \in heard : ~(first' <= h)
      BY <2>1, <2>2
    <3>. QED
      BY <2>2, <3>1 DEF Fresh
  <2>. QED
    BY <2>3 DEF AnchorInv
<1>. QED
  BY <1>1, <1>2, <1>3, <1>4, KindsOfStep

LEMMA AnchorInvariant ==
  RestartsSuffice => (LinkSpec => [](Known /\ HeardOf /\ AnchorInv))
<1>. SUFFICES ASSUME RestartsSuffice
              PROVE  LinkSpec => [](Known /\ HeardOf /\ AnchorInv)
  OBVIOUS
<1>1. LinkInit => HeardOf /\ AnchorInv
  BY DEF LinkInit, Init, HeardOf, AnchorInv, Fresh
<1>2. Known /\ HeardOf /\ [LinkNext]_linkAllVars => HeardOf'
  BY NextHeardOf
<1>3. Known /\ HeardOf /\ AnchorInv /\ [LinkNext]_linkAllVars => AnchorInv'
  BY NextAnchorInv
<1>4. SenderInv /\ [LinkNext]_linkAllVars => SenderInv'
  BY NextSenderInv
<1>5. Known <=> IInv /\ LossTypes /\ SenderInv
  BY DEF Known
<1>. QED
  BY <1>1, <1>2, <1>3, <1>4, <1>5, InitSenderInv, DecoderIsInside, Invariant,
     TypesInvariant, PTL DEF LinkSpec

(* A frame of a block newer than all heard of is dropped only for a while  *)
(* after a restart: until half the numbers beyond the first new block      *)
(* heard of, and the window (main.rs:250, 325).                            *)
THEOREM BlackoutEnds == RestartsSuffice => (LinkSpec => BlackoutBounded)
<1>. SUFFICES ASSUME RestartsSuffice PROVE LinkSpec => BlackoutBounded
  OBVIOUS
<1>1. Known /\ HeardOf /\ AnchorInv /\ [LinkNext]_linkAllVars
        => [NewestDropped => \A h \in heard : h >= first =>
              2 * (wire_blk' - h - MaxInFlight) < SbnMod]_linkAllVars
  <2>. SUFFICES ASSUME Known, HeardOf, AnchorInv, [LinkNext]_linkAllVars, NewestDropped,
                       NEW h \in heard, h >= first
                PROVE  2 * (wire_blk' - h - MaxInFlight) < SbnMod
    OBVIOUS
  <2>0. redundant_packets' # redundant_packets /\ \A x \in heard : x < wire_blk'
    BY DEF NewestDropped
  <2>1. Delivered
    BY <2>0, KindsOfStep DEF Missed, Decodes, Renumbers
  <2>2. PICK p \in WirePackets : InThisRun(p) /\ MovesOn(p) /\ Deliver(p)
    BY <2>1 DEF Delivered
  <2>3. PICK near \in Int : TakenFor(p, near)
    BY <2>2, FrameIsTaken
  <2>4. wire_blk' = p.blk /\ pc = "recv"
    BY <2>2 DEF Deliver, DropRedundant, Accept, Panic, Receive
  <2>5. started /\ near < cursor
    BY <2>0, <2>3 DEF TakenFor
  <2>6. h \in Fresh
    BY DEF Fresh
  <2>7. PICK off \in Int : Anchor(off)
    BY <2>6 DEF AnchorInv
  <2>8. near = p.blk - off \/ near >= p.blk - off + SbnMod
    BY <2>2, <2>3, <2>4, <2>5, <2>7, PlaceAgainst
  <2>9. /\ p.blk \in Nat /\ h \in Nat /\ cursor \in Nat /\ highest_seen \in Nat
        /\ SbnMod \in Nat \ {0} /\ MaxInFlight \in Nat /\ cursor <= highest_seen + 1
    <3>1. p.blk \in Nat
      BY LinkAssumption DEF WirePackets
    <3>. QED
      BY <2>5, <3>1, DecAssumption DEF Known, IInv, TypeOK, HeardOf
  <2>10. p.blk <= off + highest_seen
    BY <2>5, <2>8, <2>9
  <2>11. off + highest_seen \notin Fresh
    <3>1. \A x \in Fresh : x < p.blk /\ x \in Nat
      BY <2>0, <2>4 DEF Fresh, HeardOf
    <3>. QED
      BY <2>9, <2>10, <3>1
  <2>12. 2 * (off + highest_seen + 1 - h - MaxInFlight) <= SbnMod
    BY <2>6, <2>7, <2>11 DEF Anchor
  <2>13. 2 * (p.blk - h - MaxInFlight) < SbnMod
    BY <2>9, <2>10, <2>12
  <2>. QED
    BY <2>4, <2>13
<1>. QED
  BY <1>1, AnchorInvariant, PTL DEF BlackoutBounded, LinkSpec
-----------------------------------------------------------------------------
(* Which symbols a block may hold after restarts.                          *)

(* ... and hears a first block within one round of the numbers.            *)
JoinsTold == JoinsClear /\ LastJoin - FirstBlk < SbnMod

(* The decoder steps only shrink the pool.                                 *)
LEMMA DecoderOnlyWrites ==
  ASSUME Known, DecoderStep
  PROVE  /\ DOMAIN pool' \subseteq DOMAIN pool
         /\ \A n \in DOMAIN pool' : pool'[n].symbols = pool[n].symbols
         /\ cursor' = cursor => DOMAIN pool' = DOMAIN pool
<1>1. /\ cursor \in Nat /\ DOMAIN pool \subseteq Nat
      /\ \A n \in DOMAIN pool : cursor <= n /\ pool[n] \in BlockStates
  BY DEF Known, IInv, TypeOK, HeldAhead
<1>2. CASE PollTimeout \/ Disconnect \/ DrainDone \/ FlushDone \/ StdoutError
  BY <1>2 DEF PollTimeout, Disconnect, DrainDone, FlushDone, StdoutError
<1>3. CASE Tick
  <2>1. pool' = [n \in DOMAIN pool |->
                   [pool[n] EXCEPT !.age = IF @ < Timeout THEN @ + 1 ELSE @]]
    BY <1>3 DEF Tick
  <2>. QED
    BY <1>1, <2>1 DEF BlockStates
<1>4. CASE EmitDecoded \/ EmitBestEffort \/ EmitZero
  <2>1. pool' = Without(cursor) /\ cursor' = cursor + 1
    BY <1>4 DEF EmitDecoded, EmitBestEffort, EmitZero, Emit
  <2>. QED
    BY <1>1, <2>1 DEF Without
<1>5. CASE FlushNext
  <2>1. PICK n \in DOMAIN pool : pool' = Without(n) /\ cursor' = n + 1
    BY <1>5 DEF FlushNext
  <2>. QED
    BY <1>1, <2>1 DEF Without
<1>. QED
  BY <1>2, <1>3, <1>4, <1>5 DEF DecoderStep, Drain, Flush

(* Until a first frame is heard the sender has not passed the last block   *)
(* to join at; and block 0, when it is the next to be written, is held.    *)
JoinInv ==
  /\ first = 0 \/ first >= FirstBlk
  /\ ~started => blk <= LastJoin /\ (pos > 0 => blk < LastJoin)
  /\ started /\ cursor = 0 => 0 \in DOMAIN pool

LEMMA NextJoinInv ==
  ASSUME RestartsSuffice, Known, HeardOf, JoinInv, [LinkNext]_linkAllVars
  PROVE  JoinInv'
<1>1. /\ blk \in Nat /\ pos \in Nat /\ FirstBlk \in Nat /\ LastJoin \in Nat
      /\ FirstBlk <= blk /\ cursor \in Nat
  <2>1. blk \in Nat /\ pos \in Nat /\ FirstBlk <= blk
    BY LinkAssumption DEF Known, SenderInv
  <2>. QED
    BY <2>1, LinkAssumption DEF Known, IInv, TypeOK
<1>2. CASE Delivered
  <2>1. PICK p \in WirePackets : InThisRun(p) /\ MovesOn(p) /\ Deliver(p)
    BY <1>2 DEF Delivered
  <2>2. PICK near \in Int : TakenFor(p, near) /\ FiledAt(p, near)
    BY <2>1, FrameIsTaken
  <2>3. started' /\ first' = first
    BY <2>1, <2>2 DEF TakenFor, MovesOn
  <2>4. CASE started
    <3>1. cursor' = cursor /\ DOMAIN pool \subseteq DOMAIN pool'
      BY <2>2, <2>4 DEF TakenFor, FiledAt
    <3>. QED
      BY <2>3, <2>4, <3>1 DEF JoinInv
  <2>5. CASE ~started
    <3>1. p.sbn \in Nat
      BY DecAssumption DEF WirePackets
    <3>2. cursor' = near /\ near = p.sbn
      BY <2>2, <2>5 DEF TakenFor
    <3>3. near \in DOMAIN pool'
      <4>1. ~(near < 0)
        BY <3>1, <3>2
      <4>2. PICK n \in DOMAIN pool' : n = IF near < 0 THEN 0 ELSE near
        BY <2>2, <2>5 DEF FiledAt
      <4>. QED
        BY <4>1, <4>2
    <3>. QED
      BY <2>3, <3>2, <3>3 DEF JoinInv
  <2>. QED
    BY <2>4, <2>5
<1>3. CASE Missed
  <2>1. ~started => blk' <= LastJoin /\ (pos' > 0 => blk' < LastJoin)
    <3>. SUFFICES ASSUME ~started
                  PROVE  blk' <= LastJoin /\ (pos' > 0 => blk' < LastJoin)
      OBVIOUS
    <3>1. CASE UNCHANGED <<blk, pos>>
      BY <3>1 DEF JoinInv
    <3>2. CASE MayLose /\ blk' = blk /\ pos' = pos + 1
      BY <1>1, <3>2 DEF MayLose
    <3>3. CASE MayLose /\ blk' = blk + 1 /\ pos' = 0
      BY <1>1, <3>3 DEF MayLose
    <3>. QED
      BY <1>3, <3>1, <3>2, <3>3 DEF Missed
  <2>. QED
    BY <1>3, <2>1 DEF Missed, JoinInv
<1>4. CASE Decodes
  <2>1. /\ UNCHANGED <<first, blk, pos, started>>
        /\ cursor' = 0 => cursor' = cursor
    BY <1>1, <1>4, WrittenWasSeen DEF Decodes
  <2>2. cursor' = cursor => DOMAIN pool' = DOMAIN pool
    BY <1>4, DecoderOnlyWrites DEF Decodes
  <2>. QED
    BY <2>1, <2>2 DEF JoinInv
<1>5. CASE Renumbers
  <2>1. ~started => blk' <= LastJoin
    BY <1>1, <1>5 DEF Renumbers, JoinInv
  <2>2. first' >= FirstBlk /\ pos' = 0
    BY <1>1, <1>5 DEF Renumbers
  <2>. QED
    BY <1>5, <2>1, <2>2 DEF Renumbers, JoinInv
<1>. QED
  BY <1>2, <1>3, <1>4, <1>5, KindsOfStep
(* Block 0 of the decoder, in true numbers of this run, is off, and but    *)
(* for blocks held at the last restart what is held is of this run.        *)
RunWindow(off) ==
  /\ started
  /\ \E t \in Int : off = first + SbnMod * t
  /\ off + highest_seen < blk + MaxInFlight
  /\ blk <= off + highest_seen + ExtraReach + MaxOutage
  /\ \A h \in heard : h <= off + highest_seen + ExtraReach
  /\ cursor = 0 /\ 0 \notin old_pool => off <= first
  /\ \A n \in DOMAIN pool \ old_pool : \A s \in pool[n].symbols : s.symbol = off + n

MixInv == DOMAIN pool \subseteq old_pool \/ \E off \in Int : RunWindow(off)

(* Where the decoder has a window on this run, it gives each block its     *)
(* place in it.                                                            *)
LEMMA PlaceInWindow ==
  ASSUME RestartsSuffice, Known, HeardOf, pc = "recv",
         NEW p \in WirePackets, InThisRun(p),
         NEW near \in Int, TakenFor(p, near), NEW off \in Int, RunWindow(off)
  PROVE  near = p.blk - off
<1>1. /\ p.blk \in Nat /\ first \in Nat /\ blk \in Nat
      /\ p.blk <= blk /\ blk <= p.blk + ExtraReach
      /\ highest_seen \in Nat /\ cursor \in Nat
  <2>1. p.blk \in Nat /\ blk \in Nat /\ first \in Nat
    BY LinkAssumption DEF Known, SenderInv, WirePackets
  <2>. QED
    BY <2>1 DEF Known, IInv, TypeOK, InThisRun
<1>2. /\ MaxOutage \in Nat \ {0} /\ ExtraReach \in Nat /\ MaxInFlight \in Nat
      /\ SbnMod \in Nat \ {0}
      /\ 2 * (ExtraReach + MaxOutage + MaxInFlight - 1) < SbnMod
  BY DecAssumption DEF RestartsSuffice
<1>3. /\ started
      /\ off + highest_seen < blk + MaxInFlight
      /\ blk <= off + highest_seen + ExtraReach + MaxOutage
  BY DEF RunWindow
<1>4. PICK t \in Int : near = p.blk - first + SbnMod * t
  BY DEF TakenFor
<1>5. PICK u \in Int : off = first + SbnMod * u
  BY DEF RunWindow
<1>. DEFINE k == t + u
<1>6. SbnMod * k = SbnMod * t + SbnMod * u /\ k \in Int
      /\ SbnMod * t \in Int /\ SbnMod * u \in Int
  BY <1>2
<1>. HIDE DEF k
<1>. DEFINE gap == SbnMod * k
<1>7. gap \in Int /\ (gap = 0 \/ gap >= SbnMod \/ gap <= -SbnMod)
  BY <1>2, <1>6, Multiples
<1>8. near = p.blk - off + gap
  BY <1>1, <1>4, <1>5, <1>6
<1>. HIDE DEF gap
<1>9. ASSUME gap <= -SbnMod PROVE FALSE
  <2>1. highest_seen < cursor + MaxInFlight
    BY <1>3, NewestIsNear
  <2>2. -SbnMod <= 2 * (near - cursor)
    BY <1>3 DEF TakenFor
  <2>3. near - cursor <= ExtraReach + MaxOutage + MaxInFlight - 1 - SbnMod
    BY <1>1, <1>2, <1>3, <1>7, <1>8, <1>9, <2>1
  <2>. QED
    BY <1>1, <1>2, <2>2, <2>3
<1>10. ASSUME gap >= SbnMod PROVE FALSE
  <2>1. cursor <= highest_seen + 1
    BY <1>3 DEF HeardOf
  <2>2. 2 * (near - cursor) < SbnMod
    BY <1>3 DEF TakenFor
  <2>3. near - cursor >= SbnMod - ExtraReach - MaxInFlight
    BY <1>1, <1>2, <1>3, <1>7, <1>8, <1>10, <2>1
  <2>. QED
    BY <1>1, <1>2, <2>2, <2>3
<1>. QED
  BY <1>1, <1>7, <1>8, <1>9, <1>10

(* A frame while the decoder has a window on this run.                     *)
LEMMA WindowHolds ==
  ASSUME RestartsSuffice, Known, HeardOf, NEW p \in WirePackets,
         InThisRun(p), MovesOn(p), Deliver(p), old_pool' = old_pool,
         NEW near \in Int, TakenFor(p, near), FiledAt(p, near),
         NEW off \in Int, RunWindow(off)
  PROVE  RunWindow(off)'
<1>0. pc = "recv"
  BY DEF Deliver, DropRedundant, Accept, Panic, Receive
<1>1. near = p.blk - off
  BY <1>0, PlaceInWindow
<1>2. /\ p.blk \in Nat /\ first \in Nat /\ blk \in Nat /\ first' = first
      /\ first <= p.blk /\ p.blk <= blk /\ blk <= p.blk + ExtraReach
      /\ highest_seen \in Nat /\ cursor \in Nat /\ heard \subseteq Nat
      /\ blk' = blk \/ (blk' = blk + 1 /\ p.blk = blk)
  <2>1. p.blk \in Nat /\ blk \in Nat /\ first \in Nat
    BY LinkAssumption DEF Known, SenderInv, WirePackets
  <2>. QED
    BY <2>1 DEF Known, IInv, TypeOK, HeardOf, InThisRun, MovesOn
<1>3. /\ MaxOutage \in Nat \ {0} /\ ExtraReach \in Nat /\ MaxInFlight \in Nat \ {0}
  BY DecAssumption DEF RestartsSuffice
<1>4. /\ started /\ started' /\ cursor' = cursor
      /\ highest_seen' = IF near > highest_seen THEN near ELSE highest_seen
  BY DEF RunWindow, TakenFor
<1>5. /\ highest_seen' \in Int /\ near <= highest_seen' /\ highest_seen <= highest_seen'
      /\ highest_seen' = near \/ highest_seen' = highest_seen
  BY <1>2, <1>4
<1>6. p.blk <= off + highest_seen'
  <2>1. off + near = p.blk
    BY <1>1, <1>2
  <2>. QED
    BY <1>2, <1>5, <2>1
<1>7. /\ off + highest_seen \in Int /\ off + highest_seen' \in Int
      /\ off + highest_seen <= off + highest_seen'
  <2>1. \A a, b \in Int : a <= b => off + a \in Int /\ off + b \in Int /\ off + a <= off + b
    OBVIOUS
  <2>2. highest_seen \in Int /\ highest_seen' \in Int /\ highest_seen <= highest_seen'
    BY <1>2, <1>5
  <2>. QED
    BY <2>1, <2>2
<1>8. \A a, b, c, d, e \in Int :
        /\ a < b + c /\ b <= d => a < d + c
        /\ a <= b + c /\ b <= d => a <= d + c
        /\ a <= b + c + e /\ b <= d => a <= d + c + e
  OBVIOUS
<1>9. off + highest_seen' < blk' + MaxInFlight
  <2>1. off + highest_seen' < blk + MaxInFlight
    <3>1. off + highest_seen < blk + MaxInFlight
      BY DEF RunWindow
    <3>2. CASE highest_seen' = near
      BY <1>1, <1>2, <1>3, <3>2
    <3>3. CASE highest_seen' = highest_seen
      BY <3>1, <3>3
    <3>. QED
      BY <1>5, <3>2, <3>3
  <2>2. blk <= blk' /\ blk' \in Nat
    BY <1>2
  <2>. QED
    BY <1>2, <1>3, <1>7, <1>8, <2>1, <2>2
<1>10. blk' <= off + highest_seen' + ExtraReach + MaxOutage
  <2>1. blk <= off + highest_seen + ExtraReach + MaxOutage
    BY DEF RunWindow
  <2>2. CASE blk' = blk
    BY <1>2, <1>3, <1>7, <1>8, <2>1, <2>2
  <2>3. CASE blk' = blk + 1 /\ p.blk = blk
    <3>1. \A a, b, c, d \in Int : a <= b /\ c >= 0 /\ d >= 1 => a + 1 <= b + c + d
      OBVIOUS
    <3>. QED
      BY <1>2, <1>3, <1>6, <1>7, <2>3, <3>1
  <2>. QED
    BY <1>2, <2>2, <2>3
<1>11. \A h \in heard' : h <= off + highest_seen' + ExtraReach
  <2>1. heard' = heard \cup {p.blk}
    BY DEF Deliver
  <2>2. ASSUME NEW h \in heard PROVE h <= off + highest_seen' + ExtraReach
    <3>1. h <= off + highest_seen + ExtraReach /\ h \in Nat
      BY <1>2 DEF RunWindow
    <3>. QED
      BY <1>3, <1>7, <1>8, <3>1
  <2>3. p.blk <= off + highest_seen' + ExtraReach
    BY <1>2, <1>3, <1>6, <1>7
  <2>. QED
    BY <2>1, <2>2, <2>3
<1>12. ASSUME NEW n \in DOMAIN pool', n \notin old_pool, NEW s \in pool'[n].symbols
       PROVE  s.symbol = off + n
  <2>1. CASE pool' = pool
    BY <1>12, <2>1 DEF RunWindow
  <2>2. CASE pool' # pool
    <3>1. PICK m \in DOMAIN pool' :
            /\ m = IF near < 0 THEN 0 ELSE near
            /\ m >= cursor
            /\ DOMAIN pool' = DOMAIN pool \cup {m}
            /\ \A x \in DOMAIN pool : x # m => pool'[x] = pool[x]
            /\ \A x \in pool'[m].symbols :
                 x.symbol = p.blk \/ (m \in DOMAIN pool /\ x \in pool[m].symbols)
      BY <1>4, <2>2 DEF FiledAt
    <3>2. CASE n = m
      <4>1. ASSUME near < 0 PROVE FALSE
        <5>1. m = 0 /\ cursor = 0
          BY <1>2, <3>1, <4>1
        <5>2. off <= first
          BY <1>12, <3>2, <5>1 DEF RunWindow
        <5>. QED
          BY <1>1, <1>2, <4>1, <5>2
      <4>2. m = near
        BY <3>1, <4>1
      <4>3. p.blk = off + n
        BY <1>1, <1>2, <3>2, <4>2
      <4>. QED
        BY <1>12, <3>1, <3>2, <4>3 DEF RunWindow
    <3>3. CASE n # m
      <4>1. n \in DOMAIN pool /\ pool'[n] = pool[n]
        BY <1>12, <3>1, <3>3
      <4>. QED
        BY <1>12, <4>1 DEF RunWindow
    <3>. QED
      BY <3>2, <3>3
  <2>. QED
    BY <2>1, <2>2
<1>13. (cursor' = 0 /\ 0 \notin old_pool') => off <= first'
  BY <1>2, <1>4 DEF RunWindow
<1>14. \E t \in Int : off = first' + SbnMod * t
  BY <1>2 DEF RunWindow
<1>. QED
  BY <1>4, <1>9, <1>10, <1>11, <1>12, <1>13, <1>14 DEF RunWindow
(* The first frame that puts a block of this run in the pool.              *)
LEMMA NewWindow ==
  ASSUME RestartsSuffice, JoinsTold, Known, HeardOf, JoinInv, NEW p \in WirePackets,
         InThisRun(p), MovesOn(p), Deliver(p), old_pool' = old_pool,
         NEW near \in Int, TakenFor(p, near), FiledAt(p, near),
         DOMAIN pool \subseteq old_pool, ~(DOMAIN pool' \subseteq old_pool)
  PROVE  RunWindow(p.blk - near)'
<1>0. pc = "recv"
  BY DEF Deliver, DropRedundant, Accept, Panic, Receive
<1>1. /\ p.blk \in Nat /\ first \in Nat /\ blk \in Nat /\ first' = first
      /\ first <= p.blk /\ p.blk <= blk /\ blk <= p.blk + ExtraReach
      /\ highest_seen \in Nat /\ cursor \in Nat /\ heard \subseteq Nat
      /\ p.sbn \in Nat /\ p.sbn = (p.blk - first) % SbnMod
      /\ FirstBlk <= p.blk /\ FirstBlk \in Nat /\ LastJoin \in Nat
      /\ blk' = blk \/ (blk' = blk + 1 /\ p.blk = blk)
  <2>1. blk \in Nat /\ first \in Nat /\ FirstBlk \in Nat /\ LastJoin \in Nat
    BY LinkAssumption DEF Known, SenderInv
  <2>2. p.blk \in FirstBlk..LastBlk /\ p.sbn \in 0..SbnMod - 1
    BY DEF WirePackets
  <2>3. p.blk \in Nat /\ FirstBlk <= p.blk /\ p.sbn \in Nat
    BY <2>2, LinkAssumption, DecAssumption
  <2>. QED
    BY <2>1, <2>3 DEF Known, IInv, TypeOK, HeardOf, InThisRun, MovesOn
<1>2. /\ MaxOutage \in Nat \ {0} /\ ExtraReach \in Nat /\ MaxInFlight \in Nat \ {0}
      /\ SbnMod \in Nat \ {0}
  BY DecAssumption DEF RestartsSuffice
<1>3. PICK n \in DOMAIN pool' :
        /\ n = IF near < 0 THEN 0 ELSE near
        /\ n >= cursor'
        /\ DOMAIN pool' = DOMAIN pool \cup {n}
        /\ \A x \in DOMAIN pool : x # n => pool'[x] = pool[x]
        /\ \A x \in pool'[n].symbols :
             x.symbol = p.blk \/ (n \in DOMAIN pool /\ x \in pool[n].symbols)
  BY DEF FiledAt
<1>4. n \notin old_pool /\ n \notin DOMAIN pool
  BY <1>3
<1>5. started' /\ (started => cursor' = cursor) /\ (~started => cursor' = near /\ near = p.sbn)
  BY DEF TakenFor
<1>6. ASSUME cursor' = 0, 0 \notin old_pool PROVE ~started /\ p.blk = first
  <2>1. ~started
    BY <1>5, <1>6 DEF JoinInv
  <2>2. p.sbn = 0 /\ p.blk <= LastJoin
    BY <1>1, <1>5, <1>6, <2>1 DEF JoinInv
  <2>3. CASE first = 0
    <3>1. p.blk % SbnMod = 0 /\ p.blk \in FirstBlk..LastJoin
      BY <1>1, <2>2, <2>3
    <3>. QED
      BY <2>1, <2>3, <3>1 DEF JoinsTold, JoinsClear
  <2>4. CASE first >= FirstBlk
    <3>. DEFINE x == p.blk - first
    <3>1. x \in Nat /\ x < SbnMod /\ x % SbnMod = 0
      <4>1. x \in Nat /\ x % SbnMod = 0
        BY <1>1, <2>2
      <4>2. LastJoin - FirstBlk < SbnMod
        BY DEF JoinsTold
      <4>3. x <= LastJoin - FirstBlk
        BY <1>1, <2>2, <2>4
      <4>. QED
        BY <1>1, <1>2, <4>1, <4>2, <4>3
    <3>. HIDE DEF x
    <3>2. PICK q \in Nat, s \in 0..SbnMod - 1 : s = x % SbnMod /\ x = SbnMod * q + s
      BY <1>2, <3>1, Division
    <3>3. x = SbnMod * q
      <4>1. SbnMod * q \in Int
        BY <1>2
      <4>. QED
        BY <3>1, <3>2, <4>1
    <3>4. x = 0
      BY <1>2, <3>1, <3>3, Multiples
    <3>5. p.blk = first
      BY <1>1, <3>4 DEF x
    <3>. QED
      BY <2>1, <3>5
  <2>. QED
    BY <2>1, <2>3, <2>4 DEF JoinInv
<1>7. ~(near < 0)
  <2>. SUFFICES ASSUME near < 0 PROVE FALSE
    OBVIOUS
  <2>1. n = 0 /\ started
    BY <1>1, <1>3, <1>5
  <2>2. cursor' = 0
    BY <1>1, <1>3, <1>5, <2>1
  <2>. QED
    BY <1>4, <1>6, <2>1, <2>2
<1>8. n = near
  BY <1>3, <1>7
<1>9. /\ highest_seen' \in Int /\ near <= highest_seen'
      /\ highest_seen' = near \/ (started /\ highest_seen' = highest_seen)
  <2>1. CASE started
    <3>1. highest_seen' = IF near > highest_seen THEN near ELSE highest_seen
      BY <2>1 DEF TakenFor
    <3>. QED
      BY <1>1, <2>1, <3>1
  <2>2. CASE ~started
    BY <2>2 DEF TakenFor
  <2>. QED
    BY <2>1, <2>2
<1>. DEFINE off == p.blk - near
<1>10. off \in Int /\ off + near = p.blk
  BY <1>1
<1>11. \E t \in Int : off = first' + SbnMod * t
  <2>1. PICK t \in Int : near = p.blk - first + SbnMod * t
    BY DEF TakenFor
  <2>2. SbnMod * (-t) = -(SbnMod * t) /\ SbnMod * t \in Int /\ -t \in Int
    BY <1>2
  <2>3. off = first + SbnMod * (-t)
    BY <1>1, <2>1, <2>2
  <2>. QED
    BY <1>1, <2>2, <2>3
<1>. HIDE DEF off
<1>12. p.blk <= off + highest_seen'
  BY <1>1, <1>9, <1>10
<1>13. off + highest_seen' < blk' + MaxInFlight
  <2>1. off + highest_seen' < p.blk + MaxInFlight
    <3>1. CASE highest_seen' = near
      BY <1>1, <1>2, <1>10, <3>1
    <3>2. CASE started /\ highest_seen' = highest_seen
      <4>1. highest_seen < cursor + MaxInFlight
        BY <1>0, <3>2, NewestIsNear
      <4>2. cursor <= near
        BY <1>3, <1>5, <1>8, <3>2
      <4>. QED
        BY <1>1, <1>2, <1>10, <3>2, <4>1, <4>2
    <3>. QED
      BY <1>9, <3>1, <3>2
  <2>2. p.blk <= blk' /\ blk' \in Nat
    BY <1>1
  <2>3. \A a, b, c, d \in Int : a < b + d /\ b <= c => a < c + d
    OBVIOUS
  <2>4. off + highest_seen' \in Int
    BY <1>9, <1>10
  <2>. QED
    BY <1>1, <1>2, <2>1, <2>2, <2>3, <2>4
<1>14. blk' <= off + highest_seen' + ExtraReach + MaxOutage
  BY <1>1, <1>2, <1>9, <1>10, <1>12
<1>15. \A h \in heard' : h <= off + highest_seen' + ExtraReach
  <2>1. heard' = heard \cup {p.blk}
    BY DEF Deliver
  <2>2. \A h \in heard' : h \in Nat /\ h <= p.blk + ExtraReach
    <3>1. ASSUME NEW h \in heard PROVE h \in Nat /\ h <= p.blk + ExtraReach
      <4>1. h \in Nat /\ h <= blk
        BY <1>1 DEF HeardOf
      <4>. QED
        BY <1>1, <1>2, <4>1
    <3>. QED
      BY <1>1, <1>2, <2>1, <3>1
  <2>3. \A a, b, c, d \in Int : a <= b + d /\ b <= c => a <= c + d
    OBVIOUS
  <2>4. off + highest_seen' \in Int
    BY <1>9, <1>10
  <2>. QED
    BY <1>1, <1>2, <1>12, <2>2, <2>3, <2>4
<1>16. (cursor' = 0 /\ 0 \notin old_pool') => off <= first'
  <2>. SUFFICES ASSUME cursor' = 0, 0 \notin old_pool PROVE off <= first
    BY <1>1
  <2>1. ~started /\ p.blk = first
    BY <1>6
  <2>2. near = 0
    BY <1>5, <2>1
  <2>. QED
    BY <1>1, <1>10, <2>1, <2>2
<1>17. \A m \in DOMAIN pool' \ old_pool' : \A s \in pool'[m].symbols : s.symbol = off + m
  <2>. SUFFICES ASSUME NEW m \in DOMAIN pool', m \notin old_pool, NEW s \in pool'[m].symbols
                PROVE  s.symbol = off + m
    OBVIOUS
  <2>1. m = n
    BY <1>3
  <2>2. s.symbol = p.blk
    BY <1>3, <1>4, <2>1
  <2>. QED
    BY <1>8, <1>10, <2>1, <2>2
<1>. QED
  BY <1>5, <1>11, <1>13, <1>14, <1>15, <1>16, <1>17 DEF RunWindow, off

LEMMA NextMixInv ==
  ASSUME RestartsSuffice, JoinsTold, Known, HeardOf, JoinInv, MixInv,
         [LinkNext]_linkAllVars
  PROVE  MixInv'
<1>1. CASE Delivered /\ old_pool' = old_pool
  <2>1. PICK p \in WirePackets : InThisRun(p) /\ MovesOn(p) /\ Deliver(p)
    BY <1>1 DEF Delivered
  <2>2. PICK near \in Int : TakenFor(p, near) /\ FiledAt(p, near)
    BY <2>1, FrameIsTaken
  <2>3. CASE DOMAIN pool \subseteq old_pool
    <3>1. CASE DOMAIN pool' \subseteq old_pool'
      BY <3>1 DEF MixInv
    <3>2. CASE ~(DOMAIN pool' \subseteq old_pool)
      <4>1. RunWindow(p.blk - near)'
        BY <1>1, <2>1, <2>2, <2>3, <3>2, NewWindow
      <4>2. p.blk \in Int
        BY LinkAssumption DEF WirePackets
      <4>3. PICK off \in Int : off = p.blk - near
        BY <4>2
      <4>. QED
        BY <4>1, <4>3 DEF MixInv
    <3>. QED
      BY <1>1, <3>1, <3>2
  <2>4. CASE \E off \in Int : RunWindow(off)
    <3>1. PICK off \in Int : RunWindow(off)
      BY <2>4
    <3>2. RunWindow(off)'
      BY <1>1, <2>1, <2>2, <3>1, WindowHolds
    <3>. QED
      BY <3>2 DEF MixInv
  <2>. QED
    BY <2>3, <2>4 DEF MixInv
<1>2. CASE Missed
  <2>1. CASE DOMAIN pool \subseteq old_pool
    BY <1>2, <2>1 DEF Missed, MixInv
  <2>2. CASE \E off \in Int : RunWindow(off)
    <3>1. PICK off \in Int : RunWindow(off)
      BY <2>2
    <3>2. /\ blk \in Nat /\ highest_seen \in Nat /\ heard \subseteq Nat
          /\ ExtraReach \in Nat /\ MaxOutage \in Nat /\ MaxInFlight \in Nat
      <4>1. blk \in Nat
        BY LinkAssumption DEF Known, SenderInv
      <4>. QED
        BY <4>1, DecAssumption DEF Known, IInv, TypeOK, HeardOf, RestartsSuffice
    <3>3. /\ blk' <= off + highest_seen + ExtraReach + MaxOutage
          /\ off + highest_seen < blk' + MaxInFlight
      <4>1. /\ blk <= off + highest_seen + ExtraReach + MaxOutage
            /\ off + highest_seen < blk + MaxInFlight
        BY <3>1 DEF RunWindow
      <4>2. CASE blk' = blk
        BY <4>1, <4>2
      <4>3. CASE MayLose /\ blk' = blk + 1
        <5>1. PICK b \in heard : blk < b + MaxOutage
          BY <3>1, <4>3 DEF MayLose, RunWindow
        <5>2. b <= off + highest_seen + ExtraReach /\ b \in Nat
          BY <3>1, <3>2, <5>1 DEF RunWindow
        <5>. QED
          BY <3>2, <4>1, <4>3, <5>1, <5>2
      <4>. QED
        BY <1>2, <4>2, <4>3 DEF Missed
    <3>4. RunWindow(off)'
      BY <1>2, <3>1, <3>3 DEF Missed, RunWindow
    <3>. QED
      BY <3>4 DEF MixInv
  <2>. QED
    BY <2>1, <2>2 DEF MixInv
<1>3. CASE Decodes
  <2>1. /\ DOMAIN pool' \subseteq DOMAIN pool
        /\ \A n \in DOMAIN pool' : pool'[n].symbols = pool[n].symbols
        /\ UNCHANGED <<heard, first, blk, old_pool, highest_seen, started>>
        /\ cursor' = 0 => cursor = 0
    <3>1. cursor \in Nat
      BY DEF Known, IInv, TypeOK
    <3>. QED
      BY <1>3, <3>1, DecoderOnlyWrites, WrittenWasSeen DEF Decodes
  <2>2. CASE DOMAIN pool \subseteq old_pool
    BY <2>1, <2>2 DEF MixInv
  <2>3. CASE \E off \in Int : RunWindow(off)
    <3>1. PICK off \in Int : RunWindow(off)
      BY <2>3
    <3>2. \A n \in DOMAIN pool' \ old_pool' : \A s \in pool'[n].symbols : s.symbol = off + n
      BY <2>1, <3>1 DEF RunWindow
    <3>3. RunWindow(off)'
      BY <2>1, <3>1, <3>2 DEF RunWindow
    <3>. QED
      BY <3>3 DEF MixInv
  <2>. QED
    BY <2>2, <2>3 DEF MixInv
<1>4. CASE Renumbers
  BY <1>4 DEF Renumbers, MixInv
<1>. QED
  BY <1>1, <1>2, <1>3, <1>4, KindsOfStep

(* After a restart symbols of two blocks are mixed only in blocks that     *)
(* were held at that moment (unwrap_sbn, main.rs:250; BlockState::ingest). *)
THEOREM MixedWereHeld ==
  RestartsSuffice /\ JoinsTold => (LinkSpec => []MixedWasHeld)
<1>. SUFFICES ASSUME RestartsSuffice, JoinsTold PROVE LinkSpec => []MixedWasHeld
  OBVIOUS
<1>1. LinkInit => HeardOf /\ JoinInv /\ MixInv
  BY LinkAssumption DEF LinkInit, Init, HeardOf, JoinInv, MixInv
<1>2. Known /\ HeardOf /\ [LinkNext]_linkAllVars => HeardOf'
  BY NextHeardOf
<1>3. Known /\ HeardOf /\ JoinInv /\ [LinkNext]_linkAllVars => JoinInv'
  BY NextJoinInv
<1>4. Known /\ HeardOf /\ JoinInv /\ MixInv /\ [LinkNext]_linkAllVars => MixInv'
  BY NextMixInv
<1>5. MixInv => MixedWasHeld
  <2>. SUFFICES ASSUME MixInv, NEW n \in DOMAIN pool, n \notin old_pool,
                       NEW s \in pool[n].symbols, NEW t \in pool[n].symbols
                PROVE  s.symbol = t.symbol
    BY DEF MixedWasHeld
  <2>1. PICK off \in Int : RunWindow(off)
    BY DEF MixInv
  <2>2. s.symbol = off + n /\ t.symbol = off + n
    BY <2>1 DEF RunWindow
  <2>. QED
    BY <2>2
<1>6. SenderInv /\ [LinkNext]_linkAllVars => SenderInv'
  BY NextSenderInv
<1>7. Known <=> IInv /\ LossTypes /\ SenderInv
  BY DEF Known
<1>. QED
  BY <1>1, <1>2, <1>3, <1>4, <1>5, <1>6, <1>7, InitSenderInv, DecoderIsInside, Invariant,
     TypesInvariant, PTL DEF LinkSpec
=============================================================================
