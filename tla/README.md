# live-video: a TLA+ model of the FEC transport

The repository sends live video over a DVB-S2 link. Its own core is
`src/raptorq/`: an encoder (`raptorq-enc`) that adds RaptorQ forward error
correction to an MPEG-TS stream and paces it onto the wire, and a decoder
(`raptorq-dec`) that rebuilds the stream from what the radio delivers. The rest
is glue around them: a GNU Radio flow graph, shell scripts, systemd units and
Ansible templates. This directory models the core.

## Inventory

| part | source | state | operations | correct when | model |
|---|---|---|---|---|---|
| decoder loop | `dec/src/main.rs:131-446` | pool of blocks, cursor, highest_seen, started, last_cc, counters | take a frame, ingest a symbol, drain (write decoded, best-effort or zero block), poll | output ordered and gapless; pool bounded; nothing ready or overdue stuck at the head; symbols of two blocks never mixed; never a panic; losses counted right | `RaptorqDec`, `BlockStream` |
| end of input | `dec/src/main.rs:357-369, 448-468` | the same | flush what is held | everything held is written, in order, and the program ends | `RaptorqDec` |
| decoder's reader | `dec/src/main.rs:63-129` | 188-byte scratch, channel of 1024 frames | resynchronise on 0x47, send | packets whole however reads cut the input; never out of step without cause; process ends | `TsSync` |
| encoder's reader | `enc/src/main.rs:189-221` | block being filled, channel of blocks | read, pad the last block, send | nothing read is lost | `RaptorqEnc` |
| block encoder | `enc/src/main.rs:225-416, 493-517` | sbn, interleaving, repair ring | emit a block, mint extra repair, nap | no symbol twice; extra repair only for recent blocks, within ceiling and horizon; repair spread | `RaptorqEnc`, which implements `EncWire` |
| paced writer | `enc/src/main.rs:418-489` | continuity counter, counts, clock | send data or noop, pace, drain and end | counter without gap; drains at the end; keeps the rate, and makes up for stalls | `RaptorqEnc` (order), `PacedWriter` (clock) |
| wire format | `common/src/lib.rs` | none | build and parse frames | parse inverts build; bad frames refused; one wrong bit never changes what a frame is | `TsFrame` (bits); records in the other modules |
| link | `gnuradio/`, `dvbs2/tx.sh`, `rx-render.sh` | external | lose, garble, in order | (environment) | `LossyLink` |
| deployment | `systemd/`, `ansible/`, `run*.sh` | unit states | wait for network, start, restart | comes up in order; restarts are survived | restarts of the encoder: `LossyLink`; boot order: not modelled |

How they interact: in both programs threads talk over bounded `sync_channel`s
(a send blocks when full and fails when the receiver is gone; a receive fails
when it is empty and the senders are gone). The encoder never hears from the
decoder; all the decoder knows is in the frames. Each frame carries a 4-bit
continuity counter over all frames, the OTI (symbol size and block length), an
8-bit block number and a symbol id. What makes this hard: 8-bit numbers that
wrap, a link that loses any frames, blocks that complete out of order, a timeout
racing late symbols, shutdown through two channels, and a ring of old blocks
whose repair is sent after that of newer ones.

## Modules

- `BlockStream` is what a receiver of the decoder's output may rely on: it joins
  somewhere, and from there every block is written once, in order, none left
  out; only after the input has closed may blocks be left out.
- `RaptorqDec` is `run_decoder` with any frames whatever as input. `pc` is the
  place in the loop: `recv` (the channel receive), `drain` (the inner loop),
  `flush`, and the three ends `done`, `failed` and `panicked`. Each arm of the code's matches
  is an action: `DropInsane`, `DropRedundant` (which go straight back to the
  channel, as the code's `continue` does), `Accept`, `Panic`, `RecvNoop`,
  `RecvUnparseable`, `PollTimeout`, `Disconnect`, then `EmitDecoded`,
  `EmitBestEffort`, `EmitZero`, `DrainDone`, then `FlushNext`, `FlushDone`, and
  `StdoutError`. `Tick` ages the blocks held. It refines `BlockStream` under
  `written <- out, next <- cursor, phase <- Phase`.
- `EncWire` is the encoder as seen from the wire, with no word of threads: block
  after block its source symbols with the baseline repair among them, extra
  repair between two blocks, noops at any time, one counter over all frames; and
  the process may be restarted and begin again at block 0 and counter 0. It is
  the contract between the two sides: `RaptorqEnc` implements it and `LossyLink`
  sends by it.
- `LossyLink` puts `EncWire` and an order-preserving link in front of the very
  actions of `RaptorqDec`. Blocks have their true number; symbols carry it as
  payload, and ghost variables remember which blocks lost or delivered
  something, so that the properties can compare what the decoder believes with
  what happened. Every frame may be lost or garbled, extra repair and noops
  included; a noop has no OTI to garble. `EncRestart` is the encoder's unit starting it again
  (`Restart=always`), of which the decoder hears nothing.
- `RaptorqEnc` is the encoder's three threads, one group of actions each:
  `Reader`, `Encoder` (adaptive and not; `adaptive` is chosen at the start) and
  `Writer`. A thread blocked on a full channel is one whose send is not enabled.
  The interleaving of source and repair is stepwise, as the iterator is. It
  refines `EncWire` by counting what was written: the packets of the blocks
  themselves (`in_band`) give the block and the place in it, `extras` the extra
  repair of each block.
- `PacedWriter` is the writer's clock: the integer arithmetic of
  `nanos_per_packet`, the absolute schedule, writes that stall and sleeps that
  end late. What is written is `RaptorqEnc`'s, where a frame may take any time.
- `TsFrame` is the wire format bit by bit, with the counter of both sides:
  header bytes and frame type as `TsHeader::write` makes them and
  `TsHeader::parse` reads them, for both programs' `--pid` of sixteen bits, with
  bits flipped on the way. The body (OTI, payload id, symbol) is opaque: its
  layout is the raptorq crate's.
- `TsSync` is the decoder's other thread, `reader_thread`, and `main`. The
  scratch buffer holds the positions of its bytes in the input, and a byte is
  0x47 or not, so that a packet sent can be compared with the input it came
  from. `ReadBytes` takes any number of bytes up to what is lacking; `SkipByte`,
  `SendFrame` and `SendFails` are the inner loop; `ReadEof` and `ReadError` end
  it. `run_decoder` is reduced to what it does to the channel (`RecvFrame`,
  `RecvClosed`, `DecoderFails`, and `DecoderPanics`, which ends the process
  without waiting for the reader, as `run_decoder` is called by `main` itself)
  and `main` to `Join`. `dec_ok` says that it has neither failed nor panicked. `RaptorqDec` takes any
  sequence of frames, so it takes those that `TsSync` sends.
- `MC_*` give the constants for TLC. `*_proofs` hold the proofs, one module for a
  component, two for `LossyLink` (loss count; block numbers) and two for
  `RaptorqEnc` (its threads; the wire).

Operators marked `(slip: ...)` are deliberately wrong variants of the
definition that follows them. Substituted for it they break a property, which
shows that the property depends on that piece of the code; no specification
uses them.

Abstractions. RaptorQ itself is external: with all source symbols decoding
succeeds, with fewer than K symbols it fails, and in between either may happen.
Its `decode` asserts that a symbol has the block number its decoder was made for
(`DecodeAsserts`): otherwise `run_decoder` panics (`Panic`), which ends the
process with the blocks held unwritten. A block that is complete never calls it.
The crate's source is not in this repository, so the assertion is taken from the
crate as it is published. Symbol payloads are block numbers. Time is counted in
ticks, ages up to the timeout or just past the horizon, except in `PacedWriter`.
The statistics other than lost and redundant packets, and logging, are left out. A
failed write ends the program; the half-written block is not followed.

## Runs

| run | bounds | shows |
|---|---|---|
| `dec` | block numbers modulo 6, window 2, timeout 1 tick, 4 frames, blocks of 1 or 2 source symbols | the decoder on any frames: `TypeOK`, `PoolWindow`, `NothingReadyWaits`, `NewestInReach`, `NoSilentDrop`, `ZeroOnlyMakesRoom`, `StreamSpec` (refinement), `HeadLeaves`, `FlushEnds` |
| `link` | numbers modulo 8 starting at 6, so the wrap is crossed; counter modulo 3; 4 blocks of 2 source symbols, up to 2 frames lost, unparseable or with a garbled OTI, one extra repair, one noop | the decoder behind encoder and link: `LinkTypeOK`, `PureSymbols`, `NeverPanics`, `LossIsExact`, `HeardIsWritten`, `RedundantIsEmitted`, `OnlyHurtIsGivenUp`, `ZeroMeansNothingCame` |
| `restart` | numbers modulo 7, 9 blocks of 1+1 symbols, joined at block 1 or 2, one frame lost or garbled, two restarts anywhere | what a restart may cost: `LossWithinCounter`, `MixedWasHeld`, `BlackoutBounded` |
| `enc` | up to 3 blocks, the last one perhaps padded, 3+2 symbols, ceiling 3, ring of 2, too old for it a tick after they were sent, channels of one block, numbers modulo 2, counter modulo 4, one noop | the three threads: `EncTypeOK`, `EverySymbolIsNew`, `RepairIsSpread`, `ShutdownDrains`, `WireSpec` (refinement), `NoStaleMint`, `Terminates` |
| `sync` | packets of 3 bytes, a channel of 2, every input of up to 13 bytes | `SyncTypeOK`, `FramesAreWhole`, `NoSyncSkipped`, `StaysLocked`, `InStepComesThrough`, `ProcessEnds` |
| `frame` | `--pid` 256, 8191 or 8448 against 0, 256, 8191 or 8448; 4 frames, 2 flipped bits anywhere in header and type, the counter at 0 or 14 | `FrameTypeOK`, `ReadAsMeant`, `OneFlipIsSafe`, `FlipsCost` |
| `pace` | 4 bits a frame at 3 bits in 10 ticks, writes of up to 9 ticks, sleeps up to 2 late, stalls of up to 20 in all, 9 frames | `PaceTypeOK`, `RateKept`, `StallIsMadeUp` |
| `dec_overdue`, `dec_zero` | as `dec`, one block length | the decoder against the README (see Findings) |
| `link_garbled`, `link_clamp`, `link_outage` | as `link`, other blocks and faults | loss accounting and block numbers at their limits |

Why the bounds are enough. In `dec` half the block numbers is 3 and the window
is 2, so a frame can be behind, at the cursor, inside the window and one past
it, and the zero, force and timeout rules all fire; four frames can join, make a
hole, fill it late and jump. The continuity counter is switched off there
(modulo 1) because arbitrary counters say nothing; `link` has it modulo 3, so
that its two faults in a row are a burst of one less than the modulus, the
longest that the counter tells. Losing a whole block (two frames) and going on
two further makes a zero block; losing one frame of a block and one of another
has one block given up and the other made good by extra repair, or both given
up. In `restart` nine blocks take the encoder past the wrap before or after it
starts again, so the decoder can hold blocks of one run while the next sends the
same numbers, be behind or ahead of it, and come back; blocks of one source and
one repair symbol are enough, as symbols are mixed when they meet under one
number, however many there are. In `enc` a channel of one block is smaller than
what is in flight, so every send blocks somewhere; the ring holds a block behind
its front, which can have used up its extra repair while the front has not, and
outlives a front that has grown too old; a third block overflows the ring, and block
numbers wrap there; three source symbols and two of repair leave a source symbol
over when the repair has been interleaved, and there is room for one extra
symbol of a block.

In `sync` thirteen bytes are four packets and a bit, so the reader can start out
of step, be led astray by a sync byte within a packet, find its way back, and
meet a full channel. In `frame` the pids have every relation that matters: equal
and small, equal and past thirteen bits, different with the same low bits, the
same with the same high bits; two flips can hit one frame or two, and cancel.
In `pace` the rate does not divide (13 1/3 ticks a frame), a write takes up to 9
of the 13, and a stall of 20 is more than one frame's time and is made up for
before the ninth frame.

What the link runs take for granted: an outage is shorter than half the block
numbers less the window (`MaxOutage`; see `link_outage`), and, for `NeverPanics`
and `MixedWasHeld` only, the receiver does not first hear the stream at a later
block whose 8-bit number is 0 (`LastJoin`; see `link_clamp`). The proofs show that
no more is needed, and how much of it when the encoder restarts: see
`NumbersSuffice`, `JoinsClear`, `RestartsSuffice` and `JoinsTold` below. Run `link`
is within the first two of them, run `restart` within the last two.

Fairness. The decoder's loop polls every 20 ms, so `PollTimeout`, the drain and
the flush are weakly fair, and so is time; frames, end of input and write errors
are never promised. `HeadLeaves` also uses that frames are finitely many: an
unbroken flood of redundant frames, each of which skips the drain loop, could
put off a timeout for as long as it lasts. In the encoder each thread is weakly
fair as the operating system schedules it; fairness of the reader stands for an
input that ends.

In `sync` the reader and the decoder are weakly fair, but a read of an open input
is not: it may block for ever. So after a failed write of standard output the
process is only promised to end once another packet comes or the input closes
(`ProcessEnds`); until then `main` waits for a reader that waits for the radio.

CHECK_DEADLOCK is off throughout because both programs end.

## Findings

1. `dec_overdue`: a block behind a wholly missing one outlives the timeout
   (README.md:23 of `raptorq/`). A missing block has no timeout of its own.
2. `dec_zero`: zero blocks have the default length, not the stream's.
3. `link_garbled`: an unparseable frame is counted as lost as well.
4. `link_clamp`: the decoder crashes. A receiver whose first block has number 0
   has its cursor at 0 until that block is written, and there `unwrap_sbn` clamps
   the number of every older block to 0. Extra repair for the block before is
   then not dropped as redundant, as the code means it to be, but ingested by
   block 0, which is not complete because the receiver joined in its middle or
   lost some of it; the crate asserts on the number and `run_decoder` panics.
   Nothing in the repository starts the decoder again.
5. `link_outage`: after 128 lost blocks new ones are dropped as already written.

What a restart of the encoder costs is no disagreement with any text of the
repository, and run `restart` says how much it can be: blocks held at that
moment may be mixed with new ones of their numbers; new blocks may be dropped as
already written until the new run is half the block numbers and a window beyond
the first of its blocks that was heard of; and the loss count is out by less than
a round of the counter. A `--pid` of 0x2000 or more is
likewise accepted by both programs, and then every frame is refused
(`ReadAsMeant`).

## Proofs

`RaptorqDec_proofs` proves, for every value of the constants allowed by
`DecAssumption` (a window of at least one block, positive moduli, any set of
OTIs, any timeout, any number of frames):

- `TypeCorrect`, `WindowBounded`, `ReadyIsWritten`, `ReachBounded`: the four
  invariants of run `dec`;
- `NothingDropped`, `ZerosMakeRoom`: its two action properties;
- `WideWindowNeverZeroes`: with a `--max-blocks-in-flight` of half the block
  numbers or more no missing block is ever written as zeros, so the stream
  stands still at one;
- `PoolNeverLarger`: at no moment, in the middle of the drain loop or the flush,
  are more than `--max-blocks-in-flight` blocks held and one;
- `OutputInOrder`: the output as a whole is every block from the first to the
  cursor, once and in order, and after the input has closed none twice or late;
- `ImplementsStream`: the refinement of `BlockStream`.

`PoolNeverLarger` rests on `OneBeyond` (all that is held is in the window but for
one block), `OutputInOrder` on its own statement, each with `IInv`.

The inductive invariant `IInv` adds to the types and the three invariants four
facts the code relies on without stating them: nothing is held before the join;
what is held is not behind the cursor; the newest block heard of is the greatest
held and is held until the cursor passes it (`NewestIsHeld`); and held blocks
have the length of a sane OTI. `WindowBounded` needs the first to know that a
drain loop that stops has nothing forcing it. `ZerosMakeRoom` needs the third:
the code's second reason for writing zeros, `highest_seen`, is shown to imply
the first. `ImplementsStream` needs the second for the jumps of the flush, and
the fourth for the lengths. There is one lemma per action.

`TsSync_proofs` proves, for every packet size, channel and input, `SyncTypeCorrect`,
`WholeFrames`, `SyncNotSkipped`, `LockHolds` (the invariants of run `sync` about
framing) and `ChannelDrained`. The framing invariants hold together: `SyncInv`
adds that the scratch buffer is the tail of the input (`ScratchIsTail`), which
makes what is sent contiguous, and that what was sent has left the buffer
(`SentIsDone`), which keeps packets apart. `ChannelDrained` needs that packets
sent are those received and those in the channel (`ChannelKeeps`).
`StepComesThrough` adds `StepInv`: behind an input in step the bytes that have left
the scratch buffer are just the packets sent (`NothingSkipped`), since a full
buffer then begins at a multiple of the packet size (`FullIsAtSync`); and
less than a packet is left in it when the reader waits or has ended, unless
nobody took its packet (`LeftOver`).

`RaptorqEnc_proofs` proves, for every size of block, queue, ring, modulus and
input: `EncTypeCorrect`; `CounterCorrect`, by `CounterInv` (the writer's counter
and the frame in its hand are the next of the wire); `MintIsFresh`, by `RingInv`
(the ring is in order of age, so that an old block anywhere in it means an old
block at its front, which is all that `prune_ring` looks at); and
`SymbolsAreNew`. For the last, `SymbolInv` follows a symbol through every place
it can be in: the blocks in the channel, those done, the one being sent and
those in the ring are all different (`QueueInv`, `EntriesInv`), whatever is
minted, queued, in the writer's hand or on the wire was made before the place its
block has reached (`AllMade`), and no two of those are equal (`NoRepeats`).

`RaptorqEncWire_proofs` proves that `RaptorqEnc` implements `EncWire`
(`WireCorrect`), and from that argument `RepairSpread` and `ShutdownCorrect`.
Three counts must agree that no two threads change together: what was written
(`OnWire`), what is in the writer's hand and in the channel, and how far the
encoder is. `OnWay` ties them: `OnWire` and the packet in hand give a state of
the sender, from which sending the packets in the channel, one after the other
(`Leads`), gives the state of the encoder thread (`AtEncoder`): the symbols it
has made of its block, and the next repair id of every block in the ring. Each
thread's step then takes a packet off one end of that chain or adds one to the
other. `PlaceInv` adds what the steps need: block numbers are counted from the
blocks taken (`BlockAt`), the iterator's two counts satisfy `Interleaved`, so
that their sum determines the symbol (`EsiIs`, `NextSymbol`), and the threads
end in order, with empty channels (`EndInv`). For `RepairSpread` the invariant
`Written` gives every packet on the wire its place in the order of all blocks
and says that all places before the present one are taken; `SpreadOut` is the
arithmetic of the places. `ShutdownCorrect` reads off the same that with empty
channels every block read is in full on the wire.

`PacedWriter_proofs` proves, at every rate and with any stalls and late sleeps,
the three invariants of run `pace` and `LatenessBounded`: however many sleeps end
late, the lag is one lateness and the stalls at most. `Rounding` is the one fact about the integer
division; `OnSchedule`, `LagBounded` and `LagShrinks` follow the schedule through
the loop's three places.

`TsFrame_proofs` proves the four invariants of run `frame` for all pids, bodies,
frames and flips. `FrameInv` says what is on the wire: what was built, or, if one
bit was flipped, that with this bit changed. `FlipsCost` needs a bound on what is
still to be counted: `pkts_lost`, the gap there is now (`Owed`) and what the frame
on the wire will add to it (`Coming`) together are paid for by sixteen a flip
(`Paid`).

`LossyLink_proofs` proves `LinkTypeCorrect`, and `DecoderIsInside`: every step of
the composition is one of `RaptorqDec` or leaves it alone, so that all that was
proved of the decoder holds behind the link. For the loss count it splits steps
by what they mean to the counter (a frame read, a frame unread, a restart, no
frame): with bursts shorter than a round, each restart costs less than a round
(`RestartsCostARound`), and without any the count is exact (`LossesAreCounted`).

`LossyLinkBlocks_proofs` proves that block numbers are enough to tell blocks
apart: `NeverMixed`, `OnlyOldIsDropped`, `ZerosAreUnheard`, `GivenUpIsHurt` and
`HeardAreWritten`, from `NumbersSuffice`: no restart; and the longest outage and the
reach of extra repair, each with the window, are less than half the block numbers.
It asks nothing of where the receiver joins: what the clamp would misfile makes
the decoder panic, and a panicked decoder mixes, drops and writes nothing more. That
it does not panic is `RefusesNothing`, and that needs `JoinsClear` too: the receiver
joins at no later block whose number is 0. With the defaults (a window
of 8, a ring of 64, 256 numbers) that covers outages of up to 120 blocks.
`BlockInv` ties the decoder to the sender: the newest block heard of is within an
outage, or the ring, of the block being sent, and the cursor within a window of it
(`Window`); what was heard is held until it is written (`HeardIsHeld`).
`UnwrapFinds` then gives that `unwrap_sbn` finds the very block, and `OwnNumbers`
that each block's decoder was made for the number its block has on the wire, so
that a frame of another block can only be refused (`ClampedIsRefused`) or dropped.
For `RefusesNothing` the invariant `ClearOfClamp` says that a cursor at 0 means the
encoder's very first block, behind which there is none. `link_clamp` violates
`JoinsClear` and `link_outage` the bound on outages, and show that they are needed.
`GivenUpIsHurt` needs `GatherInv` besides: of every block not hurt and not yet
written, the source symbols that the sender is past are held (`Gathered`), and a
block that holds them all is complete (`Decoded`). That the sender is past all
source symbols of a block when it goes on to the next is `SourcesAreSent`, which
is about `EncWire`'s layout of a block. Together they make a block that is not
hurt and not being sent complete (`IntactIsComplete`), so that neither the force
rule, nor the timeout, nor the flush can give it up.

`HeardAreWritten` follows what was heard to what was written. Its invariant
`OutInv` says that every block heard and behind the cursor is written, or from
before the first written; it needs that until the flush there is no gap in what
was written (`NoGapYet`), for the cursor passes blocks by writing them, and that
the block of the join is at the cursor, and heard, until something is written.
The flush leaves blocks out, but only such as are not held, and what is heard and
not behind the cursor is held. Four kinds of step are told apart: one delivers a
block (`DeliveredOut`), one writes one (`PutsOutOut`), the flush ends, and the
others leave both alone (`QuietOut`).

Its last two sections are about restarts, of which there may be any number.
`RestartsSuffice` asks that an outage, the reach of extra repair and the window
together stay below half the block numbers: with the defaults, outages of up to
56 blocks. All the decoder can have wrong is where the present run of the encoder
begins in its own numbers, so each invariant says that there is an offset, a
multiple of the modulus from the run's first block, against which all is in
order. For `BlackoutEnds` the offset exists once any block of this run was
heard of (`Anchor`): the newest block is one of this run, or an old one and not
half the numbers and a window beyond any new one. A frame that moves the newest
block on chooses the offset anew (`NewAnchor`); any other is seen at the present
one (`PlaceAgainst`, `AnchorHolds`). For `MixedWereHeld` either all that is held
was held at the restart, or there is an offset at which every other block holds
symbols of this run only, and in which `unwrap_sbn` places every frame of this run
(`MixInv`, `RunWindow`, `PlaceInWindow`). This one also needs `JoinsTold`: `JoinsClear`, and a
first block heard within one round of the numbers. The first version of `BlackoutBounded` measured from the first
block of the run; it is false when that block is lost, and the proof attempt
showed it.

Every property of the passing runs is proved but the four of liveness
(`HeadLeaves`, `FlushEnds`, `Terminates`, `ProcessEnds`), which are out of the
prover's reach and only model-checked, as are the violations.
Proved besides, and in no configuration of their own: `CounterHasNoGap`, which is part
of what run `enc` checks as `WireSpec`; `DrainsBeforeEnd`, which run `sync` checks
in `InStepComesThrough` for an input in step; `LatenessDoesNotAdd`, which bounds by
itself the lag that run `pace` checks as `StallIsMadeUp`; `PoolNeverLarger` and
`OutputInOrder`, the invariant forms of what run `dec` checks as `PoolWindow` and
`StreamSpec`.

## Not modelled

- The decoder's interval statistics (`dec/src/main.rs:183-248`) and the writer's
  heartbeat: counters beside actions that are modelled, logged and never read.
- The order in which units come up (`wait-network@.service.j2`, `WantedBy`,
  `After`): systemd's semantics, with nothing of this repository's code in it.
- The GNU Radio flow graph and the DVB-S2 receiver: what they do to frames is the
  link's losing and garbling.
- The raptorq crate, and with it the layout of OTI and payload id, and what a
  decoder does with symbols that a flipped bit has changed within the body.
- `queue_blocks` of 0, which makes rendezvous channels of both; the models take
  at least one block.
- Packets of another length than 188 bytes: the decoder's reader sends no other.

## Left to prove

1. That the bounds cannot be widened: `link_outage` and `link_clamp` show it for
   `NumbersSuffice` and `JoinsClear` at one size, and no run for `RestartsSuffice`.
2. One theorem from camera to player: the reader, encoder, wire, framing and
   decoder are each proved against the next (`WireCorrect`, `MeaningSurvives`,
   `StepComesThrough`, `DecoderIsInside`), but no module composes all of them.
