\* Four frames, two flipped bits anywhere in their headers and types; pids
\* below and above thirteen bits, equal and not, the same low bits and not;
\* the counter about to wrap or not.  It stops when all are read.
SPECIFICATION FrameSpec
CHECK_DEADLOCK FALSE
CONSTANTS
  Pids = {256, 8191, 8448}
  Wants = {0, 256, 8191, 8448}
  Counters = {0, 14}
  Bodies = {b1}
  Stuffing = ff
  MaxFrames = 4
  MaxFlips = 2
INVARIANTS
  FrameTypeOK
  ReadAsMeant
  OneFlipIsSafe
  FlipsCost
