\* Frames of four bits at three bits in ten ticks: thirteen ticks and a
\* third each, a write takes up to nine, a sleep ends up to two late, and
\* writes stall for up to twenty in all.  It stops after nine frames.
SPECIFICATION PaceSpec
CHECK_DEADLOCK FALSE
CONSTANTS
  Second = 10
  FrameBits = 4
  Rate = 3
  WriteTime = 9
  Late = 2
  MaxStall = 20
  MaxFrames = 9
INVARIANTS
  PaceTypeOK
  RateKept
  StallIsMadeUp
