\* Packets of three bytes, a channel of two, up to thirteen bytes of
\* any kind.  The process ends.
SPECIFICATION SyncFairSpec
CHECK_DEADLOCK FALSE
CONSTANTS
  PacketSize = 3
  ChannelCap = 2
  MaxBytes = 13
INVARIANTS
  SyncTypeOK
  FramesAreWhole
  NoSyncSkipped
  StaysLocked
  InStepComesThrough
PROPERTIES
  ProcessEnds
