\* Three blocks or two and a padded one, more than the ring of two holds, of
\* three source and two baseline repair symbols, so that a source symbol is
\* left over, and up to one extra.  A block is too old for the ring a tick
\* after it was sent.  The program ends.
SPECIFICATION EncFairSpec
CHECK_DEADLOCK FALSE
CONSTANTS
  K = 3
  Repair = 2
  MaxRepair = 3
  Horizon = 0
  MaxRing = 2
  QueueBlocks = 1
  SbnMod = 2
  CcMod = 4
  MaxBlocks = 3
  MaxNoops = 1
INVARIANTS
  EncTypeOK
  EverySymbolIsNew
  RepairIsSpread
  ShutdownDrains
PROPERTIES
  WireSpec
  NoStaleMint
  Terminates
