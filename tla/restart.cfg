\* An encoder is restarted twice, at any block before or after the wrap of
\* the block number; a source and a repair symbol a block, one frame lost or
\* garbled.
SPECIFICATION LinkSpec
CHECK_DEADLOCK FALSE
CONSTANTS
  SbnMod = 7
  CcMod = 4
  SymbolSize = 1
  MaxSourceSymbols = 2
  DefaultBlockSize = 1
  Otis <- LinkOtis
  Esis <- LinkEsis
  Symbols <- LinkSymbols
  MaxInFlight = 2
  Timeout = 1
  MaxFrames = 40
  K = 1
  Repair = 1
  ExtraReach = 0
  FirstBlk = 1
  LastJoin = 2
  LastBlk = 9
  MaxOutage = 2
  MaxBurst = 3
  MaxFaults = 1
  MaxExtra = 0
  MaxNoops = 0
  MaxRestarts = 2
INVARIANTS
  LossWithinCounter
  MixedWasHeld
PROPERTIES
  BlackoutBounded
