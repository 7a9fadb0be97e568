\* The link is down for more than half the block numbers.
SPECIFICATION LinkSpec
CHECK_DEADLOCK FALSE
CONSTANTS
  SbnMod = 8
  CcMod = 8
  SymbolSize = 1
  MaxSourceSymbols = 1
  DefaultBlockSize = 1
  Otis <- LinkOtis
  Esis <- LinkEsis
  Symbols <- LinkSymbols
  MaxInFlight = 2
  Timeout = 1
  MaxFrames = 20
  K = 1
  Repair = 0
  ExtraReach = 2
  FirstBlk = 1
  LastJoin = 1
  LastBlk = 8
  MaxOutage = 6
  MaxBurst = 6
  MaxFaults = 6
  MaxExtra = 0
  MaxNoops = 0
  MaxRestarts = 0
PROPERTY
  RedundantIsEmitted
