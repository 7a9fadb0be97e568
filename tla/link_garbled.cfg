\* One frame arrives garbled and none is lost.
SPECIFICATION LinkSpec
CHECK_DEADLOCK FALSE
CONSTANTS
  SbnMod = 8
  CcMod = 4
  SymbolSize = 1
  MaxSourceSymbols = 1
  DefaultBlockSize = 1
  Otis <- LinkOtis
  Esis <- LinkEsis
  Symbols <- LinkSymbols
  MaxInFlight = 2
  Timeout = 1
  MaxFrames = 20
  K = 1
  Repair = 1
  ExtraReach = 2
  FirstBlk = 6
  LastJoin = 7
  LastBlk = 10
  MaxOutage = 2
  MaxBurst = 3
  MaxFaults = 1
  MaxExtra = 1
  MaxNoops = 1
  MaxRestarts = 0
INVARIANT
  LossIsLinkLoss
