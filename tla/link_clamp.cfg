\* The receiver first hears block 8, number 0 on the wire; repair for
\* block 7 follows.
SPECIFICATION LinkSpec
CHECK_DEADLOCK FALSE
CONSTANTS
  SbnMod = 8
  CcMod = 4
  SymbolSize = 1
  MaxSourceSymbols = 2
  DefaultBlockSize = 1
  Otis <- LinkOtis
  Esis <- LinkEsis
  Symbols <- LinkSymbols
  MaxInFlight = 2
  Timeout = 1
  MaxFrames = 20
  K = 2
  Repair = 1
  ExtraReach = 2
  FirstBlk = 7
  LastJoin = 8
  LastBlk = 8
  MaxOutage = 2
  MaxBurst = 3
  MaxFaults = 4
  MaxExtra = 1
  MaxNoops = 0
  MaxRestarts = 0
INVARIANT
  NeverPanics
