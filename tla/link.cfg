\* Four blocks of two symbols across the wrap of the block number, joined
\* before it; two frames lost or garbled, one extra repair frame and one
\* noop.  It may stop: the last block is sent and the program ended.
SPECIFICATION LinkSpec
CHECK_DEADLOCK FALSE
CONSTANTS
  SbnMod = 8
  CcMod = 3
  SymbolSize = 1
  MaxSourceSymbols = 2
  DefaultBlockSize = 1
  Otis <- LinkOtis
  Esis <- LinkEsis
  Symbols <- LinkSymbols
  MaxInFlight = 2
  Timeout = 1
  MaxFrames = 20
  K = 2
  Repair = 0
  ExtraReach = 2
  FirstBlk = 6
  LastJoin = 7
  LastBlk = 9
  MaxOutage = 2
  MaxBurst = 2
  MaxFaults = 2
  MaxExtra = 1
  MaxNoops = 1
  MaxRestarts = 0
INVARIANTS
  LinkTypeOK
  PureSymbols
  NeverPanics
  LossIsExact
  HeardIsWritten
PROPERTIES
  RedundantIsEmitted
  OnlyHurtIsGivenUp
  ZeroMeansNothingCame
