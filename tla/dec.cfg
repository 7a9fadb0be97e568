\* The decoder on arbitrary frames: sbn modulo 6, blocks of one or two
\* source symbols, at most four frames, a timeout of one tick.
\* It may stop: "done" and "failed" are final.
SPECIFICATION FairSpec
CHECK_DEADLOCK FALSE
CONSTANTS
  SbnMod = 6
  CcMod = 1
  SymbolSize = 2
  MaxSourceSymbols = 2
  DefaultBlockSize = 4
  Otis <- Otis1or2
  Esis = {0, 2}
  Symbols = {0}
  MaxInFlight = 2
  Timeout = 1
  MaxFrames = 4
INVARIANTS
  TypeOK
  PoolWindow
  NothingReadyWaits
  NewestInReach
PROPERTIES
  NoSilentDrop
  ZeroOnlyMakesRoom
  StreamSpec
  HeadLeaves
  FlushEnds
