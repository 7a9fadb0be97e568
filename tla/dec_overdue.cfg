\* A held block behind a block of which nothing came outlives the timeout.
SPECIFICATION Spec
CHECK_DEADLOCK FALSE
CONSTANTS
  SbnMod = 6
  CcMod = 1
  SymbolSize = 2
  MaxSourceSymbols = 2
  DefaultBlockSize = 4
  Otis <- Otis2
  Esis = {0, 1, 2}
  Symbols = {0}
  MaxInFlight = 2
  Timeout = 1
  MaxFrames = 4
PROPERTY
  OverdueIsEmitted
