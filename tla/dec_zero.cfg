\* A zero block of a stream whose blocks are not of the default size.
SPECIFICATION Spec
CHECK_DEADLOCK FALSE
CONSTANTS
  SbnMod = 6
  CcMod = 1
  SymbolSize = 2
  MaxSourceSymbols = 2
  DefaultBlockSize = 6
  Otis <- Otis2
  Esis = {0, 1, 2}
  Symbols = {0}
  MaxInFlight = 2
  Timeout = 1
  MaxFrames = 4
INVARIANT
  ZeroBlockIsBlockSized
