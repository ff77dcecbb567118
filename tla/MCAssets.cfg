\* A user who waits for the lines that a move loads and frees, and for the listing.
SPECIFICATION Spec
CONSTANTS
  Tasks <- Banners
  NoTask = NoTask
  NoCall = NoCall
  NoBuf = NoBuf
  Chunks = 2
  N = 4
  PerLine = 1
  Rows = 1
  Preload = 1
  BufferCount = 3
  Patient = TRUE
  MaxRestarts = 1
INVARIANTS
  LoadedIsValid
  PoolExact
  WindowLoaded
PROPERTIES
  TransfersEnd
CHECK_DEADLOCK FALSE
