\* A buffer for every banner, and a user who waits for the lines that a move loads and frees, and for the listing.
SPECIFICATION Spec
CONSTANTS
  Tasks <- Banners
  NoTask = NoTask
  NoCall = NoCall
  NoBuf = NoBuf
  Chunks = 2
  N = 4
  PerLine = 1
  Rows = 1
  Preload = 1
  BufferCount = 4
  Patient = TRUE
  MaxRestarts = 1
INVARIANTS
  WindowLoaded
CHECK_DEADLOCK FALSE
