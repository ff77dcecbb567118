\* The code alone: the user may act at any time.
SPECIFICATION Spec
CONSTANTS
  Tasks <- Banners
  NoTask = NoTask
  NoCall = NoCall
  NoBuf = NoBuf
  Chunks = 2
  N = 5
  PerLine = 1
  Rows = 1
  Preload = 1
  BufferCount = 4
  Patient = FALSE
  MaxRestarts = 0
INVARIANTS
  QueueIntact
CHECK_DEADLOCK FALSE
