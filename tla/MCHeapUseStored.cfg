\* A logo whose image fits where its compressed data were.
SPECIFICATION Spec
CONSTANTS
  Words = 50
  Hdr = 2
  Null = Null
  Wild = Wild
  Logos <- Stored
  ImgWords = 2
  EntryWords = 3
  Align = 2
  MaxEntries = 1
INVARIANTS
  PrevIsPrevious
CHECK_DEADLOCK FALSE
