\* The tail of the memory is left over: 5 * (2 + 3 + 2) + 9 words.
SPECIFICATION Spec
CONSTANTS
  Words = 44
  Hdr = 2
  Null = Null
  Wild = Wild
  Logos <- Compressed
  ImgWords = 2
  EntryWords = 3
  Align = 2
  MaxEntries = 5
INVARIANTS
  HeapSound
  EntryInPlace
CHECK_DEADLOCK FALSE
