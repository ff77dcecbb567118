\* One drive, reads and writes, device writes that fail half way.
SPECIFICATION Spec
CONSTANTS
  Drives = {sd}
  Sectors = 4
  MaxCount = 3
  PageSectors = 2
  Entries = {e1}
  Pages = 1
  EmptyPage = 99
  NoEntry = NoEntry
  Unset = Unset
  NoRequest = NoRequest
  Garbage = Garbage
  Images = {1, 2}
  Ops = {"read", "write", "disable", "enable", "wipe"}
  Values <- MCValues
  Contents <- MCContents
INVARIANTS
  Coherent
PROPERTIES
  ImplementsBlockDevice
