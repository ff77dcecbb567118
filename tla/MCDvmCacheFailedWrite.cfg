\* The same instance, asked for coherence without exception.
SPECIFICATION Spec
CONSTANTS
  Drives = {sd}
  Sectors = 4
  MaxCount = 3
  PageSectors = 2
  Entries = {e1, e2}
  Pages = 2
  EmptyPage = 99
  NoEntry = NoEntry
  Unset = Unset
  NoRequest = NoRequest
  Garbage = Garbage
  Images = {1, 2}
  Ops = {"read", "write"}
  Values <- MCValues
  Contents <- MCContents
INVARIANTS
  AlwaysCoherent
