\* Two drives, reads only: eviction, drive switches, new media, wipes.
SPECIFICATION FairSpec
CONSTANTS
  Drives = {sd, gcldr}
  Sectors = 6
  MaxCount = 3
  PageSectors = 2
  Entries = {e1, e2}
  Pages = 2
  EmptyPage = 99
  NoEntry = NoEntry
  Unset = Unset
  NoRequest = NoRequest
  Garbage = Garbage
  Images = {1, 2}
  Ops = {"read", "initialize", "disable", "enable", "wipe", "overwrite"}
  Values <- MCValues
  Contents <- MCContents
INVARIANTS
  EmptyAtTail
  DistinctPages
  Coherent
  SearchStillValid
  ReadReturnsMedium
PROPERTIES
  ImplementsBlockDevice
  RequestEnds
