SPECIFICATION Spec
CONSTANTS
  Dirs = {"/", "/a", "/a/b", "/bad"}
  Root = "/"
  Listing <- MCListing
  Broken = {"junk"}
  Unreadable = {"/bad"}
  MaxVisits = 4
  NoDir = "none"
INVARIANTS
  EntriesOfPath
  NeverRefused
  BootAlone
PROPERTIES
  StopEnds
  CardWarmed
CHECK_DEADLOCK FALSE
