\* The disc in the drive is booted while the thread runs.
SPECIFICATION Spec
CONSTANTS
  Dirs = {"/", "/a", "/a/b", "/bad"}
  Root = "/"
  Listing <- MCListing
  Broken = {"junk"}
  Unreadable = {"/bad"}
  MaxVisits = 4
  NoDir = "none"
INVARIANTS
  HandoverAlone
CHECK_DEADLOCK FALSE
