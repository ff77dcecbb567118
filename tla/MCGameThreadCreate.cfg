\* A directory change in the instant between flag and exit.
SPECIFICATION Spec
CONSTANTS
  Dirs = {"/", "/a", "/a/b", "/bad"}
  Root = "/"
  Listing <- MCListing
  Broken = {"junk"}
  Unreadable = {"/bad"}
  MaxVisits = 4
  NoDir = "none"
PROPERTIES
  CreateAfterExit
CHECK_DEADLOCK FALSE
