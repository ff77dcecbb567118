SPECIFICATION BootSpec
CONSTANTS
  Machines <- MCFlippy
  Dirs = {"root", "sub"}
  Root = "root"
  Up <- MCUp
  Listing <- MCListing
  Nothing = Nothing
INVARIANTS
  NeverComesBack
CHECK_DEADLOCK FALSE
