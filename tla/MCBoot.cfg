SPECIFICATION BootSpec
CONSTANTS
  Machines <- MCMachines
  Dirs = {"root", "sub"}
  Root = "root"
  Up <- MCUp
  Listing <- MCListing
  Nothing = Nothing
INVARIANTS
  RunsLoaded
  DriveMatches
PROPERTIES
  BootsShown
  FadeEnds
CHECK_DEADLOCK FALSE
