SPECIFICATION Spec
CONSTANTS
  SS = 2
  CSize = 2
  NFat = 9
  FatPerSector = 4
  DirPerSector = 2
  Names <- MCNames
  Volumes <- MCVolumes
  Calls <- MCCalls
  NoCall = NoCall
  NoValue = NoValue
  MaxFaults = 2
INVARIANTS
  PositionTrue
PROPERTIES
  ImplementsFile
  CallsReturn
CHECK_DEADLOCK FALSE
