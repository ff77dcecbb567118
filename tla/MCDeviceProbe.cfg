SPECIFICATION Spec
CONSTANTS
  Machines <- MCMachines
  MaxLate = 3
  GcFaults = {"error", "odd"}
  MaxPolls = 3
  MaxOpens = 2
  GcodeAttempts = 4
  BootAttempts = 3
  MountAttempts = 3
  Retries = 4
  SectorBytes = 4
  MaxXfer = 2
  Lba28 = 4
  Sectors = {2, 3, 4, 5}
  Kinds = {"ok", "error"}
INVARIANTS
  CachedAbsenceTrue
  ReadyIsAdopted
  ReadIsExact
PROPERTIES
  ProbeEnds
