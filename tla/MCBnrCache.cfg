SPECIFICATION Spec
CONSTANTS
  gameA = gameA
  gameB = gameB
  gameC = gameC
  Files <- MCFiles
  Tasks <- MCTasks
  Dirs <- MCDirs
  Key <- MCKey
  NoTask = NoTask
  NoCall = NoCall
  Store = Store
  Load = Load
  Hi = Hi
  Nobody = Nobody
  Chunks = 2
  Slots = 2
  Top = 7
  CacheCells = 1
  ListBase = 1
  ListCells = 2
  ReadErrors = FALSE
  MaxHi = 1
  MaxWalks = 3
  MaxReloads = 2
INVARIANTS
  OwnBanner
  SlotsHoldTheirs
PROPERTIES
  ImplementsFifo
  EveryRequestAnswered
CHECK_DEADLOCK FALSE
