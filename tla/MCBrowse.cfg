\* Every file is a game: the grid keeps its size.
SPECIFICATION BrowseSpec
CONSTANTS
  PerLine = 2
  Rows = 2
  MaxLines = 5
  Step = 28
  AllValid = TRUE
  MaxBlind = 1
  MaxRestarts = 1
INVARIANTS
  PositionsExact
  SelectionVisible
  OnlyRowsDrawn
PROPERTIES
  AnimationsEnd
