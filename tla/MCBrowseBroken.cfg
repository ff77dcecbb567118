\* Files that are no games: the grid shrinks when the list is complete.
SPECIFICATION BrowseSpec
CONSTANTS
  PerLine = 2
  Rows = 2
  MaxLines = 4
  Step = 28
  AllValid = FALSE
  MaxBlind = 0
  MaxRestarts = 0
INVARIANTS
  SelectedLineBacked
