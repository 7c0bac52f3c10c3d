SPECIFICATION LayoutSpec
CONSTANTS
  MaxActors = 8
  MaxSlices = 4
  Places <- MCPlaces
CHECK_DEADLOCK FALSE
INVARIANTS EveryMatchIsAccepted
