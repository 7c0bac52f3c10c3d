CONSTANTS
  MaxSequence = 4
  MaxPending = 2
  MaxFlight = 2
  MaxLook = 8
  Fine = 2
  Turn = 3
  Looks = {2}
SPECIFICATION PlaySpec
INVARIANT ReturnsToServerState
CHECK_DEADLOCK FALSE
