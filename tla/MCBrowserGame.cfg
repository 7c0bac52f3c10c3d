SPECIFICATION GameSpec
CONSTANTS
  MaxSockets = 2
  MaxAttempts = 2
  MaxSnapshots = 2
  MaxSequence = 4
  MaxPending = 2
  MaxFlight = 2
  MaxLook = 8
  Fine = 2
  Turn = 3
  Looks <- WholeDegrees
  Bots = {1, 2, 3, 4}
  TeamSize = 2
  HistoryCap = 2
  Delays = {1}
  MaxAhead = 2
  LocalAhead = 2
  Grain = 12
  Gone = Gone
  Places <- MCPlaces
  Axes = {0, 1}
  MaxTime = 3
  MaxTick = 4
  MaxWire = 2
\* Pages leave, counters reach their bounds, and a battle runs on.
CHECK_DEADLOCK FALSE
INVARIANTS
  SessionInv
  PlayInv
  BattleInv
  ActorsInv
PROPERTIES
  LossIsHandled
  FramesCount
  CommandSettles
