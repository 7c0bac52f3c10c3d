CONSTANTS
  MaxConnections = 2
  MaxPlayers = 2
  MaxSpectators = 1
  MaxTrainees = 2
  MaxPlayerId = 3
  SpawnCells = 2
  ActiveTicks = 2
  IntermissionTicks = 2
  RespawnUnit = 2
  RespawnCap = 3
SPECIFICATION Spec
PROPERTIES WaveRespawns
CHECK_DEADLOCK FALSE
