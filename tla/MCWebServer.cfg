CONSTANTS
  MaxConnections = 2
  MaxPlayers = 2
  MaxSpectators = 1
  MaxTrainees = 2
  MaxPlayerId = 3
  SpawnCells = 2
  ActiveTicks = 2
  IntermissionTicks = 2
  RespawnUnit = 2
  RespawnCap = 3
  MaxReceived = 1
  MaxUnderWay = 1
  LastSequence = 3
  MayBreak = TRUE
  NoWords = NoWords
  Seats = 2
  Gallery = 1
  Teams = {1}
  LobbyNames = {n1, n2, n3}
  Identities = {i1, i2}
  NoIdentity = NoIdentity
  MaxParticipant = 3
  MaxBindings = 2
  RingSize = 1
  MaxChat = 1
SPECIFICATION ServerSpec
\* The bounds are reached.
CHECK_DEADLOCK FALSE
INVARIANTS
  SeatsMatchPlayers
  FallenAwaitWave
  TrainingInv
  SyncInv
  LobbyInv
PROPERTIES
  PhasesGoOn
  ClientGoesOn
