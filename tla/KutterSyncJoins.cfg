CONSTANTS
  MaxReceived = 1
  MaxUnderWay = 1
  LastSequence = 3
  MayBreak = FALSE
  NoWords = NoWords
SPECIFICATION SyncSpec
PROPERTY ClientJoins
