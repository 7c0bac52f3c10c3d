SPECIFICATION ConnectionsSpec
CONSTANTS
  p1 = p1
  p2 = p2
  NoPayload = NoPayload
  Payloads <- MCPayloads
  Window <- MCWindow
  RetryLimit <- MCRetryLimit
  Timeout <- MCTimeout
  MaxSequence <- MCMaxSequence
  MaxConnections = 2
  MaxEvents = 3
  MaxId = 3
  Chatters <- MCChatters
  MaxChatId = 3
  MaxMessages = 3
  HistorySize = 2
  ChatSpacing = 2
  ShortestMatch = 2
  MaxChatTick = 2
  NoMessage = NoMessage
  Ticks = 3
  LeaveTick = 2
  Chunks = 2
  MaxFaults = 2
\* Everything submitted is settled or the channel failed for good; all the
\* socket ids of the bound are used; the bounds of the chat are reached.
CHECK_DEADLOCK FALSE
INVARIANTS
  WindowInv
  ReliableDelivery
  EntriesAgree
  ConnectionsServed
  ChatReaches
  DedicatedInv
PROPERTIES
  EverythingSettles
  SpeaksInTurn
