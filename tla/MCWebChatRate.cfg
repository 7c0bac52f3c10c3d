CONSTANTS
  Chatters <- MCChatters
  MaxChatId = 3
  MaxMessages = 3
  HistorySize = 2
  ChatSpacing = 2
  ShortestMatch = 2
  MaxChatTick = 2
  NoMessage = NoMessage
SPECIFICATION ChatSpec
INVARIANT RateIsSixTicks
CHECK_DEADLOCK FALSE
