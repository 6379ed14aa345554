SPECIFICATION Spec
CONSTANTS
  Kinds = {"chat"}
  ChunkCap = 1
  EventCap = 1
  MaxLeave = 3
  BufCap = 6
  MaxChatChunks = 4
  MaxAnthropicChunks = 8
  MaxGoogleChunks = 3
  MaxBlocks = 2
  NoEvent = NoEvent
INVARIANT
  NoPanic
CHECK_DEADLOCK FALSE
