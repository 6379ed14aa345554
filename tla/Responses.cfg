SPECIFICATION FairSpec
CONSTANTS
  Kinds = {"chat", "anthropic", "google", "whole", "visual"}
  ChunkCap = 1
  EventCap = 1
  MaxLeave = 2
  BufCap = 6
  MaxChatChunks = 4
  MaxAnthropicChunks = 8
  MaxGoogleChunks = 3
  MaxBlocks = 2
  NoEvent = NoEvent
INVARIANTS
  AnswerIsFaithful
  ItemsCloseInOrder
  ReasoningIsWhole
PROPERTIES
  NoTornEvent
  StreamsEnd
CHECK_DEADLOCK FALSE
