CONSTANTS
  OkLines = {4, 11}
  Kinds = {"receive", "ready"}
  Blocks = {1}
  MaxReplies = 3
  MaxBeats = 1
  MaxChunk = 1
  Pipelined = FALSE
  BeatInside = FALSE
  BlockRefused = FALSE
SPECIFICATION FairSpec
INVARIANTS TypeOK ReadFits
PROPERTIES RepliesKept RepliesHandled SilentSessionClosed
CHECK_DEADLOCK FALSE
