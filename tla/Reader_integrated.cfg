CONSTANTS
  Kinds = {"refused", "ready", "time", "result"}
  Blocks = {1, 4, 13}
  MaxReplies = 3
  MaxBeats = 1
  MaxChunk = 1
  ManyBlocks = FALSE
  BlockRefused = FALSE
SPECIFICATION FairSpec
INVARIANTS TypeOK ReadFits
PROPERTIES RepliesKept RepliesHandled
CHECK_DEADLOCK FALSE
