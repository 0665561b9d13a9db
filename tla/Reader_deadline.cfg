CONSTANTS
  OkLines = {4, 11}
  Kinds = {"receive", "ready"}
  Blocks = {1}
  MaxReplies = 3
  MaxBeats = 1
  MaxChunk = 1
  Pipelined = FALSE
  BeatInside = FALSE
  BlockRefused = FALSE
SPECIFICATION Spec
INVARIANT DeadlineArmed
CHECK_DEADLOCK FALSE
