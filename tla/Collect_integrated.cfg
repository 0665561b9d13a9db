CONSTANTS
  Collector = {c1, c2}
  Op = {o1, o2}
  NoCollector = NoCollector
  NoOp = NoOp
  MaxFrame = 3
  MaxBlocks = 3
  Drops = FALSE
  BlockMeters = {13, 14}
  LookupFails = FALSE
  Refusals = FALSE
  Overlap = FALSE
  Integrated = TRUE
SPECIFICATION Spec
INVARIANT NeverMisread
CHECK_DEADLOCK FALSE
