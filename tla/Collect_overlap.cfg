CONSTANTS
  Collector = {c1, c2}
  Op = {o1, o2, o3}
  NoCollector = NoCollector
  NoOp = NoOp
  MaxFrame = 2
  MaxBlocks = 2
  Drops = TRUE
  BlockMeters = {13, 14}
  LookupFails = TRUE
  Refusals = TRUE
  Overlap = TRUE
  Integrated = TRUE
SPECIFICATION Spec
SYMMETRY Symmetry
INVARIANTS ReportsMatchCollector
CHECK_DEADLOCK FALSE
