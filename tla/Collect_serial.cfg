CONSTANTS
  Collector = {c1, c2}
  Op = {o1, o2}
  NoCollector = NoCollector
  NoOp = NoOp
  MaxFrame = 3
  MaxBlocks = 4
  Drops = TRUE
  BlockMeters = {13, 14}
  LookupFails = TRUE
  Refusals = TRUE
  Overlap = FALSE
  Integrated = FALSE
SPECIFICATION FairSpec
INVARIANTS TypeOK NeverMisread FetchIsFresh
PROPERTIES GroupReadHolds CollectionEnds ReportedIsUploaded
CHECK_DEADLOCK FALSE
