CONSTANTS
  Agents = {"adHoc", "integrated"}
  Collector = {c1, c2}
  Meter = {m1, m2}
  Op = {o1, o2, o3}
  NoCollector = NoCollector
  NoMeter = NoMeter
  NoOp = NoOp
  Drops = TRUE
  Refusals = TRUE
  LookupFails = TRUE
  Overlap = FALSE
SPECIFICATION FairSpec
INVARIANTS TypeOK SuccessHasReading
PROPERTIES EndsByOwnResult DeviceShowsOutcome ReadingEnds
CHECK_DEADLOCK FALSE
