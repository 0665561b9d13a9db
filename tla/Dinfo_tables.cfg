CONSTANTS
  MaxMeters = 31
  MaxDownloads = 3
  U8 = 256
  U32 = 1048576
  Drops = TRUE
  Refusals = TRUE
  LookupFails = TRUE
SPECIFICATION FairSpec
INVARIANTS TypeOK SuccessMeansStored 
PROPERTIES DownloadEnds
CHECK_DEADLOCK FALSE
