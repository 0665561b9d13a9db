CONSTANTS
  Agents = {"adHoc", "integrated"}
  Session = {s1, s2, s3}
  Did = {d1, d2}
  Sid = {k1, k2}
  Thread = {t1, t2}
  NoSession = NoSession
  NoThread = NoThread
  NoDid = NoDid
  NoSid = NoSid
  MaxWrites = 1
  PlatformFails = FALSE
  PromptReconnect = FALSE
  ReuseAddress = FALSE
  Restarts = TRUE
SPECIFICATION Spec
SYMMETRY Symmetry
INVARIANTS TypeOK OnlineManagerRoutable DeliveryMatchesAddressee
CHECK_DEADLOCK FALSE
