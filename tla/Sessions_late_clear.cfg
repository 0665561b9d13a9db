CONSTANTS
  Agents = {"adHoc", "integrated"}
  Session = {s1, s2, s3}
  Did = {d1}
  Sid = {k1}
  Thread = {t1, t2}
  NoSession = NoSession
  NoThread = NoThread
  NoDid = NoDid
  NoSid = NoSid
  MaxWrites = 1
  PlatformFails = FALSE
  PromptReconnect = TRUE
  ReuseAddress = FALSE
  Restarts = FALSE
SPECIFICATION Spec
INVARIANT OnlineManagerRoutable
CHECK_DEADLOCK FALSE
