SPECIFICATION Spec
CONSTANTS
  t = t
  u = u
  rst = rst
  Method = {m}
  Thread = {t, u}
  UserEvent = {}
  Channel = {rst}
  Static <- AllStatic
  DontInit = {}
  Resets <- OneSignal
  Op = {"update", "reset", "throw", "kill", "syncreset", "suspend", "resume", "EVENT"}
  Random = FALSE
  StopMode = "FINISH_DELTA"
  Corners = TRUE
  NoProcess = noprocess
  MaxTime = 0
  MaxCycles = 1
INVARIANTS ResetsCounted StaysInReset ThrowPending
PROPERTIES ThrownFirst
