SPECIFICATION Spec
CONSTANTS
  t = t
  u = u
  rst = rst
  Method = {m}
  Thread = {t, u}
  UserEvent = {}
  Channel = {rst}
  Static <- AllStatic
  DontInit = {}
  Resets <- OneSignal
  Op = {"update", "resetfirst"}
  Random = FALSE
  StopMode = "FINISH_DELTA"
  Corners = FALSE
  NoProcess = noprocess
  MaxTime = 0
  MaxCycles = 1
INVARIANTS QueuedOnce
