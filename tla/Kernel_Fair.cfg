SPECIFICATION FairSpec
CONSTANTS
  Method = {m}
  Thread = {t, u}
  UserEvent = {a}
  Channel = {}
  Static <- AllStatic
  DontInit = {}
  Resets = {}
  Op = {"notify", "notifyzero", "notifyat", "cancel", "EVENT", "TIMEOUT", "stop", "pause"}
  Random = TRUE
  StopMode = "IMMEDIATE"
  Corners = FALSE
  NoProcess = noprocess
  MaxTime = 1
  MaxCycles = 2
PROPERTIES RunnableRuns StopEnds DeltaDelivered
