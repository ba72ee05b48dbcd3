SPECIFICATION Spec
CONSTANTS
  Method = {m}
  Thread = {t, u}
  UserEvent = {a}
  Channel = {}
  Static <- AllStatic
  DontInit = {}
  Resets = {}
  Op = {"notify", "EVENT", "TIMEOUT", "next_trigger", "suspend", "resume", "disable", "enable", "kill"}
  Random = TRUE
  StopMode = "FINISH_DELTA"
  Corners = TRUE
  NoProcess = noprocess
  MaxTime = 0
  MaxCycles = 2
INVARIANTS RunsOwed TimeoutArmed KillPending
PROPERTIES SuspendedStays RunsKept
SYMMETRY Alike
