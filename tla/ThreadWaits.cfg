SPECIFICATION WaitsSpec
CONSTANTS
  Method = {m}
  Thread = {t}
  UserEvent = {a}
  Channel = {c}
  Static <- AllStatic
  DontInit = {}
  Resets = {}
  Op = {"notify", "notifyat", "update", "EVENT", "OR", "AND", "TIMEOUT", "next_trigger", "CYCLES", "kill", "exit",
        "stop", "pause", "suspend", "resume", "disablefirst", "enable"}
  Random = FALSE
  StopMode = "FINISH_DELTA"
  Corners = FALSE
  NoProcess = noprocess
  MaxTime = 1
  MaxCycles = 3
INVARIANTS ProcessesSound WaitsKept DeltaFinished IntervalsNested
PROPERTIES TimeAdvances
