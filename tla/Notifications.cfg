SPECIFICATION Spec
CONSTANTS
  Event = {a, b, s, t}
  Timeout = {s, t}
  Entry = {x1, x2, x3}
  NoEvent = noevent
  NoEntry = noentry
  MaxTime = 2
INVARIANTS TypeOK DeltaIndexed TimedLinked NoLostDelta TimedInFuture
PROPERTY ImplementsPending
SYMMETRY Symmetric
