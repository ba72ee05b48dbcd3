SPECIFICATION Spec
CONSTANTS
  Process = {p1, p2, p3, p4, p5}
  PushHead = head
  End = end
  Null = null
  NoProc = noproc
INVARIANT LinksSound
PROPERTY ImplementsQueue
SYMMETRY Symmetric
