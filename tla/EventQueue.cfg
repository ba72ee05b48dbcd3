SPECIFICATION Spec
CONSTANTS
    MaxTime = 4
    MaxPending = 7
    LateCancel = FALSE
PROPERTIES AssertionHolds ImplementsEventQueue
