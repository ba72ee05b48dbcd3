SPECIFICATION Spec
CONSTANTS
    MaxTime = 3
    MaxPending = 5
    LateCancel = TRUE
PROPERTIES AssertionHolds
