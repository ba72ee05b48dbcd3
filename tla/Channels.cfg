SPECIFICATION Spec
CONSTANTS
    a = a
    b = b
    c = c
    None = None
    Thread = {a, b, c}
    Use <- MCUse
    Value = {0, 1}
    Size = 2
    Max = 2
    MaxPost = 1
INVARIANTS SleepersMustWait MutualExclusion WokenIsServed
PROPERTIES ExampleIsFifo ImplementsFifo
CHECK_DEADLOCK FALSE
