SPECIFICATION FairSpec
CONSTANTS
    Sensor = {s1}
    Actuator = {a1}
    M_SENSOR = 1
    M_ACTUATOR = 1
    MAX_COUNT = 1
INVARIANTS SnapshotIsRecent FreezesAfterOne BusSettles
PROPERTY FailureTimesOut
