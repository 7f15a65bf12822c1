CONSTANTS
    MinDt = 2
    MaxDt = 3
    SensorTimeout = 1
    EnabledAiding = {tof}
    tof = tof
    MaxSequence = 2
    MaxSensorTime = 6
    MaxHostTime = 3
SPECIFICATION Spec
INVARIANTS TypeOK SampleChain IntegratorWindow
PROPERTIES LatchHolds ImplementsInterlock
