CONSTANTS
    MinDt = 4
    MaxDt = 12
    SensorTimeout = 20
    EnabledAiding = {}
    MaxAge = 20
    MaxSkew = 5
    Circle = 4
    Period = 8
    MaxTime = 34
    MaxFaults = 1
SPECIFICATION Spec
PROPERTIES RejectedIsLatched
