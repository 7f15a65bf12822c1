CONSTANTS
    MinDt = 1
    MaxDt = 1
    SensorTimeout = 1
    EnabledAiding = {}
    MaxSession = 2
    MaxSequence = 2
    MaxTime = 3
    FrameCapacity = 2
    ReplyCapacity = 1
SPECIFICATION Spec

PROPERTIES DuplicateDoesNotArm
