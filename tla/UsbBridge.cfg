CONSTANTS
    Modulus = 6
    MotorCount = 2
    Session = {1, 2}
    HilSession = 1
    PortCapacity = 2
    SinkCapacity = 1
    MaxFaults = 1
    MaxReboots = 1
SPECIFICATION Spec
INVARIANTS TypeOK OutageBounded
PROPERTIES ForwardsInOrder KeepsFlowing StopsWhenAsked
