CONSTANTS
    MaxElapsed = 3
    MaxTimeout = 2
    MaxThrottle = 1
    Motor = {0, 1}
    Timeouts = {2}
    MaxCommands = 4
    MaxSession = 2
    MaxStep = 3
SPECIFICATION FairSpec
INVARIANTS TypeOK LeaseHolds SessionOpenedDisarmed RefusedUntilPassed
PROPERTIES StopsAreExplained KeepsLease StopsForGood
