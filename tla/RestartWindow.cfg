SPECIFICATION Spec
CONSTANTS
    NSVC = 1
    Named = {1}
    Policy <- AllPermanent
    MAX_SERVICES = 1
    MAX_RESTARTS = 2
    WINDOW = 2
    MaxTid = 5
    MaxTime = 4
INVARIANT RestartsWithinLimit
CHECK_DEADLOCK FALSE
