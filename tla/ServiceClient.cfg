SPECIFICATION ClientSpec
CONSTANTS
    NSVC = 2
    Named = {1}
    Policy <- TwoPolicies
    MAX_SERVICES = 1
    MAX_RESTARTS = 1
    WINDOW = 1
    MaxTid = 4
    MaxTime = 2
    Svc = 1
    TRIES = 2
INVARIANTS SupervisedWhenIdle OneInstance
PROPERTIES ProviderReturns StaleCacheDropped
CHECK_DEADLOCK FALSE
