SPECIFICATION Spec
CONSTANTS
    N = 3
    Secondary = TRUE
    RealTime = {2}
    Armed = {3}
    Cli = FALSE
    MaxQueued = 2
CONSTRAINTS StacksSound FewDeaths
INVARIANT NoReadyLost
PROPERTY RealTimeNotStolen
CHECK_DEADLOCK FALSE
