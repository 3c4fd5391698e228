SPECIFICATION FairSpec
CONSTANTS
    N = 4
    Secondary = FALSE
    RealTime = {2}
    Armed = {3}
    Cli = TRUE
    MaxQueued = 4
INVARIANTS ResumesOwnStack NoFreedStack
PROPERTY ReadyRuns
CHECK_DEADLOCK FALSE
