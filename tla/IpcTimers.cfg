SPECIFICATION FairSpec
CONSTANTS
    N = 2
    Boot = 1
    Allow <- TimedCalls
    SpawnCap = {1}
    SystemCells = {}
    RealTime = {2}
    Input = {}
    Codes = {0}
    Timeouts = {2}
    MaxQueued = 1
    MaxOwed = 1
PROPERTIES TimedRecvEnds HangIsEnded
CHECK_DEADLOCK FALSE
