SPECIFICATION Spec
CONSTANTS
    N = 3
    Boot = 3
    Allow <- PlainCalls
    SpawnCap = {1}
    SystemCells = {}
    RealTime = {}
    Input = {1}
    Codes = {0}
    Timeouts = {}
    MaxQueued = 2
    MaxOwed = 1
INVARIANTS Rendezvous NoLostTask NoOrphanWait ReadyExact DeathsConserved PayloadMatches
