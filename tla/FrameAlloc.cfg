SPECIFICATION FairSpec
CONSTANTS
    Clients = {c1, c2}
    TOTAL = 5
    BITMAP_PAGES = 1
    PROBE_CHUNK = 2
    Sizes = {2, 3, 6}
    WORD = 2
INVARIANTS TypeOK FramesExclusive NoRunMissed LoopFindsFirst
PROPERTY SearchEnds
