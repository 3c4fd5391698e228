SPECIFICATION Spec
CONSTANTS
    Spawners = {p1, p2, p3}
    MAX_SLOTS = 3
    WORD = 2
SYMMETRY Symmetry
INVARIANTS SlotsExclusive NoSlotLost
PROPERTY ImplementsPool
