SPECIFICATION Spec
CONSTANTS
    Old = 1
    New = 9
    Orc = 3
    Child = 5
    Clients = {2, 4}
    DEPTH = 2
    MaxReq = 2
INVARIANTS NobodyStuck SomeoneServes KeptUntilDrain InOrderOnce
CHECK_DEADLOCK FALSE
