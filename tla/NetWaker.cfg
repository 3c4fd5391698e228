SPECIFICATION Spec
CONSTANTS
    Setups <- NetSetups
    RING = 2
    PUMP = 2
    SLICE = 1
    HB = 4
 
PROPERTIES WaitEndsInTime SendEnds
