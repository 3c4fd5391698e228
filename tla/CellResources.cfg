SPECIFICATION Spec
CONSTANTS
    MaxTask = 3
    Frames = {f1}
    Windows = {w1}
    MaxCap = 1
    Users = {2, 3}
    Manifests <- SomeManifests
    Masks <- SomeMasks
INVARIANTS FramesBacked HeldByLiving
PROPERTIES DeathReclaims DeathsKeepClaims
CHECK_DEADLOCK FALSE
