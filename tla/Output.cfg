SPECIFICATION OutputSpec
CONSTANTS
    alice = alice  bob = bob
    Clients = {alice, bob}
    Creator = alice
    Device <- TwoDevices
    Cap = 2
    Chunks = {1, 2}
    MaxTotal = 3
    MaxConns = 3
    MaxFaults = 2
INVARIANTS
    CountIsPosition
    LossOnlyFromCutReplay
    ShortOutageResumes
    ServedIsAttached
    
    HandedBack
PROPERTIES
    StaleClaimRejected
    ImplementsOutputLog
\* The session ends: the system stops.
CHECK_DEADLOCK FALSE
