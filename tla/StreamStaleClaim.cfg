CONSTANTS
    alice = alice
    bob = bob
    Clients = {alice, bob}
    Creator = alice
    Device <- OneDevice
    Cap = 2
    Chunks = {1}
    MaxTotal = 2
    MaxConns = 3
    MaxFaults = 1
SPECIFICATION FairSpec
PROPERTY StaleClaimRejected
CHECK_DEADLOCK FALSE
