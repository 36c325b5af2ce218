CONSTANTS
    alice = alice
    bob = bob
    Clients = {alice, bob}
    Creator = alice
    Device <- TwoDevices
    Cap = 2
    Chunks = {1}
    MaxTotal = 3
    MaxConns = 3
    MaxFaults = 2
SPECIFICATION Spec
INVARIANT NoSilentLoss
CHECK_DEADLOCK FALSE
