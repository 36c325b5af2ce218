SPECIFICATION Spec
CONSTANTS
    MaxConns = 2
    MaxData = 1
    MaxRelays = 2
    MaxFaults = 1
INVARIANT NoCrossTalk
CHECK_DEADLOCK FALSE
