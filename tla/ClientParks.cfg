SPECIFICATION Spec
CONSTANTS
    BackoffMax = 4
    SocketGrace = 2
    DaemonGrace = 3
    AttemptTimeout = 2
    MaxFaults = 3
INVARIANT ParksOffline
CHECK_DEADLOCK FALSE
