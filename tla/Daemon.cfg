SPECIFICATION FairSpec
CONSTANTS
    d1 = d1
    d2 = d2
    c1 = c1
    c2 = c2
    Daemons = {d1, d2}
    Once = {d2}
    Clients = {c1, c2}
    MaxCrashes = 2
INVARIANTS
    ListenerReachable
PROPERTIES
    DaemonComesUp
    ClientEnds
CHECK_DEADLOCK FALSE
