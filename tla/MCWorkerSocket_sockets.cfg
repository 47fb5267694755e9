SPECIFICATION FairSocketSpec
CONSTANTS
    c1 = c1  c2 = c2  l1 = l1
    Clients = {c1, c2}
    Launchers = {l1}
    NoFile = NoFile
    MaxFaults = 2
INVARIANTS LiveListenerReachable DeliveredOnce
PROPERTIES RequestsEnd RespawnRecovers
CHECK_DEADLOCK FALSE
