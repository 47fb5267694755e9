SPECIFICATION FairSpec
CONSTANTS
    c1 = c1  c2 = c2
    s1 = s1  s2 = s2
    k1 = k1  e1 = e1  e2 = e2
    Checks = {c1, c2}
    Submitters = {s1}
    Workers = {k1}
    KeyOf <- OneKey
    Priorities = {0}
    MaxPending = 2
    Environments = {e1, e2}
    EnvOf <- TwoEnvironments
    Withdrawable = {c1}
    MaxFaults = 2
    NoCheck = NoCheck  NoScope = NoScope  NoEnv = NoEnv
INVARIANTS RunningIsOwned
PROPERTIES ImplementsQueue RetriedEnds
