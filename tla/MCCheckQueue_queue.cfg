CONSTANTS
    c1 = c1
    c2 = c2
    c3 = c3
    s1 = s1
    s2 = s2
    k1 = k1
    Checks = {c1, c2, c3}
    Submitters = {s1, s2}
    Workers = {k1}
    KeyOf <- OneKey
    Priorities = {0, 1}
    MaxPending = 1
    NoCheck = NoCheck
    NoScope = NoScope
SYMMETRY Symmetry
SPECIFICATION Spec
INVARIANTS SubmittedOnce RunsAtMostOnce PendingOverrun
PROPERTIES ImplementsLifecycle NoOvertaking
