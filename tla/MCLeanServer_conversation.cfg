SPECIFICATION Spec
CONSTANTS
    MaxDocs = 2
    MaxPieces = 2
    MaxAsks = 1
    MaxUnread = 2
INVARIANT VerdictIsWhole
PROPERTY DeathIsNoTimeout
CHECK_DEADLOCK FALSE
