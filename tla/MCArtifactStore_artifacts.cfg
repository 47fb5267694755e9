SPECIFICATION Spec
CONSTANTS
    d1 = d1  local = local  replica = replica
    Digests = {d1}
    Locations = {local, replica}
    Listing <- Order
    Local = local
    Types = {"receipt", "rollout"}
    Replicated = {"receipt"}
    None = None
    MaxTouches = 4
INVARIANTS ReportsTellTheTruth RefusedOnlyIfTouched
