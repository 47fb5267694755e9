SPECIFICATION Spec
CONSTANTS
    o1 = o1  o2 = o2
    e1 = e1  e2 = e2
    Objects = {o1, o2}
    Contents = {1, 2}
    Edges = {e1, e2}
    From <- FromFirst
    To <- ToSecond
    Labels = {1}
    Keys = {1}
    NoKey = NoKey  NoRow = NoRow
    MaxEvents = 6
INVARIANTS TablesFollowLog NoFalsePast
PROPERTIES ImplementsJournal
