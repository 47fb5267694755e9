SPECIFICATION ClaimsSpec
CONSTANTS
    Checks = {"c", "d", "e"}
    Claims = {"k", "l", "g", "h"}
    Produces <- MCProduces
    Needs <- MCNeeds
    Focus <- MCFocus
    Withdrawers = {"w", "x"}
INVARIANTS ActiveChecksStand EdgesAreFounded
PROPERTY PromotedKeepRelevance
