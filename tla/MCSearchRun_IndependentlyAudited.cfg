SPECIFICATION Spec
CONSTANTS
    MaxGenerations = 1
    None = None
    MaxEdits = 0
    Versions = {0, 1}
    Candidates = {"a", "b"}
    GoalNames = {"base", "top"}
    Ladder <- MCLadder
    Declaration <- MCSharedDeclaration
    DependsOn <- MCDependsOn
    Legal = {"a", "b"}
    Elaborates <- MCElaborates
    Inhabits <- MCInhabitsBase
    Clean <- MCCleanShared
INVARIANT IndependentlyAudited
