SPECIFICATION Spec
CONSTANTS
    MaxGenerations = 2
    None = None
    MaxEdits = 1
    Versions = {0, 1}
    Candidates = {"a", "b"}
    GoalNames = {"base", "top"}
    Ladder <- MCLadder
    Declaration <- MCDeclaration
    DependsOn <- MCDependsOn
    Legal = {"a", "b"}
    Elaborates <- MCElaborates
    Inhabits <- MCInhabits
    Clean <- MCClean
INVARIANTS AcceptedIsLargestClosed ReceiptsTellTheirProject CompletedRunVerifies UndisturbedRunReplays
PROPERTIES BestSurvives RunsAreFinalized
