CONSTANTS
    Lines <- MCLines
    Names <- MCNames
    InLibrary <- MCInLibrary
    Forbidden <- MCForbidden
    Proposals <- MCProposals
    FirstParent <- MCSeed
    FirstCheckpoint <- MCCheckpoint
    CheckpointName <- MCCheckpointName
    Graphs <- MCGraphs
    Wrong <- MCWrong
    MaxChecks = 3
SPECIFICATION Spec
INVARIANTS AssemblyIsTopological NoFalseSuccess ParentStands
PROPERTIES CheckpointsGrow AnnouncedIsReported
