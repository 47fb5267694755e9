\* Two invocations at the same time.
CONSTANTS
    None = None
    Workflow <- MCWorkflow
    Toml <- MCToml
    PowersOfTen = {1, 10, 100}
    Hundredth = 10
    Invocations = {1, 2}
    Requests <- MCRequests
    Machines <- MCMachines
    MaxFaults = 1
    FirstMachine <- Good
    FirstLocal <- MCFirstLocal
SPECIFICATION Spec
INVARIANTS SpendIsAuthorized OkMeansResult InheritedStands ReadyMeansRunnable
CHECK_DEADLOCK FALSE
