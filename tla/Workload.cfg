SPECIFICATION Spec
CONSTANTS
    Absent = Absent
    ClientCount = 2
    Client <- MCClient
    Inputs <- MCInputs
    Targets <- MCTargets
    OperationsPerClient = 2
    OperationTimeout = 2
    RetryDelay = 1
    ThinkTime = 1
    RetryScanInterval = 1
    Duration = 4
    MaxTerm = 2
    MaxLog = 4
    MaxRestarts = 1
INVARIANTS
    SessionsAgree
    DeadlineArmed
    WaitingTracked
    Linearizable
PROPERTY TimeoutHolds
CHECK_DEADLOCK FALSE
