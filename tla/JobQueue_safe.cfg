SPECIFICATION Spec
CONSTANTS
    j1 = j1
    j2 = j2
    w1 = w1
    w2 = w2
    Jobs = {j1, j2}
    Workers = {w1, w2}
    None = None
    CommittingJobs = {j1}
    MaxAttempts = 2
    BatchSize = 2
    LeaseCoversBatch = TRUE
    AdminCancels = FALSE
    MaxOutages = 2
    MaxRuns = 3
SYMMETRY WorkerSymmetry
INVARIANT TypeOK
INVARIANT ExclusiveOwnership
INVARIANT OwnershipIsRecorded
INVARIANT RunsWithinAttempts
INVARIANT SuccessWasHandled
PROPERTY TerminalIsFinal
PROPERTY LedgerSpec
