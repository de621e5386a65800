SPECIFICATION Spec
CONSTANTS
    j1 = j1
    j2 = j2
    w1 = w1
    w2 = w2
    Jobs = {j1, j2}
    Workers = {w1, w2}
    None = None
    CommittingJobs = {j1}
    MaxAttempts = 2
    BatchSize = 2
    LeaseCoversBatch = FALSE
    AdminCancels = FALSE
    MaxOutages = 1
    MaxRuns = 3
SYMMETRY WorkerSymmetry
INVARIANT AbandonedIsRecoverable
