SPECIFICATION FairSpec
CONSTANTS
    Workers = {w1, w2}
    None = none
    MaxDeliveryAttempts = 3
    JobAttempts = 2
    MaxRows = 3
    MaxResends = 1
    MaxOutages = 1
INVARIANTS
    TypeOK
    NothingForgotten
    RepeatsNeedLosses
PROPERTIES
    OutcomesAreFinal
    ChainEnds
CHECK_DEADLOCK FALSE
