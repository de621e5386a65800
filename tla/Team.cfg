SPECIFICATION Spec
CONSTANTS
    Users = {anna, boris, clara}
    Founder = anna
    Requests = {q1, q2}
    None = none
    MaxUsers = 2
    MaxInvitations = 2
SYMMETRY Symmetry
INVARIANTS
    TypeOK
    OwnerRemains
    WithinSeats
    OnePending
CHECK_DEADLOCK FALSE
