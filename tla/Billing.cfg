SPECIFICATION Spec
CONSTANTS
    Handlers = {h1, h2}
    Admins = {a1, a2}
    Free = free
    Plans = {free, pro}
    MaxRefs = 1
    MaxEvents = 2
    MaxAdminOps = 2
SYMMETRY Symmetry
INVARIANTS
    TypeOK
    CanceledHasDate
    ReceiptsAreTrue
    
CHECK_DEADLOCK FALSE
