SPECIFICATION Spec
CONSTANTS
    a1 = a1
    a2 = a2
    r1 = r1
    r2 = r2
    r3 = r3
    Actions = {a1, a2}
    Requests = {r1, r2, r3}
    None = None
    MaxCrashes = 0
    MaxDays = 1
SYMMETRY Symmetry
CHECK_DEADLOCK FALSE
INVARIANT ExecutedOnce
