SPECIFICATION Spec
CONSTANTS
    a = a
    b = b
    n1 = n1
    n2 = n2
    n3 = n3
    r1 = r1
    r2 = r2
    Notes = {n1, n2, n3}
    Requests = {r1, r2}
    Lines <- MCLines
    LineTotal <- MCLineTotal
    Contents <- MCContents
    None = None
SYMMETRY Symmetry
CHECK_DEADLOCK FALSE
INVARIANT CreditWithinLines
