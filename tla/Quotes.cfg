SPECIFICATION Spec
CONSTANTS
    q1 = q1
    q2 = q2
    r1 = r1
    r2 = r2
    Quotes = {q1, q2}
    Requests = {r1, r2}
    None = None
    InvoiceLimit = 2
    MaxEdits = 1
SYMMETRY Symmetry
CHECK_DEADLOCK FALSE
INVARIANT TypeOK
INVARIANT ConversionIsAtomic
INVARIANT AnsweredWasMailed
INVARIANT NumbersGapless
INVARIANT WithinInvoiceLimit
INVARIANT InvoicedAsAccepted
PROPERTY DecisionIsFinal
