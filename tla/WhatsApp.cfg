SPECIFICATION ChannelSpec
CONSTANTS
    a1 = a1
    a2 = a2
    p1 = p1
    b1 = b1
    m1 = m1
    m2 = m2
    Actions = {a1, a2}
    Requests = {p1, b1}
    Processes = {p1}
    Messages = {m1, m2}
    None = None
    MaxCrashes = 1
    MaxDays = 1
    MaxLosses = 1
SYMMETRY Symmetry
CHECK_DEADLOCK FALSE
INVARIANT ChannelTypeOK
INVARIANT ExecutedWasPerformed
INVARIANT SpentOnce
INVARIANT LockedOnce
INVARIANT OnceByWhatsApp
INVARIANT MessageActsOnce
PROPERTY SettledStartsNothing
