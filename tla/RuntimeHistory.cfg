\* Two runs of the user that made the default root below /tmp and one of
\* another user, killed anywhere.
SPECIFICATION Spec
CONSTANTS
    p1 = p1
    p2 = p2
    p3 = p3
    u1 = u1
    u2 = u2
    a = a
    b = b
    Proc = {p1, p2, p3}
    User = {u1, u2}
    UserOf <- TwoUsers
    Sticky = TRUE
    RootOwner = u1
    Reader = u1
    Target = {a, b}
    Report <- MCReport
    MaxSamples = 2
    Nobody = Nobody
CHECK_DEADLOCK FALSE
INVARIANTS UpdateOK
PROPERTY ReaderKeepsLog
