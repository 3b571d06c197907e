SPECIFICATION Spec
CONSTANTS
    Presses = {p1, p2, p3}
    Clerks = {}
    Visits = {}
    Handlers = {h1}
    Pages = {s1, s2, s3}
    Bond = 2
    MinCharge = 1
    HandAmounts = {1, 2}
    MaxCrashes = 0
    NoPage = NoPage
    NoEvent = NoEvent
INVARIANT OnlyOneCanBePaid
SYMMETRY Symmetry
CHECK_DEADLOCK FALSE
