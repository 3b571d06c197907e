SPECIFICATION PartSpec
CONSTANTS
    Presses = {p1, p2}
    Clerks = {}
    Visits = {}
    Handlers = {h1, h2}
    Pages = {s1, s2}
    Bond = 2
    MinCharge = 1
    HandAmounts = {1, 2}
    MaxCrashes = 0
    NoPage = NoPage
    NoEvent = NoEvent
    Rentals = {s1, s2}
    NoRental = NoRental
    Issuers = {u1}
    Nights = {n1}
    MaxLines = 3
    Starts <- Setting
    Tabs = {h1, h2}
    MarkKeys = {k1}
    Listed = Listed
    KeptOnPhone = 0
    MaxMade = 2
    MaxLost = 1
    PhoneHorizon = 1
INVARIANTS OfficeInv RecordedIsTrue HandledIsApplied OneSavedPagePayable RetirementIsTrue NumbersUsed DocumentsAddUp NothingLost
PROPERTY PaymentMovesForward
SYMMETRY Symmetry
CHECK_DEADLOCK FALSE
