SPECIFICATION PartFairSpec
CONSTANTS
    Presses = {p1}
    Clerks = {}
    Visits = {v1}
    Handlers = {h1}
    Pages = {s1}
    Bond = 2
    MinCharge = 1
    HandAmounts = {1, 2}
    MaxCrashes = 1
    NoPage = NoPage
    NoEvent = NoEvent
    BackHandlers = {b1, b2}
    Disputes = {d1}
    Tabs = {t1}
    MarkKeys = {k1}
    Listed = Listed
    KeptOnPhone = 0
    MaxMade = 2
    MaxLost = 1
    PhoneHorizon = 1
PROPERTIES PaidReachesBond OpenPageSettles ImplementsBondMoney NewsIsAnswered QueueEmpties
CHECK_DEADLOCK FALSE
