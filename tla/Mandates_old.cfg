SPECIFICATION PartFairSpec
CONSTANTS
    Last = 2
    Handlers = {h1}
    h2 = h2
    Visits = {}
    Tidies = {}
    MaxCrashes = 1
    NoEvent = NoEvent
    NoMandate = NoMandate
PROPERTY OldKeptUntilNewWorks
CHECK_DEADLOCK FALSE
