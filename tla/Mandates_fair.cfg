SPECIFICATION PartFairSpec
CONSTANTS
    Last = 2
    Handlers = {h1, h2}
    h2 = h2
    Visits = {v1}
    Tidies = {t1}
    MaxCrashes = 1
    NoEvent = NoEvent
    NoMandate = NoMandate
PROPERTIES ReplacedIsDetached NewsIsHandled WorkingIsKept
CHECK_DEADLOCK FALSE
