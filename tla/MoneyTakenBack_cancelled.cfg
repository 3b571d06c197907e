SPECIFICATION Spec
CONSTANTS
    Handlers = {h1, h2}
    Refunds = {r1}
    Disputes = {}
    Foreign = {}
    MaxCrashes = 0
    NoEvent = NoEvent
INVARIANT FailedRefundCancelled
CHECK_DEADLOCK FALSE
