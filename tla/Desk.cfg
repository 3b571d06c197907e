SPECIFICATION PartSpec
CONSTANTS
    Last = 2
    Handlers = {h1, h2}
    Visits = {}
    Tidies = {t1}
    MaxCrashes = 1
    NoEvent = NoEvent
    NoMandate = NoMandate
    Sends = {h1, h2}
    MaxCodes = 4
    CodeValid = 1
    CodeWindow = 2
    MaximumCodes = 2
    MaximumWrongCodes = 2
    CodesHorizon = 3
    Uploads = {1, 2}
    Confirms = {c1}
    KeptDays = 1
    UnfinishedDays = 0
    FilesPerRun = 1
    Stuck = {2}
    FilesHorizon = 3
    MaxDeaths = 1
    Presses = {p1}
    Clerks = {h1, h2}
    PageHandlers = {b1}
    Pages = {s1}
    Bond = 2
    MinCharge = 1
    HandAmounts = {2}
    NoPage = NoPage
INVARIANTS DeskTypeOK KeptIsTrue OnlyReplacedDetached CodeUsedOnce CodesWithinWindow BytesMatchRows WithinBond
PROPERTY EndedStaysEnded
SYMMETRY Symmetry
CHECK_DEADLOCK FALSE
