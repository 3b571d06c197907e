SPECIFICATION PartSpec
CONSTANTS
    Handlers = {h1, h2}
    Refunds = {r1}
    Disputes = {d1}
    Foreign = {d1}
    MaxCrashes = 0
    NoEvent = NoEvent
    BlockLength = 2
    Grace = 1
    DaysPerWeek = 2
    LongTermMinimum = 3
    Lookback = 4
    RentHorizon = 6
    ClockAhead = 3
    RentRuns = {h1, h2}
    MaxRunFailures = 1
    MaxReversals = 1
    DailyRate = 5
    WeeklyRates = {7}
    Bookings = {0, 2}
    NoChange = NoChange
    Phones = {h1, h2}
    Senders = {u1}
    Changes = {1, 2}
    MaxLinks = 2
    MaxEdits = 1
    Contract = Contract
    Nothing = Nothing
    LICENCE_SIDES = {s1, s2}
    LinkDays = 1
    SubmissionKept = 0
    MaxFormLinks = 2
    MaxImages = 3
    MaxSubmissions = 2
    RentersHorizon = 1
INVARIANTS BooksTypeOK EntriesAreTrue RentRight SignedOnce DeadPapersHaveNoLink SentTogether RetiredIsBare
PROPERTIES StoppedIsUnsigned NewsIsBooked
SYMMETRY Symmetry
CHECK_DEADLOCK FALSE
