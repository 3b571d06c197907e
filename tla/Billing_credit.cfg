SPECIFICATION BillingFairSpec
CONSTANTS
    Rentals = {r1}
    NoRental = NoRental
    Issuers = {}
    Nights = {n1}
    Starts = {}
    MaxLines = 3
PROPERTY TakenBackIsInvoiced
CHECK_DEADLOCK FALSE
