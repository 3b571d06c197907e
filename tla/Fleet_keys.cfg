SPECIFICATION FleetSpec
CONSTANTS
    Cars = {c1, c2}
    Rentals = {r1, r2}
    Desks = {d1, d2}
    Horizon = 2
    Plans <- MCPlans
    ClockAhead = 1
    OffRoad = {"sold"}
    NoCar = NoCar
    NoRental = NoRental
INVARIANTS FleetTypeOK HoldsMatch CarsTruth OneHadIt
PROPERTIES HistoryKept ImplementsCarKeys
SYMMETRY Symmetry
CHECK_DEADLOCK FALSE
