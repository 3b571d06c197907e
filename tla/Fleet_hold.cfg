SPECIFICATION FleetSpec
CONSTANTS
    Cars = {c1, c2}
    Rentals = {r1, r2}
    Desks = {d1}
    Horizon = 2
    Plans <- MCPlans
    ClockAhead = 0
    OffRoad = {"service", "sold"}
    NoCar = NoCar
    NoRental = NoRental
INVARIANT HoldEndsWithRental
CHECK_DEADLOCK FALSE
