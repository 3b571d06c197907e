-------------------------------- MODULE Rent --------------------------------
(***************************************************************************)
(* Rent in blocks of 24 hours (packages/core/src/rent-blocks.ts) of one    *)
(* rental that is out, from its handover on, and those who charge it       *)
(* (apps/web/src/lib/ledger): the nightly run and the run asked for after  *)
(* a return or a waiver, each of which picks the rental first and charges  *)
(* it later, as of the moment it began; a return typed in with its own     *)
(* time; the waiver; a line reversed by hand; and a weekly price proposed, *)
(* withdrawn, or signed on a page opened earlier.                          *)
(*                                                                         *)
(* Time is counted from the handover in parts of a block. What a period    *)
(* should cost and what was charged for it are worked out in full, a week  *)
(* being DaysPerWeek blocks.                                               *)
(***************************************************************************)
EXTENDS Naturals, Integers, Sequences, FiniteSets, FiniteSetsExt, Functions

CONSTANTS
    BlockLength, Grace,   \* parts of a block, and of the free time after one
    DaysPerWeek,          \* the blocks of a week (7)
    LongTermMinimum,      \* the blocks from which a rental is long-term
    Lookback,             \* how long after a return the run still looks
    RentHorizon,          \* the last moment of the clock
    ClockAhead,           \* how far ahead of the clock a return may be typed
    RentRuns,             \* the runs that may be under way at once
    MaxRunFailures,       \* how often a run may fail between its two steps
    MaxReversals,         \* how many lines may be reversed by hand
    DailyRate,            \* the price of a block
    WeeklyRates,          \* the weekly prices there may be
    Bookings,             \* the blocks a rental may be booked for, or Ongoing
    NoChange              \* no price waiting, no rent to come

None    == -1  \* no weekly price, not back, not begun
Ongoing == 0   \* no end booked

LastBlock == RentHorizon \div BlockLength
Blocks    == 0..LastBlock

ASSUME RentAssumption ==
    /\ BlockLength \in Nat \ {0} /\ DaysPerWeek \in Nat \ {0} /\ LongTermMinimum \in Nat \ {0}
    /\ Grace \in 0..(BlockLength - 1) /\ Lookback \in Nat /\ RentHorizon \in Nat
    /\ ClockAhead \in Nat
    /\ DailyRate \in Nat \ {0} /\ WeeklyRates \subseteq Nat \ {0}
    /\ Bookings \subseteq (Nat \ {0}) \cup {Ongoing}
    /\ MaxRunFailures \in Nat /\ MaxReversals \in Nat

VARIABLES
    clock,      \* the moment
    booked,     \* rentals.booked_blocks, from which is_long_term was worked out
    rates,      \* the rental's rates, each from a block on
    backAt,     \* rentals.returned_at
    waived,     \* whether the re-pricing at the daily rate was waived
    lines,      \* the rent lines of each period, by its first block
    waiting,    \* the weekly price waiting for a signature, or NoChange
    signing,    \* when the signing under way was begun, or None
    runs,       \* when each run under way began, or None
    failures    \* how often a run failed half way

rentVars == <<clock, booked, rates, backAt, waived, lines, waiting, signing, runs, failures>>

Rate == [from : Blocks, weekly : WeeklyRates \cup {None}]
Line == [kind : {"charge", "credit"}, cents : Nat \ {0}, isCorrection : BOOLEAN,
         isReversed : BOOLEAN]

RentTypeOK ==
    /\ clock \in 0..RentHorizon
    /\ booked \in Bookings
    /\ rates \subseteq Rate
    /\ backAt \in (1..RentHorizon) \cup {None}
    /\ waived \in BOOLEAN
    /\ lines \in [Blocks -> Seq(Line)]
    /\ waiting \in Rate \cup {NoChange}
    /\ signing \in (0..RentHorizon) \cup {None}
    /\ runs \in [RentRuns -> (0..RentHorizon) \cup {None}]
    /\ failures \in 0..MaxRunFailures

RentInit ==
    /\ clock = 0
    /\ booked \in Bookings
    /\ \E w \in WeeklyRates \cup {None} : rates = {[from |-> 0, weekly |-> w]}
    /\ backAt = None
    /\ waived = FALSE
    /\ lines = [b \in Blocks |-> <<>>]
    /\ waiting = NoChange
    /\ signing = None
    /\ runs = [n \in RentRuns |-> None]
    /\ failures = 0

\* A next rent, a weekly price and none of either are told apart.
ASSUME NoChangeIsNone == NoChange \notin Rate /\ NoChange \notin [first : Nat, cents : Nat]

----------------------------------------------------------------------------
(* What the blocks cost. *)

Larger(m, n)  == IF m > n THEN m ELSE n
Smaller(m, n) == IF m < n THEN m ELSE n

BlockAt(t) == t \div BlockLength

\* Mutant: a block more when exactly on the grace.
BlocksBetweenStrict(from, to) == Larger(1, 1 + (to - from - Grace) \div BlockLength)

\* The blocks a stretch of time uses, at least one; the grace after the last is free.
BlocksBetween(from, to) ==
    Larger(1, (to - from - Grace + BlockLength - 1) \div BlockLength)

IsLongTerm == booked = Ongoing \/ booked >= LongTermMinimum

RateForBlock(b) ==
    CHOOSE r \in rates : r.from <= b /\ \A o \in rates : o.from <= b => o.from <= r.from

\* The odd cents of a weekly price go to the first days.
DailyShare(weekly, day) ==
    weekly \div DaysPerWeek + (IF day < weekly % DaysPerWeek THEN 1 ELSE 0)

BlockCents(b, isAtDailyRate) ==
    LET weekly == RateForBlock(b).weekly
    IN  IF isAtDailyRate \/ weekly = None
        THEN DailyRate
        ELSE DailyShare(weekly, b % DaysPerWeek)

RentForBlocks(p, isAtDailyRate) ==
    SumFunction([b \in p.first..(p.end - 1) |-> BlockCents(b, isAtDailyRate)])

PeriodOfBlock(b) ==
    LET first == b - (b % DaysPerWeek)
        upFront == Larger(1, booked)
    IN  IF IsLongTerm THEN [first |-> first, end |-> first + DaysPerWeek]
        ELSE IF b < upFront THEN [first |-> 0, end |-> upFront]
        ELSE [first |-> b, end |-> b + 1]

BlocksUsed == IF backAt = None THEN None ELSE BlocksBetween(0, backAt)

\* The periods due at a moment, by their first block.
DuePeriods(t) ==
    {b \in 0..BlockAt(t) : /\ PeriodOfBlock(b).first = b
                           /\ BlocksUsed = None \/ b < BlocksUsed}

IsRepricedAtDailyRate ==
    IsLongTerm /\ ~waived /\ BlocksUsed # None /\ BlocksUsed < LongTermMinimum

OwedForPeriod(p) ==
    LET used == [p EXCEPT !.end = Smaller(p.end, BlocksUsed)]
    IN  IF BlocksUsed = None THEN RentForBlocks(p, ~IsLongTerm)
        ELSE IF used.end <= p.first THEN 0
        ELSE RentForBlocks(used, ~IsLongTerm \/ IsRepricedAtDailyRate)

----------------------------------------------------------------------------
(* What the run adds. *)

LineIndexes(b) == DOMAIN lines[b]

NetCharged(b) ==
    SumFunction([i \in LineIndexes(b) |-> IF lines[b][i].kind = "charge" THEN lines[b][i].cents
                                                                         ELSE -lines[b][i].cents])

PeriodStanding(b) ==
    IF \E i \in LineIndexes(b) : lines[b][i].isReversed THEN "left_as_changed"
    ELSE IF \E i \in LineIndexes(b) : lines[b][i].kind = "charge" /\ ~lines[b][i].isCorrection
    THEN "charged" ELSE "not_charged"

NewLine(kind, cents, isCorrection) ==
    [kind |-> kind, cents |-> cents, isCorrection |-> isCorrection, isReversed |-> FALSE]

CorrectionFor(b) ==
    LET difference == OwedForPeriod(PeriodOfBlock(b)) - NetCharged(b)
    IN  IF difference = 0 THEN <<>>
        ELSE IF difference > 0 THEN <<NewLine("charge", difference, TRUE)>>
        ELSE <<NewLine("credit", -difference, TRUE)>>

\* The line to add for the period from block b, if any, for a run that began at t.
RentLinesToAdd(b, t) ==
    CASE PeriodStanding(b) = "not_charged" /\ b \in DuePeriods(t) ->
             <<NewLine("charge", OwedForPeriod(PeriodOfBlock(b)), FALSE)>>
      [] PeriodStanding(b) = "charged" -> CorrectionFor(b)
      [] OTHER -> <<>>

\* Out, or back within the lookback of the moment the run began.
IsRentalToCharge(t) == backAt = None \/ backAt >= t - Lookback

\* The run lists the rentals to charge, as of now; each is charged later, locked.
PickRental(n) ==
    /\ runs[n] = None /\ IsRentalToCharge(clock)
    /\ runs' = [runs EXCEPT ![n] = clock]
    /\ UNCHANGED <<clock, booked, rates, backAt, waived, lines, waiting, signing, failures>>

ChargeBlockRental(n) ==
    /\ runs[n] # None
    /\ lines' = [b \in Blocks |-> lines[b] \o RentLinesToAdd(b, runs[n])]
    /\ runs' = [runs EXCEPT ![n] = None]
    /\ UNCHANGED <<clock, booked, rates, backAt, waived, waiting, signing, failures>>

\* One rental failing keeps nothing of it; the next run tries it again.
RunFails(n) ==
    /\ runs[n] # None /\ failures < MaxRunFailures
    /\ runs' = [runs EXCEPT ![n] = None]
    /\ failures' = failures + 1
    /\ UNCHANGED <<clock, booked, rates, backAt, waived, lines, waiting, signing>>

\* What the rental's page says the next rent will be, for a rental booked up to block `end'.
NextRentOf(end) ==
    LET first == Min({b \in 0..(LastBlock + DaysPerWeek + booked) :
                          /\ PeriodOfBlock(b).first = b
                          /\ b \in Blocks => PeriodStanding(b) = "not_charged"})
    IN  IF BlocksUsed # None \/ (end # Ongoing /\ first >= end /\ BlockAt(clock) < end)
        THEN NoChange ELSE [first |-> first, cents |-> OwedForPeriod(PeriodOfBlock(first))]

----------------------------------------------------------------------------
(* What others do to the rental. *)

\* After the handover, and later than now only by what a phone's clock may be ahead.
IsReturnTime(t) == 0 < t /\ t <= clock + ClockAhead

\* The car comes back, at the time typed in.
ReturnCar(t) ==
    /\ backAt = None /\ IsReturnTime(t)
    /\ backAt' = t
    /\ UNCHANGED <<clock, booked, rates, waived, lines, waiting, signing, runs, failures>>

HasReversedRent == \E b \in Blocks : PeriodStanding(b) = "left_as_changed"

IsDailyRateWaivable == IsRepricedAtDailyRate /\ backAt >= clock - Lookback

WaiveDailyRate ==
    /\ IsDailyRateWaivable /\ ~HasReversedRent
    /\ waived' = TRUE
    /\ UNCHANGED <<clock, booked, rates, backAt, lines, waiting, signing, runs, failures>>

Reversed(line) == [line EXCEPT !.isReversed = TRUE]

\* A User undoes a line of rent by hand.
ReverseLine(b, i) ==
    /\ ~lines[b][i].isReversed
    /\ Cardinality({o \in Blocks : PeriodStanding(o) = "left_as_changed"}) < MaxReversals
    /\ lines' = [lines EXCEPT ![b][i] = Reversed(@)]
    /\ UNCHANGED <<clock, booked, rates, backAt, waived, waiting, signing, runs, failures>>

\* A weekly price can be signed only before its week has begun.
IsRateSignable(t) == waiting # NoChange /\ t < waiting.from * BlockLength

BlockRateChangeProblem(b, weekly) ==
    \/ ~IsLongTerm
    \/ b % DaysPerWeek # 0
    \/ b <= BlockAt(clock)
    \/ \E r \in rates : r.from = b
    \/ RateForBlock(b).weekly = weekly

\* One waits at a time; one whose week has begun is withdrawn first.
ProposeRateChange(b, weekly) ==
    /\ backAt = None /\ ~BlockRateChangeProblem(b, weekly)
    /\ ~IsRateSignable(clock)
    /\ waiting' = [from |-> b, weekly |-> weekly]
    /\ signing' = None
    /\ UNCHANGED <<clock, booked, rates, backAt, waived, lines, runs, failures>>

WithdrawChange ==
    /\ waiting # NoChange
    /\ waiting' = NoChange /\ signing' = None
    /\ UNCHANGED <<clock, booked, rates, backAt, waived, lines, runs, failures>>

\* The Renter presses Sign: the page and its moment are checked, the paper is then made.
BeginSigning ==
    /\ signing = None /\ backAt = None /\ IsRateSignable(clock)
    /\ signing' = clock
    /\ UNCHANGED <<clock, booked, rates, backAt, waived, lines, waiting, runs, failures>>

\* Kept with the paper, if it may still be signed as of that moment.
RecordChangeSigned ==
    /\ signing # None /\ backAt = None /\ IsRateSignable(signing)
    /\ rates' = rates \cup {waiting}
    /\ waiting' = NoChange /\ signing' = None
    /\ UNCHANGED <<clock, booked, backAt, waived, lines, runs, failures>>

SigningFails ==
    /\ signing # None
    /\ signing' = None
    /\ UNCHANGED <<clock, booked, rates, backAt, waived, lines, waiting, runs, failures>>

PassTime ==
    /\ clock < RentHorizon
    /\ clock' = clock + 1
    /\ UNCHANGED <<booked, rates, backAt, waived, lines, waiting, signing, runs, failures>>

RentNext ==
    \/ PassTime
    \/ \E n \in RentRuns : PickRental(n) \/ ChargeBlockRental(n) \/ RunFails(n)
    \/ \E t \in 1..RentHorizon : ReturnCar(t)
    \/ WaiveDailyRate
    \/ \E b \in Blocks : \E i \in LineIndexes(b) : ReverseLine(b, i)
    \/ \E b \in Blocks, w \in WeeklyRates : ProposeRateChange(b, w)
    \/ WithdrawChange
    \/ BeginSigning \/ RecordChangeSigned \/ SigningFails

RentSpec == RentInit /\ [][RentNext]_rentVars

----------------------------------------------------------------------------
(* What must hold. *)

\* What the Renter owes, block by block, knowing nothing of periods, lines or runs: a block
\* is used from its start, but for the grace after the block before it.
UsedFully == CHOOSE n \in 1..(LastBlock + 1) :
                 /\ backAt <= n * BlockLength + Grace
                 /\ \A k \in 1..(n - 1) : backAt > k * BlockLength + Grace

\* The blocks that have begun to cost something: all of a week, all that were booked.
BegunBlocks ==
    IF IsLongTerm
    THEN {b \in 0..(LastBlock + DaysPerWeek) : b \div DaysPerWeek <= BlockAt(clock) \div DaysPerWeek}
    ELSE 0..(Larger(Larger(1, booked), BlockAt(clock) + 1) - 1)

\* Those that cost something as of now.
PayableBlocks ==
    IF backAt = None THEN BegunBlocks ELSE BegunBlocks \cap 0..(UsedFully - 1)

FairPrice(b) ==
    LET weekly == RateForBlock(b).weekly
        upTo(days) == days * (weekly \div DaysPerWeek) + Smaller(days, weekly % DaysPerWeek)
    IN  IF weekly = None \/ ~IsLongTerm
           \/ (backAt # None /\ UsedFully < LongTermMinimum /\ ~waived)
        THEN DailyRate
        ELSE upTo((b % DaysPerWeek) + 1) - upTo(b % DaysPerWeek)

FairRent == SumFunction([b \in PayableBlocks |-> FairPrice(b)])

\* The lines as a run begun now would leave them.
NetAfterRun(b) ==
    LET added == RentLinesToAdd(b, clock)
    IN  NetCharged(b) + (IF added = <<>> THEN 0
                         ELSE IF added[1].kind = "charge" THEN added[1].cents ELSE -added[1].cents)

\* The page's "Next rent" is the run's own: the rent due and not charged is the one it names,
\* for the sum it names, whatever end is booked, and none is due when it names none.
IsNextRentOfRun(end) ==
    LET next == NextRentOf(end)
        dueNow == {b \in DuePeriods(clock) : PeriodStanding(b) = "not_charged"}
    IN  /\ dueNow # {} => /\ next # NoChange /\ next.first \in dueNow
                          /\ \A b \in dueNow : next.first <= b
                          /\ RentLinesToAdd(next.first, clock)
                                 = <<NewLine("charge", next.cents, FALSE)>>
        /\ next # NoChange /\ next.first <= BlockAt(clock) => next.first \in dueNow

\* Whenever the run comes, it brings the whole rental to exactly what the blocks used so far
\* cost, whatever was charged before: late or twice, in advance of a return, at a rate signed
\* since, re-priced or waived (nothing is kept of a period changed by hand). From the return's
\* own moment on, which a phone's clock may put ahead of ours, that is all the blocks used.
\* And until the car is back the page names the rent the run will charge next
\* (rentLinesToAdd, nextRentOf).
RentIsRight ==
    /\ ~HasReversedRent => SumFunction([b \in Blocks |-> NetAfterRun(b)]) = FairRent
    /\ backAt # None /\ backAt <= clock => PayableBlocks = 0..(UsedFully - 1)
    /\ backAt = None => \A end \in {Ongoing} \cup 1..(LastBlock + 1) : IsNextRentOfRun(end)

----------------------------------------------------------------------------
(* Why they hold: an invariant every step keeps. *)

\* The rate a rental began with is from its first block.
FirstRateKept == \E r \in rates : r.from = 0

\* Lines are a period's, kept by its first block; the first is the rent charged when due.
LinesAreOfPeriods ==
    \A b \in Blocks :
        lines[b] # <<>> => /\ PeriodOfBlock(b).first = b /\ b <= BlockAt(clock)
                           /\ lines[b][1].kind = "charge" /\ ~lines[b][1].isCorrection

RentInv ==
    /\ RentTypeOK /\ FirstRateKept /\ LinesAreOfPeriods
    /\ backAt <= clock + ClockAhead /\ \A n \in RentRuns : runs[n] <= clock
============================================================================
