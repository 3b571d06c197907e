------------------------------- MODULE Fleet -------------------------------
(***************************************************************************)
(* Who has which car, and which rental each car is held for                *)
(* (apps/web/src/lib/rentals, lib/handover, lib/vehicles): bookings, the   *)
(* handover, the return and the swap of cars, each finished on a phone     *)
(* that loads its checklist first and writes later, and the changes others *)
(* make between the two.                                                   *)
(*                                                                         *)
(* A transaction is one step: it locks the rows it decides on. What a      *)
(* phone read before its transaction is its record in `desk', and is used  *)
(* stale. The exclusion and unique rules of the database are conjuncts of  *)
(* the actions that would break them (the transaction rolls back).         *)
(***************************************************************************)
EXTENDS Naturals, FiniteSets

CONSTANTS
    Cars, Rentals, Desks,
    Horizon,      \* the last moment of the clock
    Plans,        \* the spans [start, end] a rental may be booked for
    ClockAhead,   \* how far ahead of the server's clock a return may be typed
    OffRoad,      \* how a car nobody has may be off the road: "service", "sold"
    NoCar, NoRental

Never == Horizon + ClockAhead + 1   \* no end: an ongoing rental, a car still out
Times == 0..Horizon
Ends  == (1..Horizon) \cup {Never}

ASSUME FleetAssumption ==
    /\ Horizon \in Nat /\ ClockAhead \in Nat
    /\ OffRoad \subseteq {"service", "sold"}
    /\ NoCar \notin Cars /\ NoRental \notin Rentals
    /\ \A p \in Plans : p.start \in Times /\ p.end \in Ends /\ p.start < p.end

VARIABLES
    now,          \* the server's clock
    rental,       \* the rentals table: status, car, planned start and end
    holds,        \* the live rows of car_holds
    possessions,  \* the possessions table, ended ones included
    carStatus,    \* vehicles.status (In service and Off road are one)
    archived,     \* the cars with vehicles.archived_at
    checklist,    \* the rental's own checklist under way, if any
    swap,         \* the new car of the rental's swap under way, if any
    desk          \* what each phone has loaded and not yet written

fleetVars == <<now, rental, holds, possessions, carStatus, archived, checklist, swap, desk>>

Unbooked == [status |-> "none", car |-> NoCar, start |-> 0, end |-> Never]
Idle == [doing |-> "nothing", rental |-> NoRental, end |-> Never, at |-> 0, open |-> FALSE]

FleetTypeOK ==
    /\ now \in Times
    /\ rental \in [Rentals -> [status : {"none", "draft", "booked", "active", "returned",
                                         "cancelled"},
                               car : Cars \cup {NoCar}, start : Times, end : Ends]]
    /\ holds \subseteq [rental : Rentals, car : Cars, from : Times, to : Ends]
    /\ possessions \subseteq [rental : Rentals, car : Cars, from : Times,
                              to : 1..Never]
    /\ carStatus \in [Cars -> {"available", "rented", "service", "sold"}]
    /\ archived \subseteq Cars
    /\ checklist \in [Rentals -> {"none", "handover", "return"}]
    /\ swap \in [Rentals -> Cars \cup {NoCar}]
    /\ desk \in [Desks -> [doing : {"nothing", "handover", "return", "swap"},
                           rental : Rentals \cup {NoRental}, end : Ends,
                           at : 0..(Horizon + ClockAhead), open : BOOLEAN]]

----------------------------------------------------------------------------

\* Two spans [from, to) share a moment.
Overlap(a, b) == a.from < b.to /\ b.from < a.to

\* No other rental's live hold of the car overlaps the span.
IsFree(c, span, r) ==
    \A h \in holds : h.car = c /\ h.rental # r => ~Overlap(h, span)

Open(r) == {p \in possessions : p.rental = r /\ p.to = Never}

IsUnderWay(r) == rental[r].status \in {"booked", "active"}

\* A return of the rental's car under way, its own or a swap's.
IsReturnUnderWay(r) == checklist[r] = "return" \/ swap[r] # NoCar

\* The checklists of the rental under way end: phones on them write nothing.
CloseChecklists(r) ==
    [d \in Desks |-> IF desk[d].rental = r THEN [desk[d] EXCEPT !.open = FALSE] ELSE desk[d]]

\* The phone is free again, and every phone on the rental's checklists is late.
Finished(d) == [CloseChecklists(desk[d].rental) EXCEPT ![d] = Idle]

HasRentalUnderWay(c) ==
    \/ \E r \in Rentals : IsUnderWay(r) /\ rental[r].car = c
    \/ \E h \in holds : h.car = c
    \/ \E p \in possessions : p.car = c /\ p.to = Never

FleetInit ==
    /\ now = 0
    /\ rental = [r \in Rentals |-> Unbooked]
    /\ holds = {}
    /\ possessions = {}
    /\ carStatus = [c \in Cars |-> "available"]
    /\ archived = {}
    /\ checklist = [r \in Rentals |-> "none"]
    /\ swap = [r \in Rentals |-> NoCar]
    /\ desk = [d \in Desks |-> Idle]

----------------------------------------------------------------------------
(* Bookings. *)

IsBookable(c) == c \notin archived /\ carStatus[c] # "sold"

HoldOf(r, c, p) == [rental |-> r, car |-> c, from |-> p.start, to |-> p.end]

CreateDraft(r, c, p) ==
    /\ rental[r].status = "none" /\ IsBookable(c)
    /\ rental' = [rental EXCEPT ![r] = [status |-> "draft", car |-> c, start |-> p.start,
                                        end |-> p.end]]
    /\ UNCHANGED <<now, holds, possessions, carStatus, archived, checklist, swap, desk>>

CreateBooking(r, c, p) ==
    /\ rental[r].status = "none" /\ IsBookable(c)
    /\ IsFree(c, HoldOf(r, c, p), r)
    /\ rental' = [rental EXCEPT ![r] = [status |-> "booked", car |-> c, start |-> p.start,
                                        end |-> p.end]]
    /\ holds' = holds \cup {HoldOf(r, c, p)}
    /\ UNCHANGED <<now, possessions, carStatus, archived, checklist, swap, desk>>

BookRental(r) ==
    LET hold == HoldOf(r, rental[r].car, rental[r])
    IN  /\ rental[r].status = "draft" /\ IsBookable(rental[r].car)
        /\ IsFree(hold.car, hold, r)
        /\ rental' = [rental EXCEPT ![r].status = "booked"]
        /\ holds' = holds \cup {hold}
        /\ UNCHANGED <<now, possessions, carStatus, archived, checklist, swap, desk>>

\* Mutant: none is let go.
ReleasedNone(r) == holds

Released(r) == {h \in holds : h.rental # r}

CancelRental(r) ==
    /\ rental[r].status \in {"draft", "booked"}
    /\ holds' = Released(r)
    /\ checklist' = [checklist EXCEPT ![r] = "none"]
    /\ desk' = CloseChecklists(r)
    /\ rental' = [rental EXCEPT ![r].status = "cancelled"]
    /\ UNCHANGED <<now, possessions, carStatus, archived, swap>>

\* A new end: only a longer hold can clash; the rental and its hold move together.
ChangeRentalEnd(r, end) ==
    LET old == rental[r].end
    IN  /\ IsUnderWay(r) /\ ~IsReturnUnderWay(r)
        /\ end # old /\ end > now /\ end > rental[r].start
        /\ end > old => IsFree(rental[r].car, [from |-> old, to |-> end], r)
        /\ \A h \in holds : h.rental = r => IsFree(h.car, [h EXCEPT !.to = end], r)
        /\ holds' = {IF h.rental = r THEN [h EXCEPT !.to = end] ELSE h : h \in holds}
        /\ rental' = [rental EXCEPT ![r].end = end]
        /\ UNCHANGED <<now, possessions, carStatus, archived, checklist, swap, desk>>

----------------------------------------------------------------------------
(* Checklists and swaps begin and are called off. *)

StatusToStart == [handover |-> "booked", return |-> "active"]

StartChecklist(r, kind) ==
    /\ checklist[r] = "none" /\ swap[r] = NoCar
    /\ rental[r].status = StatusToStart[kind]
    /\ checklist' = [checklist EXCEPT ![r] = kind]
    /\ UNCHANGED <<now, rental, holds, possessions, carStatus, archived, swap, desk>>

CancelChecklist(r) ==
    /\ checklist[r] # "none"
    /\ checklist' = [checklist EXCEPT ![r] = "none"]
    /\ desk' = CloseChecklists(r)
    /\ UNCHANGED <<now, rental, holds, possessions, carStatus, archived, swap>>

\* The rest of the rental from a moment: open-ended when ongoing or late back.
RestOf(end, at) == [from |-> at, to |-> IF end > at THEN end ELSE Never]

StartSwap(r, c) ==
    /\ swap[r] = NoCar /\ checklist[r] = "none"
    /\ rental[r].status = "active" /\ c # rental[r].car
    /\ carStatus[c] = "available" /\ c \notin archived
    /\ IsFree(c, RestOf(rental[r].end, now), r)
    /\ swap' = [swap EXCEPT ![r] = c]
    /\ UNCHANGED <<now, rental, holds, possessions, carStatus, archived, checklist, desk>>

CancelSwap(r) ==
    /\ swap[r] # NoCar
    /\ swap' = [swap EXCEPT ![r] = NoCar]
    /\ desk' = CloseChecklists(r)
    /\ UNCHANGED <<now, rental, holds, possessions, carStatus, archived, checklist>>

----------------------------------------------------------------------------
(* The handover: loaded and checked, then written under the locks. *)

\* What the phone will write: the moment, and the end of the rental it read (a return has
\* no use for it).
Load(d, r, what, at) ==
    desk' = [desk EXCEPT ![d] = [doing |-> what, rental |-> r, at |-> at, open |-> TRUE,
                                 end |-> IF what = "return" THEN Never ELSE rental[r].end]]

LoadHandover(d, r) ==
    LET c == rental[r].car
    IN  /\ desk[d] = Idle /\ checklist[r] = "handover"
        /\ c \notin archived /\ carStatus[c] \in {"available", "rented"}
        /\ \A p \in possessions : p.car = c => p.to # Never
        /\ now < rental[r].start => IsFree(c, [from |-> now, to |-> rental[r].start], r)
        /\ Load(d, r, "handover", now)
        /\ UNCHANGED <<now, rental, holds, possessions, carStatus, archived, checklist, swap>>

\* Before its booked start the rental holds the car from now, to the end the phone loaded.
HeldFromNow(v) ==
    LET r == v.rental
        moved == [rental |-> r, car |-> rental[r].car, from |-> v.at, to |-> v.end]
    IN  IF v.at < rental[r].start
        THEN Released(r) \cup {moved}
        ELSE holds

IsHoldAllowed(r, c, hs) ==
    \A h \in hs, o \in hs : h.rental = r /\ o.rental # r /\ o.car = c /\ h.car = c
                            => ~Overlap(h, o)

\* Mutant: started, and ended at once.
StartPossessionEnded(ps, r, c, at) ==
    ps \cup {[rental |-> r, car |-> c, from |-> at, to |-> at]}

StartPossession(ps, r, c, at) ==
    ps \cup {[rental |-> r, car |-> c, from |-> at, to |-> Never]}

\* Mutant: only a possession still open is looked at.
IsCarNotOut(ps, c, at) == \A p \in ps : p.car = c => p.to # Never

\* possessions_no_overlap: nobody had the car at that moment or after it.
IsCarLeft(ps, c, at) == \A p \in ps : p.car = c => p.to <= at

FinishHandover(d) ==
    LET v == desk[d]
        r == v.rental
        c == rental[r].car
    IN  /\ v.doing = "handover" /\ v.open
        /\ carStatus[c] = "available" /\ c \notin archived
        /\ rental[r].status = "booked"
        /\ IsHoldAllowed(r, c, HeldFromNow(v))
        /\ IsCarLeft(possessions, c, v.at)
        /\ holds' = HeldFromNow(v)
        /\ rental' = [rental EXCEPT ![r].status = "active"]
        /\ possessions' = StartPossession(possessions, r, c, v.at)
        /\ carStatus' = [carStatus EXCEPT ![c] = "rented"]
        /\ checklist' = [checklist EXCEPT ![r] = "none"]
        /\ desk' = Finished(d)
        /\ UNCHANGED <<now, archived, swap>>

----------------------------------------------------------------------------
(* The return, at the time typed in, and the swap. *)

AfterReturn == {"available"} \cup (OffRoad \ {"sold"})

\* Mutants: the rental's first one, ended before, too; the ended ones only.
EndPossessionAll(r, at) ==
    {IF p.rental = r THEN [p EXCEPT !.to = at] ELSE p : p \in possessions}
EndPossessionEnded(r, at) ==
    {IF p.rental = r /\ p.to # Never THEN [p EXCEPT !.to = at] ELSE p : p \in possessions}

EndPossession(r, at) ==
    {IF p \in Open(r) THEN [p EXCEPT !.to = at] ELSE p : p \in possessions}

LoadReturn(d, r, back) ==
    /\ desk[d] = Idle /\ checklist[r] = "return"
    /\ \A p \in possessions : p.rental = r => p.from < back
    /\ back <= now + ClockAhead
    /\ Load(d, r, "return", back)
    /\ UNCHANGED <<now, rental, holds, possessions, carStatus, archived, checklist, swap>>

\* Mutant: a checklist finished on another phone is finished again.
FinishReturnTwice(d, after) ==
    LET v == desk[d]
        r == v.rental
    IN  /\ v.doing = "return"
        /\ possessions' = EndPossession(r, v.at)
        /\ rental' = [rental EXCEPT ![r].status = "returned"]
        /\ holds' = Released(r)
        /\ carStatus' = [carStatus EXCEPT ![rental[r].car] = after]
        /\ checklist' = [checklist EXCEPT ![r] = "none"]
        /\ desk' = Finished(d)
        /\ UNCHANGED <<now, archived, swap>>

FinishReturn(d, after) ==
    LET v == desk[d]
        r == v.rental
    IN  /\ v.doing = "return" /\ v.open
        /\ possessions' = EndPossession(r, v.at)
        /\ rental' = [rental EXCEPT ![r].status = "returned"]
        /\ holds' = Released(r)
        /\ carStatus' = [carStatus EXCEPT ![rental[r].car] = after]
        /\ checklist' = [checklist EXCEPT ![r] = "none"]
        /\ desk' = Finished(d)
        /\ UNCHANGED <<now, archived, swap>>

LoadSwap(d, r) ==
    /\ desk[d] = Idle /\ swap[r] # NoCar
    /\ Load(d, r, "swap", now)
    /\ UNCHANGED <<now, rental, holds, possessions, carStatus, archived, checklist, swap>>

FinishSwap(d, after) ==
    LET v == desk[d]
        r == v.rental
        old == rental[r].car
        new == swap[r]
        hold == [rental |-> r, car |-> new, from |-> v.at, to |-> RestOf(v.end, v.at).to]
        ended == EndPossession(r, v.at)
    IN  /\ v.doing = "swap" /\ v.open
        /\ carStatus[new] = "available" /\ new \notin archived
        /\ \A p \in Open(r) : p.from < v.at
        /\ IsCarLeft(ended, new, v.at)
        /\ IsFree(new, hold, r)
        /\ possessions' = StartPossession(ended, r, new, v.at)
        /\ holds' = {h \in holds : ~(h.rental = r /\ h.car = old)} \cup {hold}
        /\ rental' = [rental EXCEPT ![r].car = new]
        /\ carStatus' = [carStatus EXCEPT ![old] = after, ![new] = "rented"]
        /\ swap' = [swap EXCEPT ![r] = NoCar]
        /\ desk' = Finished(d)
        /\ UNCHANGED <<now, archived, checklist>>

\* The phone loses its connection, or what it sent is refused: nothing is kept.
GiveUp(d) ==
    /\ desk[d] # Idle
    /\ desk' = [desk EXCEPT ![d] = Idle]
    /\ UNCHANGED <<now, rental, holds, possessions, carStatus, archived, checklist, swap>>

----------------------------------------------------------------------------
(* The cars' own pages, and the clock. *)

SetCarStatus(c, s) ==
    /\ c \notin archived /\ carStatus[c] \notin {"rented", "sold", s}
    /\ carStatus' = [carStatus EXCEPT ![c] = s]
    /\ UNCHANGED <<now, rental, holds, possessions, archived, checklist, swap, desk>>

\* A sale that fell through: the car is to be had again.
CancelSale(c) ==
    /\ c \notin archived /\ carStatus[c] = "sold"
    /\ carStatus' = [carStatus EXCEPT ![c] = "available"]
    /\ UNCHANGED <<now, rental, holds, possessions, archived, checklist, swap, desk>>

ArchiveCar(c) ==
    /\ c \notin archived /\ ~HasRentalUnderWay(c)
    /\ archived' = archived \cup {c}
    /\ UNCHANGED <<now, rental, holds, possessions, carStatus, checklist, swap, desk>>

RestoreCar(c) ==
    /\ c \in archived
    /\ archived' = archived \ {c}
    /\ UNCHANGED <<now, rental, holds, possessions, carStatus, checklist, swap, desk>>

Tick ==
    /\ now < Horizon
    /\ now' = now + 1
    /\ UNCHANGED <<rental, holds, possessions, carStatus, archived, checklist, swap, desk>>

FleetNext ==
    \/ Tick
    \/ \E r \in Rentals :
        \/ \E c \in Cars, p \in Plans : CreateDraft(r, c, p) \/ CreateBooking(r, c, p)
        \/ BookRental(r)
        \/ CancelRental(r)
        \/ \E end \in Ends : ChangeRentalEnd(r, end)
        \/ \E kind \in {"handover", "return"} : StartChecklist(r, kind)
        \/ CancelChecklist(r)
        \/ \E c \in Cars : StartSwap(r, c)
        \/ CancelSwap(r)
        \/ \E d \in Desks : \/ LoadHandover(d, r)
                            \/ \E back \in 1..(Horizon + ClockAhead) : LoadReturn(d, r, back)
                            \/ LoadSwap(d, r)
    \/ \E d \in Desks :
        \/ FinishHandover(d)
        \/ \E after \in AfterReturn : FinishReturn(d, after) \/ FinishSwap(d, after)
        \/ GiveUp(d)
    \/ \E c \in Cars :
        \/ \E s \in {"available"} \cup OffRoad : SetCarStatus(c, s)
        \/ CancelSale(c)
        \/ ArchiveCar(c)
        \/ RestoreCar(c)

FleetSpec == FleetInit /\ [][FleetNext]_fleetVars

----------------------------------------------------------------------------
(* What must hold. *)

HoldsOf(r) == {h \in holds : h.rental = r}

\* A rental under way holds its car, once, since the moment it went if it is out (an early
\* handover's time before the booked start included), and no other rental holds one:
\* whatever was booked, cancelled, swapped or returned, no car is kept back for nobody
\* (releaseCarHolds, holdCar, holdCarFromNow, moveHold).
HoldsMatch ==
    \A r \in Rentals :
        IF IsUnderWay(r)
        THEN \E h \in holds :
                /\ HoldsOf(r) = {h} /\ h.car = rental[r].car
                /\ \A p \in Open(r) : p.car = h.car /\ h.from <= p.from
        ELSE HoldsOf(r) = {}

\* A car reads Rented exactly while someone has it, and it is with the rental that says so:
\* however the phones, the car's page and the bookings race. No archived car is booked, held
\* or out: the archive and the booking made at the same moment see each other
\* (lockCarForHandover, moveCars, recordReturned, applyVehicleStatus, setVehicleArchived,
\* lockBookingParties).
CarsTruth ==
    /\ \A c \in Cars : carStatus[c] = "rented" <=> \E r \in Rentals : \E p \in Open(r) : p.car = c
    /\ \A r \in Rentals :
          IF rental[r].status = "active"
          THEN \E p \in possessions : Open(r) = {p} /\ p.car = rental[r].car
          ELSE Open(r) = {}
    /\ \A c \in archived : ~HasRentalUnderWay(c)

\* Nobody has two cars' time at once, nor one car two people: a fine is told to one Renter.
OneHadIt ==
    \A p, o \in possessions :
        p # o /\ (p.car = o.car \/ p.rental = o.rental) => p.to <= o.from \/ o.to <= p.from

\* Who had which car when is never rewritten, and a rental that is over stays over.
HistoryKept ==
    [][/\ \A p \in possessions :
             \E o \in possessions' : /\ [o EXCEPT !.to = p.to] = p
                                     /\ p.to # Never => o = p
       /\ \A r \in Rentals :
             rental[r].status \in {"returned", "cancelled"} => rental'[r] = rental[r]
      ]_<<possessions, rental>>

\* The keys of CarKeys: the car of the rental's open possession.
KeysNow == LET out == {p \in possessions : p.to = Never}
           IN  [r \in Rentals |-> IF \E p \in out : p.rental = r
                                   THEN (CHOOSE p \in out : p.rental = r).car ELSE NoCar]
Keys == INSTANCE CarKeys WITH keys <- KeysNow,
                              done <- {r \in Rentals : rental[r].status = "returned"}

\* The phones, locks and checklists together do no more than hand over, swap and give back
\* keys: they implement CarKeys.
ImplementsCarKeys == Keys!Spec

----------------------------------------------------------------------------
(* What a comment of the code claims, and the steps above refute.          *)

\* "The rental, its car's hold and the change record move together": the hold of a rental
\* under way ends where the rental does, but for one swapped when already late.
HoldEndsWithRental ==
    \A r \in Rentals : IsUnderWay(r) =>
        \A h \in HoldsOf(r) : h.to = rental[r].end \/ (h.to = Never /\ h.from >= rental[r].end)
=============================================================================
