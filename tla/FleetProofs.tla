---------------------------- MODULE FleetProofs ----------------------------
(***************************************************************************)
(* Proofs about Fleet, for any cars, rentals, phones and clock.  What a    *)
(* phone loaded stays true until it writes, because whatever ends its      *)
(* checklist closes it there (PhonesAgree); so the write finds the rental  *)
(* at the stage it was loaded for (StagesAgree), and what it adds to the   *)
(* possessions comes after all that is in them.                            *)
(***************************************************************************)
EXTENDS Fleet, TLAPS

\* Every checklist and swap under way is of a rental at that stage; a rental that has been
\* made has a car, and the new car of a swap is another.
StagesAgree ==
    \A r \in Rentals :
        /\ rental[r].status # "none" => rental[r].car \in Cars
        /\ checklist[r] = "handover" => rental[r].status = "booked"
        /\ checklist[r] = "return" => rental[r].status = "active"
        /\ swap[r] # NoCar => /\ rental[r].status = "active" /\ checklist[r] = "none"
                              /\ swap[r] # rental[r].car

\* Before its handover a rental had no car, and it is held from its booked start.
NothingBefore ==
    \A r \in Rentals :
        /\ rental[r].status \in {"none", "draft", "booked", "cancelled"} =>
              \A p \in possessions : p.rental # r
        /\ rental[r].status = "booked" => \A h \in HoldsOf(r) : h.from = rental[r].start

\* What a phone that is not late will write still fits: its checklist is under way, and a
\* return is typed after all the rental's cars went out.
PhonesAgree ==
    \A d \in Desks :
        LET v == desk[d]
        IN  /\ v.doing # "return" => v.at \in Times
            /\ v.open => /\ v.rental \in Rentals
                         /\ v.doing = "handover" => checklist[v.rental] = "handover"
                         /\ v.doing = "return" =>
                               /\ checklist[v.rental] = "return" /\ v.at # 0
                               /\ \A p \in possessions : p.rental = v.rental => p.from < v.at
                         /\ v.doing = "swap" => swap[v.rental] # NoCar

FleetIInv ==
    /\ FleetTypeOK /\ HoldsMatch /\ CarsTruth /\ OneHadIt
    /\ StagesAgree /\ NothingBefore /\ PhonesAgree

Desk == [doing : {"nothing", "handover", "return", "swap"}, rental : Rentals \cup {NoRental},
         end : Ends, at : 0..(Horizon + ClockAhead), open : BOOLEAN]
Rental == [status : {"none", "draft", "booked", "active", "returned", "cancelled"},
           car : Cars \cup {NoCar}, start : Times, end : Ends]
Hold == [rental : Rentals, car : Cars, from : Times, to : Ends]
Possession == [rental : Rentals, car : Cars, from : Times, to : 1..Never]

\* HoldsMatch and CarsTruth, of one rental.
HoldsRight(r) ==
    IF IsUnderWay(r)
    THEN \E h \in holds : /\ HoldsOf(r) = {h} /\ h.car = rental[r].car
                          /\ \A p \in Open(r) : p.car = h.car /\ h.from <= p.from
    ELSE HoldsOf(r) = {}
OutRight(r) ==
    IF rental[r].status = "active"
    THEN \E p \in possessions : Open(r) = {p} /\ p.car = rental[r].car
    ELSE Open(r) = {}

----------------------------------------------------------------------------
(* The moments of the model, and its records.                              *)

\* No end is later than every moment, and than every time a return may be typed for.
LEMMA Moments ==
  /\ Never \in Nat /\ Never \in Ends /\ Never \in 1..Never /\ 0 \in Times
  /\ \A t \in Times : t \in Nat /\ t < Never /\ t \in 0..(Horizon + ClockAhead)
  /\ \A t \in Ends : t \in Nat /\ t <= Never /\ 0 < t
  /\ \A t \in 0..(Horizon + ClockAhead) : t \in Nat /\ t < Never /\ (t # 0 => t \in 1..Never)
  BY FleetAssumption DEF Never, Times, Ends

LEMMA IdleIsDesk == Idle \in Desk /\ ~Idle.open /\ Idle.doing = "nothing" /\ Idle.at = 0
  BY Moments, FleetAssumption DEF Idle, Desk, Times

\* At the start there is no booking and every car is in.
LEMMA InitFleetIInv == FleetInit => FleetIInv
  <1> SUFFICES ASSUME FleetInit
               PROVE  FleetIInv
    OBVIOUS
  <1> USE DEF FleetInit
  <1>1. Unbooked \in Rental /\ Unbooked.status = "none" /\ Unbooked.car = NoCar
    BY Moments DEF Unbooked, Rental
  <1>2. FleetTypeOK
    BY <1>1, IdleIsDesk, Moments, FleetAssumption DEF FleetTypeOK, Rental, Desk, Times
  <1>3. \A r \in Rentals : rental[r].status = "none" /\ HoldsOf(r) = {} /\ Open(r) = {}
    BY <1>1 DEF HoldsOf, Open
  <1>4. HoldsMatch
    BY <1>3 DEF HoldsMatch, IsUnderWay
  <1>5. CarsTruth
    BY <1>3 DEF CarsTruth
  <1>6. OneHadIt
    BY DEF OneHadIt
  <1>7. StagesAgree
    BY <1>3 DEF StagesAgree
  <1>8. NothingBefore
    BY <1>3 DEF NothingBefore
  <1>9. PhonesAgree
    BY IdleIsDesk, Moments DEF PhonesAgree
  <1> QED
    BY <1>2, <1>4, <1>5, <1>6, <1>7, <1>8, <1>9 DEF FleetIInv

----------------------------------------------------------------------------
(* What a step leaves alone stays right.                                   *)

\* What is right of every rental but one, and of that one too, is right.
LEMMA HoldsOfOthers ==
  ASSUME HoldsMatch, NEW r \in Rentals, HoldsRight(r)',
         \A q \in Rentals : q # r => /\ rental'[q] = rental[q]
                                     /\ HoldsOf(q)' = HoldsOf(q) /\ Open(q)' = Open(q)
  PROVE  HoldsMatch'
  <1> SUFFICES ASSUME NEW q \in Rentals, q # r
               PROVE  HoldsRight(q)'
    BY DEF HoldsMatch, HoldsRight
  <1>1. HoldsRight(q)
    BY DEF HoldsMatch, HoldsRight
  <1>2. IsUnderWay(q)' <=> IsUnderWay(q)
    BY DEF IsUnderWay
  <1>3. CASE IsUnderWay(q)
    <2>1. PICK h \in holds : /\ HoldsOf(q) = {h} /\ h.car = rental[q].car
                             /\ \A p \in Open(q) : p.car = h.car /\ h.from <= p.from
      BY <1>1, <1>3 DEF HoldsRight
    <2>2. h \in holds'
      BY <2>1 DEF HoldsOf
    <2> QED
      BY <1>2, <1>3, <2>1, <2>2 DEF HoldsRight
  <1>4. CASE ~IsUnderWay(q)
    BY <1>1, <1>2, <1>4 DEF HoldsRight
  <1> QED
    BY <1>3, <1>4

\* The same of who is out with which car.
LEMMA OutOfOthers ==
  ASSUME \A q \in Rentals : OutRight(q), NEW r \in Rentals, OutRight(r)',
         \A q \in Rentals : q # r => rental'[q] = rental[q] /\ Open(q)' = Open(q)
  PROVE  \A q \in Rentals : OutRight(q)'
  <1> SUFFICES ASSUME NEW q \in Rentals, q # r
               PROVE  OutRight(q)'
    OBVIOUS
  <1>1. CASE rental[q].status = "active"
    <2>1. PICK p \in possessions : Open(q) = {p} /\ p.car = rental[q].car
      BY <1>1 DEF OutRight
    <2>2. p \in possessions'
      BY <2>1 DEF Open
    <2> QED
      BY <1>1, <2>1, <2>2 DEF OutRight
  <1>2. CASE rental[q].status # "active"
    BY <1>2 DEF OutRight
  <1> QED
    BY <1>1, <1>2

\* A step that moves no booking, hold or car keeps the invariant, if the stages and the
\* phones agree still.
LEMMA QuietKeeps ==
  ASSUME FleetIInv, UNCHANGED <<rental, holds, possessions>>,
         FleetTypeOK', StagesAgree', PhonesAgree',
         \A c \in Cars : carStatus'[c] = "rented" <=> carStatus[c] = "rented",
         \A c \in archived' : ~HasRentalUnderWay(c)
  PROVE  FleetIInv'
  <1> USE DEF FleetIInv
  <1>1. HoldsMatch'
    BY DEF HoldsMatch, IsUnderWay, HoldsOf, Open
  <1>2. CarsTruth'
    BY DEF CarsTruth, Open, HasRentalUnderWay, IsUnderWay
  <1>3. OneHadIt' /\ NothingBefore'
    BY DEF OneHadIt, NothingBefore, HoldsOf
  <1> QED
    BY <1>1, <1>2, <1>3

\* A phone that is closed, free, or on another rental agrees still, when nothing of the
\* other rentals moved.
LEMMA PhonesKept ==
  ASSUME FleetTypeOK, PhonesAgree, NEW r \in Rentals,
         \A e \in Desks : \/ desk'[e] = Idle
                          \/ desk'[e] = [desk[e] EXCEPT !.open = FALSE]
                          \/ desk'[e] = desk[e] /\ desk[e].rental # r,
         \A q \in Rentals : q # r => checklist'[q] = checklist[q] /\ swap'[q] = swap[q],
         \A p \in possessions' : p.rental # r => p \in possessions
  PROVE  PhonesAgree'
  <1> SUFFICES ASSUME NEW d \in Desks
               PROVE  LET v == desk'[d]
                      IN  /\ v.doing # "return" => v.at \in Times
                          /\ v.open => /\ v.rental \in Rentals
                                       /\ v.doing = "handover" => checklist'[v.rental] = "handover"
                                       /\ v.doing = "return" =>
                                             /\ checklist'[v.rental] = "return" /\ v.at # 0
                                             /\ \A p \in possessions' :
                                                   p.rental = v.rental => p.from < v.at
                                       /\ v.doing = "swap" => swap'[v.rental] # NoCar
    BY Zenon DEF PhonesAgree, Times
  <1>0. desk[d] \in Desk
    BY DEF FleetTypeOK, Desk
  <1>1. CASE desk'[d] = Idle
    BY <1>1, IdleIsDesk, Moments
  <1>2. CASE desk'[d] = [desk[d] EXCEPT !.open = FALSE]
    BY <1>0, <1>2 DEF PhonesAgree, Desk
  <1>3. CASE desk'[d] = desk[d] /\ desk[d].rental # r
    BY <1>3 DEF PhonesAgree
  <1> QED
    BY <1>1, <1>2, <1>3

\* The phones closed are phones.
LEMMA CloseIsTyped ==
  ASSUME FleetTypeOK, NEW r \in Rentals
  PROVE  CloseChecklists(r) \in [Desks -> Desk]
  BY DEF FleetTypeOK, CloseChecklists, Desk

\* Of the phones closed, none is open on the rental.
LEMMA CloseClosed ==
  ASSUME FleetTypeOK, NEW r \in Rentals, NEW e \in Desks
  PROVE  \/ CloseChecklists(r)[e] = [desk[e] EXCEPT !.open = FALSE]
         \/ CloseChecklists(r)[e] = desk[e] /\ desk[e].rental # r
  BY DEF CloseChecklists

\* So the others agree still.
LEMMA CloseKeeps ==
  ASSUME FleetTypeOK, PhonesAgree, NEW r \in Rentals, desk' = CloseChecklists(r),
         \A q \in Rentals : q # r => checklist'[q] = checklist[q] /\ swap'[q] = swap[q],
         possessions' = possessions
  PROVE  PhonesAgree'
  <1>1. \A e \in Desks : \/ desk'[e] = Idle
                         \/ desk'[e] = [desk[e] EXCEPT !.open = FALSE]
                         \/ desk'[e] = desk[e] /\ desk[e].rental # r
    BY CloseClosed
  <1> QED
    BY <1>1, PhonesKept

----------------------------------------------------------------------------
(* Steps that move no booking, hold or car.                                *)

LEMMA TickKeeps ==
  ASSUME FleetIInv, Tick
  PROVE  FleetIInv'
  <1> USE DEF Tick
  <1>1. FleetTypeOK'
    BY FleetAssumption DEF FleetIInv, FleetTypeOK, Times
  <1>2. StagesAgree' /\ PhonesAgree'
    BY DEF FleetIInv, StagesAgree, PhonesAgree, Times
  <1>3. \A c \in archived' : ~HasRentalUnderWay(c)
    BY DEF FleetIInv, CarsTruth
  <1> QED
    BY <1>1, <1>2, <1>3, QuietKeeps

LEMMA StartChecklistKeeps ==
  ASSUME FleetIInv, NEW r \in Rentals, NEW kind \in {"handover", "return"},
         StartChecklist(r, kind)
  PROVE  FleetIInv'
  <1> USE DEF StartChecklist, StatusToStart
  <1>1. FleetTypeOK'
    BY DEF FleetIInv, FleetTypeOK
  <1>2. StagesAgree'
    BY DEF FleetIInv, FleetTypeOK, StagesAgree
  <1>3. PhonesAgree'
    BY DEF FleetIInv, FleetTypeOK, PhonesAgree
  <1>4. \A c \in archived' : ~HasRentalUnderWay(c)
    BY DEF FleetIInv, CarsTruth
  <1> QED
    BY <1>1, <1>2, <1>3, <1>4, QuietKeeps

LEMMA CancelChecklistKeeps ==
  ASSUME FleetIInv, NEW r \in Rentals, CancelChecklist(r)
  PROVE  FleetIInv'
  <1> USE DEF CancelChecklist
  <1>1. FleetTypeOK'
    BY CloseIsTyped DEF FleetIInv, FleetTypeOK, Desk
  <1>2. StagesAgree'
    BY DEF FleetIInv, FleetTypeOK, StagesAgree
  <1>3. PhonesAgree'
    BY CloseKeeps DEF FleetIInv, FleetTypeOK
  <1>4. \A c \in archived' : ~HasRentalUnderWay(c)
    BY DEF FleetIInv, CarsTruth
  <1> QED
    BY <1>1, <1>2, <1>3, <1>4, QuietKeeps

LEMMA StartSwapKeeps ==
  ASSUME FleetIInv, NEW r \in Rentals, NEW c \in Cars, StartSwap(r, c)
  PROVE  FleetIInv'
  <1> USE DEF StartSwap
  <1>1. FleetTypeOK'
    BY DEF FleetIInv, FleetTypeOK
  <1>2. StagesAgree'
    BY DEF FleetIInv, FleetTypeOK, StagesAgree
  <1>3. PhonesAgree'
    BY FleetAssumption DEF FleetIInv, FleetTypeOK, PhonesAgree
  <1>4. \A o \in archived' : ~HasRentalUnderWay(o)
    BY DEF FleetIInv, CarsTruth
  <1> QED
    BY <1>1, <1>2, <1>3, <1>4, QuietKeeps

LEMMA CancelSwapKeeps ==
  ASSUME FleetIInv, NEW r \in Rentals, CancelSwap(r)
  PROVE  FleetIInv'
  <1> USE DEF CancelSwap
  <1>1. FleetTypeOK'
    BY CloseIsTyped DEF FleetIInv, FleetTypeOK, Desk
  <1>2. StagesAgree'
    BY DEF FleetIInv, FleetTypeOK, StagesAgree
  <1>3. PhonesAgree'
    BY CloseKeeps DEF FleetIInv, FleetTypeOK
  <1>4. \A o \in archived' : ~HasRentalUnderWay(o)
    BY DEF FleetIInv, CarsTruth
  <1> QED
    BY <1>1, <1>2, <1>3, <1>4, QuietKeeps

\* What a phone loads agrees with the tables as they are.
LEMMA LoadKeeps ==
  ASSUME FleetIInv, NEW d \in Desks, NEW r \in Rentals, NEW what \in {"handover", "return", "swap"},
         NEW at \in 0..(Horizon + ClockAhead), Load(d, r, what, at),
         UNCHANGED <<now, rental, holds, possessions, carStatus, archived, checklist, swap>>,
         what # "return" => at \in Times,
         what = "handover" => checklist[r] = "handover",
         what = "return" => /\ checklist[r] = "return" /\ at # 0
                            /\ \A p \in possessions : p.rental = r => p.from < at,
         what = "swap" => swap[r] # NoCar
  PROVE  FleetIInv'
  <1> DEFINE new == [doing |-> what, rental |-> r, at |-> at, open |-> TRUE,
                     end |-> IF what = "return" THEN Never ELSE rental[r].end]
  <1>1. /\ new \in Desk /\ new.doing = what /\ new.rental = r /\ new.at = at /\ new.open
    BY Moments DEF FleetIInv, FleetTypeOK, Desk
  <1>2. desk' = [desk EXCEPT ![d] = new]
    BY DEF Load
  <1> HIDE DEF new
  <1>3. FleetTypeOK'
    BY <1>1, <1>2 DEF FleetIInv, FleetTypeOK, Desk
  <1>4. StagesAgree'
    BY DEF FleetIInv, StagesAgree
  <1>5. PhonesAgree'
    BY <1>1, <1>2 DEF FleetIInv, FleetTypeOK, PhonesAgree, Times
  <1>6. \A o \in archived' : ~HasRentalUnderWay(o)
    BY DEF FleetIInv, CarsTruth
  <1> QED
    BY <1>3, <1>4, <1>5, <1>6, QuietKeeps

LEMMA LoadsKeep ==
  ASSUME FleetIInv, NEW d \in Desks, NEW r \in Rentals,
         \/ LoadHandover(d, r) \/ LoadSwap(d, r)
         \/ \E back \in 1..(Horizon + ClockAhead) : LoadReturn(d, r, back)
  PROVE  FleetIInv'
  <1>1. now \in Times /\ now \in 0..(Horizon + ClockAhead)
    BY Moments DEF FleetIInv, FleetTypeOK
  <1>2. CASE LoadHandover(d, r)
    BY <1>1, <1>2, LoadKeeps DEF LoadHandover
  <1>3. CASE LoadSwap(d, r)
    BY <1>1, <1>3, LoadKeeps DEF LoadSwap
  <1>4. ASSUME NEW back \in 1..(Horizon + ClockAhead), LoadReturn(d, r, back)
        PROVE  FleetIInv'
    <2>1. back \in 0..(Horizon + ClockAhead) /\ back # 0
      BY FleetAssumption
    <2> QED
      BY <1>4, <2>1, LoadKeeps DEF LoadReturn
  <1> QED
    BY <1>2, <1>3, <1>4

LEMMA GiveUpKeeps ==
  ASSUME FleetIInv, NEW d \in Desks, GiveUp(d)
  PROVE  FleetIInv'
  <1> USE DEF GiveUp
  <1>1. FleetTypeOK'
    BY IdleIsDesk DEF FleetIInv, FleetTypeOK, Desk
  <1>2. StagesAgree'
    BY DEF FleetIInv, StagesAgree
  <1>3. PhonesAgree'
    BY IdleIsDesk, Moments DEF FleetIInv, FleetTypeOK, PhonesAgree, Times
  <1>4. \A o \in archived' : ~HasRentalUnderWay(o)
    BY DEF FleetIInv, CarsTruth
  <1> QED
    BY <1>1, <1>2, <1>3, <1>4, QuietKeeps

\* The cars' own pages write neither "rented" nor over it.
LEMMA CarPagesKeep ==
  ASSUME FleetIInv, NEW c \in Cars,
         \/ \E s \in {"available"} \cup OffRoad : SetCarStatus(c, s)
         \/ CancelSale(c) \/ ArchiveCar(c) \/ RestoreCar(c)
  PROVE  FleetIInv'
  <1>1. UNCHANGED <<now, rental, holds, possessions, checklist, swap, desk>>
    BY DEF SetCarStatus, CancelSale, ArchiveCar, RestoreCar
  <1>2. /\ carStatus' \in [Cars -> {"available", "rented", "service", "sold"}]
        /\ \A o \in Cars : carStatus'[o] = "rented" <=> carStatus[o] = "rented"
    BY FleetAssumption DEF FleetIInv, FleetTypeOK, SetCarStatus, CancelSale, ArchiveCar, RestoreCar
  <1>3. archived' \subseteq Cars /\ \A o \in archived' : ~HasRentalUnderWay(o)
    BY DEF FleetIInv, FleetTypeOK, CarsTruth, SetCarStatus, CancelSale, ArchiveCar, RestoreCar
  <1>4. FleetTypeOK'
    BY <1>1, <1>2, <1>3 DEF FleetIInv, FleetTypeOK
  <1>5. StagesAgree' /\ PhonesAgree'
    BY <1>1 DEF FleetIInv, StagesAgree, PhonesAgree, Times
  <1> QED
    BY <1>1, <1>2, <1>3, <1>4, <1>5, QuietKeeps

----------------------------------------------------------------------------
(* Bookings.                                                               *)

\* A rental made or booked, cancelled, or with a new end, while no car moves: what is left
\* to show is of that rental.
LEMMA BookingKeeps ==
  ASSUME FleetIInv, NEW r \in Rentals, NEW new \in Rental,
         rental' = [rental EXCEPT ![r] = new],
         UNCHANGED <<now, possessions, carStatus, archived, swap>>,
         new.status = "active" <=> rental[r].status = "active",
         new.status = "active" => new.car = rental[r].car,
         new.status # "none" => new.car \in Cars,
         new.status = "returned" <=> rental[r].status = "returned",
         new.status = "booked" => \A h \in HoldsOf(r)' : h.from = new.start,
         holds' \subseteq Hold, HoldsRight(r)',
         \A q \in Rentals : q # r => HoldsOf(q)' = HoldsOf(q),
         \A c \in archived : (\E h \in holds' : h.car = c) => \E h \in holds : h.car = c,
         new.status = "booked" => new.car \notin archived,
         \/ UNCHANGED <<checklist, desk>> /\ new.status = rental[r].status
         \/ UNCHANGED <<checklist, desk>> /\ rental[r].status \in {"none", "draft"}
         \/ /\ checklist' = [checklist EXCEPT ![r] = "none"] /\ desk' = CloseChecklists(r)
            /\ rental[r].status # "active"
  PROVE  FleetIInv'
  <1> USE DEF FleetIInv
  <1>1. rental'[r] = new /\ \A q \in Rentals : q # r => rental'[q] = rental[q]
    BY DEF FleetTypeOK
  <1>2. FleetTypeOK'
    <2>1. rental' \in [Rentals -> Rental]
      BY DEF FleetTypeOK, Rental
    <2>2. desk' \in [Desks -> Desk] /\ checklist' \in [Rentals -> {"none", "handover", "return"}]
      BY CloseIsTyped DEF FleetTypeOK, Desk
    <2> QED
      BY <2>1, <2>2 DEF FleetTypeOK, Rental, Hold, Desk
  <1>3. \A q \in Rentals : Open(q)' = Open(q)
    BY DEF Open
  <1>4. HoldsMatch'
    BY <1>1, <1>3, HoldsOfOthers
  <1>5. CarsTruth'
    <2>1. \A q \in Rentals : OutRight(q)'
      BY <1>1, <1>3 DEF CarsTruth, OutRight
    <2>2. \A c \in archived' : ~HasRentalUnderWay(c)'
      BY <1>1 DEF CarsTruth, HasRentalUnderWay, IsUnderWay
    <2>3. \A c \in Cars : carStatus'[c] = "rented" <=> \E q \in Rentals : \E p \in Open(q)' : p.car = c
      BY <1>3 DEF CarsTruth
    <2> QED
      BY <2>1, <2>2, <2>3 DEF CarsTruth, OutRight
  <1>6. OneHadIt'
    BY DEF OneHadIt
  <1>7. StagesAgree'
    BY <1>1 DEF FleetTypeOK, StagesAgree
  <1>8. NothingBefore'
    BY <1>1 DEF NothingBefore, Rental, FleetTypeOK
  <1>9. PhonesAgree'
    BY CloseKeeps DEF PhonesAgree, FleetTypeOK, Times
  <1> QED
    BY <1>2, <1>4, <1>5, <1>6, <1>7, <1>8, <1>9

\* Made, as a draft or booked at once.
LEMMA CreateKeeps ==
  ASSUME FleetIInv, NEW r \in Rentals, NEW c \in Cars, NEW p \in Plans,
         CreateDraft(r, c, p) \/ CreateBooking(r, c, p)
  PROVE  FleetIInv'
  <1> DEFINE new(s) == [status |-> s, car |-> c, start |-> p.start, end |-> p.end]
  <1>1. /\ new("draft") \in Rental /\ new("booked") \in Rental
        /\ HoldOf(r, c, p) \in Hold
    BY FleetAssumption DEF Rental, HoldOf, Hold
  <1>2. HoldOf(r, c, p).rental = r /\ HoldOf(r, c, p).car = c /\ HoldOf(r, c, p).from = p.start
    BY DEF HoldOf
  <1>3. /\ rental[r].status = "none" /\ IsBookable(c)
        /\ UNCHANGED <<now, possessions, carStatus, archived, checklist, swap, desk>>
    BY DEF CreateDraft, CreateBooking
  <1>4. /\ holds \subseteq Hold /\ HoldsOf(r) = {} /\ Open(r) = {}
        /\ rental \in [Rentals -> Rental] /\ c \notin archived
    BY <1>3 DEF FleetIInv, FleetTypeOK, HoldsMatch, CarsTruth, IsUnderWay, IsBookable, Hold, Rental
  <1>5. CASE CreateDraft(r, c, p)
    <2>1. rental' = [rental EXCEPT ![r] = new("draft")] /\ holds' = holds
      BY <1>5 DEF CreateDraft
    <2>2. HoldsRight(r)' /\ \A q \in Rentals : HoldsOf(q)' = HoldsOf(q)
      BY <1>4, <2>1 DEF HoldsRight, IsUnderWay, HoldsOf
    <2> HIDE DEF new
    <2>3. new("draft").status = "draft" /\ new("draft").car = c
      BY DEF new
    <2> QED
      BY <1>1, <1>3, <1>4, <2>1, <2>2, <2>3, BookingKeeps
  <1>6. CASE CreateBooking(r, c, p)
    <2>1. rental' = [rental EXCEPT ![r] = new("booked")] /\ holds' = holds \cup {HoldOf(r, c, p)}
      BY <1>6 DEF CreateBooking
    <2>2. /\ HoldsOf(r)' = {HoldOf(r, c, p)}
          /\ \A q \in Rentals : q # r => HoldsOf(q)' = HoldsOf(q)
      BY <1>2, <1>4, <2>1 DEF HoldsOf
    <2>3. HoldsRight(r)'
      <3>1. Open(r)' = {}
        BY <1>3, <1>4 DEF Open
      <3> QED
        BY <1>2, <1>4, <2>1, <2>2, <3>1 DEF HoldsRight, IsUnderWay
    <2> HIDE DEF new
    <2>4. new("booked").status = "booked" /\ new("booked").car = c /\ new("booked").start = p.start
      BY DEF new
    <2>5. \A o \in archived : (\E h \in holds' : h.car = o) => \E h \in holds : h.car = o
      BY <1>2, <1>4, <2>1
    <2>6. holds' \subseteq Hold
      BY <1>1, <1>4, <2>1
    <2>7. \A h \in HoldsOf(r)' : h.from = p.start
      BY <1>2, <2>2
    <2> QED
      BY <1>1, <1>3, <1>4, <2>1, <2>2, <2>3, <2>4, <2>5, <2>6, <2>7, BookingKeeps
  <1> QED
    BY <1>5, <1>6

\* A draft is booked: it holds its car, from its start.
LEMMA BookKeeps ==
  ASSUME FleetIInv, NEW r \in Rentals, BookRental(r)
  PROVE  FleetIInv'
  <1> DEFINE new == [rental[r] EXCEPT !.status = "booked"]
             hold == HoldOf(r, rental[r].car, rental[r])
  <1>1. rental \in [Rentals -> Rental] /\ holds \subseteq Hold
    BY DEF FleetIInv, FleetTypeOK, Rental, Hold
  <1>2. /\ rental[r].status = "draft" /\ IsBookable(rental[r].car)
        /\ rental' = [rental EXCEPT ![r] = new] /\ holds' = holds \cup {hold}
        /\ UNCHANGED <<now, possessions, carStatus, archived, checklist, swap, desk>>
    BY <1>1 DEF BookRental
  <1>3. /\ HoldsOf(r) = {} /\ Open(r) = {} /\ rental[r].car \in Cars /\ rental[r].car \notin archived
    BY <1>2 DEF FleetIInv, HoldsMatch, CarsTruth, StagesAgree, IsUnderWay, IsBookable
  <1>4. /\ hold \in Hold /\ hold.rental = r /\ hold.car = rental[r].car /\ hold.from = rental[r].start
    BY <1>1, <1>3 DEF HoldOf, Hold, Rental
  <1>5. /\ new \in Rental /\ new.status = "booked" /\ new.car = rental[r].car
        /\ new.start = rental[r].start
    BY <1>1 DEF Rental
  <1> HIDE DEF new, hold
  <1>6. /\ HoldsOf(r)' = {hold}
        /\ \A q \in Rentals : q # r => HoldsOf(q)' = HoldsOf(q)
    BY <1>2, <1>3, <1>4 DEF HoldsOf
  <1>7. rental'[r] = new
    BY <1>1, <1>2
  <1>8. HoldsRight(r)'
    <2>1. Open(r)' = {}
      BY <1>2, <1>3 DEF Open
    <2> QED
      BY <1>2, <1>4, <1>5, <1>6, <1>7, <2>1 DEF HoldsRight, IsUnderWay
  <1>9. \A o \in archived : (\E h \in holds' : h.car = o) => \E h \in holds : h.car = o
    BY <1>2, <1>3, <1>4
  <1>10. holds' \subseteq Hold /\ \A h \in HoldsOf(r)' : h.from = new.start
    BY <1>1, <1>2, <1>4, <1>5, <1>6
  <1> QED
    BY <1>2, <1>3, <1>5, <1>6, <1>8, <1>9, <1>10, BookingKeeps

\* Cancelled before it went: its hold is let go.
LEMMA CancelKeeps ==
  ASSUME FleetIInv, NEW r \in Rentals, CancelRental(r)
  PROVE  FleetIInv'
  <1> DEFINE new == [rental[r] EXCEPT !.status = "cancelled"]
  <1>1. rental \in [Rentals -> Rental] /\ holds \subseteq Hold
    BY DEF FleetIInv, FleetTypeOK, Rental, Hold
  <1>2. /\ rental[r].status \in {"draft", "booked"}
        /\ rental' = [rental EXCEPT ![r] = new] /\ holds' = Released(r)
        /\ checklist' = [checklist EXCEPT ![r] = "none"] /\ desk' = CloseChecklists(r)
        /\ UNCHANGED <<now, possessions, carStatus, archived, swap>>
    BY <1>1 DEF CancelRental
  <1>3. new \in Rental /\ new.status = "cancelled" /\ new.car = rental[r].car
    BY <1>1 DEF Rental
  <1> HIDE DEF new
  <1>4. rental'[r] = new
    BY <1>1, <1>2
  <1>5. HoldsOf(r)' = {} /\ \A q \in Rentals : q # r => HoldsOf(q)' = HoldsOf(q)
    BY <1>2 DEF HoldsOf, Released
  <1>6. HoldsRight(r)'
    BY <1>3, <1>4, <1>5 DEF HoldsRight, IsUnderWay
  <1>7. holds' \subseteq Hold /\ \A o \in archived : (\E h \in holds' : h.car = o) => \E h \in holds : h.car = o
    BY <1>1, <1>2 DEF Released
  <1>8. rental[r].car \in Cars
    BY <1>2 DEF FleetIInv, StagesAgree
  <1> QED
    BY <1>2, <1>3, <1>5, <1>6, <1>7, <1>8, BookingKeeps

\* A new end: the rental's hold keeps its car and its start.
LEMMA ChangeEndKeeps ==
  ASSUME FleetIInv, NEW r \in Rentals, NEW end \in Ends, ChangeRentalEnd(r, end)
  PROVE  FleetIInv'
  <1> DEFINE new == [rental[r] EXCEPT !.end = end]
  <1>1. rental \in [Rentals -> Rental] /\ holds \subseteq Hold
    BY DEF FleetIInv, FleetTypeOK, Rental, Hold
  <1>2. /\ IsUnderWay(r) /\ rental' = [rental EXCEPT ![r] = new]
        /\ holds' = {IF h.rental = r THEN [h EXCEPT !.to = end] ELSE h : h \in holds}
        /\ UNCHANGED <<now, possessions, carStatus, archived, checklist, swap, desk>>
    BY <1>1 DEF ChangeRentalEnd
  <1>3. /\ new \in Rental /\ new.status = rental[r].status /\ new.car = rental[r].car
        /\ new.start = rental[r].start
    BY <1>1 DEF Rental
  <1> HIDE DEF new
  <1>4. rental'[r] = new /\ IsUnderWay(r)'
    BY <1>1, <1>2, <1>3 DEF IsUnderWay
  <1>5. PICK h \in holds : /\ HoldsOf(r) = {h} /\ h.car = rental[r].car
                           /\ \A p \in Open(r) : p.car = h.car /\ h.from <= p.from
    BY <1>2 DEF FleetIInv, HoldsMatch
  <1> DEFINE moved == [h EXCEPT !.to = end]
  <1>6. h \in Hold /\ h.rental = r
    BY <1>1, <1>5 DEF HoldsOf
  <1>7. /\ moved \in Hold /\ moved.rental = r /\ moved.car = h.car /\ moved.from = h.from
    BY <1>6 DEF Hold
  <1>8. \A o \in holds : o.rental = r => o = h
    BY <1>5 DEF HoldsOf
  <1>9. holds' = (holds \ {h}) \cup {moved}
    BY <1>2, <1>5, <1>6, <1>8
  <1> HIDE DEF moved
  <1>10. HoldsOf(r)' = {moved} /\ \A q \in Rentals : q # r => HoldsOf(q)' = HoldsOf(q)
    BY <1>6, <1>7, <1>8, <1>9 DEF HoldsOf
  <1>11. HoldsRight(r)'
    <2>1. Open(r)' = Open(r) /\ moved \in holds'
      BY <1>2, <1>9 DEF Open
    <2> QED
      BY <1>3, <1>4, <1>5, <1>7, <1>10, <2>1 DEF HoldsRight
  <1>12. holds' \subseteq Hold /\ \A o \in archived : (\E k \in holds' : k.car = o) => \E k \in holds : k.car = o
    BY <1>1, <1>5, <1>7, <1>9
  <1>13. new.status = "booked" => \A k \in HoldsOf(r)' : k.from = new.start
    BY <1>3, <1>5, <1>7, <1>10 DEF FleetIInv, NothingBefore
  <1>14. rental[r].car \in Cars /\ rental[r].car \notin archived
    BY <1>2 DEF FleetIInv, StagesAgree, CarsTruth, HasRentalUnderWay, IsUnderWay
  <1> QED
    BY <1>2, <1>3, <1>10, <1>11, <1>12, <1>13, <1>14, BookingKeeps

----------------------------------------------------------------------------
(* The steps that move cars.                                               *)

\* A phone that finished is free, and the others on the rental are closed.
LEMMA FinishPhones ==
  ASSUME FleetTypeOK, PhonesAgree, NEW d \in Desks, NEW r \in Rentals, desk[d].rental = r,
         desk' = Finished(d),
         \A q \in Rentals : q # r => checklist'[q] = checklist[q] /\ swap'[q] = swap[q],
         \A p \in possessions' : p.rental # r => p \in possessions
  PROVE  PhonesAgree' /\ desk' \in [Desks -> Desk]
  <1>1. desk' = [CloseChecklists(r) EXCEPT ![d] = Idle]
    BY DEF Finished
  <1>2. CloseChecklists(r) \in [Desks -> Desk]
    BY CloseIsTyped
  <1>3. \A e \in Desks : \/ desk'[e] = Idle
                         \/ desk'[e] = [desk[e] EXCEPT !.open = FALSE]
                         \/ desk'[e] = desk[e] /\ desk[e].rental # r
    BY <1>1, <1>2, CloseClosed
  <1>4. PhonesAgree'
    BY <1>3, PhonesKept
  <1> QED
    BY <1>1, <1>2, <1>4, IdleIsDesk

\* What a rental's possession still open is about came before it.
LEMMA OpenIsLast ==
  ASSUME FleetIInv, NEW p \in possessions, p.to = Never, NEW o \in possessions, o # p,
         o.car = p.car \/ o.rental = p.rental
  PROVE  o.to <= p.from /\ o.to # Never
  <1>1. o.from \in Times /\ p.from \in Times /\ o.to \in 1..Never
    BY DEF FleetIInv, FleetTypeOK
  <1>2. o.from < Never /\ p.from < Never /\ o.from \in Nat /\ p.from \in Nat /\ Never \in Nat
    BY <1>1, Moments
  <1>3. p.to <= o.from \/ o.to <= p.from
    BY DEF FleetIInv, OneHadIt
  <1> QED
    BY <1>1, <1>2, <1>3

\* Ending a rental's open possession changes that one only, and leaves none open.
LEMMA OneEnds ==
  ASSUME FleetIInv, NEW r \in Rentals, NEW p \in possessions, Open(r) = {p},
         NEW at \in 0..(Horizon + ClockAhead), at # 0
  PROVE  LET ended == [p EXCEPT !.to = at]
         IN  /\ EndPossession(r, at) = (possessions \ {p}) \cup {ended}
             /\ ended \in Possession /\ ended.rental = r /\ ended.car = p.car
             /\ ended.from = p.from /\ ended.to = at /\ at # Never
             /\ p.rental = r /\ p.to = Never
  <1>1. p \in Possession /\ p.rental = r /\ p.to = Never
    BY DEF FleetIInv, FleetTypeOK, Possession, Open
  <1>2. at \in 1..Never /\ at # Never
    BY Moments
  <1>3. EndPossession(r, at) = (possessions \ {p}) \cup {[p EXCEPT !.to = at]}
    BY DEF EndPossession
  <1> QED
    BY <1>1, <1>2, <1>3 DEF Possession

LEMMA FinishHandoverKeeps ==
  ASSUME FleetIInv, NEW d \in Desks, FinishHandover(d)
  PROVE  FleetIInv'
  <1>1. /\ desk[d] \in Desk /\ desk[d].rental \in Rentals /\ desk[d].at \in Times
        /\ checklist[desk[d].rental] = "handover"
    BY DEF FinishHandover, FleetIInv, FleetTypeOK, PhonesAgree, Desk
  <1>2. PICK r \in Rentals, at \in Times, end \in Ends :
           r = desk[d].rental /\ at = desk[d].at /\ end = desk[d].end
    BY <1>1 DEF Desk
  <1>3. PICK c \in Cars : c = rental[r].car /\ rental[r].status = "booked"
    BY <1>1, <1>2 DEF FinishHandover, FleetIInv, StagesAgree
  <1> DEFINE out == [rental |-> r, car |-> c, from |-> at, to |-> Never]
             moved == [rental |-> r, car |-> c, from |-> at, to |-> end]
             new == [rental[r] EXCEPT !.status = "active"]
  <1>4. /\ carStatus[c] = "available" /\ c \notin archived /\ IsCarLeft(possessions, c, at)
        /\ holds' = IF at < rental[r].start THEN Released(r) \cup {moved} ELSE holds
        /\ rental' = [rental EXCEPT ![r] = new] /\ possessions' = possessions \cup {out}
        /\ carStatus' = [carStatus EXCEPT ![c] = "rented"]
        /\ checklist' = [checklist EXCEPT ![r] = "none"] /\ desk' = Finished(d)
        /\ UNCHANGED <<now, archived, swap>>
    BY <1>2, <1>3 DEF FinishHandover, StartPossession, HeldFromNow, FleetIInv, FleetTypeOK
  <1>5. /\ rental \in [Rentals -> Rental] /\ holds \subseteq Hold /\ possessions \subseteq Possession
        /\ carStatus \in [Cars -> {"available", "rented", "service", "sold"}]
    BY DEF FleetIInv, FleetTypeOK, Rental, Hold, Possession
  <1>6. Open(r) = {} /\ \A p \in possessions : p.rental # r
    BY <1>3 DEF FleetIInv, CarsTruth, NothingBefore
  <1>7. /\ new \in Rental /\ new.status = "active" /\ new.car = c
        /\ out \in Possession /\ out.rental = r /\ out.car = c /\ out.from = at /\ out.to = Never
        /\ moved \in Hold /\ moved.rental = r /\ moved.car = c /\ moved.from = at
    BY <1>3, <1>5, Moments DEF Rental, Possession, Hold
  <1>8. at \in Nat /\ at < Never /\ Never \in Nat
    BY Moments
  <1> HIDE DEF out, moved, new
  <1>9. rental'[r] = new /\ \A q \in Rentals : q # r => rental'[q] = rental[q]
    BY <1>4, <1>5
  <1>10. Open(r)' = {out} /\ \A q \in Rentals : q # r => Open(q)' = Open(q)
    BY <1>4, <1>6, <1>7 DEF Open
  <1>11. \A p \in possessions : p.car = c => p.to <= at /\ p.to # Never
    <2>1. \A p \in possessions : p.to \in Nat
      BY <1>5, <1>8 DEF Possession
    <2> QED
      BY <1>4, <1>8, <2>1 DEF IsCarLeft
  <1>12. /\ holds' \subseteq Hold /\ \A q \in Rentals : q # r => HoldsOf(q)' = HoldsOf(q)
         /\ \E h \in holds' : HoldsOf(r)' = {h} /\ h.car = c /\ h.from <= at
    <2>1. CASE at < rental[r].start
      <3>1. HoldsOf(r)' = {moved} /\ \A q \in Rentals : q # r => HoldsOf(q)' = HoldsOf(q)
        BY <1>4, <1>7, <2>1 DEF HoldsOf, Released
      <3>2. holds' \subseteq Hold /\ moved \in holds'
        BY <1>4, <1>5, <1>7, <2>1 DEF Released
      <3> QED
        BY <1>7, <1>8, <3>1, <3>2
    <2>2. CASE ~(at < rental[r].start)
      <3>1. holds' = holds
        BY <1>4, <2>2
      <3>2. PICK h \in holds : HoldsOf(r) = {h} /\ h.car = c
        BY <1>3 DEF FleetIInv, HoldsMatch, IsUnderWay
      <3>3. h.from = rental[r].start
        BY <1>3, <3>2 DEF FleetIInv, NothingBefore
      <3>4. rental[r].start \in Nat
        BY <1>5, Moments DEF Rental
      <3> QED
        BY <1>5, <1>8, <2>2, <3>1, <3>2, <3>3, <3>4 DEF HoldsOf
    <2> QED
      BY <2>1, <2>2
  <1>13. PhonesAgree' /\ desk' \in [Desks -> Desk]
    BY <1>2, <1>4, <1>7, FinishPhones DEF FleetIInv, FleetTypeOK
  <1>14. FleetTypeOK'
    <2>1. rental' \in [Rentals -> Rental] /\ possessions' \subseteq Possession
      BY <1>4, <1>5, <1>7
    <2> QED
      BY <1>4, <1>12, <1>13, <2>1 DEF FleetIInv, FleetTypeOK, Rental, Hold, Possession, Desk
  <1>15. HoldsMatch'
    <2>1. HoldsRight(r)'
      BY <1>7, <1>9, <1>10, <1>12 DEF HoldsRight, IsUnderWay
    <2> QED
      BY <1>9, <1>10, <1>12, <2>1, HoldsOfOthers DEF FleetIInv
  <1>16. CarsTruth'
    <2>1. \A q \in Rentals : OutRight(q)'
      <3>1. OutRight(r)'
        BY <1>4, <1>7, <1>9, <1>10 DEF OutRight
      <3>2. \A q \in Rentals : OutRight(q)
        BY DEF FleetIInv, CarsTruth, OutRight
      <3> QED
        BY <1>9, <1>10, <3>1, <3>2, OutOfOthers
    <2>2. \A o \in archived' : ~HasRentalUnderWay(o)'
      <3> SUFFICES ASSUME NEW o \in archived
                   PROVE  ~HasRentalUnderWay(o)'
        BY <1>4
      <3>1. o # c /\ ~HasRentalUnderWay(o)
        BY <1>4 DEF FleetIInv, CarsTruth
      <3>2. \A h \in holds' : h.car = c \/ h \in holds
        BY <1>4, <1>7 DEF Released
      <3> QED
        BY <1>4, <1>7, <1>9, <3>1, <3>2 DEF HasRentalUnderWay, IsUnderWay
    <2>3. \A o \in Cars : carStatus'[o] = "rented" <=> \E q \in Rentals : \E p \in Open(q)' : p.car = o
      BY <1>4, <1>5, <1>6, <1>7, <1>10 DEF FleetIInv, CarsTruth
    <2> QED
      BY <2>1, <2>2, <2>3 DEF CarsTruth, OutRight
  <1>17. OneHadIt'
    BY <1>4, <1>6, <1>7, <1>11 DEF FleetIInv, OneHadIt
  <1>18. StagesAgree'
    BY <1>1, <1>2, <1>4, <1>7, <1>9 DEF FleetIInv, FleetTypeOK, StagesAgree
  <1>19. NothingBefore'
    BY <1>4, <1>7, <1>9, <1>12 DEF FleetIInv, NothingBefore
  <1> QED
    BY <1>13, <1>14, <1>15, <1>16, <1>17, <1>18, <1>19 DEF FleetIInv

\* A return under way is of a rental whose one car went out before the time typed.
LEMMA ReturnFits ==
  ASSUME FleetIInv, NEW d \in Desks, desk[d].doing = "return", desk[d].open,
         NEW r \in Rentals, r = desk[d].rental
  PROVE  /\ rental[r].status = "active" /\ checklist[r] = "return"
         /\ desk[d].at \in 0..(Horizon + ClockAhead) /\ desk[d].at # 0
         /\ \E p \in possessions : Open(r) = {p} /\ p.car = rental[r].car
  <1>1. checklist[r] = "return" /\ desk[d].at # 0
    BY DEF FleetIInv, PhonesAgree
  <1>2. rental[r].status = "active"
    BY <1>1 DEF FleetIInv, StagesAgree
  <1> QED
    BY <1>1, <1>2 DEF FleetIInv, FleetTypeOK, CarsTruth

LEMMA FinishReturnKeeps ==
  ASSUME FleetIInv, NEW d \in Desks, NEW after \in AfterReturn, FinishReturn(d, after)
  PROVE  FleetIInv'
  <1>1. PICK r \in Rentals : r = desk[d].rental
    BY DEF FinishReturn, FleetIInv, PhonesAgree
  <1>2. /\ rental[r].status = "active" /\ checklist[r] = "return"
        /\ desk[d].at \in 0..(Horizon + ClockAhead) /\ desk[d].at # 0
        /\ \E p \in possessions : Open(r) = {p} /\ p.car = rental[r].car
    BY <1>1, ReturnFits DEF FinishReturn
  <1>3. PICK at \in 0..(Horizon + ClockAhead) : at = desk[d].at /\ at # 0
    BY <1>2
  <1>4. PICK p \in possessions : Open(r) = {p} /\ p.car = rental[r].car
    BY <1>2
  <1> DEFINE ended == [p EXCEPT !.to = at]
             new == [rental[r] EXCEPT !.status = "returned"]
  <1>5. /\ EndPossession(r, at) = (possessions \ {p}) \cup {ended}
        /\ ended \in Possession /\ ended.rental = r /\ ended.car = p.car
        /\ ended.from = p.from /\ ended.to = at /\ at # Never /\ p.rental = r /\ p.to = Never
    BY <1>3, <1>4, OneEnds
  <1>6. /\ rental \in [Rentals -> Rental] /\ holds \subseteq Hold /\ possessions \subseteq Possession
        /\ carStatus \in [Cars -> {"available", "rented", "service", "sold"}]
    BY DEF FleetIInv, FleetTypeOK, Rental, Hold, Possession
  <1>7. new \in Rental /\ new.status = "returned" /\ new.car = rental[r].car
    BY <1>6 DEF Rental
  <1>8. after \in {"available", "service"}
    BY FleetAssumption DEF AfterReturn
  <1>9. /\ possessions' = (possessions \ {p}) \cup {ended}
        /\ rental' = [rental EXCEPT ![r] = new] /\ holds' = Released(r)
        /\ carStatus' = [carStatus EXCEPT ![p.car] = after]
        /\ checklist' = [checklist EXCEPT ![r] = "none"] /\ desk' = Finished(d)
        /\ UNCHANGED <<now, archived, swap>>
    BY <1>1, <1>3, <1>4, <1>5, <1>6 DEF FinishReturn
  <1>10. p.car \in Cars
    BY <1>6 DEF Possession
  <1> HIDE DEF ended, new
  <1>11. rental'[r] = new /\ \A q \in Rentals : q # r => rental'[q] = rental[q]
    BY <1>6, <1>9
  <1>12. Open(r)' = {} /\ \A q \in Rentals : q # r => Open(q)' = Open(q)
    BY <1>4, <1>5, <1>9 DEF Open
  <1>13. HoldsOf(r)' = {} /\ \A q \in Rentals : q # r => HoldsOf(q)' = HoldsOf(q)
    BY <1>9 DEF HoldsOf, Released
  <1>14. PhonesAgree' /\ desk' \in [Desks -> Desk]
    BY <1>1, <1>5, <1>9, FinishPhones DEF FleetIInv, FleetTypeOK
  <1>15. FleetTypeOK'
    <2>1. rental' \in [Rentals -> Rental] /\ possessions' \subseteq Possession /\ holds' \subseteq Hold
      BY <1>5, <1>6, <1>7, <1>9 DEF Released
    <2> QED
      BY <1>8, <1>9, <1>14, <2>1 DEF FleetIInv, FleetTypeOK, Rental, Hold, Possession, Desk
  <1>16. HoldsMatch'
    <2>1. HoldsRight(r)'
      BY <1>7, <1>11, <1>13 DEF HoldsRight, IsUnderWay
    <2> QED
      BY <1>11, <1>12, <1>13, <2>1, HoldsOfOthers DEF FleetIInv
  <1>17. CarsTruth'
    <2>1. \A q \in Rentals : OutRight(q)'
      <3>1. OutRight(r)' /\ \A q \in Rentals : OutRight(q)
        BY <1>7, <1>11, <1>12 DEF OutRight, FleetIInv, CarsTruth
      <3> QED
        BY <1>11, <1>12, <3>1, OutOfOthers
    <2>2. \A o \in archived' : ~HasRentalUnderWay(o)'
      <3> SUFFICES ASSUME NEW o \in archived
                   PROVE  ~HasRentalUnderWay(o)'
        BY <1>9
      <3>1. ~HasRentalUnderWay(o)
        BY DEF FleetIInv, CarsTruth
      <3> QED
        BY <1>5, <1>7, <1>9, <1>11, <3>1 DEF HasRentalUnderWay, IsUnderWay, Released
    <2>3. \A q \in Rentals : q # r => \A o \in Open(q) : o.car # p.car
      BY <1>5, OpenIsLast DEF Open
    <2>4. \A o \in Cars : carStatus'[o] = "rented" <=> \E q \in Rentals : \E k \in Open(q)' : k.car = o
      BY <1>4, <1>6, <1>8, <1>9, <1>10, <1>12, <2>3 DEF FleetIInv, CarsTruth
    <2> QED
      BY <2>1, <2>2, <2>4 DEF CarsTruth, OutRight
  <1>18. OneHadIt'
    BY <1>5, <1>9, OpenIsLast DEF FleetIInv, OneHadIt
  <1>19. StagesAgree'
    BY <1>2, <1>7, <1>9, <1>11 DEF FleetIInv, FleetTypeOK, StagesAgree
  <1>20. NothingBefore'
    BY <1>5, <1>7, <1>9, <1>11, <1>13 DEF FleetIInv, NothingBefore
  <1> QED
    BY <1>14, <1>15, <1>16, <1>17, <1>18, <1>19, <1>20 DEF FleetIInv

\* A swap under way is of a rental that is out, for another car.
LEMMA SwapFits ==
  ASSUME FleetIInv, NEW d \in Desks, desk[d].doing = "swap", desk[d].open,
         NEW r \in Rentals, r = desk[d].rental
  PROVE  /\ rental[r].status = "active" /\ swap[r] \in Cars /\ swap[r] # rental[r].car
         /\ desk[d].at \in Times /\ desk[d].end \in Ends
         /\ \E p \in possessions : Open(r) = {p} /\ p.car = rental[r].car
  <1>1. swap[r] # NoCar /\ desk[d].at \in Times
    BY DEF FleetIInv, PhonesAgree
  <1>2. rental[r].status = "active" /\ swap[r] # rental[r].car
    BY <1>1 DEF FleetIInv, StagesAgree
  <1> QED
    BY <1>1, <1>2 DEF FleetIInv, FleetTypeOK, CarsTruth

LEMMA FinishSwapKeeps ==
  ASSUME FleetIInv, NEW d \in Desks, NEW after \in AfterReturn, FinishSwap(d, after)
  PROVE  FleetIInv'
  <1>1. PICK r \in Rentals : r = desk[d].rental
    BY DEF FinishSwap, FleetIInv, PhonesAgree
  <1>2. /\ rental[r].status = "active" /\ swap[r] \in Cars /\ swap[r] # rental[r].car
        /\ desk[d].at \in Times /\ desk[d].end \in Ends
        /\ \E p \in possessions : Open(r) = {p} /\ p.car = rental[r].car
    BY <1>1, SwapFits DEF FinishSwap
  <1>3. PICK at \in Times, c \in Cars, to \in Ends :
           at = desk[d].at /\ c = swap[r] /\ to = RestOf(desk[d].end, at).to
    BY <1>2, Moments DEF RestOf
  <1>4. PICK p \in possessions : Open(r) = {p} /\ p.car = rental[r].car
    BY <1>2
  <1> DEFINE ended == [p EXCEPT !.to = at]
             out == [rental |-> r, car |-> c, from |-> at, to |-> Never]
             hold == [rental |-> r, car |-> c, from |-> at, to |-> to]
             new == [rental[r] EXCEPT !.car = c]
  <1>5. /\ rental \in [Rentals -> Rental] /\ holds \subseteq Hold /\ possessions \subseteq Possession
        /\ carStatus \in [Cars -> {"available", "rented", "service", "sold"}]
    BY DEF FleetIInv, FleetTypeOK, Rental, Hold, Possession
  <1>6. at \in 0..(Horizon + ClockAhead) /\ at \in Nat /\ at < Never /\ Never \in Nat
    BY Moments
  <1>7. p.from < at /\ at # 0
    BY <1>1, <1>3, <1>4, <1>5, <1>6, Moments DEF FinishSwap, Possession
  <1>8. /\ EndPossession(r, at) = (possessions \ {p}) \cup {ended}
        /\ ended \in Possession /\ ended.rental = r /\ ended.car = p.car
        /\ ended.from = p.from /\ ended.to = at /\ at # Never /\ p.rental = r /\ p.to = Never
    BY <1>4, <1>6, <1>7, OneEnds
  <1>9. /\ new \in Rental /\ new.status = "active" /\ new.car = c
        /\ out \in Possession /\ out.rental = r /\ out.car = c /\ out.from = at /\ out.to = Never
        /\ hold \in Hold /\ hold.rental = r /\ hold.car = c /\ hold.from = at
    BY <1>2, <1>5, Moments DEF Rental, Possession, Hold
  <1>10. after \in {"available", "service"}
    BY FleetAssumption DEF AfterReturn
  <1>11. /\ carStatus[c] = "available" /\ c \notin archived /\ IsCarLeft(EndPossession(r, at), c, at)
         /\ possessions' = EndPossession(r, at) \cup {out}
         /\ rental' = [rental EXCEPT ![r] = new]
         /\ holds' = {h \in holds : ~(h.rental = r /\ h.car = p.car)} \cup {hold}
         /\ carStatus' = [carStatus EXCEPT ![p.car] = after, ![c] = "rented"]
         /\ swap' = [swap EXCEPT ![r] = NoCar] /\ desk' = Finished(d)
         /\ UNCHANGED <<now, archived, checklist>>
    BY <1>1, <1>3, <1>4, <1>5 DEF FinishSwap, StartPossession
  <1>12. p.car \in Cars /\ p.car # c
    BY <1>2, <1>3, <1>4, <1>5 DEF Possession
  <1> HIDE DEF ended, out, hold, new
  <1>13. rental'[r] = new /\ \A q \in Rentals : q # r => rental'[q] = rental[q]
    BY <1>5, <1>11
  <1>14. possessions' = (possessions \ {p}) \cup {ended, out}
    BY <1>8, <1>11
  <1>15. Open(r)' = {out} /\ \A q \in Rentals : q # r => Open(q)' = Open(q)
    BY <1>4, <1>8, <1>9, <1>14 DEF Open
  <1>16. HoldsOf(r)' = {hold} /\ \A q \in Rentals : q # r => HoldsOf(q)' = HoldsOf(q)
    <2>1. \A h \in holds : h.rental = r => h.car = p.car
      BY <1>2, <1>4 DEF FleetIInv, HoldsMatch, IsUnderWay, HoldsOf
    <2> QED
      BY <1>9, <1>11, <2>1 DEF HoldsOf
  <1>17. \A o \in possessions : o.car = c => o.to <= at /\ o.to # Never
    <2> SUFFICES ASSUME NEW o \in possessions, o.car = c
                 PROVE  o.to <= at /\ o.to # Never
      OBVIOUS
    <2>1. o.to \in Nat /\ o \in EndPossession(r, at)
      BY <1>5, <1>6, <1>8, <1>12 DEF Possession
    <2>2. o.to <= at
      BY <1>11, <2>1 DEF IsCarLeft
    <2> QED
      BY <1>6, <2>1, <2>2
  <1>18. \A o \in possessions : o.rental = r => o = p \/ o.to <= at
    <2> SUFFICES ASSUME NEW o \in possessions, o.rental = r, o # p
                 PROVE  o.to <= at
      OBVIOUS
    <2>1. o.to <= p.from
      BY <1>8, OpenIsLast
    <2>2. o.to \in Nat
      BY <1>5, <1>6 DEF Possession
    <2>3. p.from \in Nat
      BY <1>5, Moments DEF Possession
    <2> QED
      BY <1>6, <1>7, <2>1, <2>2, <2>3
  <1>19. PhonesAgree' /\ desk' \in [Desks -> Desk]
    BY <1>1, <1>8, <1>9, <1>11, <1>14, FinishPhones DEF FleetIInv, FleetTypeOK
  <1>20. FleetTypeOK'
    <2>1. rental' \in [Rentals -> Rental] /\ possessions' \subseteq Possession /\ holds' \subseteq Hold
      BY <1>5, <1>8, <1>9, <1>11, <1>14
    <2> QED
      BY <1>10, <1>11, <1>19, <2>1 DEF FleetIInv, FleetTypeOK, Rental, Hold, Possession, Desk
  <1>21. HoldsMatch'
    <2>1. HoldsRight(r)'
      BY <1>6, <1>9, <1>11, <1>13, <1>15, <1>16 DEF HoldsRight, IsUnderWay
    <2> QED
      BY <1>13, <1>15, <1>16, <2>1, HoldsOfOthers DEF FleetIInv
  <1>22. CarsTruth'
    <2>1. \A q \in Rentals : OutRight(q)'
      <3>1. OutRight(r)' /\ \A q \in Rentals : OutRight(q)
        BY <1>9, <1>13, <1>14, <1>15 DEF OutRight, FleetIInv, CarsTruth
      <3> QED
        BY <1>13, <1>15, <3>1, OutOfOthers
    <2>2. \A o \in archived' : ~HasRentalUnderWay(o)'
      <3> SUFFICES ASSUME NEW o \in archived
                   PROVE  ~HasRentalUnderWay(o)'
        BY <1>11
      <3>1. o # c /\ ~HasRentalUnderWay(o)
        BY <1>11 DEF FleetIInv, CarsTruth
      <3> QED
        BY <1>8, <1>9, <1>11, <1>13, <1>14, <3>1 DEF HasRentalUnderWay, IsUnderWay
    <2>3. \A q \in Rentals : q # r => \A o \in Open(q) : o.car # p.car
      BY <1>8, OpenIsLast DEF Open
    <2>4. \A o \in Cars : carStatus'[o] = "rented" <=> \E q \in Rentals : \E k \in Open(q)' : k.car = o
      BY <1>4, <1>5, <1>9, <1>10, <1>11, <1>12, <1>15, <2>3 DEF FleetIInv, CarsTruth
    <2> QED
      BY <2>1, <2>2, <2>4 DEF CarsTruth, OutRight
  <1>23. OneHadIt'
    <2>1. \A o \in possessions \ {p} : o.car = p.car \/ o.rental = r => o.to <= ended.from
      BY <1>8, OpenIsLast
    <2>2. \A o \in possessions \ {p} : o.car = c \/ o.rental = r => o.to <= out.from
      BY <1>9, <1>17, <1>18
    <2>3. ended.to <= out.from
      BY <1>6, <1>8, <1>9
    <2> QED
      BY <1>8, <1>9, <1>14, <2>1, <2>2, <2>3 DEF FleetIInv, OneHadIt
  <1>24. StagesAgree'
    BY <1>2, <1>9, <1>11, <1>13 DEF FleetIInv, FleetTypeOK, StagesAgree
  <1>25. NothingBefore'
    BY <1>8, <1>9, <1>13, <1>14, <1>16 DEF FleetIInv, NothingBefore
  <1> QED
    BY <1>19, <1>20, <1>21, <1>22, <1>23, <1>24, <1>25 DEF FleetIInv

----------------------------------------------------------------------------
(* The theorems.                                                           *)

LEMMA NextKeeps == FleetIInv /\ [FleetNext]_fleetVars => FleetIInv'
  <1> SUFFICES ASSUME FleetIInv, [FleetNext]_fleetVars
               PROVE  FleetIInv'
    OBVIOUS
  <1>1. CASE UNCHANGED fleetVars
    BY <1>1, QuietKeeps DEF fleetVars, FleetIInv, FleetTypeOK, StagesAgree, PhonesAgree, Times,
       CarsTruth
  <1>2. CASE Tick
    BY <1>2, TickKeeps
  <1>3. ASSUME NEW r \in Rentals, NEW c \in Cars, NEW p \in Plans,
               CreateDraft(r, c, p) \/ CreateBooking(r, c, p)
        PROVE  FleetIInv'
    BY <1>3, CreateKeeps
  <1>4. ASSUME NEW r \in Rentals, BookRental(r) \/ CancelRental(r)
        PROVE  FleetIInv'
    BY <1>4, BookKeeps, CancelKeeps
  <1>5. ASSUME NEW r \in Rentals, NEW end \in Ends, ChangeRentalEnd(r, end)
        PROVE  FleetIInv'
    BY <1>5, ChangeEndKeeps
  <1>6. ASSUME NEW r \in Rentals, NEW kind \in {"handover", "return"}, StartChecklist(r, kind)
        PROVE  FleetIInv'
    BY <1>6, StartChecklistKeeps
  <1>7. ASSUME NEW r \in Rentals, CancelChecklist(r) \/ CancelSwap(r)
        PROVE  FleetIInv'
    BY <1>7, CancelChecklistKeeps, CancelSwapKeeps
  <1>8. ASSUME NEW r \in Rentals, NEW c \in Cars, StartSwap(r, c)
        PROVE  FleetIInv'
    BY <1>8, StartSwapKeeps
  <1>9. ASSUME NEW r \in Rentals, NEW d \in Desks,
               \/ LoadHandover(d, r) \/ LoadSwap(d, r)
               \/ \E back \in 1..(Horizon + ClockAhead) : LoadReturn(d, r, back)
        PROVE  FleetIInv'
    BY <1>9, LoadsKeep
  <1>10. ASSUME NEW d \in Desks, FinishHandover(d) \/ GiveUp(d)
         PROVE  FleetIInv'
    BY <1>10, FinishHandoverKeeps, GiveUpKeeps
  <1>11. ASSUME NEW d \in Desks, NEW after \in AfterReturn,
                FinishReturn(d, after) \/ FinishSwap(d, after)
         PROVE  FleetIInv'
    BY <1>11, FinishReturnKeeps, FinishSwapKeeps
  <1>12. ASSUME NEW c \in Cars,
                \/ \E s \in {"available"} \cup OffRoad : SetCarStatus(c, s)
                \/ CancelSale(c) \/ ArchiveCar(c) \/ RestoreCar(c)
         PROVE  FleetIInv'
    BY <1>12, CarPagesKeep
  <1> QED
    BY <1>1, <1>2, <1>3, <1>4, <1>5, <1>6, <1>7, <1>8, <1>9, <1>10, <1>11, <1>12 DEF FleetNext

\* The invariant holds always, whatever the number of cars, rentals and phones.
THEOREM FleetInvariance == FleetSpec => []FleetIInv
  BY InitFleetIInv, NextKeeps, PTL DEF FleetSpec

\* FleetTypeOK for every value of the constants.
THEOREM FleetTypes == FleetSpec => []FleetTypeOK
  <1>1. FleetIInv => FleetTypeOK
    BY DEF FleetIInv
  <1> QED
    BY <1>1, FleetInvariance, PTL

\* HoldsMatch for every value of the constants: holdCar, holdCarFromNow, moveHold and
\* releaseCarHolds keep each car back for the rental that has or booked it, and for no other.
THEOREM HoldsAlwaysMatch == FleetSpec => []HoldsMatch
  <1>1. FleetIInv => HoldsMatch
    BY DEF FleetIInv
  <1> QED
    BY <1>1, FleetInvariance, PTL

\* CarsTruth for every value of the constants: the word on a car's page is where the car is.
THEOREM CarsReadTrue == FleetSpec => []CarsTruth
  <1>1. FleetIInv => CarsTruth
    BY DEF FleetIInv
  <1> QED
    BY <1>1, FleetInvariance, PTL

\* OneHadIt for every value of the constants: at each moment one Renter had the car.
THEOREM OneAlwaysHadIt == FleetSpec => []OneHadIt
  <1>1. FleetIInv => OneHadIt
    BY DEF FleetIInv
  <1> QED
    BY <1>1, FleetInvariance, PTL

----------------------------------------------------------------------------
(* What was is kept.                                                       *)

\* Who had which car stays, but for an end it did not have; what is over stays over.
KeepsHistory ==
    /\ \A p \in possessions :
          \E o \in possessions' : [o EXCEPT !.to = p.to] = p /\ (p.to # Never => o = p)
    /\ \A r \in Rentals : rental[r].status \in {"returned", "cancelled"} => rental'[r] = rental[r]

\* The same possession is its own next one.
LEMMA SameIsKept ==
  ASSUME FleetTypeOK, NEW p \in possessions
  PROVE  [p EXCEPT !.to = p.to] = p
  <1>1. p \in Possession
    BY DEF FleetTypeOK, Possession
  <1> QED
    BY <1>1 DEF Possession

\* Ending the open possession of a rental changes nothing but its end.
LEMMA EndingKeeps ==
  ASSUME FleetTypeOK, NEW r \in Rentals, NEW at,
         EndPossession(r, at) \subseteq possessions'
  PROVE  \A p \in possessions :
            \E o \in possessions' : [o EXCEPT !.to = p.to] = p /\ (p.to # Never => o = p)
  <1> SUFFICES ASSUME NEW p \in possessions
               PROVE  \E o \in possessions' :
                         [o EXCEPT !.to = p.to] = p /\ (p.to # Never => o = p)
    OBVIOUS
  <1>1. CASE p \in Open(r)
    <2>1. [p EXCEPT !.to = at] \in possessions'
      BY <1>1 DEF EndPossession
    <2>2. p \in Possession /\ p.to = Never
      BY <1>1 DEF FleetTypeOK, Possession, Open
    <2>3. [[p EXCEPT !.to = at] EXCEPT !.to = p.to] = p
      BY <2>2 DEF Possession
    <2> QED
      BY <2>1, <2>2, <2>3
  <1>2. CASE p \notin Open(r)
    <2>1. p \in possessions'
      BY <1>2 DEF EndPossession
    <2> QED
      BY <2>1, SameIsKept
  <1> QED
    BY <1>1, <1>2

\* A step that is no return and no swap only adds possessions, and touches no rental that is over.
LEMMA OtherStepsKeepHistory ==
  ASSUME FleetTypeOK, possessions \subseteq possessions',
         \A r \in Rentals : rental[r].status \in {"returned", "cancelled"} => rental'[r] = rental[r]
  PROVE  KeepsHistory
  <1>1. \A p \in possessions : [p EXCEPT !.to = p.to] = p /\ p \in possessions'
    BY SameIsKept
  <1> QED
    BY <1>1 DEF KeepsHistory

LEMMA ReturnKeepsHistory ==
  ASSUME FleetIInv, NEW d \in Desks, NEW after \in AfterReturn,
         FinishReturn(d, after) \/ FinishSwap(d, after)
  PROVE  KeepsHistory
  <1>1. PICK r \in Rentals : r = desk[d].rental
    BY DEF FinishReturn, FinishSwap, FleetIInv, PhonesAgree
  <1>2. rental[r].status = "active"
    BY <1>1, ReturnFits, SwapFits DEF FinishReturn, FinishSwap
  <1>3. EndPossession(r, desk[d].at) \subseteq possessions'
    BY <1>1 DEF FinishReturn, FinishSwap, StartPossession
  <1>4. \A q \in Rentals : q # r => rental'[q] = rental[q]
    BY <1>1 DEF FinishReturn, FinishSwap, FleetIInv, FleetTypeOK
  <1>5. \A p \in possessions :
           \E o \in possessions' : [o EXCEPT !.to = p.to] = p /\ (p.to # Never => o = p)
    BY <1>3, EndingKeeps DEF FleetIInv
  <1> QED
    BY <1>2, <1>4, <1>5 DEF KeepsHistory

LEMMA NextKeepsHistory == FleetIInv /\ FleetNext => KeepsHistory
  <1> SUFFICES ASSUME FleetIInv, FleetNext
               PROVE  KeepsHistory
    OBVIOUS
  <1> USE DEF FleetIInv
  <1>0. rental \in [Rentals -> Rental]
    BY DEF FleetTypeOK, Rental
  <1>1. CASE possessions' = possessions /\ rental' = rental
    BY <1>1, OtherStepsKeepHistory
  <1>2. ASSUME NEW r \in Rentals, NEW c \in Cars, NEW p \in Plans,
               CreateDraft(r, c, p) \/ CreateBooking(r, c, p)
        PROVE  KeepsHistory
    BY <1>0, <1>2, OtherStepsKeepHistory DEF CreateDraft, CreateBooking
  <1>3. ASSUME NEW r \in Rentals, BookRental(r) \/ CancelRental(r)
        PROVE  KeepsHistory
    BY <1>0, <1>3, OtherStepsKeepHistory DEF BookRental, CancelRental
  <1>4. ASSUME NEW r \in Rentals, NEW end \in Ends, ChangeRentalEnd(r, end)
        PROVE  KeepsHistory
    BY <1>0, <1>4, OtherStepsKeepHistory DEF ChangeRentalEnd, IsUnderWay
  <1>5. ASSUME NEW d \in Desks, FinishHandover(d)
        PROVE  KeepsHistory
    <2>1. desk[d].rental \in Rentals
      BY <1>5 DEF FinishHandover, PhonesAgree
    <2> QED
      BY <1>0, <1>5, <2>1, OtherStepsKeepHistory DEF FinishHandover, StartPossession
  <1>6. ASSUME NEW d \in Desks, NEW after \in AfterReturn,
               FinishReturn(d, after) \/ FinishSwap(d, after)
        PROVE  KeepsHistory
    BY <1>6, ReturnKeepsHistory
  <1>7. \/ possessions' = possessions /\ rental' = rental
        \/ \E r \in Rentals :
              \/ \E c \in Cars, p \in Plans : CreateDraft(r, c, p) \/ CreateBooking(r, c, p)
              \/ BookRental(r) \/ CancelRental(r)
              \/ \E end \in Ends : ChangeRentalEnd(r, end)
        \/ \E d \in Desks :
              \/ FinishHandover(d)
              \/ \E after \in AfterReturn : FinishReturn(d, after) \/ FinishSwap(d, after)
    BY DEF FleetNext, Tick, StartChecklist, CancelChecklist, StartSwap, CancelSwap, LoadHandover,
       LoadReturn, LoadSwap, GiveUp, SetCarStatus, CancelSale, ArchiveCar, RestoreCar
  <1> QED
    BY <1>1, <1>2, <1>3, <1>4, <1>5, <1>6, <1>7

\* HistoryKept for every value of the constants: whoever finishes, cancels or corrects
\* whatever, who had which car is not rewritten, and what is over is not begun again.
THEOREM HistoryIsKept == FleetSpec => HistoryKept
  <1>1. FleetIInv /\ [FleetNext]_fleetVars
          => [/\ \A p \in possessions :
                    \E o \in possessions' : /\ [o EXCEPT !.to = p.to] = p
                                            /\ p.to # Never => o = p
              /\ \A r \in Rentals :
                    rental[r].status \in {"returned", "cancelled"} => rental'[r] = rental[r]
             ]_<<possessions, rental>>
    BY NextKeepsHistory DEF KeepsHistory, fleetVars
  <1> QED
    BY <1>1, FleetInvariance, PTL DEF FleetSpec, HistoryKept

----------------------------------------------------------------------------
(* The keys: Fleet implements CarKeys.                                     *)

\* Each rental that is out has the key of its car.
KeysOf == [r \in Rentals |-> IF rental[r].status = "active" THEN rental[r].car ELSE NoCar]
Done == {r \in Rentals : rental[r].status = "returned"}

KeysAgree == KeysNow = KeysOf

LEMMA KeysAre == FleetIInv => KeysAgree
  <1> SUFFICES ASSUME FleetIInv
               PROVE  KeysNow = KeysOf
    BY DEF KeysAgree
  <1> DEFINE out == {p \in possessions : p.to = Never}
             KeyOf(r) == IF \E p \in out : p.rental = r
                         THEN (CHOOSE p \in out : p.rental = r).car ELSE NoCar
  <1>1. ASSUME NEW r \in Rentals
        PROVE  KeyOf(r) = IF rental[r].status = "active" THEN rental[r].car ELSE NoCar
    <2>1. Open(r) = {p \in out : p.rental = r}
      BY DEF Open
    <2>2. CASE rental[r].status = "active"
      <3>1. PICK p \in possessions : Open(r) = {p} /\ p.car = rental[r].car
        BY <2>2 DEF FleetIInv, CarsTruth
      <3>2. p \in out /\ p.rental = r
        BY <2>1, <3>1
      <3>3. (CHOOSE o \in out : o.rental = r) \in Open(r)
        BY <2>1, <3>2
      <3> QED
        BY <2>2, <3>1, <3>2, <3>3
    <2>3. CASE rental[r].status # "active"
      BY <2>1, <2>3 DEF FleetIInv, CarsTruth
    <2> QED
      BY <2>2, <2>3
  <1> QED
    BY <1>1 DEF KeysNow, KeysOf

\* A car whose last possession ended is with nobody.
LEMMA LeftIsFree ==
  ASSUME FleetIInv, KeysNow = KeysOf, NEW c \in Cars,
         \A r \in Rentals : \A p \in Open(r) : p.car # c
  PROVE  Keys!Free(c)
  BY FleetAssumption DEF FleetIInv, CarsTruth, KeysOf, Keys!Free

LEMMA HandoverIsHandOver ==
  ASSUME FleetIInv, KeysNow = KeysOf, KeysNow' = KeysOf', NEW d \in Desks, FinishHandover(d)
  PROVE  Keys!Next
  <1>1. desk[d].rental \in Rentals /\ desk[d].at \in Times
    BY DEF FinishHandover, FleetIInv, PhonesAgree
  <1>2. PICK r \in Rentals : r = desk[d].rental
    BY <1>1
  <1>3. PICK c \in Cars : c = rental[r].car /\ rental[r].status = "booked"
    BY <1>2 DEF FinishHandover, FleetIInv, StagesAgree
  <1>4. rental' = [rental EXCEPT ![r].status = "active"] /\ IsCarLeft(possessions, c, desk[d].at)
    BY <1>2, <1>3 DEF FinishHandover
  <1>5. \A q \in Rentals : \A p \in Open(q) : p.car # c
    BY <1>1, <1>4, Moments DEF IsCarLeft, Open
  <1>6. Keys!Free(c)
    BY <1>5, LeftIsFree
  <1>7. rental \in [Rentals -> Rental]
    BY DEF FleetIInv, FleetTypeOK, Rental
  <1>8. /\ KeysNow[r] = NoCar /\ r \notin Done /\ KeysNow' = [KeysNow EXCEPT ![r] = c] /\ Done' = Done
    BY <1>3, <1>4, <1>7 DEF KeysOf, Done, Rental
  <1>9. Keys!HandOver(r, c)
    BY <1>6, <1>8 DEF Keys!HandOver, Done
  <1> QED
    BY <1>9 DEF Keys!Next

LEMMA SwapIsSwap ==
  ASSUME FleetIInv, KeysNow = KeysOf, KeysNow' = KeysOf', NEW d \in Desks,
         NEW after \in AfterReturn, FinishSwap(d, after)
  PROVE  Keys!Next
  <1>1. PICK r \in Rentals : r = desk[d].rental
    BY DEF FinishSwap, FleetIInv, PhonesAgree
  <1>2. /\ rental[r].status = "active" /\ swap[r] \in Cars /\ swap[r] # rental[r].car
        /\ desk[d].at \in Times /\ \E p \in possessions : Open(r) = {p} /\ p.car = rental[r].car
    BY <1>1, SwapFits DEF FinishSwap
  <1>3. PICK c \in Cars : c = swap[r]
    BY <1>2
  <1>4. PICK p \in possessions : Open(r) = {p} /\ p.car = rental[r].car
    BY <1>2
  <1>5. /\ rental' = [rental EXCEPT ![r].car = c]
        /\ IsCarLeft(EndPossession(r, desk[d].at), c, desk[d].at)
    BY <1>1, <1>3 DEF FinishSwap
  <1>6. \A q \in Rentals : \A o \in Open(q) : o.car # c
    <2> SUFFICES ASSUME NEW q \in Rentals, NEW o \in Open(q), o.car = c
                 PROVE  FALSE
      OBVIOUS
    <2>1. o \in possessions /\ o.to = Never /\ o \notin Open(r)
      BY <1>2, <1>3, <1>4 DEF Open
    <2>2. o \in EndPossession(r, desk[d].at)
      BY <2>1 DEF EndPossession
    <2>3. Never <= desk[d].at
      BY <1>5, <2>1, <2>2 DEF IsCarLeft
    <2> QED
      BY <1>2, <2>3, Moments
  <1>7. Keys!Free(c)
    BY <1>6, LeftIsFree
  <1>8. rental \in [Rentals -> Rental]
    BY DEF FleetIInv, FleetTypeOK, Rental
  <1>9. rental[r].car \in Cars
    BY <1>2 DEF FleetIInv, StagesAgree
  <1>10. /\ KeysNow[r] # NoCar /\ KeysNow' = [KeysNow EXCEPT ![r] = c] /\ Done' = Done
    BY <1>2, <1>5, <1>8, <1>9, FleetAssumption DEF KeysOf, Done, Rental
  <1>11. Keys!Swap(r, c)
    BY <1>7, <1>10 DEF Keys!Swap, Done
  <1> QED
    BY <1>11 DEF Keys!Next

LEMMA ReturnIsGiveBack ==
  ASSUME FleetIInv, KeysNow = KeysOf, KeysNow' = KeysOf', NEW d \in Desks,
         NEW after \in AfterReturn, FinishReturn(d, after)
  PROVE  Keys!Next
  <1>1. PICK r \in Rentals : r = desk[d].rental
    BY DEF FinishReturn, FleetIInv, PhonesAgree
  <1>2. rental[r].status = "active"
    BY <1>1, ReturnFits DEF FinishReturn
  <1>3. rental' = [rental EXCEPT ![r].status = "returned"]
    BY <1>1 DEF FinishReturn
  <1>4. rental \in [Rentals -> Rental] /\ rental[r].car \in Cars
    BY <1>2 DEF FleetIInv, FleetTypeOK, Rental, StagesAgree
  <1>5. KeysNow[r] # NoCar /\ KeysNow' = [KeysNow EXCEPT ![r] = NoCar] /\ Done' = Done \cup {r}
    BY <1>2, <1>3, <1>4, FleetAssumption DEF KeysOf, Done, Rental
  <1>6. Keys!GiveBack(r)
    BY <1>5 DEF Keys!GiveBack, Done
  <1> QED
    BY <1>6 DEF Keys!Next

\* The steps on bookings and checklists move no key.
LEMMA OthersMoveNoKey ==
  ASSUME KeysNow = KeysOf, KeysNow' = KeysOf', NEW r \in Rentals,
         \A q \in Rentals : q # r => rental'[q] = rental[q],
         rental'[r].status = "active" <=> rental[r].status = "active",
         rental[r].status = "active" => rental'[r].car = rental[r].car,
         rental'[r].status = "returned" <=> rental[r].status = "returned"
  PROVE  UNCHANGED <<KeysNow, Done>>
  <1>1. \A q \in Rentals : /\ rental'[q].status = "active" <=> rental[q].status = "active"
                           /\ rental[q].status = "active" => rental'[q].car = rental[q].car
                           /\ rental'[q].status = "returned" <=> rental[q].status = "returned"
    OBVIOUS
  <1> QED
    BY <1>1 DEF KeysOf, Done

LEMMA NextKeepsKeys ==
  ASSUME FleetIInv, [FleetNext]_fleetVars, KeysNow = KeysOf, KeysNow' = KeysOf'
  PROVE  Keys!Next \/ UNCHANGED <<KeysNow, Done>>
  <1>0. rental \in [Rentals -> Rental]
    BY DEF FleetIInv, FleetTypeOK, Rental
  <1>1. CASE rental' = rental
    BY <1>1 DEF KeysOf, Done
  <1>2. ASSUME NEW r \in Rentals, NEW c \in Cars, NEW p \in Plans,
               CreateDraft(r, c, p) \/ CreateBooking(r, c, p)
        PROVE  UNCHANGED <<KeysNow, Done>>
    BY <1>0, <1>2, OthersMoveNoKey DEF CreateDraft, CreateBooking
  <1>3. ASSUME NEW r \in Rentals, BookRental(r) \/ CancelRental(r)
        PROVE  UNCHANGED <<KeysNow, Done>>
    BY <1>0, <1>3, OthersMoveNoKey DEF BookRental, CancelRental, Rental
  <1>4. ASSUME NEW r \in Rentals, NEW end \in Ends, ChangeRentalEnd(r, end)
        PROVE  UNCHANGED <<KeysNow, Done>>
    BY <1>0, <1>4, OthersMoveNoKey DEF ChangeRentalEnd, Rental
  <1>5. \/ rental' = rental
        \/ \E r \in Rentals :
              \/ \E c \in Cars, p \in Plans : CreateDraft(r, c, p) \/ CreateBooking(r, c, p)
              \/ BookRental(r) \/ CancelRental(r)
              \/ \E end \in Ends : ChangeRentalEnd(r, end)
        \/ \E d \in Desks :
              \/ FinishHandover(d)
              \/ \E after \in AfterReturn : FinishReturn(d, after) \/ FinishSwap(d, after)
    BY DEF FleetNext, fleetVars, Tick, StartChecklist, CancelChecklist, StartSwap, CancelSwap,
       LoadHandover, LoadReturn, LoadSwap, GiveUp, SetCarStatus, CancelSale, ArchiveCar, RestoreCar
  <1> QED
    BY <1>1, <1>2, <1>3, <1>4, <1>5, HandoverIsHandOver, SwapIsSwap, ReturnIsGiveBack

LEMMA InitIsKeysInit == FleetInit => Keys!Init
  <1> SUFFICES ASSUME FleetInit
               PROVE  Keys!Init
    OBVIOUS
  <1>1. \A r \in Rentals : rental[r].status = "none"
    BY DEF FleetInit, Unbooked
  <1>2. KeysNow = [r \in Rentals |-> NoCar]
    BY DEF FleetInit, KeysNow
  <1> QED
    BY <1>1, <1>2 DEF Keys!Init

\* ImplementsCarKeys for every value of the constants: a rental gets a first car once, a car
\* is with one rental at a time, and one that came back gets none again.
THEOREM FleetImplementsCarKeys == FleetSpec => ImplementsCarKeys
  <1>1. FleetIInv => KeysAgree
    BY KeysAre
  <1>2. FleetIInv' => KeysAgree'
    BY <1>1, PTL
  <1>3. FleetIInv /\ FleetIInv' /\ [FleetNext]_fleetVars
          => [Keys!Next]_<<KeysNow, {r \in Rentals : rental[r].status = "returned"}>>
    BY <1>1, <1>2, NextKeepsKeys DEF Done, KeysAgree
  <1>4. FleetInit => Keys!Init
    BY InitIsKeysInit
  <1> QED
    BY <1>3, <1>4, FleetInvariance, PTL DEF FleetSpec, ImplementsCarKeys, Keys!Spec
=============================================================================
