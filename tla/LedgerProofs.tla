---------------------------- MODULE LedgerProofs ----------------------------
(***************************************************************************)
(* Proofs about MoneyTakenBack and Rent: what Stripe takes back of a bond  *)
(* and what a run charges of a rental's blocks.                            *)
(* Of money taken back, for any number of handlers, refunds and disputes:  *)
(* a reading of Stripe is true and no older than its news (ReadingIsTrue), *)
(* so whatever it adds to the books happened.                              *)
(* Of rent, for any lengths, prices, bookings and runs: lines are kept by  *)
(* period, each period's rent before its corrections (LinesAreOfPeriods),  *)
(* so a period nobody changed by hand has its rent charged or no line at   *)
(* all. A run then brings it to the sum of its blocks up to the last one   *)
(* used (RunBringsPeriod); the periods that have begun split the blocks    *)
(* that cost anything into disjoint stretches (OwedWith, OwedArePayable),  *)
(* so over all periods it brings the rental to the sum of those blocks     *)
(* (RunBringsAll).                                                         *)
(***************************************************************************)
EXTENDS MoneyTakenBack, Rent, Sums, SequenceTheorems, TLAPS

(* Money taken back. *)

\* Nothing is taken, told or booked at the start.
LEMMA InitIInv == Init => IInv
  <1> SUFFICES ASSUME Init
               PROVE  IInv
    OBVIOUS
  <1>0. crashes \in 0 .. MaxCrashes
    BY CrashBound DEF Init
  <1>1. TypeOK
    BY <1>0 DEF Init, TypeOK, Statuses
  <1>2. NewsIsTrue /\ ReadingsAreTrue
    BY DEF Init, NewsIsTrue, ReadingsAreTrue, Objects
  <1>3. EntriesAreTrue
    BY DEF Init, EntriesAreTrue, EntryKinds
  <1> QED
    BY <1>1, <1>2, <1>3 DEF IInv

\* Applying a true reading of an event (applyMoneyTakenBack) keeps the books true, and
\* books the event if its payment is found.
LEMMA ApplyKeepsBooks ==
  ASSUME IInv, NEW e \in sent, NEW status \in Statuses, ReadingIsTrue(e, status),
         ApplyMoneyTakenBack(e.object, status), UNCHANGED <<truth, payment>>
  PROVE  /\ entries' \in [Objects -> [EntryKinds -> {0, 1}]]
         /\ EntriesAreTrue'
         /\ PaymentFound(e.object) => Booked(e)'
  <1> DEFINE o == e.object
  <1>1. /\ e \in Events /\ o \in Objects
        /\ e.type \in {"created", "updated", "failed"} => o \in Refunds
        /\ e.type \in {"withdrawn", "reinstated"} => o \in Disputes
        /\ e.type \in {"created", "updated", "failed", "withdrawn", "reinstated"}
    BY DEF IInv, TypeOK, Events, Objects
  <1>2. truth[o] # "none"
    BY DEF IInv, NewsIsTrue
  <1>3. CASE ~PaymentFound(o)
    BY <1>3 DEF ApplyMoneyTakenBack, IInv, TypeOK, EntriesAreTrue
  <1>4. ASSUME PaymentFound(o), NEW kind \in EntryKinds, AddEntryOnce(o, kind)
        PROVE  /\ entries' \in [Objects -> [EntryKinds -> {0, 1}]]
               /\ \A p \in Objects, k \in EntryKinds :
                     entries'[p][k] = IF p = o /\ k = kind THEN 1 ELSE entries[p][k]
    BY <1>1, <1>4 DEF AddEntryOnce, IInv, TypeOK
  <1>5. CASE PaymentFound(o) /\ status = "taken"
    <2>1. AddEntryOnce(o, "refunded")
      BY <1>5 DEF ApplyMoneyTakenBack
    <2>2. EntriesAreTrue'
      BY <1>1, <1>2, <1>4, <1>5, <2>1 DEF IInv, TypeOK, EntriesAreTrue, EntryKinds, PaymentFound
    <2>3. Booked(e)'
      BY <1>1, <1>4, <1>5, <2>1 DEF Booked, ReadingIsTrue, EntryKinds
    <2> QED
      BY <1>4, <1>5, <2>1, <2>2, <2>3 DEF EntryKinds
  <1>6. CASE PaymentFound(o) /\ status = "returned"
    <2>1. AddEntryOnce(o, "received")
      BY <1>6 DEF ApplyMoneyTakenBack
    <2>2. e.type = "reinstated"
      BY <1>1, <1>6 DEF ReadingIsTrue
    <2>3. truth[o] = "returned"
      BY <1>6 DEF ReadingIsTrue
    <2>4. EntriesAreTrue'
      BY <1>1, <1>4, <1>6, <2>1, <2>2, <2>3
         DEF IInv, TypeOK, EntriesAreTrue, EntryKinds, PaymentFound
    <2>5. Booked(e)'
      BY <1>1, <1>4, <1>6, <2>1, <2>2 DEF Booked, EntryKinds
    <2> QED
      BY <1>4, <1>6, <2>1, <2>4, <2>5 DEF EntryKinds
  <1>7. CASE PaymentFound(o) /\ status = "failed"
    <2>1. UndoFailedRefund(o) /\ truth[o] = "failed"
      BY <1>7 DEF ApplyMoneyTakenBack, ReadingIsTrue
    <2>2. e.type \in {"created", "updated", "failed"}
      BY <1>1, <1>7 DEF ReadingIsTrue
    <2>3. CASE entries[o]["refunded"] > 0
      <3>1. AddEntryOnce(o, "reversal")
        BY <2>1, <2>3 DEF UndoFailedRefund
      <3>2. entries[o]["refunded"] = 1
        BY <1>1, <2>3 DEF IInv, TypeOK, EntryKinds
      <3>3. EntriesAreTrue'
        BY <1>1, <1>4, <1>7, <2>1, <3>1, <3>2 DEF IInv, TypeOK, EntriesAreTrue, EntryKinds
      <3>4. Booked(e)'
        BY <1>1, <1>4, <1>7, <2>1, <2>2, <3>1, <3>2 DEF Booked, EntryKinds
      <3> QED
        BY <1>4, <1>7, <3>1, <3>3, <3>4 DEF EntryKinds
    <2>4. CASE ~(entries[o]["refunded"] > 0)
      <3>1. UNCHANGED entries
        BY <2>1, <2>4 DEF UndoFailedRefund
      <3>2. entries[o]["refunded"] = 0 /\ entries[o]["reversal"] = 0
        BY <1>1, <2>4 DEF IInv, TypeOK, EntriesAreTrue, EntryKinds
      <3> QED
        BY <1>1, <2>1, <2>2, <3>1, <3>2 DEF IInv, TypeOK, EntriesAreTrue, Booked
    <2> QED
      BY <2>3, <2>4
  <1> QED
    BY <1>3, <1>5, <1>6, <1>7 DEF Statuses

\* Stripe, the bank and the clock: what was true of a reading or the books stays so.
LEMMA StripeKeeps ==
  ASSUME IInv,
         \/ \E o \in Objects : Take(o) \/ GiveBack(o)
         \/ \E e \in Events : NewsAges(e)
         \/ PaymentClears \/ AccessEnds \/ RecordPayment \/ MarkDisconnected
  PROVE  IInv'
  <1>1. ASSUME NEW o \in Objects, Take(o)
        PROVE  IInv'
    <2>1. TypeOK'
      BY <1>1 DEF IInv, TypeOK, Take, dbVars, procVars, Statuses, Events, Objects
    <2>2. NewsIsTrue'
      BY <1>1, KindsApart DEF IInv, TypeOK, NewsIsTrue, Take, Events, Objects
    <2>3. ReadingsAreTrue'
      <3> SUFFICES ASSUME NEW h \in Handlers
                   PROVE  /\ pc[h] # "idle" => event[h] \in sent'
                          /\ pc[h] = "apply" => ReadingIsTrue(event[h], seen[h])'
        BY <1>1 DEF ReadingsAreTrue, Take, procVars
      <3>1. pc[h] # "idle" => event[h] \in sent /\ event[h].object \in Objects
        BY DEF IInv, TypeOK, ReadingsAreTrue, Events, Objects
      <3>2. pc[h] = "apply" => /\ ReadingIsTrue(event[h], seen[h])
                               /\ seen[h] \in Statuses /\ truth[event[h].object] # "none"
        BY DEF IInv, TypeOK, ReadingsAreTrue, NewsIsTrue
      <3> QED
        BY <1>1, <3>1, <3>2 DEF IInv, TypeOK, ReadingIsTrue, Take, procVars, Statuses
    <2>4. EntriesAreTrue'
      BY <1>1 DEF IInv, TypeOK, EntriesAreTrue, Take, dbVars, Objects
    <2> QED
      BY <2>1, <2>2, <2>3, <2>4 DEF IInv
  <1>2. ASSUME NEW o \in Objects, GiveBack(o)
        PROVE  IInv'
    <2>1. TypeOK'
      BY <1>2 DEF IInv, TypeOK, GiveBack, dbVars, procVars, Statuses, Objects
    <2>2. NewsIsTrue'
      BY <1>2, KindsApart DEF IInv, TypeOK, NewsIsTrue, GiveBack, Events, Objects
    <2>3. ReadingsAreTrue'
      <3> SUFFICES ASSUME NEW h \in Handlers
                   PROVE  /\ pc[h] # "idle" => event[h] \in sent'
                          /\ pc[h] = "apply" => ReadingIsTrue(event[h], seen[h])'
        BY <1>2 DEF ReadingsAreTrue, GiveBack, procVars
      <3>1. pc[h] # "idle" => event[h] \in sent /\ event[h].object \in Objects
        BY DEF IInv, TypeOK, ReadingsAreTrue, Events, Objects
      <3>2. pc[h] = "apply" => /\ ReadingIsTrue(event[h], seen[h])
                               /\ seen[h] \in Statuses /\ truth[event[h].object] # "none"
        BY DEF IInv, TypeOK, ReadingsAreTrue, NewsIsTrue
      <3> QED
        BY <1>2, <3>1, <3>2 DEF IInv, TypeOK, ReadingIsTrue, GiveBack, procVars, Statuses
    <2>4. EntriesAreTrue'
      BY <1>2 DEF IInv, TypeOK, EntriesAreTrue, GiveBack, dbVars, Objects
    <2> QED
      BY <2>1, <2>2, <2>3, <2>4 DEF IInv
  <1>3. CASE \/ \E e \in Events : NewsAges(e)
             \/ PaymentClears \/ AccessEnds \/ RecordPayment \/ MarkDisconnected
    <2>1. UNCHANGED <<truth, sent, entries, handled, pc, event, seen, answered, crashes>>
      BY <1>3 DEF NewsAges, PaymentClears, AccessEnds, RecordPayment, MarkDisconnected,
                  stripeVars, dbVars, procVars
    <2>2. /\ late' \subseteq sent
          /\ access' \in BOOLEAN /\ paid' \in BOOLEAN /\ connected' \in BOOLEAN
          /\ payment' \in {"none", "pending", "succeeded"}
      BY <1>3 DEF NewsAges, PaymentClears, AccessEnds, RecordPayment, MarkDisconnected,
                  stripeVars, dbVars, IInv, TypeOK
    <2>3. TypeOK'
      BY <2>1, <2>2 DEF IInv, TypeOK
    <2>4. NewsIsTrue' /\ EntriesAreTrue'
      BY <2>1 DEF IInv, NewsIsTrue, EntriesAreTrue
    <2>5. ReadingsAreTrue'
      BY <2>1 DEF IInv, ReadingsAreTrue, ReadingIsTrue
    <2> QED
      BY <2>3, <2>4, <2>5 DEF IInv
  <1> QED
    BY <1>1, <1>2, <1>3

\* The steps of handlePaymentEvent up to its transaction.
LEMMA HandlerKeeps ==
  ASSUME IInv, NEW h \in Handlers,
         (\E e \in Events : Deliver(h, e)) \/ ReadEventDetails(h) \/ HandlingFails(h)
  PROVE  IInv'
  <1>1. ASSUME NEW e \in Events, Deliver(h, e)
        PROVE  IInv'
    <2>1. TypeOK'
      BY <1>1 DEF Deliver, stripeVars, dbVars, IInv, TypeOK
    <2>2. ReadingsAreTrue'
      BY <1>1 DEF Deliver, stripeVars, IInv, TypeOK, ReadingsAreTrue, ReadingIsTrue
    <2>3. NewsIsTrue' /\ EntriesAreTrue'
      BY <1>1 DEF Deliver, stripeVars, dbVars, IInv, NewsIsTrue, EntriesAreTrue
    <2> QED
      BY <2>1, <2>2, <2>3 DEF IInv
  <1>2. CASE HandlingFails(h)
    <2>1. TypeOK'
      BY <1>2, CrashBound DEF HandlingFails, Crash, Finish, stripeVars, dbVars, IInv, TypeOK, Statuses
    <2>2. ReadingsAreTrue'
      BY <1>2 DEF HandlingFails, Finish, stripeVars, IInv, TypeOK, ReadingsAreTrue,
                  ReadingIsTrue
    <2>3. NewsIsTrue' /\ EntriesAreTrue'
      BY <1>2 DEF HandlingFails, stripeVars, dbVars, IInv, NewsIsTrue, EntriesAreTrue
    <2> QED
      BY <2>1, <2>2, <2>3 DEF IInv
  <1>3. CASE ReadEventDetails(h)
    <2>1. /\ event[h] \in sent /\ event[h] \in Events /\ event[h].object \in Objects
          /\ truth[event[h].object] \in Statuses
          /\ event[h].type \in {"created", "updated", "failed"} => event[h].object \in Refunds
          /\ event[h].type \in {"created", "updated", "failed", "withdrawn", "reinstated"}
      BY <1>3 DEF ReadEventDetails, IInv, TypeOK, ReadingsAreTrue, NewsIsTrue, Events, Objects
    <2>2. /\ seen' \in [Handlers -> Statuses]
          /\ ReadingIsTrue(event[h], seen'[h])
          /\ \A i \in Handlers : i # h => seen'[i] = seen[i]
      BY <1>3, <2>1 DEF ReadEventDetails, IInv, TypeOK, NewsIsTrue, ReadingIsTrue, Statuses
    <2>3. TypeOK' /\ NewsIsTrue' /\ EntriesAreTrue'
      BY <1>3, <2>2 DEF ReadEventDetails, stripeVars, dbVars, IInv, TypeOK, NewsIsTrue,
                        EntriesAreTrue
    <2>4. ReadingsAreTrue'
      BY <1>3, <2>1, <2>2 DEF ReadEventDetails, stripeVars, IInv, TypeOK, ReadingsAreTrue,
                              ReadingIsTrue
    <2> QED
      BY <2>3, <2>4 DEF IInv
  <1> QED
    BY <1>1, <1>2, <1>3

\* Its transaction.
LEMMA HandleEventKeeps ==
  ASSUME IInv, NEW h \in Handlers, HandleEvent(h)
  PROVE  /\ IInv'
         /\ \A e \in handled' \ handled : PaymentFound(e.object) => Booked(e)'
  <1> DEFINE leaves == \/ AwaitingOwnRecord(event[h])
                       \/ event[h] \notin handled /\ EntryRefused(event[h].object, seen[h])
  <1>1. event[h] \in sent /\ seen[h] \in Statuses /\ ReadingIsTrue(event[h], seen[h])
    BY DEF HandleEvent, IInv, TypeOK, ReadingsAreTrue
  <1>2. /\ entries' \in [Objects -> [EntryKinds -> {0, 1}]]
        /\ EntriesAreTrue'
        /\ \A e \in handled' \ handled : PaymentFound(e.object) => Booked(e)'
    <2>1. CASE UNCHANGED entries /\ handled' \subseteq handled \cup handled
      BY <2>1 DEF HandleEvent, stripeVars, IInv, TypeOK, EntriesAreTrue
    <2>2. CASE event[h] \in handled
      BY <2>1, <2>2 DEF HandleEvent
    <2>3. CASE leaves
      BY <2>1, <2>3 DEF HandleEvent
    <2>4. CASE event[h] \notin handled /\ ~leaves
      BY <1>1, <2>4, ApplyKeepsBooks DEF HandleEvent, stripeVars
    <2> QED
      BY <2>2, <2>3, <2>4
  <1>3. /\ answered' \subseteq sent /\ handled' \subseteq sent
        /\ crashes' \in 0 .. MaxCrashes
    BY <1>1, CrashBound DEF HandleEvent, Crash, IInv, TypeOK
  <1>4. TypeOK'
    BY <1>2, <1>3 DEF HandleEvent, Finish, stripeVars, IInv, TypeOK, Statuses
  <1>5. NewsIsTrue' /\ ReadingsAreTrue'
    BY DEF HandleEvent, Finish, stripeVars, IInv, TypeOK, NewsIsTrue, ReadingsAreTrue,
           ReadingIsTrue
  <1> QED
    BY <1>2, <1>4, <1>5 DEF IInv

\* Every step keeps the invariant.
LEMMA NextKeeps == IInv /\ [Next]_vars => IInv'
  <1>1. ASSUME IInv, UNCHANGED vars
        PROVE  IInv'
    BY <1>1 DEF vars, IInv, TypeOK, NewsIsTrue, ReadingsAreTrue, ReadingIsTrue, EntriesAreTrue
  <1> QED
    BY <1>1, StripeKeeps, HandlerKeeps, HandleEventKeeps DEF Next

\* The invariant holds always, whatever the number of handlers, refunds and disputes.
THEOREM Invariance == Spec => []IInv
  BY InitIInv, NextKeeps, PTL DEF Spec

\* EntriesAreTrue for every value of the constants: applyMoneyTakenBack books nothing that
\* did not happen, and never cancels out a refund that was not booked.
THEOREM BooksAreTrue == Spec => []EntriesAreTrue
  <1>1. IInv => EntriesAreTrue
    BY DEF IInv
  <1> QED
    BY <1>1, Invariance, PTL

\* NewsIsBooked, as the action property: news of ours is in the books in the same step that
\* handlePaymentEvent marks it handled.
THEOREM NewsBookedOnce == Spec => NewsIsBooked
  <1>1. ASSUME IInv, Next
        PROVE  \A e \in handled' \ handled : PaymentFound(e.object) => Booked(e)'
    <2>1. ASSUME NEW h \in Handlers, HandleEvent(h)
          PROVE  \A e \in handled' \ handled : PaymentFound(e.object) => Booked(e)'
      BY <1>1, <2>1, HandleEventKeeps
    <2>2. CASE UNCHANGED handled
      BY <2>2
    <2> QED
      BY <1>1, <2>1, <2>2 DEF Next, Take, GiveBack, NewsAges, PaymentClears, AccessEnds,
         RecordPayment, MarkDisconnected, Deliver, ReadEventDetails, HandlingFails, dbVars
  <1>2. IInv /\ [Next]_vars
          => [\A e \in handled' \ handled : PaymentFound(e.object) => Booked(e)']_vars
    BY <1>1
  <1> QED
    BY <1>2, Invariance, PTL DEF Spec, NewsIsBooked

-----------------------------------------------------------------------------
(* Rent. *)

\* Division, as the code's whole numbers do it.
LEMMA Dividing ==
  ASSUME NEW n \in Nat, NEW d \in Nat \ {0}
  PROVE  /\ n \div d \in Nat /\ n % d \in 0 .. (d - 1)
         /\ n = d * (n \div d) + (n % d)
  OBVIOUS

\* What is between two multiples of d has one quotient.
LEMMA OneQuotient ==
  ASSUME NEW n \in Nat, NEW d \in Nat \ {0}, NEW q \in Nat, d * q <= n, n < d * (q + 1)
  PROVE  n \div d = q
  <1>1. PICK p \in Nat, r \in 0 .. (d - 1) : p = n \div d /\ n = d * p + r
    BY Dividing
  <1>2. ~(p < q)
    <2>1. ASSUME p < q PROVE FALSE
      <3>1. p + 1 <= q
        BY <2>1
      <3>2. d * (p + 1) <= d * q
        BY <3>1
      <3>3. d * (p + 1) = d * p + d
        OBVIOUS
      <3> QED
        BY <1>1, <3>2, <3>3
    <2> QED
      BY <2>1
  <1>3. ~(q < p)
    <2>1. ASSUME q < p PROVE FALSE
      <3>1. q + 1 <= p
        BY <2>1
      <3>2. d * (q + 1) <= d * p
        BY <3>1
      <3> QED
        BY <1>1, <3>2
    <2> QED
      BY <2>1
  <1> QED
    BY <1>1, <1>2, <1>3

\* A later moment is in no earlier block.
LEMMA QuotientGrows ==
  ASSUME NEW m \in Nat, NEW n \in Nat, m <= n, NEW d \in Nat \ {0}
  PROVE  m \div d <= n \div d
  <1>1. PICK p \in Nat, r \in 0 .. (d - 1) : p = m \div d /\ m = d * p + r
    BY Dividing
  <1>2. PICK q \in Nat, s \in 0 .. (d - 1) : q = n \div d /\ n = d * q + s
    BY Dividing
  <1>3. ASSUME q < p PROVE FALSE
    <2>1. q + 1 <= p
      BY <1>3
    <2>2. d * (q + 1) <= d * p
      BY <2>1
    <2>3. d * (q + 1) = d * q + d
      OBVIOUS
    <2> QED
      BY <1>1, <1>2, <2>2, <2>3
  <1> QED
    BY <1>1, <1>2, <1>3

-----------------------------------------------------------------------------
(* Periods.                                                                *)

LEMMA BookedIsNat == booked \in Bookings => booked \in Nat
  BY RentAssumption DEF Ongoing

\* The week of a block, in a long-term rental.
LEMMA Weeks ==
  ASSUME IsLongTerm, NEW b \in Nat
  PROVE  /\ PeriodOfBlock(b) = [first |-> DaysPerWeek * (b \div DaysPerWeek),
                                end |-> DaysPerWeek * (b \div DaysPerWeek) + DaysPerWeek]
         /\ b \div DaysPerWeek \in Nat
  <1>1. b - (b % DaysPerWeek) = DaysPerWeek * (b \div DaysPerWeek) /\ b \div DaysPerWeek \in Nat
    BY RentAssumption, Dividing
  <1> QED
    BY <1>1 DEF PeriodOfBlock

\* Periods hold the block asked about, and are the same for each of their blocks.
LEMMA Periods ==
  ASSUME booked \in Nat, NEW b \in Nat
  PROVE  \E f, e \in Nat :
            /\ PeriodOfBlock(b) = [first |-> f, end |-> e]
            /\ f <= b /\ b < e
            /\ \A x \in f .. (e - 1) : PeriodOfBlock(x) = PeriodOfBlock(b)
            /\ IsLongTerm => f % DaysPerWeek = 0
  <1>1. CASE IsLongTerm
    <2>1. PICK q \in Nat : q = b \div DaysPerWeek
      BY RentAssumption, Dividing
    <2>2. PICK f, e \in Nat : f = DaysPerWeek * q /\ e = f + DaysPerWeek
      BY RentAssumption
    <2>3. PeriodOfBlock(b) = [first |-> f, end |-> e]
      BY <1>1, <2>1, <2>2, Weeks
    <2>4. f <= b /\ b < e
      BY <2>1, <2>2, RentAssumption, Dividing
    <2>5. ASSUME NEW x \in Nat, f <= x, x < e
          PROVE  x \div DaysPerWeek = q
      <3>1. DaysPerWeek * (q + 1) = e
        BY <2>2, RentAssumption
      <3> QED
        BY <2>2, <2>5, <3>1, RentAssumption, OneQuotient
    <2>6. \A x \in f .. (e - 1) : PeriodOfBlock(x) = PeriodOfBlock(b)
      <3>1. ASSUME NEW x \in f .. (e - 1) PROVE PeriodOfBlock(x) = PeriodOfBlock(b)
        <4>1. x \in Nat /\ f <= x /\ x < e
          OBVIOUS
        <4>2. x \div DaysPerWeek = q
          BY <2>5, <4>1
        <4> QED
          BY <1>1, <2>1, <4>1, <4>2, Weeks
      <3> QED
        BY <3>1
    <2>7. f % DaysPerWeek = 0
      <3>1. f < e
        BY <2>2, RentAssumption
      <3>2. f \div DaysPerWeek = q
        BY <2>5, <3>1
      <3> QED
        BY <2>2, <3>2, RentAssumption, Dividing
    <2> QED
      BY <2>3, <2>4, <2>6, <2>7
  <1>2. CASE ~IsLongTerm
    <2>1. PICK u \in Nat : u = Larger(1, booked) /\ u >= 1
      BY DEF Larger
    <2>2. \A x \in Nat : PeriodOfBlock(x) = IF x < u THEN [first |-> 0, end |-> u]
                                           ELSE [first |-> x, end |-> x + 1]
      BY <1>2, <2>1 DEF PeriodOfBlock
    <2>3. CASE b < u
      <3>1. PeriodOfBlock(b) = [first |-> 0, end |-> u] /\ \A x \in 0 .. (u - 1) :
                PeriodOfBlock(x) = [first |-> 0, end |-> u]
        BY <2>2, <2>3
      <3> QED
        BY <1>2, <2>3, <3>1
    <2>4. CASE ~(b < u)
      <3>1. PeriodOfBlock(b) = [first |-> b, end |-> b + 1] /\ \A x \in b .. ((b + 1) - 1) :
                PeriodOfBlock(x) = [first |-> b, end |-> b + 1]
        BY <2>2, <2>4
      <3> QED
        BY <1>2, <2>4, <3>1
    <2> QED
      BY <2>3, <2>4
  <1> QED
    BY <1>1, <1>2

-----------------------------------------------------------------------------
(* The price of a block.                                                   *)

\* Some rate is the newest by any block.
LEMMA SomeRate ==
  ASSUME rates \subseteq Rate, FirstRateKept, NEW b \in Nat
  PROVE  RateForBlock(b) \in rates
  <1> DEFINE T == {k \in Nat : \E r \in rates : r.from <= b /\ k = b - r.from}
  <1>1. \A r \in rates : r.from \in Nat
    BY DEF Rate, Blocks
  <1>2. T \subseteq Nat /\ T # {}
    <2>1. PICK r \in rates : r.from = 0
      BY DEF FirstRateKept
    <2>2. b \in T
      BY <2>1
    <2> QED
      BY <2>2
  <1>3. PICK n \in T : \A m \in T : ~(m < n)
    <2> HIDE DEF T
    <2> QED
      BY <1>2, LeastNumber
  <1>4. PICK r \in rates : r.from <= b /\ n = b - r.from
    OBVIOUS
  <1>5. \A o \in rates : o.from <= b => o.from <= r.from
    <2> SUFFICES ASSUME NEW o \in rates, o.from <= b PROVE o.from <= r.from
      OBVIOUS
    <2>1. b - o.from \in T
      BY <1>1
    <2>2. ~(b - o.from < b - r.from)
      BY <1>3, <1>4, <2>1
    <2> QED
      BY <1>1, <2>2
  <1> HIDE DEF T
  <1> QED
    BY <1>4, <1>5 DEF RateForBlock

\* A day's share is an amount, and the first day's is not nothing.
LEMMA Shares ==
  ASSUME NEW w \in Nat \ {0}, NEW d \in Nat
  PROVE  /\ DailyShare(w, d) \in Nat
         /\ d = 0 => DailyShare(w, d) > 0
  <1>1. PICK q \in Nat, r \in Nat : /\ q = w \div DaysPerWeek /\ r = w % DaysPerWeek
                                    /\ w = DaysPerWeek * q + r
    BY RentAssumption, Dividing
  <1>2. DailyShare(w, d) = q + (IF d < r THEN 1 ELSE 0)
    BY <1>1 DEF DailyShare
  <1>3. q = 0 => r > 0
    BY <1>1, RentAssumption
  <1> QED
    BY <1>2, <1>3

\* What a block costs is an amount; at the daily rate, or on the first day of a week, more
\* than nothing.
LEMMA BlocksCost ==
  ASSUME rates \subseteq Rate, FirstRateKept, NEW b \in Nat, NEW isAtDailyRate \in BOOLEAN
  PROVE  /\ BlockCents(b, isAtDailyRate) \in Nat
         /\ isAtDailyRate \/ b % DaysPerWeek = 0 => BlockCents(b, isAtDailyRate) > 0
  <1>1. PICK w : w = RateForBlock(b).weekly /\ (w = None \/ w \in Nat \ {0})
    <2>1. RateForBlock(b).weekly \in WeeklyRates \cup {None}
      BY SomeRate DEF Rate
    <2> QED
      BY <2>1, RentAssumption
  <1>2. BlockCents(b, isAtDailyRate) = IF isAtDailyRate \/ w = None THEN DailyRate
                                       ELSE DailyShare(w, b % DaysPerWeek)
    BY <1>1 DEF BlockCents
  <1>3. CASE isAtDailyRate \/ w = None
    BY <1>2, <1>3, RentAssumption
  <1>4. CASE ~(isAtDailyRate \/ w = None)
    <2>1. PICK d \in Nat : d = b % DaysPerWeek
      BY RentAssumption, Dividing
    <2>2. DailyShare(w, d) \in Nat /\ (d = 0 => DailyShare(w, d) > 0)
      BY <1>1, <1>4, Shares
    <2> QED
      BY <1>2, <1>4, <2>1, <2>2
  <1> QED
    BY <1>3, <1>4

-----------------------------------------------------------------------------
(* How many blocks were used.                                              *)

\* A return uses its last block from the grace after the block before.
LEMMA Used ==
  ASSUME RentTypeOK, backAt # None
  PROVE  \E u \in 1 .. (LastBlock + 1) :
            /\ BlocksUsed = u
            /\ backAt <= u * BlockLength + Grace
            /\ u > 1 => backAt > (u - 1) * BlockLength + Grace
  <1>1. /\ backAt \in 1 .. RentHorizon /\ BlockLength \in Nat \ {0} /\ RentHorizon \in Nat
        /\ Grace \in 0 .. (BlockLength - 1)
    BY RentAssumption DEF RentTypeOK
  <1>2. PICK x \in Nat : x = backAt - 0 - Grace + BlockLength - 1
    <2>1. backAt - 0 - Grace + BlockLength - 1 >= 0
      BY <1>1
    <2> QED
      BY <1>1, <2>1
  <1>3. PICK q \in Nat, r \in 0 .. (BlockLength - 1) :
            q = x \div BlockLength /\ x = BlockLength * q + r
    BY <1>1, Dividing
  <1>4. PICK u \in Nat \ {0} : u = (IF 1 > q THEN 1 ELSE q)
    OBVIOUS
  <1>5. BlocksUsed = u
    BY <1>2, <1>3, <1>4 DEF BlocksUsed, BlocksBetween, Larger
  <1>6. BlockLength * q \in Nat
    BY <1>1
  <1>7. backAt <= BlockLength * q + Grace
    BY <1>1, <1>2, <1>3, <1>6
  <1>8. backAt <= u * BlockLength + Grace
    <2>1. CASE q = 0
      <3>1. u * BlockLength = BlockLength /\ BlockLength * q = 0
        BY <1>1, <1>4, <2>1
      <3> QED
        BY <1>1, <1>7, <3>1
    <2>2. CASE q # 0
      <3>1. u * BlockLength = BlockLength * q
        BY <1>1, <1>4, <2>2
      <3> QED
        BY <1>7, <3>1
    <2> QED
      BY <2>1, <2>2
  <1>9. u > 1 => backAt > (u - 1) * BlockLength + Grace
    <2>1. u > 1 => (u - 1) * BlockLength = BlockLength * q - BlockLength
      BY <1>1, <1>4
    <2> QED
      BY <1>1, <1>2, <1>3, <1>6, <2>1
  <1>10. u <= LastBlock + 1
    <2>1. PICK m \in Nat, s \in 0 .. (BlockLength - 1) :
              LastBlock = m /\ RentHorizon = BlockLength * m + s
      <3>1. /\ LastBlock \in Nat /\ RentHorizon % BlockLength \in 0 .. (BlockLength - 1)
            /\ RentHorizon = BlockLength * LastBlock + (RentHorizon % BlockLength)
        BY <1>1, Dividing DEF LastBlock
      <3> QED
        BY <3>1
    <2>2. ASSUME u > m + 1 PROVE FALSE
      <3>1. u - 1 >= m + 1 /\ u - 1 \in Nat
        BY <2>2
      <3>2. (u - 1) * BlockLength >= (m + 1) * BlockLength
        BY <1>1, <3>1
      <3>3. (m + 1) * BlockLength = BlockLength * m + BlockLength
        BY <1>1
      <3>4. BlockLength * m \in Nat
        BY <1>1
      <3> QED
        BY <1>1, <1>9, <2>1, <2>2, <3>2, <3>3, <3>4
    <2> QED
      BY <2>1, <2>2
  <1>11. LastBlock \in Nat
    BY <1>1, Dividing DEF LastBlock
  <1> QED
    BY <1>5, <1>8, <1>9, <1>10, <1>11

\* The blocks used, counted one by one, are as many.
LEMMA UsedFullyIsUsed ==
  ASSUME RentTypeOK, backAt # None
  PROVE  UsedFully = BlocksUsed
  <1>1. PICK u \in 1 .. (LastBlock + 1) :
            /\ BlocksUsed = u
            /\ backAt <= u * BlockLength + Grace
            /\ u > 1 => backAt > (u - 1) * BlockLength + Grace
    BY Used
  <1>2. /\ backAt \in Nat /\ BlockLength \in Nat \ {0} /\ Grace \in Nat /\ LastBlock \in Nat
    BY RentAssumption, Dividing DEF RentTypeOK, LastBlock
  <1>3. \A m, n \in Nat : m <= n => m * BlockLength <= n * BlockLength
    BY <1>2
  <1>4. \A k \in 1 .. (u - 1) : backAt > k * BlockLength + Grace
    <2> SUFFICES ASSUME NEW k \in 1 .. (u - 1) PROVE backAt > k * BlockLength + Grace
      OBVIOUS
    <2>1. k \in Nat /\ u - 1 \in Nat /\ k <= u - 1 /\ u > 1
      BY <1>2
    <2>2. k * BlockLength <= (u - 1) * BlockLength
      BY <1>3, <2>1
    <2>3. k * BlockLength \in Nat /\ (u - 1) * BlockLength \in Nat
      BY <1>2, <2>1
    <2> QED
      BY <1>1, <1>2, <2>1, <2>2, <2>3
  <1> DEFINE IsCount(n) == /\ backAt <= n * BlockLength + Grace
                           /\ \A k \in 1 .. (n - 1) : backAt > k * BlockLength + Grace
  <1>5. IsCount(u)
    BY <1>1, <1>4
  <1>6. ASSUME NEW n \in 1 .. (LastBlock + 1), IsCount(n)
        PROVE  n = u
    <2>1. n \in Nat /\ u \in Nat
      BY <1>2
    <2>2. ASSUME n < u PROVE FALSE
      <3>1. n \in 1 .. (u - 1)
        BY <1>2, <2>1, <2>2
      <3>2. backAt > n * BlockLength + Grace /\ backAt <= n * BlockLength + Grace
        BY <1>4, <1>6, <3>1
      <3>3. n * BlockLength \in Nat
        BY <1>2, <2>1
      <3> QED
        BY <1>2, <3>2, <3>3
    <2>3. ASSUME u < n PROVE FALSE
      <3>1. u \in 1 .. (n - 1)
        BY <1>2, <2>1, <2>3
      <3>2. backAt > u * BlockLength + Grace /\ backAt <= u * BlockLength + Grace
        BY <1>5, <1>6, <3>1
      <3>3. u * BlockLength \in Nat
        BY <1>2, <2>1
      <3> QED
        BY <1>2, <3>2, <3>3
    <2> QED
      BY <2>1, <2>2, <2>3
  <1>7. UsedFully = CHOOSE n \in 1 .. (LastBlock + 1) : IsCount(n)
    BY DEF UsedFully
  <1> HIDE DEF IsCount
  <1> QED
    BY <1>1, <1>5, <1>6, <1>7

\* Once a return is no later than now, the last block used has begun.
LEMMA UsedHasBegun ==
  ASSUME RentTypeOK, backAt # None, backAt <= clock
  PROVE  BlocksUsed \in Nat \ {0} /\ BlocksUsed - 1 <= BlockAt(clock)
  <1>1. PICK u \in 1 .. (LastBlock + 1) :
            BlocksUsed = u /\ (u > 1 => backAt > (u - 1) * BlockLength + Grace)
    BY Used
  <1>2. /\ backAt \in Nat /\ clock \in Nat /\ BlockLength \in Nat \ {0} /\ Grace \in Nat
        /\ LastBlock \in Nat
    BY RentAssumption, Dividing DEF RentTypeOK, LastBlock
  <1>3. PICK m \in Nat, s \in 0 .. (BlockLength - 1) :
            BlockAt(clock) = m /\ clock = BlockLength * m + s
    BY <1>2, Dividing DEF BlockAt
  <1>4. u \in Nat \ {0}
    BY <1>2
  <1>5. ASSUME u - 1 > m PROVE FALSE
    <2>1. u - 1 >= m + 1 /\ u - 1 \in Nat /\ u > 1
      BY <1>4, <1>5
    <2>2. (u - 1) * BlockLength >= (m + 1) * BlockLength
      BY <1>2, <2>1
    <2>3. (m + 1) * BlockLength = BlockLength * m + BlockLength /\ BlockLength * m \in Nat
      BY <1>2
    <2> QED
      BY <1>1, <1>2, <1>3, <2>1, <2>2, <2>3
  <1> QED
    BY <1>1, <1>3, <1>4, <1>5

-----------------------------------------------------------------------------
(* What a period costs.                                                    *)

LEMMA FiniteStretch == \A f, e \in Int : IsFiniteSet(f .. e)
  BY FS_Interval

\* The rent for a stretch of blocks is an amount: nothing for no blocks, more than nothing at
\* the daily rate or from the first day of a week on.
LEMMA RentForStretch ==
  ASSUME rates \subseteq Rate, FirstRateKept, NEW f \in Nat, NEW e \in Nat,
         NEW isAtDailyRate \in BOOLEAN,
         NEW p, p = [first |-> f, end |-> e]
  PROVE  /\ RentForBlocks(p, isAtDailyRate) \in Nat
         /\ e <= f => RentForBlocks(p, isAtDailyRate) = 0
         /\ f < e /\ (isAtDailyRate \/ f % DaysPerWeek = 0)
               => RentForBlocks(p, isAtDailyRate) > 0
  <1>1. PICK h : h = [b \in f .. (e - 1) |-> BlockCents(b, isAtDailyRate)]
    OBVIOUS
  <1>2. RentForBlocks(p, isAtDailyRate) = SumFunctionOnSet(h, f .. (e - 1))
    <2>1. p.first = f /\ p.end = e /\ DOMAIN h = f .. (e - 1)
      BY <1>1
    <2> QED
      BY <1>1, <2>1 DEF RentForBlocks, SumFunction
  <1>3. \A b \in f .. (e - 1) : b \in Nat /\ h[b] = BlockCents(b, isAtDailyRate)
    BY <1>1
  <1>4. \A b \in f .. (e - 1) : h[b] \in Nat
    BY <1>3, BlocksCost
  <1>5. IsFiniteSet(f .. (e - 1))
    BY FiniteStretch
  <1>6. /\ SumFunctionOnSet(h, f .. (e - 1)) \in Nat
        /\ \A b \in f .. (e - 1) : SumFunctionOnSet(h, f .. (e - 1)) >= h[b]
    BY <1>4, <1>5, SumNotNegative
  <1>7. ASSUME e <= f PROVE SumFunctionOnSet(h, f .. (e - 1)) = 0
    <2>1. f .. (e - 1) = {}
      BY <1>7
    <2> QED
      BY <1>4, <1>5, <2>1, SumTakes
  <1>8. ASSUME f < e, isAtDailyRate \/ f % DaysPerWeek = 0
        PROVE  SumFunctionOnSet(h, f .. (e - 1)) > 0
    <2>1. f \in f .. (e - 1)
      BY <1>8
    <2>2. h[f] \in Nat /\ h[f] > 0
      BY <1>3, <1>4, <1>8, <2>1, BlocksCost
    <2>3. SumFunctionOnSet(h, f .. (e - 1)) >= h[f]
      BY <1>6, <2>1
    <2> QED
      BY <1>6, <2>2, <2>3
  <1> QED
    BY <1>2, <1>6, <1>7, <1>8

\* What OwedForPeriod adds up for the period from block f: from f to end, at one of two prices.
LEMMA Owed ==
  ASSUME RentTypeOK, FirstRateKept, NEW f \in Nat, PeriodOfBlock(f).first = f
  PROVE  \E end \in Nat :
            /\ end = IF BlocksUsed = None THEN PeriodOfBlock(f).end
                     ELSE Smaller(PeriodOfBlock(f).end, BlocksUsed)
            /\ OwedForPeriod(PeriodOfBlock(f))
                 = RentForBlocks([first |-> f, end |-> end], ~IsLongTerm \/ IsRepricedAtDailyRate)
            /\ OwedForPeriod(PeriodOfBlock(f)) \in Nat
            /\ f < end <=> OwedForPeriod(PeriodOfBlock(f)) > 0
            /\ f < end <=> BlocksUsed = None \/ f < BlocksUsed
  <1>1. PICK e \in Nat : /\ PeriodOfBlock(f) = [first |-> f, end |-> e] /\ f < e
                         /\ IsLongTerm => f % DaysPerWeek = 0
    <2>1. booked \in Nat
      BY BookedIsNat DEF RentTypeOK
    <2>2. PICK g, e \in Nat : /\ PeriodOfBlock(f) = [first |-> g, end |-> e] /\ f < e
                              /\ IsLongTerm => g % DaysPerWeek = 0
      BY <2>1, Periods
    <2> QED
      BY <2>2
  <1>2. rates \subseteq Rate
    BY DEF RentTypeOK
  <1>3. PICK daily \in BOOLEAN : daily = (~IsLongTerm \/ IsRepricedAtDailyRate)
    OBVIOUS
  <1>4. daily \/ f % DaysPerWeek = 0
    BY <1>1, <1>3
  <1>5. CASE BlocksUsed = None
    <2>1. IsRepricedAtDailyRate = FALSE
      BY <1>5 DEF IsRepricedAtDailyRate
    <2>2. OwedForPeriod(PeriodOfBlock(f)) = RentForBlocks([first |-> f, end |-> e], daily)
      BY <1>1, <1>3, <1>5, <2>1 DEF OwedForPeriod
    <2>3. /\ RentForBlocks([first |-> f, end |-> e], daily) \in Nat
          /\ RentForBlocks([first |-> f, end |-> e], daily) > 0
      BY <1>1, <1>2, <1>4, RentForStretch
    <2> QED
      BY <1>1, <1>3, <1>5, <2>2, <2>3
  <1>6. CASE BlocksUsed # None
    <2>1. PICK u \in Nat : BlocksUsed = u
      <3>1. backAt # None
        BY <1>6 DEF BlocksUsed
      <3>2. LastBlock \in Nat
        BY RentAssumption, Dividing DEF LastBlock
      <3> QED
        BY <3>1, <3>2, Used
    <2>2. PICK end \in Nat : end = Smaller(e, u) /\ (f < end <=> f < u)
      BY <1>1 DEF Smaller
    <2>3. [PeriodOfBlock(f) EXCEPT !.end = Smaller(PeriodOfBlock(f).end, BlocksUsed)]
            = [first |-> f, end |-> end]
      BY <1>1, <2>1, <2>2
    <2>4. /\ RentForBlocks([first |-> f, end |-> end], daily) \in Nat
          /\ f < end => RentForBlocks([first |-> f, end |-> end], daily) > 0
          /\ end <= f => RentForBlocks([first |-> f, end |-> end], daily) = 0
      BY <1>2, <1>4, RentForStretch
    <2>5. OwedForPeriod(PeriodOfBlock(f))
            = IF end <= f THEN 0 ELSE RentForBlocks([first |-> f, end |-> end], daily)
      BY <1>1, <1>3, <1>6, <2>3 DEF OwedForPeriod
    <2>6. OwedForPeriod(PeriodOfBlock(f)) = RentForBlocks([first |-> f, end |-> end], daily)
      BY <2>4, <2>5
    <2>7. PeriodOfBlock(f).end = e
      BY <1>1
    <2> QED
      BY <1>3, <1>6, <2>1, <2>2, <2>4, <2>6, <2>7
  <1> QED
    BY <1>5, <1>6

\* Whether the rental is back, and what was used by then.
LEMMA BackUsed ==
  ASSUME RentTypeOK
  PROVE  /\ backAt = None <=> BlocksUsed = None
         /\ backAt # None => BlocksUsed \in Nat \ {0}
  <1>1. CASE backAt = None
    BY <1>1 DEF BlocksUsed
  <1>2. CASE backAt # None
    <2>1. LastBlock \in Nat
      BY RentAssumption, Dividing DEF LastBlock
    <2>2. PICK u \in 1 .. (LastBlock + 1) : BlocksUsed = u
      BY <1>2, Used
    <2> QED
      BY <1>2, <2>1, <2>2 DEF None
  <1> QED
    BY <1>1, <1>2

\* The price of a block, worked out by what the days before it cost, is the code's.
LEMMA FairIsBlockCents ==
  ASSUME RentTypeOK, FirstRateKept, NEW b \in Nat
  PROVE  FairPrice(b) = BlockCents(b, ~IsLongTerm \/ IsRepricedAtDailyRate)
  <1>1. PICK w : w = RateForBlock(b).weekly /\ (w = None \/ w \in Nat \ {0})
    <2>1. RateForBlock(b).weekly \in WeeklyRates \cup {None}
      BY SomeRate DEF Rate, RentTypeOK
    <2> QED
      BY <2>1, RentAssumption
  <1>2. PICK daily \in BOOLEAN : daily = (~IsLongTerm \/ IsRepricedAtDailyRate)
    OBVIOUS
  <1>3. daily <=> ~IsLongTerm \/ (backAt # None /\ UsedFully < LongTermMinimum /\ ~waived)
    <2>1. CASE backAt = None
      <3>1. BlocksUsed = None
        BY <2>1, BackUsed
      <3> QED
        BY <1>2, <2>1, <3>1 DEF IsRepricedAtDailyRate
    <2>2. CASE backAt # None
      <3>1. BlocksUsed # None
        BY <2>2, BackUsed
      <3>2. UsedFully = BlocksUsed
        BY <2>2, UsedFullyIsUsed
      <3> QED
        BY <1>2, <2>2, <3>1, <3>2 DEF IsRepricedAtDailyRate
    <2> QED
      BY <2>1, <2>2
  <1>4. CASE w = None \/ daily
    <2>1. FairPrice(b) = DailyRate
      BY <1>1, <1>3, <1>4 DEF FairPrice
    <2>2. BlockCents(b, daily) = DailyRate
      BY <1>1, <1>4 DEF BlockCents
    <2> QED
      BY <1>2, <2>1, <2>2
  <1>5. CASE ~(w = None \/ daily)
    <2>0. w \in Nat /\ DaysPerWeek \in Nat \ {0}
      BY <1>1, <1>5, RentAssumption
    <2>1. PICK q \in Nat, r \in Nat : /\ q = w \div DaysPerWeek /\ r = w % DaysPerWeek
                                      /\ w = DaysPerWeek * q + r
      BY <2>0, Dividing
    <2>2. PICK d \in Nat : d = b % DaysPerWeek
      BY RentAssumption, Dividing
    <2>3. FairPrice(b) = ((d + 1) * q + Smaller(d + 1, r)) - (d * q + Smaller(d, r))
      BY <1>1, <1>3, <1>5, <2>1, <2>2 DEF FairPrice
    <2>4. BlockCents(b, daily) = DailyShare(w, d)
      BY <1>1, <1>5, <2>2 DEF BlockCents
    <2>5. DailyShare(w, d) = q + (IF d < r THEN 1 ELSE 0)
      BY <2>1 DEF DailyShare
    <2>6. (d + 1) * q = d * q + q /\ d * q \in Nat
      OBVIOUS
    <2>7. Smaller(d + 1, r) = Smaller(d, r) + (IF d < r THEN 1 ELSE 0)
      BY DEF Smaller
    <2>8. Smaller(d, r) \in Nat
      BY DEF Smaller
    <2>9. FairPrice(b) = q + (IF d < r THEN 1 ELSE 0)
      BY <2>3, <2>6, <2>7, <2>8
    <2> QED
      BY <1>2, <2>4, <2>5, <2>9
  <1> QED
    BY <1>4, <1>5

-----------------------------------------------------------------------------
(* The blocks a run begun now charges.                                     *)

LEMMA BlockNow ==
  ASSUME RentTypeOK
  PROVE  /\ LastBlock \in Nat /\ BlockAt(clock) \in Blocks
         /\ \A t \in Nat : t <= clock => BlockAt(t) \in Nat /\ BlockAt(t) <= BlockAt(clock)
  <1>1. clock \in Nat /\ RentHorizon \in Nat /\ clock <= RentHorizon /\ BlockLength \in Nat \ {0}
    BY RentAssumption DEF RentTypeOK
  <1>2. /\ LastBlock \in Nat
        /\ \A t \in Nat : BlockAt(t) \in Nat
    BY <1>1, Dividing DEF LastBlock, BlockAt
  <1>3. BlockAt(clock) <= LastBlock
    BY <1>1, QuotientGrows DEF LastBlock, BlockAt
  <1>4. \A t \in Nat : t <= clock => BlockAt(t) <= BlockAt(clock)
    BY <1>1, QuotientGrows DEF BlockAt
  <1>5. BlockAt(clock) \in Blocks
    BY <1>1, <1>2, <1>3 DEF Blocks
  <1> QED
    BY <1>2, <1>4, <1>5

EndOwed(f) == IF BlocksUsed = None THEN PeriodOfBlock(f).end
              ELSE Smaller(PeriodOfBlock(f).end, BlocksUsed)

OwedBlocks(f) ==
    IF PeriodOfBlock(f).first = f /\ f <= BlockAt(clock) THEN f .. (EndOwed(f) - 1) ELSE {}

\* A block is charged with the period it is of, if that has begun and the block was used.
LEMMA OwedWith ==
  ASSUME RentTypeOK, NEW x \in Nat, NEW f \in Blocks
  PROVE  x \in OwedBlocks(f) <=> /\ PeriodOfBlock(x).first = f /\ f <= BlockAt(clock)
                                 /\ BlocksUsed = None \/ x < BlocksUsed
  <1>0. f \in Nat
    BY BlockNow DEF Blocks
  <1>1. booked \in Nat
    BY BookedIsNat DEF RentTypeOK
  <1>2. PICK g, e \in Nat : /\ PeriodOfBlock(x) = [first |-> g, end |-> e]
                            /\ g <= x /\ x < e
                            /\ \A y \in g .. (e - 1) : PeriodOfBlock(y) = PeriodOfBlock(x)
    BY <1>1, Periods
  <1>3. PICK i, j \in Nat : /\ PeriodOfBlock(f) = [first |-> i, end |-> j]
                            /\ i <= f /\ f < j
                            /\ \A y \in i .. (j - 1) : PeriodOfBlock(y) = PeriodOfBlock(f)
    BY <1>0, <1>1, Periods
  <1>4. BlocksUsed = None \/ BlocksUsed \in Nat
    BY BackUsed
  <1>5. ASSUME x \in OwedBlocks(f)
        PROVE  /\ PeriodOfBlock(x).first = f /\ f <= BlockAt(clock)
               /\ BlocksUsed = None \/ x < BlocksUsed
    <2>1. i = f /\ f <= BlockAt(clock) /\ x \in f .. (EndOwed(f) - 1)
      BY <1>3, <1>5 DEF OwedBlocks
    <2>2. EndOwed(f) \in Nat /\ EndOwed(f) <= j /\ (BlocksUsed = None \/ EndOwed(f) <= BlocksUsed)
      BY <1>3, <1>4 DEF EndOwed, Smaller
    <2>3. x \in i .. (j - 1) /\ (BlocksUsed = None \/ x < BlocksUsed)
      BY <1>0, <1>4, <2>1, <2>2
    <2>4. PeriodOfBlock(x) = PeriodOfBlock(f)
      BY <1>3, <2>3
    <2> QED
      BY <1>3, <2>1, <2>3, <2>4
  <1>6. ASSUME PeriodOfBlock(x).first = f, f <= BlockAt(clock), BlocksUsed = None \/ x < BlocksUsed
        PROVE  x \in OwedBlocks(f)
    <2>1. g = f
      BY <1>2, <1>6
    <2>2. PeriodOfBlock(f) = [first |-> f, end |-> e]
      <3>1. f \in g .. (e - 1)
        BY <1>0, <1>2, <2>1
      <3> QED
        BY <1>2, <2>1, <3>1
    <2>3. EndOwed(f) \in Nat /\ x < EndOwed(f)
      BY <1>2, <1>4, <1>6, <2>2 DEF EndOwed, Smaller
    <2>4. x \in f .. (EndOwed(f) - 1)
      BY <1>0, <1>2, <2>1, <2>3
    <2> QED
      BY <1>6, <2>2, <2>4 DEF OwedBlocks
  <1> QED
    BY <1>5, <1>6

\* The blocks that have begun to cost something are those of the periods begun.
LEMMA BegunAreOfPeriods ==
  ASSUME RentTypeOK
  PROVE  /\ BegunBlocks \subseteq Nat /\ IsFiniteSet(BegunBlocks)
         /\ \A x \in Nat : x \in BegunBlocks <=> PeriodOfBlock(x).first <= BlockAt(clock)
  <1>1. booked \in Nat /\ DaysPerWeek \in Nat \ {0}
    BY BookedIsNat, RentAssumption DEF RentTypeOK
  <1>2. PICK n \in Nat : /\ n = BlockAt(clock) /\ n <= LastBlock /\ LastBlock \in Nat
                         /\ Blocks = 0 .. LastBlock
    BY BlockNow DEF Blocks
  <1>3. ASSUME NEW x \in Nat
        PROVE  x \in BegunBlocks <=> PeriodOfBlock(x).first <= n
    <2>1. PICK g, e \in Nat : PeriodOfBlock(x) = [first |-> g, end |-> e] /\ g <= x
      BY <1>1, Periods
    <2>2. CASE IsLongTerm
      <3>1. PICK q, m \in Nat : q = x \div DaysPerWeek /\ m = n \div DaysPerWeek
        BY <1>1, Dividing
      <3>2. g = DaysPerWeek * q
        BY <2>1, <2>2, <3>1, Weeks
      <3>3. g <= n <=> q <= m
        <4>1. ASSUME g <= n PROVE q <= m
          <5>1. DaysPerWeek * q < DaysPerWeek * (q + 1)
            BY <1>1
          <5>2. g \div DaysPerWeek = q
            BY <1>1, <2>1, <3>2, <5>1, OneQuotient
          <5> QED
            BY <1>1, <2>1, <3>1, <4>1, <5>2, QuotientGrows
        <4>2. ASSUME q <= m PROVE g <= n
          <5>1. DaysPerWeek * q <= DaysPerWeek * m
            BY <1>1, <4>2
          <5>2. DaysPerWeek * m <= n
            BY <1>1, <3>1, Dividing
          <5> QED
            BY <1>1, <3>2, <5>1, <5>2
        <4> QED
          BY <4>1, <4>2
      <3>4. g <= n => x \in 0 .. (LastBlock + DaysPerWeek)
        <4>1. x = DaysPerWeek * q + (x % DaysPerWeek) /\ x % DaysPerWeek \in 0 .. (DaysPerWeek - 1)
          BY <1>1, <3>1, Dividing
        <4> QED
          BY <1>1, <1>2, <3>2, <4>1
      <3>5. x \in BegunBlocks <=> x \in 0 .. (LastBlock + DaysPerWeek) /\ q <= m
        BY <1>2, <2>2, <3>1 DEF BegunBlocks
      <3>6. PeriodOfBlock(x).first = g
        BY <2>1
      <3> QED
        BY <3>3, <3>4, <3>5, <3>6
    <2>3. CASE ~IsLongTerm
      <3>1. PICK u \in Nat : u = Larger(1, booked) /\ u >= 1
        BY <1>1 DEF Larger
      <3>2. BegunBlocks = 0 .. (Larger(u, n + 1) - 1)
        BY <1>2, <2>3, <3>1 DEF BegunBlocks
      <3>3. PeriodOfBlock(x) = IF x < u THEN [first |-> 0, end |-> u]
                               ELSE [first |-> x, end |-> x + 1]
        BY <2>3, <3>1 DEF PeriodOfBlock
      <3>4. PeriodOfBlock(x).first = IF x < u THEN 0 ELSE x
        BY <3>3
      <3> QED
        BY <1>2, <3>1, <3>2, <3>4 DEF Larger
    <2> QED
      BY <2>2, <2>3
  <1>4. \E last \in Int : BegunBlocks \subseteq 0 .. last
    <2>1. CASE IsLongTerm
      BY <1>1, <1>2, <2>1 DEF BegunBlocks
    <2>2. CASE ~IsLongTerm
      <3>1. PICK last \in Int : last = Larger(Larger(1, booked), BlockAt(clock) + 1) - 1
        BY <1>1, <1>2 DEF Larger
      <3> QED
        BY <2>2, <3>1 DEF BegunBlocks
    <2> QED
      BY <2>1, <2>2
  <1>5. BegunBlocks \subseteq Nat /\ IsFiniteSet(BegunBlocks)
    <2>1. PICK last \in Int : BegunBlocks \subseteq 0 .. last
      BY <1>4
    <2>2. IsFiniteSet(0 .. last)
      BY FiniteStretch
    <2>3. BegunBlocks \subseteq Nat
      BY <2>1
    <2> QED
      BY <2>1, <2>2, <2>3, FS_Subset
  <1> QED
    BY <1>2, <1>3, <1>5

\* The blocks of all periods a run charges are those that cost anything by now.
LEMMA OwedArePayable ==
  ASSUME RentTypeOK
  PROVE  /\ PayableBlocks \subseteq BegunBlocks
         /\ PayableBlocks = UNION {OwedBlocks(f) : f \in Blocks}
  <1>1. booked \in Nat /\ DaysPerWeek \in Nat \ {0}
    BY BookedIsNat, RentAssumption DEF RentTypeOK
  <1>2. PICK n \in Nat : /\ n = BlockAt(clock) /\ n <= LastBlock /\ LastBlock \in Nat
                         /\ Blocks = 0 .. LastBlock
    BY BlockNow DEF Blocks
  <1>3. ASSUME NEW f \in Blocks, NEW x \in OwedBlocks(f) PROVE x \in Nat
    <2>1. f \in Nat /\ x \in f .. (EndOwed(f) - 1)
      BY <1>2, <1>3 DEF OwedBlocks
    <2>2. BlocksUsed = None \/ BlocksUsed \in Nat
      BY BackUsed
    <2>3. \E g, e \in Nat : PeriodOfBlock(f) = [first |-> g, end |-> e]
      BY <1>1, <2>1, Periods
    <2>4. EndOwed(f) \in Nat
      BY <2>2, <2>3 DEF EndOwed, Smaller
    <2> QED
      BY <2>1, <2>4
  <1>4. ASSUME NEW x \in Nat
        PROVE  (\E f \in Blocks : x \in OwedBlocks(f))
                 <=> PeriodOfBlock(x).first <= n /\ (BlocksUsed = None \/ x < BlocksUsed)
    <2>1. PICK g, e \in Nat : PeriodOfBlock(x) = [first |-> g, end |-> e]
      BY <1>1, Periods
    <2>2. g <= n => g \in Blocks
      BY <1>2, <2>1
    <2>3. PeriodOfBlock(x).first = g
      BY <2>1
    <2>4. \A f \in Blocks : x \in OwedBlocks(f)
            <=> g = f /\ f <= n /\ (BlocksUsed = None \/ x < BlocksUsed)
      BY <1>2, <2>3, OwedWith
    <2> QED
      BY <2>2, <2>3, <2>4
  <1>5. ASSUME NEW x \in Nat
        PROVE  x \in PayableBlocks
                 <=> PeriodOfBlock(x).first <= n /\ (BlocksUsed = None \/ x < BlocksUsed)
    <2>1. x \in BegunBlocks <=> PeriodOfBlock(x).first <= n
      BY <1>2, BegunAreOfPeriods
    <2>2. CASE backAt # None
      <3>1. PICK u \in Nat \ {0} : u = BlocksUsed /\ u = UsedFully
        BY <2>2, BackUsed, UsedFullyIsUsed
      <3>2. PayableBlocks = BegunBlocks \cap 0 .. (u - 1)
        BY <2>2, <3>1 DEF PayableBlocks
      <3>3. BlocksUsed # None
        BY <3>1 DEF None
      <3> QED
        BY <2>1, <3>1, <3>2, <3>3
    <2>3. CASE backAt = None
      BY <2>1, <2>3, BackUsed DEF PayableBlocks
    <2> QED
      BY <2>2, <2>3
  <1>6. PayableBlocks \subseteq BegunBlocks /\ \A x \in PayableBlocks : x \in Nat
    BY BegunAreOfPeriods DEF PayableBlocks
  <1>7. ASSUME NEW x \in PayableBlocks PROVE x \in UNION {OwedBlocks(f) : f \in Blocks}
    <2>1. \E f \in Blocks : x \in OwedBlocks(f)
      BY <1>4, <1>5, <1>6, <1>7
    <2> QED
      BY <2>1
  <1>8. ASSUME NEW x \in UNION {OwedBlocks(f) : f \in Blocks} PROVE x \in PayableBlocks
    <2>1. PICK f \in Blocks : x \in OwedBlocks(f)
      OBVIOUS
    <2> QED
      BY <1>3, <1>4, <1>5, <2>1
  <1> QED
    BY <1>6, <1>7, <1>8

\* From the return's own moment on, every block used costs.
LEMMA AllUsedArePayable ==
  ASSUME RentTypeOK, backAt # None, backAt <= clock
  PROVE  PayableBlocks = 0 .. (UsedFully - 1)
  <1>1. PICK u \in Nat \ {0} : u = UsedFully /\ u - 1 <= BlockAt(clock)
    BY UsedHasBegun, UsedFullyIsUsed
  <1>2. PICK n \in Nat : n = BlockAt(clock)
    BY BlockNow DEF Blocks
  <1>3. ASSUME NEW x \in 0 .. (u - 1)
        PROVE  x \in BegunBlocks
    <2>1. x \in Nat /\ x <= n
      BY <1>1, <1>2
    <2>2. PICK g, e \in Nat : PeriodOfBlock(x) = [first |-> g, end |-> e] /\ g <= x
      BY <2>1, BookedIsNat, Periods DEF RentTypeOK
    <2>3. PeriodOfBlock(x).first <= BlockAt(clock)
      BY <1>2, <2>1, <2>2
    <2> QED
      BY <2>1, <2>3, BegunAreOfPeriods
  <1> QED
    BY <1>1, <1>3 DEF PayableBlocks

-----------------------------------------------------------------------------
(* What a run leaves charged.                                              *)

\* What is charged of a period is a sum of whole cents; of no lines, nothing.
LEMMA NetIsASum ==
  ASSUME RentTypeOK, NEW f \in Blocks
  PROVE  NetCharged(f) \in Int /\ (lines[f] = <<>> => NetCharged(f) = 0)
  <1>1. lines[f] \in Seq(Line)
    BY DEF RentTypeOK
  <1>2. PICK h : h = [i \in DOMAIN lines[f] |-> IF lines[f][i].kind = "charge"
                                               THEN lines[f][i].cents ELSE -lines[f][i].cents]
    OBVIOUS
  <1>3. NetCharged(f) = SumFunctionOnSet(h, DOMAIN lines[f])
    BY <1>2 DEF NetCharged, LineIndexes, SumFunction
  <1>4. IsFiniteSet(DOMAIN lines[f])
    <2>1. Len(lines[f]) \in Nat /\ DOMAIN lines[f] = 1 .. Len(lines[f])
      BY <1>1, LenProperties
    <2> QED
      BY <2>1, FiniteStretch
  <1>5. \A i \in DOMAIN lines[f] : h[i] \in Int
    <2> SUFFICES ASSUME NEW i \in DOMAIN lines[f] PROVE h[i] \in Int
      OBVIOUS
    <2>1. lines[f][i] \in Line
      BY <1>1, ElementOfSeq
    <2>2. lines[f][i].cents \in Nat
      BY <2>1 DEF Line
    <2> QED
      BY <1>2, <2>2
  <1>6. lines[f] = <<>> => DOMAIN lines[f] = {}
    OBVIOUS
  <1>7. /\ SumFunctionOnSet(h, DOMAIN lines[f]) \in Int
        /\ DOMAIN lines[f] = {} => SumFunctionOnSet(h, DOMAIN lines[f]) = 0
    BY <1>4, <1>5, SumTakes
  <1> QED
    BY <1>3, <1>6, <1>7

\* What no one changed by hand either has its rent charged or has no line at all.
LEMMA Standings ==
  ASSUME RentTypeOK, LinesAreOfPeriods, NEW f \in Blocks
  PROVE  /\ PeriodStanding(f) \in {"left_as_changed", "charged", "not_charged"}
         /\ PeriodStanding(f) = "not_charged" <=> lines[f] = <<>>
  <1>1. lines[f] \in Seq(Line)
    BY DEF RentTypeOK
  <1>2. PeriodStanding(f) \in {"left_as_changed", "charged", "not_charged"}
    BY DEF PeriodStanding
  <1>3. CASE lines[f] = <<>>
    <2>1. DOMAIN lines[f] = {}
      BY <1>3
    <2>2. PeriodStanding(f) = "not_charged"
      BY <2>1 DEF PeriodStanding, LineIndexes
    <2> QED
      BY <1>2, <1>3, <2>2
  <1>4. CASE lines[f] # <<>>
    <2>1. 1 \in DOMAIN lines[f]
      <3>1. Len(lines[f]) \in Nat /\ Len(lines[f]) # 0 /\ DOMAIN lines[f] = 1 .. Len(lines[f])
        BY <1>1, <1>4, LenProperties, EmptySeq
      <3> QED
        BY <3>1
    <2>2. lines[f][1].kind = "charge" /\ ~lines[f][1].isCorrection
      BY <1>4 DEF LinesAreOfPeriods
    <2>3. PeriodStanding(f) # "not_charged"
      BY <2>1, <2>2 DEF PeriodStanding, LineIndexes
    <2> QED
      BY <1>2, <1>4, <2>3
  <1> QED
    BY <1>3, <1>4

\* What the run would add is at most one line.
LEMMA Added ==
  ASSUME NEW f, NEW t
  PROVE  /\ PeriodStanding(f) = "not_charged" /\ f \in DuePeriods(t) =>
               RentLinesToAdd(f, t) = <<NewLine("charge", OwedForPeriod(PeriodOfBlock(f)), FALSE)>>
         /\ PeriodStanding(f) = "charged" => RentLinesToAdd(f, t) = CorrectionFor(f)
         /\ ~(PeriodStanding(f) = "not_charged" /\ f \in DuePeriods(t))
               /\ PeriodStanding(f) # "charged" => RentLinesToAdd(f, t) = <<>>
  <1>1. CASE PeriodStanding(f) = "not_charged" /\ f \in DuePeriods(t)
    BY <1>1 DEF RentLinesToAdd
  <1>2. CASE PeriodStanding(f) = "charged"
    BY <1>2 DEF RentLinesToAdd
  <1>3. CASE ~(PeriodStanding(f) = "not_charged" /\ f \in DuePeriods(t))
               /\ PeriodStanding(f) # "charged"
    BY <1>3 DEF RentLinesToAdd
  <1> QED
    BY <1>1, <1>2, <1>3

\* A run begun now brings a period no one changed by hand to what its blocks cost.
LEMMA RunBringsPeriod ==
  ASSUME RentTypeOK, FirstRateKept, LinesAreOfPeriods, NEW f \in Blocks,
         PeriodStanding(f) # "left_as_changed",
         NEW h, \A b \in Nat : h[b] = FairPrice(b)
  PROVE  NetAfterRun(f) = SumFunctionOnSet(h, OwedBlocks(f))
  <1>0. f \in Nat /\ clock \in Nat /\ BlockAt(clock) \in Nat
    BY BlockNow, RentAssumption DEF Blocks, RentTypeOK
  <1>1. PICK o : o = OwedForPeriod(PeriodOfBlock(f))
    OBVIOUS
  <1>2. PICK net \in Int : net = NetCharged(f) /\ (lines[f] = <<>> => net = 0)
    BY NetIsASum
  <1>3. CASE PeriodOfBlock(f).first = f /\ f <= BlockAt(clock)
    <2>1. PICK end \in Nat : /\ end = EndOwed(f)
                             /\ o = RentForBlocks([first |-> f, end |-> end],
                                                  ~IsLongTerm \/ IsRepricedAtDailyRate)
                             /\ o \in Nat
                             /\ f < end <=> o > 0
                             /\ f < end <=> BlocksUsed = None \/ f < BlocksUsed
      <3>1. \E end \in Nat :
            /\ end = IF BlocksUsed = None THEN PeriodOfBlock(f).end
                     ELSE Smaller(PeriodOfBlock(f).end, BlocksUsed)
            /\ OwedForPeriod(PeriodOfBlock(f))
                 = RentForBlocks([first |-> f, end |-> end], ~IsLongTerm \/ IsRepricedAtDailyRate)
            /\ OwedForPeriod(PeriodOfBlock(f)) \in Nat
            /\ f < end <=> OwedForPeriod(PeriodOfBlock(f)) > 0
            /\ f < end <=> BlocksUsed = None \/ f < BlocksUsed
        BY <1>0, <1>3, Owed
      <3> QED
        BY <1>1, <3>1 DEF EndOwed
    <2>2. PICK daily \in BOOLEAN : daily = (~IsLongTerm \/ IsRepricedAtDailyRate)
      OBVIOUS
    <2>3. PICK g : g = [b \in f .. (end - 1) |-> BlockCents(b, daily)]
      OBVIOUS
    <2>4. o = SumFunctionOnSet(g, f .. (end - 1))
      <3>1. DOMAIN g = f .. (end - 1)
        BY <2>3
      <3>2. RentForBlocks([first |-> f, end |-> end], daily) = SumFunction(g)
        BY <2>3 DEF RentForBlocks
      <3> QED
        BY <2>1, <2>2, <3>1, <3>2 DEF SumFunction
    <2>5. \A b \in f .. (end - 1) : h[b] \in Int /\ g[b] = h[b]
      <3> SUFFICES ASSUME NEW b \in f .. (end - 1) PROVE h[b] \in Int /\ g[b] = h[b]
        OBVIOUS
      <3>1. b \in Nat
        BY <1>0
      <3>2. h[b] = BlockCents(b, daily)
        BY <2>2, <3>1, FairIsBlockCents
      <3>3. BlockCents(b, daily) \in Nat
        BY <3>1, BlocksCost DEF RentTypeOK
      <3> QED
        BY <2>3, <3>2, <3>3
    <2>6. o = SumFunctionOnSet(h, f .. (end - 1))
      <3>1. IsFiniteSet(f .. (end - 1))
        BY <1>0, FiniteStretch
      <3>2. SumFunctionOnSet(g, f .. (end - 1)) = SumFunctionOnSet(h, f .. (end - 1))
        BY <2>5, <3>1, SumSame
      <3> QED
        BY <2>4, <3>2
    <2>7. OwedBlocks(f) = f .. (end - 1)
      BY <1>3, <2>1 DEF OwedBlocks
    <2>8. NetAfterRun(f) = o
      <3>1. CASE PeriodStanding(f) = "not_charged" /\ f \in DuePeriods(clock)
        <4>1. RentLinesToAdd(f, clock) = <<NewLine("charge", o, FALSE)>>
          BY <1>0, <1>1, <3>1, Added
        <4>2. net = 0
          BY <1>2, <3>1, Standings
        <4> QED
          BY <1>2, <2>1, <4>1, <4>2 DEF NetAfterRun, NewLine
      <3>2. CASE PeriodStanding(f) = "charged"
        <4>1. PICK d \in Int : d = o - net
          BY <2>1
        <4>2. RentLinesToAdd(f, clock) = IF d = 0 THEN <<>>
                                         ELSE IF d > 0 THEN <<NewLine("charge", d, TRUE)>>
                                         ELSE <<NewLine("credit", -d, TRUE)>>
          BY <1>0, <1>1, <1>2, <3>2, <4>1, Added DEF CorrectionFor
        <4>3. NetAfterRun(f) = net + d
          <5>1. CASE d = 0
            BY <1>2, <4>2, <5>1 DEF NetAfterRun
          <5>2. CASE d > 0
            BY <1>2, <4>2, <5>2 DEF NetAfterRun, NewLine
          <5>3. CASE d < 0
            BY <1>2, <4>2, <5>3 DEF NetAfterRun, NewLine
          <5> QED
            BY <5>1, <5>2, <5>3
        <4> QED
          BY <2>1, <4>1, <4>3
      <3>3. CASE PeriodStanding(f) = "not_charged" /\ f \notin DuePeriods(clock)
        <4>1. RentLinesToAdd(f, clock) = <<>>
          BY <1>0, <3>3, Added
        <4>2. net = 0
          BY <1>2, <3>3, Standings
        <4>3. o = 0
          BY <1>0, <1>3, <2>1, <3>3 DEF DuePeriods
        <4> QED
          BY <1>2, <4>1, <4>2, <4>3 DEF NetAfterRun
      <3> QED
        BY <3>1, <3>2, <3>3, Standings
    <2> QED
      BY <2>6, <2>7, <2>8
  <1>4. CASE ~(PeriodOfBlock(f).first = f /\ f <= BlockAt(clock))
    <2>1. lines[f] = <<>>
      BY <1>4 DEF LinesAreOfPeriods
    <2>2. PeriodStanding(f) = "not_charged"
      BY <2>1, Standings
    <2>3. f \notin DuePeriods(clock)
      BY <1>0, <1>4 DEF DuePeriods
    <2>4. RentLinesToAdd(f, clock) = <<>>
      BY <1>0, <2>2, <2>3, Added
    <2>5. NetAfterRun(f) = 0
      BY <1>2, <2>1, <2>4 DEF NetAfterRun
    <2>6. OwedBlocks(f) = {}
      BY <1>4 DEF OwedBlocks
    <2>7. SumFunctionOnSet(h, {}) = 0
      <3>1. IsFiniteSet({}) /\ \A x \in {} : h[x] \in Int
        BY FS_EmptySet
      <3> QED
        BY <3>1, SumTakes
    <2> QED
      BY <2>5, <2>6, <2>7
  <1> QED
    BY <1>3, <1>4

\* A run begun now brings the rental to what its blocks cost, when no one changed it by hand.
LEMMA RunBringsAll ==
  ASSUME RentTypeOK, FirstRateKept, LinesAreOfPeriods, ~HasReversedRent
  PROVE  SumFunction([b \in Blocks |-> NetAfterRun(b)]) = FairRent
  <1>1. PICK h : h = [b \in Nat |-> FairPrice(b)]
    OBVIOUS
  <1>2. PICK t : t = [b \in Blocks |-> NetAfterRun(b)]
    OBVIOUS
  <1>3. PICK G : G = [f \in Blocks |-> OwedBlocks(f)]
    OBVIOUS
  <1>4. PICK U : U = PayableBlocks
    OBVIOUS
  <1>5. UNION {G[f] : f \in Blocks} = U
    <2>1. {G[f] : f \in Blocks} = {OwedBlocks(f) : f \in Blocks}
      BY <1>3
    <2> QED
      BY <1>4, <2>1, OwedArePayable
  <1>6. U \subseteq Nat /\ IsFiniteSet(U)
    BY <1>4, OwedArePayable, BegunAreOfPeriods, FS_Subset
  <1>7. \A b \in Nat : h[b] = FairPrice(b) /\ h[b] \in Int
    <2> SUFFICES ASSUME NEW b \in Nat PROVE h[b] = FairPrice(b) /\ h[b] \in Int
      OBVIOUS
    <2>1. PICK daily \in BOOLEAN : daily = (~IsLongTerm \/ IsRepricedAtDailyRate)
      OBVIOUS
    <2>2. FairPrice(b) = BlockCents(b, daily)
      BY <2>1, FairIsBlockCents
    <2>3. BlockCents(b, daily) \in Nat
      BY BlocksCost DEF RentTypeOK
    <2> QED
      BY <1>1, <2>2, <2>3
  <1>8. \A f \in Blocks : t[f] = SumFunctionOnSet(h, G[f])
    <2> SUFFICES ASSUME NEW f \in Blocks PROVE t[f] = SumFunctionOnSet(h, G[f])
      OBVIOUS
    <2>1. PeriodStanding(f) # "left_as_changed"
      BY DEF HasReversedRent
    <2>2. NetAfterRun(f) = SumFunctionOnSet(h, OwedBlocks(f))
      BY <1>7, <2>1, RunBringsPeriod
    <2> QED
      BY <1>2, <1>3, <2>2
  <1>9. \A f \in Blocks : G[f] \subseteq U
    BY <1>5
  <1>10. \A f, g \in Blocks : f # g => G[f] \cap G[g] = {}
    <2> SUFFICES ASSUME NEW f \in Blocks, NEW g \in Blocks, f # g, NEW x \in G[f] \cap G[g]
                 PROVE  FALSE
      OBVIOUS
    <2>1. x \in Nat
      BY <1>6, <1>9
    <2>2. x \in OwedBlocks(f) /\ x \in OwedBlocks(g)
      BY <1>3
    <2> QED
      BY <2>1, <2>2, OwedWith
  <1>11. IsFiniteSet(Blocks)
    BY BlockNow, FiniteStretch DEF Blocks
  <1>12. SumFunctionOnSet(t, Blocks) = SumFunctionOnSet(h, UNION {G[f] : f \in Blocks})
    <2>1. \A b \in U : h[b] \in Int
      BY <1>6, <1>7
    <2>2. IsFiniteSet(U)
      BY <1>6
    <2> QED
      BY <1>8, <1>9, <1>10, <1>11, <2>1, <2>2, SumOfGroups
  <1>13. SumFunctionOnSet(h, UNION {G[f] : f \in Blocks}) = SumFunctionOnSet(h, U)
    BY <1>5
  <1>14. PICK fair : fair = [b \in U |-> FairPrice(b)]
    OBVIOUS
  <1>15. SumFunctionOnSet(fair, U) = SumFunctionOnSet(h, U)
    <2>1. \A b \in U : h[b] \in Int /\ fair[b] = h[b]
      BY <1>6, <1>7, <1>14
    <2> QED
      BY <1>6, <2>1, SumSame
  <1>16. FairRent = SumFunctionOnSet(fair, U)
    <2>1. DOMAIN fair = U
      BY <1>14
    <2> QED
      BY <1>4, <1>14, <2>1 DEF FairRent, SumFunction
  <1>17. SumFunction([b \in Blocks |-> NetAfterRun(b)]) = SumFunctionOnSet(t, Blocks)
    <2>1. DOMAIN t = Blocks
      BY <1>2
    <2> QED
      BY <1>2, <2>1 DEF SumFunction
  <1> QED
    BY <1>12, <1>13, <1>15, <1>16, <1>17

-----------------------------------------------------------------------------
(* The next rent.                                                          *)

\* A period begins after the last block there is.
LEMMA LaterPeriod ==
  ASSUME RentTypeOK
  PROVE  \E b \in 0 .. (LastBlock + DaysPerWeek + booked) :
            PeriodOfBlock(b).first = b /\ b > LastBlock
  <1>1. booked \in Nat /\ LastBlock \in Nat /\ DaysPerWeek \in Nat \ {0}
    BY BookedIsNat, BlockNow, RentAssumption DEF RentTypeOK
  <1>2. CASE IsLongTerm
    <2>1. PICK q \in Nat, r \in 0 .. (DaysPerWeek - 1) :
              q = LastBlock \div DaysPerWeek /\ LastBlock = DaysPerWeek * q + r
      BY <1>1, Dividing
    <2>2. PICK b \in Nat : b = DaysPerWeek * (q + 1)
      BY <1>1
    <2>3. DaysPerWeek * (q + 1) = DaysPerWeek * q + DaysPerWeek /\ DaysPerWeek * q \in Nat
      BY <1>1
    <2>4. b > LastBlock /\ b <= LastBlock + DaysPerWeek
      BY <1>1, <2>1, <2>2, <2>3
    <2>5. b \div DaysPerWeek = q + 1
      <3>1. q + 1 \in Nat /\ DaysPerWeek * (q + 1) < DaysPerWeek * ((q + 1) + 1)
        BY <1>1
      <3>2. DaysPerWeek * (q + 1) <= b
        BY <2>2
      <3> QED
        BY <1>1, <2>2, <3>1, <3>2, OneQuotient
    <2>6. PeriodOfBlock(b).first = b
      BY <1>2, <2>2, <2>5, Weeks
    <2> QED
      BY <1>1, <2>4, <2>6
  <1>3. CASE ~IsLongTerm
    <2>1. PICK b \in Nat : b = LastBlock + DaysPerWeek + booked
      BY <1>1
    <2>2. ~(b < Larger(1, booked))
      BY <1>1, <2>1 DEF Larger
    <2>3. PeriodOfBlock(b) = [first |-> b, end |-> b + 1]
      BY <1>3, <2>2 DEF PeriodOfBlock
    <2> QED
      BY <1>1, <2>1, <2>3
  <1> QED
    BY <1>2, <1>3

\* The page names the first period not charged, and its rent.
LEMMA PageNames ==
  ASSUME RentTypeOK, FirstRateKept, backAt = None, NEW end \in Nat
  PROVE  \E m \in Nat :
            /\ PeriodOfBlock(m).first = m
            /\ m \in Blocks => PeriodStanding(m) = "not_charged"
            /\ \A b \in Blocks : PeriodOfBlock(b).first = b /\ PeriodStanding(b) = "not_charged"
                                   => m <= b
            /\ OwedForPeriod(PeriodOfBlock(m)) \in Nat
            /\ NextRentOf(end) = IF end # Ongoing /\ m >= end /\ BlockAt(clock) < end
                                 THEN NoChange
                                 ELSE [first |-> m, cents |-> OwedForPeriod(PeriodOfBlock(m))]
  <1>1. /\ booked \in Nat /\ LastBlock \in Nat /\ DaysPerWeek \in Nat \ {0}
        /\ BlockAt(clock) \in Nat
    BY BookedIsNat, BlockNow, RentAssumption DEF RentTypeOK, Blocks
  <1>2. PICK S : S = {b \in 0 .. (LastBlock + DaysPerWeek + booked) :
                          /\ PeriodOfBlock(b).first = b
                          /\ b \in Blocks => PeriodStanding(b) = "not_charged"}
    OBVIOUS
  <1>3. S \subseteq Nat /\ S # {}
    <2>1. PICK b \in 0 .. (LastBlock + DaysPerWeek + booked) :
              PeriodOfBlock(b).first = b /\ b > LastBlock
      BY LaterPeriod
    <2>2. b \notin Blocks
      BY <1>1, <2>1 DEF Blocks
    <2>3. b \in S
      BY <1>2, <2>1, <2>2
    <2>4. 0 .. (LastBlock + DaysPerWeek + booked) \subseteq Nat
      BY <1>1
    <2> QED
      BY <1>2, <2>3, <2>4
  <1>4. PICK m \in S : \A n \in S : ~(n < m)
    BY <1>3, LeastNumber
  <1>5. Min(S) = m
    <2>1. \A n \in S : m <= n
      BY <1>3, <1>4
    <2>2. \A x \in S : (\A n \in S : x <= n) => x = m
      BY <1>3, <2>1
    <2>3. Min(S) = CHOOSE x \in S : \A n \in S : x <= n
      BY DEF Min
    <2> QED
      BY <2>1, <2>2, <2>3
  <1>6. \A b \in Blocks : PeriodOfBlock(b).first = b /\ PeriodStanding(b) = "not_charged" => m <= b
    <2> SUFFICES ASSUME NEW b \in Blocks, PeriodOfBlock(b).first = b,
                        PeriodStanding(b) = "not_charged"
                 PROVE  m <= b
      OBVIOUS
    <2>1. b \in 0 .. (LastBlock + DaysPerWeek + booked)
      BY <1>1 DEF Blocks
    <2>2. b \in S
      BY <1>2, <2>1
    <2> QED
      BY <1>3, <1>4, <2>2
  <1>7. PeriodOfBlock(m).first = m /\ (m \in Blocks => PeriodStanding(m) = "not_charged")
    BY <1>2
  <1>8. OwedForPeriod(PeriodOfBlock(m)) \in Nat
    BY <1>3, <1>7, Owed
  <1>9. NextRentOf(end) = IF end # Ongoing /\ m >= end /\ BlockAt(clock) < end
                          THEN NoChange
                          ELSE [first |-> m, cents |-> OwedForPeriod(PeriodOfBlock(m))]
    <2>1. BlocksUsed = None
      BY BackUsed
    <2>2. NextRentOf(end) = IF BlocksUsed # None \/ (end # Ongoing /\ m >= end /\ BlockAt(clock) < end)
                            THEN NoChange
                            ELSE [first |-> m, cents |-> OwedForPeriod(PeriodOfBlock(m))]
      BY <1>2, <1>5 DEF NextRentOf
    <2> QED
      BY <2>1, <2>2
  <1> QED
    BY <1>3, <1>6, <1>7, <1>8, <1>9

\* Until the car is back, the rent the page names is the run's own.
LEMMA PageIsRight ==
  ASSUME RentTypeOK, FirstRateKept, backAt = None, NEW end \in Nat
  PROVE  IsNextRentOfRun(end)
  <1>1. PICK m \in Nat :
            /\ PeriodOfBlock(m).first = m
            /\ m \in Blocks => PeriodStanding(m) = "not_charged"
            /\ \A b \in Blocks : PeriodOfBlock(b).first = b /\ PeriodStanding(b) = "not_charged"
                                   => m <= b
            /\ OwedForPeriod(PeriodOfBlock(m)) \in Nat
            /\ NextRentOf(end) = IF end # Ongoing /\ m >= end /\ BlockAt(clock) < end
                                 THEN NoChange
                                 ELSE [first |-> m, cents |-> OwedForPeriod(PeriodOfBlock(m))]
    BY PageNames
  <1>2. PICK D : D = {b \in DuePeriods(clock) : PeriodStanding(b) = "not_charged"}
    OBVIOUS
  <1>3. PICK n \in Nat : n = BlockAt(clock) /\ n <= LastBlock /\ LastBlock \in Nat
    BY BlockNow DEF Blocks
  <1>4. \A b : b \in DuePeriods(clock) <=> b \in 0 .. n /\ PeriodOfBlock(b).first = b
    <2>1. BlocksUsed = None
      BY BackUsed
    <2> QED
      BY <1>3, <2>1 DEF DuePeriods
  <1>5. 0 .. n \subseteq Blocks
    BY <1>3 DEF Blocks
  <1>6. m <= n => m \in D
    BY <1>1, <1>2, <1>4, <1>5
  <1>7. \A b \in D : b \in 0 .. n /\ m <= b
    BY <1>1, <1>2, <1>4, <1>5
  <1>8. PICK next : next = NextRentOf(end)
    OBVIOUS
  <1>9. m <= n => /\ next # NoChange /\ next.first = m
                  /\ next.cents = OwedForPeriod(PeriodOfBlock(m))
    <2> SUFFICES ASSUME m <= n PROVE /\ next # NoChange /\ next.first = m
                                     /\ next.cents = OwedForPeriod(PeriodOfBlock(m))
      OBVIOUS
    <2>1. ~(end # Ongoing /\ m >= end /\ BlockAt(clock) < end)
      BY <1>3
    <2>2. next = [first |-> m, cents |-> OwedForPeriod(PeriodOfBlock(m))]
      BY <1>1, <1>8, <2>1
    <2>3. next \in [first : Nat, cents : Nat]
      BY <1>1, <2>2
    <2> QED
      BY <2>2, <2>3, NoChangeIsNone
  <1>10. next # NoChange => next.first = m
    <2>1. next = NoChange \/ next = [first |-> m, cents |-> OwedForPeriod(PeriodOfBlock(m))]
      BY <1>1, <1>8
    <2> QED
      BY <2>1
  <1>11. m <= n => RentLinesToAdd(m, clock)
                     = <<NewLine("charge", OwedForPeriod(PeriodOfBlock(m)), FALSE)>>
    <2>1. m <= n => m \in DuePeriods(clock) /\ PeriodStanding(m) = "not_charged"
      BY <1>2, <1>6
    <2> QED
      BY <2>1, Added
  <1>12. D # {} => m <= n
    BY <1>3, <1>7
  <1>13. D # {} => /\ next # NoChange /\ next.first \in D
                   /\ \A b \in D : next.first <= b
                   /\ RentLinesToAdd(next.first, clock)
                          = <<NewLine("charge", next.cents, FALSE)>>
    BY <1>6, <1>7, <1>9, <1>11, <1>12
  <1>14. next # NoChange /\ next.first <= BlockAt(clock) => next.first \in D
    BY <1>3, <1>6, <1>10
  <1> QED
    BY <1>2, <1>8, <1>13, <1>14 DEF IsNextRentOfRun

\* What the invariant says of any state.
LEMMA InvIsRight ==
  ASSUME RentInv
  PROVE  RentIsRight
  <1>1. ~HasReversedRent => SumFunction([b \in Blocks |-> NetAfterRun(b)]) = FairRent
    BY RunBringsAll DEF RentInv
  <1>3. backAt # None /\ backAt <= clock => PayableBlocks = 0 .. (UsedFully - 1)
    BY AllUsedArePayable DEF RentInv
  <1>2. ASSUME backAt = None
        PROVE  \A end \in {Ongoing} \cup 1 .. (LastBlock + 1) : IsNextRentOfRun(end)
    <2> SUFFICES ASSUME NEW end \in {Ongoing} \cup 1 .. (LastBlock + 1)
                 PROVE  IsNextRentOfRun(end)
      OBVIOUS
    <2>1. LastBlock \in Nat
      BY BlockNow DEF RentInv
    <2>2. end \in Nat
      BY <2>1 DEF Ongoing
    <2> QED
      BY <1>2, <2>2, PageIsRight DEF RentInv
  <1> QED
    BY <1>1, <1>2, <1>3 DEF RentIsRight

-----------------------------------------------------------------------------
(* Every step keeps the invariant.                                         *)

LEMMA NewLineIsLine ==
  ASSUME NEW kind \in {"charge", "credit"}, NEW cents \in Nat \ {0}, NEW isCorrection \in BOOLEAN
  PROVE  NewLine(kind, cents, isCorrection) \in Line
  BY DEF NewLine, Line

\* What a run adds to a period is no line or one, and the first of a period is its rent.
LEMMA AddedIsLines ==
  ASSUME RentInv, NEW f \in Blocks, NEW t \in Nat, t <= clock
  PROVE  /\ RentLinesToAdd(f, t) = <<>> \/ \E line \in Line : RentLinesToAdd(f, t) = <<line>>
         /\ lines[f] = <<>> /\ RentLinesToAdd(f, t) # <<>>
              => /\ PeriodOfBlock(f).first = f /\ f <= BlockAt(clock)
                 /\ RentLinesToAdd(f, t)[1].kind = "charge"
                 /\ ~RentLinesToAdd(f, t)[1].isCorrection
  <1> USE DEF RentInv
  <1>0. f \in Nat /\ BlockAt(t) \in Nat /\ BlockAt(t) <= BlockAt(clock) /\ BlockAt(clock) \in Nat
    BY BlockNow DEF Blocks
  <1>1. CASE PeriodStanding(f) = "not_charged" /\ f \in DuePeriods(t)
    <2>1. /\ PeriodOfBlock(f).first = f /\ f <= BlockAt(t)
          /\ BlocksUsed = None \/ f < BlocksUsed
      BY <1>0, <1>1 DEF DuePeriods
    <2>2. PICK o : o = OwedForPeriod(PeriodOfBlock(f)) /\ o \in Nat \ {0}
      <3>1. OwedForPeriod(PeriodOfBlock(f)) \in Nat /\ OwedForPeriod(PeriodOfBlock(f)) > 0
        <4>1. RentTypeOK /\ FirstRateKept
          OBVIOUS
        <4> HIDE DEF RentInv
        <4> QED
          BY <1>0, <2>1, <4>1, Owed
      <3>2. OwedForPeriod(PeriodOfBlock(f)) # 0
        BY <3>1
      <3> QED
        BY <3>1, <3>2
    <2>3. RentLinesToAdd(f, t) = <<NewLine("charge", o, FALSE)>>
      BY <1>1, <2>2, Added
    <2>4. NewLine("charge", o, FALSE) \in Line
      BY <2>2, NewLineIsLine
    <2>5. RentLinesToAdd(f, t)[1].kind = "charge" /\ ~RentLinesToAdd(f, t)[1].isCorrection
      BY <2>3 DEF NewLine
    <2>6. \E line \in Line : RentLinesToAdd(f, t) = <<line>>
      BY <2>3, <2>4
    <2> QED
      BY <1>0, <2>1, <2>5, <2>6
  <1>2. CASE PeriodStanding(f) = "charged"
    <2>1. lines[f] # <<>>
      BY <1>2, Standings
    <2>2. PeriodOfBlock(f).first = f
      BY <2>1 DEF LinesAreOfPeriods
    <2>3. PICK o \in Nat : o = OwedForPeriod(PeriodOfBlock(f))
      BY <1>0, <2>2, Owed
    <2>4. PICK d \in Int : d = o - NetCharged(f)
      BY <2>3, NetIsASum
    <2>5. RentLinesToAdd(f, t) = IF d = 0 THEN <<>>
                                 ELSE IF d > 0 THEN <<NewLine("charge", d, TRUE)>>
                                 ELSE <<NewLine("credit", -d, TRUE)>>
      BY <1>2, <2>3, <2>4, Added DEF CorrectionFor
    <2>6. d > 0 => NewLine("charge", d, TRUE) \in Line
      <3>1. d > 0 => d \in Nat \ {0}
        OBVIOUS
      <3> QED
        BY <3>1, NewLineIsLine
    <2>7. d < 0 => NewLine("credit", -d, TRUE) \in Line
      <3>1. d < 0 => -d \in Nat \ {0}
        OBVIOUS
      <3> QED
        BY <3>1, NewLineIsLine
    <2>8. RentLinesToAdd(f, t) = <<>> \/ \E line \in Line : RentLinesToAdd(f, t) = <<line>>
      <3>1. CASE d = 0
        BY <2>5, <3>1
      <3>2. CASE d > 0
        <4>0. d # 0
          BY <3>2
        <4>1. RentLinesToAdd(f, t) = <<NewLine("charge", d, TRUE)>>
          BY <2>5, <3>2, <4>0, Zenon
        <4> QED
          BY <2>6, <3>2, <4>1
      <3>3. CASE d < 0
        <4>0. d # 0 /\ ~(d > 0)
          BY <3>3
        <4>1. RentLinesToAdd(f, t) = <<NewLine("credit", -d, TRUE)>>
          BY <2>5, <4>0, Zenon
        <4> QED
          BY <2>7, <3>3, <4>1
      <3> QED
        BY <3>1, <3>2, <3>3
    <2> QED
      BY <2>1, <2>8
  <1>3. CASE ~(PeriodStanding(f) = "not_charged" /\ f \in DuePeriods(t))
               /\ PeriodStanding(f) # "charged"
    BY <1>3, Added
  <1> QED
    BY <1>1, <1>2, <1>3

LEMMA InitRentInv == RentInit => RentInv
  <1> SUFFICES ASSUME RentInit PROVE RentInv
    OBVIOUS
  <1> USE DEF RentInit
  <1>1. LastBlock \in Nat
    BY RentAssumption, Dividing DEF LastBlock
  <1>2. FirstRateKept /\ rates \subseteq Rate
    BY <1>1 DEF FirstRateKept, Rate, Blocks
  <1>3. lines \in [Blocks -> Seq(Line)] /\ LinesAreOfPeriods
    BY DEF LinesAreOfPeriods
  <1>4. runs \in [RentRuns -> (0 .. RentHorizon) \cup {None}] /\ \A n \in RentRuns : runs[n] <= clock
    BY DEF None
  <1>5. RentTypeOK
    <2>1. clock \in 0 .. RentHorizon /\ failures \in 0 .. MaxRunFailures
      BY RentAssumption
    <2>2. /\ booked \in Bookings /\ waived \in BOOLEAN /\ waiting \in Rate \cup {NoChange}
          /\ backAt \in (1 .. RentHorizon) \cup {None}
          /\ signing \in (0 .. RentHorizon) \cup {None}
      OBVIOUS
    <2> HIDE DEF RentInit
    <2> QED
      BY <1>2, <1>3, <1>4, <2>1, <2>2 DEF RentTypeOK
  <1>6. backAt <= clock + ClockAhead
    BY RentAssumption DEF None
  <1> QED
    BY <1>2, <1>3, <1>4, <1>5, <1>6 DEF RentInv

\* What keeps the lines and the rates keeps what is said of them.
LEMMA SameLinesKeep ==
  ASSUME RentInv, UNCHANGED <<booked, lines>>, clock' \in Nat, clock <= clock'
  PROVE  LinesAreOfPeriods'
  <1> USE DEF RentInv
  <1>1. clock \in Nat /\ BlockLength \in Nat \ {0}
    BY RentAssumption DEF RentTypeOK
  <1>2. PICK m, n \in Nat : m = BlockAt(clock) /\ n = BlockAt(clock)' /\ m <= n
    <2>1. clock \div BlockLength \in Nat /\ clock' \div BlockLength \in Nat
      BY <1>1, Dividing
    <2>2. clock \div BlockLength <= clock' \div BlockLength
      BY <1>1, QuotientGrows
    <2> QED
      BY <2>1, <2>2 DEF BlockAt
  <1>3. \A b : PeriodOfBlock(b)' = PeriodOfBlock(b)
    BY DEF PeriodOfBlock, IsLongTerm
  <1>4. \A b \in Blocks : b \in Nat
    BY BlockNow DEF Blocks
  <1> QED
    BY <1>2, <1>3, <1>4 DEF LinesAreOfPeriods

LEMMA SameRatesKeep ==
  ASSUME FirstRateKept, rates \subseteq rates'
  PROVE  FirstRateKept'
  BY DEF FirstRateKept

LEMMA PassTimeKeeps == RentInv /\ PassTime => RentInv'
  <1> SUFFICES ASSUME RentInv, PassTime PROVE RentInv'
    OBVIOUS
  <1> USE DEF RentInv, PassTime
  <1>1. clock \in Nat /\ clock' \in 0 .. RentHorizon /\ clock <= clock' /\ clock' \in Nat
    BY RentAssumption DEF RentTypeOK
  <1>2. RentTypeOK'
    BY <1>1 DEF RentTypeOK
  <1>3. FirstRateKept'
    BY SameRatesKeep
  <1>4. LinesAreOfPeriods'
    BY <1>1, SameLinesKeep
  <1>5. backAt' <= clock' + ClockAhead /\ \A n \in RentRuns : runs'[n] <= clock'
    <2>1. ClockAhead \in Nat /\ backAt \in Int /\ \A n \in RentRuns : runs[n] \in Int
      BY RentAssumption DEF RentTypeOK, None
    <2> QED
      BY <1>1, <2>1
  <1> QED
    BY <1>2, <1>3, <1>4, <1>5

LEMMA RunsKeep ==
  ASSUME RentInv, NEW n \in RentRuns, PickRental(n) \/ RunFails(n)
  PROVE  RentInv'
  <1> USE DEF RentInv
  <1>1. UNCHANGED <<clock, booked, rates, backAt, waived, lines, waiting, signing>>
    BY DEF PickRental, RunFails
  <1>2. clock \in Nat /\ clock \in 0 .. RentHorizon
    BY RentAssumption DEF RentTypeOK
  <1>3. PICK v \in (0 .. RentHorizon) \cup {None} : runs' = [runs EXCEPT ![n] = v] /\ v <= clock
    BY <1>2 DEF PickRental, RunFails, None
  <1>4. runs' \in [RentRuns -> (0 .. RentHorizon) \cup {None}] /\ \A k \in RentRuns : runs'[k] <= clock
    BY <1>3 DEF RentTypeOK
  <1>5. failures' \in 0 .. MaxRunFailures
    BY RentAssumption DEF RentTypeOK, PickRental, RunFails
  <1>6. RentTypeOK'
    BY <1>1, <1>4, <1>5 DEF RentTypeOK
  <1>7. FirstRateKept'
    BY <1>1, SameRatesKeep
  <1>8. LinesAreOfPeriods'
    BY <1>1, <1>2, SameLinesKeep
  <1> QED
    BY <1>1, <1>4, <1>6, <1>7, <1>8

LEMMA ChargeKeeps ==
  ASSUME RentInv, NEW n \in RentRuns, ChargeBlockRental(n)
  PROVE  RentInv'
  <1> USE DEF RentInv
  <1>1. UNCHANGED <<clock, booked, rates, backAt, waived, waiting, signing, failures>>
    BY DEF ChargeBlockRental
  <1>2. PICK t \in Nat : t = runs[n] /\ t <= clock
    BY RentAssumption DEF RentTypeOK, ChargeBlockRental
  <1>3. lines' = [b \in Blocks |-> lines[b] \o RentLinesToAdd(b, t)]
    BY <1>2 DEF ChargeBlockRental
  <1>4. ASSUME NEW b \in Blocks
        PROVE  /\ lines'[b] \in Seq(Line)
               /\ lines'[b] # <<>> => /\ PeriodOfBlock(b).first = b /\ b <= BlockAt(clock)
                                      /\ lines'[b][1].kind = "charge" /\ ~lines'[b][1].isCorrection
    <2>0. PICK new : new = RentLinesToAdd(b, t)
      OBVIOUS
    <2>1. PICK old \in Seq(Line) : old = lines[b] /\ lines'[b] = old \o new
      BY <1>3, <2>0 DEF RentTypeOK
    <2>2. /\ new = <<>> \/ \E line \in Line : new = <<line>>
          /\ old = <<>> /\ new # <<>> => /\ PeriodOfBlock(b).first = b /\ b <= BlockAt(clock)
                                         /\ new[1].kind = "charge" /\ ~new[1].isCorrection
      BY <1>2, <2>0, <2>1, AddedIsLines
    <2>3. new \in Seq(Line)
      <3>1. <<>> \in Seq(Line) /\ \A line \in Line : <<line>> \in Seq(Line)
        BY EmptySeq
      <3> QED
        BY <2>2, <3>1
    <2>4. lines'[b] \in Seq(Line)
      BY <2>1, <2>3
    <2>5. CASE old = <<>>
      <3>1. lines'[b] = new
        BY <2>1, <2>3, <2>5
      <3> QED
        BY <2>2, <2>4, <2>5, <3>1
    <2>6. CASE old # <<>>
      <3>1. lines'[b][1] = old[1]
        <4>1. Len(old) \in Nat /\ Len(old) # 0
          BY <2>6, LenProperties, EmptySeq
        <4> QED
          BY <2>1, <2>3, <4>1
      <3>2. /\ PeriodOfBlock(b).first = b /\ b <= BlockAt(clock)
            /\ old[1].kind = "charge" /\ ~old[1].isCorrection
        BY <2>1, <2>6 DEF LinesAreOfPeriods
      <3> QED
        BY <2>4, <3>1, <3>2
    <2> QED
      BY <2>5, <2>6
  <1>5. lines' \in [Blocks -> Seq(Line)]
    BY <1>3, <1>4
  <1>6. LinesAreOfPeriods'
    <2>1. \A b : PeriodOfBlock(b)' = PeriodOfBlock(b)
      BY <1>1 DEF PeriodOfBlock, IsLongTerm
    <2>2. BlockAt(clock)' = BlockAt(clock)
      BY <1>1 DEF BlockAt
    <2> QED
      BY <1>4, <2>1, <2>2 DEF LinesAreOfPeriods
  <1>7. runs' \in [RentRuns -> (0 .. RentHorizon) \cup {None}] /\ \A k \in RentRuns : runs'[k] <= clock
    BY RentAssumption DEF RentTypeOK, ChargeBlockRental, None
  <1>8. RentTypeOK'
    BY <1>1, <1>5, <1>7 DEF RentTypeOK
  <1>9. FirstRateKept'
    BY <1>1, SameRatesKeep
  <1> QED
    BY <1>1, <1>6, <1>7, <1>8, <1>9

LEMMA ReturnKeeps ==
  ASSUME RentInv, NEW t \in 1 .. RentHorizon, ReturnCar(t)
  PROVE  RentInv'
  <1> USE DEF RentInv, ReturnCar, IsReturnTime
  <1>1. clock \in Nat
    BY RentAssumption DEF RentTypeOK
  <1>2. RentTypeOK'
    BY DEF RentTypeOK
  <1>3. FirstRateKept'
    BY SameRatesKeep
  <1>4. LinesAreOfPeriods'
    BY <1>1, SameLinesKeep
  <1> QED
    BY <1>1, <1>2, <1>3, <1>4

LEMMA ReverseKeeps ==
  ASSUME RentInv, NEW b \in Blocks, NEW i \in LineIndexes(b), ReverseLine(b, i)
  PROVE  RentInv'
  <1> USE DEF RentInv
  <1>1. UNCHANGED <<clock, booked, rates, backAt, waived, waiting, signing, runs, failures>>
    BY DEF ReverseLine
  <1>2. PICK old \in Seq(Line) : old = lines[b] /\ i \in DOMAIN old
    BY DEF RentTypeOK, LineIndexes
  <1>3. PICK line : line = Reversed(old[i])
    OBVIOUS
  <1>4. PICK new : new = [old EXCEPT ![i] = line]
    OBVIOUS
  <1>5. lines' = [lines EXCEPT ![b] = new]
    BY <1>2, <1>3, <1>4 DEF ReverseLine
  <1>6. line \in Line /\ line.kind = old[i].kind /\ line.isCorrection = old[i].isCorrection
    <2>1. old[i] \in Line
      BY <1>2, ElementOfSeq
    <2> QED
      BY <1>3, <2>1 DEF Line, Reversed
  <1>7. new \in Seq(Line) /\ old # <<>> /\ new[1].kind = old[1].kind
        /\ new[1].isCorrection = old[1].isCorrection
    <2>1. new \in Seq(Line)
      BY <1>2, <1>4, <1>6, ExceptSeq
    <2>2. old # <<>>
      BY <1>2
    <2>3. 1 \in DOMAIN old
      <3>1. Len(old) \in Nat /\ Len(old) # 0 /\ DOMAIN old = 1 .. Len(old)
        BY <2>2, LenProperties, EmptySeq
      <3> QED
        BY <3>1
    <2> QED
      BY <1>2, <1>4, <1>6, <2>1, <2>2, <2>3
  <1>8. lines' \in [Blocks -> Seq(Line)]
    BY <1>5, <1>7 DEF RentTypeOK
  <1>9. LinesAreOfPeriods'
    <2>1. \A c : PeriodOfBlock(c)' = PeriodOfBlock(c)
      BY <1>1 DEF PeriodOfBlock, IsLongTerm
    <2>2. BlockAt(clock)' = BlockAt(clock)
      BY <1>1 DEF BlockAt
    <2>3. \A c \in Blocks : lines'[c] = IF c = b THEN new ELSE lines[c]
      BY <1>5 DEF RentTypeOK
    <2>4. /\ PeriodOfBlock(b).first = b /\ b <= BlockAt(clock)
          /\ old[1].kind = "charge" /\ ~old[1].isCorrection
      BY <1>2, <1>7 DEF LinesAreOfPeriods
    <2> QED
      BY <1>7, <2>1, <2>2, <2>3, <2>4 DEF LinesAreOfPeriods
  <1>10. RentTypeOK'
    BY <1>1, <1>8 DEF RentTypeOK
  <1>11. FirstRateKept'
    BY <1>1, SameRatesKeep
  <1> QED
    BY <1>1, <1>9, <1>10, <1>11

\* A change of the weekly price: proposed, withdrawn, being signed, signed or not.
LEMMA ChangesKeep ==
  ASSUME RentInv,
         \/ \E b \in Blocks, w \in WeeklyRates : ProposeRateChange(b, w)
         \/ WaiveDailyRate \/ WithdrawChange \/ BeginSigning \/ RecordChangeSigned \/ SigningFails
  PROVE  RentInv'
  <1> USE DEF RentInv
  <1>1. UNCHANGED <<clock, booked, backAt, lines, runs, failures>>
    BY DEF ProposeRateChange, WaiveDailyRate, WithdrawChange, BeginSigning, RecordChangeSigned,
           SigningFails
  <1>2. waived' \in BOOLEAN
    BY DEF RentTypeOK, ProposeRateChange, WaiveDailyRate, WithdrawChange, BeginSigning,
           RecordChangeSigned, SigningFails
  <1>3. waiting' \in Rate \cup {NoChange}
    BY DEF RentTypeOK, Rate, ProposeRateChange, WaiveDailyRate, WithdrawChange, BeginSigning,
           RecordChangeSigned, SigningFails
  <1>4. signing' \in (0 .. RentHorizon) \cup {None}
    BY DEF RentTypeOK, ProposeRateChange, WaiveDailyRate, WithdrawChange, BeginSigning,
           RecordChangeSigned, SigningFails
  <1>5. rates \subseteq rates' /\ rates' \subseteq Rate
    <2>1. CASE RecordChangeSigned
      <3>1. waiting \in Rate
        BY <2>1 DEF RecordChangeSigned, IsRateSignable, RentTypeOK
      <3> QED
        BY <2>1, <3>1 DEF RecordChangeSigned, RentTypeOK
    <2>2. CASE ~RecordChangeSigned
      BY <2>2 DEF RentTypeOK, ProposeRateChange, WaiveDailyRate, WithdrawChange, BeginSigning,
                  SigningFails
    <2> QED
      BY <2>1, <2>2
  <1>6. RentTypeOK'
    BY <1>1, <1>2, <1>3, <1>4, <1>5 DEF RentTypeOK
  <1>7. FirstRateKept'
    BY <1>5, SameRatesKeep
  <1>8. LinesAreOfPeriods'
    <2>1. clock \in Nat
      BY RentAssumption DEF RentTypeOK
    <2> QED
      BY <1>1, <2>1, SameLinesKeep
  <1> QED
    BY <1>1, <1>6, <1>7, <1>8

LEMMA RentNextKeeps == RentInv /\ [RentNext]_rentVars => RentInv'
  <1> SUFFICES ASSUME RentInv, [RentNext]_rentVars PROVE RentInv'
    OBVIOUS
  <1>1. CASE PassTime
    BY <1>1, PassTimeKeeps
  <1>2. ASSUME NEW n \in RentRuns, PickRental(n) \/ ChargeBlockRental(n) \/ RunFails(n)
        PROVE  RentInv'
    BY <1>2, RunsKeep, ChargeKeeps
  <1>3. ASSUME NEW t \in 1 .. RentHorizon, ReturnCar(t) PROVE RentInv'
    BY <1>3, ReturnKeeps
  <1>4. ASSUME NEW b \in Blocks, NEW i \in LineIndexes(b), ReverseLine(b, i) PROVE RentInv'
    BY <1>4, ReverseKeeps
  <1>5. CASE \/ \E b \in Blocks, w \in WeeklyRates : ProposeRateChange(b, w)
             \/ WaiveDailyRate \/ WithdrawChange \/ BeginSigning \/ RecordChangeSigned
             \/ SigningFails
    BY <1>5, ChangesKeep
  <1>6. CASE UNCHANGED rentVars
    <2>1. UNCHANGED <<clock, booked, rates, backAt, waived, lines, waiting, signing, runs, failures>>
      BY <1>6 DEF rentVars
    <2>2. LinesAreOfPeriods'
      <3>1. clock \in Nat
        BY RentAssumption DEF RentTypeOK, RentInv
      <3> QED
        BY <2>1, <3>1, SameLinesKeep
    <2> QED
      BY <2>1, <2>2 DEF RentInv, RentTypeOK, FirstRateKept
  <1> QED
    BY <1>1, <1>2, <1>3, <1>4, <1>5, <1>6 DEF RentNext

\* In every state of a rental, for any lengths, prices, runs and bookings: the rates reach back
\* to its first block, and lines are charged to the first block of a period that has begun, the
\* rent itself before any correction (lines kept by period in rentLinesToAdd).
THEOREM RentInvariance == RentSpec => []RentInv
  <1>1. RentInit => RentInv
    BY InitRentInv
  <1>2. RentInv /\ [RentNext]_rentVars => RentInv'
    BY RentNextKeeps
  <1> QED
    BY <1>1, <1>2, PTL DEF RentSpec

\* Whenever the nightly run comes, it brings any rental no one changed by hand to exactly what
\* its blocks cost, block by block, and until the car is back the page names the rent the run
\* will charge next: RentIsRight in every state.
THEOREM RentAlwaysRight == RentSpec => []RentIsRight
  <1>1. RentInv => RentIsRight
    BY InvIsRight
  <1> QED
    BY <1>1, RentInvariance, PTL
=============================================================================
