-------------------------- MODULE BondPagesProofs --------------------------
(***************************************************************************)
(* Proofs about BondPages, for any number of requests and pages.           *)
(*                                                                         *)
(* IInv is inductive.  Its heart is that a reading of Stripe is never       *)
(* false about what is final (ReadingIsTrue) and never older than the news *)
(* it answers (ReadingShowsNews): then applyCheckoutOutcome can be applied *)
(* late, twice, or out of order and the records stay true                  *)
(* (ApplyKeepsRecords).  One lemma follows for each step of the requests.  *)
(***************************************************************************)
EXTENDS BondPages, Sums

-----------------------------------------------------------------------------
(* What several steps share.                                               *)

\* Applying a true reading of a page (applyCheckoutOutcome) keeps the records true,
\* settles what the reading settles, and takes nothing back.
LEMMA ApplyKeepsRecords ==
  ASSUME IInv, NEW s \in Pages, NEW o \in Outcomes, ReadingIsTrue(s, o),
         ApplyCheckoutOutcome(s, o), UNCHANGED <<session, intent>>
  PROVE  /\ row' \in [Pages -> {"none", "open", "complete", "expired"}]
         /\ payment' \in [Pages -> PaymentStates]
         /\ credits' \in [Pages -> {0, 1}]
         /\ RowsAreTrue'
         /\ RecordedIsTrue'
         /\ \A t \in Pages :
               /\ row[t] = "none" <=> row'[t] = "none"
               /\ row[t] # "open" => row'[t] = row[t]
               /\ payment[t] \in {"succeeded", "failed"} => payment'[t] = payment[t]
               /\ payment[t] # "none" => payment'[t] # "none"
               /\ credits'[t] >= credits[t]
         /\ o.state \in {"complete", "expired"} => row'[s] # "open"
         /\ o.state = "complete" => payment'[s] # "none"
         /\ o.state = "expired" => payment'[s] = payment[s]
         /\ o.pay = "paid" => payment'[s] = "succeeded"
         /\ o.pay = "failed" => payment'[s] = "failed"
  <1> DEFINE status == PaymentStatusOf(o.pay)
  <1> USE DEF IInv, TypeOK, StripeTypeOK, DatabaseTypeOK, ReadingIsTrue, Outcomes
  <1>1. /\ status \in {"pending", "succeeded", "failed"}
        /\ o.pay = "paid" <=> status = "succeeded"
        /\ o.pay = "processing" <=> status = "pending"
    BY DEF PaymentStatusOf, IntentStates
  <1>2. /\ row' \in [Pages -> {"none", "open", "complete", "expired"}]
        /\ \A t \in Pages :
              row'[t] = IF t = s /\ o.state \in {"complete", "expired"} /\ row[t] = "open"
                        THEN o.state ELSE row[t]
    BY DEF ApplyCheckoutOutcome, Settle
  <1>3. /\ payment' \in [Pages -> PaymentStates]
        /\ \A t \in Pages :
              payment'[t] = IF t = s /\ o.state = "complete" /\ Moves(s, status)
                            THEN status ELSE payment[t]
    BY <1>1 DEF ApplyCheckoutOutcome, RecordBondPayment, PaymentStates
  <1>4. /\ credits' \in [Pages -> {0, 1}]
        /\ \A t \in Pages :
              credits'[t] = IF t = s /\ o.state = "complete" /\ Moves(s, status)
                                     /\ status = "succeeded"
                            THEN 1 ELSE credits[t]
    BY DEF ApplyCheckoutOutcome, RecordBondPayment, Credit
  <1>5. o.state = "complete" => intent[s] # "none" /\ session[s] = "complete"
    BY DEF StripeIsTrue
  <1>6. RecordedIsTrue'
    BY <1>1, <1>3, <1>4, <1>5 DEF RecordedIsTrue, Moves, IntentStates
  <1>7. RowsAreTrue'
    BY <1>1, <1>2, <1>3 DEF RowsAreTrue, OpenRows, Moves, PaymentStates
  <1>8. o.pay = "paid" => payment'[s] = "succeeded"
    BY <1>1, <1>3 DEF RecordedIsTrue, Moves, PaymentStates
  <1>9. o.pay = "failed" => payment'[s] = "failed"
    BY <1>1, <1>3 DEF RecordedIsTrue, Moves, PaymentStates, IntentStates
  <1> QED
    BY <1>1, <1>2, <1>3, <1>4, <1>6, <1>7, <1>8, <1>9 DEF Moves

\* Nothing opened, nothing recorded: the invariant holds at the start.
LEMMA InitIInv == Init => IInv
  BY CrashBound
     DEF Init, IInv, TypeOK, StripeTypeOK, DatabaseTypeOK, RequestTypeOK, StepsOfKind,
         StripeIsTrue, RowsAreTrue, JustOpenedIsPrivate, RequestsAreTrue, RecordedIsTrue,
         HandledIsApplied, Procs, SessionStates, IntentStates, PaymentStates, Outcomes,
         NothingRead, Steps, OpenRows

\* Each part of the invariant rests only on the variables it speaks of.
LEMMA Frames ==
  ASSUME IInv
  PROVE  /\ UNCHANGED <<session, intent, age, sent, access, handed>> => StripeTypeOK'
         /\ UNCHANGED <<rentalOpen, row, payment, credits, entry, reversed, handled, connected>>
              => DatabaseTypeOK'
         /\ UNCHANGED <<pc, found, opened, seen, event, crashes>> => RequestTypeOK'
         /\ UNCHANGED pc => StepsOfKind'
         /\ UNCHANGED <<session, intent, handed, sent, handled>> => StripeIsTrue'
         /\ UNCHANGED <<session, row, payment>> => RowsAreTrue'
         /\ UNCHANGED <<pc, opened, session, row, handed>> => JustOpenedIsPrivate'
         /\ UNCHANGED <<pc, found, row, event, sent, seen, session, intent>> => RequestsAreTrue'
         /\ UNCHANGED <<intent, payment, credits>> => RecordedIsTrue'
         /\ UNCHANGED <<handled, payment, row>> => HandledIsApplied'
  <1>1. UNCHANGED <<session, intent, age, sent, access, handed>> => StripeTypeOK'
    BY DEF IInv, TypeOK, StripeTypeOK
  <1>2. UNCHANGED <<rentalOpen, row, payment, credits, entry, reversed, handled, connected>>
          => DatabaseTypeOK'
    BY DEF IInv, TypeOK, DatabaseTypeOK
  <1>3. UNCHANGED <<pc, found, opened, seen, event, crashes>> => RequestTypeOK'
    BY DEF IInv, TypeOK, RequestTypeOK
  <1>4. UNCHANGED pc => StepsOfKind'
    BY DEF IInv, StepsOfKind
  <1>5. UNCHANGED <<session, intent, handed, sent, handled>> => StripeIsTrue'
    BY DEF IInv, StripeIsTrue
  <1>6. UNCHANGED <<session, row, payment>> => RowsAreTrue'
    BY DEF IInv, RowsAreTrue, OpenRows
  <1>7. UNCHANGED <<pc, opened, session, row, handed>> => JustOpenedIsPrivate'
    BY DEF IInv, JustOpenedIsPrivate
  <1>8. UNCHANGED <<pc, found, row, event, sent, seen, session, intent>> => RequestsAreTrue'
    BY DEF IInv, RequestsAreTrue, ReadingIsTrue
  <1>9. UNCHANGED <<intent, payment, credits>> => RecordedIsTrue'
    BY DEF IInv, RecordedIsTrue
  <1>10. UNCHANGED <<handled, payment, row>> => HandledIsApplied'
    BY DEF IInv, HandledIsApplied, Applied
  <1> QED
    BY <1>1, <1>2, <1>3, <1>4, <1>5, <1>6, <1>7, <1>8, <1>9, <1>10

-----------------------------------------------------------------------------
(* A press of Pay the bond.                                                *)

\* startRenterCheckout's first read.
LEMMA PressFindKeeps ==
  ASSUME IInv, NEW p \in Presses, PressFind(p)
  PROVE  IInv'
  <1>1. StripeTypeOK' /\ DatabaseTypeOK' /\ StripeIsTrue' /\ RowsAreTrue' /\ RecordedIsTrue'
        /\ HandledIsApplied'
    BY Frames DEF PressFind, stripeVars, dbVars
  <1>2. RequestTypeOK'
    BY DEF IInv, PressFind, Goto, Steps, Procs, TypeOK, RequestTypeOK
  <1>3. StepsOfKind'
    BY RequestKinds DEF IInv, PressFind, Goto, Procs, TypeOK, RequestTypeOK, StepsOfKind
  <1>4. JustOpenedIsPrivate'
    BY RequestKinds, NullPage DEF IInv, PressFind, stripeVars, dbVars, Goto, Procs,
       TypeOK, StripeTypeOK, DatabaseTypeOK, RequestTypeOK, StripeIsTrue, RowsAreTrue,
       JustOpenedIsPrivate, RequestsAreTrue
  <1>5. RequestsAreTrue'
    BY RequestKinds, NullPage DEF IInv, PressFind, stripeVars, dbVars, Goto, Procs,
       NothingRead, Outcomes, Events, TypeOK, StripeTypeOK, DatabaseTypeOK, RequestTypeOK,
       StripeIsTrue, RowsAreTrue, JustOpenedIsPrivate, RequestsAreTrue, ReadingIsTrue,
       ReadingShowsNews
  <1> QED
    BY <1>1, <1>2, <1>3, <1>4, <1>5 DEF IInv, TypeOK

\* Its second read, and what is left to pay.
LEMMA PressOwingKeeps ==
  ASSUME IInv, NEW p \in Presses, PressOwing(p)
  PROVE  IInv'
  <1>1. StripeTypeOK' /\ DatabaseTypeOK' /\ StripeIsTrue' /\ RowsAreTrue' /\ RecordedIsTrue'
        /\ HandledIsApplied'
    BY Frames DEF PressOwing, stripeVars, dbVars
  <1>2. RequestTypeOK'
    BY DEF IInv, PressOwing, Goto, Steps, Procs, TypeOK, RequestTypeOK
  <1>3. StepsOfKind'
    BY RequestKinds DEF IInv, PressOwing, Goto, Procs, TypeOK, RequestTypeOK, StepsOfKind
  <1>4. JustOpenedIsPrivate'
    BY RequestKinds, NullPage DEF IInv, PressOwing, stripeVars, dbVars, Goto, Procs,
       TypeOK, StripeTypeOK, DatabaseTypeOK, RequestTypeOK, StripeIsTrue, RowsAreTrue,
       JustOpenedIsPrivate, RequestsAreTrue
  <1>5. RequestsAreTrue'
    BY RequestKinds, NullPage DEF IInv, PressOwing, stripeVars, dbVars, Goto, Procs,
       NothingRead, Outcomes, Events, TypeOK, StripeTypeOK, DatabaseTypeOK, RequestTypeOK,
       StripeIsTrue, RowsAreTrue, JustOpenedIsPrivate, RequestsAreTrue, ReadingIsTrue,
       ReadingShowsNews
  <1> QED
    BY <1>1, <1>2, <1>3, <1>4, <1>5 DEF IInv, TypeOK

\* reusableBondPage hands out a page whose row exists, so one Stripe has opened.
LEMMA PressReuseKeeps ==
  ASSUME IInv, NEW p \in Presses, PressReuse(p)
  PROVE  IInv'
  <1>1. DatabaseTypeOK' /\ RowsAreTrue' /\ RecordedIsTrue' /\ HandledIsApplied'
    BY Frames DEF PressReuse, stripeVars, dbVars
  <1>2. StripeTypeOK'
    BY DEF IInv, PressReuse, Reusable, stripeVars, StripeTypeOK, TypeOK
  <1>3. RequestTypeOK'
    BY DEF IInv, PressReuse, Reusable, Goto, Steps, Procs, TypeOK, RequestTypeOK
  <1>4. StepsOfKind'
    BY RequestKinds DEF IInv, PressReuse, Reusable, Goto, Procs, TypeOK, RequestTypeOK,
       StepsOfKind
  <1>5. StripeIsTrue'
    BY DEF IInv, PressReuse, Reusable, stripeVars, dbVars, Events, TypeOK, StripeTypeOK,
       DatabaseTypeOK, RequestTypeOK, StripeIsTrue, JustOpenedIsPrivate, RequestsAreTrue,
       RowsAreTrue
  <1>6. JustOpenedIsPrivate'
    BY RequestKinds, NullPage DEF IInv, PressReuse, Reusable, stripeVars, dbVars, Goto,
       Procs, TypeOK, StripeTypeOK, DatabaseTypeOK, RequestTypeOK, StripeIsTrue,
       RowsAreTrue, JustOpenedIsPrivate, RequestsAreTrue
  <1>7. RequestsAreTrue'
    BY RequestKinds, NullPage DEF IInv, PressReuse, Reusable, stripeVars, dbVars, Goto,
       Procs, NothingRead, Outcomes, Events, TypeOK, StripeTypeOK, DatabaseTypeOK,
       RequestTypeOK, StripeIsTrue, RowsAreTrue, JustOpenedIsPrivate, RequestsAreTrue,
       ReadingIsTrue, ReadingShowsNews
  <1> QED
    BY <1>1, <1>2, <1>3, <1>4, <1>5, <1>6, <1>7 DEF IInv, TypeOK

\* isWithinLinkLimit changes nothing but the step.
LEMMA PressLimitKeeps ==
  ASSUME IInv, NEW p \in Presses, PressLimit(p)
  PROVE  IInv'
  <1>1. StripeTypeOK' /\ DatabaseTypeOK' /\ StripeIsTrue' /\ RowsAreTrue' /\ RecordedIsTrue'
        /\ HandledIsApplied'
    BY Frames DEF PressLimit, stripeVars, dbVars
  <1>2. RequestTypeOK'
    BY DEF IInv, PressLimit, Goto, Steps, Procs, TypeOK, RequestTypeOK
  <1>3. StepsOfKind'
    BY RequestKinds DEF IInv, PressLimit, Goto, Procs, TypeOK, RequestTypeOK, StepsOfKind
  <1>4. JustOpenedIsPrivate'
    BY RequestKinds, NullPage DEF IInv, PressLimit, stripeVars, dbVars, Goto, Procs,
       TypeOK, StripeTypeOK, DatabaseTypeOK, RequestTypeOK, StripeIsTrue, RowsAreTrue,
       JustOpenedIsPrivate, RequestsAreTrue
  <1>5. RequestsAreTrue'
    BY RequestKinds, NullPage DEF IInv, PressLimit, stripeVars, dbVars, Goto, Procs,
       NothingRead, Outcomes, Events, TypeOK, StripeTypeOK, DatabaseTypeOK, RequestTypeOK,
       StripeIsTrue, RowsAreTrue, JustOpenedIsPrivate, RequestsAreTrue, ReadingIsTrue,
       ReadingShowsNews
  <1> QED
    BY <1>1, <1>2, <1>3, <1>4, <1>5 DEF IInv, TypeOK

\* The page Stripe opens is new: no other press has it, and no row.
LEMMA PressStartKeeps ==
  ASSUME IInv, NEW p \in Presses, NEW s \in Pages, PressStart(p, s)
  PROVE  IInv'
  <1>1. DatabaseTypeOK' /\ RecordedIsTrue' /\ HandledIsApplied'
    BY Frames DEF PressStart, dbVars
  <1>2. StripeTypeOK'
    BY DEF IInv, PressStart, StripeTypeOK, SessionStates, TypeOK
  <1>3. RequestTypeOK'
    BY DEF IInv, PressStart, Goto, Steps, Procs, TypeOK, RequestTypeOK
  <1>4. StepsOfKind'
    BY RequestKinds DEF IInv, PressStart, Goto, Procs, TypeOK, RequestTypeOK, StepsOfKind
  <1>5. StripeIsTrue'
    BY DEF IInv, PressStart, dbVars, Events, TypeOK, StripeTypeOK, DatabaseTypeOK,
       RequestTypeOK, StripeIsTrue, JustOpenedIsPrivate, RequestsAreTrue, RowsAreTrue
  <1>6. RowsAreTrue'
    BY DEF IInv, PressStart, dbVars, TypeOK, StripeTypeOK, DatabaseTypeOK, RequestTypeOK,
       StripeIsTrue, RowsAreTrue, JustOpenedIsPrivate, RequestsAreTrue, RecordedIsTrue,
       OpenRows
  <1>7. JustOpenedIsPrivate'
    BY RequestKinds, NullPage DEF IInv, PressStart, dbVars, Goto, Procs, TypeOK,
       StripeTypeOK, DatabaseTypeOK, RequestTypeOK, StripeIsTrue, RowsAreTrue,
       JustOpenedIsPrivate, RequestsAreTrue
  <1>8. RequestsAreTrue'
    BY RequestKinds, NullPage DEF IInv, PressStart, dbVars, Goto, Procs, NothingRead,
       Outcomes, Events, TypeOK, StripeTypeOK, DatabaseTypeOK, RequestTypeOK, StripeIsTrue,
       RowsAreTrue, JustOpenedIsPrivate, RequestsAreTrue, ReadingIsTrue, ReadingShowsNews
  <1> QED
    BY <1>1, <1>2, <1>3, <1>4, <1>5, <1>6, <1>7, <1>8 DEF IInv, TypeOK

\* saveCheckout: the only row open is the one saved, by its index.
LEMMA PressSaveKeeps ==
  ASSUME IInv, NEW p \in Presses, PressSave(p)
  PROVE  IInv'
  <1>1. RecordedIsTrue'
    BY Frames DEF PressSave, stripeVars
  <1>2. StripeTypeOK'
    BY DEF PressSave, OpenRows, stripeVars, IInv, TypeOK, StripeTypeOK,
       JustOpenedIsPrivate
  <1>3. DatabaseTypeOK'
    BY DEF IInv, PressSave, OpenRows, PaymentStates, TypeOK, DatabaseTypeOK
  <1>4. RequestTypeOK'
    BY DEF IInv, PressSave, OpenRows, Goto, Steps, Procs, TypeOK, RequestTypeOK
  <1>5. StepsOfKind'
    BY RequestKinds DEF IInv, PressSave, OpenRows, Goto, Procs, TypeOK, RequestTypeOK,
       StepsOfKind
  <1>6. StripeIsTrue'
    BY DEF IInv, PressSave, OpenRows, stripeVars, Events, TypeOK, StripeTypeOK,
       DatabaseTypeOK, RequestTypeOK, StripeIsTrue, JustOpenedIsPrivate, RequestsAreTrue,
       RowsAreTrue
  <1>7. RowsAreTrue'
    BY DEF IInv, PressSave, OpenRows, stripeVars, TypeOK, StripeTypeOK, DatabaseTypeOK,
       RequestTypeOK, StripeIsTrue, RowsAreTrue, JustOpenedIsPrivate, RequestsAreTrue,
       RecordedIsTrue
  <1>8. JustOpenedIsPrivate'
    BY RequestKinds, NullPage DEF IInv, PressSave, OpenRows, stripeVars, Goto, Procs,
       TypeOK, StripeTypeOK, DatabaseTypeOK, RequestTypeOK, StripeIsTrue, RowsAreTrue,
       JustOpenedIsPrivate, RequestsAreTrue
  <1>9. RequestsAreTrue'
    BY RequestKinds, NullPage DEF IInv, PressSave, OpenRows, stripeVars, Goto, Procs,
       NothingRead, Outcomes, Events, TypeOK, StripeTypeOK, DatabaseTypeOK, RequestTypeOK,
       StripeIsTrue, RowsAreTrue, JustOpenedIsPrivate, RequestsAreTrue, ReadingIsTrue,
       ReadingShowsNews
  <1>10. HandledIsApplied'
    <2>1. /\ UNCHANGED <<payment, handled>> /\ opened[p] \in Pages
          /\ session[opened[p]] = "open"
          /\ \A s \in Pages : s # opened[p] => row'[s] = row[s]
      BY DEF PressSave, IInv, TypeOK, DatabaseTypeOK, JustOpenedIsPrivate
    <2>2. ASSUME NEW e \in handled
          PROVE  Applied(e)'
      <3>1. e \in sent /\ e.page \in Pages /\ Applied(e)
        BY DEF IInv, TypeOK, StripeTypeOK, StripeIsTrue, HandledIsApplied, Events
      <3>2. e.type \in {"completed", "expired"} => e.page # opened[p]
        BY <2>1, <3>1 DEF IInv, StripeIsTrue
      <3>3. /\ payment'[e.page] = payment[e.page]
            /\ e.type \in {"completed", "expired"} => row'[e.page] = row[e.page]
        BY <2>1, <3>1, <3>2
      <3>4. e.type \in EventTypes
        BY <3>1 DEF IInv, TypeOK, StripeTypeOK, Events
      <3>5. CASE e.type \in {"completed", "expired"}
        BY <3>1, <3>3, <3>5 DEF Applied
      <3>6. CASE e.type \in {"async_succeeded", "async_failed"}
        BY <3>1, <3>3, <3>6 DEF Applied
      <3> QED
        BY <3>4, <3>5, <3>6 DEF EventTypes
    <2> QED
      BY <2>1, <2>2 DEF HandledIsApplied
  <1> QED
    BY <1>1, <1>2, <1>3, <1>4, <1>5, <1>6, <1>7, <1>8, <1>9, <1>10 DEF IInv, TypeOK

\* findOpenBondCheckout after a lost save.
LEMMA PressConflictKeeps ==
  ASSUME IInv, NEW p \in Presses, PressConflict(p)
  PROVE  IInv'
  <1>1. DatabaseTypeOK' /\ RowsAreTrue' /\ RecordedIsTrue' /\ HandledIsApplied'
    BY Frames DEF PressConflict, stripeVars, dbVars
  <1>2. StripeTypeOK'
    BY DEF PressConflict, OpenRows, stripeVars, IInv, TypeOK, StripeTypeOK,
       JustOpenedIsPrivate
  <1>3. RequestTypeOK'
    BY DEF IInv, PressConflict, OpenRows, Goto, Steps, Procs, TypeOK, RequestTypeOK
  <1>4. StepsOfKind'
    BY RequestKinds DEF IInv, PressConflict, OpenRows, Goto, Procs, TypeOK,
       RequestTypeOK, StepsOfKind
  <1>5. StripeIsTrue'
    BY DEF IInv, PressConflict, OpenRows, stripeVars, dbVars, Events, TypeOK,
       StripeTypeOK, DatabaseTypeOK, RequestTypeOK, StripeIsTrue, JustOpenedIsPrivate,
       RequestsAreTrue, RowsAreTrue
  <1>6. JustOpenedIsPrivate'
    BY RequestKinds, NullPage DEF IInv, PressConflict, OpenRows, stripeVars, dbVars,
       Goto, Procs, TypeOK, StripeTypeOK, DatabaseTypeOK, RequestTypeOK, StripeIsTrue,
       RowsAreTrue, JustOpenedIsPrivate, RequestsAreTrue
  <1>7. RequestsAreTrue'
    BY RequestKinds, NullPage DEF IInv, PressConflict, OpenRows, stripeVars, dbVars,
       Goto, Procs, NothingRead, Outcomes, Events, TypeOK, StripeTypeOK, DatabaseTypeOK,
       RequestTypeOK, StripeIsTrue, RowsAreTrue, JustOpenedIsPrivate, RequestsAreTrue,
       ReadingIsTrue, ReadingShowsNews
  <1> QED
    BY <1>1, <1>2, <1>3, <1>4, <1>5, <1>6, <1>7 DEF IInv, TypeOK

\* The page that lost was nobody else's, so expiring it makes no reading untrue.
LEMMA PressExpireOwnKeeps ==
  ASSUME IInv, NEW p \in Presses, PressExpireOwn(p)
  PROVE  IInv'
  <1>1. DatabaseTypeOK' /\ RecordedIsTrue' /\ HandledIsApplied'
    BY Frames DEF PressExpireOwn, ExpireAtStripe, dbVars
  <1>2. StripeTypeOK'
    BY DEF PressExpireOwn, ExpireAtStripe, IInv, TypeOK, StripeTypeOK,
       JustOpenedIsPrivate, RequestsAreTrue, Procs, SessionStates, Events, EventTypes
  <1>3. RequestTypeOK'
    BY DEF IInv, PressExpireOwn, ExpireAtStripe, Goto, Steps, Procs, TypeOK,
       RequestTypeOK
  <1>4. StepsOfKind'
    BY RequestKinds DEF IInv, PressExpireOwn, ExpireAtStripe, Goto, Procs, TypeOK,
       RequestTypeOK, StepsOfKind, Events
  <1>5. StripeIsTrue'
    <2> USE DEF IInv, TypeOK, StripeTypeOK
    <2>1. /\ opened[p] \in Pages /\ session[opened[p]] = "open"
          /\ found[p] \in Pages /\ session[found[p]] # "unborn"
      BY RequestKinds, NullPage
         DEF PressExpireOwn, JustOpenedIsPrivate, RequestsAreTrue, RowsAreTrue, Procs
    <2>2. /\ session' = [session EXCEPT ![opened[p]] = "expired"]
          /\ sent' = sent \cup {[page |-> opened[p], type |-> "expired"]}
          /\ handed' = handed \cup {found[p]} /\ UNCHANGED <<intent, handled>>
      BY <2>1 DEF PressExpireOwn, ExpireAtStripe, dbVars
    <2> QED
      BY <2>1, <2>2 DEF StripeIsTrue, Events
  <1>6. RowsAreTrue'
    BY DEF IInv, PressExpireOwn, ExpireAtStripe, dbVars, TypeOK, StripeTypeOK,
       DatabaseTypeOK, RequestTypeOK, StripeIsTrue, RowsAreTrue, JustOpenedIsPrivate,
       RequestsAreTrue, RecordedIsTrue, OpenRows, Events
  <1>7. JustOpenedIsPrivate'
    BY RequestKinds, NullPage DEF IInv, PressExpireOwn, ExpireAtStripe, dbVars, Goto,
       Procs, TypeOK, StripeTypeOK, DatabaseTypeOK, RequestTypeOK, StripeIsTrue,
       RowsAreTrue, JustOpenedIsPrivate, RequestsAreTrue, Events
  <1>8. RequestsAreTrue'
    BY RequestKinds, NullPage DEF IInv, PressExpireOwn, ExpireAtStripe, dbVars, Goto,
       Procs, NothingRead, Outcomes, Events, TypeOK, StripeTypeOK, DatabaseTypeOK,
       RequestTypeOK, StripeIsTrue, RowsAreTrue, JustOpenedIsPrivate, RequestsAreTrue,
       ReadingIsTrue, ReadingShowsNews
  <1> QED
    BY <1>1, <1>2, <1>3, <1>4, <1>5, <1>6, <1>7, <1>8 DEF IInv, TypeOK

-----------------------------------------------------------------------------
(* A bond entry by hand, and its correction.                               *)

\* recordBondReceived's lock and first read.
LEMMA ClerkFindKeeps ==
  ASSUME IInv, NEW c \in Clerks, ClerkFind(c)
  PROVE  IInv'
  <1>1. StripeTypeOK' /\ DatabaseTypeOK' /\ StripeIsTrue' /\ RowsAreTrue' /\ RecordedIsTrue'
        /\ HandledIsApplied'
    BY Frames DEF ClerkFind, stripeVars, dbVars
  <1>2. RequestTypeOK'
    BY DEF IInv, ClerkFind, Goto, Steps, Procs, TypeOK, RequestTypeOK
  <1>3. StepsOfKind'
    BY RequestKinds DEF IInv, ClerkFind, Goto, Procs, TypeOK, RequestTypeOK, StepsOfKind
  <1>4. JustOpenedIsPrivate'
    BY RequestKinds, NullPage DEF IInv, ClerkFind, stripeVars, dbVars, Goto, Procs,
       TypeOK, StripeTypeOK, DatabaseTypeOK, RequestTypeOK, StripeIsTrue, RowsAreTrue,
       JustOpenedIsPrivate, RequestsAreTrue
  <1>5. RequestsAreTrue'
    BY RequestKinds, NullPage DEF IInv, ClerkFind, stripeVars, dbVars, Goto, Procs,
       NothingRead, Outcomes, Events, TypeOK, StripeTypeOK, DatabaseTypeOK, RequestTypeOK,
       StripeIsTrue, RowsAreTrue, JustOpenedIsPrivate, RequestsAreTrue, ReadingIsTrue,
       ReadingShowsNews
  <1> QED
    BY <1>1, <1>2, <1>3, <1>4, <1>5 DEF IInv, TypeOK

\* recordBondReceived's check and entry.
LEMMA ClerkRecordKeeps ==
  ASSUME IInv, NEW c \in Clerks, NEW a \in HandAmounts, ClerkRecord(c, a)
  PROVE  IInv'
  <1>1. StripeTypeOK' /\ StripeIsTrue' /\ RowsAreTrue' /\ RecordedIsTrue' /\
        HandledIsApplied'
    BY Frames DEF ClerkRecord, stripeVars
  <1>2. DatabaseTypeOK'
    BY DEF IInv, ClerkRecord, PaymentStates, TypeOK, DatabaseTypeOK
  <1>3. RequestTypeOK'
    BY DEF IInv, ClerkRecord, Goto, Steps, Procs, TypeOK, RequestTypeOK
  <1>4. StepsOfKind'
    BY RequestKinds DEF IInv, ClerkRecord, Goto, Procs, TypeOK, RequestTypeOK,
       StepsOfKind
  <1>5. JustOpenedIsPrivate'
    BY RequestKinds, NullPage DEF IInv, ClerkRecord, stripeVars, Goto, Procs, TypeOK,
       StripeTypeOK, DatabaseTypeOK, RequestTypeOK, StripeIsTrue, RowsAreTrue,
       JustOpenedIsPrivate, RequestsAreTrue
  <1>6. RequestsAreTrue'
    BY RequestKinds, NullPage DEF IInv, ClerkRecord, stripeVars, Goto, Procs,
       NothingRead, Outcomes, Events, TypeOK, StripeTypeOK, DatabaseTypeOK, RequestTypeOK,
       StripeIsTrue, RowsAreTrue, JustOpenedIsPrivate, RequestsAreTrue, ReadingIsTrue,
       ReadingShowsNews
  <1> QED
    BY <1>1, <1>2, <1>3, <1>4, <1>5, <1>6 DEF IInv, TypeOK

\* reverseBondMovement touches no payment.
LEMMA ReverseEntryKeeps ==
  ASSUME IInv, NEW c \in Clerks, ReverseEntry(c)
  PROVE  IInv'
  <1>1. StripeTypeOK' /\ RequestTypeOK' /\ StepsOfKind' /\ StripeIsTrue' /\ RowsAreTrue' /\
        JustOpenedIsPrivate' /\ RequestsAreTrue' /\ RecordedIsTrue' /\ HandledIsApplied'
    BY Frames DEF ReverseEntry, stripeVars, procVars
  <1>2. DatabaseTypeOK'
    BY DEF IInv, ReverseEntry, PaymentStates, TypeOK, DatabaseTypeOK
  <1> QED
    BY <1>1, <1>2 DEF IInv, TypeOK

\* Nor does the end of the rental.
LEMMA RentalEndsKeeps ==
  ASSUME IInv, RentalEnds
  PROVE  IInv'
  <1>1. StripeTypeOK' /\ RequestTypeOK' /\ StepsOfKind' /\ StripeIsTrue' /\ RowsAreTrue' /\
        JustOpenedIsPrivate' /\ RequestsAreTrue' /\ RecordedIsTrue' /\ HandledIsApplied'
    BY Frames DEF RentalEnds, stripeVars, procVars
  <1>2. DatabaseTypeOK'
    BY DEF IInv, RentalEnds, PaymentStates, TypeOK, DatabaseTypeOK
  <1> QED
    BY <1>1, <1>2 DEF IInv, TypeOK

-----------------------------------------------------------------------------
(* Retiring a page, and the visit's return.                                *)

\* findOpenBondCheckout finds a page whose row exists.
LEMMA RetireFindKeeps ==
  ASSUME IInv, NEW p \in Procs, RetireFind(p)
  PROVE  IInv'
  <1>1. StripeTypeOK' /\ DatabaseTypeOK' /\ StripeIsTrue' /\ RowsAreTrue' /\ RecordedIsTrue'
        /\ HandledIsApplied'
    BY Frames DEF RetireFind, stripeVars, dbVars
  <1>2. RequestTypeOK'
    BY DEF IInv, RetireFind, OpenRows, Goto, Steps, Procs, TypeOK, RequestTypeOK
  <1>3. StepsOfKind'
    BY RequestKinds DEF IInv, RetireFind, OpenRows, Goto, Procs, TypeOK, RequestTypeOK,
       StepsOfKind
  <1>4. JustOpenedIsPrivate'
    BY RequestKinds, NullPage DEF IInv, RetireFind, OpenRows, stripeVars, dbVars, Goto,
       Procs, TypeOK, StripeTypeOK, DatabaseTypeOK, RequestTypeOK, StripeIsTrue,
       RowsAreTrue, JustOpenedIsPrivate, RequestsAreTrue
  <1>5. RequestsAreTrue'
    BY RequestKinds, NullPage DEF IInv, RetireFind, OpenRows, stripeVars, dbVars, Goto,
       Procs, NothingRead, Outcomes, Events, TypeOK, StripeTypeOK, DatabaseTypeOK,
       RequestTypeOK, StripeIsTrue, RowsAreTrue, JustOpenedIsPrivate, RequestsAreTrue,
       ReadingIsTrue, ReadingShowsNews
  <1> QED
    BY <1>1, <1>2, <1>3, <1>4, <1>5 DEF IInv, TypeOK

\* expireCheckout moves only an open page, so final readings stay true.
LEMMA RetireExpireKeeps ==
  ASSUME IInv, NEW p \in Procs, RetireExpire(p)
  PROVE  IInv'
  <1>1. DatabaseTypeOK' /\ RecordedIsTrue' /\ HandledIsApplied'
    BY Frames DEF RetireExpire, ExpireAtStripe, dbVars
  <1>2. StripeTypeOK'
    BY DEF RetireExpire, ExpireAtStripe, IInv, TypeOK, StripeTypeOK, RequestsAreTrue,
       SessionStates, Events, EventTypes
  <1>3. RequestTypeOK'
    BY DEF IInv, RetireExpire, ExpireAtStripe, Goto, Steps, Procs, TypeOK, RequestTypeOK
  <1>4. StepsOfKind'
    BY RequestKinds DEF IInv, RetireExpire, ExpireAtStripe, Goto, Procs, TypeOK,
       RequestTypeOK, StepsOfKind, Events
  <1>5. StripeIsTrue'
    BY DEF IInv, RetireExpire, ExpireAtStripe, dbVars, Events, TypeOK, StripeTypeOK,
       DatabaseTypeOK, RequestTypeOK, StripeIsTrue, JustOpenedIsPrivate, RequestsAreTrue,
       RowsAreTrue
  <1>6. RowsAreTrue'
    BY DEF IInv, RetireExpire, ExpireAtStripe, dbVars, TypeOK, StripeTypeOK,
       DatabaseTypeOK, RequestTypeOK, StripeIsTrue, RowsAreTrue, JustOpenedIsPrivate,
       RequestsAreTrue, RecordedIsTrue, OpenRows, Events
  <1>7. JustOpenedIsPrivate'
    <2> USE DEF IInv, TypeOK, StripeTypeOK, RequestTypeOK, Procs
    <2>1. found[p] \in Pages /\ row[found[p]] # "none"
      BY NullPage DEF RetireExpire, RequestsAreTrue, StepsOfKind
    <2>2. /\ pc' = [pc EXCEPT ![p] = "read"] /\ UNCHANGED <<opened, row, handed>>
          /\ session' \in [Pages -> SessionStates]
          /\ \A s \in Pages : s # found[p] => session'[s] = session[s]
          /\ session'[found[p]] # "unborn"
      BY <2>1 DEF RetireExpire, ExpireAtStripe, Goto, dbVars, SessionStates, RowsAreTrue
    <2> QED
      BY <2>1, <2>2 DEF JustOpenedIsPrivate
  <1>8. RequestsAreTrue'
    BY RequestKinds, NullPage DEF IInv, RetireExpire, ExpireAtStripe, dbVars, Goto,
       Procs, NothingRead, Outcomes, Events, TypeOK, StripeTypeOK, DatabaseTypeOK,
       RequestTypeOK, StripeIsTrue, RowsAreTrue, JustOpenedIsPrivate, RequestsAreTrue,
       ReadingIsTrue, ReadingShowsNews
  <1> QED
    BY <1>1, <1>2, <1>3, <1>4, <1>5, <1>6, <1>7, <1>8 DEF IInv, TypeOK

\* openCheckoutsOfLink finds a page whose row exists.
LEMMA VisitFindKeeps ==
  ASSUME IInv, NEW v \in Visits, VisitFind(v)
  PROVE  IInv'
  <1>1. StripeTypeOK' /\ DatabaseTypeOK' /\ StripeIsTrue' /\ RowsAreTrue' /\ RecordedIsTrue'
        /\ HandledIsApplied'
    BY Frames DEF VisitFind, stripeVars, dbVars
  <1>2. RequestTypeOK'
    BY DEF IInv, VisitFind, OpenRows, Goto, Steps, Procs, TypeOK, RequestTypeOK
  <1>3. StepsOfKind'
    BY RequestKinds DEF IInv, VisitFind, OpenRows, Goto, Procs, TypeOK, RequestTypeOK,
       StepsOfKind
  <1>4. JustOpenedIsPrivate'
    BY RequestKinds, NullPage DEF IInv, VisitFind, OpenRows, stripeVars, dbVars, Goto,
       Procs, TypeOK, StripeTypeOK, DatabaseTypeOK, RequestTypeOK, StripeIsTrue,
       RowsAreTrue, JustOpenedIsPrivate, RequestsAreTrue
  <1>5. RequestsAreTrue'
    BY RequestKinds, NullPage DEF IInv, VisitFind, OpenRows, stripeVars, dbVars, Goto,
       Procs, NothingRead, Outcomes, Events, TypeOK, StripeTypeOK, DatabaseTypeOK,
       RequestTypeOK, StripeIsTrue, RowsAreTrue, JustOpenedIsPrivate, RequestsAreTrue,
       ReadingIsTrue, ReadingShowsNews
  <1> QED
    BY <1>1, <1>2, <1>3, <1>4, <1>5 DEF IInv, TypeOK

\* A reading is true when made, and no older than the news that led to it.
LEMMA ReadCheckoutKeeps ==
  ASSUME IInv, NEW p \in Procs, ReadCheckout(p)
  PROVE  IInv'
  <1>1. StripeTypeOK' /\ DatabaseTypeOK' /\ StripeIsTrue' /\ RowsAreTrue' /\ RecordedIsTrue'
        /\ HandledIsApplied'
    BY Frames DEF ReadCheckout, stripeVars, dbVars
  <1>2. RequestTypeOK'
    BY DEF ReadCheckout, Goto, IInv, TypeOK, StripeTypeOK, RequestTypeOK,
       RequestsAreTrue, Steps, Outcomes
  <1>3. StepsOfKind'
    BY RequestKinds DEF IInv, ReadCheckout, Goto, Procs, TypeOK, RequestTypeOK,
       StepsOfKind
  <1>4. JustOpenedIsPrivate'
    BY RequestKinds, NullPage DEF IInv, ReadCheckout, stripeVars, dbVars, Goto, Procs,
       TypeOK, StripeTypeOK, DatabaseTypeOK, RequestTypeOK, StripeIsTrue, RowsAreTrue,
       JustOpenedIsPrivate, RequestsAreTrue
  <1>5. RequestsAreTrue'
    <2> USE DEF IInv, RequestsAreTrue
    <2>1. /\ found[p] \in Pages
          /\ pc' = [pc EXCEPT ![p] = "apply"]
          /\ seen' = [seen EXCEPT ![p] = [state |-> session[found[p]], pay |-> intent[found[p]]]]
          /\ UNCHANGED <<session, intent, sent, row, found, event>>
      BY DEF ReadCheckout, Goto, stripeVars, dbVars
    <2>2. session[found[p]] # "unborn"
      BY <2>1, NullPage DEF ReadCheckout, StripeIsTrue, RowsAreTrue, TypeOK, StripeTypeOK,
                                  Events, EventTypes
    <2>3. seen'[p] = [state |-> session[found[p]], pay |-> intent[found[p]]]
      BY <2>1 DEF TypeOK, RequestTypeOK
    <2>4. ReadingIsTrue(found[p], seen'[p])
      BY <2>1, <2>2, <2>3 DEF ReadingIsTrue, StripeIsTrue
    <2>5. p \in Handlers => ReadingShowsNews(seen'[p], event[p].type)
      BY <2>1, <2>3 DEF ReadCheckout, ReadingShowsNews, StripeIsTrue, TypeOK, RequestTypeOK
    <2> QED
      BY <2>1, <2>4, <2>5 DEF TypeOK, RequestTypeOK, ReadingIsTrue, ReadCheckout
  <1> QED
    BY <1>1, <1>2, <1>3, <1>4, <1>5 DEF IInv, TypeOK

\* recordOutcome applies a reading that is still true where it is final.
LEMMA RecordOutcomeKeeps ==
  ASSUME IInv, NEW p \in Procs, RecordOutcome(p)
  PROVE  IInv'
  <1> USE DEF IInv, RequestsAreTrue
  <1> DEFINE s == found[p]  o == seen[p]
  <1>1. s \in Pages /\ o \in Outcomes /\ ReadingIsTrue(s, o)
    BY DEF RecordOutcome, TypeOK, RequestTypeOK
  <1>2. ApplyCheckoutOutcome(s, o) /\ UNCHANGED <<session, intent>>
    BY DEF RecordOutcome, stripeVars
  <1>3. /\ RowsAreTrue' /\ RecordedIsTrue'
        /\ row' \in [Pages -> {"none", "open", "complete", "expired"}]
        /\ payment' \in [Pages -> PaymentStates]
        /\ credits' \in [Pages -> {0, 1}]
        /\ \A t \in Pages :
              /\ row[t] = "none" <=> row'[t] = "none"
              /\ row[t] # "open" => row'[t] = row[t]
              /\ payment[t] \in {"succeeded", "failed"} => payment'[t] = payment[t]
              /\ payment[t] # "none" => payment'[t] # "none"
        /\ o.state \in {"complete", "expired"} => row'[s] # "open"
        /\ o.state = "complete" => payment'[s] # "none"
    BY <1>1, <1>2, ApplyKeepsRecords
  <1>4. StripeTypeOK' /\ StripeIsTrue'
    BY Frames DEF RecordOutcome, stripeVars
  <1>5. DatabaseTypeOK'
    BY <1>3 DEF RecordOutcome, ApplyCheckoutOutcome, TypeOK, DatabaseTypeOK
  <1>6. RequestTypeOK'
    BY DEF RecordOutcome, AfterOutcome, Goto, TypeOK, RequestTypeOK, Steps
  <1>7. StepsOfKind'
    BY RequestKinds
       DEF RecordOutcome, AfterOutcome, Goto, Procs, TypeOK, RequestTypeOK, StepsOfKind
  <1>8. JustOpenedIsPrivate'
    BY <1>3 DEF RecordOutcome, AfterOutcome, Goto, stripeVars, TypeOK, RequestTypeOK,
                Procs, JustOpenedIsPrivate
  <1>9. RequestsAreTrue'
    BY <1>3 DEF RecordOutcome, AfterOutcome, Goto, stripeVars, TypeOK, RequestTypeOK,
                ReadingIsTrue
  <1>10. HandledIsApplied'
    <2>1. SUFFICES ASSUME NEW e \in handled
                   PROVE  Applied(e)'
      BY DEF HandledIsApplied, RecordOutcome
    <2>2. e \in Events /\ Applied(e) /\ e \in sent
      BY DEF TypeOK, DatabaseTypeOK, HandledIsApplied, StripeIsTrue
    <2>3. e.type = "expired" => session[e.page] = "expired" /\ intent'[e.page] = "none"
      BY <1>2, <2>2 DEF StripeIsTrue, Events
    <2>4. e.type = "expired" => payment'[e.page] = "none"
      BY <1>3, <2>2, <2>3 DEF RecordedIsTrue, Events, PaymentStates
    <2> QED
      BY <1>3, <2>2, <2>4 DEF Applied, Events, EventTypes
  <1> QED
    BY <1>3, <1>4, <1>5, <1>6, <1>7, <1>8, <1>9, <1>10 DEF TypeOK

-----------------------------------------------------------------------------
(* Stripe's messages.                                                      *)

\* An event delivered is news Stripe has.
LEMMA DeliverKeeps ==
  ASSUME IInv, NEW h \in Handlers, NEW e \in Events, Deliver(h, e)
  PROVE  IInv'
  <1>1. StripeTypeOK' /\ DatabaseTypeOK' /\ StripeIsTrue' /\ RowsAreTrue' /\ RecordedIsTrue'
        /\ HandledIsApplied'
    BY Frames DEF Deliver, stripeVars, dbVars
  <1>2. RequestTypeOK'
    BY DEF Deliver, Goto, IInv, TypeOK, RequestTypeOK, Steps, Procs, Events
  <1>3. StepsOfKind'
    BY RequestKinds DEF IInv, Deliver, Goto, Procs, TypeOK, RequestTypeOK, StepsOfKind
  <1>4. JustOpenedIsPrivate'
    BY RequestKinds, NullPage DEF IInv, Deliver, stripeVars, dbVars, Goto, Procs, TypeOK,
       StripeTypeOK, DatabaseTypeOK, RequestTypeOK, StripeIsTrue, RowsAreTrue,
       JustOpenedIsPrivate, RequestsAreTrue
  <1>5. RequestsAreTrue'
    BY RequestKinds, NullPage DEF IInv, Deliver, stripeVars, dbVars, Goto, Procs,
       NothingRead, Outcomes, Events, TypeOK, StripeTypeOK, DatabaseTypeOK, RequestTypeOK,
       StripeIsTrue, RowsAreTrue, JustOpenedIsPrivate, RequestsAreTrue, ReadingIsTrue,
       ReadingShowsNews
  <1> QED
    BY <1>1, <1>2, <1>3, <1>4, <1>5 DEF IInv, TypeOK

\* handlePaymentEvent marks the event handled and leaves its mark in one step.
LEMMA HandleEventKeeps ==
  ASSUME IInv, NEW h \in Handlers, HandleEvent(h)
  PROVE  IInv'
  <1> USE DEF IInv, RequestsAreTrue
  <1> DEFINE s == found[h]  o == seen[h]  e == event[h]
  <1>1. /\ s \in Pages /\ o \in Outcomes /\ ReadingIsTrue(s, o) /\ ReadingShowsNews(o, e.type)
        /\ e \in sent /\ e \in Events /\ s = e.page
    BY DEF HandleEvent, TypeOK, StripeTypeOK, RequestTypeOK, Procs
  <1>2. /\ UNCHANGED <<session, intent, age, sent, access, handed, opened, crashes>>
        /\ pc' = [pc EXCEPT ![h] = "idle"] /\ found' = [found EXCEPT ![h] = NoPage]
        /\ event' = [event EXCEPT ![h] = NoEvent] /\ seen' = [seen EXCEPT ![h] = NothingRead]
    BY DEF HandleEvent, Finish, Goto, stripeVars
  <1>3. StripeTypeOK'
    BY <1>2, Frames
  <1>4. RequestTypeOK'
    BY <1>2 DEF TypeOK, RequestTypeOK, Procs, Steps, NothingRead, Outcomes, SessionStates,
                IntentStates
  <1>5. StepsOfKind'
    BY <1>2, RequestKinds DEF TypeOK, RequestTypeOK, StepsOfKind, Procs
  <1>6. CASE e \in handled
    <2>1. UNCHANGED <<rentalOpen, row, payment, credits, entry, reversed, handled, connected>>
      BY <1>6 DEF HandleEvent, dbVars
    <2>2. /\ DatabaseTypeOK' /\ StripeIsTrue' /\ RowsAreTrue' /\ RecordedIsTrue'
          /\ HandledIsApplied'
      BY <1>2, <2>1, Frames
    <2>3. JustOpenedIsPrivate'
      BY <1>2, <2>1, RequestKinds DEF TypeOK, RequestTypeOK, Procs, JustOpenedIsPrivate
    <2>4. RequestsAreTrue'
      BY <1>2, <2>1 DEF TypeOK, RequestTypeOK, ReadingIsTrue
    <2> QED
      BY <1>3, <1>4, <1>5, <2>2, <2>3, <2>4 DEF TypeOK
  <1>7. CASE e \notin handled
    <2>1. /\ ApplyCheckoutOutcome(s, o) /\ handled' = handled \cup {e}
          /\ UNCHANGED <<rentalOpen, entry, reversed, connected>>
      BY <1>7 DEF HandleEvent, ApplyCheckoutOutcome
    <2>2. /\ RowsAreTrue' /\ RecordedIsTrue'
          /\ row' \in [Pages -> {"none", "open", "complete", "expired"}]
          /\ payment' \in [Pages -> PaymentStates]
          /\ credits' \in [Pages -> {0, 1}]
          /\ \A t \in Pages :
                /\ row[t] = "none" <=> row'[t] = "none"
                /\ row[t] # "open" => row'[t] = row[t]
                /\ payment[t] \in {"succeeded", "failed"} => payment'[t] = payment[t]
                /\ payment[t] # "none" => payment'[t] # "none"
          /\ o.state \in {"complete", "expired"} => row'[s] # "open"
          /\ o.state = "complete" => payment'[s] # "none"
          /\ o.pay = "paid" => payment'[s] = "succeeded"
          /\ o.pay = "failed" => payment'[s] = "failed"
      BY <1>1, <1>2, <2>1, ApplyKeepsRecords
    <2>3. DatabaseTypeOK'
      BY <1>1, <2>1, <2>2 DEF TypeOK, DatabaseTypeOK
    <2>4. StripeIsTrue'
      BY <1>1, <1>2, <2>1 DEF StripeIsTrue
    <2>5. JustOpenedIsPrivate'
      BY <1>2, <2>2, RequestKinds DEF TypeOK, RequestTypeOK, Procs, JustOpenedIsPrivate
    <2>6. RequestsAreTrue'
      BY <1>2, <2>2 DEF TypeOK, RequestTypeOK, ReadingIsTrue
    <2>7. HandledIsApplied'
      <3>1. SUFFICES ASSUME NEW f \in handled'
                     PROVE  Applied(f)'
        BY DEF HandledIsApplied
      <3>2. f \in Events /\ f \in sent
        BY <1>1, <2>1 DEF TypeOK, DatabaseTypeOK, StripeIsTrue
      <3>3. f.type = "expired" => payment'[f.page] = "none"
        BY <1>2, <2>2, <3>2 DEF StripeIsTrue, RecordedIsTrue, Events, PaymentStates
      <3>4. CASE f \in handled
        BY <2>2, <3>2, <3>3, <3>4 DEF HandledIsApplied, Applied, Events, EventTypes
      <3>5. CASE f = e
        BY <1>1, <2>2, <3>2, <3>3, <3>5 DEF ReadingShowsNews, Applied, Events, EventTypes
      <3> QED
        BY <2>1, <3>4, <3>5
    <2> QED
      BY <1>3, <1>4, <1>5, <2>2, <2>3, <2>4, <2>5, <2>6, <2>7 DEF TypeOK
  <1> QED
    BY <1>6, <1>7

-----------------------------------------------------------------------------
(* The Renter, the bank, and the clock.                                    *)

\* The Renter pays an open page.
LEMMA PayPageKeeps ==
  ASSUME IInv, NEW s \in Pages, NEW how \in {"paid", "processing"}, PayPage(s, how)
  PROVE  IInv'
  <1>1. DatabaseTypeOK' /\ RequestTypeOK' /\ StepsOfKind' /\ HandledIsApplied'
    BY Frames DEF PayPage, Send, dbVars, procVars
  <1>2. StripeTypeOK'
    BY DEF IInv, PayPage, Send, StripeTypeOK, SessionStates, IntentStates, Events,
       EventTypes, TypeOK
  <1>3. StripeIsTrue'
    BY DEF IInv, PayPage, Send, dbVars, Events, TypeOK, StripeTypeOK, DatabaseTypeOK,
       RequestTypeOK, StripeIsTrue, JustOpenedIsPrivate, RequestsAreTrue, RowsAreTrue
  <1>4. RowsAreTrue'
    BY DEF IInv, PayPage, Send, dbVars, TypeOK, StripeTypeOK, DatabaseTypeOK,
       RequestTypeOK, StripeIsTrue, RowsAreTrue, JustOpenedIsPrivate, RequestsAreTrue,
       RecordedIsTrue, OpenRows, Events
  <1>5. JustOpenedIsPrivate'
    BY RequestKinds, NullPage DEF IInv, PayPage, Send, dbVars, procVars, Procs, TypeOK,
       StripeTypeOK, DatabaseTypeOK, RequestTypeOK, StripeIsTrue, RowsAreTrue,
       JustOpenedIsPrivate, RequestsAreTrue, Events
  <1>6. RequestsAreTrue'
    BY RequestKinds, NullPage DEF IInv, PayPage, Send, dbVars, procVars, Procs,
       NothingRead, Outcomes, Events, TypeOK, StripeTypeOK, DatabaseTypeOK, RequestTypeOK,
       StripeIsTrue, RowsAreTrue, JustOpenedIsPrivate, RequestsAreTrue, ReadingIsTrue,
       ReadingShowsNews
  <1>7. RecordedIsTrue'
    BY DEF IInv, PayPage, Send, dbVars, TypeOK, StripeTypeOK, DatabaseTypeOK,
       RequestTypeOK, StripeIsTrue, RecordedIsTrue, RequestsAreTrue, Events
  <1> QED
    BY <1>1, <1>2, <1>3, <1>4, <1>5, <1>6, <1>7 DEF IInv, TypeOK

\* A debit clears or bounces: readings of it while processing claim nothing final.
LEMMA DebitSettlesKeeps ==
  ASSUME IInv, NEW s \in Pages, NEW how \in {"paid", "failed"}, DebitSettles(s, how)
  PROVE  IInv'
  <1>1. DatabaseTypeOK' /\ RequestTypeOK' /\ StepsOfKind' /\ RowsAreTrue' /\
        JustOpenedIsPrivate' /\ HandledIsApplied'
    BY Frames DEF DebitSettles, Send, dbVars, procVars
  <1>2. StripeTypeOK'
    BY DEF IInv, DebitSettles, Send, StripeTypeOK, IntentStates, Events, EventTypes,
       TypeOK
  <1>3. StripeIsTrue'
    BY DEF IInv, DebitSettles, Send, dbVars, Events, TypeOK, StripeTypeOK,
       DatabaseTypeOK, RequestTypeOK, StripeIsTrue, JustOpenedIsPrivate, RequestsAreTrue,
       RowsAreTrue
  <1>4. RequestsAreTrue'
    BY RequestKinds, NullPage DEF IInv, DebitSettles, Send, dbVars, procVars, Procs,
       NothingRead, Outcomes, Events, TypeOK, StripeTypeOK, DatabaseTypeOK, RequestTypeOK,
       StripeIsTrue, RowsAreTrue, JustOpenedIsPrivate, RequestsAreTrue, ReadingIsTrue,
       ReadingShowsNews
  <1>5. RecordedIsTrue'
    BY DEF IInv, DebitSettles, Send, dbVars, TypeOK, StripeTypeOK, DatabaseTypeOK,
       RequestTypeOK, StripeIsTrue, RecordedIsTrue, RequestsAreTrue, Events
  <1> QED
    BY <1>1, <1>2, <1>3, <1>4, <1>5 DEF IInv, TypeOK

\* The clock ages a page, and expires it at the end.
LEMMA PageAgesKeeps ==
  ASSUME IInv, NEW s \in Pages, PageAges(s)
  PROVE  IInv'
  <1>1. DatabaseTypeOK' /\ RequestTypeOK' /\ StepsOfKind' /\ RecordedIsTrue' /\
        HandledIsApplied'
    BY Frames DEF PageAges, ExpireAtStripe, dbVars, procVars
  <1>2. StripeTypeOK'
    BY DEF IInv, PageAges, ExpireAtStripe, JustOpened, StripeTypeOK, SessionStates,
       Events, EventTypes, TypeOK
  <1>3. StripeIsTrue'
    BY DEF IInv, PageAges, ExpireAtStripe, JustOpened, dbVars, Events, TypeOK,
       StripeTypeOK, DatabaseTypeOK, RequestTypeOK, StripeIsTrue, JustOpenedIsPrivate,
       RequestsAreTrue, RowsAreTrue
  <1>4. RowsAreTrue'
    BY DEF IInv, PageAges, ExpireAtStripe, JustOpened, dbVars, TypeOK, StripeTypeOK,
       DatabaseTypeOK, RequestTypeOK, StripeIsTrue, RowsAreTrue, JustOpenedIsPrivate,
       RequestsAreTrue, RecordedIsTrue, OpenRows, Events
  <1>5. JustOpenedIsPrivate'
    BY RequestKinds, NullPage DEF IInv, PageAges, ExpireAtStripe, JustOpened, dbVars,
       procVars, Procs, TypeOK, StripeTypeOK, DatabaseTypeOK, RequestTypeOK, StripeIsTrue,
       RowsAreTrue, JustOpenedIsPrivate, RequestsAreTrue, Events
  <1>6. RequestsAreTrue'
    BY RequestKinds, NullPage DEF IInv, PageAges, ExpireAtStripe, JustOpened, dbVars,
       procVars, Procs, NothingRead, Outcomes, Events, TypeOK, StripeTypeOK, DatabaseTypeOK,
       RequestTypeOK, StripeIsTrue, RowsAreTrue, JustOpenedIsPrivate, RequestsAreTrue,
       ReadingIsTrue, ReadingShowsNews
  <1> QED
    BY <1>1, <1>2, <1>3, <1>4, <1>5, <1>6 DEF IInv, TypeOK

\* A request given up leaves the records as they were.
LEMMA AbandonKeeps ==
  ASSUME IInv, NEW p \in Procs, Abandon(p), crashes' \in 0 .. MaxCrashes
  PROVE  IInv'
  <1>1. StripeTypeOK' /\ DatabaseTypeOK' /\ StripeIsTrue' /\ RowsAreTrue' /\ RecordedIsTrue'
        /\ HandledIsApplied'
    BY Frames DEF Abandon, Finish, stripeVars, dbVars
  <1>2. RequestTypeOK'
    <2>1. crashes' \in 0 .. MaxCrashes
      OBVIOUS
    <2>2. CASE p \in Handlers
      <3>1. /\ UNCHANGED opened /\ pc' = [pc EXCEPT ![p] = "idle"]
            /\ found' = [found EXCEPT ![p] = NoPage] /\ event' = [event EXCEPT ![p] = NoEvent]
            /\ seen' = [seen EXCEPT ![p] = NothingRead]
        BY <2>2 DEF Abandon, Finish, Goto
      <3> QED
        BY <2>1, <3>1 DEF IInv, TypeOK, RequestTypeOK, Steps, NothingRead, Outcomes,
                          SessionStates, IntentStates
    <2>3. CASE p \notin Handlers
      BY <2>1, <2>3 DEF Abandon, Goto, IInv, TypeOK, RequestTypeOK, Steps
    <2> QED
      BY <2>2, <2>3
  <1>3. StepsOfKind'
    BY RequestKinds DEF IInv, Abandon, Finish, Goto, Procs, TypeOK, RequestTypeOK,
       StepsOfKind
  <1>4. JustOpenedIsPrivate'
    BY RequestKinds, NullPage DEF IInv, Abandon, Finish, stripeVars, dbVars, Goto,
       Procs, TypeOK, StripeTypeOK, DatabaseTypeOK, RequestTypeOK, StripeIsTrue,
       RowsAreTrue, JustOpenedIsPrivate, RequestsAreTrue
  <1>5. RequestsAreTrue'
    BY RequestKinds, NullPage DEF IInv, Abandon, Finish, stripeVars, dbVars, Goto,
       Procs, NothingRead, Outcomes, Events, TypeOK, StripeTypeOK, DatabaseTypeOK,
       RequestTypeOK, StripeIsTrue, RowsAreTrue, JustOpenedIsPrivate, RequestsAreTrue,
       ReadingIsTrue, ReadingShowsNews
  <1> QED
    BY <1>1, <1>2, <1>3, <1>4, <1>5 DEF IInv, TypeOK

\* So it is when it dies, and when Stripe refuses it.
LEMMA RequestDiesKeeps ==
  ASSUME IInv, NEW p \in Procs, RequestDies(p) \/ StripeRefuses(p)
  PROVE  IInv'
  <1>1. Abandon(p) /\ crashes' \in 0 .. MaxCrashes
    BY CrashBound DEF RequestDies, StripeRefuses, IInv, TypeOK, RequestTypeOK
  <1> QED
    BY <1>1, AbandonKeeps

\* The account taken away, and noted as disconnected.
LEMMA AccountEndsKeeps ==
  ASSUME IInv, AccessEnds \/ MarkDisconnected
  PROVE  IInv'
  <1>1. StripeTypeOK' /\ DatabaseTypeOK'
    BY DEF AccessEnds, MarkDisconnected, stripeVars, dbVars, IInv, TypeOK, StripeTypeOK,
           DatabaseTypeOK
  <1>2. /\ RequestTypeOK' /\ StepsOfKind' /\ StripeIsTrue' /\ RowsAreTrue'
        /\ JustOpenedIsPrivate' /\ RequestsAreTrue' /\ RecordedIsTrue' /\ HandledIsApplied'
    BY Frames DEF AccessEnds, MarkDisconnected, stripeVars, dbVars, procVars
  <1> QED
    BY <1>1, <1>2 DEF IInv, TypeOK

-----------------------------------------------------------------------------
\* Every step keeps the invariant.
LEMMA NextKeeps == IInv /\ [Next]_vars => IInv'
  <1>1. ASSUME IInv, UNCHANGED vars
        PROVE  IInv'
    BY <1>1, Frames DEF vars, IInv, TypeOK
  <1>2. ASSUME IInv, Next
        PROVE  IInv'
    <2>1. CASE \E p \in Presses : PressStep(p)
      BY <1>2, <2>1, PressFindKeeps, PressOwingKeeps, PressReuseKeeps, PressLimitKeeps,
         PressStartKeeps, PressSaveKeeps, PressConflictKeeps, PressExpireOwnKeeps
         DEF PressStep
    <2>2. CASE \E c \in Clerks : ClerkStep(c) \/ ReverseEntry(c)
      BY <1>2, <2>2, ClerkFindKeeps, ClerkRecordKeeps, ReverseEntryKeeps DEF ClerkStep
    <2>3. CASE \E v \in Visits : VisitFind(v)
      BY <1>2, <2>3, VisitFindKeeps
    <2>4. CASE \E h \in Handlers : (\E e \in Events : Deliver(h, e)) \/ HandleEvent(h)
      BY <1>2, <2>4, DeliverKeeps, HandleEventKeeps
    <2>5. CASE \E p \in Procs : SharedStep(p) \/ RequestDies(p)
      BY <1>2, <2>5, RetireFindKeeps, RetireExpireKeeps, ReadCheckoutKeeps,
         RecordOutcomeKeeps, RequestDiesKeeps DEF SharedStep
    <2>6. CASE RentalEnds \/ AccessEnds \/ MarkDisconnected
      BY <1>2, <2>6, RentalEndsKeeps, AccountEndsKeeps
    <2>7. CASE \E s \in Pages :
                  \/ PayPage(s, "paid") \/ PayPage(s, "processing")
                  \/ DebitSettles(s, "paid") \/ DebitSettles(s, "failed")
                  \/ PageAges(s)
      BY <1>2, <2>7, PayPageKeeps, DebitSettlesKeeps, PageAgesKeeps
    <2> QED
      BY <1>2, <2>1, <2>2, <2>3, <2>4, <2>5, <2>6, <2>7 DEF Next
  <1> QED
    BY <1>1, <1>2

\* The invariant holds always, whatever the number of requests and pages.
THEOREM Invariance == Spec => []IInv
  BY InitIInv, NextKeeps, PTL DEF Spec

\* TypeOK for every value of the constants: no step takes a variable out of its type.
THEOREM TypeCorrect == Spec => []TypeOK
  <1>1. IInv => TypeOK
    BY DEF IInv
  <1> QED
    BY <1>1, Invariance, PTL

\* RecordedIsTrue for any number of concurrent requests: what recordBondPayment keeps is
\* what became of the payment at Stripe, and just the succeeded ones are on the bond.
THEOREM RecordsFollowStripe == Spec => []RecordedIsTrue
  <1>1. IInv => RecordedIsTrue
    BY DEF IInv
  <1> QED
    BY <1>1, Invariance, PTL

\* HandledIsApplied: an event marked in stripe_events is in the records, always.
THEOREM NoEventLost == Spec => []HandledIsApplied
  <1>1. IInv => HandledIsApplied
    BY DEF IInv
  <1> QED
    BY <1>1, Invariance, PTL

\* OneSavedPagePayable: of the pages stripe_checkouts has kept, at most one can be paid.
THEOREM OnePayable == Spec => []OneSavedPagePayable
  <1>1. IInv => OneSavedPagePayable
    BY DEF IInv, TypeOK, StripeTypeOK, DatabaseTypeOK, RowsAreTrue, OpenRows,
           OneSavedPagePayable
  <1> QED
    BY <1>1, Invariance, PTL

\* No step of any request takes back a payment's outcome, money on the bond, or a page's end.
MovesForward(s) ==
    /\ payment[s] \in {"succeeded", "failed"} => payment'[s] = payment[s]
    /\ payment[s] = "pending" => payment'[s] # "none"
    /\ credits'[s] >= credits[s]
    /\ row[s] \in {"complete", "expired"} => row'[s] = row[s]

LEMMA NextMovesForward ==
  ASSUME IInv, Next
  PROVE  \A s \in Pages : MovesForward(s)
  <1> USE DEF MovesForward
  <1>1. ASSUME UNCHANGED <<payment, credits, row>>
        PROVE  \A s \in Pages : MovesForward(s)
    BY <1>1 DEF IInv, TypeOK, DatabaseTypeOK
  <1>2. ASSUME NEW p \in Presses, PressSave(p)
        PROVE  \A s \in Pages : MovesForward(s)
    BY <1>2 DEF PressSave, IInv, TypeOK, DatabaseTypeOK, JustOpenedIsPrivate
  <1>3. ASSUME NEW q \in Pages, NEW o \in Outcomes, ReadingIsTrue(q, o),
               ApplyCheckoutOutcome(q, o), UNCHANGED <<session, intent>>
        PROVE  \A s \in Pages : MovesForward(s)
    BY <1>3, ApplyKeepsRecords
  <1>4. ASSUME NEW p \in Procs, RecordOutcome(p)
        PROVE  \A s \in Pages : MovesForward(s)
    BY <1>3, <1>4 DEF RecordOutcome, stripeVars, IInv, TypeOK, RequestTypeOK,
       RequestsAreTrue
  <1>5. ASSUME NEW h \in Handlers, HandleEvent(h)
        PROVE  \A s \in Pages : MovesForward(s)
    BY <1>1, <1>3, <1>5 DEF HandleEvent, stripeVars, dbVars, IInv, TypeOK,
       RequestTypeOK, RequestsAreTrue, Procs
  <1>6. CASE \E p \in Presses : PressStep(p) /\ ~PressSave(p)
    BY <1>1, <1>6 DEF PressStep, PressFind, PressOwing, PressReuse, PressLimit, PressStart,
       PressConflict, PressExpireOwn, dbVars
  <1>7. CASE \E c \in Clerks : ClerkStep(c) \/ ReverseEntry(c)
    BY <1>1, <1>7 DEF ClerkStep, ClerkFind, ClerkRecord, ReverseEntry, dbVars
  <1>8. CASE \/ \E v \in Visits : VisitFind(v)
             \/ \E h \in Handlers, e \in Events : Deliver(h, e)
             \/ RentalEnds \/ AccessEnds \/ MarkDisconnected
    BY <1>1, <1>8 DEF VisitFind, Deliver, RentalEnds, AccessEnds, MarkDisconnected, dbVars
  <1>9. CASE \E p \in Procs : RetireFind(p) \/ RetireExpire(p) \/ ReadCheckout(p)
                              \/ StripeRefuses(p) \/ RequestDies(p)
    BY <1>1, <1>9 DEF RetireFind, RetireExpire, ReadCheckout, StripeRefuses, RequestDies,
       Abandon, dbVars
  <1>10. CASE \E s \in Pages :
                \/ PayPage(s, "paid") \/ PayPage(s, "processing")
                \/ DebitSettles(s, "paid") \/ DebitSettles(s, "failed")
                \/ PageAges(s)
    BY <1>1, <1>10 DEF PayPage, DebitSettles, PageAges, dbVars
  <1> QED
    BY <1>2, <1>4, <1>5, <1>6, <1>7, <1>8, <1>9, <1>10 DEF Next, SharedStep, PressStep

\* PaymentMovesForward, as the action property.
THEOREM NothingTakenBack == Spec => PaymentMovesForward
  <1>1. IInv /\ [Next]_vars
          => [\A s \in Pages :
                /\ payment[s] \in {"succeeded", "failed"} => payment'[s] = payment[s]
                /\ payment[s] = "pending" => payment'[s] # "none"
                /\ credits'[s] >= credits[s]
                /\ row[s] \in {"complete", "expired"} => row'[s] = row[s]]_vars
    BY NextMovesForward DEF MovesForward
  <1> QED
    BY <1>1, Invariance, PTL DEF Spec, PaymentMovesForward

-----------------------------------------------------------------------------
(* A page is retired before it is replaced.                                *)

\* A page finished or expired at Stripe is so for good.
LEMMA ClosedStaysClosed ==
  ASSUME IInv, Next
  PROVE  \A s \in Pages : session[s] \in {"complete", "expired"} => session'[s] = session[s]
  <1>1. CASE UNCHANGED session
    BY <1>1
  <1>2. ASSUME NEW q, ExpireAtStripe(q)
        PROVE  \A s \in Pages : session[s] \in {"complete", "expired"} => session'[s] = session[s]
    BY <1>2 DEF ExpireAtStripe, IInv, TypeOK, StripeTypeOK
  <1>3. CASE \E p \in Presses : PressStep(p)
    BY <1>1, <1>2, <1>3 DEF PressStep, PressFind, PressOwing, PressReuse, PressLimit, PressStart,
       PressSave, PressConflict, PressExpireOwn, stripeVars, IInv, TypeOK, StripeTypeOK
  <1>4. CASE \/ \E c \in Clerks : ClerkStep(c) \/ ReverseEntry(c)
             \/ \E v \in Visits : VisitFind(v)
             \/ \E h \in Handlers : (\E e \in Events : Deliver(h, e)) \/ HandleEvent(h)
             \/ RentalEnds \/ AccessEnds \/ MarkDisconnected
    BY <1>1, <1>4 DEF ClerkStep, ClerkFind, ClerkRecord, ReverseEntry, VisitFind, Deliver,
       HandleEvent, RentalEnds, AccessEnds, MarkDisconnected, stripeVars
  <1>5. CASE \E p \in Procs : SharedStep(p) \/ RequestDies(p)
    BY <1>1, <1>2, <1>5 DEF SharedStep, RetireFind, RetireExpire, ReadCheckout, RecordOutcome,
       StripeRefuses, RequestDies, Abandon, stripeVars
  <1>6. CASE \E s \in Pages :
                \/ PayPage(s, "paid") \/ PayPage(s, "processing")
                \/ DebitSettles(s, "paid") \/ DebitSettles(s, "failed")
                \/ PageAges(s)
    BY <1>1, <1>2, <1>6 DEF PayPage, DebitSettles, PageAges, IInv, TypeOK, StripeTypeOK
  <1> QED
    BY <1>3, <1>4, <1>5, <1>6 DEF Next

\* RetirementInv, of one request.
RetirementOf(p) ==
    /\ p \in Presses =>
          /\ PageAtItsEnd(p)
          /\ pc[p] \in {"start", "save"} /\ found[p] # NoPage => session[found[p]] = "expired"
    /\ pc[p] = "justPaid" => payment[found[p]] # "none" /\ row[found[p]] # "open"

LEMMA RetirementOfEach == RetirementInv <=> \A p \in Procs : RetirementOf(p)
  BY DEF RetirementInv, RetirementOf, RetiredBeforeReplaced, JustPaidIsRecorded, Procs

\* The steps of others leave it as it was.
LEMMA BystanderKeeps ==
  ASSUME IInv, Next, NEW p \in Procs, RetirementOf(p),
         pc'[p] = pc[p], found'[p] = found[p], seen'[p] = seen[p]
  PROVE  RetirementOf(p)'
  <1>1. found[p] # NoPage => found[p] \in Pages
    BY DEF IInv, TypeOK, RequestTypeOK
  <1>2. p \in Presses /\ pc[p] = "read" => found[p] \in Pages
    BY DEF IInv, RequestsAreTrue
  <1>3. p \in Presses => RetirementOf(p)'
    <2>1. pc[p] = "justPaid" => found[p] \in Pages /\ row[found[p]] \in {"complete", "expired"}
                                /\ payment[found[p]] \in {"pending", "succeeded", "failed"}
      BY NullPage, RequestKinds DEF IInv, TypeOK, DatabaseTypeOK, RequestsAreTrue, StepsOfKind,
         RetirementOf, PaymentStates
    <2> QED
      BY <1>1, <1>2, <2>1, ClosedStaysClosed, NextMovesForward
         DEF RetirementOf, PageAtItsEnd, MovesForward
  <1>4. p \notin Presses => RetirementOf(p)'
    <2>1. pc[p] = "justPaid" => found[p] \in Pages /\ row[found[p]] \in {"complete", "expired"}
                                /\ payment[found[p]] \in {"pending", "succeeded", "failed"}
      BY NullPage, RequestKinds DEF IInv, TypeOK, DatabaseTypeOK, RequestsAreTrue, StepsOfKind,
         RetirementOf, PaymentStates
    <2> QED
      BY <2>1, NextMovesForward DEF RetirementOf, MovesForward
  <1> QED
    BY <1>3, <1>4

\* A step of p that leaves the other requests alone keeps RetirementInv if it keeps p's part.
LEMMA StepOfOneKeeps ==
  ASSUME IInv, Next, RetirementInv, NEW p \in Procs, RetirementOf(p)',
         \A q \in Procs \ {p} : pc'[q] = pc[q] /\ found'[q] = found[q] /\ seen'[q] = seen[q]
  PROVE  RetirementInv'
  <1>1. \A q \in Procs : RetirementOf(q)'
    BY RetirementOfEach, BystanderKeeps
  <1>2. RetirementInv' <=> \A q \in Procs : RetirementOf(q)'
    BY DEF RetirementInv, RetirementOf, RetiredBeforeReplaced, JustPaidIsRecorded, Procs
  <1> QED
    BY <1>1, <1>2

\* The steps only presses take.
LEMMA PressKeepsRetirement ==
  ASSUME IInv, Next, RetirementInv, NEW p \in Presses, PressStep(p)
  PROVE  RetirementInv'
  <1>1. p \in Procs /\ RetirementOf(p) /\ pc \in [Procs -> Steps]
        /\ found \in [Procs -> Pages \cup {NoPage}]
    BY RetirementOfEach DEF Procs, IInv, TypeOK, RequestTypeOK
  <1>2. UNCHANGED seen
    BY DEF PressStep, PressFind, PressOwing, PressReuse, PressLimit, PressStart, PressSave,
           PressConflict, PressExpireOwn, procVars
  <1>3. CASE PressFind(p) \/ PressOwing(p) \/ PressReuse(p) \/ PressLimit(p)
    <2>1. /\ UNCHANGED found /\ found[p] = NoPage
          /\ \E step \in {"owing", "reuse", "limit", "retire", "done"} :
                pc' = [pc EXCEPT ![p] = step]
      BY <1>1, <1>3 DEF PressFind, PressOwing, PressReuse, PressLimit, Goto, RetirementOf,
                        PageAtItsEnd
    <2>2. RetirementOf(p)'
      BY <1>1, <2>1 DEF RetirementOf, PageAtItsEnd
    <2> QED
      BY <1>1, <1>2, <2>1, <2>2, StepOfOneKeeps
  <1>4. CASE \E s \in Pages : PressStart(p, s)
    <2>1. UNCHANGED found /\ pc[p] = "start" /\ pc' = [pc EXCEPT ![p] = "save"]
      BY <1>4 DEF PressStart, Goto
    <2>2. RetirementOf(p)'
      BY <1>1, <2>1, ClosedStaysClosed DEF RetirementOf, PageAtItsEnd
    <2> QED
      BY <1>1, <1>2, <2>1, <2>2, StepOfOneKeeps
  <1>5. CASE PressSave(p) \/ PressConflict(p) \/ PressExpireOwn(p)
    <2>1. /\ \E step \in {"conflict", "expireOwn", "done"} : pc' = [pc EXCEPT ![p] = step]
          /\ \A q \in Procs \ {p} : found'[q] = found[q]
      BY <1>1, <1>5 DEF PressSave, PressConflict, PressExpireOwn, Goto
    <2>2. RetirementOf(p)'
      BY <1>1, <2>1 DEF RetirementOf, PageAtItsEnd
    <2> QED
      BY <1>1, <1>2, <2>1, <2>2, StepOfOneKeeps
  <1> QED
    BY <1>3, <1>4, <1>5 DEF PressStep

\* retireOpenBondPage's own steps, and those visits and handlers share with it.
LEMMA SharedKeepsRetirement ==
  ASSUME IInv, Next, RetirementInv, NEW p \in Procs, SharedStep(p)
  PROVE  RetirementInv'
  <1>1. /\ RetirementOf(p) /\ pc \in [Procs -> Steps]
        /\ found \in [Procs -> Pages \cup {NoPage}] /\ seen \in [Procs -> Outcomes]
    BY RetirementOfEach DEF IInv, TypeOK, RequestTypeOK
  <1>2. \A q \in Procs \ {p} : pc'[q] = pc[q] /\ found'[q] = found[q] /\ seen'[q] = seen[q]
    BY <1>1 DEF SharedStep, RetireFind, RetireExpire, ReadCheckout, RecordOutcome, StripeRefuses,
                Abandon, Finish, Goto
  <1>3. CASE RetireFind(p)
    <2>1. RetirementOf(p)'
      BY <1>1, <1>3 DEF RetireFind, Goto, RetirementOf, PageAtItsEnd
    <2> QED
      BY <1>2, <2>1, StepOfOneKeeps
  <1>4. CASE RetireExpire(p)
    <2>1. /\ pc[p] = "expire" /\ pc' = [pc EXCEPT ![p] = "read"] /\ UNCHANGED found
          /\ ExpireAtStripe(found[p])
      BY <1>4 DEF RetireExpire, Goto
    <2>2. found[p] \in Pages
      BY <2>1 DEF IInv, RequestsAreTrue
    <2>3. p \in Presses => session[found[p]] \in {"open", "complete", "expired"}
      BY <2>2, NullPage, RequestKinds
         DEF IInv, TypeOK, StripeTypeOK, RequestsAreTrue, RowsAreTrue, SessionStates
    <2>4. p \in Presses => session'[found[p]] \in {"complete", "expired"}
      BY <2>1, <2>2, <2>3 DEF ExpireAtStripe, IInv, TypeOK, StripeTypeOK
    <2>5. RetirementOf(p)'
      BY <1>1, <2>1, <2>4 DEF RetirementOf, PageAtItsEnd
    <2> QED
      BY <1>2, <2>5, StepOfOneKeeps
  <1>5. CASE ReadCheckout(p)
    <2>1. RetirementOf(p)'
      BY <1>1, <1>5 DEF ReadCheckout, Goto, RetirementOf, PageAtItsEnd
    <2> QED
      BY <1>2, <2>1, StepOfOneKeeps
  <1>6. CASE RecordOutcome(p)
    <2>1. /\ pc[p] = "apply" /\ p \notin Handlers /\ pc' = [pc EXCEPT ![p] = AfterOutcome(p)]
          /\ ApplyCheckoutOutcome(found[p], seen[p]) /\ UNCHANGED <<session, intent, found, seen>>
      BY <1>6 DEF RecordOutcome, Goto, stripeVars
    <2>2. found[p] \in Pages /\ seen[p] \in Outcomes /\ ReadingIsTrue(found[p], seen[p])
      BY <1>1, <2>1 DEF IInv, RequestsAreTrue
    <2>3. seen[p].state = "complete" => payment'[found[p]] # "none" /\ row'[found[p]] # "open"
      BY <2>1, <2>2, ApplyKeepsRecords
    <2>4. p \in Presses /\ seen[p].state # "complete" => session'[found[p]] = "expired"
      BY <1>1, <2>1, <2>2 DEF RetirementOf, PageAtItsEnd, ReadingIsTrue
    <2>5. RetirementOf(p)'
      BY <1>1, <2>1, <2>3, <2>4, RequestKinds DEF AfterOutcome, RetirementOf, PageAtItsEnd
    <2> QED
      BY <1>2, <2>5, StepOfOneKeeps
  <1>7. CASE StripeRefuses(p)
    <2>1. RetirementOf(p)'
      BY <1>1, <1>7, RequestKinds DEF StripeRefuses, Abandon, Finish, Goto, RetirementOf,
                                      PageAtItsEnd
    <2> QED
      BY <1>2, <2>1, StepOfOneKeeps
  <1> QED
    BY <1>3, <1>4, <1>5, <1>6, <1>7 DEF SharedStep

\* Steps of requests that are no press, and a death.
LEMMA OtherRequestsKeepRetirement ==
  ASSUME IInv, Next, RetirementInv, NEW p \in Procs,
         \/ p \in Clerks /\ ClerkStep(p)
         \/ p \in Visits /\ VisitFind(p)
         \/ p \in Handlers /\ ((\E e \in Events : Deliver(p, e)) \/ HandleEvent(p))
         \/ RequestDies(p)
  PROVE  RetirementInv'
  <1>1. /\ pc \in [Procs -> Steps] /\ found \in [Procs -> Pages \cup {NoPage}]
        /\ seen \in [Procs -> Outcomes]
    BY DEF IInv, TypeOK, RequestTypeOK
  <1>2. /\ \A q \in Procs \ {p} : pc'[q] = pc[q] /\ found'[q] = found[q] /\ seen'[q] = seen[q]
        /\ pc'[p] \in {"idle", "owing", "retire", "read", "done"}
        /\ p \in Presses => pc'[p] = "done"
    BY <1>1, RequestKinds DEF ClerkStep, ClerkFind, ClerkRecord, VisitFind, Deliver, HandleEvent,
                              RequestDies, Abandon, Finish, Goto
  <1>3. RetirementOf(p)'
    BY <1>2 DEF RetirementOf, PageAtItsEnd
  <1> QED
    BY <1>2, <1>3, StepOfOneKeeps

\* Every step keeps it.
LEMMA NextKeepsRetirement == IInv /\ RetirementInv /\ [Next]_vars => RetirementInv'
  <1> SUFFICES ASSUME IInv, RetirementInv, [Next]_vars
               PROVE  RetirementInv'
    OBVIOUS
  <1>1. CASE UNCHANGED vars
    BY <1>1 DEF vars, RetirementInv, PageAtItsEnd, RetiredBeforeReplaced, JustPaidIsRecorded
  <1>2. CASE Next /\ UNCHANGED procVars
    <2>1. \A p \in Procs : RetirementOf(p)'
      BY <1>2, RetirementOfEach, BystanderKeeps DEF procVars
    <2> QED
      BY <2>1 DEF RetirementInv, RetirementOf, RetiredBeforeReplaced, JustPaidIsRecorded, Procs
  <1>3. CASE Next /\ \E p \in Presses : PressStep(p)
    BY <1>3, PressKeepsRetirement
  <1>4. CASE Next /\ \E p \in Procs : SharedStep(p)
    BY <1>4, SharedKeepsRetirement
  <1>5. CASE Next /\ \E p \in Procs : \/ p \in Clerks /\ ClerkStep(p)
                                      \/ p \in Visits /\ VisitFind(p)
                                      \/ p \in Handlers /\ ((\E e \in Events : Deliver(p, e))
                                                            \/ HandleEvent(p))
                                      \/ RequestDies(p)
    BY <1>5, OtherRequestsKeepRetirement
  <1>6. CASE Next /\ \/ \E c \in Clerks : ReverseEntry(c)
                     \/ RentalEnds \/ AccessEnds \/ MarkDisconnected
                     \/ \E s \in Pages :
                           \/ PayPage(s, "paid") \/ PayPage(s, "processing")
                           \/ DebitSettles(s, "paid") \/ DebitSettles(s, "failed")
                           \/ PageAges(s)
    BY <1>2, <1>6 DEF ReverseEntry, RentalEnds, AccessEnds, MarkDisconnected, PayPage,
       DebitSettles, PageAges
  <1>7. QED
    BY <1>1, <1>3, <1>4, <1>5, <1>6 DEF Next, Procs

\* RetirementInv holds of every behaviour.
THEOREM RetirementHolds == Spec => []RetirementInv
  <1>1. Init => RetirementInv
    BY RequestKinds DEF Init, RetirementInv, PageAtItsEnd, RetiredBeforeReplaced,
       JustPaidIsRecorded, Procs
  <1> QED
    BY <1>1, NextKeepsRetirement, Invariance, PTL DEF Spec

\* RetirementIsTrue for any number of presses: retireOpenBondPage leaves no page that can be
\* paid, or was, for openNewPage to replace; and who it tells the Renter just paid finds that
\* payment on record.
THEOREM RetirementTrue == Spec => []RetirementIsTrue
  <1>1. RetirementInv => RetirementIsTrue
    BY DEF RetirementInv, RetirementIsTrue
  <1> QED
    BY <1>1, RetirementHolds, PTL

-----------------------------------------------------------------------------
(* The records keep the promise of BondMoney: safety.                      *)

\* Applying a true reading of a page (applyCheckoutOutcome) learns one payment's news, or
\* nothing.
LEMMA ApplyLearns ==
  ASSUME IInv, NEW s \in Pages, NEW o \in Outcomes, ReadingIsTrue(s, o),
         ApplyCheckoutOutcome(s, o), UNCHANGED intent
  PROVE  Money!Next \/ UNCHANGED Money!vars
  <1> DEFINE status == PaymentStatusOf(o.pay)
  <1>1. /\ status \in {"pending", "succeeded", "failed"}
        /\ status = "succeeded" <=> o.pay = "paid"
        /\ status = "pending" <=> o.pay = "processing"
    BY DEF PaymentStatusOf
  <1>2. CASE o.state # "complete" \/ ~Moves(s, status)
    BY <1>2 DEF ApplyCheckoutOutcome, RecordBondPayment, Money!vars
  <1>3. CASE o.state = "complete" /\ Moves(s, status)
    <2>1. /\ payment' = [payment EXCEPT ![s] = status]
          /\ IF status = "succeeded" THEN Credit(s) ELSE UNCHANGED credits
          /\ UNCHANGED connected
      BY <1>3 DEF ApplyCheckoutOutcome, RecordBondPayment
    <2>2. /\ payment[s] \in {"none", "pending"} /\ credits[s] = 0
          /\ intent[s] # "none" /\ credits \in [Pages -> {0, 1}]
      BY <1>1, <1>3 DEF Moves, ReadingIsTrue, IInv, TypeOK, DatabaseTypeOK, StripeIsTrue,
                        RecordedIsTrue
    <2>3. CASE status = "pending"
      <3>1. Money!LearnMade(s)
        BY <1>3, <2>1, <2>2, <2>3 DEF Moves, Money!LearnMade
      <3> QED
        BY <3>1 DEF Money!Next
    <2>4. CASE status = "succeeded"
      <3>1. intent[s] = "paid" /\ credits' = [credits EXCEPT ![s] = 1]
        BY <1>1, <2>1, <2>2, <2>4 DEF Credit, ReadingIsTrue
      <3>2. Money!LearnPaid(s)
        BY <2>1, <2>2, <2>4, <3>1 DEF Money!LearnPaid, Money!Learn
      <3> QED
        BY <3>2 DEF Money!Next
    <2>5. CASE status = "failed"
      <3>1. o.pay = "failed"
        BY <1>1, <1>3, <2>5 DEF ReadingIsTrue, Outcomes, IntentStates
      <3>2. intent[s] = "failed" /\ credits' = [credits EXCEPT ![s] = 0]
        BY <2>1, <2>2, <2>5, <3>1 DEF ReadingIsTrue
      <3>3. Money!LearnFailed(s)
        BY <2>1, <2>2, <2>5, <3>2 DEF Money!LearnFailed, Money!Learn
      <3> QED
        BY <3>3 DEF Money!Next
    <2> QED
      BY <1>1, <2>3, <2>4, <2>5
  <1> QED
    BY <1>2, <1>3

\* Every step is one of BondMoney's, or leaves its variables alone.
LEMMA NextKeepsPromise == IInv /\ [Next]_vars => [Money!Next]_(Money!vars)
  <1> SUFFICES ASSUME IInv, [Next]_vars
               PROVE  Money!Next \/ UNCHANGED Money!vars
    OBVIOUS
  <1>1. CASE UNCHANGED <<intent, payment, credits, connected>>
    BY <1>1 DEF Money!vars
  <1>2. CASE UNCHANGED vars
    BY <1>1, <1>2 DEF vars
  <1>3. ASSUME NEW s \in Pages, NEW how \in {"processing", "paid"}, PayPage(s, how)
        PROVE  Money!Next
    <2>1. intent[s] = "none"
      BY <1>3 DEF PayPage, IInv, TypeOK, StripeTypeOK, StripeIsTrue
    <2>2. Money!Pay(s)
      BY <1>3, <2>1 DEF PayPage, dbVars, Money!Pay
    <2> QED
      BY <2>2 DEF Money!Next
  <1>4. ASSUME NEW s \in Pages, NEW how \in {"paid", "failed"}, DebitSettles(s, how)
        PROVE  Money!Next
    <2>1. Money!Pay(s)
      BY <1>4 DEF DebitSettles, dbVars, Money!Pay
    <2> QED
      BY <2>1 DEF Money!Next
  <1>5. ASSUME NEW p \in Procs, RecordOutcome(p)
        PROVE  Money!Next \/ UNCHANGED Money!vars
    <2>1. /\ found[p] \in Pages /\ seen[p] \in Outcomes /\ ReadingIsTrue(found[p], seen[p])
          /\ ApplyCheckoutOutcome(found[p], seen[p]) /\ UNCHANGED intent
      BY <1>5 DEF RecordOutcome, stripeVars, IInv, TypeOK, RequestTypeOK, RequestsAreTrue
    <2> QED
      BY <2>1, ApplyLearns
  <1>6. ASSUME NEW h \in Handlers, HandleEvent(h)
        PROVE  Money!Next \/ UNCHANGED Money!vars
    <2>1. CASE event[h] \in handled
      BY <1>1, <1>6, <2>1 DEF HandleEvent, stripeVars, dbVars
    <2>2. CASE event[h] \notin handled
      <3>1. /\ found[h] \in Pages /\ seen[h] \in Outcomes /\ ReadingIsTrue(found[h], seen[h])
            /\ ApplyCheckoutOutcome(found[h], seen[h]) /\ UNCHANGED intent
        BY <1>6, <2>2 DEF HandleEvent, stripeVars, Procs, IInv, TypeOK, RequestTypeOK,
                          RequestsAreTrue
      <3> QED
        BY <3>1, ApplyLearns
    <2> QED
      BY <2>1, <2>2
  <1>7. CASE \E p \in Presses : PressStep(p)
    BY <1>1, <1>7 DEF PressStep, PressFind, PressOwing, PressReuse, PressLimit, PressStart,
       PressSave, PressConflict, PressExpireOwn, stripeVars, dbVars
  <1>8. CASE \/ \E c \in Clerks : ClerkStep(c) \/ ReverseEntry(c)
             \/ \E v \in Visits : VisitFind(v)
             \/ \E h \in Handlers, e \in Events : Deliver(h, e)
             \/ RentalEnds \/ AccessEnds
    BY <1>1, <1>8 DEF ClerkStep, ClerkFind, ClerkRecord, ReverseEntry, VisitFind, Deliver,
       RentalEnds, AccessEnds, stripeVars, dbVars
  <1>9. CASE \/ \E p \in Procs : RetireFind(p) \/ RetireExpire(p) \/ ReadCheckout(p)
                                 \/ StripeRefuses(p) \/ RequestDies(p)
             \/ \E s \in Pages : PageAges(s)
    BY <1>1, <1>9 DEF RetireFind, RetireExpire, ReadCheckout, StripeRefuses, RequestDies, Abandon,
       PageAges, stripeVars, dbVars
  <1>10. CASE MarkDisconnected
    BY <1>10 DEF MarkDisconnected, stripeVars, Money!Disconnect, Money!Next
  <1> QED
    BY <1>2, <1>3, <1>4, <1>5, <1>6, <1>7, <1>8, <1>9, <1>10 DEF Next, SharedStep

\* The records of payments (payments, bond_movements) implement BondMoney, whatever requests,
\* events and deaths it takes: its safety, for any number of pages and requests.
THEOREM KeepsPromiseOfMoney == Spec => Money!Spec
  <1>1. Init => Money!Init
    BY DEF Init, Money!Init
  <1> QED
    BY <1>1, NextKeepsPromise, Invariance, PTL DEF Spec, Money!Spec

-----------------------------------------------------------------------------
(* What the requests add up.                                               *)

\* An entry is an amount, or 0 for none.
LEMMA EntriesAreAmounts == DatabaseTypeOK => \A c \in Clerks : entry[c] \in Nat
  <1> SUFFICES ASSUME DatabaseTypeOK, NEW c \in Clerks PROVE entry[c] \in Nat
    OBVIOUS
  <1>1. entry[c] \in HandAmounts \/ entry[c] = 0
    BY DEF DatabaseTypeOK
  <1>2. \A n \in HandAmounts : n \in Nat
    BY HandAmountsAreMoney
  <1> QED
    BY <1>1, <1>2

\* What is held and what is on its way are sums of numbers not below zero (bondHeldCents,
\* bondOnItsWayCents), and what hands took in is part of what is held.
LEMMA SumsAreAmounts ==
  ASSUME DatabaseTypeOK, amount \in [Pages -> Nat]
  PROVE  /\ HandTotal \in Nat /\ OnItsWay \in Nat /\ Held \in Nat
         /\ HandTotal <= Held
  <1>1. HandTotal \in Nat
    <2>1. PICK S : S = Clerks \ reversed
      OBVIOUS
    <2>2. IsFiniteSet(S)
      BY <2>1, FinitelyMany, FS_Subset
    <2>3. \A c \in S : entry[c] \in Nat
      BY <2>1, EntriesAreAmounts
    <2> QED
      BY <2>1, <2>2, <2>3, SumNotNegative DEF HandTotal
  <1>2. OnItsWay \in Nat
    <2>1. PICK S : S = {s \in Pages : \/ payment[s] = "pending"
                                      \/ row[s] = "complete" /\ payment[s] = "none"}
      OBVIOUS
    <2>2. IsFiniteSet(S)
      BY <2>1, FinitelyMany, FS_Subset
    <2>3. \A s \in S : amount[s] \in Nat
      BY <2>1
    <2> QED
      BY <2>1, <2>2, <2>3, SumNotNegative DEF OnItsWay
  <1>3. SumFunction([s \in Pages |-> credits[s] * amount[s]]) \in Nat
    <2>1. PICK h : h = [s \in Pages |-> credits[s] * amount[s]]
      OBVIOUS
    <2>2. \A s \in Pages : h[s] \in Nat
      <3> SUFFICES ASSUME NEW s \in Pages PROVE h[s] \in Nat
        OBVIOUS
      <3>1. amount[s] \in Nat /\ h[s] = credits[s] * amount[s]
        BY <2>1
      <3>2. CASE credits[s] = 0
        BY <3>1, <3>2
      <3>3. CASE credits[s] = 1
        BY <3>1, <3>3
      <3> QED
        BY <3>2, <3>3 DEF DatabaseTypeOK
    <2>3. DOMAIN h = Pages
      BY <2>1
    <2> QED
      BY <2>1, <2>2, <2>3, FinitelyMany, SumNotNegative DEF SumFunction
  <1> QED
    BY <1>1, <1>2, <1>3 DEF Held

\* An entry made adds its amount (recordBondReceived).
LEMMA EntryAdds ==
  ASSUME DatabaseTypeOK, NEW c \in Clerks, c \notin reversed, entry[c] = 0,
         NEW a \in Nat, entry' = [entry EXCEPT ![c] = a], UNCHANGED reversed
  PROVE  HandTotal' = HandTotal + a
  <1>1. PICK S : S = Clerks \ reversed
    OBVIOUS
  <1>2. PICK h, e : h = entry /\ e = entry'
    OBVIOUS
  <1>3. IsFiniteSet(S) /\ IsFiniteSet(S \ {c}) /\ c \in S
    BY <1>1, FinitelyMany, FS_Subset
  <1>4. \A x \in S : h[x] \in Int /\ e[x] \in Int /\ (x # c => e[x] = h[x])
    <2>1. \A x \in S : x \in Clerks /\ entry[x] \in Nat
      BY <1>1, EntriesAreAmounts
    <2>2. \A x \in S : e[x] = IF x = c THEN a ELSE entry[x]
      BY <1>1, <1>2 DEF DatabaseTypeOK
    <2> QED
      BY <1>2, <2>1, <2>2
  <1>5. /\ SumFunctionOnSet(h, S) = h[c] + SumFunctionOnSet(h, S \ {c})
        /\ SumFunctionOnSet(e, S) = e[c] + SumFunctionOnSet(e, S \ {c})
    <2>1. (\A x \in S : h[x] \in Int) /\ (\A x \in S : e[x] \in Int)
      BY <1>4
    <2> QED
      BY <1>3, <2>1, SumTakes
  <1>6. /\ SumFunctionOnSet(e, S \ {c}) = SumFunctionOnSet(h, S \ {c})
        /\ SumFunctionOnSet(h, S \ {c}) \in Int
    <2>1. (\A x \in S \ {c} : h[x] \in Int) /\ (\A x \in S \ {c} : e[x] = h[x])
      BY <1>4
    <2> QED
      BY <1>3, <2>1, SumSame, SumTakes
  <1>7. h[c] = 0 /\ e[c] = a
    BY <1>2 DEF DatabaseTypeOK
  <1>8. HandTotal = SumFunctionOnSet(h, S) /\ HandTotal' = SumFunctionOnSet(e, S)
    <2>1. HandTotal' = SumFunctionOnSet(entry', Clerks \ reversed')
      BY DEF HandTotal
    <2> QED
      BY <1>1, <1>2, <2>1 DEF HandTotal
  <1> QED
    BY <1>5, <1>6, <1>7, <1>8

\* A reversal takes it away again (reverseBondMovement).
LEMMA ReversalTakes ==
  ASSUME DatabaseTypeOK, NEW c \in Clerks, c \notin reversed,
         reversed' = reversed \cup {c}, UNCHANGED entry
  PROVE  HandTotal = entry[c] + HandTotal' /\ HandTotal' \in Nat
  <1>1. PICK S : S = Clerks \ reversed
    OBVIOUS
  <1>2. IsFiniteSet(S) /\ c \in S
    BY <1>1, FinitelyMany, FS_Subset
  <1>3. \A x \in S : entry[x] \in Int
    BY <1>1, EntriesAreAmounts
  <1>4. SumFunctionOnSet(entry, S) = entry[c] + SumFunctionOnSet(entry, S \ {c})
    BY <1>2, <1>3, SumTakes
  <1>5. HandTotal' = SumFunctionOnSet(entry, S \ {c})
    <2>1. HandTotal' = SumFunctionOnSet(entry', Clerks \ reversed')
      BY DEF HandTotal
    <2>2. Clerks \ reversed' = S \ {c}
      BY <1>1
    <2> QED
      BY <2>1, <2>2
  <1>6. SumFunctionOnSet(entry, S \ {c}) \in Nat
    <2>1. IsFiniteSet(S \ {c})
      BY <1>2, FS_Subset
    <2>2. \A x \in S \ {c} : entry[x] \in Nat
      BY <1>1, EntriesAreAmounts
    <2> QED
      BY <2>1, <2>2, SumNotNegative
  <1> QED
    BY <1>1, <1>4, <1>5, <1>6 DEF HandTotal

-----------------------------------------------------------------------------
(* No more than the bond is asked for.                                     *)

\* A step that leaves the amounts alone, opens no page, and prices no press and admits no
\* clerk, keeps AmountsInv.
LEMMA QuietStepKeepsAmounts ==
  ASSUME AmountsInv, UNCHANGED <<amount, cents, entry, reversed>>,
         \A s \in Pages : session'[s] # "unborn" => session[s] # "unborn",
         \A p \in Presses : pc'[p] \in Priced => pc[p] \in Priced,
         \A c \in Clerks : /\ pc'[c] = "owing" => pc[c] = "owing"
                           /\ pc'[c] = "idle" => pc[c] = "idle"
  PROVE  AmountsInv'
  <1>1. HandTotal' = HandTotal
    BY DEF HandTotal
  <1>2. /\ amount' \in [Pages -> Nat] /\ cents' \in [Presses \cup Clerks -> Nat]
        /\ \A p \in Presses : pc'[p] \in Priced => cents'[p] \in MinCharge .. Bond
    BY DEF AmountsInv
  <1>3. \A c \in Clerks :
          /\ pc'[c] = "owing" => HandTotal' <= cents'[c]
          /\ pc'[c] \in {"idle", "owing"} => entry'[c] = 0 /\ c \notin reversed'
    BY <1>1 DEF AmountsInv
  <1>4. \A c, d \in Clerks : pc'[c] = "owing" /\ pc'[d] = "owing" => c = d
    BY DEF AmountsInv
  <1>5. PagesWithinBond' /\ HandTotalWithinBond'
    BY <1>1 DEF AmountsInv, WithinBond, PagesWithinBond, HandTotalWithinBond
  <1> QED
    BY <1>2, <1>3, <1>4, <1>5 DEF AmountsInv, WithinBond, Priced

\* Expiring a page at Stripe opens none.
LEMMA ExpiringOpensNone ==
  ASSUME IInv, NEW s \in Pages, ExpireAtStripe(s)
  PROVE  \A t \in Pages : session'[t] # "unborn" => session[t] # "unborn"
  BY DEF ExpireAtStripe, IInv, TypeOK, StripeTypeOK

\* The steps that settle nothing about amounts.
LEMMA QuietPressKeepsAmounts ==
  ASSUME IInv, AmountsInv, NEW p \in Presses,
         PressReuse(p) \/ PressLimit(p) \/ PressSave(p) \/ PressConflict(p) \/ PressExpireOwn(p)
  PROVE  AmountsInv'
  <1>1. UNCHANGED <<amount, cents, entry, reversed>>
    BY DEF PressReuse, PressLimit, PressSave, PressConflict, PressExpireOwn, stripeVars, dbVars
  <1>2. \A s \in Pages : session'[s] # "unborn" => session[s] # "unborn"
    <2>1. CASE PressExpireOwn(p)
      <3>1. opened[p] \in Pages /\ ExpireAtStripe(opened[p])
        BY <2>1 DEF PressExpireOwn, IInv, JustOpenedIsPrivate
      <3> QED
        BY <3>1, ExpiringOpensNone
    <2> QED
      BY <2>1 DEF PressReuse, PressLimit, PressSave, PressConflict, stripeVars
  <1>3. /\ pc \in [Procs -> Steps] /\ p \in Procs /\ p \notin Clerks
        /\ \E step \in {"done", "limit", "retire", "conflict", "expireOwn"} :
              pc' = [pc EXCEPT ![p] = step]
        /\ pc'[p] \in Priced => pc[p] \in Priced
    BY RequestKinds DEF PressReuse, PressLimit, PressSave, PressConflict, PressExpireOwn, Goto,
       Priced, Procs, IInv, TypeOK, RequestTypeOK
  <1>4. /\ \A q \in Presses : pc'[q] \in Priced => pc[q] \in Priced
        /\ \A c \in Clerks : pc'[c] = pc[c]
    BY <1>3 DEF Procs
  <1> QED
    BY <1>1, <1>2, <1>4, QuietStepKeepsAmounts

\* A press prices what is left: at least what Stripe takes, and no more than the bond.
LEMMA PressPricesWithinBond ==
  ASSUME IInv, AmountsInv, NEW p \in Presses, PressFind(p) \/ PressOwing(p)
  PROVE  AmountsInv'
  <1>1. /\ pc \in [Procs -> Steps] /\ p \in Procs /\ p \notin Clerks /\ DatabaseTypeOK
        /\ cents \in [Presses \cup Clerks -> Nat] /\ amount \in [Pages -> Nat]
    BY RequestKinds DEF Procs, IInv, TypeOK, RequestTypeOK, AmountsInv
  <1>2. /\ Held \in Nat /\ OnItsWay \in Nat
    BY <1>1, SumsAreAmounts
  <1>3. /\ UNCHANGED <<session, amount, entry, reversed>>
        /\ \A q \in Procs \ {p} : pc'[q] = pc[q]
        /\ \A q \in (Presses \cup Clerks) \ {p} : cents'[q] = cents[q]
    BY <1>1 DEF PressFind, PressOwing, Goto, stripeVars, dbVars
  <1>4. /\ cents' \in [Presses \cup Clerks -> Nat]
        /\ pc'[p] \in Priced => cents'[p] \in MinCharge .. Bond
    <2>1. CASE PressFind(p)
      BY <1>1, <1>2, <2>1 DEF PressFind, Goto, Priced
    <2>2. CASE PressOwing(p)
      <3>1. PICK payable : payable = PayableOnline(AtLeastZero(Bond - cents[p] - OnItsWay))
        OBVIOUS
      <3>2. payable = 0 \/ payable \in MinCharge .. Bond
        BY <1>1, <1>2, <3>1, BondIsMoney DEF PayableOnline, AtLeastZero
      <3>3. /\ cents' = [cents EXCEPT ![p] = payable]
            /\ pc' = [pc EXCEPT ![p] = IF payable = 0 THEN "done" ELSE "reuse"]
        BY <2>2, <3>1 DEF PressOwing, Goto
      <3>4. cents'[p] = payable /\ (payable = 0 => pc'[p] = "done")
        BY <1>1, <3>3
      <3>5. payable \in Nat
        BY <3>2, BondIsMoney
      <3> QED
        BY <1>1, <3>2, <3>3, <3>4, <3>5 DEF Priced
    <2> QED
      BY <2>1, <2>2
  <1>5. HandTotal' = HandTotal
    BY <1>3 DEF HandTotal
  <1>6. \A c \in Clerks : pc'[c] = pc[c] /\ cents'[c] = cents[c]
    BY <1>1, <1>3 DEF Procs
  <1>7. \A q \in Presses \ {p} : pc'[q] = pc[q] /\ cents'[q] = cents[q]
    BY <1>3 DEF Procs
  <1>8. PagesWithinBond' /\ HandTotalWithinBond'
    BY <1>3, <1>5 DEF AmountsInv, WithinBond, PagesWithinBond, HandTotalWithinBond
  <1>9. \A q \in Presses : pc'[q] \in Priced => cents'[q] \in MinCharge .. Bond
    BY <1>4, <1>7 DEF AmountsInv
  <1>10. \A c \in Clerks :
          /\ pc'[c] = "owing" => HandTotal' <= cents'[c]
          /\ pc'[c] \in {"idle", "owing"} => entry'[c] = 0 /\ c \notin reversed'
    BY <1>3, <1>5, <1>6 DEF AmountsInv
  <1>11. \A c, d \in Clerks : pc'[c] = "owing" /\ pc'[d] = "owing" => c = d
    BY <1>6 DEF AmountsInv
  <1> QED
    BY <1>1, <1>3, <1>4, <1>8, <1>9, <1>10, <1>11 DEF AmountsInv, WithinBond, Priced

\* The page Stripe opens asks for the amount priced.
LEMMA PressStartKeepsAmounts ==
  ASSUME IInv, AmountsInv, NEW p \in Presses, NEW s \in Pages, PressStart(p, s)
  PROVE  AmountsInv'
  <1>1. /\ pc \in [Procs -> Steps] /\ session \in [Pages -> SessionStates]
        /\ p \in Procs /\ p \notin Clerks
        /\ cents \in [Presses \cup Clerks -> Nat] /\ amount \in [Pages -> Nat]
    BY RequestKinds DEF Procs, IInv, TypeOK, StripeTypeOK, RequestTypeOK, AmountsInv
  <1>2. /\ UNCHANGED <<cents, entry, reversed>> /\ cents[p] \in MinCharge .. Bond
        /\ pc' = [pc EXCEPT ![p] = "save"] /\ session' = [session EXCEPT ![s] = "open"]
        /\ amount' = [amount EXCEPT ![s] = cents[p]]
    BY DEF PressStart, dbVars, Goto, AmountsInv, Priced
  <1>3. HandTotal' = HandTotal
    BY <1>2 DEF HandTotal
  <1>4. amount' \in [Pages -> Nat] /\ PagesWithinBond'
    <2>1. cents[p] \in Nat
      BY <1>1
    <2> QED
      BY <1>1, <1>2, <2>1 DEF AmountsInv, WithinBond, PagesWithinBond
  <1>5. \A q \in Presses : pc'[q] \in Priced => cents'[q] \in MinCharge .. Bond
    BY <1>1, <1>2 DEF AmountsInv, Priced, Procs
  <1>6. \A c \in Clerks : pc'[c] = pc[c]
    BY <1>1, <1>2 DEF Procs
  <1>7. \A c \in Clerks :
          /\ pc'[c] = "owing" => HandTotal' <= cents'[c]
          /\ pc'[c] \in {"idle", "owing"} => entry'[c] = 0 /\ c \notin reversed'
    BY <1>2, <1>3, <1>6 DEF AmountsInv
  <1>8. \A c, d \in Clerks : pc'[c] = "owing" /\ pc'[d] = "owing" => c = d
    BY <1>6 DEF AmountsInv
  <1>9. HandTotalWithinBond'
    BY <1>3 DEF AmountsInv, WithinBond, HandTotalWithinBond
  <1> QED
    BY <1>1, <1>2, <1>4, <1>5, <1>7, <1>8, <1>9 DEF AmountsInv, WithinBond, Priced

\* lockRental lets one clerk at a time weigh an entry, against what is held.
LEMMA ClerkFindKeepsAmounts ==
  ASSUME IInv, AmountsInv, NEW c \in Clerks, ClerkFind(c)
  PROVE  AmountsInv'
  <1>1. /\ pc \in [Procs -> Steps] /\ c \in Procs /\ c \notin Presses /\ DatabaseTypeOK
        /\ cents \in [Presses \cup Clerks -> Nat] /\ amount \in [Pages -> Nat]
    BY RequestKinds DEF Procs, IInv, TypeOK, RequestTypeOK, AmountsInv
  <1>2. Held \in Nat /\ HandTotal \in Nat /\ HandTotal <= Held
    BY <1>1, SumsAreAmounts
  <1>3. /\ UNCHANGED <<session, amount, entry, reversed>>
        /\ pc[c] = "idle" /\ \A d \in Clerks : pc[d] # "owing"
        /\ \A q \in Procs \ {c} : pc'[q] = pc[q]
        /\ \A q \in (Presses \cup Clerks) \ {c} : cents'[q] = cents[q]
        /\ cents' \in [Presses \cup Clerks -> Nat]
        /\ pc'[c] \in {"owing", "done"} /\ (pc'[c] = "owing" => cents'[c] = Held)
    BY <1>1, <1>2 DEF ClerkFind, RentalLocked, Goto, stripeVars, dbVars
  <1>4. HandTotal' = HandTotal
    BY <1>3 DEF HandTotal
  <1>5. PagesWithinBond' /\ HandTotalWithinBond'
    BY <1>3, <1>4 DEF AmountsInv, WithinBond, PagesWithinBond, HandTotalWithinBond
  <1>6. \A q \in Presses : pc'[q] \in Priced => cents'[q] \in MinCharge .. Bond
    BY <1>1, <1>3 DEF AmountsInv, Procs
  <1>7. \A d \in Clerks : pc'[d] = "owing" => d = c
    BY <1>3 DEF Procs
  <1>8. \A d \in Clerks : pc'[d] = "owing" => HandTotal' <= cents'[d]
    BY <1>2, <1>3, <1>4, <1>7
  <1>9. \A d \in Clerks : pc'[d] \in {"idle", "owing"} => entry'[d] = 0 /\ d \notin reversed'
    BY <1>3 DEF AmountsInv, Procs
  <1> QED
    BY <1>1, <1>3, <1>5, <1>6, <1>7, <1>8, <1>9 DEF AmountsInv, WithinBond, Priced

\* An entry is no more than what the bond leaves over what hands took in.
LEMMA ClerkRecordKeepsAmounts ==
  ASSUME IInv, AmountsInv, NEW c \in Clerks, NEW a \in HandAmounts, ClerkRecord(c, a)
  PROVE  AmountsInv'
  <1>1. /\ pc \in [Procs -> Steps] /\ c \in Procs /\ c \notin Presses /\ DatabaseTypeOK
        /\ cents \in [Presses \cup Clerks -> Nat] /\ amount \in [Pages -> Nat]
    BY RequestKinds DEF Procs, IInv, TypeOK, RequestTypeOK, AmountsInv
  <1>2. /\ UNCHANGED <<session, amount, cents, reversed>>
        /\ pc[c] = "owing" /\ pc'[c] \in {"retire", "done"}
        /\ \A q \in Procs \ {c} : pc'[q] = pc[q]
    BY <1>1 DEF ClerkRecord, Goto, stripeVars
  <1>3. \A d \in Clerks : /\ pc'[d] = "owing" => pc[d] = "owing"
                          /\ pc'[d] = "idle" => pc[d] = "idle"
    BY <1>2 DEF Procs
  <1>4. \A q \in Presses : pc'[q] = pc[q]
    BY <1>1, <1>2 DEF Procs
  <1>5. CASE UNCHANGED entry
    BY <1>2, <1>3, <1>4, <1>5, QuietStepKeepsAmounts
  <1>6. CASE a <= ToReceiveByHand(cents[c]) /\ entry' = [entry EXCEPT ![c] = a]
    <2>1. /\ HandTotal \in Nat /\ OnItsWay \in Nat /\ HandTotal <= cents[c] /\ cents[c] \in Nat
          /\ entry[c] = 0 /\ c \notin reversed
      BY <1>1, <1>2, SumsAreAmounts DEF AmountsInv
    <2>2. a \in Nat /\ a > 0
      BY HandAmountsAreMoney
    <2>3. HandTotal' = HandTotal + a
      BY <1>1, <1>2, <1>6, <2>1, <2>2, EntryAdds
    <2>4. a <= Bond - cents[c] - OnItsWay
      BY <1>6, <2>1, <2>2, BondIsMoney DEF ToReceiveByHand, AtLeastZero
    <2>5. HandTotal' <= Bond
      BY <2>1, <2>2, <2>3, <2>4, BondIsMoney
    <2>6. \A d \in Clerks : pc'[d] # "owing"
      BY <1>2, <1>3 DEF AmountsInv
    <2>7. \A d \in Clerks : pc'[d] = "idle" => entry'[d] = 0 /\ d \notin reversed'
      BY <1>1, <1>2, <1>3, <1>6 DEF AmountsInv, DatabaseTypeOK
    <2>8. \A q \in Presses : pc'[q] \in Priced => cents'[q] \in MinCharge .. Bond
      BY <1>2, <1>4 DEF AmountsInv
    <2>9. PagesWithinBond' /\ HandTotalWithinBond'
      BY <1>2, <2>5 DEF AmountsInv, WithinBond, PagesWithinBond, HandTotalWithinBond
    <2> QED
      BY <1>1, <1>2, <2>6, <2>7, <2>8, <2>9 DEF AmountsInv, WithinBond, Priced
  <1> QED
    BY <1>5, <1>6 DEF ClerkRecord

\* A correction, made while no clerk weighs an entry, only takes away.
LEMMA ReverseEntryKeepsAmounts ==
  ASSUME IInv, AmountsInv, NEW c \in Clerks, ReverseEntry(c)
  PROVE  AmountsInv'
  <1>1. DatabaseTypeOK /\ amount \in [Pages -> Nat] /\ entry[c] \in Nat /\ HandTotal \in Nat
    <2>1. DatabaseTypeOK /\ amount \in [Pages -> Nat]
      BY DEF IInv, TypeOK, AmountsInv
    <2> QED
      BY <2>1, EntriesAreAmounts, SumsAreAmounts
  <1>2. /\ UNCHANGED <<session, amount, cents, entry, pc>>
        /\ c \notin reversed /\ reversed' = reversed \cup {c} /\ entry[c] > 0
        /\ \A d \in Clerks : pc[d] # "owing"
    BY DEF ReverseEntry, RentalLocked, stripeVars, procVars
  <1>3. HandTotal' \in Nat /\ HandTotal = entry[c] + HandTotal'
    BY <1>1, <1>2, ReversalTakes
  <1>4. HandTotal' <= Bond
    <2>1. HandTotal <= Bond
      BY DEF AmountsInv, WithinBond, HandTotalWithinBond
    <2> QED
      BY <1>1, <1>3, <2>1, BondIsMoney
  <1>5. PagesWithinBond' /\ HandTotalWithinBond'
    BY <1>2, <1>4 DEF AmountsInv, WithinBond, PagesWithinBond, HandTotalWithinBond
  <1>6. \A d \in Clerks : pc'[d] \in {"idle", "owing"} => entry'[d] = 0 /\ d \notin reversed'
    BY <1>2, <1>1 DEF AmountsInv
  <1> QED
    BY <1>2, <1>5, <1>6 DEF AmountsInv, WithinBond, Priced

\* The requests' shared steps, visits, Stripe's messages and a death leave amounts alone.
LEMMA OtherRequestsKeepAmounts ==
  ASSUME IInv, AmountsInv, NEW p \in Procs,
         \/ SharedStep(p) \/ RequestDies(p)
         \/ p \in Visits /\ VisitFind(p)
         \/ p \in Handlers /\ ((\E e \in Events : Deliver(p, e)) \/ HandleEvent(p))
  PROVE  AmountsInv'
  <1>1. UNCHANGED <<amount, cents, entry, reversed>>
    BY DEF SharedStep, StripeRefuses, RequestDies, Abandon, VisitFind, Deliver, HandleEvent,
       RetireFind, RetireExpire, ReadCheckout, RecordOutcome, ApplyCheckoutOutcome, stripeVars,
       dbVars
  <1>2. \A s \in Pages : session'[s] # "unborn" => session[s] # "unborn"
    <2>1. CASE RetireExpire(p)
      <3>1. found[p] \in Pages /\ ExpireAtStripe(found[p])
        BY <2>1 DEF RetireExpire, IInv, RequestsAreTrue
      <3> QED
        BY <3>1, ExpiringOpensNone
    <2> QED
      BY <2>1 DEF SharedStep, StripeRefuses, RequestDies, Abandon, VisitFind, Deliver,
         HandleEvent, RetireFind, ReadCheckout, RecordOutcome, stripeVars
  <1>3. /\ pc \in [Procs -> Steps]
        /\ \E step \in Steps : pc' = [pc EXCEPT ![p] = step]
        /\ p \in Presses /\ pc'[p] \in Priced => pc[p] \in Priced
        /\ p \in Clerks => pc'[p] \notin {"idle", "owing"}
    <2>1. pc \in [Procs -> Steps]
      BY DEF IInv, TypeOK, RequestTypeOK
    <2>2. CASE RetireFind(p) \/ RetireExpire(p) \/ ReadCheckout(p)
      BY <2>1, <2>2 DEF RetireFind, RetireExpire, ReadCheckout, Goto, Steps, Priced
    <2>3. CASE RecordOutcome(p)
      BY <2>1, <2>3 DEF RecordOutcome, AfterOutcome, Goto, Steps, Priced
    <2>4. CASE RequestDies(p) \/ StripeRefuses(p)
      BY <2>1, <2>4, RequestKinds DEF RequestDies, StripeRefuses, Abandon, Finish, Goto, Steps,
                                      Priced
    <2>5. CASE \/ p \in Visits /\ VisitFind(p)
               \/ p \in Handlers /\ ((\E e \in Events : Deliver(p, e)) \/ HandleEvent(p))
      BY <2>1, <2>5, RequestKinds DEF VisitFind, Deliver, HandleEvent, Finish, Goto, Steps
    <2> QED
      BY <2>1, <2>2, <2>3, <2>4, <2>5 DEF SharedStep
  <1>4. /\ \A q \in Presses : pc'[q] \in Priced => pc[q] \in Priced
        /\ \A c \in Clerks : /\ pc'[c] = "owing" => pc[c] = "owing"
                             /\ pc'[c] = "idle" => pc[c] = "idle"
    BY <1>3 DEF Procs
  <1> QED
    BY <1>1, <1>2, <1>4, QuietStepKeepsAmounts

\* What happens at Stripe, the rental's end and the account's.
LEMMA OthersKeepAmounts ==
  ASSUME IInv, AmountsInv,
         \/ RentalEnds \/ AccessEnds \/ MarkDisconnected
         \/ \E s \in Pages : \/ PayPage(s, "paid") \/ PayPage(s, "processing")
                             \/ DebitSettles(s, "paid") \/ DebitSettles(s, "failed")
                             \/ PageAges(s)
  PROVE  AmountsInv'
  <1>1. UNCHANGED <<amount, cents, entry, reversed, pc>>
    BY DEF RentalEnds, AccessEnds, MarkDisconnected, PayPage, DebitSettles, PageAges, stripeVars,
           dbVars, procVars
  <1>2. \A s \in Pages : session'[s] # "unborn" => session[s] # "unborn"
    <2>1. CASE \E s \in Pages : PageAges(s)
      BY <2>1, ExpiringOpensNone DEF PageAges
    <2>2. CASE \E s \in Pages : PayPage(s, "paid") \/ PayPage(s, "processing")
      BY <2>2 DEF PayPage, IInv, TypeOK, StripeTypeOK
    <2> QED
      BY <2>1, <2>2 DEF RentalEnds, AccessEnds, MarkDisconnected, DebitSettles, stripeVars
  <1> QED
    BY <1>1, <1>2, QuietStepKeepsAmounts

\* Every step keeps AmountsInv.
LEMMA NextKeepsAmounts == IInv /\ AmountsInv /\ [Next]_vars => AmountsInv'
  <1> SUFFICES ASSUME IInv, AmountsInv, [Next]_vars
               PROVE  AmountsInv'
    OBVIOUS
  <1>1. CASE UNCHANGED vars
    BY <1>1, QuietStepKeepsAmounts DEF vars
  <1>2. CASE \E p \in Presses : PressStep(p)
    BY <1>2, QuietPressKeepsAmounts, PressPricesWithinBond, PressStartKeepsAmounts DEF PressStep
  <1>3. CASE \E c \in Clerks : ClerkStep(c) \/ ReverseEntry(c)
    BY <1>3, ClerkFindKeepsAmounts, ClerkRecordKeepsAmounts, ReverseEntryKeepsAmounts
       DEF ClerkStep
  <1>4. CASE \/ \E v \in Visits : VisitFind(v)
             \/ \E h \in Handlers : (\E e \in Events : Deliver(h, e)) \/ HandleEvent(h)
             \/ \E p \in Procs : SharedStep(p) \/ RequestDies(p)
    BY <1>4, OtherRequestsKeepAmounts DEF Procs
  <1>5. CASE \/ RentalEnds \/ AccessEnds \/ MarkDisconnected
             \/ \E s \in Pages : \/ PayPage(s, "paid") \/ PayPage(s, "processing")
                                 \/ DebitSettles(s, "paid") \/ DebitSettles(s, "failed")
                                 \/ PageAges(s)
    BY <1>5, OthersKeepAmounts
  <1> QED
    BY <1>1, <1>2, <1>3, <1>4, <1>5 DEF Next

\* AmountsInv holds of every behaviour.
THEOREM AmountsHold == Spec => []AmountsInv
  <1>1. Init => AmountsInv
    <2> SUFFICES ASSUME Init PROVE AmountsInv
      OBVIOUS
    <2>1. /\ amount \in [Pages -> Nat] /\ cents \in [Presses \cup Clerks -> Nat]
          /\ \A p \in Procs : pc[p] = "idle"
          /\ \A c \in Clerks : entry[c] = 0 /\ c \notin reversed
          /\ PagesWithinBond
      BY DEF Init, PagesWithinBond
    <2>2. HandTotal = 0
      <3>1. PICK S : S = Clerks \ reversed
        OBVIOUS
      <3>2. IsFiniteSet(S) /\ \A x \in S : entry[x] = 0
        BY <2>1, <3>1, FinitelyMany, FS_Subset
      <3> QED
        BY <3>1, <3>2, SumOfZeros DEF HandTotal
    <2>3. HandTotal <= Bond
      BY <2>2, BondIsMoney
    <2> QED
      BY <2>1, <2>3 DEF AmountsInv, Priced, Procs, WithinBond, HandTotalWithinBond
  <1> QED
    BY <1>1, NextKeepsAmounts, Invariance, PTL DEF Spec

\* WithinBond for any number of presses, clerks and pages: every page asks for at least what
\* Stripe takes and no more than the bond (startRenterCheckout), and clerks together never
\* take in more than the bond, corrections counted off (recordBondReceived, lockRental).
THEOREM NeverMoreThanBond == Spec => []WithinBond
  <1>1. AmountsInv => WithinBond
    BY DEF AmountsInv
  <1> QED
    BY <1>1, AmountsHold, PTL
=============================================================================
