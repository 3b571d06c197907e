----------------------------- MODULE BondPages -----------------------------
(***************************************************************************)
(* A rental's bond, paid on Stripe's page or recorded by hand.             *)
(*                                                                         *)
(* Four kinds of request of the web app share the database and Stripe:     *)
(*   presses   the Renter presses Pay the bond     startRenterCheckout     *)
(*   clerks    staff record bond received by hand  recordBondReceived,     *)
(*             then stop the open page             stopBondPageAfterHand-  *)
(*                                                 Entry                   *)
(*   visits    the Renter is back from the page    recordReturnFromStripe  *)
(*   handlers  Stripe's webhook                    handlePaymentEvent      *)
(* A transaction, or one call of Stripe, is one step; two statements of a  *)
(* transaction are two steps where the READ COMMITTED snapshots they read  *)
(* may differ.  Any request may die between two of its steps.  The         *)
(* business may take its Stripe account off the platform: Stripe then      *)
(* refuses what is asked of it, and once that is noted its news is ignored.*)
(***************************************************************************)
EXTENDS Integers, FiniteSets, Functions

CONSTANTS
    Presses, Clerks, Visits, Handlers,  \* the requests of each kind
    Pages,          \* Stripe's pages (Checkout sessions), each opened once
    Bond,           \* rentals.bond_cents
    MinCharge,      \* STRIPE_MINIMUM_CHARGE_CENTS
    HandAmounts,    \* the amounts a clerk may type in
    MaxCrashes,     \* bound: how many requests may die
    NoPage, NoEvent

Procs == Presses \cup Clerks \cup Visits \cup Handlers

ASSUME RequestKinds ==
    /\ Presses \cap Clerks = {} /\ Presses \cap Visits = {}
    /\ Presses \cap Handlers = {} /\ Clerks \cap Visits = {}
    /\ Clerks \cap Handlers = {} /\ Visits \cap Handlers = {}
ASSUME BondIsMoney == Bond \in Nat \ {0} /\ MinCharge \in Nat \ {0}
ASSUME HandAmountsAreMoney == HandAmounts \subseteq Nat \ {0}
ASSUME CrashBound == MaxCrashes \in Nat
ASSUME NullPage == NoPage \notin Pages
ASSUME FinitelyMany == IsFiniteSet(Pages) /\ IsFiniteSet(Clerks)

EventTypes == {"completed", "expired", "async_succeeded", "async_failed"}
Events == [page : Pages, type : EventTypes]

ASSUME NullEvent == NoEvent \notin Events

SessionStates == {"unborn", "open", "complete", "expired"}
IntentStates == {"none", "processing", "paid", "failed"}
PaymentStates == {"none", "pending", "succeeded", "failed"}
Outcomes == [state : SessionStates, pay : IntentStates]
NothingRead == [state |-> "unborn", pay |-> "none"]

Steps == {"idle", "owing", "reuse", "limit", "retire", "expire", "read", "apply",
          "start", "save", "conflict", "expireOwn", "justPaid", "done"}

VARIABLES
    \* At Stripe.
    session,    \* each page: not opened yet, open, complete or expired
    amount,     \* what it asks for
    intent,     \* its payment intent
    age,        \* fresh; within REUSE_MARGIN of expiresAt; past expiresAt
    sent,       \* the events Stripe has news of, sent until acknowledged
    access,     \* Stripe still lets us reach the business's account
    \* The pages whose address a Renter has been given.
    handed,
    \* In the database.
    rentalOpen, \* the rental's status is one of BOND_OPEN_STATUSES
    row,        \* stripe_checkouts: "none" while no row was saved
    payment,    \* payments, by its Checkout session
    credits,    \* how many bond_movements of kind received each payment made
    entry,      \* the hand entry each clerk made: its amount, 0 for none
    reversed,   \* the clerks whose entry a reversal undid
    handled,    \* stripe_events
    connected,  \* stripe_accounts.disconnected_at is null
    \* In each request.
    pc, found, opened, seen, cents, event,
    crashes

stripeVars == <<session, amount, intent, age, sent, access>>
dbVars == <<rentalOpen, row, payment, credits, entry, reversed, handled, connected>>
procVars == <<pc, found, opened, seen, cents, event>>
vars == <<session, amount, intent, age, sent, access, handed, rentalOpen, row, payment,
          credits, entry, reversed, handled, connected, pc, found, opened, seen, cents, event,
          crashes>>

Init ==
    /\ session = [s \in Pages |-> "unborn"]
    /\ amount = [s \in Pages |-> 0]
    /\ intent = [s \in Pages |-> "none"]
    /\ age = [s \in Pages |-> "fresh"]
    /\ sent = {} /\ handed = {} /\ handled = {}
    /\ rentalOpen = TRUE /\ access = TRUE /\ connected = TRUE
    /\ row = [s \in Pages |-> "none"]
    /\ payment = [s \in Pages |-> "none"]
    /\ credits = [s \in Pages |-> 0]
    /\ entry = [c \in Clerks |-> 0]
    /\ reversed = {}
    /\ pc = [p \in Procs |-> "idle"]
    /\ found = [p \in Procs |-> NoPage]
    /\ opened = [p \in Presses |-> NoPage]
    /\ seen = [p \in Procs |-> NothingRead]
    /\ cents = [p \in Presses \cup Clerks |-> 0]
    /\ event = [h \in Handlers |-> NoEvent]
    /\ crashes = 0

-----------------------------------------------------------------------------
(* What the records add up to.                                             *)

AtLeastZero(n) == IF n > 0 THEN n ELSE 0

\* What hands took in and no reversal undid.
HandTotal == SumFunctionOnSet(entry, Clerks \ reversed)

\* bondHeldCents: everything received, reversed entries cancelled out.
Held == SumFunction([s \in Pages |-> credits[s] * amount[s]]) + HandTotal

\* bondOnItsWayCents: bank debits clearing, and finished pages with no payment yet.
OnItsWay ==
    SumFunctionOnSet(amount, {s \in Pages : \/ payment[s] = "pending"
                                            \/ row[s] = "complete" /\ payment[s] = "none"})

\* Mutant: Stripe's minimum forgotten.
PayableAnyAmount(toCollect) == toCollect

\* bondPayableOnlineCents: what is still to collect, if Stripe takes that little.
PayableOnline(toCollect) == IF toCollect >= MinCharge THEN toCollect ELSE 0

OpenRows == {s \in Pages : row[s] = "open"}

Goto(p, step) == pc' = [pc EXCEPT ![p] = step]

\* Mutant: the rental is read without FOR UPDATE.
RentalNotLocked == FALSE

\* The clerk's transaction holds the rental row locked between its two reads.
RentalLocked == \E c \in Clerks : pc[c] = "owing"

-----------------------------------------------------------------------------
(* applyCheckoutOutcome, inside the transaction of whoever calls it.       *)

\* Mutant: only a finished page is settled.
SettleFinished(s, o) ==
    row' = IF o.state = "complete" /\ row[s] = "open" THEN [row EXCEPT ![s] = "complete"] ELSE row

\* settleCheckout
Settle(s, o) ==
    row' = IF o.state \in {"complete", "expired"} /\ row[s] = "open"
           THEN [row EXCEPT ![s] = o.state] ELSE row

\* Mutants: a debit counted before it clears; Stripe's own words kept.
PaymentStatusInHaste(pay) == IF pay = "failed" THEN "failed" ELSE "succeeded"
PaymentStatusOfStripe(pay) == pay

PaymentStatusOf(pay) ==
    CASE pay = "paid" -> "succeeded" [] pay = "processing" -> "pending" [] OTHER -> "failed"

\* Mutants: the last told wins; told once, never again.
MovesWheneverTold(s, status) == payment[s] # status
MovesOnce(s, status) == payment[s] = "none"

\* A payment is kept the first time, then moved on once from pending.
Moves(s, status) ==
    \/ payment[s] = "none"
    \/ payment[s] = "pending" /\ status # "pending"

\* addBondReceived: the index one_per_payment lets a payment land once.
Credit(s) == credits' = [credits EXCEPT ![s] = IF @ = 0 THEN 1 ELSE @]

\* Mutant: a debit still clearing is not kept.
RecordSettledPayment(s, o) ==
    IF o.pay # "processing" /\ payment[s] = "none"
    THEN /\ payment' = [payment EXCEPT ![s] = PaymentStatusOf(o.pay)]
         /\ IF o.pay = "paid" THEN Credit(s) ELSE UNCHANGED credits
    ELSE UNCHANGED <<payment, credits>>

RecordBondPayment(s, o) ==
    LET status == PaymentStatusOf(o.pay) IN
    /\ payment' = IF Moves(s, status) THEN [payment EXCEPT ![s] = status] ELSE payment
    /\ IF Moves(s, status) /\ status = "succeeded" THEN Credit(s) ELSE UNCHANGED credits

ApplyCheckoutOutcome(s, o) ==
    /\ Settle(s, o)
    /\ IF o.state = "complete" THEN RecordBondPayment(s, o) ELSE UNCHANGED <<payment, credits>>
    /\ UNCHANGED <<rentalOpen, entry, reversed, connected>>

-----------------------------------------------------------------------------
(* A press of Pay the bond.                                                *)

\* startRenterCheckout, if Stripe is offered, reads the rental and the entries on its bond...
PressFind(p) ==
    /\ pc[p] = "idle"
    /\ IF connected /\ rentalOpen
       THEN cents' = [cents EXCEPT ![p] = Held] /\ Goto(p, "owing")
       ELSE Goto(p, "done") /\ UNCHANGED cents
    /\ UNCHANGED <<stripeVars, dbVars, handed, found, opened, seen, event, crashes>>

\* ...and, a statement later, what is on its way; then what is left to pay.
PressOwing(p) ==
    /\ pc[p] = "owing"
    /\ LET payable == PayableOnline(AtLeastZero(Bond - cents[p] - OnItsWay)) IN
       /\ cents' = [cents EXCEPT ![p] = payable]
       /\ Goto(p, IF payable = 0 THEN "done" ELSE "reuse")
    /\ UNCHANGED <<stripeVars, dbVars, handed, found, opened, seen, event, crashes>>

Reusable(s, payable) == row[s] = "open" /\ age[s] = "fresh" /\ amount[s] = payable

\* reusableBondPage: the open page again, if it is fresh and asks for as much.
PressReuse(p) ==
    /\ pc[p] = "reuse"
    /\ LET same == {s \in Pages : Reusable(s, cents[p])} IN
       IF same # {}
       THEN handed' = handed \cup same /\ Goto(p, "done")
       ELSE Goto(p, "limit") /\ UNCHANGED handed
    /\ UNCHANGED <<stripeVars, dbVars, found, opened, seen, cents, event, crashes>>

\* isWithinLinkLimit: its window of attempts is not kept here, either answer may come.
PressLimit(p) ==
    /\ pc[p] = "limit"
    /\ \E step \in {"retire", "done"} : Goto(p, step)
    /\ UNCHANGED <<stripeVars, dbVars, handed, found, opened, seen, cents, event, crashes>>

\* openNewPage: Stripe opens a page for what the press worked out at its start.
PressStart(p, s) ==
    /\ pc[p] = "start" /\ access /\ session[s] = "unborn"
    /\ session' = [session EXCEPT ![s] = "open"]
    /\ amount' = [amount EXCEPT ![s] = cents[p]]
    /\ opened' = [opened EXCEPT ![p] = s]
    /\ Goto(p, "save")
    /\ UNCHANGED <<intent, age, sent, access, dbVars, handed, found, seen, cents, event, crashes>>

\* Mutant: no index one_open_bond.
PressSaveUnchecked(p) ==
    /\ pc[p] = "save"
    /\ row' = [row EXCEPT ![opened[p]] = "open"]
    /\ handed' = handed \cup {opened[p]}
    /\ Goto(p, "done")
    /\ UNCHANGED <<stripeVars, rentalOpen, payment, credits, entry, reversed, handled, connected,
                   found, opened, seen, cents, event, crashes>>

\* saveCheckout: kept unless the index one_open_bond finds another page open.
PressSave(p) ==
    /\ pc[p] = "save"
    /\ IF OpenRows = {}
       THEN /\ row' = [row EXCEPT ![opened[p]] = "open"]
            /\ handed' = handed \cup {opened[p]}
            /\ Goto(p, "done")
       ELSE Goto(p, "conflict") /\ UNCHANGED <<row, handed>>
    /\ UNCHANGED <<stripeVars, rentalOpen, payment, credits, entry, reversed, handled, connected,
                   found, opened, seen, cents, event, crashes>>

\* The next statement looks for the page that won.  None: the new page's address is given.
PressConflict(p) ==
    /\ pc[p] = "conflict"
    /\ IF OpenRows = {}
       THEN /\ handed' = handed \cup {opened[p]}
            /\ Goto(p, "done")
            /\ UNCHANGED found
       ELSE /\ \E s \in OpenRows : found' = [found EXCEPT ![p] = s]
            /\ Goto(p, "expireOwn")
            /\ UNCHANGED handed
    /\ UNCHANGED <<stripeVars, dbVars, opened, seen, cents, event, crashes>>

\* expireCheckout: Stripe leaves a page already finished or expired as it is.
ExpireAtStripe(s) ==
    IF session[s] = "open"
    THEN /\ session' = [session EXCEPT ![s] = "expired"]
         /\ sent' = sent \cup {[page |-> s, type |-> "expired"]}
    ELSE UNCHANGED <<session, sent>>

\* The page that lost is expired and the winner's address given instead.
PressExpireOwn(p) ==
    /\ pc[p] = "expireOwn" /\ access
    /\ ExpireAtStripe(opened[p])
    /\ handed' = handed \cup {found[p]}
    /\ Goto(p, "done")
    /\ UNCHANGED <<amount, intent, age, access, dbVars, found, opened, seen, cents, event, crashes>>

-----------------------------------------------------------------------------
(* A bond entry by hand, and its correction.                               *)

\* recordBondReceived locks the rental and reads the entries...
ClerkFind(c) ==
    /\ pc[c] = "idle" /\ ~RentalLocked
    /\ IF rentalOpen
       THEN cents' = [cents EXCEPT ![c] = Held] /\ Goto(c, "owing")
       ELSE Goto(c, "done") /\ UNCHANGED cents
    /\ UNCHANGED <<stripeVars, dbVars, handed, found, opened, seen, event, crashes>>

\* What recordBondReceived checks the amount against, from what it has read.
ToReceiveByHand(heldRead) == AtLeastZero(AtLeastZero(Bond - heldRead) - OnItsWay)

\* ...and, a statement later, what is on its way: refused, or saved and the page stopped.
ClerkRecord(c, a) ==
    /\ pc[c] = "owing"
    /\ IF a <= ToReceiveByHand(cents[c])
       THEN entry' = [entry EXCEPT ![c] = a] /\ Goto(c, "retire")
       ELSE Goto(c, "done") /\ UNCHANGED entry
    /\ UNCHANGED <<stripeVars, rentalOpen, row, payment, credits, reversed, handled, connected,
                   handed, found, opened, seen, cents, event, crashes>>

\* reverseBondMovement: an entry by hand, once, and never below nothing held.
ReverseEntry(c) ==
    /\ ~RentalLocked
    /\ entry[c] > 0 /\ c \notin reversed /\ entry[c] <= Held
    /\ reversed' = reversed \cup {c}
    /\ UNCHANGED <<stripeVars, rentalOpen, row, payment, credits, entry, handled, connected,
                   handed, procVars, crashes>>

\* The rental is closed or cancelled: elsewhere, with its row locked.
RentalEnds ==
    /\ rentalOpen /\ ~RentalLocked
    /\ rentalOpen' = FALSE
    /\ UNCHANGED <<stripeVars, row, payment, credits, entry, reversed, handled, connected,
                   handed, procVars, crashes>>

-----------------------------------------------------------------------------
(* retireOpenBondPage, for a press and for a clerk, and the visit's return. *)

\* findOpenBondCheckout; stopBondPageAfterHandEntry stops nothing on a disconnected account.
RetireFind(p) ==
    /\ p \in Presses \cup Clerks /\ pc[p] = "retire"
    /\ IF OpenRows = {} \/ (p \in Clerks /\ ~connected)
       THEN Goto(p, IF p \in Presses THEN "start" ELSE "done") /\ UNCHANGED found
       ELSE /\ \E s \in OpenRows : found' = [found EXCEPT ![p] = s]
            /\ Goto(p, "expire")
    /\ UNCHANGED <<stripeVars, dbVars, handed, opened, seen, cents, event, crashes>>

\* Mutant: the old page is read, and not expired first.
RetireReadOnly(p) ==
    /\ pc[p] = "expire"
    /\ Goto(p, "read")
    /\ UNCHANGED <<stripeVars, dbVars, handed, found, opened, seen, cents, event, crashes>>

\* expireCheckout, before the page is read
RetireExpire(p) ==
    /\ pc[p] = "expire" /\ access
    /\ ExpireAtStripe(found[p])
    /\ Goto(p, "read")
    /\ UNCHANGED <<amount, intent, age, access, dbVars, handed, found, opened, seen, cents, event,
                   crashes>>

\* openCheckoutsOfLink: an open page of the link, not past its time.
VisitFind(v) ==
    /\ pc[v] = "idle" /\ connected
    /\ \E s \in OpenRows :
          /\ age[s] # "over"
          /\ found' = [found EXCEPT ![v] = s]
    /\ Goto(v, "read")
    /\ UNCHANGED <<stripeVars, dbVars, handed, opened, seen, cents, event, crashes>>

\* readCheckout: what Stripe says now, kept until the transaction that applies it.
ReadCheckout(p) ==
    /\ pc[p] = "read" /\ access
    /\ seen' = [seen EXCEPT ![p] = [state |-> session[found[p]], pay |-> intent[found[p]]]]
    /\ Goto(p, "apply")
    /\ UNCHANGED <<stripeVars, dbVars, handed, found, opened, cents, event, crashes>>

\* Mutant: what became of the old page is not looked at.
AfterAnyOutcome(p) == IF p \in Presses THEN "start" ELSE "done"

AfterOutcome(p) ==
    IF p \notin Visits /\ seen[p].state = "complete" THEN "justPaid"
    ELSE IF p \in Presses THEN "start" ELSE "done"

\* recordOutcome's transaction
RecordOutcome(p) ==
    /\ p \notin Handlers /\ pc[p] = "apply"
    /\ ApplyCheckoutOutcome(found[p], seen[p])
    /\ Goto(p, AfterOutcome(p))
    /\ UNCHANGED <<stripeVars, handled, handed, found, opened, seen, cents, event, crashes>>

-----------------------------------------------------------------------------
(* Stripe's messages.                                                      *)

\* An event arrives, or arrives again: what it is about is read from Stripe next.  On a
\* disconnected account it is ignored: nothing is kept, and Stripe does not send it again.
Deliver(h, e) ==
    /\ pc[h] = "idle" /\ connected /\ e \in sent
    /\ event' = [event EXCEPT ![h] = e]
    /\ found' = [found EXCEPT ![h] = e.page]
    /\ Goto(h, "read")
    /\ UNCHANGED <<stripeVars, dbVars, handed, opened, seen, cents, crashes>>

Finish(h) ==
    /\ Goto(h, "idle")
    /\ event' = [event EXCEPT ![h] = NoEvent]
    /\ found' = [found EXCEPT ![h] = NoPage]
    /\ seen' = [seen EXCEPT ![h] = NothingRead]

\* handlePaymentEvent's transaction: recorded as handled once, and applied with it.
HandleEvent(h) ==
    /\ pc[h] = "apply"
    /\ IF event[h] \in handled
       THEN UNCHANGED dbVars
       ELSE /\ handled' = handled \cup {event[h]}
            /\ ApplyCheckoutOutcome(found[h], seen[h])
    /\ Finish(h)
    /\ UNCHANGED <<stripeVars, handed, opened, cents, crashes>>

-----------------------------------------------------------------------------
(* The Renter on Stripe's page, the bank, and the clock.                   *)

Send(s, type) == sent' = sent \cup {[page |-> s, type |-> type]}

\* A page can be paid once, by whoever was given its address: by card or bank debit.
PayPage(s, how) ==
    /\ s \in handed /\ session[s] = "open"
    /\ session' = [session EXCEPT ![s] = "complete"]
    /\ intent' = [intent EXCEPT ![s] = how]
    /\ Send(s, "completed")
    /\ UNCHANGED <<amount, age, access, dbVars, handed, procVars, crashes>>

DebitSettles(s, how) ==
    /\ intent[s] = "processing"
    /\ intent' = [intent EXCEPT ![s] = how]
    /\ Send(s, IF how = "paid" THEN "async_succeeded" ELSE "async_failed")
    /\ UNCHANGED <<session, amount, age, access, dbVars, handed, procVars, crashes>>

\* No request lasts the hour a page does: one being opened and saved is still fresh.
JustOpened(s) == \E p \in Presses : opened[p] = s /\ pc[p] \in {"save", "conflict", "expireOwn"}

PageAges(s) ==
    /\ session[s] # "unborn" /\ age[s] # "over" /\ ~JustOpened(s)
    /\ IF age[s] = "fresh"
       THEN age' = [age EXCEPT ![s] = "closing"] /\ UNCHANGED <<session, sent>>
       ELSE age' = [age EXCEPT ![s] = "over"] /\ ExpireAtStripe(s)
    /\ UNCHANGED <<amount, intent, access, dbVars, handed, procVars, crashes>>

\* The business closes its Stripe account, or takes it off our platform.
AccessEnds ==
    /\ access
    /\ access' = FALSE
    /\ UNCHANGED <<session, amount, intent, age, sent, dbVars, handed, procVars, crashes>>

\* markDisconnected, on Stripe's own event of it, acted on without asking Stripe.
MarkDisconnected ==
    /\ connected /\ ~access
    /\ connected' = FALSE
    /\ UNCHANGED <<stripeVars, rentalOpen, row, payment, credits, entry, reversed, handled,
                   handed, procVars, crashes>>

\* A transaction not committed leaves nothing.
Abandon(p) ==
    /\ IF p \in Handlers
       THEN Finish(p)
       ELSE Goto(p, "done") /\ UNCHANGED <<found, seen, event>>
    /\ UNCHANGED <<stripeVars, dbVars, handed, opened, cents>>

\* The steps that ask something of Stripe.
AtStripe == {"start", "expireOwn", "expire", "read"}

\* Stripe refuses what is asked of an account it no longer lets us reach.
StripeRefuses(p) ==
    /\ pc[p] \in AtStripe /\ ~access
    /\ Abandon(p)
    /\ UNCHANGED crashes

\* The server dies, or a call of Stripe fails.
RequestDies(p) ==
    /\ pc[p] \notin {"idle", "done", "justPaid"} /\ crashes < MaxCrashes
    /\ crashes' = crashes + 1
    /\ Abandon(p)

-----------------------------------------------------------------------------
PressStep(p) ==
    \/ PressFind(p) \/ PressOwing(p) \/ PressReuse(p) \/ PressLimit(p)
    \/ \E s \in Pages : PressStart(p, s)
    \/ PressSave(p) \/ PressConflict(p) \/ PressExpireOwn(p)

ClerkStep(c) ==
    \/ ClerkFind(c)
    \/ \E a \in HandAmounts : ClerkRecord(c, a)

SharedStep(p) ==
    RetireFind(p) \/ RetireExpire(p) \/ ReadCheckout(p) \/ RecordOutcome(p) \/ StripeRefuses(p)

Next ==
    \/ \E p \in Presses : PressStep(p)
    \/ \E c \in Clerks : ClerkStep(c) \/ ReverseEntry(c)
    \/ \E v \in Visits : VisitFind(v)
    \/ \E h \in Handlers : (\E e \in Events : Deliver(h, e)) \/ HandleEvent(h)
    \/ \E p \in Procs : SharedStep(p) \/ RequestDies(p)
    \/ RentalEnds \/ AccessEnds \/ MarkDisconnected
    \/ \E s \in Pages :
          \/ PayPage(s, "paid") \/ PayPage(s, "processing")
          \/ DebitSettles(s, "paid") \/ DebitSettles(s, "failed")
          \/ PageAges(s)

Spec == Init /\ [][Next]_vars

(* A request that has begun goes on unless it dies.  Stripe sends an event  *)
(* until it is acknowledged, so each is tried again and again, though all   *)
(* handlers may be busy in between; so is the event that the account is     *)
(* gone.  A page's hour passes.  Nobody has to press, pay, or come back,    *)
(* and no debit has to clear.                                               *)
Fairness ==
    /\ \A p \in Procs : WF_vars(SharedStep(p))
    /\ \A h \in Handlers : WF_vars(HandleEvent(h))
    /\ \A e \in Events : SF_vars(e \notin handled /\ \E h \in Handlers : Deliver(h, e))
    /\ \A p \in Presses : WF_vars(pc[p] # "idle" /\ PressStep(p))
    /\ \A s \in Pages : WF_vars(PageAges(s))
    /\ WF_vars(MarkDisconnected)

FairSpec == Spec /\ Fairness

-----------------------------------------------------------------------------
(* What must hold.                                                         *)

\* The amounts, which are sums, are left to PagesWithinBond.
StripeTypeOK ==
    /\ session \in [Pages -> SessionStates]
    /\ intent \in [Pages -> IntentStates]
    /\ age \in [Pages -> {"fresh", "closing", "over"}]
    /\ sent \subseteq Events /\ handed \subseteq Pages /\ access \in BOOLEAN

DatabaseTypeOK ==
    /\ rentalOpen \in BOOLEAN /\ connected \in BOOLEAN
    /\ row \in [Pages -> {"none", "open", "complete", "expired"}]
    /\ payment \in [Pages -> PaymentStates]
    /\ credits \in [Pages -> {0, 1}]
    /\ entry \in [Clerks -> HandAmounts \cup {0}]
    /\ reversed \subseteq Clerks /\ handled \subseteq Events

RequestTypeOK ==
    /\ pc \in [Procs -> Steps]
    /\ found \in [Procs -> Pages \cup {NoPage}]
    /\ opened \in [Presses -> Pages \cup {NoPage}]
    /\ seen \in [Procs -> Outcomes]
    /\ event \in [Handlers -> Events \cup {NoEvent}]
    /\ crashes \in 0 .. MaxCrashes

\* Every variable stays in its type (the tables' enums, and each request's steps).
TypeOK == StripeTypeOK /\ DatabaseTypeOK /\ RequestTypeOK

\* What is recorded of a payment is what became of it at Stripe, however late or
\* often Stripe tells, and exactly the payments that succeeded are on the bond
\* (recordBondPayment, addBondReceived).
RecordedIsTrue ==
    \A s \in Pages :
        /\ payment[s] = "succeeded" => intent[s] = "paid"
        /\ payment[s] = "failed" => intent[s] = "failed"
        /\ payment[s] = "pending" => intent[s] # "none"
        /\ credits[s] = IF payment[s] = "succeeded" THEN 1 ELSE 0

\* What each kind of event must have done.
Applied(e) ==
    CASE e.type = "completed" -> payment[e.page] # "none" /\ row[e.page] # "open"
      [] e.type = "expired" -> payment[e.page] = "none" /\ row[e.page] # "open"
      [] e.type = "async_succeeded" -> payment[e.page] = "succeeded"
      [] e.type = "async_failed" -> payment[e.page] = "failed"

\* An event once marked handled left its mark on the records, in the same transaction:
\* none is lost to a reading of Stripe that came too early, to another request that
\* got there first, or to a death in between (handlePaymentEvent, record_stripe_event).
HandledIsApplied == \A e \in handled : Applied(e)

\* A page the database calls finished or expired is so at Stripe for good; with the
\* one-open index, never two pages it has kept can be paid (settleCheckout, saveCheckout).
OneSavedPagePayable ==
    \A s, t \in Pages :
        row[s] # "none" /\ row[t] # "none" /\ session[s] = "open" /\ session[t] = "open" => s = t

\* A press opens its new page only once the one it found open can no longer be paid,
\* and was not paid (retireOpenBondPage, before openNewPage).
RetiredBeforeReplaced ==
    \A p \in Presses :
        pc[p] \in {"start", "save"} /\ found[p] # NoPage => session[found[p]] = "expired"

\* A request told the Renter had just paid leaves that payment recorded (retireOpenBondPage).
JustPaidIsRecorded ==
    \A p \in Procs :
        pc[p] = "justPaid" => payment[found[p]] # "none" /\ row[found[p]] # "open"

\* What retireOpenBondPage tells a press is so until the press ends.
RetirementIsTrue == RetiredBeforeReplaced /\ JustPaidIsRecorded

\* No page asks for nothing, for less than Stripe takes, or for more than the bond
\* (startRenterCheckout, bondPayableOnlineCents).
PagesWithinBond ==
    \A s \in Pages : session[s] # "unborn" => amount[s] \in MinCharge .. Bond

\* Two clerks at once never take more than the bond between them (lockRental).
HandTotalWithinBond == HandTotal <= Bond

\* However presses, hands and reversals fall together, no more than the bond is ever asked for.
WithinBond == PagesWithinBond /\ HandTotalWithinBond

\* A payment's status only moves forward, and the money on the bond never leaves by
\* itself (recordBondPayment: told again, or out of order).
PaymentMovesForward ==
    [][\A s \in Pages :
         /\ payment[s] \in {"succeeded", "failed"} => payment'[s] = payment[s]
         /\ payment[s] = "pending" => payment'[s] # "none"
         /\ credits'[s] >= credits[s]
         /\ row[s] \in {"complete", "expired"} => row'[s] = row[s]]_vars

\* Money paid at Stripe reaches the bond, whatever dies on the way and whoever else told of
\* it first, unless the business takes its account away before it does: news of a
\* disconnected account is ignored for good (handlePaymentEvent).
PaidReachesBond == \A s \in Pages : (intent[s] = "paid") ~> (credits[s] = 1 \/ ~connected)

\* A page we keep as open does not stay so: it is settled as Stripe says, unless the account
\* is disconnected first; then its row stays open for good.
OpenPageSettles == \A s \in Pages : (row[s] = "open") ~> (row[s] # "open" \/ ~connected)

-----------------------------------------------------------------------------
(* Why the first three hold: an invariant every step keeps.                *)

\* Stripe's side: a page is finished exactly when it has a payment, and news is true.
StripeIsTrue ==
    /\ \A s \in Pages :
          /\ session[s] = "complete" <=> intent[s] # "none"
          /\ s \in handed => session[s] # "unborn"
    /\ \A e \in sent :
          /\ e.type = "completed" => session[e.page] = "complete"
          /\ e.type = "expired" => session[e.page] = "expired"
          /\ e.type = "async_succeeded" => intent[e.page] = "paid"
          /\ e.type = "async_failed" => intent[e.page] = "failed"
    /\ handled \subseteq sent

\* A row closed in the database is closed at Stripe, and at most one is open.
RowsAreTrue ==
    /\ \A s \in Pages :
          /\ row[s] # "none" => session[s] # "unborn"
          /\ row[s] \in {"complete", "expired"} => session[s] = row[s]
          /\ row[s] = "complete" => payment[s] # "none"
    /\ \A s, t \in OpenRows : s = t

\* A page between Stripe's opening it and its row is one press's, and nobody else's.
JustOpenedIsPrivate ==
    /\ \A p \in Presses :
          pc[p] \in {"save", "conflict", "expireOwn"} =>
             /\ opened[p] \in Pages
             /\ session[opened[p]] = "open"
             /\ row[opened[p]] = "none" /\ opened[p] \notin handed
    /\ \A p, q \in Presses : opened[p] = opened[q] => p = q \/ opened[p] = NoPage
    /\ \A p \in Presses : opened[p] # NoPage => session[opened[p]] # "unborn"

\* A reading of a page that was true when made and, where it is final, still is.
ReadingIsTrue(s, o) ==
    /\ o.state # "unborn"
    /\ o.state \in {"complete", "expired"} => session[s] = o.state
    /\ o.state = "complete" <=> o.pay # "none"
    /\ o.pay \in {"paid", "failed"} => intent[s] = o.pay

\* A reading is no older than the news that led to it.
ReadingShowsNews(o, type) ==
    /\ type = "completed" => o.state = "complete"
    /\ type = "expired" => o.state = "expired"
    /\ type = "async_succeeded" => o.pay = "paid"
    /\ type = "async_failed" => o.pay = "failed"

\* What a request works on is a page it found in the database, or was told of.
RequestsAreTrue ==
    \A p \in Procs :
        /\ pc[p] \in {"expire", "read", "apply", "expireOwn", "justPaid"} => found[p] \in Pages
        /\ p \notin Handlers /\ found[p] # NoPage => row[found[p]] # "none"
        /\ p \in Handlers /\ pc[p] # "idle" => event[p] \in sent /\ found[p] = event[p].page
        /\ pc[p] = "apply" => ReadingIsTrue(found[p], seen[p])
        /\ p \in Handlers /\ pc[p] = "apply" => ReadingShowsNews(seen[p], event[p].type)

\* Which steps each kind of request has.
StepsOfKind ==
    /\ \A c \in Clerks : pc[c] \in {"idle", "owing", "retire", "expire", "read", "apply",
                                     "justPaid", "done"}
    /\ \A v \in Visits : pc[v] \in {"idle", "read", "apply", "done"}
    /\ \A h \in Handlers : pc[h] \in {"idle", "read", "apply"}

IInv ==
    /\ TypeOK /\ StepsOfKind
    /\ StripeIsTrue /\ RowsAreTrue /\ JustOpenedIsPrivate /\ RequestsAreTrue
    /\ RecordedIsTrue /\ HandledIsApplied

\* Why a page is retired before it is replaced: Stripe was asked to expire it first, so the
\* reading that follows shows its end.
PageAtItsEnd(p) ==
    /\ pc[p] \in {"idle", "owing", "reuse", "limit", "retire"} => found[p] = NoPage
    /\ pc[p] = "read" => session[found[p]] \in {"complete", "expired"}
    /\ pc[p] = "apply" => seen[p].state \in {"complete", "expired"}

RetirementInv ==
    (\A p \in Presses : PageAtItsEnd(p)) /\ RetiredBeforeReplaced /\ JustPaidIsRecorded

\* The steps of a press between working out what to ask for and asking for it.
Priced == {"reuse", "limit", "retire", "expire", "read", "apply", "start"}

\* Why no more than the bond is asked for: a press carries an amount it may ask for, and
\* only one clerk at a time weighs an entry, against no less than hands took in so far.
AmountsInv ==
    /\ amount \in [Pages -> Nat] /\ cents \in [Presses \cup Clerks -> Nat]
    /\ \A p \in Presses : pc[p] \in Priced => cents[p] \in MinCharge .. Bond
    /\ \A c \in Clerks :
          /\ pc[c] = "owing" => HandTotal <= cents[c]
          /\ pc[c] \in {"idle", "owing"} => entry[c] = 0 /\ c \notin reversed
    /\ \A c, d \in Clerks : pc[c] = "owing" /\ pc[d] = "owing" => c = d
    /\ WithinBond

-----------------------------------------------------------------------------
(* The records of payments keep the promise of BondMoney.                  *)

Money == INSTANCE BondMoney WITH Pages <- Pages, intent <- intent, payment <- payment,
                                  credits <- credits, connected <- connected
ImplementsBondMoney == Money!FairSpec

-----------------------------------------------------------------------------
(* What the comments of the code claim, and the interleavings above refute. *)

Paying == {s \in Pages : intent[s] \in {"processing", "paid"}}

\* "The same page for the same amount, so two phones or two presses can't both pay".
PressesNeverPayTwice == SumFunctionOnSet(amount, Paying) <= Bond

\* "the new one is expired at Stripe and the other handed out, so only one can ever be paid".
OnlyOneCanBePaid == Cardinality({s \in handed : session[s] = "open"}) <= 1
=============================================================================
