--------------------------- MODULE MoneyTakenBack ---------------------------
(***************************************************************************)
(* Money a bond payment loses, or gets back, at Stripe: a refund made in   *)
(* the business's Stripe dashboard, which may yet fail, and a dispute with *)
(* the Renter's bank, which may yet be won.                                *)
(*                                                                         *)
(* Stripe's news of it reaches handlePaymentEvent, which reads the refund  *)
(* or dispute at Stripe before its transaction and answers applyMoneyTaken-*)
(* Back's entry in it.  News about a payment not recorded yet is sent back *)
(* for Stripe to try again, for an hour; after that it is taken for        *)
(* somebody else's and dropped.  The database refuses an entry while the   *)
(* payment's row still waits for the bank (check_bond_payment): all is     *)
(* undone, and Stripe tries again.  Other payments of the business's       *)
(* account have refunds and disputes too, never ours.                      *)
(***************************************************************************)
EXTENDS Naturals, FiniteSets

CONSTANTS
    Handlers,           \* requests handling an event, at most one event each at a time
    Refunds, Disputes,  \* what Stripe may take the money by
    Foreign,            \* those about payments that are not bonds of ours
    MaxCrashes,         \* bound: how many requests may die or lose their answer
    NoEvent

ASSUME CrashBound == MaxCrashes \in Nat
ASSUME KindsApart == Refunds \cap Disputes = {}
ASSUME ForeignOnes == Foreign \subseteq Refunds \cup Disputes

Objects == Refunds \cup Disputes
Events == [object : Refunds, type : {"created", "updated", "failed"}]
          \cup [object : Disputes, type : {"withdrawn", "reinstated"}]

ASSUME NullEvent == NoEvent \notin Events

\* What MoneyTakenBack.status may be; at Stripe an object may also not exist yet.
Statuses == {"taken", "failed", "returned"}
EntryKinds == {"refunded", "received", "reversal"}

VARIABLES
    \* At Stripe.
    truth,      \* each refund or dispute: what has become of its money
    sent,       \* the events Stripe has news of
    late,       \* those older than NOT_READY_WINDOW_MS
    answered,   \* those our endpoint has answered with success: sent no more
    access,     \* Stripe still lets us read the business's account
    paid,       \* the bond payment's money has come in: a bank debit takes days
    \* In the database.
    payment,    \* the bond payment's row in payments, if any, and its status
    connected,  \* stripe_accounts.disconnected_at is null
    entries,    \* bond_movements with a stripe_object_id, by object and kind
    handled,    \* stripe_events
    \* In each request.
    pc, event, seen,
    crashes

stripeVars == <<truth, sent, late, access, paid>>
dbVars == <<payment, connected, entries, handled>>
procVars == <<pc, event, seen, crashes>>
vars == <<truth, sent, late, answered, access, paid, payment, connected, entries, handled,
          pc, event, seen, crashes>>

Init ==
    /\ truth = [o \in Objects |-> "none"]
    /\ sent = {} /\ late = {} /\ answered = {} /\ handled = {}
    /\ access = TRUE /\ connected = TRUE
    /\ paid = FALSE /\ payment = "none"
    /\ entries = [o \in Objects |-> [k \in EntryKinds |-> 0]]
    /\ pc = [h \in Handlers |-> "idle"]
    /\ event = [h \in Handlers |-> NoEvent]
    /\ seen = [h \in Handlers |-> "taken"]
    /\ crashes = 0

-----------------------------------------------------------------------------
(* Stripe, the business and the bank.                                      *)

\* The payment's money comes in.
PaymentClears ==
    /\ access /\ ~paid
    /\ paid' = TRUE
    /\ UNCHANGED <<truth, sent, late, answered, access, dbVars, procVars>>

\* A refund is made, or a dispute's money withdrawn: of money that came in.
Take(o) ==
    /\ access /\ truth[o] = "none" /\ (paid \/ o \in Foreign)
    /\ truth' = [truth EXCEPT ![o] = "taken"]
    /\ sent' = sent \cup {[object |-> o, type |-> IF o \in Refunds THEN "created" ELSE "withdrawn"]}
    /\ UNCHANGED <<late, answered, access, paid, dbVars, procVars>>

\* Stripe could not make the refund, or the business won the dispute.
GiveBack(o) ==
    /\ access /\ truth[o] = "taken"
    /\ truth' = [truth EXCEPT ![o] = IF o \in Refunds THEN "failed" ELSE "returned"]
    /\ sent' = sent \cup {e \in Events : e.object = o /\ e.type \in {"updated", "failed", "reinstated"}}
    /\ UNCHANGED <<late, answered, access, paid, dbVars, procVars>>

\* An hour passes, and news of then is old.
NewsAges(e) ==
    /\ e \in sent \ (late \cup answered)
    /\ late' = late \cup {e}
    /\ UNCHANGED <<truth, sent, answered, access, paid, dbVars, procVars>>

\* The business closes its Stripe account, or takes it off our platform.
AccessEnds ==
    /\ access
    /\ access' = FALSE
    /\ UNCHANGED <<truth, sent, late, answered, paid, dbVars, procVars>>

-----------------------------------------------------------------------------
(* The records.                                                            *)

\* recordBondPayment, by what a page's news says of its payment (BondPages): waiting for
\* the bank, or paid.
RecordPayment ==
    /\ \/ payment = "none" /\ payment' = "pending"
       \/ payment # "succeeded" /\ paid /\ payment' = "succeeded"
    /\ UNCHANGED <<stripeVars, answered, connected, entries, handled, procVars>>

\* The row of a debit that cleared is told of it.
PendingPaymentSettles ==
    connected /\ paid /\ payment = "pending" /\ RecordPayment

\* markDisconnected
MarkDisconnected ==
    /\ connected /\ ~access
    /\ connected' = FALSE
    /\ UNCHANGED <<stripeVars, answered, payment, entries, handled, procVars>>

\* Mutant: any payment is taken for the bond's.
PaymentOfAnyKind(o) == payment # "none"

\* bondPaymentOf: the payment an object is about, once it is recorded and if it is ours.
PaymentFound(o) == payment # "none" /\ o \notin Foreign

\* Mutants: no unique index; one on the object alone.
AddEntry(o, kind) == entries' = [entries EXCEPT ![o][kind] = @ + 1]
AddEntryPerObject(o, kind) ==
    entries' = IF \A k \in EntryKinds : entries[o][k] = 0
               THEN [entries EXCEPT ![o][kind] = 1] ELSE entries

\* addEntryOnce: the index stripe_object_once lets one object make an entry of a kind once.
AddEntryOnce(o, kind) ==
    entries' = [entries EXCEPT ![o][kind] = IF @ = 0 THEN 1 ELSE @]

\* Mutant: it is not asked whether the refund was ever booked.
UndoRefundUnseen(o) == AddEntryOnce(o, "reversal")

\* undoFailedRefund: cancels the entry the refund made, if it made one.
UndoFailedRefund(o) ==
    IF entries[o]["refunded"] > 0 THEN AddEntryOnce(o, "reversal") ELSE UNCHANGED entries

\* Mutant: a failed refund is left on the books.
ApplyMoneyTakenOnly(o, status) ==
    IF ~PaymentFound(o) \/ status = "failed" THEN UNCHANGED entries
    ELSE AddEntryOnce(o, IF status = "returned" THEN "received" ELSE "refunded")

ApplyMoneyTakenBack(o, status) ==
    IF ~PaymentFound(o) THEN UNCHANGED entries
    ELSE CASE status = "failed" -> UndoFailedRefund(o)
           [] status = "returned" -> AddEntryOnce(o, "received")
           [] status = "taken" -> AddEntryOnce(o, "refunded")

\* check_bond_payment: no new entry from a payment until its row says it succeeded.  A
\* reversal names no payment, and an entry made already is not made again.
EntryRefused(o, status) ==
    /\ PaymentFound(o) /\ payment = "pending"
    /\ \/ status = "taken" /\ entries[o]["refunded"] = 0
       \/ status = "returned" /\ entries[o]["received"] = 0

-----------------------------------------------------------------------------
(* handlePaymentEvent                                                      *)

Crash == crashes < MaxCrashes /\ crashes' = crashes + 1

Finish(h) ==
    /\ pc' = [pc EXCEPT ![h] = "idle"]
    /\ event' = [event EXCEPT ![h] = NoEvent]
    /\ seen' = [seen EXCEPT ![h] = "taken"]

\* An event arrives, or arrives again.  On a disconnected account it is ignored.
Deliver(h, e) ==
    /\ pc[h] = "idle" /\ e \in sent \ answered
    /\ IF connected
       THEN /\ pc' = [pc EXCEPT ![h] = "read"]
            /\ event' = [event EXCEPT ![h] = e]
            /\ UNCHANGED answered
       ELSE answered' = answered \cup {e} /\ UNCHANGED <<pc, event>>
    /\ UNCHANGED <<stripeVars, dbVars, seen, crashes>>

\* readRefund, readDispute: a refund's status is Stripe's now, a dispute's is the event's.
ReadEventDetails(h) ==
    LET e == event[h] IN
    /\ pc[h] = "read" /\ access
    /\ seen' = [seen EXCEPT ![h] = CASE e.type = "withdrawn" -> "taken"
                                     [] e.type = "reinstated" -> "returned"
                                     [] OTHER -> truth[e.object]]
    /\ pc' = [pc EXCEPT ![h] = "apply"]
    /\ UNCHANGED <<stripeVars, answered, dbVars, event, crashes>>

\* Mutant: what is not ours is waited for without end.
AwaitingForEver(e) == ~PaymentFound(e.object)

\* isAwaitingOwnRecord
AwaitingOwnRecord(e) == e \notin late /\ ~PaymentFound(e.object)

\* The transaction: not ready, or refused, so Stripe sends it again; told before; or
\* handled, once.
\* If the answer is lost after the commit, Stripe sends again what was handled.
HandleEvent(h) ==
    LET e == event[h] IN
    /\ pc[h] = "apply"
    /\ IF AwaitingOwnRecord(e) \/ (e \notin handled /\ EntryRefused(e.object, seen[h]))
       THEN UNCHANGED <<answered, handled, entries, crashes>>
       ELSE /\ \/ answered' = answered \cup {e} /\ UNCHANGED crashes
               \/ Crash /\ UNCHANGED answered
            /\ handled' = handled \cup {e}
            /\ IF e \in handled THEN UNCHANGED entries
                                ELSE ApplyMoneyTakenBack(e.object, seen[h])
    /\ Finish(h)
    /\ UNCHANGED <<stripeVars, payment, connected>>

\* The server dies, or Stripe no longer lets us read: nothing is kept, and it is sent again.
HandlingFails(h) ==
    /\ \/ pc[h] = "read" /\ ~access /\ UNCHANGED crashes
       \/ pc[h] # "idle" /\ Crash
    /\ Finish(h)
    /\ UNCHANGED <<stripeVars, answered, dbVars>>

Next ==
    \/ \E o \in Objects : Take(o) \/ GiveBack(o)
    \/ \E e \in Events : NewsAges(e)
    \/ PaymentClears \/ AccessEnds \/ RecordPayment \/ MarkDisconnected
    \/ \E h \in Handlers :
          \/ \E e \in Events : Deliver(h, e)
          \/ ReadEventDetails(h) \/ HandleEvent(h) \/ HandlingFails(h)

Spec == Init /\ [][Next]_vars

(* Stripe sends again what was not answered, an hour passes, and the news   *)
(* that the account is gone is acted on.  A request that has begun ends.   *)
(* The payment's own record need never come; but one that waits for the    *)
(* bank hears of money that came in, while the account is connected        *)
(* (BondPages!PaidReachesBond).                                            *)
Fairness ==
    /\ \A e \in Events : WF_vars(NewsAges(e)) /\ SF_vars(\E h \in Handlers : Deliver(h, e))
    /\ WF_vars(MarkDisconnected)
    /\ WF_vars(PendingPaymentSettles)
    /\ \A h \in Handlers :
          /\ WF_vars(ReadEventDetails(h) \/ HandlingFails(h))
          /\ WF_vars(HandleEvent(h))

FairSpec == Spec /\ Fairness

-----------------------------------------------------------------------------
(* What must hold.                                                         *)

\* Every variable stays in its type; the unique index is in the counts.
TypeOK ==
    /\ truth \in [Objects -> Statuses \cup {"none"}]
    /\ sent \subseteq Events /\ late \subseteq sent /\ answered \subseteq sent
    /\ handled \subseteq sent
    /\ access \in BOOLEAN /\ paid \in BOOLEAN /\ connected \in BOOLEAN
    /\ payment \in {"none", "pending", "succeeded"}
    /\ entries \in [Objects -> [EntryKinds -> {0, 1}]]
    /\ pc \in [Handlers -> {"idle", "read", "apply"}]
    /\ event \in [Handlers -> Events \cup {NoEvent}]
    /\ seen \in [Handlers -> Statuses]
    /\ crashes \in 0 .. MaxCrashes

\* No entry says what did not happen: money is off the bond only if it was taken, back only
\* if the dispute was won, and a refund cancelled out only if it failed and had been booked,
\* however often and in whatever order Stripe tells (applyMoneyTakenBack).
EntriesAreTrue ==
    \A o \in Objects :
        /\ entries[o]["refunded"] > 0 => truth[o] # "none" /\ o \notin Foreign
        /\ entries[o]["received"] > 0 => truth[o] = "returned" /\ o \in Disputes \ Foreign
        /\ entries[o]["reversal"] > 0 => truth[o] = "failed" /\ entries[o]["refunded"] > 0

\* What news must have done to the books once it is handled with its payment recorded.
Booked(e) ==
    CASE e.type = "withdrawn" -> entries[e.object]["refunded"] = 1
      [] e.type = "reinstated" -> entries[e.object]["received"] = 1
      [] e.type \in {"updated", "failed"} ->
            entries[e.object]["refunded"] = entries[e.object]["reversal"]
      [] e.type = "created" -> entries[e.object]["refunded"] = 1 \/ truth[e.object] = "failed"

\* News of ours handled when its payment was recorded is in the books from that moment,
\* whether it is the first or the tenth time Stripe sends it (handlePaymentEvent).
NewsIsBooked ==
    [][\A e \in handled' \ handled : PaymentFound(e.object) => Booked(e)']_vars

\* No news is sent for ever: it is answered, whether or not it was ours, whatever fails.
NewsIsAnswered == \A e \in Events : (e \in sent) ~> (e \in answered)

-----------------------------------------------------------------------------
(* Why the books are true: an invariant every step keeps.                  *)

\* News is true for good: a refund only fails, a dispute is only won, after the taking.
NewsIsTrue ==
    /\ \A r \in Refunds : truth[r] # "returned"
    /\ \A d \in Disputes : truth[d] # "failed"
    /\ \A e \in sent :
          /\ truth[e.object] # "none"
          /\ e.type \in {"updated", "failed"} => truth[e.object] = "failed"
          /\ e.type = "reinstated" => truth[e.object] = "returned"

\* A reading says nothing that is not so, and is no older than the news that led to it.
ReadingIsTrue(e, status) ==
    /\ status = "failed" => truth[e.object] = "failed"
    /\ status = "returned" => truth[e.object] = "returned"
    /\ e.type = "created" => status # "returned"
    /\ e.type \in {"updated", "failed"} => status = "failed"
    /\ e.type = "withdrawn" => status = "taken"
    /\ e.type = "reinstated" => status = "returned"

ReadingsAreTrue ==
    \A h \in Handlers :
        /\ pc[h] # "idle" => event[h] \in sent
        /\ pc[h] = "apply" => ReadingIsTrue(event[h], seen[h])

IInv == TypeOK /\ NewsIsTrue /\ ReadingsAreTrue /\ EntriesAreTrue

-----------------------------------------------------------------------------
(* What a comment of the code claims, and the steps above refute.          *)

\* "A refund Stripe couldn't make: the entry that took it off the bond is cancelled out."
FailedRefundCancelled ==
    \A r \in Refunds :
        truth[r] = "failed" /\ (\A e \in sent : e.object = r => e \in handled)
          => entries[r]["refunded"] = entries[r]["reversal"]
=============================================================================
