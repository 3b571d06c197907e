------------------------------ MODULE Mandates ------------------------------
(***************************************************************************)
(* A Renter's direct debits: set up on Stripe's page one after another,    *)
(* told to us in any order, one of them the current one, and the ones it   *)
(* replaced detached at Stripe.                                            *)
(*                                                                         *)
(* A direct debit (a mandate at Stripe) is checked by the bank, then works *)
(* until the bank cancels it.  Webhook handlers (handlePaymentEvent) and   *)
(* the Renter coming back from the page (recordReturnFromStripe) read its  *)
(* status at Stripe, then record it: recordMandate for a finished page,    *)
(* applyMandateStatus for a change.  recordMandate's transaction is two    *)
(* steps: it locks the direct debits it sees, and one not inserted yet it  *)
(* cannot lock.  detachReplacedMandates runs after an event and at night.  *)
(* The business may take its Stripe account off the platform: Stripe then  *)
(* refuses what is asked of it, and once that is noted its news is ignored *)
(* and nothing more is detached.                                           *)
(***************************************************************************)
EXTENDS Naturals, FiniteSets

CONSTANTS
    Last,               \* the direct debits are 1 .. Last, in the order of setUpAt
    Handlers, Visits, Tidies,
    MaxCrashes,          \* how many requests may die
    NoEvent, NoMandate

ASSUME MandatesCounted == Last \in Nat \ {0}
ASSUME CrashesCounted == MaxCrashes \in Nat
ASSUME RequestKinds ==
    /\ Handlers \cap Visits = {} /\ Handlers \cap Tidies = {} /\ Visits \cap Tidies = {}

Mandates == 1 .. Last
Recorders == Handlers \cup Visits
Procs == Recorders \cup Tidies

ASSUME NullMandate == NoMandate \notin Mandates

\* v1.checkout.session.completed, and v1.mandate.updated when it starts and when it ends.
Events == [mandate : Mandates, type : {"completed", "started", "ended"}]

ASSUME NullEvent == NoEvent \notin Events

BankStatuses == {"pending", "active", "inactive"}
KeptStatuses == {"none", "waiting", "active", "inactive"}

VARIABLES
    \* At Stripe.
    bank,       \* each mandate's status; "none" until the Renter sets it up
    attached,   \* the payment methods not detached
    sent,       \* the events Stripe has news of, sent until acknowledged
    access,     \* Stripe still lets us reach the business's account
    \* In the database.
    kept,       \* payment_mandates.status, "none" without a row
    replaced,   \* those whose end_reason is "replaced"
    detached,   \* those with detached_at
    handled,
    connected,  \* stripe_accounts.disconnected_at is null
    \* In each request.
    pc, event, about, seen,
    others,     \* recordMandate: the rows its lock found
    crashes

stripeVars == <<bank, sent, access>>
dbVars == <<kept, replaced, detached, handled, connected>>
procVars == <<pc, event, about, seen, others, crashes>>
vars == <<bank, attached, sent, access, kept, replaced, detached, handled, connected,
          pc, event, about, seen, others, crashes>>

Init ==
    /\ bank = [m \in Mandates |-> "none"]
    /\ attached = Mandates
    /\ sent = {} /\ handled = {}
    /\ access = TRUE /\ connected = TRUE
    /\ kept = [m \in Mandates |-> "none"]
    /\ replaced = {} /\ detached = {}
    /\ pc = [p \in Procs |-> "idle"]
    /\ event = [h \in Handlers |-> NoEvent]
    /\ about = [p \in Procs |-> NoMandate]
    /\ seen = [p \in Recorders |-> "pending"]
    /\ others = [p \in Recorders |-> {}]
    /\ crashes = 0

-----------------------------------------------------------------------------
(* The Renter and the bank.                                                *)

Tell(m, type) == sent' = sent \cup {[mandate |-> m, type |-> type]}

\* The Renter finishes Stripe's page for a new direct debit: checked later, or at once.
SetUp(m) ==
    /\ bank[m] = "none" /\ \A n \in 1 .. (m - 1) : bank[n] # "none"
    /\ \E status \in {"pending", "active"} : bank' = [bank EXCEPT ![m] = status]
    /\ Tell(m, "completed")
    /\ UNCHANGED <<attached, access, dbVars, procVars>>

\* The bank's checks pass.
Start(m) ==
    /\ bank[m] = "pending"
    /\ bank' = [bank EXCEPT ![m] = "active"]
    /\ Tell(m, "started")
    /\ UNCHANGED <<attached, access, dbVars, procVars>>

\* The bank's checks fail, or it cancels a working one.
End(m) ==
    /\ bank[m] \in {"pending", "active"}
    /\ bank' = [bank EXCEPT ![m] = "inactive"]
    /\ Tell(m, "ended")
    /\ UNCHANGED <<attached, access, dbVars, procVars>>

-----------------------------------------------------------------------------
(* Reading Stripe.                                                         *)

Done(p) ==
    /\ pc' = [pc EXCEPT ![p] = "idle"]
    /\ about' = [about EXCEPT ![p] = NoMandate]

\* What a recorder holds is dropped with it.
Finish(p) ==
    /\ Done(p)
    /\ event' = IF p \in Handlers THEN [event EXCEPT ![p] = NoEvent] ELSE event
    /\ seen' = [seen EXCEPT ![p] = "pending"]
    /\ others' = [others EXCEPT ![p] = {}]

\* An event arrives, or arrives again.  On a disconnected account it is ignored: nothing is
\* kept, and Stripe does not send it again.
Deliver(h, e) ==
    /\ pc[h] = "idle" /\ connected /\ e \in sent
    /\ event' = [event EXCEPT ![h] = e]
    /\ about' = [about EXCEPT ![h] = e.mandate]
    /\ pc' = [pc EXCEPT ![h] = "read"]
    /\ UNCHANGED <<stripeVars, attached, dbVars, seen, others, crashes>>

\* The Renter is back from a finished page not settled here yet.
VisitFind(v, m) ==
    /\ pc[v] = "idle" /\ connected /\ bank[m] # "none" /\ kept[m] = "none"
    /\ about' = [about EXCEPT ![v] = m]
    /\ pc' = [pc EXCEPT ![v] = "read"]
    /\ UNCHANGED <<stripeVars, attached, dbVars, event, seen, others, crashes>>

\* readCheckout, readMandateStatus
ReadMandate(p) ==
    /\ pc[p] = "read" /\ p \in Recorders /\ access
    /\ seen' = [seen EXCEPT ![p] = bank[about[p]]]
    /\ pc' = [pc EXCEPT ![p] = IF p \in Visits \/ event[p].type = "completed"
                               THEN "record" ELSE "change"]
    /\ UNCHANGED <<stripeVars, attached, dbVars, event, about, others, crashes>>

-----------------------------------------------------------------------------
(* recordMandate                                                           *)

\* Mutant: Stripe's own word, kept as it is.
MandateStatusAsTold(status) == status

\* Mutant: one the bank still checks counts as working.
MandateStatusHopeful(status) == IF status = "inactive" THEN "inactive" ELSE "active"

MandateStatusOf(status) ==
    CASE status = "active" -> "active" [] status = "pending" -> "waiting" [] OTHER -> "inactive"

Rows == {m \in Mandates : kept[m] # "none"}

\* What recordMandate's first statement locked is held to its commit.
Free(p, rows) ==
    \A q \in Recorders \ {p} : pc[q] = "insert" => rows \cap others[q] = {}

\* A handler's commit marks its event handled.
Commit(p) == handled' = IF p \in Handlers THEN handled \cup {event[p]} ELSE handled

ToldBefore(p) == p \in Handlers /\ event[p] \in handled

\* record_stripe_event and lockRenterMandates: the rows there are, once nobody holds them.
RecordLock(p) ==
    /\ pc[p] = "record" /\ Free(p, Rows)
    /\ ~ \E h \in Handlers \ {p} : p \in Handlers /\ pc[h] = "insert" /\ event[h] = event[p]
    /\ IF ToldBefore(p)
       THEN Commit(p) /\ Finish(p)
       ELSE /\ others' = [others EXCEPT ![p] = Rows]
            /\ pc' = [pc EXCEPT ![p] = "insert"]
            /\ UNCHANGED <<handled, event, about, seen>>
    /\ UNCHANGED <<stripeVars, attached, kept, replaced, detached, connected, crashes>>

IsOvertaken(m, rows) == \E n \in rows : n > m

\* Mutant: every other one is ended.
EndedAll(m, status) ==
    IF status = "active" THEN {n \in Rows : n # m /\ kept[n] # "inactive"} ELSE {}

\* endOlderMandates, once m works: those set up before it that have not ended.
Ended(m, status) ==
    IF status = "active" THEN {n \in Rows : n < m /\ kept[n] # "inactive"} ELSE {}

After(m, status) ==
    [n \in Mandates |-> IF n = m THEN status
                        ELSE IF n \in Ended(m, status) THEN "inactive" ELSE kept[n]]

\* The index one_active.
OneActive(rows) == \A m, n \in Mandates : rows[m] = "active" /\ rows[n] = "active" => m = n

\* The writes and the commit, or all of it refused by the index.
Save(p, m, status, overtaken) ==
    IF OneActive(After(m, status))
    THEN /\ Commit(p)
         /\ kept' = After(m, status)
         /\ replaced' = replaced \cup Ended(m, status) \cup overtaken
    ELSE UNCHANGED <<handled, kept, replaced>>

\* The insert: a direct debit kept before is left, one overtaken is kept as replaced.
RecordInsert(p) ==
    LET m == about[p]
        overtaken == IsOvertaken(m, others[p])
        status == IF overtaken THEN "inactive" ELSE MandateStatusOf(seen[p]) IN
    /\ pc[p] = "insert" /\ Free(p, Ended(m, status))
    /\ IF kept[m] # "none"
       THEN Commit(p) /\ UNCHANGED <<kept, replaced>>
       ELSE Save(p, m, status, IF overtaken THEN {m} ELSE {})
    /\ Finish(p)
    /\ UNCHANGED <<stripeVars, attached, detached, connected, crashes>>

-----------------------------------------------------------------------------
(* applyMandateStatus                                                      *)

\* Mutants: news is never waited with; waited with until the direct debit works.
NeverAwaiting(m) == FALSE
AwaitingActive(m) == kept[m] # "active"

\* isAwaitingOwnRecord: news of one not recorded yet is sent back, unless it is an hour
\* old; no request lasts that long, so then none is still recording it.
AwaitingOwnRecord(m) == kept[m] = "none"
OldNews(h, m) == \A p \in Recorders \ {h} : about[p] # m

\* Mutant: only the same status again has nothing to change.
NothingNew(m, status) == kept[m] \in {"none", status}

\* One already ended stays ended.
NothingToChange(m, status) == kept[m] \in {"none", "inactive", status}

ApplyMandateStatus(h) ==
    LET m == event[h].mandate
        status == MandateStatusOf(seen[h]) IN
    /\ pc[h] = "change" /\ Free(h, {m} \cup Ended(m, status))
    /\ \/ AwaitingOwnRecord(m) /\ UNCHANGED <<handled, kept, replaced>>
       \/ /\ AwaitingOwnRecord(m) => OldNews(h, m)
          /\ IF ToldBefore(h) \/ NothingToChange(m, status)
             THEN Commit(h) /\ UNCHANGED <<kept, replaced>>
             ELSE Save(h, m, status, {})
    /\ Finish(h)
    /\ UNCHANGED <<stripeVars, attached, detached, connected, crashes>>

-----------------------------------------------------------------------------
(* detachReplacedMandates                                                  *)

\* Mutant: cancelled ones too.
AllEnded == {m \in Mandates : kept[m] = "inactive"} \ detached

ToDetach == replaced \ detached

\* On a disconnected account there is nothing to try.
TidyFind(t, m) ==
    /\ pc[t] = "idle" /\ connected /\ m \in ToDetach
    /\ about' = [about EXCEPT ![t] = m]
    /\ pc' = [pc EXCEPT ![t] = "detach"]
    /\ UNCHANGED <<stripeVars, attached, dbVars, event, seen, others, crashes>>

\* Mutant: a second detach is an error.
TidyDetachOnce(t) ==
    /\ pc[t] = "detach" /\ access /\ about[t] \in attached
    /\ attached' = attached \ {about[t]}
    /\ pc' = [pc EXCEPT ![t] = "mark"]
    /\ UNCHANGED <<stripeVars, dbVars, event, about, seen, others, crashes>>

\* detachPaymentMethod: one detached already is as good.
TidyDetach(t) ==
    /\ pc[t] = "detach" /\ access
    /\ attached' = attached \ {about[t]}
    /\ pc' = [pc EXCEPT ![t] = "mark"]
    /\ UNCHANGED <<stripeVars, dbVars, event, about, seen, others, crashes>>

\* markDetached
TidyMark(t) ==
    /\ pc[t] = "mark" /\ Free(t, {about[t]})
    /\ detached' = detached \cup {about[t]}
    /\ Done(t)
    /\ UNCHANGED <<stripeVars, attached, kept, replaced, handled, connected, event, seen, others,
                   crashes>>

-----------------------------------------------------------------------------
(* The account's end, and a request's.                                     *)

\* The business closes its Stripe account, or takes it off our platform.
AccessEnds ==
    /\ access
    /\ access' = FALSE
    /\ UNCHANGED <<bank, sent, attached, dbVars, procVars>>

\* markDisconnected, on Stripe's own event of it, acted on without asking Stripe.
MarkDisconnected ==
    /\ connected /\ ~access
    /\ connected' = FALSE
    /\ UNCHANGED <<stripeVars, attached, kept, replaced, detached, handled, procVars>>

\* What was not committed is lost.
Abandon(p) ==
    /\ IF p \in Recorders THEN Finish(p) ELSE Done(p) /\ UNCHANGED <<event, seen, others>>
    /\ UNCHANGED <<stripeVars, attached, dbVars>>

\* Stripe refuses what is asked of an account it no longer lets us reach; a direct debit not
\* detached is left for the next try.
StripeRefuses(p) ==
    /\ pc[p] \in {"read", "detach"} /\ ~access
    /\ Abandon(p)
    /\ UNCHANGED crashes

\* The server dies, or Stripe cannot be asked.
RequestDies(p) ==
    /\ pc[p] # "idle" /\ crashes < MaxCrashes
    /\ crashes' = crashes + 1
    /\ Abandon(p)

-----------------------------------------------------------------------------
Record(p) == RecordLock(p) \/ RecordInsert(p)

Next ==
    \/ \E m \in Mandates : SetUp(m) \/ Start(m) \/ End(m)
    \/ \E h \in Handlers : (\E e \in Events : Deliver(h, e)) \/ ApplyMandateStatus(h)
    \/ \E v \in Visits, m \in Mandates : VisitFind(v, m)
    \/ \E p \in Recorders : ReadMandate(p) \/ Record(p)
    \/ \E t \in Tidies : (\E m \in Mandates : TidyFind(t, m)) \/ TidyDetach(t) \/ TidyMark(t)
    \/ AccessEnds \/ MarkDisconnected
    \/ \E p \in Procs : StripeRefuses(p) \/ RequestDies(p)

Spec == Init /\ [][Next]_vars

(* Stripe sends again what was not answered, the news that the account is   *)
(* gone is acted on, and the nightly run tidies up.                        *)
(* A request that has begun goes on, unless it dies.  Nobody has to set up  *)
(* or come back, and no bank has to decide.                                *)
Fairness ==
    /\ \A e \in Events : SF_vars(\E h \in Handlers : Deliver(h, e))
    /\ \A p \in Recorders : WF_vars(ReadMandate(p) \/ Record(p) \/ StripeRefuses(p))
    /\ \A h \in Handlers : WF_vars(ApplyMandateStatus(h))
    /\ \A t \in Tidies :
          /\ \A m \in Mandates : WF_vars(TidyFind(t, m))
          /\ SF_vars(TidyDetach(t) \/ TidyMark(t) \/ StripeRefuses(t))
    /\ WF_vars(MarkDisconnected)

FairSpec == Spec /\ Fairness

-----------------------------------------------------------------------------
(* What must hold.                                                         *)

\* Every variable stays in its type.
TypeOK ==
    /\ bank \in [Mandates -> BankStatuses \cup {"none"}]
    /\ attached \subseteq Mandates /\ replaced \subseteq Mandates /\ detached \subseteq Mandates
    /\ sent \subseteq Events /\ handled \subseteq Events
    /\ access \in BOOLEAN /\ connected \in BOOLEAN
    /\ kept \in [Mandates -> KeptStatuses]
    /\ pc \in [Procs -> {"idle", "read", "record", "insert", "change", "detach", "mark"}]
    /\ event \in [Handlers -> Events \cup {NoEvent}]
    /\ about \in [Procs -> Mandates \cup {NoMandate}]
    /\ seen \in [Recorders -> BankStatuses]
    /\ others \in [Recorders -> SUBSET Mandates]
    /\ crashes \in 0 .. MaxCrashes

\* A direct debit is kept as working only if the bank had it so, and as cancelled only if
\* the bank ended it; replaced means ended, with a later one set up (recordMandate,
\* applyMandateStatus).
KeptIsTrue ==
    \A m \in Mandates :
        /\ kept[m] # "none" => bank[m] # "none"
        /\ kept[m] = "active" => bank[m] # "pending"
        /\ kept[m] = "inactive" => m \in replaced \/ bank[m] = "inactive"
        /\ m \in replaced => kept[m] = "inactive" /\ \E n \in Mandates : n > m /\ kept[n] # "none"

\* Only a replaced direct debit is ever detached at Stripe, and it is noted only once it is
\* (detachReplacedMandates, markDetached).
OnlyReplacedDetached ==
    /\ Mandates \ attached \subseteq replaced
    /\ detached \cap attached = {}

\* News is of a direct debit set up, and of a change once the bank's checks are over.
NewsIsTrue ==
    \A e \in sent : /\ bank[e.mandate] # "none"
                    /\ e.type # "completed" => bank[e.mandate] # "pending"

\* What a handler or a visit read at Stripe has been so, and is not undone since; the rows it
\* locked are there; the tidy-up works on a replaced direct debit.
RequestsAreTrue ==
    /\ \A p \in Recorders :
          LET m == about[p] IN
          /\ others[p] \subseteq Rows
          /\ pc[p] # "idle" => m \in Mandates /\ bank[m] # "none"
          /\ pc[p] \in {"record", "insert", "change"} =>
                /\ seen[p] = "active" => bank[m] # "pending"
                /\ seen[p] = "inactive" => bank[m] = "inactive"
          /\ pc[p] = "change" => seen[p] # "pending"
    /\ \A h \in Handlers : pc[h] # "idle" => event[h] \in sent /\ about[h] = event[h].mandate
    /\ \A t \in Tidies :
          /\ pc[t] # "idle" => about[t] \in replaced
          /\ pc[t] = "mark" => about[t] \notin attached

\* The inductive invariant: the five together.
IInv == TypeOK /\ KeptIsTrue /\ OnlyReplacedDetached /\ NewsIsTrue /\ RequestsAreTrue

\* One that ended never comes back, and one that works is never waited for again, in
\* whatever order news of it is handled (applyMandateStatus).
EndedStaysEnded ==
    [][\A m \in Mandates :
         /\ kept[m] = "inactive" => kept'[m] = "inactive"
         /\ kept[m] = "active" => kept'[m] \in {"active", "inactive"}
         /\ kept[m] = "waiting" => kept'[m] # "none"]_vars

\* A replaced direct debit is detached at Stripe in the end, so nobody can debit it: none is
\* replaced for ever without (what is replaced or detached stays so), unless the account is
\* disconnected, when Stripe no longer lets us (detachReplacedMandates).
ReplacedIsDetached == <>[](replaced \subseteq detached \/ ~connected)

\* What the bank decided of a direct debit is known in the end, however the news of its page
\* and of the bank's checks raced to tell us: it is kept as working, or it was replaced or
\* ended.  Unless the account is disconnected: its news is then ignored for good.
WorkingIsKept ==
    <>[](\/ ~connected
         \/ \A m \in Mandates :
               bank[m] \in {"active", "inactive"} => kept[m] \in {"active", "inactive"})

\* All news is handled in the end, while the account is connected: none is refused each time
\* it comes (handlePaymentEvent).
NewsIsHandled == <>[](sent \subseteq handled \/ ~connected)

-----------------------------------------------------------------------------
(* What a comment of the code claims, and the steps above refute.          *)

\* "Called only once the new one is active, so a Renter whose new bank account fails its
\* checks keeps the old one."
OldKeptUntilNewWorks ==
    [][\A m \in replaced' \ replaced : \E n \in Mandates : n > m /\ kept'[n] = "active"]_vars
=============================================================================
