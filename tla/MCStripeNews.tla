---------------------------- MODULE MCStripeNews ----------------------------
(* A small instance of BondPages, MoneyTakenBack and PhoneQueue for TLC:   *)
(* what Stripe tells of, and what a phone keeps, must come to something in *)
(* the end.  The three share no rows here: each behaviour is of one of     *)
(* them, `part', and the others stay as they began.                        *)
EXTENDS BondPages, PhoneQueue

CONSTANTS BackHandlers, Disputes

VARIABLES
    part,
    truth, backNews, late, answered, backAccess, backPaid, backPayment, backConnected, entries,
    backHandled, backPc, backEvent, backSeen, backCrashes

backVars == <<truth, backNews, late, answered, backAccess, backPaid, backPayment, backConnected, entries,
              backHandled, backPc, backEvent, backSeen, backCrashes>>
partVars == <<part, vars, backVars, phoneVars>>

Back == INSTANCE MoneyTakenBack WITH
    Handlers <- BackHandlers, Refunds <- {}, Foreign <- {}, sent <- backNews,
    access <- backAccess, paid <- backPaid, payment <- backPayment, connected <- backConnected,
    handled <- backHandled, pc <- backPc,
    seen <- backSeen, event <- backEvent, crashes <- backCrashes

PartInit == part \in {"page", "back", "phone"} /\ Init /\ Back!Init /\ PhoneInit

PartNext ==
    /\ UNCHANGED part
    /\ \/ part = "page" /\ Next /\ UNCHANGED <<backVars, phoneVars>>
       \/ part = "back" /\ Back!Next /\ UNCHANGED <<vars, phoneVars>>
       \/ part = "phone" /\ PhoneNext /\ UNCHANGED <<vars, backVars>>

(* Each module's Fairness, of the part that is on.                         *)
PageFairness ==
    /\ \A p \in Procs : WF_vars(part = "page" /\ SharedStep(p))
    /\ \A h \in Handlers : WF_vars(part = "page" /\ HandleEvent(h))
    /\ \A e \in Events :
          SF_vars(part = "page" /\ e \notin handled /\ \E h \in Handlers : Deliver(h, e))
    /\ \A p \in Presses : WF_vars(part = "page" /\ pc[p] # "idle" /\ PressStep(p))
    /\ \A s \in Pages : WF_vars(part = "page" /\ PageAges(s))
    /\ WF_vars(part = "page" /\ MarkDisconnected)

BackFairness ==
    /\ \A e \in Back!Events :
          /\ WF_backVars(part = "back" /\ Back!NewsAges(e))
          /\ SF_backVars(part = "back" /\ \E h \in BackHandlers : Back!Deliver(h, e))
    /\ WF_backVars(part = "back" /\ Back!MarkDisconnected)
    /\ WF_backVars(part = "back" /\ Back!PendingPaymentSettles)
    /\ \A h \in BackHandlers :
          /\ WF_backVars(part = "back" /\ (Back!ReadEventDetails(h) \/ Back!HandlingFails(h)))
          /\ WF_backVars(part = "back" /\ Back!HandleEvent(h))

PartFairSpec ==
    PartInit /\ [][PartNext]_partVars /\ PageFairness /\ BackFairness /\ PhoneFairness

NewsIsAnswered == Back!NewsIsAnswered
=============================================================================
