----------------------------- MODULE MCMandates -----------------------------
(* Small instances of Mandates for TLC.  The fair run is two in one: two   *)
(* direct debits, told of one event at a time and tidied up, or one whose  *)
(* news, two events at once, races its Renter's return.                    *)
EXTENDS Mandates, TLC

CONSTANT h2

VARIABLE part

partVars == <<part, vars>>

\* The requests that act, and the direct debits set up, in each part.
Acting == IF part = "tidy" THEN Procs \ ({h2} \cup Visits) ELSE Procs \ Tidies
SetUpIn == IF part = "tidy" THEN Mandates ELSE {1}

InPart ==
    /\ \A p \in Procs \ Acting : pc'[p] = "idle"
    /\ \A m \in Mandates \ SetUpIn : bank'[m] = "none"

\* Bound: the account is taken away in the first part only, once the second direct debit
\* works and while it does, and no request dies there besides: Stripe's refusals end them.
LeftWithTwo == ~access' => part = "tidy" /\ crashes' = 0 /\ bank'[Last] = "active"

PartInit == part \in {"tidy", "news"} /\ Init
PartNext == Next /\ InPart /\ LeftWithTwo /\ UNCHANGED part

\* Fairness of Mandates, of those that act.
PartFairness ==
    /\ \A e \in Events : SF_vars((\E h \in Handlers : Deliver(h, e)) /\ InPart)
    /\ \A p \in Recorders : WF_vars(ReadMandate(p) \/ Record(p) \/ StripeRefuses(p))
    /\ \A h \in Handlers : WF_vars(ApplyMandateStatus(h))
    /\ \A t \in Tidies :
          /\ \A m \in Mandates : WF_vars(TidyFind(t, m) /\ InPart)
          /\ SF_vars(TidyDetach(t) \/ TidyMark(t) \/ StripeRefuses(t))
    /\ WF_vars(MarkDisconnected)

PartFairSpec == PartInit /\ [][PartNext]_partVars /\ PartFairness
=============================================================================
