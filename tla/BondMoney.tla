----------------------------- MODULE BondMoney -----------------------------
(***************************************************************************)
(* What the records of a bond paid through Stripe promise, whatever        *)
(* requests, messages and deaths it takes: each payment is made at Stripe  *)
(* once, learnt of, and put on the bond once, exactly when it succeeded.   *)
(* What becomes of one is learnt while the business's account is connected.*)
(***************************************************************************)
CONSTANT Pages

VARIABLES intent, payment, credits, connected
vars == <<intent, payment, credits, connected>>

Init ==
    /\ intent = [s \in Pages |-> "none"]
    /\ payment = [s \in Pages |-> "none"]
    /\ credits = [s \in Pages |-> 0]
    /\ connected = TRUE

\* The Renter pays by card, or by a bank debit that clears or bounces later.
Pay(s) ==
    /\ \/ intent[s] = "none" /\ \E how \in {"paid", "processing"} : intent' = [intent EXCEPT ![s] = how]
       \/ intent[s] = "processing" /\ \E how \in {"paid", "failed"} : intent' = [intent EXCEPT ![s] = how]
    /\ UNCHANGED <<payment, credits, connected>>

\* The records learn that a debit is on its way, perhaps when it no longer is.
LearnMade(s) ==
    /\ intent[s] # "none" /\ payment[s] = "none"
    /\ payment' = [payment EXCEPT ![s] = "pending"]
    /\ UNCHANGED <<intent, credits, connected>>

Learn(s, how, status, credit) ==
    /\ intent[s] = how /\ payment[s] \in {"none", "pending"}
    /\ payment' = [payment EXCEPT ![s] = status]
    /\ credits' = [credits EXCEPT ![s] = credit]
    /\ UNCHANGED <<intent, connected>>

LearnPaid(s) == Learn(s, "paid", "succeeded", 1)
LearnFailed(s) == Learn(s, "failed", "failed", 0)

\* The business takes its account away, for good.
Disconnect ==
    /\ connected
    /\ connected' = FALSE
    /\ UNCHANGED <<intent, payment, credits>>

Next ==
    \/ \E s \in Pages : Pay(s) \/ LearnMade(s) \/ LearnPaid(s) \/ LearnFailed(s)
    \/ Disconnect

Spec == Init /\ [][Next]_vars

\* The end of every payment is learnt, unless the account is taken away first.
FairSpec ==
    /\ Spec
    /\ \A s \in Pages :
          /\ WF_vars(connected /\ LearnPaid(s))
          /\ WF_vars(connected /\ LearnFailed(s))
=============================================================================
