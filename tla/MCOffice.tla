------------------------------ MODULE MCOffice ------------------------------
(* A small instance of BondPages, Billing and PhoneQueue for TLC.  The     *)
(* three share no rows here: each behaviour is of one of them, `part', and *)
(* the others stay as they began.                                          *)
EXTENDS BondPages, Billing, PhoneQueue, TLC

VARIABLE part

partVars == <<part, vars, billingVars, phoneVars>>

PartInit ==
    /\ part \in {"page", "papers", "phone"}
    /\ Init /\ BillingInit /\ PhoneInit
    /\ Cardinality(rentToCome) <= IF part = "papers" THEN 1 ELSE 0

\* Bound: the account is taken away only where one page is ever opened.
OnePageIfLeft == ~access' => Cardinality({s \in Pages : session'[s] # "unborn"}) <= 1

PartNext ==
    /\ UNCHANGED part
    /\ \/ part = "page" /\ Next /\ OnePageIfLeft /\ UNCHANGED <<billingVars, phoneVars>>
       \/ part = "papers" /\ BillingNext /\ UNCHANGED <<vars, phoneVars>>
       \/ part = "phone" /\ PhoneNext /\ UNCHANGED <<vars, billingVars>>

PartSpec == PartInit /\ [][PartNext]_partVars

\* Handlers, presses and tabs may change places, and so may pages and rentals, given the same names.
Symmetry == Permutations(Presses) \cup Permutations(Handlers) \cup Permutations(Pages)

\* Types, and what the proofs of BondPages rest on.
OfficeInv ==
    /\ part = "page" => IInv
    /\ part = "papers" => BillingTypeOK
    /\ part = "phone" => PhoneTypeOK

\* The next number a business of this instance may set.
Setting == {<<"invoice", 2>>}
=============================================================================
