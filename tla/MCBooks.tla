------------------------------ MODULE MCBooks ------------------------------
(* A small instance of MoneyTakenBack, Rent, Signing and Renters for TLC.  *)
(* The four share no rows here: each behaviour is of one of them, `part',  *)
(* and the others stay as they began.                                      *)
EXTENDS MoneyTakenBack, Rent, Signing, Renters, TLC

VARIABLE part

partVars == <<part, vars, rentVars, signingVars, rentersVars>>

PartInit ==
    /\ part \in {"back", "rent", "signing", "renters"}
    /\ Init /\ RentInit /\ SigningInit /\ RentersInit
    /\ part # "rent" => booked = Ongoing /\ rates = {[from |-> 0, weekly |-> None]}
    /\ part # "signing" => rental = "booked" /\ kind = [c \in Changes |-> "end"]

PartNext ==
    /\ UNCHANGED part
    /\ \/ part = "back" /\ Next /\ UNCHANGED <<rentVars, signingVars, rentersVars>>
       \/ part = "rent" /\ RentNext /\ UNCHANGED <<vars, signingVars, rentersVars>>
       \/ part = "signing" /\ SigningNext /\ UNCHANGED <<vars, rentVars, rentersVars>>
       \/ part = "renters" /\ RentersNext /\ UNCHANGED <<vars, rentVars, signingVars>>

PartSpec == PartInit /\ [][PartNext]_partVars

\* Handlers and phones, given the same names, are alike, and so are the sides of a licence.
Symmetry == Permutations(Handlers) \cup Permutations(LICENCE_SIDES)

\* Every variable of the part stays in its type.
BooksTypeOK ==
    /\ part = "back" => TypeOK
    /\ part = "rent" => RentTypeOK
    /\ part = "signing" => SigningTypeOK
    /\ part = "renters" => RentersTypeOK

RentRight == part = "rent" => RentIsRight
=============================================================================
