------------------------------- MODULE MCDesk -------------------------------
(* A small instance of Mandates, LinkCodes, Files and, with two clerks,    *)
(* BondPages for TLC.  The four share no rows here: each behaviour is of   *)
(* one of them, `part', and the others stay as they began.                 *)
EXTENDS Mandates, LinkCodes, Files, TLC

CONSTANTS Presses, Clerks, PageHandlers, Pages, Bond, MinCharge, HandAmounts, NoPage

VARIABLES
    part,
    session, amount, intent, age, pageNews, pageAccess, handed, rentalOpen, pageRow, payment,
    credits, entry, reversed, pageHandled, pageConnected, pagePc, found, opened, pageSeen, cents, pageEvent, pageCrashes

pageVars == <<session, amount, intent, age, pageNews, pageAccess, handed, rentalOpen, pageRow,
              payment, credits, entry, reversed, pageHandled, pageConnected, pagePc, found, opened,
              pageSeen, cents, pageEvent, pageCrashes>>
partVars == <<part, vars, codesVars, filesVars, pageVars>>

Page == INSTANCE BondPagesProofs WITH
    Visits <- {}, Handlers <- PageHandlers, MaxCrashes <- 0, sent <- pageNews, row <- pageRow,
    access <- pageAccess, connected <- pageConnected, handled <- pageHandled, pc <- pagePc,
    seen <- pageSeen, event <- pageEvent, crashes <- pageCrashes

\* What BondPages assumes of its constants, for this instance of it.
ASSUME PageRequestKinds ==
    Presses \cap Clerks = {} /\ Presses \cap PageHandlers = {} /\ Clerks \cap PageHandlers = {}
ASSUME PageBondIsMoney ==
    Bond \in Nat \ {0} /\ MinCharge \in Nat \ {0} /\ HandAmounts \subseteq Nat \ {0}
ASSUME PageNulls == NoPage \notin Pages /\ NoEvent \notin Page!Events
ASSUME PageFinite == IsFiniteSet(Pages) /\ IsFiniteSet(Clerks)

PartInit ==
    /\ part \in {"debit", "codes", "files", "page"}
    /\ Init /\ LinkCodesInit /\ FilesInit /\ Page!Init
    /\ part # "files" => what = "photo"

PartNext ==
    /\ UNCHANGED part
    /\ \/ part = "debit" /\ Next /\ UNCHANGED <<codesVars, filesVars, pageVars>>
       \/ part = "codes" /\ LinkCodesNext /\ UNCHANGED <<vars, filesVars, pageVars>>
       \/ part = "files" /\ FilesNext /\ UNCHANGED <<vars, codesVars, pageVars>>
       \/ part = "page" /\ Page!Next /\ UNCHANGED <<vars, codesVars, filesVars>>

PartSpec == PartInit /\ [][PartNext]_partVars

\* Handlers, senders of codes and clerks, given the same names, are alike.
Symmetry == Permutations(Handlers)

\* Every variable of the part stays in its type.
DeskTypeOK ==
    /\ part = "debit" => TypeOK
    /\ part = "codes" => LinkCodesTypeOK
    /\ part = "files" => FilesTypeOK

WithinBond == part = "page" => Page!WithinBond
=============================================================================
