------------------------------- MODULE Billing -------------------------------
(***************************************************************************)
(* Invoices, credit notes and receipts (apps/web/src/lib/billing), made    *)
(* from the lines of a rental's ledger, one at a time.  A request or the   *)
(* nightly catch-up looks without a lock for a document still needed and   *)
(* reserves its file; then one transaction locks the rental, plans the     *)
(* document afresh, takes its number (whose row it holds until the end),   *)
(* stores the PDF and records all, or leaves nothing.                      *)
(***************************************************************************)
EXTENDS Naturals, Sequences, FiniteSets

CONSTANTS
    Rentals, NoRental,
    Issuers,        \* requests issuing a rental's documents, after a change or "Invoice now"
    Nights,         \* nightly catch-ups of the business, each with Issuers' steps
    Starts,         \* the next numbers a business may set: <<series, number>>
    MaxLines        \* bound: lines of the ledgers together

ASSUME BillingAssumption ==
    /\ MaxLines \in Nat
    /\ Starts \subseteq {"invoice", "receipt"} \X (Nat \ {0})
    /\ Issuers \cap Nights = {} /\ NoRental \notin Rentals

Series == {"invoice", "receipt"}
Kinds == {"invoice", "credit_note", "receipt"}
LineKinds == {"rent", "charge", "credit", "payment", "reversal"}

SeriesOf(kind) == IF kind = "receipt" THEN "receipt" ELSE "invoice"

VARIABLES
    ledger,       \* ledger_lines: `of' is the line reversed, or the rent a credit is for, else 0
    rentToCome,   \* the rentals whose one-off charges wait for the next rent
    papers,       \* billing_documents, in the order they were recorded
    onPaper,      \* billing_document_lines: the document each line is on, else 0
    nextNumber,   \* document_numbering.next_number
    isStarted,    \* document_numbering.is_started
    issuing,      \* each issuer: its step, its rental, isInvoicedNow, its plan and number
    toDo          \* the rentals each catch-up found and has not looked at

billingVars == <<ledger, rentToCome, papers, onPaper, nextNumber, isStarted, issuing, toDo>>

Line == [rental : Rentals, kind : LineKinds, of : 0..MaxLines]
NoPlan == [kind |-> "none", lines |-> {}, relatesTo |-> 0]
NotIssuing == [step |-> "idle", rental |-> NoRental, now |-> FALSE, plan |-> NoPlan, number |-> 0]
Workers == Issuers \cup Nights

BillingTypeOK ==
    /\ ledger \in Seq(Line) /\ Len(ledger) <= MaxLines
    /\ rentToCome \subseteq Rentals
    /\ \A d \in DOMAIN papers :
          /\ papers[d].rental \in Rentals /\ papers[d].kind \in Kinds
          /\ papers[d].relatesTo \in 0..(d - 1) /\ papers[d].number \in Nat
    /\ DOMAIN onPaper = DOMAIN ledger /\ \A l \in DOMAIN ledger : onPaper[l] \in 0..Len(papers)
    /\ nextNumber \in [Series -> Nat] /\ isStarted \in [Series -> BOOLEAN]
    /\ \A i \in Workers :
          /\ issuing[i].step \in {"idle", "look", "numbered"}
          /\ issuing[i].now \in BOOLEAN
          /\ issuing[i].step # "idle" => issuing[i].rental \in Rentals
          /\ issuing[i].plan = NoPlan \/ issuing[i].plan.kind \in Kinds
    /\ toDo \in [Nights -> SUBSET Rentals]

BillingInit ==
    /\ ledger = <<>>
    /\ rentToCome \in SUBSET Rentals
    /\ papers = <<>> /\ onPaper = <<>>
    /\ nextNumber = [s \in Series |-> 1]
    /\ isStarted = [s \in Series |-> FALSE]
    /\ issuing = [i \in Workers |-> NotIssuing]
    /\ toDo = [n \in Nights |-> {}]

----------------------------------------------------------------------------
(* The documents a rental's lines still need. *)

LinesOf(r) == {l \in DOMAIN ledger : ledger[l].rental = r}

IsOn(l) == onPaper[l] # 0
IsReversed(l) == \E m \in DOMAIN ledger : ledger[m].kind = "reversal" /\ ledger[m].of = l
IsWaiting(l) == ~IsOn(l) /\ ~IsReversed(l)
IsCharge(l) == ledger[l].kind \in {"rent", "charge"}

\* Mutant: taking back a line whether or not it is on a document.
TakesBackAnyhow(l, kinds) == ledger[l].kind = "reversal" /\ ledger[ledger[l].of].kind \in kinds

\* Taking back a line of these kinds that is on a document already.
TakesBack(l, kinds) ==
    ledger[l].kind = "reversal" /\ ledger[ledger[l].of].kind \in kinds /\ IsOn(ledger[l].of)

\* One-off charges wait for rent, when rent is still to come; a credit taken back never does.
InvoiceLines(r, now) ==
    LET charges == {l \in LinesOf(r) : IsCharge(l) /\ IsWaiting(l)}
        isAllAtOnce == now \/ r \notin rentToCome \/ \E l \in charges : ledger[l].kind = "rent"
    IN  (IF isAllAtOnce THEN charges ELSE {})
        \cup {l \in LinesOf(r) : IsWaiting(l) /\ TakesBack(l, {"credit"})}

CreditLines(r) ==
    {l \in LinesOf(r) : IsWaiting(l) /\ (ledger[l].kind = "credit" \/ TakesBack(l, {"rent", "charge"}))}

\* The invoice a credit corrects: of the charge it reverses, or of the rent of its period.
CorrectedBy(l) == onPaper[ledger[l].of]

ReceiptLines(r) == {l \in LinesOf(r) : ledger[l].kind = "payment" /\ IsWaiting(l)}

\* Invoices, then credit notes, one per invoice they correct, then receipts.
Plans(r, now) ==
    IF InvoiceLines(r, now) # {}
    THEN {[kind |-> "invoice", lines |-> InvoiceLines(r, now), relatesTo |-> 0]}
    ELSE IF CreditLines(r) # {}
    THEN {[kind |-> "credit_note", relatesTo |-> d,
           lines |-> {l \in CreditLines(r) : CorrectedBy(l) = d}] :
          d \in {CorrectedBy(l) : l \in CreditLines(r)}}
    ELSE {[kind |-> "receipt", lines |-> {l}, relatesTo |-> 0] : l \in ReceiptLines(r)}

\* The database lets an invoice carry charges alone, a credit note credits and reversals, and
\* a receipt payments.
MayCarry(plan) ==
    \A l \in plan.lines :
        CASE plan.kind = "invoice" -> IsCharge(l)
          [] plan.kind = "credit_note" -> ledger[l].kind \in {"credit", "reversal"}
          [] plan.kind = "receipt" -> ledger[l].kind = "payment"

----------------------------------------------------------------------------
(* What the issuing transactions hold. *)

RentalFreeOfIssuing(r) ==
    \A i \in Workers : issuing[i].rental = r => issuing[i].step # "numbered"

SeriesFree(s) ==
    \A i \in Workers : issuing[i].step = "numbered" => SeriesOf(issuing[i].plan.kind) # s

(* Lines are added, with the rental locked, and never changed. *)
AddLine(r, kind, of) ==
    /\ Len(ledger) < MaxLines /\ RentalFreeOfIssuing(r)
    /\ ledger' = Append(ledger, [rental |-> r, kind |-> kind, of |-> of])
    /\ onPaper' = Append(onPaper, 0)
    /\ UNCHANGED <<rentToCome, papers, nextNumber, isStarted, issuing, toDo>>

ChargeRent(r) == AddLine(r, "rent", 0)
AddCharge(r) == AddLine(r, "charge", 0)
RecordPayment(r) == AddLine(r, "payment", 0)
CreditRent(l) == ledger[l].kind = "rent" /\ AddLine(ledger[l].rental, "credit", l)
ReverseLine(l) ==
    ledger[l].kind # "reversal" /\ ~IsReversed(l) /\ AddLine(ledger[l].rental, "reversal", l)

\* The car comes back, or the booking is cancelled.
RentEnds(r) ==
    /\ r \in rentToCome /\ RentalFreeOfIssuing(r)
    /\ rentToCome' = rentToCome \ {r}
    /\ UNCHANGED <<ledger, papers, onPaper, nextNumber, isStarted, issuing, toDo>>

\* Mutant: the next number is set whenever the business likes.
SaveNumberingAnyTime(s, n) ==
    /\ SeriesFree(s) /\ n # nextNumber[s]
    /\ nextNumber' = [nextNumber EXCEPT ![s] = n]
    /\ UNCHANGED <<ledger, rentToCome, papers, onPaper, isStarted, issuing, toDo>>

\* The next number is set only before the first document; the row waits for a document's.
SaveNumbering(s, n) ==
    /\ SeriesFree(s) /\ ~isStarted[s] /\ n # nextNumber[s]
    /\ nextNumber' = [nextNumber EXCEPT ![s] = n]
    /\ UNCHANGED <<ledger, rentToCome, papers, onPaper, isStarted, issuing, toDo>>

----------------------------------------------------------------------------
(* Documents are issued. *)

Goes(i, to) ==
    /\ issuing' = [issuing EXCEPT ![i] = to]
    /\ UNCHANGED <<ledger, rentToCome>>

Looking(r, now) ==
    [step |-> "look", rental |-> r, now |-> now, plan |-> NoPlan, number |-> 0]

\* A request whose first look finds nothing ends there.
IssuePending(i, r, now) ==
    /\ issuing[i].step = "idle" /\ Plans(r, now) # {}
    /\ Goes(i, Looking(r, now))
    /\ UNCHANGED <<papers, onPaper, nextNumber, isStarted, toDo>>

\* The nightly run finds the rentals with lines on no document, even those that need none.
CatchUp(n) ==
    /\ issuing[n].step = "idle"
    /\ LET found == {r \in Rentals : \E l \in LinesOf(r) : ~IsOn(l)}
       IN  \E r \in found :
              /\ Goes(n, Looking(r, FALSE))
              /\ toDo' = [toDo EXCEPT ![n] = found \ {r}]
    /\ UNCHANGED <<papers, onPaper, nextNumber, isStarted>>

\* This rental needs nothing more: the catch-up goes on to its next one.
NothingMore(i) ==
    /\ IF i \in Nights /\ toDo[i] # {}
       THEN \E r \in toDo[i] : /\ Goes(i, Looking(r, FALSE))
                               /\ toDo' = [toDo EXCEPT ![i] = @ \ {r}]
       ELSE Goes(i, NotIssuing) /\ UNCHANGED toDo
    /\ UNCHANGED <<papers, onPaper, nextNumber, isStarted>>

Needed(i) == Plans(issuing[i].rental, issuing[i].now)

\* hasDocumentWaiting, read without locking.  A look that finds a document needed decides
\* nothing but that its file is reserved: it is worked out again under the lock.
LookForDocument(i) == issuing[i].step = "look" /\ Needed(i) = {} /\ NothingMore(i)

\* The rental is locked, what it needs worked out and its number taken: both rows are this
\* transaction's until it ends.  (While it waits for the number's row the rental cannot
\* change, so the two locks are one step.)
DraftDocument(i) ==
    /\ issuing[i].step = "look" /\ RentalFreeOfIssuing(issuing[i].rental)
    /\ \E plan \in Needed(i) :
          LET s == SeriesOf(plan.kind)
          IN  /\ SeriesFree(s)
              /\ Goes(i, [step |-> "numbered", rental |-> issuing[i].rental,
                          now |-> issuing[i].now, plan |-> plan, number |-> nextNumber[s]])
    /\ UNCHANGED <<papers, onPaper, nextNumber, isStarted, toDo>>

\* The PDF is stored, the document and its lines recorded and the number moved on, in one
\* commit; then the next one is looked for.
RecordDocument(i) ==
    LET plan == issuing[i].plan
        s == SeriesOf(plan.kind)
    IN  /\ issuing[i].step = "numbered" /\ MayCarry(plan)
        /\ papers' = Append(papers, [rental |-> issuing[i].rental, kind |-> plan.kind,
                                     relatesTo |-> plan.relatesTo, number |-> issuing[i].number])
        /\ onPaper' = [l \in DOMAIN onPaper |-> IF l \in plan.lines THEN Len(papers) + 1 ELSE onPaper[l]]
        /\ nextNumber' = [nextNumber EXCEPT ![s] = issuing[i].number + 1]
        /\ isStarted' = [isStarted EXCEPT ![s] = TRUE]
        /\ Goes(i, Looking(issuing[i].rental, issuing[i].now))
        /\ UNCHANGED <<toDo>>

\* The transaction is undone: the database refuses a line, or storage, the database or the
\* request fails.  The request gives up, and so does the catch-up, with every rental it had
\* left.
IssuingFails(i) ==
    /\ issuing[i].step = "numbered"
    /\ Goes(i, NotIssuing)
    /\ toDo' = [n \in Nights |-> IF n = i THEN {} ELSE toDo[n]]
    /\ UNCHANGED <<papers, onPaper, nextNumber, isStarted>>

IssueStep(i) == LookForDocument(i) \/ DraftDocument(i) \/ RecordDocument(i) \/ IssuingFails(i)

BillingNext ==
    \/ \E r \in Rentals : ChargeRent(r) \/ AddCharge(r) \/ RecordPayment(r) \/ RentEnds(r)
    \/ \E l \in DOMAIN ledger : CreditRent(l) \/ ReverseLine(l)
    \/ \E start \in Starts : SaveNumbering(start[1], start[2])
    \/ \E i \in Issuers, r \in Rentals, now \in BOOLEAN : IssuePending(i, r, now)
    \/ \E n \in Nights : CatchUp(n)
    \/ \E i \in Workers : IssueStep(i)

BillingSpec == BillingInit /\ [][BillingNext]_billingVars

\* The catch-up runs every night, what has begun goes on, and storage does not always fail.
BillingFairness ==
    /\ \A n \in Nights : WF_billingVars(CatchUp(n))
    /\ \A i \in Workers :
          /\ WF_billingVars(IssueStep(i))
          /\ SF_billingVars(DraftDocument(i))
          /\ SF_billingVars(RecordDocument(i))

BillingFairSpec == BillingSpec /\ BillingFairness

----------------------------------------------------------------------------
(* What must hold.                                                         *)

InSeries(s) == {d \in DOMAIN papers : SeriesOf(papers[d].kind) = s}

\* A series has no gap and no repeat, whatever fails, whoever issues at once and whenever the
\* next number is set (takeDocumentNumber, saveNumbering: rule 17).
NumbersUsed ==
    \A s \in Series :
        /\ isStarted[s] <=> InSeries(s) # {}
        /\ \A d \in InSeries(s) :
              /\ papers[d].number < nextNumber[s]
              /\ \A e \in InSeries(s) : papers[d].number = papers[e].number => d = e
              /\ \A n \in papers[d].number .. nextNumber[s] - 1 :
                    \E e \in InSeries(s) : papers[e].number = n

LinesOn(r, kind) == {l \in LinesOf(r) : IsOn(l) /\ papers[onPaper[l]].kind = kind}

\* Charges less credits, lines taken back not counted.
Charged(r) ==
    LET standing == {l \in LinesOf(r) : ~IsReversed(l)}
    IN  <<Cardinality({l \in standing : IsCharge(l)}), Cardinality({l \in standing : ledger[l].kind = "credit"})>>

\* Each credit is on a note of the very invoice it corrects: of a charge taken back, or of
\* the rent it takes from; one on no invoice's note is of rent taken back before any invoice
\* (nextDocumentFor).
CreditsAreOnTheirInvoice ==
    \A r \in Rentals : \A l \in LinesOn(r, "credit_note") :
        LET corrected == papers[onPaper[l]].relatesTo
        IN  /\ corrected = onPaper[ledger[l].of]
            /\ corrected = 0 => IsReversed(ledger[l].of)

\* Once a rental needs no more documents its invoices less its credit notes come to what its
\* ledger charges, in whatever order lines were added, taken back and put on documents
\* (pendingDocuments).
PapersComeToLedger ==
    \A r \in Rentals :
        Plans(r, TRUE) = {} =>
            Cardinality(LinesOn(r, "invoice")) + Charged(r)[2] =
                Cardinality(LinesOn(r, "credit_note")) + Charged(r)[1]

\* What a rental's documents say is what its ledger says.
DocumentsAddUp == PapersComeToLedger /\ CreditsAreOnTheirInvoice

----------------------------------------------------------------------------
(* What a comment of the code claims, and the steps above refute.          *)

\* "Taking back a credit that is already on a credit note raises what the Renter owes, so it
\* goes on an invoice at once" (creditReversalIdsOf).
TakenBackIsInvoiced ==
    \A l \in 1..MaxLines :
        (l \in DOMAIN ledger /\ TakesBack(l, {"credit"})) ~> (l \in DOMAIN ledger /\ IsOn(l))
=============================================================================
