------------------------------- MODULE Signing -------------------------------
(***************************************************************************)
(* Papers signed over a link (apps/web/src/lib/contracts): the contract of *)
(* a rental and its changes of terms.  A link is sent for a paper as it    *)
(* reads then; the Renter's phones open it, press Sign, have the PDF made, *)
(* and keep it in a transaction that locks the rental, the link and the    *)
(* change in turn, while Users send again, stop, withdraw, change the end  *)
(* or the details, cancel, hand over and take back.                        *)
(***************************************************************************)
EXTENDS Naturals, Sequences, FiniteSets

CONSTANTS
    Phones,      \* requests of the Renter, each on one link at a time
    Senders,     \* requests of Users sending a link
    Changes,     \* the changes of terms there may be: 1 .. n, in the order they are made
    MaxLinks,    \* how many links are sent
    MaxEdits,    \* how often details a paper shows are edited
    Contract,    \* the rental's contract
    Nothing      \* no link, no change, no paper

ASSUME SigningAssumption ==
    /\ MaxLinks \in Nat /\ MaxEdits \in Nat /\ Changes \subseteq Nat /\ IsFiniteSet(Changes)
    /\ Contract \notin Changes /\ Nothing \notin Changes \cup {Contract}

Papers == Changes \cup {Contract}

VARIABLES
    rental,       \* rentals.status, draft and booked as one
    edits,        \* how often the details were edited
    change,       \* rental_changes: "none" before it is made
    kind,         \* what each change changes
    links,        \* renter_links, in the order they were sent
    documents,    \* issued_documents, with the link each was signed by
    step, page,   \* each phone: where it is, and its link
    letter,       \* each sender: the paper it filled in, and how it read
    withdrawing   \* the change whose withdrawal has begun

signingVars == <<rental, edits, change, kind, links, documents, step, page, letter, withdrawing>>

Link == [paper : Papers, text : Nat, state : {"live", "cancelled", "used"}]

SigningTypeOK ==
    /\ rental \in {"booked", "active", "over", "cancelled"}
    /\ edits \in 0..MaxEdits
    /\ change \in [Changes -> {"none", "waiting", "applied", "withdrawn"}]
    /\ kind \in [Changes -> {"end", "rate"}]
    /\ Len(links) <= MaxLinks /\ \A l \in DOMAIN links : links[l] \in Link
    /\ documents \subseteq [paper : Papers, link : 1..MaxLinks]
    /\ step \in [Phones -> {"idle", "reading", "storing", "rental", "link"}]
    /\ page \in [Phones -> 0..MaxLinks]
    /\ letter \in [Senders -> [paper : Papers, text : Nat] \cup {Nothing}]
    /\ withdrawing \in Changes \cup {Nothing}

SigningInit ==
    /\ rental \in {"booked", "active"}
    /\ edits = 0
    /\ change = [c \in Changes |-> "none"]
    /\ kind \in [Changes -> {"end", "rate"}]
    /\ links = <<>>
    /\ documents = {}
    /\ step = [f \in Phones |-> "idle"]
    /\ page = [f \in Phones |-> 0]
    /\ letter = [u \in Senders |-> Nothing]
    /\ withdrawing = Nothing

----------------------------------------------------------------------------
(* The papers. *)

Made(c) == change[c] # "none"
EndChanges == {c \in Changes : kind[c] = "end" /\ Made(c)}

\* How a paper reads now; the contract shows the rental's end too.
TextOf(paper) == edits + (IF paper = Contract THEN Cardinality(EndChanges) ELSE 0)

IsSigned(paper) == \E d \in documents : d.paper = paper

IsContractSignable == rental = "booked"

IsReplaced(c) == kind[c] = "end" /\ \E o \in EndChanges : o > c /\ change[o] # "withdrawn"

CanChangeEnd == rental \in {"booked", "active"}

ChangeSigningProblem(c) ==
    change[c] = "withdrawn" \/ IsSigned(c) \/ ~CanChangeEnd \/ IsReplaced(c)

\* Whether a paper may be sent and signed as things are.
IsOpen(paper) ==
    IF paper = Contract THEN IsContractSignable /\ ~IsSigned(paper) ELSE ~ChangeSigningProblem(paper)

\* What the transactions of the others hold: the rental from a signing's first lock, its link
\* from the second, a change from the withdrawal's.
RentalFree == \A f \in Phones : step[f] \notin {"rental", "link"}
LinkFree(l) == \A f \in Phones : step[f] = "link" => page[f] # l
ChangeFree(c) == withdrawing # c

LiveLinks(papers) == {l \in DOMAIN links : links[l].state = "live" /\ links[l].paper \in papers}

Cancelled(papers) ==
    [l \in DOMAIN links |-> IF l \in LiveLinks(papers)
                            THEN [links[l] EXCEPT !.state = "cancelled"] ELSE links[l]]

----------------------------------------------------------------------------
(* The Renter signs. *)

\* The page shows the paper only if it is open and reads as it did when the link was sent.
IsReady(l) ==
    links[l].state = "live" /\ IsOpen(links[l].paper) /\ links[l].text = TextOf(links[l].paper)

LoadSigningView(f, l) ==
    /\ step[f] = "idle" /\ IsReady(l) /\ ChangeFree(links[l].paper)
    /\ step' = [step EXCEPT ![f] = "reading"]
    /\ page' = [page EXCEPT ![f] = l]
    /\ UNCHANGED <<rental, edits, change, kind, links, documents, letter, withdrawing>>

Answer(f) == step' = [step EXCEPT ![f] = "idle"] /\ page' = [page EXCEPT ![f] = 0]

\* Checked again, then the PDF is made and stored, which takes its time.
SignContract(f) ==
    /\ step[f] = "reading" /\ ChangeFree(links[page[f]].paper)
    /\ \/ /\ IsReady(page[f])
          /\ step' = [step EXCEPT ![f] = "storing"] /\ UNCHANGED page
       \/ ~IsReady(page[f]) /\ Answer(f)
    /\ UNCHANGED <<rental, edits, change, kind, links, documents, letter, withdrawing>>

\* recordIssuedDocument: two documents of a kind never take the same number.
LockRental(f) ==
    /\ step[f] = "storing" /\ RentalFree
    /\ step' = [step EXCEPT ![f] = "rental"]
    /\ UNCHANGED <<rental, edits, change, kind, links, documents, page, letter, withdrawing>>

\* Mutant: a link stopped meanwhile is not looked at again.
IsLinkFound(l) == links[l].state # "used"

IsLinkLive(l) == links[l].state = "live"

\* onIssued: used on another phone, or stopped meanwhile, and nothing is kept.
LockLink(f) ==
    /\ step[f] = "rental"
    /\ \/ /\ IsLinkLive(page[f])
          /\ step' = [step EXCEPT ![f] = "link"] /\ UNCHANGED page
       \/ ~IsLinkLive(page[f]) /\ Answer(f)
    /\ UNCHANGED <<rental, edits, change, kind, links, documents, letter, withdrawing>>

\* Mutant: the link stays as it was.
RecordUnused(f) == links

RecordUsed(f) == [links EXCEPT ![page[f]].state = "used"]

\* recordSigned: the paper's own rules again, under its lock, and all is kept or nothing.
RecordSigned(f) ==
    LET paper == links[page[f]].paper
    IN  /\ step[f] = "link" /\ ChangeFree(paper)
        /\ \/ /\ IsOpen(paper)
              /\ documents' = documents \cup {[paper |-> paper, link |-> page[f]]}
              /\ change' = [c \in Changes |-> IF c = paper THEN "applied" ELSE change[c]]
              /\ links' = RecordUsed(f)
           \/ ~IsOpen(paper) /\ UNCHANGED <<documents, change, links>>
        /\ Answer(f)
        /\ UNCHANGED <<rental, edits, kind, letter, withdrawing>>

SigningDies(f) ==
    /\ step[f] # "idle"
    /\ Answer(f)
    /\ UNCHANGED <<rental, edits, change, kind, links, documents, letter, withdrawing>>

----------------------------------------------------------------------------
(* What Users do. *)

\* The paper is filled in first.
FillPaper(u, paper) ==
    /\ letter[u] = Nothing
    /\ paper \in Changes => Made(paper)
    /\ letter' = [letter EXCEPT ![u] = [paper |-> paper, text |-> TextOf(paper)]]
    /\ UNCHANGED <<rental, edits, change, kind, links, documents, step, page, withdrawing>>

\* Mutant: refused by what was read when the paper was filled in.
IsSendableUnchecked(paper) == TRUE

IsSendable(paper) == IsOpen(paper)

\* sendLinkFor: refused, or the paper's link before it stops and the new one is kept.
SendLink(u) ==
    LET paper == letter[u].paper
    IN  /\ letter[u] # Nothing /\ RentalFree /\ ChangeFree(paper)
        /\ \/ ~IsSendable(paper) /\ UNCHANGED links
           \/ /\ IsSendable(paper) /\ Len(links) < MaxLinks
              /\ links' = Append(Cancelled({paper}),
                                 [paper |-> paper, text |-> letter[u].text, state |-> "live"])
        /\ letter' = [letter EXCEPT ![u] = Nothing]
        /\ UNCHANGED <<rental, edits, change, kind, documents, step, page, withdrawing>>

\* cancelSigningLink, cancelChangeLink
StopLink(paper) ==
    /\ LiveLinks({paper}) # {} /\ \A l \in LiveLinks({paper}) : LinkFree(l)
    /\ links' = Cancelled({paper})
    /\ UNCHANGED <<rental, edits, change, kind, documents, step, page, letter, withdrawing>>

\* A new end, in effect at once; it replaces the ends before it, and their links stop.
ChangeRentalEnd(c) ==
    /\ ~Made(c) /\ kind[c] = "end" /\ \A o \in Changes : o < c => Made(o)
    /\ RentalFree /\ CanChangeEnd
    /\ change' = [change EXCEPT ![c] = "applied"]
    /\ links' = Cancelled(EndChanges)
    /\ UNCHANGED <<rental, edits, kind, documents, step, page, letter, withdrawing>>

\* A weekly price waits for its signature, one at a time.
ProposeRate(c) ==
    /\ ~Made(c) /\ kind[c] = "rate" /\ \A o \in Changes : o < c => Made(o)
    /\ RentalFree /\ rental = "active" /\ \A o \in Changes : change[o] # "waiting"
    /\ change' = [change EXCEPT ![c] = "waiting"]
    /\ UNCHANGED <<rental, edits, kind, links, documents, step, page, letter, withdrawing>>

\* withdrawWaitingChange locks the change; only then are its links updated.
BeginWithdrawal(c) ==
    /\ withdrawing = Nothing /\ change[c] = "waiting"
    /\ withdrawing' = c
    /\ UNCHANGED <<rental, edits, change, kind, links, documents, step, page, letter>>

EndWithdrawal ==
    /\ withdrawing # Nothing /\ \A l \in LiveLinks({withdrawing}) : LinkFree(l)
    /\ change' = [change EXCEPT ![withdrawing] = "withdrawn"]
    /\ links' = Cancelled({withdrawing})
    /\ withdrawing' = Nothing
    /\ UNCHANGED <<rental, edits, kind, documents, step, page, letter>>

EditDetails ==
    /\ edits < MaxEdits
    /\ edits' = edits + 1
    /\ UNCHANGED <<rental, change, kind, links, documents, step, page, letter, withdrawing>>

CancelBooking ==
    /\ rental = "booked" /\ RentalFree
    /\ rental' = "cancelled"
    /\ links' = Cancelled(Papers)
    /\ UNCHANGED <<edits, change, kind, documents, step, page, letter, withdrawing>>

\* The car goes out, and comes back.
MoveRental(from, to) ==
    /\ rental = from /\ RentalFree
    /\ rental' = to
    /\ UNCHANGED <<edits, change, kind, links, documents, step, page, letter, withdrawing>>

(* The database's own. *)

\* A signing holds the link and waits for the change, a withdrawal holds the change and waits
\* for the link: the database ends one of the two.
BreakDeadlock(f) ==
    /\ step[f] = "link" /\ withdrawing = links[page[f]].paper
    /\ \/ Answer(f) /\ UNCHANGED withdrawing
       \/ withdrawing' = Nothing /\ UNCHANGED <<step, page>>
    /\ UNCHANGED <<rental, edits, change, kind, links, documents, letter>>

SigningNext ==
    \/ \E f \in Phones :
          \/ \E l \in DOMAIN links : LoadSigningView(f, l)
          \/ SignContract(f) \/ LockRental(f) \/ LockLink(f) \/ RecordSigned(f)
          \/ SigningDies(f) \/ BreakDeadlock(f)
    \/ \E u \in Senders : (\E p \in Papers : FillPaper(u, p)) \/ SendLink(u)
    \/ \E p \in Papers : StopLink(p)
    \/ \E c \in Changes : ChangeRentalEnd(c) \/ ProposeRate(c) \/ BeginWithdrawal(c)
    \/ EndWithdrawal \/ EditDetails \/ CancelBooking
    \/ MoveRental("booked", "active") \/ MoveRental("active", "over")

SigningSpec == SigningInit /\ [][SigningNext]_signingVars

----------------------------------------------------------------------------
(* What must hold. *)

\* A paper is signed once, over the link that was used for it, however many phones and links
\* there were: no document without its used link, no used link without its document.
SignedOnce ==
    /\ \A d, e \in documents : d.paper = e.paper => d = e
    /\ \A l \in DOMAIN links :
          links[l].state = "used" <=> [paper |-> links[l].paper, link |-> l] \in documents
    /\ \A c \in Changes : kind[c] = "rate" => (change[c] = "applied" <=> IsSigned(c))

\* Nothing is signed after the business stopped it: its link by sending another, by stopping
\* it, by a later end or a cancelled booking; a price by withdrawing it; a contract by
\* handing over the car (reviews A3-1, A3-7, A3-12, A3-15).
StoppedIsUnsigned ==
    [][\A d \in documents' \ documents :
          /\ links[d.link].state = "live"
          /\ \A l \in DOMAIN links : l > d.link => links[l].paper # d.paper
          /\ d.paper = Contract => rental = "booked"
          /\ d.paper \in Changes => /\ rental \in {"booked", "active"}
                                    /\ change[d.paper] # "withdrawn"
                                    /\ kind[d.paper] = "end" => \A o \in EndChanges : o <= d.paper]_signingVars

\* No link stays in play for a paper nobody may sign any more, but for a rental that moved on;
\* and never two for one paper (renter_links_one_live_per_purpose).
DeadPapersHaveNoLink ==
    /\ \A k, l \in LiveLinks(Papers) : links[k].paper = links[l].paper => k = l
    /\ \A l \in LiveLinks(Papers) :
          LET paper == links[l].paper
          IN  /\ rental # "cancelled" /\ ~IsSigned(paper)
              /\ paper # Contract => change[paper] # "withdrawn" /\ ~IsReplaced(paper)

=============================================================================
