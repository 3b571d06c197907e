----------------------------- MODULE BooksProofs ----------------------------
(***************************************************************************)
(* Proofs about Signing and Renters, and about the four parts of MCBooks   *)
(* side by side.                                                           *)
(* Of signing, for any phones, Users, changes, links and edits: a paper    *)
(* has one link in play, its newest (NewestOnly); a signing keeps its      *)
(* document while it holds that link (OneSigns, LinkHeld), so whatever     *)
(* stops the link either comes before, and the signing finds it stopped,   *)
(* or waits. An end of a rental is in effect at once and never withdrawn   *)
(* (EndsStand), so the newest end made replaces every other.               *)
(* Of Renters, for any sides, links, photos and days: sending the details  *)
(* needs a photo of each side in use on the link, and once they are sent   *)
(* no other joins (Together); a photo is hooked to the submission of its   *)
(* own link only (PhotosBelong), so a review, a clean-up and a retirement  *)
(* find all of them. A page opened before the Renter was retired can still *)
(* ask for one upload, which nobody can confirm (StaysBare).               *)
(***************************************************************************)
EXTENDS MCBooks, LedgerProofs, FiniteSetTheorems, SequenceTheorems, TLAPS

(* Signing. *)

\* A phone that is past its page's first look has a link, and one at a time locks the rental.
LinkFound == \A f \in Phones : step[f] # "idle" => page[f] \in DOMAIN links
OneSigns == \A f, g \in Phones : {step[f], step[g]} \subseteq {"rental", "link"} => f = g

\* The link locked is in play, and stays so until the signing is through.
LinkHeld == \A f \in Phones : step[f] = "link" => links[page[f]].state = "live"

NewestOnly ==
    \A l, m \in DOMAIN links : l < m /\ links[l].paper = links[m].paper => links[l].state # "live"

\* Whatever is sent of a change is of one that was made.
PapersMade ==
    /\ \A l \in DOMAIN links : links[l].paper \in Changes => Made(links[l].paper)
    /\ \A u \in Senders :
          letter[u] # Nothing /\ letter[u].paper \in Changes => Made(letter[u].paper)

WithdrawalWaits == withdrawing # Nothing => change[withdrawing] = "waiting"
EndsStand == \A c \in Changes : change[c] \in {"waiting", "withdrawn"} => kind[c] = "rate"

\* A document is of the paper of the link it was signed by.
DocumentsBelong ==
    \A d \in documents : d.link \in DOMAIN links /\ d.paper = links[d.link].paper

SigningIInv ==
    /\ SigningTypeOK /\ links \in Seq(Link)
    /\ LinkFound /\ OneSigns /\ LinkHeld /\ NewestOnly /\ PapersMade
    /\ WithdrawalWaits /\ EndsStand /\ DocumentsBelong
    /\ SignedOnce /\ DeadPapersHaveNoLink

\* A paper for which a link may stay in play.
IsAlive(paper) ==
    /\ rental # "cancelled"
    /\ paper # Contract => change[paper] # "withdrawn" /\ ~IsReplaced(paper)

OneInPlay == \A k, l \in LiveLinks(Papers) : links[k].paper = links[l].paper => k = l
NoneDead ==
    \A l \in LiveLinks(Papers), q \in Papers :
        q = links[l].paper => ~IsSigned(q) /\ IsAlive(q)

----------------------------------------------------------------------------
(* Links.                                                                  *)

LEMMA DeadPapersAre ==
  SigningTypeOK => (DeadPapersHaveNoLink <=> OneInPlay /\ NoneDead)
  <1> SUFFICES ASSUME SigningTypeOK
               PROVE  DeadPapersHaveNoLink <=> OneInPlay /\ NoneDead
    OBVIOUS
  <1>1. \A l \in LiveLinks(Papers) : links[l].paper \in Papers
    BY DEF LiveLinks
  <1> QED
    BY <1>1 DEF DeadPapersHaveNoLink, OneInPlay, NoneDead, IsAlive

LEMMA LinksAre ==
  ASSUME SigningIInv
  PROVE  /\ Len(links) \in Nat /\ DOMAIN links = 1..Len(links) /\ Len(links) <= MaxLinks
         /\ \A l \in DOMAIN links : links[l] \in Link /\ l \in 1..MaxLinks
  <1>1. links \in Seq(Link) /\ Len(links) <= MaxLinks
    BY DEF SigningIInv, SigningTypeOK
  <1>2. Len(links) \in Nat /\ DOMAIN links = 1..Len(links)
    BY <1>1, LenProperties
  <1> QED
    BY <1>1, <1>2, ElementOfSeq, SigningAssumption

LEMMA Rewritten ==
  ASSUME NEW T, NEW n \in Nat, NEW f \in [1..n -> T]
  PROVE  f \in Seq(T) /\ Len(f) = n /\ DOMAIN f = 1..n
  <1>1. f \in Seq(T)
    BY SeqDef
  <1>2. Len(f) \in Nat /\ DOMAIN f = 1..Len(f)
    BY <1>1, LenProperties
  <1>3. 1..Len(f) = 1..n
    BY <1>2
  <1>4. Len(f) = n
    BY <1>2, <1>3
  <1> QED
    BY <1>1, <1>2, <1>4

\* The links in play of some papers are cancelled, and nothing else of any link changes.
LEMMA CancelledAre ==
  ASSUME SigningIInv, NEW S
  PROVE  /\ Cancelled(S) \in Seq(Link) /\ Len(Cancelled(S)) = Len(links)
         /\ DOMAIN Cancelled(S) = DOMAIN links
         /\ \A l \in DOMAIN links :
               /\ Cancelled(S)[l].paper = links[l].paper
               /\ l \in LiveLinks(S) => Cancelled(S)[l].state = "cancelled"
               /\ l \notin LiveLinks(S) => Cancelled(S)[l] = links[l]
  <1>1. /\ Cancelled(S) \in [1..Len(links) -> Link]
        /\ \A l \in DOMAIN links :
              /\ Cancelled(S)[l].paper = links[l].paper
              /\ l \in LiveLinks(S) => Cancelled(S)[l].state = "cancelled"
              /\ l \notin LiveLinks(S) => Cancelled(S)[l] = links[l]
    BY LinksAre DEF Cancelled, Link
  <1> QED
    BY <1>1, LinksAre, Rewritten

LEMMA TextIsANumber ==
  ASSUME SigningTypeOK, NEW paper
  PROVE  TextOf(paper) \in Nat
  <1>1. IsFiniteSet(EndChanges)
    <2>1. EndChanges \subseteq Changes
      BY DEF EndChanges
    <2> QED
      BY <2>1, SigningAssumption, FS_Subset
  <1>2. Cardinality(EndChanges) \in Nat
    BY <1>1, FS_CardinalityType
  <1>3. edits \in Nat
    BY SigningAssumption DEF SigningTypeOK
  <1> QED
    BY <1>2, <1>3 DEF TextOf

----------------------------------------------------------------------------
(* The first state.                                                        *)

LEMMA InitSigningIInv == SigningInit => SigningIInv
  <1> SUFFICES ASSUME SigningInit
               PROVE  SigningIInv
    OBVIOUS
  <1> USE SigningAssumption DEF SigningInit
  <1>1. Len(<<>>) = 0 /\ DOMAIN <<>> = {} /\ links \in Seq(Link)
    BY EmptySeq
  <1>2. SigningTypeOK
    BY <1>1 DEF SigningTypeOK
  <1>3. LinkFound /\ OneSigns /\ LinkHeld /\ NewestOnly /\ PapersMade
    BY <1>1 DEF LinkFound, OneSigns, LinkHeld, NewestOnly, PapersMade
  <1>4. WithdrawalWaits /\ EndsStand /\ DocumentsBelong
    BY <1>1 DEF WithdrawalWaits, EndsStand, DocumentsBelong
  <1>5. SignedOnce
    BY <1>1 DEF SignedOnce, IsSigned
  <1>6. DeadPapersHaveNoLink
    BY <1>1 DEF DeadPapersHaveNoLink, LiveLinks
  <1> QED
    BY <1>1, <1>2, <1>3, <1>4, <1>5, <1>6 DEF SigningIInv

----------------------------------------------------------------------------
(* The Renter's phones, until something is kept.                           *)

LEMMA PhoneStepKeeps ==
  ASSUME SigningIInv,
         UNCHANGED <<rental, edits, change, kind, links, documents, letter>>,
         withdrawing' \in {withdrawing, Nothing},
         step' \in [Phones -> {"idle", "reading", "storing", "rental", "link"}],
         page' \in [Phones -> 0..MaxLinks],
         LinkFound', OneSigns', LinkHeld'
  PROVE  SigningIInv'
  <1> USE DEF SigningIInv
  <1>1. SigningTypeOK'
    BY DEF SigningTypeOK
  <1>2. NewestOnly' /\ PapersMade' /\ WithdrawalWaits' /\ EndsStand' /\ DocumentsBelong'
    BY DEF NewestOnly, PapersMade, Made, WithdrawalWaits, EndsStand, DocumentsBelong
  <1>3. SignedOnce'
    BY DEF SignedOnce, IsSigned
  <1>4. DeadPapersHaveNoLink'
    BY DEF DeadPapersHaveNoLink, LiveLinks, IsSigned, IsReplaced, EndChanges, Made
  <1> QED
    BY <1>1, <1>2, <1>3, <1>4

\* A phone that gives up holds nothing.
LEMMA AnswerKeeps ==
  ASSUME SigningIInv, NEW f \in Phones, Answer(f)
  PROVE  /\ step' \in [Phones -> {"idle", "reading", "storing", "rental", "link"}]
         /\ page' \in [Phones -> 0..MaxLinks]
         /\ links' = links => LinkFound' /\ LinkHeld'
         /\ OneSigns'
         /\ \A g \in Phones : g # f => step'[g] = step[g] /\ page'[g] = page[g]
         /\ step'[f] = "idle"
  <1> USE DEF SigningIInv
  <1>1. /\ step' \in [Phones -> {"idle", "reading", "storing", "rental", "link"}]
        /\ page' \in [Phones -> 0..MaxLinks]
        /\ \A g \in Phones : g # f => step'[g] = step[g] /\ page'[g] = page[g]
        /\ step'[f] = "idle"
    BY SigningAssumption DEF Answer, SigningTypeOK
  <1>2. links' = links => LinkFound' /\ LinkHeld'
    BY <1>1 DEF LinkFound, LinkHeld
  <1>3. OneSigns'
    BY <1>1 DEF OneSigns
  <1> QED
    BY <1>1, <1>2, <1>3

LEMMA PhonesKeep ==
  ASSUME SigningIInv, NEW f \in Phones,
         \/ \E l \in DOMAIN links : LoadSigningView(f, l)
         \/ SignContract(f) \/ LockRental(f) \/ LockLink(f) \/ SigningDies(f) \/ BreakDeadlock(f)
  PROVE  SigningIInv'
  <1> USE DEF SigningIInv
  <1>1. /\ step \in [Phones -> {"idle", "reading", "storing", "rental", "link"}]
        /\ page \in [Phones -> 0..MaxLinks]
    BY DEF SigningTypeOK
  <1>2. ASSUME NEW l \in DOMAIN links, LoadSigningView(f, l)
        PROVE  SigningIInv'
    <2>1. /\ step' \in [Phones -> {"idle", "reading", "storing", "rental", "link"}]
          /\ page' \in [Phones -> 0..MaxLinks]
          /\ step'[f] = "reading" /\ page'[f] = l
          /\ \A g \in Phones : g # f => step'[g] = step[g] /\ page'[g] = page[g]
      BY <1>1, <1>2, LinksAre, SigningAssumption DEF LoadSigningView
    <2>2. LinkFound' /\ OneSigns' /\ LinkHeld'
      BY <1>2, <2>1 DEF LinkFound, OneSigns, LinkHeld, LoadSigningView
    <2> QED
      BY <1>2, <2>1, <2>2, PhoneStepKeeps DEF LoadSigningView
  <1>3. ASSUME SignContract(f) \/ LockRental(f) \/ LockLink(f) \/ SigningDies(f), Answer(f)
        PROVE  SigningIInv'
    <2>1. UNCHANGED <<rental, edits, change, kind, links, documents, letter, withdrawing>>
      BY <1>3 DEF SignContract, LockRental, LockLink, SigningDies
    <2> QED
      BY <1>3, <2>1, AnswerKeeps, PhoneStepKeeps
  <1>4. ASSUME NEW to \in {"storing", "rental", "link"}, step[f] # "idle",
               step' = [step EXCEPT ![f] = to], page' = page,
               to \in {"rental", "link"} => \A g \in Phones : g # f => step[g] \notin {"rental", "link"},
               to = "link" => links[page[f]].state = "live",
               UNCHANGED <<rental, edits, change, kind, links, documents, letter, withdrawing>>
        PROVE  SigningIInv'
    <2>1. /\ step' \in [Phones -> {"idle", "reading", "storing", "rental", "link"}]
          /\ page' \in [Phones -> 0..MaxLinks]
          /\ step'[f] = to /\ \A g \in Phones : g # f => step'[g] = step[g]
      BY <1>1, <1>4
    <2>2. LinkFound' /\ OneSigns' /\ LinkHeld'
      BY <1>4, <2>1 DEF LinkFound, OneSigns, LinkHeld
    <2> QED
      BY <1>4, <2>1, <2>2, PhoneStepKeeps
  <1>5. CASE SignContract(f)
    <2>1. Answer(f) \/ (step[f] = "reading" /\ step' = [step EXCEPT ![f] = "storing"] /\ page' = page)
      BY <1>5 DEF SignContract
    <2>2. UNCHANGED <<rental, edits, change, kind, links, documents, letter, withdrawing>>
      BY <1>5 DEF SignContract
    <2> QED
      BY <1>3, <1>4, <1>5, <2>1, <2>2
  <1>6. CASE LockRental(f)
    BY <1>4, <1>6 DEF LockRental, RentalFree
  <1>7. CASE LockLink(f)
    <2>1. Answer(f) \/ (step' = [step EXCEPT ![f] = "link"] /\ page' = page /\ links[page[f]].state = "live")
      BY <1>7 DEF LockLink, IsLinkLive
    <2>2. /\ UNCHANGED <<rental, edits, change, kind, links, documents, letter, withdrawing>>
          /\ step[f] = "rental"
      BY <1>7 DEF LockLink
    <2>3. \A g \in Phones : g # f => step[g] \notin {"rental", "link"}
      BY <2>2 DEF OneSigns
    <2> QED
      BY <1>3, <1>4, <1>7, <2>1, <2>2, <2>3
  <1>8. CASE SigningDies(f)
    BY <1>3, <1>8 DEF SigningDies
  <1>9. CASE BreakDeadlock(f)
    <2>1. UNCHANGED <<rental, edits, change, kind, links, documents, letter>>
      BY <1>9 DEF BreakDeadlock
    <2>2. CASE Answer(f) /\ withdrawing' = withdrawing
      BY <2>1, <2>2, AnswerKeeps, PhoneStepKeeps
    <2>3. CASE withdrawing' = Nothing /\ UNCHANGED <<step, page>>
      <3>1. LinkFound' /\ OneSigns' /\ LinkHeld'
        BY <2>1, <2>3 DEF LinkFound, OneSigns, LinkHeld
      <3> QED
        BY <1>1, <2>1, <2>3, <3>1, PhoneStepKeeps
    <2> QED
      BY <1>9, <2>2, <2>3 DEF BreakDeadlock
  <1> QED
    BY <1>2, <1>5, <1>6, <1>7, <1>8, <1>9

----------------------------------------------------------------------------
(* The signing is kept.                                                    *)

\* The link a phone has locked is its paper's newest, and in play; the paper is open and of a
\* change that was made.
LEMMA SignedPaper ==
  ASSUME SigningIInv, NEW f \in Phones, step[f] = "link"
  PROVE  /\ page[f] \in DOMAIN links /\ links[page[f]].state = "live"
         /\ links[page[f]].paper \in Papers
         /\ links[page[f]].paper \in Changes => Made(links[page[f]].paper)
         /\ \A g \in Phones : g # f => step[g] \notin {"rental", "link"}
  <1>1. page[f] \in DOMAIN links /\ links[page[f]].state = "live"
    BY DEF SigningIInv, LinkFound, LinkHeld
  <1>2. links[page[f]].paper \in Papers
    BY <1>1, LinksAre DEF Link
  <1> QED
    BY <1>1, <1>2 DEF SigningIInv, PapersMade, OneSigns

LEMMA RecordSignedKeeps ==
  ASSUME SigningIInv, NEW f \in Phones, RecordSigned(f)
  PROVE  SigningIInv'
  <1> USE DEF SigningIInv
  <1>1. PICK l \in DOMAIN links : l = page[f]
    BY SignedPaper DEF RecordSigned
  <1>2. PICK paper \in Papers : paper = links[l].paper
    BY <1>1, SignedPaper DEF RecordSigned
  <1>3. /\ links[l].state = "live" /\ (paper \in Changes => Made(paper)) /\ ChangeFree(paper)
        /\ \A g \in Phones : g # f => step[g] \notin {"rental", "link"}
        /\ Answer(f) /\ UNCHANGED <<rental, edits, kind, letter, withdrawing>>
    BY <1>1, <1>2, SignedPaper DEF RecordSigned
  <1>4. CASE UNCHANGED <<documents, change, links>>
    BY <1>3, <1>4, AnswerKeeps, PhoneStepKeeps
  <1>5. CASE ~UNCHANGED <<documents, change, links>>
    <2> DEFINE doc == [paper |-> paper, link |-> l]
    <2>1. /\ IsOpen(paper) /\ documents' = documents \cup {doc}
          /\ change' = [c \in Changes |-> IF c = paper THEN "applied" ELSE change[c]]
          /\ links' = [links EXCEPT ![l].state = "used"]
      BY <1>1, <1>2, <1>5 DEF RecordSigned, RecordUsed
    <2>2. /\ links' \in Seq(Link) /\ Len(links') = Len(links) /\ DOMAIN links' = DOMAIN links
          /\ \A m \in DOMAIN links : links'[m].paper = links[m].paper
          /\ links'[l].state = "used" /\ \A m \in DOMAIN links : m # l => links'[m] = links[m]
          /\ \A m \in DOMAIN links : links'[m] \in Link
      <3>1. /\ links' \in [1..Len(links) -> Link]
            /\ \A m \in DOMAIN links : links'[m].paper = links[m].paper
            /\ links'[l].state = "used" /\ \A m \in DOMAIN links : m # l => links'[m] = links[m]
        BY <2>1, LinksAre DEF Link
      <3> QED
        BY <3>1, LinksAre, Rewritten
    <2>3. /\ ~IsSigned(paper)
          /\ paper \in Changes => change[paper] # "withdrawn"
      BY <2>1, SigningAssumption DEF IsOpen, ChangeSigningProblem
    <2>4. /\ \A c \in Changes : c # paper => change'[c] = change[c]
          /\ paper \in Changes => change'[paper] = "applied"
          /\ change' \in [Changes -> {"none", "waiting", "applied", "withdrawn"}]
      BY <2>1 DEF SigningTypeOK
    <2>5. \A c \in Changes : Made(c)' <=> Made(c)
      BY <1>3, <2>4 DEF Made
    <2>6. EndChanges' = EndChanges
      BY <1>3, <2>5 DEF EndChanges
    <2>7. doc \in [paper : Papers, link : 1..MaxLinks] /\ doc.paper = paper /\ doc.link = l
      BY LinksAre
    <2>8. \A q : IsSigned(q)' <=> IsSigned(q) \/ q = paper
      BY <2>1, <2>7 DEF IsSigned
    <2>9. SigningTypeOK'
      BY <1>3, <2>1, <2>2, <2>4, <2>7, AnswerKeeps DEF SigningTypeOK
    <2>10. LinkFound' /\ LinkHeld' /\ OneSigns'
      <3>1. /\ \A g \in Phones : g # f => step'[g] = step[g] /\ page'[g] = page[g]
            /\ step'[f] = "idle" /\ OneSigns'
        BY <1>3, AnswerKeeps
      <3> QED
        BY <1>3, <2>2, <3>1 DEF LinkFound, LinkHeld
    <2>11. NewestOnly' /\ PapersMade'
      <3>1. NewestOnly'
        BY <2>2 DEF NewestOnly
      <3>2. PapersMade'
        BY <1>3, <2>2, <2>5 DEF PapersMade
      <3> QED
        BY <3>1, <3>2
    <2>12. WithdrawalWaits' /\ EndsStand'
      <3>1. WithdrawalWaits'
        BY <1>3, <2>4 DEF WithdrawalWaits, ChangeFree, SigningTypeOK
      <3>2. EndsStand'
        BY <1>3, <2>4 DEF EndsStand
      <3> QED
        BY <3>1, <3>2
    <2>13. DocumentsBelong'
      BY <1>2, <2>1, <2>2, <2>7 DEF DocumentsBelong
    <2>14. SignedOnce'
      <3>1. \A d, e \in documents' : d.paper = e.paper => d = e
        BY <2>1, <2>3, <2>7 DEF SignedOnce, IsSigned
      <3>2. \A m \in DOMAIN links :
               links'[m].state = "used" <=> [paper |-> links'[m].paper, link |-> m] \in documents'
        <4> SUFFICES ASSUME NEW m \in DOMAIN links
                     PROVE  links'[m].state = "used"
                              <=> [paper |-> links'[m].paper, link |-> m] \in documents'
          OBVIOUS
        <4>1. CASE m = l
          <5>1. links'[m].state = "used" /\ links'[m].paper = paper
            BY <1>2, <2>2, <4>1
          <5>2. [paper |-> links'[m].paper, link |-> m] = doc
            BY <4>1, <5>1
          <5> QED
            BY <2>1, <5>1, <5>2
        <4>2. CASE m # l
          <5>1. [paper |-> links[m].paper, link |-> m] # doc
            BY <4>2
          <5> QED
            BY <2>1, <2>2, <4>2, <5>1 DEF SignedOnce
        <4> QED
          BY <4>1, <4>2
      <3>3. \A c \in Changes : kind'[c] = "rate" => (change'[c] = "applied" <=> IsSigned(c)')
        BY <1>3, <2>4, <2>8 DEF SignedOnce
      <3> QED
        BY <2>2, <3>1, <3>2, <3>3 DEF SignedOnce
    <2>15. DeadPapersHaveNoLink'
      <3>1. LiveLinks(Papers)' \subseteq LiveLinks(Papers) \ {l}
        BY <2>2 DEF LiveLinks
      <3>2. l \in LiveLinks(Papers)
        BY <1>2, <1>3 DEF LiveLinks
      <3>3. \A m \in LiveLinks(Papers)' : links'[m].paper = links[m].paper /\ links[m].paper # paper
        BY <1>2, <2>2, <3>1, <3>2 DEF DeadPapersHaveNoLink, LiveLinks
      <3>4. \A o \in Changes : change'[o] = "withdrawn" <=> change[o] = "withdrawn"
        BY <2>3, <2>4
      <3>5. \A c : IsReplaced(c)' <=> IsReplaced(c)
        BY <1>3, <2>6, <3>4 DEF IsReplaced, EndChanges
      <3>6. \A m \in LiveLinks(Papers)' : links[m].paper \in Papers
        BY <3>1 DEF LiveLinks
      <3>7. \A k, m \in LiveLinks(Papers)' : links'[k].paper = links'[m].paper => k = m
        BY <3>1, <3>3 DEF DeadPapersHaveNoLink
      <3>8. NoneDead'
        <4> SUFFICES ASSUME NEW m \in LiveLinks(Papers)', NEW q \in Papers, q = links'[m].paper
                     PROVE  ~IsSigned(q)' /\ IsAlive(q)'
          BY DEF NoneDead
        <4>1. m \in LiveLinks(Papers) /\ links[m].paper = q /\ q # paper
          BY <3>1, <3>3
        <4>2. ~IsSigned(q) /\ IsAlive(q)
          BY <4>1, DeadPapersAre DEF NoneDead
        <4> QED
          BY <1>3, <2>4, <2>8, <3>5, <4>1, <4>2 DEF Papers, IsAlive
      <3>9. OneInPlay'
        BY <3>7 DEF OneInPlay
      <3> QED
        BY <3>8, <3>9, <2>9, DeadPapersAre, PTL
    <2> QED
      BY <2>2, <2>9, <2>10, <2>11, <2>12, <2>13, <2>14, <2>15
  <1> QED
    BY <1>4, <1>5

----------------------------------------------------------------------------
(* What Users do.                                                          *)

\* Some links in play may be cancelled, none a signing holds.
OnlyStops ==
    /\ links' \in Seq(Link) /\ Len(links') = Len(links) /\ DOMAIN links' = DOMAIN links
    /\ \A l \in DOMAIN links :
          /\ links'[l].paper = links[l].paper
          /\ \/ links'[l] = links[l]
             \/ links[l].state = "live" /\ links'[l].state = "cancelled" /\ LinkFree(l)

\* A step of a User that keeps no document and sends no link.
LEMMA OfficeKeeps ==
  ASSUME SigningIInv,
         UNCHANGED <<kind, documents, step, page, letter>>,
         OnlyStops, rental' \in {"booked", "active", "over", "cancelled"}, edits' \in 0..MaxEdits,
         change' \in [Changes -> {"none", "waiting", "applied", "withdrawn"}],
         withdrawing' \in Changes \cup {Nothing},
         \A c \in Changes : Made(c) => Made(c)',
         \A c \in Changes : kind[c] = "rate" => (change'[c] = "applied" <=> change[c] = "applied"),
         WithdrawalWaits', EndsStand',
         \A l \in LiveLinks(Papers)', q \in Papers : q = links[l].paper => IsAlive(q)'
  PROVE  SigningIInv'
  <1> USE DEF SigningIInv, OnlyStops
  <1>1. \A l \in DOMAIN links : links'[l] \in Link
    <2>1. Len(links) \in Nat
      BY LinksAre
    <2> QED
      BY <2>1, ElementOfSeq, LenProperties
  <1>2. SigningTypeOK'
    BY <1>1 DEF SigningTypeOK
  <1>3. LinkFound' /\ OneSigns' /\ LinkHeld'
    <2>1. LinkFound' /\ OneSigns'
      BY DEF LinkFound, OneSigns
    <2>2. LinkHeld'
      BY SignedPaper DEF LinkHeld, LinkFree
    <2> QED
      BY <2>1, <2>2
  <1>4. \A l \in DOMAIN links :
           /\ links'[l].state = "live" => links[l].state = "live"
           /\ links'[l].state = "used" <=> links[l].state = "used"
    OBVIOUS
  <1>5. NewestOnly'
    BY <1>4 DEF NewestOnly
  <1>6. PapersMade' /\ DocumentsBelong'
    BY DEF PapersMade, DocumentsBelong
  <1>7. SignedOnce'
    <2>1. \A c : IsSigned(c)' <=> IsSigned(c)
      BY DEF IsSigned
    <2> QED
      BY <1>4, <2>1 DEF SignedOnce
  <1>8. \A l \in LiveLinks(Papers)' : l \in LiveLinks(Papers) /\ links'[l].paper = links[l].paper
    BY <1>4 DEF LiveLinks
  <1>9. OneInPlay'
    BY <1>8, DeadPapersAre DEF OneInPlay
  <1>10. NoneDead'
    <2> SUFFICES ASSUME NEW l \in LiveLinks(Papers)', NEW q \in Papers, q = links'[l].paper
                 PROVE  ~IsSigned(q)' /\ IsAlive(q)'
      BY DEF NoneDead
    <2>1. l \in LiveLinks(Papers) /\ q = links[l].paper
      BY <1>8
    <2>2. ~IsSigned(q)
      BY <2>1, DeadPapersAre DEF NoneDead
    <2> QED
      BY <2>1, <2>2 DEF IsSigned
  <1>11. DeadPapersHaveNoLink'
    BY <1>2, <1>9, <1>10, DeadPapersAre, PTL
  <1> QED
    BY <1>2, <1>3, <1>5, <1>6, <1>7, <1>11

\* Links cancelled meet what OfficeKeeps asks of them, if no signing holds one of them.
LEMMA CancelledInOffice ==
  ASSUME SigningIInv, NEW S, links' = Cancelled(S), \A l \in LiveLinks(S) : LinkFree(l)
  PROVE  /\ OnlyStops
         /\ \A l \in LiveLinks(Papers)' : l \in LiveLinks(Papers) /\ links[l].paper \notin S
  <1>1. /\ links' \in Seq(Link) /\ Len(links') = Len(links) /\ DOMAIN links' = DOMAIN links
        /\ \A l \in DOMAIN links :
              /\ links'[l].paper = links[l].paper
              /\ l \in LiveLinks(S) => links'[l].state = "cancelled"
              /\ l \notin LiveLinks(S) => links'[l] = links[l]
    BY CancelledAre
  <1>2. \A l \in LiveLinks(S) : links[l].state = "live"
    BY DEF LiveLinks
  <1>3. \A l \in LiveLinks(Papers)' : l \in LiveLinks(Papers) /\ links[l].paper \notin S
    BY <1>1 DEF LiveLinks
  <1>4. OnlyStops
    <2> SUFFICES ASSUME NEW l \in DOMAIN links
                 PROVE  \/ links'[l] = links[l]
                        \/ links[l].state = "live" /\ links'[l].state = "cancelled" /\ LinkFree(l)
      BY <1>1 DEF OnlyStops
    <2>1. CASE l \in LiveLinks(S)
      BY <1>1, <1>2, <2>1
    <2>2. CASE l \notin LiveLinks(S)
      BY <1>1, <2>2
    <2> QED
      BY <2>1, <2>2
  <1> QED
    BY <1>3, <1>4

LEMMA FreeRental == RentalFree => \A l : LinkFree(l)
  BY DEF RentalFree, LinkFree

\* A paper still alive, as far as the changes of terms and the rental go.
LEMMA StaysAlive ==
  ASSUME SigningIInv, NEW l \in LiveLinks(Papers), NEW q \in Papers, q = links[l].paper
  PROVE  IsAlive(q) /\ ~IsSigned(q) /\ (q \in Changes => Made(q))
  <1>1. l \in DOMAIN links
    BY DEF LiveLinks
  <1> QED
    BY <1>1, DeadPapersAre DEF SigningIInv, NoneDead, PapersMade

LEMMA LinksStopKeeps ==
  ASSUME SigningIInv, (\E p \in Papers : StopLink(p)) \/ EditDetails
  PROVE  SigningIInv'
  <1> USE DEF SigningIInv
  <1>1. /\ UNCHANGED <<rental, change, kind, documents, step, page, letter, withdrawing>>
        /\ edits' \in 0..MaxEdits
    <2>1. CASE EditDetails
      BY <2>1, SigningAssumption DEF EditDetails, SigningTypeOK
    <2>2. CASE \E p \in Papers : StopLink(p)
      BY <2>2 DEF StopLink, SigningTypeOK
    <2> QED
      BY <2>1, <2>2
  <1>2. /\ \A c \in Changes : Made(c)' <=> Made(c)
        /\ \A q : IsAlive(q)' <=> IsAlive(q)
    BY <1>1 DEF Made, IsAlive, IsReplaced, EndChanges
  <1>3. WithdrawalWaits' /\ EndsStand'
    BY <1>1 DEF WithdrawalWaits, EndsStand
  <1>4. /\ OnlyStops
        /\ \A l \in LiveLinks(Papers)' : l \in LiveLinks(Papers)
    <2>1. CASE links' = links
      BY <2>1 DEF LiveLinks, OnlyStops
    <2>2. ASSUME NEW p \in Papers, StopLink(p)
          PROVE  links' = Cancelled({p}) /\ \A l \in LiveLinks({p}) : LinkFree(l)
      BY <2>2 DEF StopLink
    <2> QED
      BY <2>1, <2>2, CancelledInOffice DEF EditDetails
  <1>5. \A l \in LiveLinks(Papers)', q \in Papers : q = links[l].paper => IsAlive(q)'
    BY <1>2, <1>4, StaysAlive
  <1> QED
    BY <1>1, <1>2, <1>3, <1>4, <1>5, OfficeKeeps DEF SigningTypeOK

\* A later end replaces the ends before it, and stops their links.
LEMMA ChangeEndKeeps ==
  ASSUME SigningIInv, NEW c \in Changes, ChangeRentalEnd(c)
  PROVE  SigningIInv'
  <1> USE DEF SigningIInv
  <1>1. /\ UNCHANGED <<rental, edits, kind, documents, step, page, letter, withdrawing>>
        /\ RentalFree /\ links' = Cancelled(EndChanges) /\ kind[c] = "end" /\ ~Made(c)
        /\ change' = [change EXCEPT ![c] = "applied"]
    BY DEF ChangeRentalEnd
  <1>2. /\ change' \in [Changes -> {"none", "waiting", "applied", "withdrawn"}]
        /\ change'[c] = "applied" /\ \A o \in Changes : o # c => change'[o] = change[o]
    BY <1>1 DEF SigningTypeOK
  <1>3. \A o \in Changes : Made(o)' <=> Made(o) \/ o = c
    BY <1>2 DEF Made
  <1>4. WithdrawalWaits' /\ EndsStand'
    <2>1. withdrawing # Nothing => withdrawing # c /\ withdrawing \in Changes
      BY <1>1 DEF WithdrawalWaits, Made, SigningTypeOK
    <2> QED
      BY <1>1, <1>2, <2>1 DEF WithdrawalWaits, EndsStand
  <1>5. /\ OnlyStops
        /\ \A l \in LiveLinks(Papers)' : l \in LiveLinks(Papers) /\ links[l].paper \notin EndChanges
    BY <1>1, FreeRental, CancelledInOffice
  <1>6. ASSUME NEW l \in LiveLinks(Papers)', NEW q \in Papers, q = links[l].paper
        PROVE  IsAlive(q)'
    <2>1. IsAlive(q) /\ (q \in Changes => Made(q)) /\ q \notin EndChanges
      BY <1>5, <1>6, StaysAlive
    <2>2. q \in Changes => kind[q] # "end" /\ q # c
      BY <1>1, <2>1 DEF EndChanges
    <2>3. q # Contract => q \in Changes
      BY DEF Papers
    <2>4. rental' = rental /\ kind' = kind /\ (q \in Changes => change'[q] = change[q])
      BY <1>1, <1>2, <2>2
    <2> QED
      BY <2>1, <2>2, <2>3, <2>4 DEF IsAlive, IsReplaced
  <1>7. \A o \in Changes : kind[o] = "rate" => (change'[o] = "applied" <=> change[o] = "applied")
    BY <1>1, <1>2
  <1> QED
    BY <1>1, <1>2, <1>3, <1>4, <1>5, <1>6, <1>7, OfficeKeeps DEF SigningTypeOK

\* A price proposed, its withdrawal begun and ended.
LEMMA RateStepsKeep ==
  ASSUME SigningIInv, (\E c \in Changes : ProposeRate(c) \/ BeginWithdrawal(c)) \/ EndWithdrawal
  PROVE  SigningIInv'
  <1> USE DEF SigningIInv
  <1>1. ASSUME NEW c \in Changes, NEW to \in {"waiting", "withdrawn"}, kind[c] = "rate",
               change' = [change EXCEPT ![c] = to], change[c] # "applied",
               UNCHANGED <<rental, edits, kind, documents, step, page, letter>>,
               withdrawing' \in Changes \cup {Nothing}, WithdrawalWaits',
               \/ links' = links /\ to = "waiting"
               \/ links' = Cancelled({c}) /\ \A l \in LiveLinks({c}) : LinkFree(l)
        PROVE  SigningIInv'
    <2>1. /\ change' \in [Changes -> {"none", "waiting", "applied", "withdrawn"}]
          /\ change'[c] = to /\ \A o \in Changes : o # c => change'[o] = change[o]
      BY <1>1 DEF SigningTypeOK
    <2>2. \A o \in Changes : Made(o)' <=> Made(o) \/ o = c
      BY <1>1, <2>1 DEF Made
    <2>3. EndChanges' = EndChanges /\ c \notin EndChanges
      BY <1>1, <2>2 DEF EndChanges
    <2>4. EndsStand'
      BY <1>1, <2>1 DEF EndsStand
    <2>5. /\ OnlyStops
          /\ \A l \in LiveLinks(Papers)' :
                l \in LiveLinks(Papers) /\ (links[l].paper = c => to = "waiting")
      <3>1. CASE links' = links /\ to = "waiting"
        BY <3>1 DEF LiveLinks, OnlyStops
      <3>2. CASE links' = Cancelled({c}) /\ \A l \in LiveLinks({c}) : LinkFree(l)
        BY <3>2, CancelledInOffice
      <3> QED
        BY <1>1, <3>1, <3>2
    <2>6. ASSUME NEW l \in LiveLinks(Papers)', NEW q \in Papers, q = links[l].paper
          PROVE  IsAlive(q)'
      <3>1. IsAlive(q) /\ (q = c => to = "waiting")
        BY <2>5, <2>6, StaysAlive
      <3>2. q # Contract => q \in Changes
        BY DEF Papers
      <3>3. q # Contract => change'[q] # "withdrawn"
        BY <2>1, <3>1, <3>2 DEF IsAlive
      <3>4. IsReplaced(q)' <=> IsReplaced(q)
        <4>1. \A o \in EndChanges : change'[o] = change[o]
          BY <2>1, <2>3 DEF EndChanges
        <4> QED
          BY <1>1, <2>3, <4>1 DEF IsReplaced
      <3> QED
        BY <1>1, <3>1, <3>3, <3>4 DEF IsAlive
    <2>7. \A o \in Changes : kind[o] = "rate" => (change'[o] = "applied" <=> change[o] = "applied")
      BY <1>1, <2>1
    <2> QED
      BY <1>1, <2>1, <2>2, <2>4, <2>5, <2>6, <2>7, OfficeKeeps DEF SigningTypeOK
  <1>2. ASSUME NEW c \in Changes, ProposeRate(c)
        PROVE  SigningIInv'
    <2>1. change' = [change EXCEPT ![c] = "waiting"] /\ kind[c] = "rate" /\ change[c] = "none"
      BY <1>2 DEF ProposeRate, Made
    <2>2. WithdrawalWaits'
      BY <1>2, <2>1 DEF WithdrawalWaits, ProposeRate, SigningTypeOK
    <2> QED
      BY <1>1, <1>2, <2>1, <2>2 DEF ProposeRate, SigningTypeOK
  <1>3. ASSUME NEW c \in Changes, BeginWithdrawal(c)
        PROVE  SigningIInv'
    <2>1. change[c] = "waiting" /\ change' = change /\ withdrawing' = c
      BY <1>3 DEF BeginWithdrawal
    <2>2. change' = [change EXCEPT ![c] = "waiting"] /\ kind[c] = "rate" /\ WithdrawalWaits'
      BY <2>1 DEF EndsStand, WithdrawalWaits, SigningTypeOK
    <2> QED
      BY <1>1, <1>3, <2>1, <2>2 DEF BeginWithdrawal
  <1>4. CASE EndWithdrawal
    <2>1. PICK c \in Changes : c = withdrawing
      BY <1>4 DEF EndWithdrawal, SigningTypeOK
    <2>2. change[c] = "waiting" /\ kind[c] = "rate"
      BY <1>4, <2>1 DEF EndWithdrawal, WithdrawalWaits, EndsStand
    <2>3. /\ change' = [change EXCEPT ![c] = "withdrawn"] /\ links' = Cancelled({c})
          /\ withdrawing' = Nothing /\ \A l \in LiveLinks({c}) : LinkFree(l)
          /\ UNCHANGED <<rental, edits, kind, documents, step, page, letter>>
      BY <1>4, <2>1 DEF EndWithdrawal
    <2>4. WithdrawalWaits'
      BY <2>3 DEF WithdrawalWaits
    <2> QED
      BY <1>1, <2>2, <2>3, <2>4
  <1> QED
    BY <1>2, <1>3, <1>4

\* A booking cancelled stops every link of the rental; the car that goes out or comes back, none.
LEMMA RentalStepsKeep ==
  ASSUME SigningIInv,
         CancelBooking \/ MoveRental("booked", "active") \/ MoveRental("active", "over")
  PROVE  SigningIInv'
  <1> USE DEF SigningIInv
  <1>1. /\ UNCHANGED <<edits, change, kind, documents, step, page, letter, withdrawing>>
        /\ rental' \in {"booked", "active", "over", "cancelled"} /\ RentalFree
    BY DEF CancelBooking, MoveRental
  <1>2. /\ \A c \in Changes : Made(c)' <=> Made(c)
        /\ \A q : IsReplaced(q)' <=> IsReplaced(q)
    BY <1>1 DEF Made, IsReplaced, EndChanges
  <1>3. WithdrawalWaits' /\ EndsStand'
    BY <1>1 DEF WithdrawalWaits, EndsStand
  <1>4. CASE CancelBooking
    <2>1. /\ OnlyStops
          /\ \A l \in LiveLinks(Papers)' : l \in LiveLinks(Papers) /\ links[l].paper \notin Papers
      BY <1>1, <1>4, FreeRental, CancelledInOffice DEF CancelBooking
    <2>2. \A l \in LiveLinks(Papers)' : FALSE
      BY <2>1 DEF LiveLinks
    <2> QED
      BY <1>1, <1>2, <1>3, <2>1, <2>2, OfficeKeeps DEF SigningTypeOK
  <1>5. CASE links' = links /\ rental' # "cancelled"
    <2>1. OnlyStops /\ \A l \in LiveLinks(Papers)' : l \in LiveLinks(Papers)
      BY <1>5 DEF LiveLinks, OnlyStops
    <2>2. \A l \in LiveLinks(Papers)', q \in Papers : q = links[l].paper => IsAlive(q)'
      BY <1>1, <1>2, <1>5, <2>1, StaysAlive DEF IsAlive
    <2> QED
      BY <1>1, <1>2, <1>3, <2>1, <2>2, OfficeKeeps DEF SigningTypeOK
  <1> QED
    BY <1>4, <1>5 DEF MoveRental

LEMMA FillPaperKeeps ==
  ASSUME SigningIInv, NEW u \in Senders, NEW paper \in Papers, FillPaper(u, paper)
  PROVE  SigningIInv'
  <1> USE DEF SigningIInv
  <1> DEFINE new == [paper |-> paper, text |-> TextOf(paper)]
  <1>1. UNCHANGED <<rental, edits, change, kind, links, documents, step, page, withdrawing>>
    BY DEF FillPaper
  <1>2. new \in [paper : Papers, text : Nat] /\ new.paper = paper
    BY TextIsANumber
  <1>3. /\ letter' = [letter EXCEPT ![u] = new] /\ (paper \in Changes => Made(paper))
        /\ letter \in [Senders -> [paper : Papers, text : Nat] \cup {Nothing}]
    BY DEF FillPaper, SigningTypeOK
  <1> HIDE DEF new
  <1>4. /\ letter' \in [Senders -> [paper : Papers, text : Nat] \cup {Nothing}]
        /\ letter'[u] = new /\ \A v \in Senders : v # u => letter'[v] = letter[v]
    BY <1>2, <1>3
  <1>5. SigningTypeOK'
    BY <1>1, <1>4 DEF SigningTypeOK
  <1>6. PapersMade'
    BY <1>1, <1>2, <1>3, <1>4 DEF PapersMade, Made
  <1>7. LinkFound' /\ OneSigns' /\ LinkHeld' /\ NewestOnly' /\ WithdrawalWaits' /\ EndsStand'
    BY <1>1 DEF LinkFound, OneSigns, LinkHeld, NewestOnly, WithdrawalWaits, EndsStand
  <1>8. DocumentsBelong' /\ SignedOnce' /\ DeadPapersHaveNoLink'
    BY <1>1 DEF DocumentsBelong, SignedOnce, DeadPapersHaveNoLink, LiveLinks, IsSigned, IsReplaced,
       EndChanges, Made
  <1> QED
    BY <1>1, <1>5, <1>6, <1>7, <1>8

\* A link is sent of an open paper only, and the paper's link before it stops.
LEMMA SendLinkKeeps ==
  ASSUME SigningIInv, NEW u \in Senders, SendLink(u)
  PROVE  SigningIInv'
  <1> USE DEF SigningIInv
  <1>1. letter[u] \in [paper : Papers, text : Nat] /\ letter[u] # Nothing
    BY DEF SendLink, SigningTypeOK
  <1>2. PICK paper \in Papers : paper = letter[u].paper
    BY <1>1
  <1>3. PICK text \in Nat : text = letter[u].text
    BY <1>1
  <1>4. paper \in Changes => Made(paper)
    BY <1>1, <1>2 DEF PapersMade
  <1>5. /\ UNCHANGED <<rental, edits, change, kind, documents, step, page, withdrawing>>
        /\ \A f \in Phones : step[f] \notin {"rental", "link"}
        /\ letter' = [letter EXCEPT ![u] = Nothing]
    BY DEF SendLink, RentalFree
  <1>6. /\ letter' \in [Senders -> [paper : Papers, text : Nat] \cup {Nothing}]
        /\ letter'[u] = Nothing /\ \A v \in Senders : v # u => letter'[v] = letter[v]
    BY <1>5 DEF SigningTypeOK
  <1>7. /\ \A c \in Changes : Made(c)' <=> Made(c)
        /\ \A q : (IsAlive(q)' <=> IsAlive(q)) /\ (IsSigned(q)' <=> IsSigned(q))
    BY <1>5 DEF Made, IsAlive, IsReplaced, EndChanges, IsSigned
  <1>8. OneSigns' /\ LinkHeld' /\ WithdrawalWaits' /\ EndsStand'
    BY <1>5 DEF OneSigns, LinkHeld, WithdrawalWaits, EndsStand
  <1>9. CASE links' = links
    <2>1. SigningTypeOK'
      BY <1>5, <1>6, <1>9 DEF SigningTypeOK
    <2>2. LinkFound' /\ NewestOnly' /\ DocumentsBelong'
      BY <1>5, <1>9 DEF LinkFound, NewestOnly, DocumentsBelong
    <2>3. PapersMade'
      BY <1>6, <1>7, <1>9 DEF PapersMade
    <2>4. SignedOnce' /\ DeadPapersHaveNoLink'
      BY <1>5, <1>9 DEF SignedOnce, DeadPapersHaveNoLink, LiveLinks, IsSigned, IsReplaced, EndChanges,
         Made
    <2> QED
      BY <1>8, <1>9, <2>1, <2>2, <2>3, <2>4
  <1>10. CASE links' # links
    <2> DEFINE new == [paper |-> paper, text |-> text, state |-> "live"]
               old == Cancelled({paper})
               n == Len(links) + 1
    <2>1. IsOpen(paper) /\ Len(links) < MaxLinks /\ links' = Append(old, new)
      BY <1>2, <1>3, <1>10 DEF SendLink, IsSendable
    <2>2. /\ old \in Seq(Link) /\ Len(old) = Len(links) /\ DOMAIN old = DOMAIN links
          /\ \A l \in DOMAIN links :
                /\ old[l].paper = links[l].paper
                /\ l \in LiveLinks({paper}) => old[l].state = "cancelled"
                /\ l \notin LiveLinks({paper}) => old[l] = links[l]
      BY CancelledAre
    <2>3. new \in Link /\ new.paper = paper /\ new.state = "live"
      BY DEF Link
    <2> HIDE DEF old, new
    <2>4. /\ links' \in Seq(Link) /\ Len(links') = n /\ DOMAIN links' = DOMAIN links \cup {n}
          /\ n \notin DOMAIN links /\ links'[n] = new /\ n \in Nat /\ n <= MaxLinks
          /\ DOMAIN links = 1..Len(links) /\ Len(links) \in Nat
          /\ \A l \in DOMAIN links : links'[l] = old[l]
      BY <2>1, <2>2, <2>3, LinksAre, SigningAssumption
    <2>5. \A l \in DOMAIN links :
             /\ links'[l].paper = links[l].paper
             /\ links'[l].state = "live" => links[l].state = "live" /\ links[l].paper # paper
             /\ links'[l].state = "used" <=> links[l].state = "used"
      <3>1. \A l \in LiveLinks({paper}) : links[l].state = "live"
        BY DEF LiveLinks
      <3>2. \A l \in DOMAIN links :
               links[l].state = "live" /\ links[l].paper = paper => l \in LiveLinks({paper})
        BY DEF LiveLinks
      <3> QED
        BY <2>2, <2>4, <3>1, <3>2
    <2>6. SigningTypeOK'
      <3>1. \A l \in DOMAIN links' : links'[l] \in Link
        BY <2>4, ElementOfSeq, LenProperties
      <3> QED
        BY <1>5, <1>6, <2>4, <3>1 DEF SigningTypeOK
    <2>7. LinkFound' /\ DocumentsBelong'
      BY <1>5, <2>4, <2>5 DEF LinkFound, DocumentsBelong
    <2>8. NewestOnly'
      <3> SUFFICES ASSUME NEW l \in DOMAIN links', NEW m \in DOMAIN links', l < m,
                          links'[l].paper = links'[m].paper
                   PROVE  links'[l].state # "live"
        BY DEF NewestOnly
      <3>1. l \in DOMAIN links
        BY <2>4
      <3>2. CASE m = n
        BY <2>3, <2>4, <2>5, <3>1, <3>2
      <3>3. CASE m # n
        BY <2>4, <2>5, <3>1, <3>3 DEF NewestOnly
      <3> QED
        BY <3>2, <3>3
    <2>9. PapersMade'
      BY <1>4, <1>6, <1>7, <2>3, <2>4, <2>5 DEF PapersMade
    <2>10. SignedOnce'
      <3>1. \A l \in DOMAIN links' :
               links'[l].state = "used" <=> [paper |-> links'[l].paper, link |-> l] \in documents
        <4>1. [paper |-> links'[n].paper, link |-> n] \notin documents
          BY <2>4 DEF DocumentsBelong
        <4> QED
          BY <2>3, <2>4, <2>5, <4>1 DEF SignedOnce
      <3> QED
        BY <1>5, <1>7, <3>1 DEF SignedOnce
    <2>11. \A l \in LiveLinks(Papers)' :
              \/ l = n /\ links'[l].paper = paper
              \/ l \in LiveLinks(Papers) /\ links'[l].paper = links[l].paper /\ links[l].paper # paper
      BY <2>3, <2>4, <2>5 DEF LiveLinks
    <2>12. OneInPlay'
      BY <2>11, DeadPapersAre DEF OneInPlay
    <2>13. ~IsSigned(paper) /\ IsAlive(paper)
      BY <2>1, SigningAssumption DEF IsOpen, IsContractSignable, ChangeSigningProblem, CanChangeEnd,
         IsAlive
    <2>14. NoneDead'
      BY <1>7, <2>11, <2>13, DeadPapersAre DEF NoneDead
    <2>15. DeadPapersHaveNoLink'
      BY <2>6, <2>12, <2>14, DeadPapersAre, PTL
    <2> QED
      BY <1>8, <2>4, <2>6, <2>7, <2>8, <2>9, <2>10, <2>15
  <1> QED
    BY <1>9, <1>10

----------------------------------------------------------------------------
(* Every step, and the theorems.                                           *)

LEMMA NextKeepsSigning == SigningIInv /\ [SigningNext]_signingVars => SigningIInv'
  <1> SUFFICES ASSUME SigningIInv, [SigningNext]_signingVars
               PROVE  SigningIInv'
    OBVIOUS
  <1>1. CASE UNCHANGED signingVars
    <2>1. LinkFound' /\ OneSigns' /\ LinkHeld'
      BY <1>1 DEF signingVars, SigningIInv, LinkFound, OneSigns, LinkHeld
    <2> QED
      BY <1>1, <2>1, PhoneStepKeeps DEF signingVars, SigningIInv, SigningTypeOK
  <1>2. CASE SigningNext
    BY <1>2, PhonesKeep, RecordSignedKeeps, FillPaperKeeps, SendLinkKeeps, LinksStopKeeps,
       ChangeEndKeeps, RateStepsKeep, RentalStepsKeep
       DEF SigningNext
  <1> QED
    BY <1>1, <1>2

(* The inductive invariant, of every run of the signing of a rental's      *)
(* papers (contracts/signing.ts, signing-links.ts, rental-changes.ts).     *)
THEOREM SigningInvariance == SigningSpec => []SigningIInv
  <1> QED
    BY InitSigningIInv, NextKeepsSigning, PTL DEF SigningSpec

(* A paper is signed once, over the link that was used for it, whatever    *)
(* phones sign, whatever links are sent and stopped, and whoever dies      *)
(* between the two locks (signing.ts recordSigned).                        *)
THEOREM PapersSignedOnce == SigningSpec => []SignedOnce
  <1>1. SigningIInv => SignedOnce
    BY DEF SigningIInv
  <1> QED
    BY <1>1, SigningInvariance, PTL

(* No link stays in play for a paper nobody may sign any more, and never   *)
(* two for one paper (signing-links.ts sendLinkFor, change-signing.ts).    *)
THEOREM DeadPapersNeverHaveALink == SigningSpec => []DeadPapersHaveNoLink
  <1>1. SigningIInv => DeadPapersHaveNoLink
    BY DEF SigningIInv
  <1> QED
    BY <1>1, SigningInvariance, PTL

\* Only a signing keeps a document.
LEMMA NothingElseSigns ==
  ASSUME SigningNext, documents' # documents
  PROVE  \E f \in Phones : RecordSigned(f)
  BY DEF SigningNext, LoadSigningView, SignContract, LockRental, LockLink, SigningDies, BreakDeadlock,
     FillPaper, SendLink, StopLink, ChangeRentalEnd, ProposeRate, BeginWithdrawal, EndWithdrawal,
     EditDetails, CancelBooking, MoveRental

LEMMA NextSignsOpen ==
  SigningIInv /\ [SigningNext]_signingVars =>
    [\A d \in documents' \ documents :
          /\ links[d.link].state = "live"
          /\ \A l \in DOMAIN links : l > d.link => links[l].paper # d.paper
          /\ d.paper = Contract => rental = "booked"
          /\ d.paper \in Changes => /\ rental \in {"booked", "active"}
                                    /\ change[d.paper] # "withdrawn"
                                    /\ kind[d.paper] = "end" => \A o \in EndChanges : o <= d.paper]_signingVars
  <1> SUFFICES ASSUME SigningIInv, SigningNext, NEW d \in documents' \ documents
               PROVE  /\ links[d.link].state = "live"
                      /\ \A l \in DOMAIN links : l > d.link => links[l].paper # d.paper
                      /\ d.paper = Contract => rental = "booked"
                      /\ d.paper \in Changes =>
                            /\ rental \in {"booked", "active"}
                            /\ change[d.paper] # "withdrawn"
                            /\ kind[d.paper] = "end" => \A o \in EndChanges : o <= d.paper
    OBVIOUS
  <1> USE DEF SigningIInv
  <1>1. PICK f \in Phones : RecordSigned(f)
    BY NothingElseSigns
  <1>2. PICK l \in DOMAIN links : l = page[f]
    BY <1>1, SignedPaper DEF RecordSigned
  <1>3. PICK paper \in Papers : paper = links[l].paper
    BY <1>1, <1>2, SignedPaper DEF RecordSigned
  <1>4. IsOpen(paper) /\ d = [paper |-> paper, link |-> l] /\ links[l].state = "live"
    BY <1>1, <1>2, <1>3, SignedPaper DEF RecordSigned
  <1>5. d.paper = paper /\ d.link = l
    BY <1>4
  <1>6. \A m \in DOMAIN links : m > l => links[m].paper # paper
    BY <1>3, <1>4, LinksAre DEF NewestOnly
  <1>7. paper = Contract => rental = "booked"
    BY <1>4 DEF IsOpen, IsContractSignable
  <1>8. ASSUME paper \in Changes
        PROVE  /\ rental \in {"booked", "active"} /\ change[paper] # "withdrawn"
               /\ kind[paper] = "end" => \A o \in EndChanges : o <= paper
    <2>1. /\ rental \in {"booked", "active"} /\ change[paper] # "withdrawn" /\ ~IsReplaced(paper)
      BY <1>4, <1>8, SigningAssumption DEF IsOpen, ChangeSigningProblem, CanChangeEnd
    <2>2. ASSUME kind[paper] = "end", NEW o \in EndChanges
          PROVE  o <= paper
      <3>1. o \in Changes /\ kind[o] = "end"
        BY DEF EndChanges
      <3>2. change[o] # "withdrawn"
        BY <3>1 DEF EndsStand
      <3>3. o \in Nat /\ paper \in Nat
        BY <1>8, <3>1, SigningAssumption
      <3> QED
        BY <2>1, <2>2, <3>2, <3>3 DEF IsReplaced
    <2> QED
      BY <2>1, <2>2
  <1> QED
    BY <1>4, <1>5, <1>6, <1>7, <1>8

(* Nothing is signed after the business stopped it: its link by sending    *)
(* another, by stopping it, by a later end or a cancelled booking; a price *)
(* by withdrawing it; a contract by handing over the car (signing.ts       *)
(* recordSigned, its rules again under its locks).                         *)
THEOREM StoppedStaysUnsigned == SigningSpec => StoppedIsUnsigned
  <1> QED
    BY SigningInvariance, NextSignsOpen, PTL DEF SigningSpec, StoppedIsUnsigned

-----------------------------------------------------------------------------
(* Renters. *)

IsUnsent(i) == image[i].purpose = "submitted" /\ image[i].submission = 0 /\ image[i].state = "used"
IsSentWith(i, s) == image[i].submission = s /\ image[i].state = "used"
IsScan(i) == image[i].purpose = "scan" /\ image[i].state = "used"

\* SentTogether, photo by photo.
OneWaits == \A s, t \in Waiting : s = t
EachSideSent ==
    \A s \in Waiting : \A side \in LICENCE_SIDES :
        \E i \in DOMAIN image : IsSentWith(i, s) /\ image[i].side = side
SentOnce ==
    \A s \in Waiting : \A i, j \in DOMAIN image :
        IsSentWith(i, s) /\ IsSentWith(j, s) /\ image[i].side = image[j].side => i = j
NoneLeftBehind ==
    \A s \in Waiting : \A i \in DOMAIN image : IsUnsent(i) => image[i].link # submission[s].link
UnsentOnce ==
    \A i, j \in DOMAIN image :
        /\ IsUnsent(i) /\ IsUnsent(j)
        /\ image[i].link = image[j].link /\ image[i].side = image[j].side
        => i = j
ScannedOnce ==
    \A i, j \in DOMAIN image : IsScan(i) /\ IsScan(j) /\ image[i].side = image[j].side => i = j

Together == OneWaits /\ EachSideSent /\ SentOnce /\ NoneLeftBehind /\ UnsentOnce /\ ScannedOnce

\* A photo with a submission was sent through that submission's link, and is no scan.
PhotosBelong ==
    \A i \in DOMAIN image :
        LET s == image[i].submission
        IN  s # 0 => image[i].purpose = "submitted" /\ image[i].link = submission[s].link

\* Of a retired Renter an image may still be asked for, but then no page is left to confirm it.
StaysBare ==
    retired => \A i \in DOMAIN image :
                  image[i].state = "pending" => formVisit = 0 /\ image[i].purpose = "submitted"

RentersIInv == RentersTypeOK /\ Together /\ PhotosBelong /\ RetiredIsBare /\ StaysBare

FormLink == [expires : 0 .. RentersHorizon + LinkDays, cancelled : Days \cup {NotYet}]
Image(n) == [purpose : {"submitted", "scan"}, link : 0 .. MaxFormLinks, side : LICENCE_SIDES,
             submission : 0 .. n, state : {"pending", "used", "binned"}]
Submission == [link : 1 .. MaxFormLinks, status : {"waiting", "approved", "sent_back", "removed"}]

----------------------------------------------------------------------------
(* Sequences rewritten in place, and appended to.                          *)

LEMMA Appended ==
  ASSUME NEW T, NEW s \in Seq(T), NEW e \in T
  PROVE  /\ Append(s, e) \in Seq(T) /\ Len(Append(s, e)) = Len(s) + 1
         /\ DOMAIN Append(s, e) = DOMAIN s \cup {Len(s) + 1}
         /\ DOMAIN s = 1..Len(s) /\ Len(s) \in Nat
         /\ Append(s, e)[Len(s) + 1] = e
         /\ \A i \in DOMAIN s : i # Len(s) + 1 /\ Append(s, e)[i] = s[i]
  OBVIOUS

LEMMA TypesAre ==
  ASSUME RentersTypeOK
  PROVE  /\ formLink \in Seq(FormLink) /\ image \in Seq(Image(Len(submission)))
         /\ submission \in Seq(Submission)
         /\ Len(formLink) \in Nat /\ DOMAIN formLink = 1..Len(formLink)
         /\ Len(image) \in Nat /\ DOMAIN image = 1..Len(image)
         /\ Len(submission) \in Nat /\ DOMAIN submission = 1..Len(submission)
         /\ \A k \in DOMAIN formLink : formLink[k] \in FormLink
         /\ \A i \in DOMAIN image : image[i] \in Image(Len(submission))
         /\ \A s \in DOMAIN submission : submission[s] \in Submission
  <1>1. /\ formLink \in Seq(FormLink) /\ image \in Seq(Image(Len(submission)))
        /\ submission \in Seq(Submission)
    BY DEF RentersTypeOK, FormLink, Image, Submission
  <1> QED
    BY <1>1, LenProperties, ElementOfSeq

\* With no more submissions than before the images are of their type still.
LEMMA ImagesRewritten ==
  ASSUME RentersTypeOK, NEW n \in Nat, NEW f, f = [i \in DOMAIN image |-> f[i]],
         \A i \in DOMAIN image : f[i] \in Image(n)
  PROVE  f \in Seq(Image(n)) /\ Len(f) = Len(image) /\ DOMAIN f = DOMAIN image
  <1>1. Len(image) \in Nat /\ DOMAIN image = 1..Len(image)
    BY TypesAre
  <1>2. f \in [1..Len(image) -> Image(n)]
    BY <1>1
  <1> QED
    BY <1>1, <1>2, Rewritten

----------------------------------------------------------------------------
(* One of each, counted.                                                   *)

LEMMA AtMostOne ==
  ASSUME NEW S, \A a, b \in S : a = b
  PROVE  Cardinality(S) <= 1 /\ (S # {} => Cardinality(S) = 1)
  <1>1. CASE S = {}
    BY <1>1, FS_EmptySet
  <1>2. CASE S # {}
    <2>1. PICK a \in S : TRUE
      BY <1>2
    <2>2. S = {a}
      BY <2>1
    <2>3. Cardinality(S) = 1
      BY <2>2, FS_Singleton
    <2> QED
      BY <2>3
  <1> QED
    BY <1>1, <1>2

LEMMA TogetherIsSentTogether == RentersTypeOK /\ Together => SentTogether
  <1> SUFFICES ASSUME RentersTypeOK, Together
               PROVE  SentTogether
    OBVIOUS
  <1> USE DEF Together
  <1>1. Cardinality(Waiting) <= 1
    BY AtMostOne DEF OneWaits
  <1>2. ASSUME NEW s \in Waiting, NEW side \in LICENCE_SIDES
        PROVE  Cardinality(OnSide(PhotosOf(s), side)) = 1
    <2>1. \A i, j \in OnSide(PhotosOf(s), side) : i = j
      BY DEF SentOnce, OnSide, PhotosOf, IsSentWith
    <2>2. OnSide(PhotosOf(s), side) # {}
      BY DEF EachSideSent, OnSide, PhotosOf, IsSentWith
    <2> QED
      BY <2>1, <2>2, AtMostOne
  <1>3. \A s \in Waiting : UnsentPhotos(submission[s].link) = {}
    BY DEF NoneLeftBehind, UnsentPhotos, IsUnsent
  <1>4. ASSUME NEW side \in LICENCE_SIDES
        PROVE  Cardinality(OnSide(ScansInUse, side)) <= 1
    <2>1. \A i, j \in OnSide(ScansInUse, side) : i = j
      BY DEF ScannedOnce, OnSide, ScansInUse, IsScan
    <2> QED
      BY <2>1, AtMostOne
  <1>5. ASSUME NEW side \in LICENCE_SIDES, NEW k \in DOMAIN formLink
        PROVE  Cardinality(OnSide(UnsentPhotos(k), side)) <= 1
    <2>1. \A i, j \in OnSide(UnsentPhotos(k), side) : i = j
      BY DEF UnsentOnce, OnSide, UnsentPhotos, IsUnsent
    <2> QED
      BY <2>1, AtMostOne
  <1> QED
    BY <1>1, <1>2, <1>3, <1>4, <1>5 DEF SentTogether

LEMMA InitRentersIInv == RentersInit => RentersIInv
  <1> SUFFICES ASSUME RentersInit
               PROVE  RentersIInv
    OBVIOUS
  <1> USE DEF RentersInit
  <1>1. Len(<<>>) = 0 /\ DOMAIN <<>> = {} /\ 0 \in Days /\ 0 \in 0..0 /\ 0 <= MaxFormLinks
    BY RentersAssumption DEF Days
  <1>2. \A T : <<>> \in Seq(T)
    BY EmptySeq
  <1>3. RentersTypeOK
    BY <1>1, <1>2 DEF RentersTypeOK
  <1>4. Together
    BY <1>1 DEF Together, Waiting, OneWaits, EachSideSent, SentOnce, NoneLeftBehind, UnsentOnce,
       ScannedOnce
  <1>5. PhotosBelong /\ RetiredIsBare /\ StaysBare
    BY <1>1 DEF PhotosBelong, RetiredIsBare, StaysBare
  <1> QED
    BY <1>3, <1>4, <1>5 DEF RentersIInv

----------------------------------------------------------------------------
(* Steps that touch no image and no submission.                            *)

\* The links cancelled are links, and none of them works.
LEMMA CancelledLinks ==
  ASSUME RentersTypeOK
  PROVE  /\ LinksCancelled \in Seq(FormLink) /\ Len(LinksCancelled) = Len(formLink)
         /\ DOMAIN LinksCancelled = DOMAIN formLink
         /\ \A k \in DOMAIN formLink : LinksCancelled[k].cancelled # NotYet
  <1>1. today \in Days /\ NotYet \notin Days
    BY RentersAssumption DEF RentersTypeOK, Days, NotYet
  <1>2. /\ LinksCancelled \in [1..Len(formLink) -> FormLink] /\ DOMAIN LinksCancelled = DOMAIN formLink
        /\ \A k \in DOMAIN formLink : LinksCancelled[k].cancelled # NotYet
    BY <1>1, TypesAre DEF LinksCancelled, FormLink
  <1> QED
    BY <1>2, TypesAre, Rewritten

\* What is left to show of such a step: no archived Renter has a link or a car, and a retired
\* one stays retired.
LEMMA NoImageKeeps ==
  ASSUME RentersIInv, UNCHANGED <<image, submission>>,
         today' \in Days, archivedRenter' \in BOOLEAN, retired' = retired,
         hire' \in {"none", "draft", "underway", "unsettled"},
         formLink' \in Seq(FormLink), Len(formLink') <= MaxFormLinks,
         formVisit' \in 0 .. Len(formLink'),
         archivedRenter' => hire' # "underway",
         archivedRenter' => \A k \in DOMAIN formLink' : ~IsFormLinkLive(k)',
         retired => archivedRenter' /\ hire' = "none" /\ formVisit' \in {0, formVisit}
  PROVE  RentersIInv'
  <1>1. RentersTypeOK'
    BY DEF RentersIInv, RentersTypeOK, FormLink
  <1>2. Together' /\ PhotosBelong'
    BY DEF RentersIInv, Together, OneWaits, EachSideSent, SentOnce, NoneLeftBehind, UnsentOnce,
       ScannedOnce, Waiting, IsUnsent, IsSentWith, IsScan, PhotosBelong
  <1>3. RetiredIsBare' /\ StaysBare'
    BY DEF RentersIInv, RetiredIsBare, StaysBare
  <1> QED
    BY <1>1, <1>2, <1>3 DEF RentersIInv

LEMMA LinkStepsKeep ==
  ASSUME RentersIInv,
         SendDetailsLink \/ CancelDetailsLink \/ UpdateEmail \/ ArchiveRenter
  PROVE  RentersIInv'
  <1> USE RentersAssumption DEF RentersIInv
  <1>1. LinksCancelled \in Seq(FormLink) /\ Len(LinksCancelled) = Len(formLink)
    BY CancelledLinks
  <1>2. \A k \in DOMAIN LinksCancelled : LinksCancelled[k].cancelled # NotYet
    BY CancelledLinks
  <1>3. Len(formLink) \in Nat /\ formVisit \in 0..Len(formLink) /\ today \in Days
    BY TypesAre DEF RentersTypeOK
  <1>4. CASE SendDetailsLink
    <2> DEFINE new == [expires |-> today + LinkDays, cancelled |-> NotYet]
    <2>1. new \in FormLink
      BY <1>3 DEF FormLink, Days
    <2> HIDE DEF new
    <2>2. formLink' = Append(LinksCancelled, new) /\ ~archivedRenter /\ ~retired
      BY <1>4 DEF SendDetailsLink, RetiredIsBare, new
    <2>3. formLink' \in Seq(FormLink) /\ Len(formLink') = Len(formLink) + 1
      BY <1>1, <2>1, <2>2, Appended
    <2>4. formVisit' \in 0 .. Len(formLink') /\ Len(formLink') <= MaxFormLinks
      BY <1>3, <1>4, <2>3 DEF SendDetailsLink
    <2> QED
      BY <1>4, <2>2, <2>3, <2>4, NoImageKeeps DEF SendDetailsLink, RentersTypeOK
  <1>5. CASE formLink' = LinksCancelled /\ ~SendDetailsLink
    <2>1. /\ UNCHANGED <<today, retired, hire, image, submission, formVisit>>
          /\ archivedRenter' \in BOOLEAN /\ (archivedRenter' => hire # "underway")
          /\ retired => archivedRenter'
      <3>1. CASE ArchiveRenter
        BY <3>1 DEF ArchiveRenter
      <3>2. CASE CancelDetailsLink
        BY <3>2 DEF CancelDetailsLink, RetiredIsBare, RentersTypeOK
      <3> QED
        BY <1>5, <3>1, <3>2 DEF UpdateEmail
    <2>2. \A k \in DOMAIN formLink' : ~IsFormLinkLive(k)'
      BY <1>2, <1>5 DEF IsFormLinkLive
    <2>3. /\ formVisit' \in 0..Len(formLink') /\ formLink' \in Seq(FormLink)
          /\ Len(formLink') <= MaxFormLinks
      BY <1>1, <1>3, <1>5, <2>1 DEF RentersTypeOK
    <2> QED
      BY <2>1, <2>2, <2>3, NoImageKeeps DEF RentersTypeOK, RetiredIsBare
  <1> QED
    BY <1>4, <1>5 DEF CancelDetailsLink, UpdateEmail, ArchiveRenter

\* A visit begins at a link that works, so of no archived Renter; and nothing else moves.
LEMMA PageAndHireKeep ==
  ASSUME RentersIInv,
         \/ \E k \in DOMAIN formLink : OpenLink(k)
         \/ AnsweredOnly \/ RestoreRenter \/ DraftRental \/ BookRental \/ EndRental \/ Settle
         \/ PassDay
  PROVE  RentersIInv'
  <1> USE DEF RentersIInv
  <1>1. /\ formLink' = formLink /\ retired' = retired /\ UNCHANGED <<image, submission>>
        /\ archivedRenter' \in BOOLEAN
    BY DEF OpenLink, AnsweredOnly, RestoreRenter, DraftRental, BookRental, EndRental, Settle,
       PassDay, RentersTypeOK
  <1>2. formLink \in Seq(FormLink) /\ Len(formLink) \in Nat /\ DOMAIN formLink = 1..Len(formLink)
    BY TypesAre
  <1>3. hire' \in {"none", "draft", "underway", "unsettled"}
    BY DEF OpenLink, AnsweredOnly, RestoreRenter, DraftRental, BookRental, EndRental, Settle,
       PassDay, RentersTypeOK
  <1>4. formVisit' \in 0 .. Len(formLink') /\ Len(formLink') <= MaxFormLinks
    BY <1>1, <1>2 DEF OpenLink, AnsweredOnly, RestoreRenter, DraftRental, BookRental, EndRental,
       Settle, PassDay, RentersTypeOK
  <1>5. today' \in Days /\ today' >= today /\ today \in Nat
    BY RentersAssumption DEF OpenLink, AnsweredOnly, RestoreRenter, DraftRental, BookRental,
       EndRental, Settle, PassDay, RentersTypeOK, Days
  <1>6. archivedRenter' => archivedRenter /\ hire' # "underway"
    BY DEF OpenLink, AnsweredOnly, RestoreRenter, DraftRental, BookRental, EndRental, Settle,
       PassDay, RetiredIsBare
  <1>7. archivedRenter => \A k \in DOMAIN formLink' : ~IsFormLinkLive(k)'
    <2> SUFFICES ASSUME archivedRenter, NEW k \in DOMAIN formLink
                 PROVE  ~(formLink[k].cancelled = NotYet /\ formLink[k].expires > today')
      BY <1>1 DEF IsFormLinkLive
    <2>1. formLink[k].expires \in Nat
      <3>1. formLink[k] \in FormLink
        BY TypesAre
      <3> QED
        BY <3>1, RentersAssumption DEF FormLink
    <2>2. ~IsFormLinkLive(k)
      BY DEF RetiredIsBare
    <2>3. today' \in Nat
      BY <1>5, RentersAssumption DEF Days
    <2>4. formLink[k].cancelled # NotYet \/ ~(formLink[k].expires > today)
      BY <2>2 DEF IsFormLinkLive
    <2> QED
      BY <1>5, <2>1, <2>3, <2>4
  <1>8. retired => archivedRenter' /\ hire' = "none" /\ formVisit' \in {0, formVisit}
    BY DEF OpenLink, AnsweredOnly, RestoreRenter, DraftRental, BookRental, EndRental, Settle,
       PassDay, RetiredIsBare
  <1> QED
    BY <1>1, <1>2, <1>3, <1>4, <1>5, <1>6, <1>7, <1>8, NoImageKeeps

----------------------------------------------------------------------------
(* Steps that touch images.                                                *)

\* Such a step leaves the Renter's record alone.
LEMMA ImageStepKeeps ==
  ASSUME RentersIInv, UNCHANGED <<today, archivedRenter, retired, hire, formLink>>,
         formVisit' \in {0, formVisit},
         image' \in Seq(Image(Len(submission'))), submission' \in Seq(Submission),
         Together', PhotosBelong',
         retired => /\ \A s \in DOMAIN submission' : submission'[s].status = "removed"
                    /\ \A i \in DOMAIN image' : image'[i].state # "used"
                    /\ \A i \in DOMAIN image' :
                          image'[i].state = "pending" => formVisit' = 0 /\ image'[i].purpose = "submitted"
  PROVE  RentersIInv'
  <1> USE DEF RentersIInv
  <1>1. Len(formLink) \in Nat
    BY TypesAre
  <1>2. formVisit' \in 0 .. Len(formLink')
    BY <1>1 DEF RentersTypeOK
  <1>3. RentersTypeOK'
    BY <1>2 DEF RentersTypeOK, FormLink, Image, Submission
  <1>4. RetiredIsBare' /\ StaysBare'
    BY DEF RetiredIsBare, StaysBare, IsFormLinkLive
  <1> QED
    BY <1>3, <1>4

LEMMA BinnedAre ==
  ASSUME RentersTypeOK, NEW S
  PROVE  /\ Binned(S) = [i \in DOMAIN image |-> Binned(S)[i]] /\ DOMAIN Binned(S) = DOMAIN image
         /\ \A i \in DOMAIN image :
               /\ Binned(S)[i] \in Image(Len(submission))
               /\ i \notin S => Binned(S)[i] = image[i]
               /\ Binned(S)[i].purpose = image[i].purpose /\ Binned(S)[i].link = image[i].link
               /\ Binned(S)[i].side = image[i].side
               /\ Binned(S)[i].submission = image[i].submission
               /\ i \in S => Binned(S)[i].state = "binned"
  <1>1. \A i \in DOMAIN image : image[i] \in Image(Len(submission))
    BY TypesAre
  <1> QED
    BY <1>1 DEF Binned, Image

\* The image confirmed is in use, those it replaces are not, and all else of them is the same.
LEMMA ClaimedAre ==
  ASSUME RentersTypeOK, NEW S, NEW j \in DOMAIN image
  PROVE  /\ Claimed(j, S) \in Seq(Image(Len(submission))) /\ DOMAIN Claimed(j, S) = DOMAIN image
         /\ \A i \in DOMAIN image :
               /\ Claimed(j, S)[i].purpose = image[i].purpose /\ Claimed(j, S)[i].link = image[i].link
               /\ Claimed(j, S)[i].side = image[i].side
               /\ Claimed(j, S)[i].submission = image[i].submission
               /\ i = j => Claimed(j, S)[i].state = "used"
               /\ i # j /\ i \in S => Claimed(j, S)[i].state = "binned"
               /\ i # j /\ i \notin S => Claimed(j, S)[i] = image[i]
  <1> DEFINE c == Claimed(j, S)
  <1>1. /\ c = [i \in DOMAIN image |-> c[i]] /\ DOMAIN c = DOMAIN image
        /\ \A i \in DOMAIN image : c[i] = IF i = j THEN [Binned(S)[i] EXCEPT !.state = "used"]
                                          ELSE Binned(S)[i]
    BY BinnedAre DEF Claimed
  <1> HIDE DEF c
  <1>2. \A i \in DOMAIN image : c[i] \in Image(Len(submission))
    BY <1>1, BinnedAre DEF Image
  <1>3. c \in Seq(Image(Len(submission)))
    BY <1>1, <1>2, TypesAre, ImagesRewritten
  <1>4. \A i \in DOMAIN image : Binned(S)[i] \in Image(Len(submission))
    BY BinnedAre
  <1>5. ASSUME NEW i \in DOMAIN image
        PROVE  /\ c[i].purpose = image[i].purpose /\ c[i].link = image[i].link
               /\ c[i].side = image[i].side /\ c[i].submission = image[i].submission
               /\ i = j => c[i].state = "used"
               /\ i # j /\ i \in S => c[i].state = "binned"
               /\ i # j /\ i \notin S => c[i] = image[i]
    <2>1. CASE i = j
      BY <1>1, <1>4, <2>1, BinnedAre DEF Image
    <2>2. CASE i # j
      BY <1>1, <2>2, BinnedAre
    <2> QED
      BY <2>1, <2>2
  <1> QED
    BY <1>1, <1>3, <1>5 DEF c

\* An upload asked for is no photo of anything yet.
LEMMA AskedForKeeps ==
  ASSUME RentersIInv, NEW e \in Image(Len(submission)), e.state = "pending", e.submission = 0,
         image' = Append(image, e),
         UNCHANGED <<today, archivedRenter, retired, hire, formLink, submission>>,
         formVisit' \in {0, formVisit},
         retired => formVisit' = 0 /\ e.purpose = "submitted"
  PROVE  RentersIInv'
  <1> USE DEF RentersIInv
  <1> DEFINE n == Len(image) + 1
  <1>1. /\ image' \in Seq(Image(Len(submission)))
        /\ DOMAIN image' = DOMAIN image \cup {n} /\ n \notin DOMAIN image
        /\ image'[n] = e /\ \A i \in DOMAIN image : image'[i] = image[i]
    <2>1. image \in Seq(Image(Len(submission)))
      BY TypesAre
    <2> QED
      BY <2>1, Appended
  <1> HIDE DEF n
  <1>2. \A i \in DOMAIN image' :
           image'[i].state # "pending" => i \in DOMAIN image /\ image'[i] = image[i]
    BY <1>1
  <1>3. Waiting' = Waiting
    BY DEF Waiting
  <1>4. Together'
    BY <1>1, <1>2, <1>3 DEF Together, OneWaits, EachSideSent, SentOnce, NoneLeftBehind, UnsentOnce,
       ScannedOnce, IsUnsent, IsSentWith, IsScan
  <1>5. PhotosBelong'
    BY <1>1 DEF PhotosBelong
  <1>6. retired => /\ \A s \in DOMAIN submission' : submission'[s].status = "removed"
                   /\ \A i \in DOMAIN image' : image'[i].state # "used"
                   /\ \A i \in DOMAIN image' :
                         image'[i].state = "pending" => formVisit' = 0 /\ image'[i].purpose = "submitted"
    BY <1>1 DEF RetiredIsBare, StaysBare
  <1> QED
    BY <1>1, <1>4, <1>5, <1>6, TypesAre, ImageStepKeeps

LEMMA UploadsKeep ==
  ASSUME RentersIInv, NEW side \in LICENCE_SIDES,
         StartLinkPhotoUpload(side) \/ StartLicenceScanUpload(side)
  PROVE  RentersIInv'
  <1> USE DEF RentersIInv
  <1>1. Len(submission) \in Nat /\ Len(formLink) \in Nat
    BY TypesAre
  <1>2. CASE StartLinkPhotoUpload(side)
    <2> DEFINE e == [purpose |-> "submitted", link |-> formVisit, side |-> side, submission |-> 0,
                     state |-> "pending"]
    <2>1. formVisit \in 0..MaxFormLinks
      BY <1>1, RentersAssumption DEF RentersTypeOK
    <2>2. e \in Image(Len(submission)) /\ e.state = "pending" /\ e.submission = 0
      BY <1>1, <2>1 DEF Image
    <2>3. image' = Append(image, e) /\ formVisit' = 0 /\ e.purpose = "submitted"
      BY <1>2 DEF StartLinkPhotoUpload
    <2> HIDE DEF e
    <2> QED
      BY <1>2, <2>2, <2>3, AskedForKeeps DEF StartLinkPhotoUpload
  <1>3. CASE StartLicenceScanUpload(side)
    <2> DEFINE e == [purpose |-> "scan", link |-> 0, side |-> side, submission |-> 0,
                     state |-> "pending"]
    <2>1. e \in Image(Len(submission)) /\ e.state = "pending" /\ e.submission = 0
      BY <1>1, RentersAssumption DEF Image
    <2>2. image' = Append(image, e) /\ ~retired
      BY <1>3 DEF StartLicenceScanUpload, RetiredIsBare
    <2> HIDE DEF e
    <2> QED
      BY <1>3, <2>1, <2>2, AskedForKeeps DEF StartLicenceScanUpload
  <1> QED
    BY <1>2, <1>3

\* A photo confirmed takes the place of the one of its side, and none waits for review.
LEMMA ConfirmLinkPhotoKeeps ==
  ASSUME RentersIInv, NEW i \in DOMAIN image, ConfirmLinkPhoto(i)
  PROVE  RentersIInv'
  <1> USE DEF RentersIInv
  <1> DEFINE S == OnSide(UnsentPhotos(image[i].link), image[i].side)
  <1>1. image' = Claimed(i, S) /\ Waiting = {} /\ image[i].purpose = "submitted"
    BY DEF ConfirmLinkPhoto, IsLinkAlreadySent
  <1>2. ~retired
    BY DEF ConfirmLinkPhoto, StaysBare
  <1>3. /\ image' \in Seq(Image(Len(submission))) /\ DOMAIN image' = DOMAIN image
        /\ \A j \in DOMAIN image :
              /\ image'[j].purpose = image[j].purpose /\ image'[j].link = image[j].link
              /\ image'[j].side = image[j].side /\ image'[j].submission = image[j].submission
              /\ j # i /\ j \in S => image'[j].state = "binned"
              /\ j # i /\ j \notin S => image'[j] = image[j]
    BY <1>1, ClaimedAre
  <1>4. Waiting' = {}
    BY <1>1 DEF Waiting, ConfirmLinkPhoto
  <1>5. UnsentOnce'
    <2> SUFFICES ASSUME NEW a \in DOMAIN image, NEW b \in DOMAIN image,
                        IsUnsent(a)', IsUnsent(b)',
                        image'[a].link = image'[b].link, image'[a].side = image'[b].side
                 PROVE  a = b
      BY <1>3 DEF UnsentOnce
    <2>1. /\ a # i => IsUnsent(a) /\ a \notin S
          /\ b # i => IsUnsent(b) /\ b \notin S
      BY <1>3 DEF IsUnsent
    <2>2. image[a].link = image[b].link /\ image[a].side = image[b].side
      BY <1>3
    <2>3. CASE a # i /\ b # i
      BY <2>1, <2>2, <2>3 DEF Together, UnsentOnce
    <2>4. ASSUME NEW c \in DOMAIN image, IsUnsent(c), image[c].link = image[i].link,
                 image[c].side = image[i].side
          PROVE  c \in S
      BY <2>4 DEF OnSide, UnsentPhotos, IsUnsent
    <2> QED
      BY <2>1, <2>2, <2>3, <2>4
  <1>6. ScannedOnce'
    BY <1>1, <1>3 DEF Together, ScannedOnce, IsScan
  <1>7. Together'
    BY <1>4, <1>5, <1>6 DEF Together, OneWaits, EachSideSent, SentOnce, NoneLeftBehind
  <1>8. PhotosBelong'
    BY <1>3 DEF PhotosBelong, ConfirmLinkPhoto
  <1> HIDE DEF S
  <1> QED
    BY <1>2, <1>3, <1>7, <1>8, TypesAre, ImageStepKeeps DEF ConfirmLinkPhoto

\* A scan confirmed takes the place of the one of its side; no sent photo is a scan.
LEMMA ConfirmLicenceScanKeeps ==
  ASSUME RentersIInv, NEW i \in DOMAIN image, ConfirmLicenceScan(i)
  PROVE  RentersIInv'
  <1> USE DEF RentersIInv
  <1> DEFINE S == OnSide(ScansInUse, image[i].side)
  <1>1. image' = Claimed(i, S) /\ Waiting' = Waiting /\ image[i].purpose = "scan"
    BY DEF ConfirmLicenceScan, Waiting
  <1>2. ~retired
    BY DEF ConfirmLicenceScan, StaysBare
  <1>3. /\ image' \in Seq(Image(Len(submission))) /\ DOMAIN image' = DOMAIN image
        /\ \A j \in DOMAIN image :
              /\ image'[j].purpose = image[j].purpose /\ image'[j].link = image[j].link
              /\ image'[j].side = image[j].side /\ image'[j].submission = image[j].submission
              /\ j # i /\ j \in S => image'[j].state = "binned"
              /\ j # i /\ j \notin S => image'[j] = image[j]
    BY <1>1, ClaimedAre
  <1>4. \A j \in DOMAIN image : j = i \/ j \in S => image[j].purpose = "scan"
    BY <1>1 DEF OnSide, ScansInUse
  <1>5. \A s \in Waiting : s # 0
    BY TypesAre DEF Waiting
  <1>6. \A j \in DOMAIN image :
           /\ IsUnsent(j)' <=> IsUnsent(j)
           /\ \A s \in Waiting : IsSentWith(j, s)' <=> IsSentWith(j, s)
    BY <1>3, <1>4, <1>5 DEF IsUnsent, IsSentWith, PhotosBelong
  <1>7. ScannedOnce'
    <2> SUFFICES ASSUME NEW a \in DOMAIN image, NEW b \in DOMAIN image,
                        IsScan(a)', IsScan(b)', image'[a].side = image'[b].side
                 PROVE  a = b
      BY <1>3 DEF ScannedOnce
    <2>1. /\ a # i => IsScan(a) /\ a \notin S
          /\ b # i => IsScan(b) /\ b \notin S
      BY <1>3 DEF IsScan
    <2>2. image[a].side = image[b].side
      BY <1>3
    <2>3. ASSUME NEW c \in DOMAIN image, IsScan(c), image[c].side = image[i].side
          PROVE  c \in S
      BY <2>3 DEF OnSide, ScansInUse, IsScan
    <2> QED
      BY <2>1, <2>2, <2>3 DEF Together, ScannedOnce
  <1> HIDE DEF S
  <1>8. OneWaits' /\ EachSideSent' /\ SentOnce' /\ NoneLeftBehind' /\ UnsentOnce'
    BY <1>1, <1>3, <1>6
       DEF Together, OneWaits, EachSideSent, SentOnce, NoneLeftBehind, UnsentOnce, ConfirmLicenceScan
  <1>9. PhotosBelong'
    BY <1>3 DEF PhotosBelong, ConfirmLicenceScan
  <1> QED
    BY <1>2, <1>3, <1>7, <1>8, <1>9, TypesAre, ImageStepKeeps DEF ConfirmLicenceScan, Together

\* Scans removed, by hand or when their time is over: no sent photo is one.
LEMMA ScansBinnedKeep ==
  ASSUME RentersIInv, NEW S \in SUBSET ScansInUse, image' = Binned(S),
         UNCHANGED <<today, archivedRenter, retired, hire, formLink, submission, formVisit>>
  PROVE  RentersIInv'
  <1> USE DEF RentersIInv
  <1>1. /\ image' = [j \in DOMAIN image |-> image'[j]] /\ DOMAIN image' = DOMAIN image
        /\ \A j \in DOMAIN image :
              /\ image'[j] \in Image(Len(submission))
              /\ image'[j].purpose = image[j].purpose /\ image'[j].link = image[j].link
              /\ image'[j].side = image[j].side /\ image'[j].submission = image[j].submission
              /\ j \in S => image'[j].state = "binned"
              /\ j \notin S => image'[j] = image[j]
    BY BinnedAre
  <1>2. image' \in Seq(Image(Len(submission)))
    BY <1>1, TypesAre, ImagesRewritten
  <1>3. Waiting' = Waiting /\ \A s \in Waiting : s # 0
    BY TypesAre DEF Waiting
  <1>4. \A j \in S : image[j].purpose = "scan"
    BY DEF ScansInUse
  <1>5. \A j \in DOMAIN image :
           /\ IsUnsent(j)' <=> IsUnsent(j)
           /\ IsScan(j)' => IsScan(j)
           /\ \A s \in Waiting : IsSentWith(j, s)' <=> IsSentWith(j, s)
    BY <1>1, <1>3, <1>4 DEF IsUnsent, IsSentWith, IsScan, PhotosBelong
  <1>6. Together'
    BY <1>1, <1>3, <1>5
       DEF Together, OneWaits, EachSideSent, SentOnce, NoneLeftBehind, UnsentOnce, ScannedOnce
  <1>7. PhotosBelong'
    BY <1>1 DEF PhotosBelong
  <1>8. retired => /\ \A s \in DOMAIN submission' : submission'[s].status = "removed"
                   /\ \A j \in DOMAIN image' : image'[j].state # "used"
                   /\ \A j \in DOMAIN image' :
                         image'[j].state = "pending" => formVisit' = 0 /\ image'[j].purpose = "submitted"
    BY <1>1 DEF RetiredIsBare, StaysBare
  <1> QED
    BY <1>2, <1>6, <1>7, <1>8, TypesAre, ImageStepKeeps

\* What is sent is one photo of each side, and all of the link's; of a retired Renter there are none.
LEMMA SubmitDetailsKeeps ==
  ASSUME RentersIInv, SubmitDetails
  PROVE  RentersIInv'
  <1> USE DEF RentersIInv
  <1> DEFINE unsent == UnsentPhotos(formVisit)
             new == [link |-> formVisit, status |-> "waiting"]
  <1>1. /\ Len(submission) \in Nat /\ DOMAIN submission = 1..Len(submission)
        /\ Len(formLink) \in Nat /\ submission \in Seq(Submission)
        /\ \A i \in DOMAIN image : image[i] \in Image(Len(submission))
    BY TypesAre
  <1>0. PICK n \in Nat : n = Len(submission) + 1
    BY <1>1
  <1>2. new \in Submission
    BY <1>1, RentersAssumption DEF SubmitDetails, RentersTypeOK, Submission
  <1> HIDE DEF new
  <1>3. /\ submission' \in Seq(Submission) /\ Len(submission') = n
        /\ DOMAIN submission' = DOMAIN submission \cup {n} /\ n \notin DOMAIN submission
        /\ submission'[n] = new /\ \A s \in DOMAIN submission : submission'[s] = submission[s]
    BY <1>0, <1>1, <1>2, Appended DEF SubmitDetails, new
  <1>4. submission'[n].link = formVisit /\ submission'[n].status = "waiting"
    BY <1>3 DEF new
  <1>5. Waiting' = {n}
    BY <1>3, <1>4 DEF SubmitDetails, Waiting
  <1>6. n # 0 /\ \A i \in DOMAIN image : image[i].submission # n /\ image[i].submission \in 0..n
    BY <1>0, <1>1 DEF Image
  <1>7. /\ image' = [i \in DOMAIN image |-> image'[i]] /\ DOMAIN image' = DOMAIN image
        /\ \A i \in DOMAIN image :
              image'[i] = IF i \in unsent THEN [image[i] EXCEPT !.submission = n] ELSE image[i]
    BY <1>0 DEF SubmitDetails
  <1>8. \A i \in DOMAIN image :
           /\ image'[i] \in Image(n)
           /\ image'[i].purpose = image[i].purpose /\ image'[i].link = image[i].link
           /\ image'[i].side = image[i].side /\ image'[i].state = image[i].state
           /\ i \in unsent => image'[i].submission = n
           /\ i \notin unsent => image'[i] = image[i]
    BY <1>1, <1>6, <1>7 DEF Image
  <1>9. \A i \in unsent : IsUnsent(i) /\ image[i].link = formVisit
    BY DEF UnsentPhotos, IsUnsent
  <1>10. \A i \in DOMAIN image : IsUnsent(i) /\ image[i].link = formVisit => i \in unsent
    BY DEF UnsentPhotos, IsUnsent
  <1>11. \A side \in LICENCE_SIDES : \E i \in unsent : image[i].side = side
    BY DEF SubmitDetails, OnSide
  <1>12. ~retired
    <2>1. \E i \in unsent : TRUE
      BY <1>11, RentersAssumption
    <2> QED
      BY <2>1 DEF UnsentPhotos, RetiredIsBare
  <1>13. unsent \subseteq DOMAIN image
    BY DEF UnsentPhotos
  <1> HIDE DEF unsent
  <1>14. image' \in Seq(Image(n))
    BY <1>6, <1>7, <1>8, ImagesRewritten
  <1>15. \A i \in DOMAIN image :
            /\ IsUnsent(i)' <=> IsUnsent(i) /\ i \notin unsent
            /\ IsScan(i)' <=> IsScan(i)
            /\ IsSentWith(i, n)' <=> i \in unsent
    BY <1>6, <1>8, <1>9 DEF IsUnsent, IsScan, IsSentWith
  <1>16. OneWaits' /\ NoneLeftBehind'
    BY <1>4, <1>5, <1>7, <1>8, <1>10, <1>15 DEF OneWaits, NoneLeftBehind
  <1>17. EachSideSent'
    BY <1>5, <1>7, <1>8, <1>11, <1>13, <1>15 DEF EachSideSent
  <1>18. SentOnce'
    BY <1>5, <1>7, <1>8, <1>9, <1>15 DEF Together, UnsentOnce, SentOnce
  <1>19. UnsentOnce' /\ ScannedOnce'
    BY <1>7, <1>8, <1>15 DEF Together, UnsentOnce, ScannedOnce
  <1>20. PhotosBelong'
    <2> SUFFICES ASSUME NEW i \in DOMAIN image, image'[i].submission # 0
                 PROVE  /\ image'[i].purpose = "submitted"
                        /\ image'[i].link = submission'[image'[i].submission].link
      BY <1>7 DEF PhotosBelong
    <2>1. CASE i \in unsent
      BY <1>4, <1>8, <1>9, <2>1 DEF IsUnsent
    <2>2. CASE i \notin unsent
      <3>1. image[i].submission \in DOMAIN submission
        BY <1>1, <1>8, <2>2 DEF Image
      <3> QED
        BY <1>3, <1>8, <2>2, <3>1 DEF PhotosBelong
    <2> QED
      BY <2>1, <2>2
  <1> QED
    BY <1>3, <1>12, <1>14, <1>16, <1>17, <1>18, <1>19, <1>20, ImageStepKeeps DEF SubmitDetails, Together

\* A review takes the only submission that waits.
LEMMA ReviewedAre ==
  ASSUME RentersTypeOK, OneWaits, NEW s \in Waiting, NEW status \in {"approved", "sent_back"},
         submission' = Reviewed(s, status)
  PROVE  /\ submission' \in Seq(Submission) /\ Len(submission') = Len(submission)
         /\ DOMAIN submission' = DOMAIN submission
         /\ \A t \in DOMAIN submission : submission'[t].link = submission[t].link
         /\ Waiting' = {}
  <1>1. /\ \A t \in DOMAIN submission : submission[t] \in Submission
        /\ Len(submission) \in Nat /\ DOMAIN submission = 1..Len(submission)
    BY TypesAre
  <1>2. /\ submission' \in [1..Len(submission) -> Submission]
        /\ \A t \in DOMAIN submission : submission'[t].link = submission[t].link
        /\ submission'[s].status = status
        /\ \A t \in DOMAIN submission : t # s => submission'[t] = submission[t]
    BY <1>1 DEF Reviewed, Submission, Waiting
  <1>3. submission' \in Seq(Submission) /\ Len(submission') = Len(submission)
        /\ DOMAIN submission' = DOMAIN submission
    BY <1>1, <1>2, Rewritten
  <1>4. Waiting' = {}
    BY <1>2, <1>3 DEF Waiting, OneWaits
  <1> QED
    BY <1>2, <1>3, <1>4

\* A photo adopted as a scan is the Renter's own.
Adopted(r) == [r EXCEPT !.purpose = "scan", !.link = 0, !.submission = 0]

LEMMA AdoptedIs ==
  ASSUME NEW n \in Nat, NEW r \in Image(n)
  PROVE  /\ Adopted(r) \in Image(n) /\ Adopted(r).side = r.side
         /\ Adopted(r).purpose = "scan" /\ Adopted(r).submission = 0
  <1> DEFINE a == [r EXCEPT !.purpose = "scan"]
             b == [a EXCEPT !.link = 0]
  <1>1. a \in Image(n) /\ a.side = r.side /\ a.purpose = "scan"
    BY DEF Image
  <1>2. Adopted(r) = [b EXCEPT !.submission = 0]
    BY DEF Adopted
  <1> HIDE DEF a
  <1>3. b \in Image(n) /\ b.side = r.side /\ b.purpose = "scan"
    BY <1>1, RentersAssumption DEF Image
  <1> HIDE DEF b
  <1> QED
    BY <1>2, <1>3 DEF Image

LEMMA ApproveKeeps ==
  ASSUME RentersIInv, NEW s \in DOMAIN submission, ApproveSubmission(s)
  PROVE  RentersIInv'
  <1> USE DEF RentersIInv
  <1> DEFINE photos == PhotosOf(s)
  <1>1. /\ s \in Waiting /\ ~archivedRenter /\ ~retired
        /\ UNCHANGED <<today, archivedRenter, retired, hire, formVisit>>
    BY DEF ApproveSubmission, RetiredIsBare
  <1>2. /\ submission' \in Seq(Submission) /\ Len(submission') = Len(submission)
        /\ DOMAIN submission' = DOMAIN submission
        /\ \A t \in DOMAIN submission : submission'[t].link = submission[t].link
        /\ Waiting' = {}
    BY <1>1, ReviewedAre DEF ApproveSubmission, Together
  <1>3. \A i \in DOMAIN image : i \in photos <=> IsSentWith(i, s)
    BY DEF PhotosOf, IsSentWith
  <1>4. photos # {} /\ photos \subseteq DOMAIN image
    BY <1>1, <1>3, RentersAssumption DEF Together, EachSideSent, PhotosOf
  <1>5. /\ image' = [i \in DOMAIN image |-> image'[i]] /\ DOMAIN image' = DOMAIN image
        /\ \A i \in DOMAIN image :
              /\ i \in photos => image'[i] = Adopted(image[i])
              /\ i \notin photos => image'[i] = Binned(ScansInUse)[i]
    BY <1>4 DEF ApproveSubmission, AdoptPhotosAsScans, Adopted
  <1>6. \A i \in DOMAIN image : image[i] \in Image(Len(submission)) /\ Len(submission) \in Nat
    BY TypesAre
  <1> HIDE DEF photos
  <1>7. \A i \in photos :
           /\ image'[i] \in Image(Len(submission)) /\ image'[i].side = image[i].side
           /\ image'[i].purpose = "scan" /\ image'[i].submission = 0
    <2> SUFFICES ASSUME NEW i \in photos
                 PROVE  /\ image'[i] \in Image(Len(submission)) /\ image'[i].side = image[i].side
                        /\ image'[i].purpose = "scan" /\ image'[i].submission = 0
      OBVIOUS
    <2>1. image'[i] = Adopted(image[i])
      BY <1>4, <1>5
    <2>2. image[i] \in Image(Len(submission)) /\ Len(submission) \in Nat
      BY <1>4, <1>6
    <2> QED
      BY <2>1, <2>2, AdoptedIs
  <1>8. \A i \in DOMAIN image \ photos :
           /\ image'[i] \in Image(Len(submission))
           /\ image'[i].purpose = image[i].purpose /\ image'[i].link = image[i].link
           /\ image'[i].side = image[i].side /\ image'[i].submission = image[i].submission
           /\ i \in ScansInUse => image'[i].state = "binned"
           /\ i \notin ScansInUse => image'[i] = image[i]
    <2> DEFINE bin == Binned(ScansInUse)
    <2>1. \A i \in DOMAIN image :
             /\ bin[i] \in Image(Len(submission))
             /\ i \notin ScansInUse => bin[i] = image[i]
             /\ bin[i].purpose = image[i].purpose /\ bin[i].link = image[i].link
             /\ bin[i].side = image[i].side /\ bin[i].submission = image[i].submission
             /\ i \in ScansInUse => bin[i].state = "binned"
      BY BinnedAre
    <2>2. \A i \in DOMAIN image \ photos : image'[i] = bin[i]
      BY <1>5
    <2> HIDE DEF bin
    <2> QED
      BY <2>1, <2>2
  <1>9. image' \in Seq(Image(Len(submission)))
    BY <1>5, <1>6, <1>7, <1>8, TypesAre, ImagesRewritten
  <1>10. \A i \in DOMAIN image :
            /\ IsUnsent(i)' => /\ IsUnsent(i) /\ image'[i].link = image[i].link
                               /\ image'[i].side = image[i].side
            /\ IsScan(i)' => i \in photos /\ image'[i].side = image[i].side
    BY <1>7, <1>8 DEF IsUnsent, IsScan, ScansInUse
  <1>11. UnsentOnce' /\ ScannedOnce'
    <2>1. ASSUME NEW a \in photos, NEW b \in photos, image[a].side = image[b].side
          PROVE  a = b
      <3>1. /\ a \in DOMAIN image /\ b \in DOMAIN image
            /\ IsSentWith(a, s) /\ IsSentWith(b, s)
        BY <1>3, <1>4
      <3> QED
        BY <1>1, <2>1, <3>1 DEF Together, SentOnce
    <2>2. ScannedOnce'
      <3> SUFFICES ASSUME NEW a \in DOMAIN image, NEW b \in DOMAIN image,
                          IsScan(a)', IsScan(b)', image'[a].side = image'[b].side
                   PROVE  a = b
        BY <1>5 DEF ScannedOnce
      <3>1. /\ a \in photos /\ image'[a].side = image[a].side
            /\ b \in photos /\ image'[b].side = image[b].side
        BY <1>10
      <3> QED
        BY <2>1, <3>1
    <2>3. UnsentOnce'
      BY <1>5, <1>10 DEF Together, UnsentOnce
    <2> QED
      BY <2>2, <2>3
  <1>12. Together'
    BY <1>2, <1>11 DEF Together, OneWaits, EachSideSent, SentOnce, NoneLeftBehind
  <1>13. PhotosBelong'
    <2> SUFFICES ASSUME NEW i \in DOMAIN image, image'[i].submission # 0
                 PROVE  /\ image'[i].purpose = "submitted"
                        /\ image'[i].link = submission'[image'[i].submission].link
      BY <1>5 DEF PhotosBelong
    <2>1. i \notin photos
      BY <1>7
    <2>2. image[i].submission \in DOMAIN submission
      BY <1>6, <1>8, <2>1, TypesAre DEF Image
    <2> QED
      BY <1>2, <1>8, <2>1, <2>2 DEF PhotosBelong
  <1>14. /\ formLink' \in Seq(FormLink) /\ Len(formLink') = Len(formLink)
    BY CancelledLinks DEF ApproveSubmission
  <1>15. RentersTypeOK'
    BY <1>1, <1>2, <1>9, <1>14 DEF RentersTypeOK, FormLink, Image, Submission
  <1>16. RetiredIsBare' /\ StaysBare'
    BY <1>1 DEF RetiredIsBare, StaysBare
  <1> QED
    BY <1>12, <1>13, <1>15, <1>16

\* Photos sent back join a link that has none unsent: they were all of the link's.
LEMMA SendBackKeeps ==
  ASSUME RentersIInv, NEW s \in DOMAIN submission, SendBackSubmission(s)
  PROVE  RentersIInv'
  <1> USE DEF RentersIInv
  <1>1. s \in Waiting /\ ~retired
    BY DEF SendBackSubmission, RetiredIsBare
  <1>2. /\ submission' \in Seq(Submission) /\ Len(submission') = Len(submission)
        /\ DOMAIN submission' = DOMAIN submission
        /\ \A t \in DOMAIN submission : submission'[t].link = submission[t].link
        /\ Waiting' = {}
    BY <1>1, ReviewedAre DEF SendBackSubmission, Together
  <1>3. s # 0
    BY TypesAre
  <1>4. /\ image' = [i \in DOMAIN image |-> image'[i]] /\ DOMAIN image' = DOMAIN image
        /\ \A i \in DOMAIN image :
              image'[i] = IF image[i].submission = s THEN [image[i] EXCEPT !.submission = 0] ELSE image[i]
    BY DEF SendBackSubmission
  <1>5. \A i \in DOMAIN image : image[i] \in Image(Len(submission)) /\ Len(submission) \in Nat
    BY TypesAre
  <1>6. \A i \in DOMAIN image :
           /\ image'[i] \in Image(Len(submission))
           /\ image'[i].purpose = image[i].purpose /\ image'[i].link = image[i].link
           /\ image'[i].side = image[i].side /\ image'[i].state = image[i].state
           /\ image[i].submission = s => image'[i].submission = 0
           /\ image[i].submission # s => image'[i] = image[i]
    BY <1>4, <1>5 DEF Image
  <1>7. image' \in Seq(Image(Len(submission)))
    BY <1>4, <1>5, <1>6, TypesAre, ImagesRewritten
  <1>8. \A i \in DOMAIN image :
           /\ IsUnsent(i)' => IsUnsent(i) \/ (IsSentWith(i, s) /\ image[i].link = submission[s].link)
           /\ IsScan(i)' => IsScan(i)
    BY <1>3, <1>6 DEF IsUnsent, IsSentWith, IsScan, PhotosBelong
  <1>9. UnsentOnce'
    <2> SUFFICES ASSUME NEW a \in DOMAIN image, NEW b \in DOMAIN image,
                        IsUnsent(a)', IsUnsent(b)',
                        image'[a].link = image'[b].link, image'[a].side = image'[b].side
                 PROVE  a = b
      BY <1>4 DEF UnsentOnce
    <2>1. image[a].link = image[b].link /\ image[a].side = image[b].side
      BY <1>6
    <2>2. \A i \in DOMAIN image : IsUnsent(i) => image[i].link # submission[s].link
      BY <1>1 DEF Together, NoneLeftBehind
    <2>3. (IsUnsent(a) /\ IsUnsent(b)) \/ (IsSentWith(a, s) /\ IsSentWith(b, s))
      BY <1>8, <2>1, <2>2
    <2> QED
      BY <1>1, <2>1, <2>3 DEF Together, UnsentOnce, SentOnce
  <1>10. ScannedOnce'
    BY <1>4, <1>6, <1>8 DEF Together, ScannedOnce
  <1>11. Together'
    BY <1>2, <1>9, <1>10 DEF Together, OneWaits, EachSideSent, SentOnce, NoneLeftBehind
  <1>12. PhotosBelong'
    <2> SUFFICES ASSUME NEW i \in DOMAIN image, image'[i].submission # 0
                 PROVE  /\ image'[i].purpose = "submitted"
                        /\ image'[i].link = submission'[image'[i].submission].link
      BY <1>4 DEF PhotosBelong
    <2>1. image'[i] = image[i] /\ image[i].submission \in DOMAIN submission
      BY <1>5, <1>6, TypesAre DEF Image
    <2> QED
      BY <1>2, <2>1 DEF PhotosBelong
  <1> QED
    BY <1>1, <1>2, <1>7, <1>11, <1>12, ImageStepKeeps DEF SendBackSubmission

\* A submission that still waits is of a link not yet cleaned up: all its photos stay.
LEMMA CleanUpKeeps ==
  ASSUME RentersIInv, CleanUp
  PROVE  RentersIInv'
  <1> USE DEF RentersIInv
  <1> DEFINE S == {i \in DOMAIN image : image[i].purpose = "submitted" /\ image[i].link \in EndedLinks}
             gone(s) == /\ submission[s].link \in EndedLinks
                        /\ \A i \in DOMAIN image : image'[i].submission # s
  <1>1. /\ \A i \in DOMAIN image : image[i] \in Image(Len(submission))
        /\ \A s \in DOMAIN submission : submission[s] \in Submission
        /\ Len(submission) \in Nat /\ DOMAIN submission = 1..Len(submission)
    BY TypesAre
  <1>2. /\ image' = [i \in DOMAIN image |-> image'[i]] /\ DOMAIN image' = DOMAIN image
        /\ \A i \in DOMAIN image :
              image'[i] = IF Binned(S)[i].purpose = "submitted" /\ Binned(S)[i].state = "binned"
                          THEN [Binned(S)[i] EXCEPT !.submission = 0] ELSE Binned(S)[i]
    BY DEF CleanUp
  <1>3. /\ DOMAIN submission' = DOMAIN submission
        /\ \A s \in DOMAIN submission :
              submission'[s] = IF gone(s) THEN [submission[s] EXCEPT !.status = "removed"]
                               ELSE submission[s]
    BY DEF CleanUp
  <1>4. \A i \in DOMAIN image :
           /\ Binned(S)[i] \in Image(Len(submission))
           /\ i \notin S => Binned(S)[i] = image[i]
           /\ Binned(S)[i].purpose = image[i].purpose /\ Binned(S)[i].link = image[i].link
           /\ Binned(S)[i].side = image[i].side /\ Binned(S)[i].submission = image[i].submission
           /\ i \in S => Binned(S)[i].state = "binned"
    BY BinnedAre
  <1>5. \A i \in S : image[i].purpose = "submitted" /\ image[i].link \in EndedLinks
    OBVIOUS
  <1>6. \A i \in DOMAIN image :
           image[i].purpose = "submitted" /\ image[i].link \in EndedLinks => i \in S
    OBVIOUS
  <1> HIDE DEF S
  <1>7. \A i \in DOMAIN image :
           /\ image'[i] \in Image(Len(submission))
           /\ image'[i].purpose = image[i].purpose /\ image'[i].link = image[i].link
           /\ image'[i].side = image[i].side
           /\ image'[i].submission \in {0, image[i].submission}
           /\ i \in S => image'[i].state = "binned" /\ image'[i].submission = 0
           /\ i \notin S => image'[i].state = image[i].state
           /\ i \notin S /\ (image[i].state # "binned" \/ image[i].purpose = "scan") => image'[i] = image[i]
    <2> SUFFICES ASSUME NEW i \in DOMAIN image
                 PROVE  /\ image'[i] \in Image(Len(submission))
                        /\ image'[i].purpose = image[i].purpose /\ image'[i].link = image[i].link
                        /\ image'[i].side = image[i].side
                        /\ image'[i].submission \in {0, image[i].submission}
                        /\ i \in S => image'[i].state = "binned" /\ image'[i].submission = 0
                        /\ i \notin S => image'[i].state = image[i].state
                        /\ i \notin S /\ (image[i].state # "binned" \/ image[i].purpose = "scan")
                             => image'[i] = image[i]
      OBVIOUS
    <2> DEFINE b == Binned(S)[i]
    <2>1. /\ b \in Image(Len(submission)) /\ (i \notin S => b = image[i])
          /\ b.purpose = image[i].purpose /\ b.link = image[i].link
          /\ b.side = image[i].side /\ b.submission = image[i].submission
          /\ i \in S => b.state = "binned"
      BY <1>4
    <2>2. image'[i] = IF b.purpose = "submitted" /\ b.state = "binned"
                      THEN [b EXCEPT !.submission = 0] ELSE b
      BY <1>2
    <2>3. image[i] \in Image(Len(submission)) /\ Len(submission) \in Nat
      BY <1>1
    <2> HIDE DEF b
    <2> QED
      BY <1>5, <2>1, <2>2, <2>3 DEF Image
  <1>8. image' \in Seq(Image(Len(submission)))
    BY <1>1, <1>2, <1>7, TypesAre, ImagesRewritten
  <1>9. /\ submission' \in Seq(Submission) /\ Len(submission') = Len(submission)
        /\ \A s \in DOMAIN submission :
              /\ submission'[s].link = submission[s].link
              /\ gone(s) => submission'[s].status = "removed"
              /\ ~gone(s) => submission'[s] = submission[s]
    <2>1. \A s \in DOMAIN submission :
             /\ submission'[s] \in Submission /\ submission'[s].link = submission[s].link
             /\ gone(s) => submission'[s].status = "removed"
             /\ ~gone(s) => submission'[s] = submission[s]
      <3> HIDE DEF gone
      <3> QED
        BY <1>1, <1>3 DEF Submission
    <2>2. submission' = [s \in DOMAIN submission |-> submission'[s]]
      BY DEF CleanUp
    <2>3. submission' \in [1..Len(submission) -> Submission]
      BY <1>1, <2>1, <2>2
    <2> QED
      BY <1>1, <2>1, <2>3, Rewritten
  <1>10. \A s \in Waiting' : s \in Waiting /\ ~gone(s) /\ s # 0 /\ submission'[s] = submission[s]
    <2> SUFFICES ASSUME NEW s \in Waiting'
                 PROVE  s \in Waiting /\ ~gone(s) /\ s # 0 /\ submission'[s] = submission[s]
      OBVIOUS
    <2> HIDE DEF gone
    <2>1. s \in DOMAIN submission /\ submission'[s].status = "waiting"
      BY <1>3 DEF Waiting
    <2> QED
      BY <1>1, <1>9, <2>1 DEF Waiting
  <1>11. \A s \in Waiting' : submission[s].link \notin EndedLinks
    <2> SUFFICES ASSUME NEW s \in Waiting', submission[s].link \in EndedLinks
                 PROVE  FALSE
      OBVIOUS
    <2>1. PICK i \in DOMAIN image : image'[i].submission = s
      BY <1>10
    <2>2. image[i].submission = s /\ s # 0 /\ i \notin S
      BY <1>7, <1>10, <2>1
    <2>3. image[i].purpose = "submitted" /\ image[i].link = submission[s].link
      BY <2>2 DEF PhotosBelong
    <2> QED
      BY <1>6, <2>2, <2>3
  <1> HIDE DEF gone
  <1>12. \A s \in Waiting' : \A i \in DOMAIN image : IsSentWith(i, s)' <=> IsSentWith(i, s)
    <2> SUFFICES ASSUME NEW s \in Waiting', NEW i \in DOMAIN image
                 PROVE  image'[i].submission = s /\ image'[i].state = "used"
                          <=> image[i].submission = s /\ image[i].state = "used"
      BY DEF IsSentWith
    <2>1. s # 0 /\ submission[s].link \notin EndedLinks
      BY <1>10, <1>11
    <2>2. image[i].submission = s => i \notin S
      BY <1>5, <2>1 DEF PhotosBelong
    <2> QED
      BY <1>7, <2>1, <2>2
  <1>13. \A i \in DOMAIN image : (IsUnsent(i)' => IsUnsent(i)) /\ (IsScan(i)' <=> IsScan(i))
    BY <1>5, <1>7 DEF IsUnsent, IsScan
  <1>14. OneWaits' /\ EachSideSent' /\ SentOnce'
    <2>1. OneWaits'
      BY <1>10 DEF Together, OneWaits
    <2>2. EachSideSent'
      BY <1>2, <1>7, <1>10, <1>12 DEF Together, EachSideSent
    <2>3. SentOnce'
      BY <1>2, <1>7, <1>10, <1>12 DEF Together, SentOnce
    <2> QED
      BY <2>1, <2>2, <2>3
  <1>15. NoneLeftBehind' /\ UnsentOnce' /\ ScannedOnce'
    <2>1. NoneLeftBehind'
      BY <1>2, <1>7, <1>10, <1>13 DEF Together, NoneLeftBehind
    <2>2. UnsentOnce' /\ ScannedOnce'
      BY <1>2, <1>7, <1>13 DEF Together, UnsentOnce, ScannedOnce
    <2> QED
      BY <2>1, <2>2
  <1>16. PhotosBelong'
    <2> SUFFICES ASSUME NEW i \in DOMAIN image, image'[i].submission # 0
                 PROVE  /\ image'[i].purpose = "submitted"
                        /\ image'[i].link = submission'[image'[i].submission].link
      BY <1>2 DEF PhotosBelong
    <2>1. image'[i].submission = image[i].submission /\ image[i].submission \in DOMAIN submission
      BY <1>1, <1>7 DEF Image
    <2> QED
      BY <1>7, <1>9, <2>1 DEF PhotosBelong
  <1>17. retired => /\ \A s \in DOMAIN submission' : submission'[s].status = "removed"
                    /\ \A i \in DOMAIN image' : image'[i].state # "used"
                    /\ \A i \in DOMAIN image' :
                          image'[i].state = "pending" => formVisit' = 0 /\ image'[i].purpose = "submitted"
    <2> SUFFICES ASSUME retired
                 PROVE  /\ \A s \in DOMAIN submission' : submission'[s].status = "removed"
                        /\ \A i \in DOMAIN image' : image'[i].state # "used"
                        /\ \A i \in DOMAIN image' :
                              image'[i].state = "pending"
                                => formVisit' = 0 /\ image'[i].purpose = "submitted"
      OBVIOUS
    <2>1. \A s \in DOMAIN submission' : submission'[s].status = "removed"
      BY <1>3, <1>9 DEF RetiredIsBare
    <2>2. ASSUME NEW i \in DOMAIN image
          PROVE  image'[i].state # "used"
      <3>1. image[i].state # "used"
        BY DEF RetiredIsBare
      <3>2. image'[i].state = "binned" \/ image'[i].state = image[i].state
        BY <1>7
      <3> QED
        BY <3>1, <3>2
    <2>3. ASSUME NEW i \in DOMAIN image, image'[i].state = "pending"
          PROVE  formVisit' = 0 /\ image'[i].purpose = "submitted"
      <3>1. image[i].state = "pending" /\ image'[i].purpose = image[i].purpose
        BY <1>7, <2>3
      <3>2. formVisit' = formVisit
        BY DEF CleanUp
      <3> QED
        BY <3>1, <3>2 DEF StaysBare
    <2> QED
      BY <1>2, <2>1, <2>2, <2>3
  <1> QED
    BY <1>8, <1>9, <1>14, <1>15, <1>16, <1>17, ImageStepKeeps DEF CleanUp, Together

\* Nothing of a Renter retired is left in use, nor asked for.
LEMMA RetireKeeps ==
  ASSUME RentersIInv, RetireRenter
  PROVE  RentersIInv'
  <1> USE DEF RentersIInv
  <1>1. /\ \A i \in DOMAIN image : image[i] \in Image(Len(submission))
        /\ \A s \in DOMAIN submission : submission[s] \in Submission
        /\ Len(submission) \in Nat /\ DOMAIN submission = 1..Len(submission)
    BY TypesAre
  <1>2. /\ image' = [i \in DOMAIN image |-> image'[i]] /\ DOMAIN image' = DOMAIN image
        /\ \A i \in DOMAIN image : image'[i] = [Binned(TheirFiles)[i] EXCEPT !.submission = 0]
    BY DEF RetireRenter
  <1>3. \A i \in DOMAIN image :
           Binned(TheirFiles)[i] \in Image(Len(submission)) /\ Binned(TheirFiles)[i].state = "binned"
    BY BinnedAre DEF TheirFiles
  <1>4. \A i \in DOMAIN image :
           /\ image'[i] \in Image(Len(submission))
           /\ image'[i].state = "binned" /\ image'[i].submission = 0
    <2> SUFFICES ASSUME NEW i \in DOMAIN image
                 PROVE  /\ image'[i] \in Image(Len(submission))
                        /\ image'[i].state = "binned" /\ image'[i].submission = 0
      OBVIOUS
    <2> DEFINE b == Binned(TheirFiles)[i]
    <2>1. image'[i] = [b EXCEPT !.submission = 0]
      BY <1>2
    <2>2. b \in Image(Len(submission)) /\ b.state = "binned"
      BY <1>3
    <2> HIDE DEF b
    <2> QED
      BY <1>1, <2>1, <2>2 DEF Image
  <1>5. image' \in Seq(Image(Len(submission)))
    BY <1>1, <1>2, <1>4, TypesAre, ImagesRewritten
  <1>6. /\ submission' = [s \in DOMAIN submission |-> submission'[s]]
        /\ \A s \in DOMAIN submission :
              submission'[s] \in Submission /\ submission'[s].status = "removed"
    BY <1>1 DEF RetireRenter, Submission
  <1>7. /\ submission' \in Seq(Submission) /\ Len(submission') = Len(submission)
        /\ DOMAIN submission' = DOMAIN submission
    <2>1. submission' \in [1..Len(submission) -> Submission]
      BY <1>1, <1>6
    <2> QED
      BY <1>1, <2>1, Rewritten
  <1>8. Waiting' = {}
    BY <1>6, <1>7 DEF Waiting
  <1>9. Together'
    BY <1>2, <1>4, <1>8 DEF Together, OneWaits, EachSideSent, SentOnce, NoneLeftBehind, UnsentOnce,
       ScannedOnce, IsUnsent, IsScan
  <1>10. PhotosBelong'
    BY <1>2, <1>4 DEF PhotosBelong
  <1>11. /\ formLink' \in Seq(FormLink) /\ Len(formLink') = Len(formLink)
         /\ DOMAIN formLink' = DOMAIN formLink
         /\ \A k \in DOMAIN formLink : formLink'[k].cancelled # NotYet
    BY CancelledLinks DEF RetireRenter
  <1>12. RentersTypeOK'
    BY <1>5, <1>7, <1>11 DEF RetireRenter, RentersTypeOK, FormLink, Image, Submission
  <1>13. RetiredIsBare' /\ StaysBare'
    BY <1>2, <1>4, <1>6, <1>7, <1>11 DEF RetireRenter, RetiredIsBare, StaysBare, IsFormLinkLive
  <1> QED
    BY <1>9, <1>10, <1>12, <1>13

----------------------------------------------------------------------------
(* Every step, and the theorems.                                           *)

LEMMA NextKeepsRenters == RentersIInv /\ [RentersNext]_rentersVars => RentersIInv'
  <1> SUFFICES ASSUME RentersIInv, [RentersNext]_rentersVars
               PROVE  RentersIInv'
    OBVIOUS
  <1>1. CASE UNCHANGED rentersVars
    BY <1>1 DEF rentersVars, RentersIInv, RentersTypeOK, Together, PhotosBelong, RetiredIsBare, StaysBare,
       OneWaits, EachSideSent, SentOnce, NoneLeftBehind, UnsentOnce, ScannedOnce, Waiting, IsUnsent,
       IsSentWith, IsScan, IsFormLinkLive
  <1>2. CASE FromLink
    BY <1>2, PageAndHireKeep, UploadsKeep, ConfirmLinkPhotoKeeps, SubmitDetailsKeeps DEF FromLink
  <1>3. CASE FromOperator
    <2>1. ASSUME NEW i \in DOMAIN image, RemoveLicenceScan(i)
          PROVE  RentersIInv'
      BY <2>1, ScansBinnedKeep DEF RemoveLicenceScan
    <2> QED
      BY <1>3, <2>1, LinkStepsKeep, PageAndHireKeep, ApproveKeeps, SendBackKeeps, UploadsKeep,
         ConfirmLicenceScanKeeps
         DEF FromOperator
  <1>4. CASE AtNight
    <2>1. CASE BinExpiredScans
      <3>1. PICK due \in SUBSET ScansInUse : image' = Binned(due)
        BY <2>1 DEF BinExpiredScans
      <3> QED
        BY <2>1, <3>1, ScansBinnedKeep DEF BinExpiredScans
    <2> QED
      BY <1>4, <2>1, CleanUpKeeps, RetireKeeps, PageAndHireKeep DEF AtNight
  <1> QED
    BY <1>1, <1>2, <1>3, <1>4 DEF RentersNext

(* The inductive invariant holds of every run of a Renter's links, photos, *)
(* details, reviews, rentals and nightly runs (submissions.ts, reviews.ts, *)
(* stored-files.ts claimConfirmed, 0047_renter_retention.sql).             *)
THEOREM RentersInvariance == RentersSpec => []RentersIInv
  <1> QED
    BY InitRentersIInv, NextKeepsRenters, PTL DEF RentersSpec

(* What waits for review always is one submission with one photo of each   *)
(* side and none left behind (submissions.ts submitDetails, reviews.ts).   *)
THEOREM AlwaysSentTogether == RentersSpec => []SentTogether
  <1>1. RentersIInv => SentTogether
    BY TogetherIsSentTogether DEF RentersIInv
  <1> QED
    BY <1>1, RentersInvariance, PTL

(* An archived Renter never has a link that works or a car, and a retired  *)
(* one stays bare of photos and submissions (renter-records.ts             *)
(* setRenterArchived, 0047_renter_retention.sql retire_renter).            *)
THEOREM RetiredStaysBare == RentersSpec => []RetiredIsBare
  <1>1. RentersIInv => RetiredIsBare
    BY DEF RentersIInv
  <1> QED
    BY <1>1, RentersInvariance, PTL

-----------------------------------------------------------------------------
(* The four parts, run side by side in MCBooks: what is proved of each holds there. *)

\* A behaviour of MCBooks is one of each part, which may stand still.
LEMMA PartsRun == PartSpec => Spec /\ RentSpec /\ SigningSpec /\ RentersSpec
  <1>1. PartInit => Init /\ RentInit /\ SigningInit /\ RentersInit
    BY DEF PartInit
  <1>2. [PartNext]_partVars => /\ [Next]_vars /\ [RentNext]_rentVars
                               /\ [SigningNext]_signingVars /\ [RentersNext]_rentersVars
    <2> SUFFICES ASSUME [PartNext]_partVars
                 PROVE  /\ [Next]_vars /\ [RentNext]_rentVars
                        /\ [SigningNext]_signingVars /\ [RentersNext]_rentersVars
      OBVIOUS
    <2>1. CASE PartNext
      BY <2>1 DEF PartNext
    <2>2. CASE UNCHANGED partVars
      BY <2>2 DEF partVars
    <2> QED
      BY <2>1, <2>2
  <1> QED
    BY <1>1, <1>2, PTL DEF PartSpec, Spec, RentSpec, SigningSpec, RentersSpec

\* Every variable of the four parts keeps its type, for any instance of them.
THEOREM BooksTypesHold == PartSpec => []BooksTypeOK
  <1>1. IInv /\ RentInv /\ SigningIInv /\ RentersIInv => BooksTypeOK
    BY DEF IInv, RentInv, SigningIInv, RentersIInv, BooksTypeOK
  <1> QED
    BY <1>1, PartsRun, Invariance, RentInvariance, SigningInvariance, RentersInvariance, PTL

\* Whenever the nightly run comes, it brings the rental to what its blocks cost, and the page
\* names the rent it will charge next, in any instance of the four parts: RentAlwaysRight, for
\* the formula MCBooks checks.
THEOREM RunsAlwaysRight == PartSpec => []RentRight
  <1>1. RentIsRight => RentRight
    BY DEF RentRight
  <1> QED
    BY <1>1, PartsRun, RentAlwaysRight, PTL
=============================================================================
