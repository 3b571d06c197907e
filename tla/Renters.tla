------------------------------ MODULE Renters ------------------------------
(***************************************************************************)
(* One Renter's details links, the licence photos and details sent through *)
(* them, their review, and how all of it is kept and removed               *)
(* (apps/web/src/lib/renter-links, renters).  A request from a link looks  *)
(* the link up in a transaction of its own, and acts in another: the link  *)
(* may end in between.  Everything else is one transaction that holds the  *)
(* Renter, the submission or the link, so requests of a page go one at a   *)
(* time.  Time is counted in days.                                         *)
(***************************************************************************)
EXTENDS Naturals, Integers, Sequences, FiniteSets

CONSTANTS
    LICENCE_SIDES,    \* front and back
    LinkDays,         \* how long a details link lasts
    SubmissionKept,   \* SUBMISSION_KEPT_DAYS
    MaxFormLinks,     \* bound: details links sent
    MaxImages,        \* bound: licence images asked for
    MaxSubmissions,   \* bound: submissions made
    RentersHorizon    \* bound: the last day

ASSUME RentersAssumption ==
    /\ LICENCE_SIDES # {}
    /\ LinkDays \in Nat \ {0} /\ SubmissionKept \in Nat
    /\ MaxFormLinks \in Nat /\ MaxImages \in Nat /\ MaxSubmissions \in Nat
    /\ RentersHorizon \in Nat

NotYet == -1

VARIABLES
    today,
    archivedRenter,   \* renters.archived_at is set
    retired,          \* renters.retired_at is set
    hire,             \* where the Renter's newest rental is, money and damage settled last
    formLink,         \* renter_links: the details links, oldest first
    image,            \* files: the photos sent and the licence scans, oldest first
    submission,       \* renter_submissions, oldest first
    formVisit         \* the link a request from a page has looked up, or 0

rentersVars == <<today, archivedRenter, retired, hire, formLink, image, submission, formVisit>>

Days == 0 .. RentersHorizon

RentersTypeOK ==
    /\ today \in Days
    /\ archivedRenter \in BOOLEAN /\ retired \in BOOLEAN
    /\ hire \in {"none", "draft", "underway", "unsettled"}
    /\ formLink \in Seq([expires : 0 .. RentersHorizon + LinkDays, cancelled : Days \cup {NotYet}])
    /\ image \in Seq([purpose : {"submitted", "scan"}, link : 0 .. MaxFormLinks,
                      side : LICENCE_SIDES, submission : 0 .. Len(submission),
                      state : {"pending", "used", "binned"}])
    /\ submission \in Seq([link : 1 .. MaxFormLinks,
                           status : {"waiting", "approved", "sent_back", "removed"}])
    /\ Len(formLink) <= MaxFormLinks /\ formVisit \in 0 .. Len(formLink)

RentersInit ==
    /\ today = 0
    /\ archivedRenter = FALSE /\ retired = FALSE /\ hire = "none"
    /\ formLink = <<>> /\ image = <<>> /\ submission = <<>>
    /\ formVisit = 0

-----------------------------------------------------------------------------
(* What the transactions read.                                             *)

IsFormLinkLive(k) == formLink[k].cancelled = NotYet /\ formLink[k].expires > today

\* The submission waiting for the Operator's review; the database keeps one.
Waiting == {s \in DOMAIN submission : submission[s].status = "waiting"}

\* The photos sent through the link and not yet with a submission.
UnsentPhotos(k) ==
    {i \in DOMAIN image : /\ image[i].purpose = "submitted" /\ image[i].link = k
                          /\ image[i].submission = 0 /\ image[i].state = "used"}

ScansInUse == {i \in DOMAIN image : image[i].purpose = "scan" /\ image[i].state = "used"}

PhotosOf(s) == {i \in DOMAIN image : image[i].submission = s /\ image[i].state = "used"}

OnSide(images, side) == {i \in images : image[i].side = side}

Binned(images) ==
    [i \in DOMAIN image |-> IF i \in images THEN [image[i] EXCEPT !.state = "binned"] ELSE image[i]]

\* Every link of the Renter still in play is cancelled.
LinksCancelled ==
    [k \in DOMAIN formLink |->
        IF formLink[k].cancelled = NotYet THEN [formLink[k] EXCEPT !.cancelled = today]
        ELSE formLink[k]]

\* A link has ended when it expired or was cancelled, whichever came first.
EndedOn(k) ==
    LET l == formLink[k]
    IN  IF l.cancelled # NotYet /\ l.cancelled < l.expires THEN l.cancelled ELSE l.expires

EndedLinks == {k \in DOMAIN formLink : EndedOn(k) < today - SubmissionKept}

-----------------------------------------------------------------------------
(* Links, and what the Renter does through one.                            *)

SendDetailsLink ==
    /\ ~archivedRenter /\ Len(formLink) < MaxFormLinks
    /\ formLink' = Append(LinksCancelled, [expires |-> today + LinkDays, cancelled |-> NotYet])
    /\ UNCHANGED <<today, archivedRenter, retired, hire, image, submission, formVisit>>

CancelDetailsLink ==
    /\ formLink' = LinksCancelled
    /\ UNCHANGED <<today, archivedRenter, retired, hire, image, submission, formVisit>>

\* A corrected e-mail leaves no link open to the old inbox.
UpdateEmail == ~archivedRenter /\ CancelDetailsLink

OpenLink(k) ==
    /\ formVisit = 0 /\ IsFormLinkLive(k)
    /\ formVisit' = k
    /\ UNCHANGED <<today, archivedRenter, retired, hire, formLink, image, submission>>

\* The request changed nothing: refused, or read only.
AnsweredOnly ==
    /\ formVisit # 0
    /\ formVisit' = 0
    /\ UNCHANGED <<today, archivedRenter, retired, hire, formLink, image, submission>>

StartLinkPhotoUpload(side) ==
    /\ formVisit # 0 /\ Len(image) < MaxImages
    /\ Waiting = {}
    /\ image' = Append(image, [purpose |-> "submitted", link |-> formVisit, side |-> side,
                               submission |-> 0, state |-> "pending"])
    /\ formVisit' = 0
    /\ UNCHANGED <<today, archivedRenter, retired, hire, formLink, submission>>

\* Mutant: a photo joins whenever it arrives.
IsNeverSent == FALSE

\* A photo sent through a link must not join after the details were sent.
IsLinkAlreadySent == Waiting # {}

Claimed(i, replaced) == [Binned(replaced) EXCEPT ![i].state = "used"]

\* A page confirms only an image a request of it asked for before.
ConfirmLinkPhoto(i) ==
    /\ formVisit # 0
    /\ image[i].purpose = "submitted" /\ image[i].link = formVisit
    /\ image[i].state = "pending" /\ ~IsLinkAlreadySent
    /\ image' = Claimed(i, OnSide(UnsentPhotos(image[i].link), image[i].side))
    /\ formVisit' = 0
    /\ UNCHANGED <<today, archivedRenter, retired, hire, formLink, submission>>

SubmitDetails ==
    LET k == formVisit
        sent == UnsentPhotos(k)
    IN  /\ formVisit # 0 /\ Waiting = {} /\ Len(submission) < MaxSubmissions
        /\ \A side \in LICENCE_SIDES : OnSide(sent, side) # {}
        /\ submission' = Append(submission, [link |-> k, status |-> "waiting"])
        /\ image' = [i \in DOMAIN image |->
                        IF i \in sent THEN [image[i] EXCEPT !.submission = Len(submission) + 1]
                        ELSE image[i]]
        /\ formVisit' = 0
        /\ UNCHANGED <<today, archivedRenter, retired, hire, formLink>>

-----------------------------------------------------------------------------
(* The Operator's review, and licence scans.                               *)

Reviewed(s, status) == [submission EXCEPT ![s].status = status]

\* The photos become the Renter's scans, unhooked from their link and
\* submission; the scans before them go to the bin.
AdoptPhotosAsScans(photos) ==
    IF photos = {} THEN image
    ELSE [i \in DOMAIN image |->
            IF i \in photos
            THEN [image[i] EXCEPT !.purpose = "scan", !.link = 0, !.submission = 0]
            ELSE Binned(ScansInUse)[i]]

ApproveSubmission(s) ==
    /\ ~archivedRenter /\ s \in Waiting
    /\ image' = AdoptPhotosAsScans(PhotosOf(s))
    /\ submission' = Reviewed(s, "approved")
    /\ formLink' = LinksCancelled
    /\ UNCHANGED <<today, archivedRenter, retired, hire, formVisit>>

SendBackSubmission(s) ==
    /\ s \in Waiting
    /\ \E k \in DOMAIN formLink : IsFormLinkLive(k)
    /\ submission' = Reviewed(s, "sent_back")
    /\ image' = [i \in DOMAIN image |->
                    IF image[i].submission = s THEN [image[i] EXCEPT !.submission = 0]
                    ELSE image[i]]
    /\ UNCHANGED <<today, archivedRenter, retired, hire, formLink, formVisit>>

StartLicenceScanUpload(side) ==
    /\ ~archivedRenter /\ Len(image) < MaxImages
    /\ image' = Append(image, [purpose |-> "scan", link |-> 0, side |-> side,
                               submission |-> 0, state |-> "pending"])
    /\ UNCHANGED <<today, archivedRenter, retired, hire, formLink, submission, formVisit>>

ConfirmLicenceScan(i) ==
    /\ image[i].purpose = "scan" /\ image[i].state = "pending"
    /\ image' = Claimed(i, OnSide(ScansInUse, image[i].side))
    /\ UNCHANGED <<today, archivedRenter, retired, hire, formLink, submission, formVisit>>

RemoveLicenceScan(i) ==
    /\ i \in ScansInUse
    /\ image' = Binned({i})
    /\ UNCHANGED <<today, archivedRenter, retired, hire, formLink, submission, formVisit>>

-----------------------------------------------------------------------------
(* The Renter's record and their rentals.                                  *)

ArchiveRenter ==
    /\ ~archivedRenter /\ ~retired /\ hire # "underway"
    /\ archivedRenter' = TRUE
    /\ formLink' = LinksCancelled
    /\ UNCHANGED <<today, retired, hire, image, submission, formVisit>>

RestoreRenter ==
    /\ archivedRenter /\ ~retired
    /\ archivedRenter' = FALSE
    /\ UNCHANGED <<today, retired, hire, formLink, image, submission, formVisit>>

\* A draft and its booking each check, with the Renter held, that they are not archived.
DraftRental ==
    /\ hire = "none" /\ ~archivedRenter
    /\ hire' = "draft"
    /\ UNCHANGED <<today, archivedRenter, retired, formLink, image, submission, formVisit>>

BookRental ==
    /\ hire = "draft" /\ ~archivedRenter
    /\ hire' = "underway"
    /\ UNCHANGED <<today, archivedRenter, retired, formLink, image, submission, formVisit>>

\* Cancelled, or returned: perhaps with money, a bond or damage still open.
EndRental ==
    /\ \/ hire \in {"draft", "underway"} /\ hire' = "none"
       \/ hire = "underway" /\ hire' = "unsettled"
    /\ UNCHANGED <<today, archivedRenter, retired, formLink, image, submission, formVisit>>

Settle ==
    /\ hire = "unsettled" /\ hire' = "none"
    /\ UNCHANGED <<today, archivedRenter, retired, formLink, image, submission, formVisit>>

-----------------------------------------------------------------------------
(* The nightly runs.                                                       *)

\* Photos of ended links are binned, unhooked, and their submissions removed
\* once no file points at them.
CleanUp ==
    LET binned == Binned({i \in DOMAIN image : /\ image[i].purpose = "submitted"
                                               /\ image[i].link \in EndedLinks})
        unhooked == [i \in DOMAIN image |->
                        IF binned[i].purpose = "submitted" /\ binned[i].state = "binned"
                        THEN [binned[i] EXCEPT !.submission = 0] ELSE binned[i]]
    IN  /\ image' = unhooked
        /\ submission' = [s \in DOMAIN submission |->
                             IF /\ submission[s].link \in EndedLinks
                                /\ \A i \in DOMAIN image : unhooked[i].submission # s
                             THEN [submission[s] EXCEPT !.status = "removed"] ELSE submission[s]]
        /\ UNCHANGED <<today, archivedRenter, retired, hire, formLink, formVisit>>

\* Some months after a scan was added and a car last came back; those dates
\* are left out, so any scan may be due.
BinExpiredScans ==
    /\ hire # "underway"
    /\ \E due \in SUBSET ScansInUse : image' = Binned(due)
    /\ UNCHANGED <<today, archivedRenter, retired, hire, formLink, submission, formVisit>>

\* Mutant: only the files that name the Renter.
FilesNamingThem == {i \in DOMAIN image : image[i].purpose = "scan"}

\* The Renter's own files, and all that came through their links.
TheirFiles == DOMAIN image

\* Years after a rental of theirs was last made or ended: any day, here.
RetireRenter ==
    /\ ~retired /\ hire = "none"
    /\ retired' = TRUE /\ archivedRenter' = TRUE
    /\ image' = [i \in DOMAIN image |-> [Binned(TheirFiles)[i] EXCEPT !.submission = 0]]
    /\ submission' = [s \in DOMAIN submission |-> [submission[s] EXCEPT !.status = "removed"]]
    /\ formLink' = LinksCancelled
    /\ UNCHANGED <<today, hire, formVisit>>

\* A request does not last into the next day.
PassDay ==
    /\ today < RentersHorizon /\ formVisit = 0
    /\ today' = today + 1
    /\ UNCHANGED <<archivedRenter, retired, hire, formLink, image, submission, formVisit>>

-----------------------------------------------------------------------------
FromLink ==
    \/ \E k \in DOMAIN formLink : OpenLink(k)
    \/ AnsweredOnly
    \/ \E side \in LICENCE_SIDES : StartLinkPhotoUpload(side)
    \/ \E i \in DOMAIN image : ConfirmLinkPhoto(i)
    \/ SubmitDetails

FromOperator ==
    \/ SendDetailsLink \/ CancelDetailsLink \/ UpdateEmail
    \/ \E s \in DOMAIN submission : ApproveSubmission(s) \/ SendBackSubmission(s)
    \/ \E side \in LICENCE_SIDES : StartLicenceScanUpload(side)
    \/ \E i \in DOMAIN image : ConfirmLicenceScan(i) \/ RemoveLicenceScan(i)
    \/ ArchiveRenter \/ RestoreRenter \/ DraftRental \/ BookRental \/ EndRental \/ Settle

AtNight == CleanUp \/ BinExpiredScans \/ RetireRenter \/ PassDay

RentersNext == FromLink \/ FromOperator \/ AtNight

RentersSpec == RentersInit /\ [][RentersNext]_rentersVars

-----------------------------------------------------------------------------
(* Properties                                                              *)

(* What waits for review is whole and stays so: one submission, one photo  *)
(* of each side, none left behind on its link or removed meanwhile; and a  *)
(* side has one scan in use.  Photos, details, reviews and clean-ups come  *)
(* in any order, through links looked up before they ended (submissions.ts *)
(* submitDetails, stored-files.ts claimConfirmed, reviews.ts).             *)
SentTogether ==
    /\ Cardinality(Waiting) <= 1
    /\ \A s \in Waiting :
          /\ \A side \in LICENCE_SIDES : Cardinality(OnSide(PhotosOf(s), side)) = 1
          /\ UnsentPhotos(submission[s].link) = {}
    /\ \A side \in LICENCE_SIDES :
          /\ Cardinality(OnSide(ScansInUse, side)) <= 1
          /\ \A k \in DOMAIN formLink : Cardinality(OnSide(UnsentPhotos(k), side)) <= 1

(* An archived Renter has no link that works and no car; of a retired one  *)
(* nothing is left in use or waiting, whatever a page of theirs opened     *)
(* before still sends, and they stay archived (renter-records.ts           *)
(* setRenterArchived, 0047_renter_retention.sql retire_renter).            *)
RetiredIsBare ==
    /\ archivedRenter =>
          hire # "underway" /\ \A k \in DOMAIN formLink : ~IsFormLinkLive(k)
    /\ retired =>
          /\ archivedRenter /\ hire = "none"
          /\ \A s \in DOMAIN submission : submission[s].status = "removed"
          /\ \A i \in DOMAIN image : image[i].state # "used"
=============================================================================
