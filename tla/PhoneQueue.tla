----------------------------- MODULE PhoneQueue -----------------------------
(* The photos and damage marks of one checklist, kept on the phone first   *)
(* and sent whenever there is signal.  Each tab of the checklist's page    *)
(* sends the one queue, oldest first: a mark by the key the phone gave it, *)
(* then the photos taken of it.  A tab may be closed or lose an answer     *)
(* between any two steps, and be slow while another tab goes on; another   *)
(* phone may end the checklist; after a week the phone forgets.            *)
EXTENDS Integers, Sequences, FiniteSetsExt

CONSTANTS
    Tabs,
    MarkKeys,       \* the damage marks made on the phone, by their phone keys
    Listed,         \* the place of a photo on the checklist's list
    KeptOnPhone,    \* KEPT_ON_PHONE_DAYS
    MaxMade,        \* bound: marks and photos made
    MaxLost,        \* bound: requests or answers lost, tabs closed
    PhoneHorizon    \* bound: the last day

ASSUME PhoneAssumption ==
    /\ Listed \notin MarkKeys
    /\ KeptOnPhone \in Nat /\ MaxMade \in Nat /\ MaxLost \in Nat /\ PhoneHorizon \in Nat

Places == MarkKeys \cup {Listed}
NotSaved == -1

VARIABLES
    day,
    made,         \* every mark and photo made on the phone, oldest first
    queue,        \* those still on it
    savedMarks,   \* the marks table: when the phone heard that a mark was saved
    markRows,     \* inspection_damage_marks: how many rows have the key
    removedMarks, \* those taken off the outline
    inUse,        \* the photo in use of each place, 0 for none
    arrived,      \* the photos ever kept by the server
    underWay,     \* the checklist is in progress
    refused,      \* photos dropped with a note
    tabPc, todo, again,
    lost

checklistVars == <<markRows, removedMarks, inUse, arrived, underWay>>
tabVars == <<tabPc, todo, again>>
phoneVars == <<day, made, queue, savedMarks, checklistVars, refused, tabVars, lost>>

PhoneDays == 0 .. PhoneHorizon
Changes == [kind : {"mark", "photo"}, place : Places, by : {"key", "id", "name"},
            good : BOOLEAN, day : PhoneDays]

PhoneTypeOK ==
    /\ day \in PhoneDays /\ underWay \in BOOLEAN /\ lost \in 0 .. MaxLost
    /\ made \in Seq(Changes) /\ Len(made) <= MaxMade
    /\ queue \subseteq DOMAIN made /\ arrived \subseteq DOMAIN made /\ refused \subseteq DOMAIN made
    /\ savedMarks \in [MarkKeys -> PhoneDays \cup {NotSaved}]
    /\ markRows \in [MarkKeys -> Nat] /\ removedMarks \subseteq MarkKeys
    /\ inUse \in [Places -> 0 .. Len(made)]
    /\ tabPc \in [Tabs -> {"idle", "next", "mark", "remember", "start", "finish", "remove"}]
    /\ todo \in [Tabs -> SUBSET DOMAIN made]
    /\ again \in [Tabs -> BOOLEAN]

PhoneInit ==
    /\ day = 0 /\ made = <<>> /\ queue = {} /\ lost = 0
    /\ savedMarks = [k \in MarkKeys |-> NotSaved]
    /\ markRows = [k \in MarkKeys |-> 0] /\ removedMarks = {}
    /\ inUse = [p \in Places |-> 0] /\ arrived = {} /\ underWay = TRUE
    /\ refused = {}
    /\ tabPc = [t \in Tabs |-> "idle"]
    /\ todo = [t \in Tabs |-> {}]
    /\ again = [t \in Tabs |-> FALSE]

-----------------------------------------------------------------------------
(* On the page.                                                            *)

\* Queued on the phone; a run under way in the tab then runs again.
Enqueue(t, change) ==
    /\ Len(made) < MaxMade
    /\ made' = Append(made, change)
    /\ queue' = queue \cup {Len(made) + 1}
    /\ again' = IF tabPc[t] = "idle" THEN again ELSE [again EXCEPT ![t] = TRUE]
    /\ UNCHANGED <<day, savedMarks, checklistVars, refused, tabPc, todo, lost>>

MarkOf(k) == {i \in DOMAIN made : made[i].kind = "mark" /\ made[i].place = k}

MakeMark(t, k) ==
    /\ MarkOf(k) = {}
    /\ Enqueue(t, [kind |-> "mark", place |-> k, by |-> "key", good |-> TRUE, day |-> day])

\* The page names a mark by its key until it knows the row's id: while the
\* mark is queued, and until the run that sends it has ended.
TakePhoto(t, place, by, good) ==
    /\ \/ by = "name" /\ place = Listed
       \/ by = "id" /\ place \in MarkKeys \ removedMarks /\ markRows[place] > 0
       \/ /\ by = "key" /\ place \in MarkKeys
          /\ \/ MarkOf(place) \cap queue # {}
             \/ MarkOf(place) # {} /\ markRows[place] > 0 /\ tabPc[t] # "idle"
    /\ Enqueue(t, [kind |-> "photo", place |-> place, by |-> by, good |-> good, day |-> day])

-----------------------------------------------------------------------------
(* runQueue                                                                *)

MoveTab(t, step) == tabPc' = [tabPc EXCEPT ![t] = step]

Sending(t) == Min(todo[t])

StartRun(t) ==
    /\ tabPc[t] = "idle" /\ queue # {}
    /\ todo' = [todo EXCEPT ![t] = queue]
    /\ again' = [again EXCEPT ![t] = FALSE]
    /\ MoveTab(t, "next")
    /\ UNCHANGED <<day, made, queue, savedMarks, checklistVars, refused, lost>>

\* Stopped at the first that did not go: it and the rest wait for the next run.
Stop(t) == MoveTab(t, "idle") /\ todo' = [todo EXCEPT ![t] = {}] /\ UNCHANGED again

RunEnds(t) ==
    /\ tabPc[t] = "next" /\ todo[t] = {}
    /\ IF again[t]
       THEN /\ todo' = [todo EXCEPT ![t] = queue]
            /\ again' = [again EXCEPT ![t] = FALSE]
            /\ UNCHANGED tabPc
       ELSE Stop(t)
    /\ UNCHANGED <<day, made, queue, savedMarks, checklistVars, refused, lost>>

\* A photo named by its mark's key waits until the phone knows the mark's id.
SendNext(t) ==
    /\ tabPc[t] = "next" /\ todo[t] # {}
    /\ LET c == made[Sending(t)] IN
       IF c.kind = "photo" /\ c.by = "key" /\ savedMarks[c.place] = NotSaved
       THEN Stop(t)
       ELSE MoveTab(t, IF c.kind = "mark" THEN "mark" ELSE "start") /\ UNCHANGED <<todo, again>>
    /\ UNCHANGED <<day, made, queue, savedMarks, checklistVars, refused, lost>>

\* The answer arrives, and the run goes on to `step'; or it is lost, and the run stops.
Answer(t, step) ==
    \/ MoveTab(t, step) /\ UNCHANGED <<todo, again, lost>>
    \/ lost < MaxLost /\ lost' = lost + 1 /\ Stop(t)

\* Mutant: a mark sent again is another mark.
RowAnyhow(k) == markRows[k] + 1

\* addDamageMark: one sent again under its key is the one saved before.
RowOf(k) == IF markRows[k] = 0 THEN 1 ELSE markRows[k]

AddMark(t) ==
    LET k == made[Sending(t)].place IN
    /\ tabPc[t] = "mark"
    /\ IF underWay
       THEN markRows' = [markRows EXCEPT ![k] = RowOf(k)] /\ Answer(t, "remember")
       ELSE Stop(t) /\ UNCHANGED <<markRows, lost>>
    /\ UNCHANGED <<day, made, queue, savedMarks, removedMarks, inUse, arrived, underWay, refused>>

RememberMark(t) ==
    /\ tabPc[t] = "remember"
    /\ savedMarks' = [savedMarks EXCEPT ![made[Sending(t)].place] = day]
    /\ MoveTab(t, "remove")
    /\ UNCHANGED <<day, made, queue, checklistVars, refused, todo, again, lost>>

\* What a photo is of may be gone: its checklist ended, or its mark was removed.
IsGone(c) == ~underWay \/ c.place \in removedMarks

\* Mutant: a photo with nothing to send it to holds up the queue.
StartPhotoOrWait(t) ==
    LET c == made[Sending(t)] IN
    /\ tabPc[t] = "start"
    /\ refused' = IF ~c.good THEN refused \cup {Sending(t)} ELSE refused
    /\ IF IsGone(c) THEN Stop(t)
       ELSE MoveTab(t, IF c.good THEN "finish" ELSE "remove") /\ UNCHANGED <<todo, again>>
    /\ UNCHANGED <<day, made, queue, savedMarks, checklistVars, lost>>

\* startChecklistPhotoUpload, and the photo sent to storage; a photo that can
\* never be taken is dropped, with a note when it is the photo's own fault.
StartPhoto(t) ==
    LET c == made[Sending(t)] IN
    /\ tabPc[t] = "start"
    /\ IF IsGone(c) THEN MoveTab(t, "remove") /\ UNCHANGED refused
       ELSE IF c.good THEN MoveTab(t, "finish") /\ UNCHANGED refused
       ELSE MoveTab(t, "remove") /\ refused' = refused \cup {Sending(t)}
    /\ UNCHANGED <<day, made, queue, savedMarks, checklistVars, todo, again, lost>>

\* claimConfirmed: the photo of the place before it goes to the bin.
FinishPhoto(t) ==
    LET i == Sending(t) IN
    /\ tabPc[t] = "finish"
    /\ IF underWay
       THEN /\ inUse' = [inUse EXCEPT ![made[i].place] = i]
            /\ arrived' = arrived \cup {i}
            /\ Answer(t, "remove")
       ELSE MoveTab(t, "remove") /\ UNCHANGED <<inUse, arrived, todo, again, lost>>
    /\ UNCHANGED <<day, made, queue, savedMarks, markRows, removedMarks, underWay, refused>>

RemoveSent(t) ==
    /\ tabPc[t] = "remove"
    /\ queue' = queue \ {Sending(t)}
    /\ todo' = [todo EXCEPT ![t] = @ \ {Sending(t)}]
    /\ MoveTab(t, "next")
    /\ UNCHANGED <<day, made, savedMarks, checklistVars, refused, again, lost>>

\* A request is lost on its way, or the tab is closed: a new page starts afresh.
TabFails(t) ==
    /\ tabPc[t] # "idle" /\ lost < MaxLost
    /\ lost' = lost + 1
    /\ MoveTab(t, "idle")
    /\ todo' = [todo EXCEPT ![t] = {}]
    /\ again' = [again EXCEPT ![t] = FALSE]
    /\ UNCHANGED <<day, made, queue, savedMarks, checklistVars, refused>>

-----------------------------------------------------------------------------
(* The checklist, and what the phone forgets.                              *)

RemoveMark(k) ==
    /\ underWay /\ markRows[k] > 0 /\ k \notin removedMarks
    /\ removedMarks' = removedMarks \cup {k}
    /\ UNCHANGED <<day, made, queue, savedMarks, markRows, inUse, arrived, underWay, refused,
                   tabVars, lost>>

\* Finished here or on another phone, or cancelled with its booking.
EndChecklist ==
    /\ underWay /\ underWay' = FALSE
    /\ UNCHANGED <<day, made, queue, savedMarks, markRows, removedMarks, inUse, arrived, refused,
                   tabVars, lost>>

ForgetEnded ==
    /\ ~underWay
    /\ queue' = {} /\ savedMarks' = [k \in MarkKeys |-> NotSaved]
    /\ UNCHANGED <<day, made, checklistVars, refused, tabVars, lost>>

IsOld(since) == since < day - KeptOnPhone

ForgetOld ==
    /\ queue' = {i \in queue : ~IsOld(made[i].day)}
    /\ savedMarks' = [k \in MarkKeys |-> IF IsOld(savedMarks[k]) THEN NotSaved ELSE savedMarks[k]]
    /\ UNCHANGED <<day, made, checklistVars, refused, tabVars, lost>>

NextDay ==
    /\ day < PhoneHorizon /\ day' = day + 1
    /\ UNCHANGED <<made, queue, savedMarks, checklistVars, refused, tabVars, lost>>

-----------------------------------------------------------------------------
RunStep(t) ==
    \/ SendNext(t) \/ RunEnds(t) \/ AddMark(t) \/ RememberMark(t)
    \/ StartPhoto(t) \/ FinishPhoto(t) \/ RemoveSent(t)

OnPage(t) ==
    \/ \E k \in MarkKeys : MakeMark(t, k)
    \/ \E place \in Places, by \in {"key", "id", "name"}, good \in BOOLEAN :
          TakePhoto(t, place, by, good)

PhoneNext ==
    \/ \E t \in Tabs : OnPage(t) \/ StartRun(t) \/ RunStep(t) \/ TabFails(t)
    \/ \E k \in MarkKeys : RemoveMark(k)
    \/ EndChecklist \/ ForgetEnded \/ ForgetOld \/ NextDay

PhoneSpec == PhoneInit /\ [][PhoneNext]_phoneVars

(* The page tries again every few seconds, and a run that has begun goes   *)
(* on.  Nobody has to take a photo, end the checklist or open another page *)
(* that forgets.                                                           *)
PhoneFairness == \A t \in Tabs : WF_phoneVars(StartRun(t)) /\ WF_phoneVars(RunStep(t))

-----------------------------------------------------------------------------
(* Properties                                                              *)

IsSaved(i) == IF made[i].kind = "mark" THEN markRows[made[i].place] > 0 ELSE i \in arrived

(* Whatever was made on the phone is on it until the server has it, and a  *)
(* mark has one row however often it is sent: lost answers, closed tabs    *)
(* and tabs that send the same queue lose nothing and repeat nothing.  All *)
(* that is let go is a photo the server refuses, or one of a mark removed, *)
(* and what is a week old (queued-changes.ts runQueue, handover-records.ts *)
(* addDamageMark).                                                         *)
NothingLost ==
    /\ \A i \in DOMAIN made :
          \/ i \in queue \/ IsSaved(i) \/ i \in refused
          \/ ~underWay \/ made[i].place \in removedMarks \/ IsOld(made[i].day)
    /\ \A k \in MarkKeys : markRows[k] <= 1
    /\ \A i \in arrived : made[i].place \in MarkKeys => markRows[made[i].place] = 1

\* A photo whose mark the phone forgot before it was sent.
IsOrphan(i) ==
    /\ made[i].kind = "photo" /\ made[i].by = "key" /\ savedMarks[made[i].place] = NotSaved
    /\ MarkOf(made[i].place) \cap queue = {}

(* A checklist's queue empties in the end, and so can be finished: nothing *)
(* that can never be sent holds it up, unless it is a photo whose mark was *)
(* forgotten (queued-changes.ts PHOTO_TARGET_GONE, RefusedForGood).        *)
QueueEmpties == <>[](queue = {} \/ ~underWay \/ \E i \in queue : IsOrphan(i))
=============================================================================
