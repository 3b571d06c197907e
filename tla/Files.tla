-------------------------------- MODULE Files --------------------------------
(***************************************************************************)
(* Files sent by browsers and cleaned up at night (apps/web/src/lib/files).*)
(* A file has a row, the bytes its browser sent (under incoming/), and     *)
(* bytes of its own.  Confirming moves what was checked from the one to    *)
(* the other and claims the row, each a step of its own; the nightly run   *)
(* lists what is due, then takes each from storage and marks its row.      *)
(* Time is counted in days; an upload's permission lasts only minutes.     *)
(***************************************************************************)
EXTENDS Integers, FiniteSets

CONSTANTS
    Uploads,           \* 1 .. n; in the photo case, 2 is the small copy of 1
    Confirms,          \* requests confirming a file
    KeptDays,          \* DELETED_FILE_KEPT_DAYS
    UnfinishedDays,    \* UNFINISHED_UPLOAD_HOURS
    FilesPerRun,       \* FILES_PER_RUN
    Stuck,             \* the files storage never removes
    FilesHorizon,      \* bound: the last day
    MaxDeaths          \* bound: how many requests and runs die half way

ASSUME FilesAssumption ==
    /\ Uploads \subseteq Nat \ {0} /\ IsFiniteSet(Uploads) /\ Stuck \subseteq Uploads
    /\ UnfinishedDays \in Nat /\ KeptDays \in Nat /\ KeptDays >= UnfinishedDays
    /\ FilesHorizon \in Nat
    /\ FilesPerRun \in Nat \ {0} /\ MaxDeaths \in Nat

Never == -1

VARIABLES
    what,       \* what the files are: each replaces the other, or a photo and its small copy
    day,
    file,       \* files: each one's row
    turn,       \* files.updated_at: the place of each row, those updated last the highest
    incoming,   \* what the browser sent, still under incoming/
    bytes,      \* what is at the file's own address
    confirm,    \* each confirming request: its step, its file, what it saw
    run,        \* the rows the nightly run found and has not done with, as they were
    purging,    \* what it has done of the one it is at
    late,       \* the files confirmed when they were already due to go
    deaths

filesVars == <<what, day, file, turn, incoming, bytes, confirm, run, purging, late, deaths>>

Contents == {"none", "good", "bad"}
Row == [state : {"none", "pending", "confirmed", "refused"}, createdAt : Nat,
        deletedAt : Nat \cup {Never}, isPurged : BOOLEAN]
NoRow == [state |-> "none", createdAt |-> 0, deletedAt |-> Never, isPurged |-> FALSE]
NotConfirming == [step |-> "idle", file |-> 0, seen |-> "none"]

FilesTypeOK ==
    /\ what \in {"replacing", "photo"}
    /\ day \in 0..FilesHorizon
    /\ file \in [Uploads -> Row]
    /\ turn \in [Uploads -> Nat]
    /\ incoming \in [Uploads -> Contents] /\ bytes \in [Uploads -> Contents]
    /\ confirm \in [Confirms -> [step : {"idle", "found", "seen", "refuse", "copied", "claim"},
                                 file : Uploads \cup {0}, seen : Contents]]
    /\ run \subseteq [file : Uploads, turn : Nat, isDeleted : BOOLEAN]
    /\ purging \in {"nothing", "bytes", "both"}
    /\ late \subseteq Uploads
    /\ deaths \in 0..MaxDeaths

FilesInit ==
    /\ what \in {"replacing", "photo"}
    /\ day = 0
    /\ file = [f \in Uploads |-> NoRow]
    /\ turn = [f \in Uploads |-> f]
    /\ incoming = [f \in Uploads |-> "none"]
    /\ bytes = [f \in Uploads |-> "none"]
    /\ confirm = [c \in Confirms |-> NotConfirming]
    /\ run = {} /\ purging = "nothing"
    /\ late = {} /\ deaths = 0

----------------------------------------------------------------------------
IsPending(f) == file[f].state = "pending" /\ file[f].deletedAt = Never
InUse(f) == file[f].state = "confirmed" /\ file[f].deletedAt = Never

SmallCopies(f) == IF what = "photo" /\ f = 1 THEN Uploads \ {1} ELSE {}

\* The rows just updated go last.
IsBefore(g, f, fs) == (g \notin fs /\ f \in fs) \/ ((g \in fs <=> f \in fs) /\ turn[g] < turn[f])

Updated(fs) == [f \in Uploads |-> Cardinality({g \in Uploads : IsBefore(g, f, fs)}) + 1]

Touch(fs) == turn' = Updated(fs)

Deleted(fs) == [f \in Uploads |-> IF f \in fs THEN [file[f] EXCEPT !.deletedAt = day] ELSE file[f]]

----------------------------------------------------------------------------
(* A file is sent. *)

\* A photo's row is there before its small copy's.
RequestUpload(f) ==
    /\ file[f] = NoRow
    /\ what = "photo" /\ f # 1 => file[1] # NoRow /\ file[1].createdAt = day
    /\ file' = [file EXCEPT ![f] = [state |-> "pending", createdAt |-> day,
                                    deletedAt |-> Never, isPurged |-> FALSE]]
    /\ Touch({f})
    /\ UNCHANGED <<what, day, incoming, bytes, confirm, run, purging, late, deaths>>

\* Within its permission a browser may send, and send again.
BrowserSends(f, content) ==
    /\ file[f] # NoRow /\ day = file[f].createdAt
    /\ incoming' = [incoming EXCEPT ![f] = content]
    /\ UNCHANGED <<what, day, file, turn, bytes, confirm, run, purging, late, deaths>>

----------------------------------------------------------------------------
(* It is confirmed: found, looked at, moved to its own address, claimed. *)

FindPendingFile(c, f) ==
    /\ confirm[c] = NotConfirming /\ IsPending(f)
    /\ confirm' = [confirm EXCEPT ![c] = [step |-> "found", file |-> f, seen |-> "none"]]
    /\ UNCHANGED <<what, day, file, turn, incoming, bytes, run, purging, late, deaths>>

Inspect(c) ==
    LET f == confirm[c].file
    IN  /\ confirm[c].step = "found"
        /\ confirm' = [confirm EXCEPT ![c] =
                          IF incoming[f] = "none" THEN NotConfirming
                          ELSE [step |-> "seen", file |-> f, seen |-> incoming[f]]]
        /\ UNCHANGED <<what, day, file, turn, incoming, bytes, run, purging, late, deaths>>

\* Not what it claimed: taken from storage first, then marked.
RefuseUpload(c) ==
    LET f == confirm[c].file
    IN  /\ confirm[c].step = "seen" /\ confirm[c].seen = "bad"
        /\ incoming' = [incoming EXCEPT ![f] = "none"]
        /\ confirm' = [confirm EXCEPT ![c].step = "refuse"]
        /\ UNCHANGED <<what, day, file, turn, bytes, run, purging, late, deaths>>

MarkRefused(c) ==
    LET f == confirm[c].file
    IN  /\ confirm[c].step = "refuse"
        /\ \/ /\ IsPending(f)
              /\ file' = [file EXCEPT ![f].state = "refused"] /\ Touch({f})
           \/ ~IsPending(f) /\ UNCHANGED <<file, turn>>
        /\ confirm' = [confirm EXCEPT ![c] = NotConfirming]
        /\ UNCHANGED <<what, day, incoming, bytes, run, purging, late, deaths>>

\* Only the bytes that were checked, as storage itself compares.
IsUnchanged(c) == incoming[confirm[c].file] = confirm[c].seen

\* The upload was to be gone by now.
LateOnes(f) == IF day > file[f].createdAt + UnfinishedDays THEN {f} ELSE {}

Promote(c) ==
    LET f == confirm[c].file
    IN  /\ confirm[c].step = "seen" /\ confirm[c].seen = "good"
        /\ \/ /\ IsUnchanged(c)
              /\ bytes' = [bytes EXCEPT ![f] = incoming[f]]
              /\ confirm' = [confirm EXCEPT ![c].step = "copied"]
              /\ late' = late \cup LateOnes(f)
           \/ /\ ~IsUnchanged(c)
              /\ confirm' = [confirm EXCEPT ![c] = NotConfirming]
              /\ UNCHANGED <<bytes, late>>
        /\ UNCHANGED <<what, day, file, turn, incoming, run, purging, deaths>>

RemoveIncoming(c) ==
    /\ confirm[c].step = "copied"
    /\ incoming' = [incoming EXCEPT ![confirm[c].file] = "none"]
    /\ confirm' = [confirm EXCEPT ![c].step = "claim"]
    /\ UNCHANGED <<what, day, file, turn, bytes, run, purging, late, deaths>>

\* What it replaces is deleted with it.
Predecessors(f) == IF what = "replacing" THEN {p \in Uploads \ {f} : InUse(p)} ELSE {}

ClaimConfirmed(c) ==
    LET f == confirm[c].file
    IN  /\ confirm[c].step = "claim"
        /\ \/ /\ IsPending(f)
              /\ file' = [Deleted(Predecessors(f)) EXCEPT ![f].state = "confirmed"]
              /\ Touch(Predecessors(f) \cup {f})
              /\ late' = late \cup LateOnes(f)
           \/ ~IsPending(f) /\ UNCHANGED <<file, turn, late>>
        /\ confirm' = [confirm EXCEPT ![c] = NotConfirming]
        /\ UNCHANGED <<what, day, incoming, bytes, run, purging, deaths>>

ConfirmDies(c) ==
    /\ confirm[c] # NotConfirming /\ deaths < MaxDeaths
    /\ confirm' = [confirm EXCEPT ![c] = NotConfirming]
    /\ deaths' = deaths + 1
    /\ UNCHANGED <<what, day, file, turn, incoming, bytes, run, purging, late>>

----------------------------------------------------------------------------
(* It is removed, and brought back. *)

RemoveFile(f) ==
    LET removed == {f} \cup {s \in SmallCopies(f) : InUse(s)}
    IN  /\ InUse(f)
        /\ what = "photo" => f = 1
        /\ file' = Deleted(removed)
        /\ Touch(removed)
        /\ UNCHANGED <<what, day, incoming, bytes, confirm, run, purging, late, deaths>>

\* Mutant: brought back for as long as its row is there.
IsStillListed(f) == file[f].state = "confirmed" /\ file[f].deletedAt # Never

IsStillRecoverable(f) ==
    /\ file[f].state = "confirmed" /\ file[f].deletedAt # Never /\ ~file[f].isPurged
    /\ day <= file[f].deletedAt + KeptDays

\* A car's photo, with the small copies not yet gone for good.
RestoreFile(f) ==
    LET back == {f} \cup {s \in SmallCopies(f) : file[s].deletedAt # Never /\ ~file[s].isPurged}
    IN  /\ what = "photo" /\ f = 1 /\ IsStillRecoverable(f)
        /\ file' = [u \in Uploads |-> IF u \in back THEN [file[u] EXCEPT !.deletedAt = Never]
                                       ELSE file[u]]
        /\ Touch(back)
        /\ UNCHANGED <<what, day, incoming, bytes, confirm, run, purging, late, deaths>>

----------------------------------------------------------------------------
(* The nightly run. *)

Due(f) ==
    \/ ~file[f].isPurged /\ file[f].deletedAt # Never /\ file[f].deletedAt < day - KeptDays
    \/ IsPending(f) /\ file[f].createdAt < day - UnfinishedDays

DueFirst ==
    LET due == {f \in Uploads : Due(f)}
    IN  {f \in due : Cardinality({g \in due : turn[g] < turn[f]}) < FilesPerRun}

FindDueFiles ==
    /\ run = {} /\ DueFirst # {}
    /\ run' = {[file |-> f, turn |-> turn[f], isDeleted |-> file[f].deletedAt # Never] :
                  f \in DueFirst}
    /\ UNCHANGED <<what, day, file, turn, incoming, bytes, confirm, purging, late, deaths>>

\* The one the run is at, in the order it found them.
InHand == CHOOSE found \in run : \A o \in run : found.turn <= o.turn

Purge(steps) == run # {} /\ purging = steps

PurgeBytes ==
    /\ Purge("nothing") /\ InHand.file \notin Stuck
    /\ bytes' = [bytes EXCEPT ![InHand.file] = "none"]
    /\ purging' = "bytes"
    /\ UNCHANGED <<what, day, file, turn, incoming, confirm, run, late, deaths>>

PurgeIncoming ==
    /\ Purge("bytes")
    /\ incoming' = [incoming EXCEPT ![InHand.file] = "none"]
    /\ purging' = "both"
    /\ UNCHANGED <<what, day, file, turn, bytes, confirm, run, late, deaths>>

IsTaken == purging = "both"

Orphans(f) == {s \in SmallCopies(f) : file[s] # NoRow /\ file[s].deletedAt = Never}

\* One found unfinished is refused too.
RefusedUnlessDeleted(row) ==
    IF ~InHand.isDeleted /\ row.state = "pending" THEN [row EXCEPT !.state = "refused"] ELSE row

\* The row as the run found it decides; a photo's small copies are binned.
MarkPurged ==
    LET f == InHand.file
        gone == Deleted(Orphans(f))
    IN  /\ run # {} /\ IsTaken
        /\ file' = [gone EXCEPT ![f] = [RefusedUnlessDeleted(gone[f]) EXCEPT !.isPurged = TRUE]]
        /\ Touch(Orphans(f) \cup {f})
        /\ run' = run \ {InHand} /\ purging' = "nothing"
        /\ UNCHANGED <<what, day, incoming, bytes, confirm, late, deaths>>

SentToBack(f) == Updated({f})

PurgeFails ==
    /\ Purge("nothing") /\ InHand.file \in Stuck
    /\ turn' = SentToBack(InHand.file)
    /\ run' = run \ {InHand}
    /\ UNCHANGED <<what, day, file, incoming, bytes, confirm, purging, late, deaths>>

\* Out of time, or stopped.
RunDies ==
    /\ run # {} /\ deaths < MaxDeaths
    /\ run' = {} /\ purging' = "nothing"
    /\ deaths' = deaths + 1
    /\ UNCHANGED <<what, day, file, turn, incoming, bytes, confirm, late>>

PassDay ==
    /\ day < FilesHorizon
    /\ day' = day + 1
    /\ UNCHANGED <<what, file, turn, incoming, bytes, confirm, run, purging, late, deaths>>

----------------------------------------------------------------------------
ConfirmStep(c) ==
    \/ \E f \in Uploads : FindPendingFile(c, f)
    \/ Inspect(c) \/ RefuseUpload(c) \/ MarkRefused(c)
    \/ Promote(c) \/ RemoveIncoming(c) \/ ClaimConfirmed(c) \/ ConfirmDies(c)

PurgeStep == PurgeBytes \/ PurgeIncoming \/ MarkPurged \/ PurgeFails

FilesNext ==
    \/ \E f \in Uploads : \/ RequestUpload(f) \/ RemoveFile(f) \/ RestoreFile(f)
                          \/ \E content \in {"good", "bad"} : BrowserSends(f, content)
    \/ \E c \in Confirms : ConfirmStep(c)
    \/ FindDueFiles \/ PurgeStep \/ RunDies \/ PassDay

FilesSpec == FilesInit /\ [][FilesNext]_filesVars

----------------------------------------------------------------------------
(* What must be right. *)

\* A file in use has the bytes that were checked, and once a row says a file is gone for
\* good nothing of it is left in storage (the row is the only thing to say what still needs
\* removing), however requests, removals, deaths and clean-ups cross; but one confirmed when
\* it was already due to go may be cleaned up under it (file-housekeeping.ts purgeFile).
BytesMatchRows ==
    \A f \in Uploads \ late :
        /\ InUse(f) => bytes[f] = "good"
        /\ file[f].isPurged => bytes[f] = "none" /\ incoming[f] = "none"
=============================================================================
