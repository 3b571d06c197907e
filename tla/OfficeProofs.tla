---------------------------- MODULE OfficeProofs ----------------------------
(***************************************************************************)
(* Proofs about PhoneQueue and Billing.  Of a checklist filled in without  *)
(* signal, for every number of tabs, marks and photos: nothing made on the *)
(* phone is lost, and a mark sent again is not another mark.  Of invoices, *)
(* credit notes and receipts, for every number of rentals, lines and       *)
(* issuers: their numbers run on, and they come to what the ledger says.   *)
(* With pages (BondPagesProofs), they are the parts of MCOffice.           *)
(***************************************************************************)
EXTENDS MCOffice, BondPagesProofs, FiniteSetTheorems, SequenceTheorems,
        NaturalsInduction, WellFoundedInduction, TLAPS

-----------------------------------------------------------------------------
(* PhoneQueue: what is taken off a phone.                                  *)

(* A tab may take a change off the phone only when it is settled: saved,   *)
(* refused, old, or gone with its checklist or its mark.  Nothing settled  *)
(* becomes unsettled, so it does not matter that the tab acts on what it   *)
(* saw some steps ago.                                                     *)
Settled(i) ==
    \/ IsSaved(i) \/ i \in refused
    \/ ~underWay \/ made[i].place \in removedMarks \/ IsOld(made[i].day)

NoneLost == \A i \in DOMAIN made : i \in queue \/ Settled(i)

OneRow == \A k \in MarkKeys : markRows[k] <= 1

ArrivedHaveMarks == \A i \in arrived : made[i].place \in MarkKeys => markRows[made[i].place] = 1

\* Only a photo of the list is named by its place there; one named by the
\* row's id is of a mark the server has.
MadeIs == \A i \in DOMAIN made :
    /\ (made[i].by = "name" \/ made[i].place = Listed) =>
          (made[i].kind = "photo" /\ made[i].by = "name" /\ made[i].place = Listed)
    /\ made[i].by = "id" => markRows[made[i].place] > 0

\* The phone never thinks a mark saved that is not.
SavedHaveRows == \A k \in MarkKeys : savedMarks[k] # NotSaved => markRows[k] > 0

\* What a tab has in hand, at each point of its run.
InHand(t, i) ==
    /\ tabPc[t] \in {"mark", "remember"} => made[i].kind = "mark"
    /\ tabPc[t] = "remember" => markRows[made[i].place] > 0
    /\ tabPc[t] \in {"start", "finish"} =>
          (made[i].kind = "photo" /\ (made[i].place \in MarkKeys => markRows[made[i].place] > 0))
    /\ tabPc[t] = "remove" => Settled(i)

TabsRight == \A t \in Tabs :
    tabPc[t] \in {"mark", "remember", "start", "finish", "remove"} =>
        (todo[t] # {} /\ InHand(t, Sending(t)))

PhoneIInv ==
    /\ PhoneTypeOK /\ NoneLost /\ OneRow /\ ArrivedHaveMarks /\ MadeIs /\ SavedHaveRows
    /\ TabsRight

-----------------------------------------------------------------------------
(* Lemmas about the queue.                                                 *)

\* The least of some numbers is one of them: what a tab sends next.
LEMMA MinIs ==
  ASSUME NEW S \in SUBSET Nat, S # {}
  PROVE  Min(S) \in S
  <1> DEFINE R == {ss \in Nat \X Nat : ss[1] < ss[2]}
  <1>1. IsWellFoundedOn(R, Nat)
    BY NatLessThanWellFounded DEF OpToRel
  <1>2. PICK x \in S : \A y \in S : ~(<<y, x>> \in R)
    <2> HIDE DEF R
    <2> QED
      BY <1>1, WFMin
  <1>3. ASSUME NEW y \in S PROVE x <= y
    <2>1. ASSUME y < x PROVE FALSE
      <3>1. <<y, x>> \in R
        BY <2>1
      <3> QED
        BY <3>1, <1>2
    <2> QED
      BY <2>1
  <1> QED
    BY <1>3 DEF Min

LEMMA SendingIs ==
  ASSUME PhoneTypeOK, NEW t \in Tabs, todo[t] # {}
  PROVE  Sending(t) \in todo[t] /\ Sending(t) \in DOMAIN made
  <1>1. todo[t] \subseteq DOMAIN made /\ DOMAIN made = 1 .. Len(made) /\ Len(made) \in Nat
    BY DEF PhoneTypeOK
  <1>2. todo[t] \in SUBSET Nat
    BY <1>1
  <1> QED
    BY <1>1, <1>2, MinIs DEF Sending

LEMMA MadeChanges ==
  ASSUME PhoneTypeOK, NEW i \in DOMAIN made
  PROVE  made[i] \in Changes
  BY DEF PhoneTypeOK

\* Something made keeps its number and what it is.
LEMMA EnqueueIs ==
  ASSUME PhoneTypeOK, NEW t \in Tabs, NEW change \in Changes, Enqueue(t, change)
  PROVE  /\ made' \in Seq(Changes) /\ Len(made') = Len(made) + 1
         /\ DOMAIN made' = DOMAIN made \cup {Len(made) + 1}
         /\ made'[Len(made) + 1] = change
         /\ \A i \in DOMAIN made : made'[i] = made[i]
  <1>1. made \in Seq(Changes) /\ made' = Append(made, change)
    BY DEF PhoneTypeOK, Enqueue
  <1> QED
    BY <1>1

\* What the page may make.
MayBeMade(c) ==
    /\ (c.by = "name" \/ c.place = Listed) =>
          (c.kind = "photo" /\ c.by = "name" /\ c.place = Listed)
    /\ c.by = "id" => markRows[c.place] > 0

LEMMA OnPageIs ==
  ASSUME PhoneTypeOK, NEW t \in Tabs, OnPage(t)
  PROVE  \E change \in Changes : Enqueue(t, change) /\ MayBeMade(change)
  <1>1. CASE \E k \in MarkKeys : MakeMark(t, k)
    <2>1. PICK k \in MarkKeys : MakeMark(t, k)
      BY <1>1
    <2> DEFINE c == [kind |-> "mark", place |-> k, by |-> "key", good |-> TRUE, day |-> day]
    <2>2. c \in Changes /\ MayBeMade(c)
      BY PhoneAssumption DEF PhoneTypeOK, Changes, Places, MayBeMade
    <2>3. Enqueue(t, c)
      BY <2>1 DEF MakeMark
    <2> QED
      BY <2>2, <2>3
  <1>2. CASE \E place \in Places, by \in {"key", "id", "name"}, good \in BOOLEAN :
                TakePhoto(t, place, by, good)
    <2>1. PICK place \in Places, by \in {"key", "id", "name"}, good \in BOOLEAN :
                TakePhoto(t, place, by, good)
      BY <1>2
    <2> DEFINE c == [kind |-> "photo", place |-> place, by |-> by, good |-> good, day |-> day]
    <2>2. c \in Changes
      BY DEF PhoneTypeOK, Changes
    <2>3. MayBeMade(c)
      BY <2>1, PhoneAssumption DEF TakePhoto, MayBeMade
    <2>4. Enqueue(t, c)
      BY <2>1 DEF TakePhoto
    <2> QED
      BY <2>2, <2>3, <2>4
  <1> QED
    BY <1>1, <1>2 DEF OnPage

-----------------------------------------------------------------------------
(* Nothing at the server or in the list of what was made is taken back.    *)

Onward ==
    /\ \A i \in DOMAIN made : i \in DOMAIN made' /\ made'[i] = made[i]
    /\ \A k \in MarkKeys : markRows'[k] >= markRows[k]
    /\ arrived \subseteq arrived' /\ refused \subseteq refused'
    /\ removedMarks \subseteq removedMarks'
    /\ underWay' => underWay
    /\ day' >= day

LEMMA SettledStays ==
  ASSUME PhoneTypeOK, PhoneTypeOK', MadeIs, Onward, NEW i \in DOMAIN made, Settled(i)
  PROVE  Settled(i)'
  <1>1. made'[i] = made[i] /\ made[i] \in Changes
    BY MadeChanges DEF Onward
  <1>2. CASE IsSaved(i)
    <2>1. CASE made[i].kind = "mark"
      <3>1. made[i].place \in MarkKeys
        BY <1>1, <2>1 DEF MadeIs, Changes, Places
      <3>2. markRows[made[i].place] \in Nat /\ markRows'[made[i].place] \in Nat
        BY <3>1 DEF PhoneTypeOK
      <3>3. markRows'[made'[i].place] > 0
        BY <1>1, <1>2, <2>1, <3>1, <3>2 DEF IsSaved, Onward
      <3> QED
        BY <1>1, <2>1, <3>3 DEF Settled, IsSaved
    <2>2. CASE made[i].kind # "mark"
      BY <1>1, <1>2, <2>2 DEF Settled, IsSaved, Onward
    <2> QED
      BY <2>1, <2>2
  <1>3. CASE i \in refused \/ ~underWay \/ made[i].place \in removedMarks
    BY <1>1, <1>3 DEF Settled, Onward
  <1>4. CASE IsOld(made[i].day)
    <2>1. made[i].day \in Int /\ day \in Int /\ day' \in Int /\ KeptOnPhone \in Int
      BY <1>1, PhoneAssumption DEF PhoneTypeOK, PhoneDays, Changes
    <2> QED
      BY <1>1, <1>4, <2>1 DEF Settled, IsOld, Onward
  <1> QED
    BY <1>2, <1>3, <1>4 DEF Settled

\* A tab that does nothing keeps in hand what it had.
TabRight(t) ==
    tabPc[t] \in {"mark", "remember", "start", "finish", "remove"} =>
        (todo[t] # {} /\ InHand(t, Sending(t)))

LEMMA TabKept ==
  ASSUME PhoneTypeOK, PhoneTypeOK', MadeIs, Onward, NEW t \in Tabs, TabRight(t),
         tabPc'[t] = tabPc[t], todo'[t] = todo[t]
  PROVE  TabRight(t)'
  <1> SUFFICES ASSUME tabPc[t] \in {"mark", "remember", "start", "finish", "remove"}
               PROVE  todo'[t] # {} /\ InHand(t, Sending(t))'
    BY DEF TabRight
  <1>1. todo[t] # {} /\ InHand(t, Sending(t))
    BY DEF TabRight
  <1>2. PICK i \in DOMAIN made : i = Sending(t)
    BY <1>1, SendingIs
  <1>3. Sending(t)' = i
    BY <1>2 DEF Sending
  <1>4. made'[i] = made[i] /\ made[i] \in Changes
    BY MadeChanges DEF Onward
  <1>5. ASSUME made[i].place \in MarkKeys, markRows[made[i].place] > 0
        PROVE  markRows'[made[i].place] > 0
    <2>1. markRows[made[i].place] \in Nat /\ markRows'[made[i].place] \in Nat
      BY <1>5 DEF PhoneTypeOK
    <2> QED
      BY <1>5, <2>1 DEF Onward
  <1>6. made[i].kind = "mark" => made[i].place \in MarkKeys
    BY <1>4 DEF MadeIs, Changes, Places
  <1>7. tabPc[t] = "remove" => Settled(i)'
    BY <1>1, <1>2, SettledStays DEF InHand
  <1> QED
    BY <1>1, <1>2, <1>3, <1>4, <1>5, <1>6, <1>7 DEF InHand

LEMMA TabsRightIs == TabsRight <=> \A t \in Tabs : TabRight(t)
  BY DEF TabsRight, TabRight

\* What is left of the invariant when a step makes nothing.
LEMMA MadeKept ==
  ASSUME PhoneTypeOK, PhoneTypeOK', MadeIs, Onward, made' = made
  PROVE  MadeIs'
  <1> SUFFICES ASSUME NEW i \in DOMAIN made
               PROVE  /\ (made[i].by = "name" \/ made[i].place = Listed) =>
                            (made[i].kind = "photo" /\ made[i].by = "name"
                             /\ made[i].place = Listed)
                      /\ made[i].by = "id" => markRows'[made[i].place] > 0
    BY DEF MadeIs
  <1>1. made[i] \in Changes
    BY MadeChanges
  <1>2. ASSUME made[i].by = "id" PROVE markRows'[made[i].place] > 0
    <2>1. made[i].place \in MarkKeys /\ markRows[made[i].place] > 0
      BY <1>1, <1>2 DEF MadeIs, Changes, Places
    <2>2. markRows[made[i].place] \in Nat /\ markRows'[made[i].place] \in Nat
      BY <2>1 DEF PhoneTypeOK
    <2> QED
      BY <2>1, <2>2 DEF Onward
  <1> QED
    BY <1>2 DEF MadeIs

LEMMA NoneLostKept ==
  ASSUME PhoneTypeOK, PhoneTypeOK', MadeIs, Onward, made' = made, NoneLost,
         \A i \in queue : i \in queue' \/ Settled(i)'
  PROVE  NoneLost'
  <1> SUFFICES ASSUME NEW i \in DOMAIN made
               PROVE  i \in queue' \/ Settled(i)'
    BY DEF NoneLost
  <1> QED
    BY SettledStays DEF NoneLost

\* The rows only appear; nothing new has arrived.
LEMMA ArrivedKept ==
  ASSUME PhoneTypeOK, PhoneTypeOK', Onward, OneRow', ArrivedHaveMarks, arrived' = arrived
  PROVE  ArrivedHaveMarks'
  <1> SUFFICES ASSUME NEW i \in arrived, made'[i].place \in MarkKeys
               PROVE  markRows'[made'[i].place] = 1
    BY DEF ArrivedHaveMarks
  <1>1. i \in DOMAIN made /\ made'[i] = made[i]
    BY DEF PhoneTypeOK, Onward
  <1>2. markRows[made[i].place] = 1
    BY <1>1 DEF ArrivedHaveMarks
  <1>3. markRows'[made[i].place] \in Nat /\ markRows'[made[i].place] <= 1
    BY <1>1 DEF PhoneTypeOK, OneRow
  <1>4. markRows'[made[i].place] >= 1
    BY <1>1, <1>2 DEF Onward
  <1> QED
    BY <1>1, <1>3, <1>4

LEMMA SavedKept ==
  ASSUME PhoneTypeOK, PhoneTypeOK', Onward, SavedHaveRows,
         \A k \in MarkKeys : savedMarks'[k] = savedMarks[k] \/ savedMarks'[k] = NotSaved
  PROVE  SavedHaveRows'
  <1> SUFFICES ASSUME NEW k \in MarkKeys, savedMarks'[k] # NotSaved
               PROVE  markRows'[k] > 0
    BY DEF SavedHaveRows
  <1>1. markRows[k] > 0
    BY DEF SavedHaveRows
  <1>2. markRows[k] \in Nat /\ markRows'[k] \in Nat /\ markRows'[k] >= markRows[k]
    BY DEF PhoneTypeOK, Onward
  <1> QED
    BY <1>1, <1>2

\* Everything at once, for a step that neither makes, adds a row, nor keeps a photo.
LEMMA Kept ==
  ASSUME PhoneIInv, PhoneTypeOK', Onward, made' = made, markRows' = markRows,
         arrived' = arrived,
         \A k \in MarkKeys : savedMarks'[k] = savedMarks[k] \/ savedMarks'[k] = NotSaved,
         \A i \in queue : i \in queue' \/ Settled(i)',
         \A t \in Tabs : TabRight(t)'
  PROVE  PhoneIInv'
  <1> USE DEF PhoneIInv
  <1>1. OneRow'
    BY DEF OneRow
  <1>2. MadeIs'
    BY MadeKept
  <1>3. NoneLost'
    BY NoneLostKept
  <1>4. ArrivedHaveMarks'
    BY <1>1, ArrivedKept
  <1>5. SavedHaveRows'
    BY SavedKept
  <1>6. TabsRight'
    BY DEF TabsRight, TabRight
  <1> QED
    BY <1>1, <1>2, <1>3, <1>4, <1>5, <1>6

-----------------------------------------------------------------------------
(* Every step keeps the types.                                             *)

\* A step of a tab's run that stays on the phone.
LEMMA OnwardStays ==
  ASSUME PhoneTypeOK, made' = made, day' = day, checklistVars' = checklistVars,
         refused \subseteq refused'
  PROVE  Onward
  BY DEF PhoneTypeOK, PhoneDays, checklistVars, Onward

Pcs == {"idle", "next", "mark", "remember", "start", "finish", "remove"}

LEMMA StopTypes ==
  ASSUME PhoneTypeOK, NEW t \in Tabs, Stop(t), made' = made
  PROVE  /\ tabPc' \in [Tabs -> Pcs] /\ todo' \in [Tabs -> SUBSET DOMAIN made']
         /\ again' \in [Tabs -> BOOLEAN]
         /\ tabPc'[t] = "idle"
         /\ \A u \in Tabs \ {t} : tabPc'[u] = tabPc[u] /\ todo'[u] = todo[u]
  BY DEF PhoneTypeOK, Stop, MoveTab, Pcs

LEMMA MoveTypes ==
  ASSUME PhoneTypeOK, NEW t \in Tabs, NEW step \in Pcs, MoveTab(t, step)
  PROVE  /\ tabPc' \in [Tabs -> Pcs] /\ tabPc'[t] = step
         /\ \A u \in Tabs \ {t} : tabPc'[u] = tabPc[u]
  BY DEF PhoneTypeOK, MoveTab, Pcs

LEMMA AnswerTypes ==
  ASSUME PhoneTypeOK, NEW t \in Tabs, NEW step \in Pcs, Answer(t, step), made' = made
  PROVE  /\ tabPc' \in [Tabs -> Pcs] /\ todo' \in [Tabs -> SUBSET DOMAIN made']
         /\ again' \in [Tabs -> BOOLEAN] /\ lost' \in 0 .. MaxLost
         /\ tabPc'[t] = "idle" \/ (tabPc'[t] = step /\ todo' = todo)
         /\ \A u \in Tabs \ {t} : tabPc'[u] = tabPc[u] /\ todo'[u] = todo[u]
  <1>1. CASE MoveTab(t, step) /\ UNCHANGED <<todo, again, lost>>
    BY <1>1, MoveTypes DEF PhoneTypeOK
  <1>2. CASE lost < MaxLost /\ lost' = lost + 1 /\ Stop(t)
    <2>1. lost' \in 0 .. MaxLost
      BY <1>2, PhoneAssumption DEF PhoneTypeOK
    <2> QED
      BY <1>2, <2>1, StopTypes
  <1> QED
    BY <1>1, <1>2 DEF Answer

\* What is asked of the step of one tab: the other tabs are as they were.
LEMMA OthersKept ==
  ASSUME PhoneIInv, PhoneTypeOK', Onward, NEW t \in Tabs,
         \A u \in Tabs \ {t} : tabPc'[u] = tabPc[u] /\ todo'[u] = todo[u],
         TabRight(t)'
  PROVE  \A u \in Tabs : TabRight(u)'
  <1> SUFFICES ASSUME NEW u \in Tabs \ {t} PROVE TabRight(u)'
    OBVIOUS
  <1>1. TabRight(u)
    BY TabsRightIs DEF PhoneIInv
  <1> QED
    BY <1>1, TabKept DEF PhoneIInv

LEMMA IdleIsRight ==
  ASSUME NEW t \in Tabs, tabPc'[t] \in {"idle", "next"}
  PROVE  TabRight(t)'
  BY DEF TabRight

-----------------------------------------------------------------------------
(* Each step keeps the invariant.                                          *)

LEMMA EnqueueKeeps ==
  ASSUME PhoneIInv, NEW t \in Tabs, NEW change \in Changes, Enqueue(t, change),
         MayBeMade(change)
  PROVE  PhoneIInv'
  <1> USE DEF PhoneIInv
  <1> DEFINE new == Len(made) + 1
  <1>1. /\ made' \in Seq(Changes) /\ Len(made') = new /\ DOMAIN made' = DOMAIN made \cup {new}
        /\ made'[new] = change /\ \A i \in DOMAIN made : made'[i] = made[i]
    BY EnqueueIs
  <1>2. Len(made) \in Nat /\ DOMAIN made = 1 .. Len(made)
    BY DEF PhoneTypeOK
  <1>3. /\ queue' = queue \cup {new} /\ Len(made) < MaxMade
        /\ UNCHANGED <<day, savedMarks, checklistVars, refused, tabPc, todo, lost>>
        /\ again' = IF tabPc[t] = "idle" THEN again ELSE [again EXCEPT ![t] = TRUE]
    BY DEF Enqueue
  <1>4. PhoneTypeOK'
    <2>1. /\ Len(made') <= MaxMade
          /\ queue' \subseteq DOMAIN made' /\ arrived' \subseteq DOMAIN made'
          /\ refused' \subseteq DOMAIN made'
      BY <1>1, <1>2, <1>3, PhoneAssumption DEF PhoneTypeOK, checklistVars
    <2>2. inUse' \in [Places -> 0 .. Len(made')]
      BY <1>1, <1>2, <1>3 DEF PhoneTypeOK, checklistVars
    <2>3. todo' \in [Tabs -> SUBSET DOMAIN made'] /\ again' \in [Tabs -> BOOLEAN]
      BY <1>1, <1>3 DEF PhoneTypeOK
    <2> QED
      BY <1>1, <1>3, <2>1, <2>2, <2>3 DEF PhoneTypeOK, checklistVars
  <1>5. Onward
    BY <1>1, <1>3 DEF Onward, PhoneTypeOK, PhoneDays, checklistVars
  <1>6. MadeIs'
    <2>1. ASSUME NEW i \in DOMAIN made
          PROVE  /\ (made'[i].by = "name" \/ made'[i].place = Listed) =>
                       (made'[i].kind = "photo" /\ made'[i].by = "name"
                        /\ made'[i].place = Listed)
                 /\ made'[i].by = "id" => markRows'[made'[i].place] > 0
      BY <1>1, <1>3 DEF MadeIs, checklistVars
    <2>2. /\ (made'[new].by = "name" \/ made'[new].place = Listed) =>
                (made'[new].kind = "photo" /\ made'[new].by = "name"
                 /\ made'[new].place = Listed)
          /\ made'[new].by = "id" => markRows'[made'[new].place] > 0
      BY <1>1, <1>3 DEF MayBeMade, checklistVars
    <2>3. \A i \in DOMAIN made' : i \in DOMAIN made \/ i = new
      BY <1>1
    <2> HIDE DEF new
    <2> QED
      BY <2>1, <2>2, <2>3 DEF MadeIs
  <1>7. NoneLost'
    <2> SUFFICES ASSUME NEW i \in DOMAIN made', i \notin queue'
                 PROVE  Settled(i)'
      BY DEF NoneLost
    <2>1. i \in DOMAIN made /\ i \notin queue
      BY <1>1, <1>3
    <2> QED
      BY <1>4, <1>5, <2>1, SettledStays DEF NoneLost
  <1>8. OneRow' /\ SavedHaveRows'
    BY <1>3 DEF OneRow, SavedHaveRows, checklistVars
  <1>9. ArrivedHaveMarks'
    BY <1>3, <1>4, <1>5, <1>8, ArrivedKept DEF checklistVars
  <1>10. ASSUME NEW u \in Tabs PROVE TabRight(u)'
    <2>1. TabRight(u)
      BY TabsRightIs
    <2> QED
      BY <1>3, <1>4, <1>5, <2>1, TabKept
  <1>11. TabsRight'
    BY <1>10 DEF TabsRight, TabRight
  <1> QED
    BY <1>4, <1>6, <1>7, <1>8, <1>9, <1>11

LEMMA StartRunKeeps ==
  ASSUME PhoneIInv, NEW t \in Tabs, StartRun(t)
  PROVE  PhoneIInv'
  <1> USE DEF PhoneIInv
  <1>1. tabPc' \in [Tabs -> Pcs] /\ tabPc'[t] = "next"
        /\ \A u \in Tabs \ {t} : tabPc'[u] = tabPc[u]
    BY MoveTypes DEF StartRun, Pcs
  <1>2. PhoneTypeOK'
    BY <1>1 DEF PhoneTypeOK, StartRun, checklistVars, Pcs
  <1>3. Onward
    BY OnwardStays DEF StartRun
  <1>4. \A u \in Tabs \ {t} : todo'[u] = todo[u]
    BY DEF StartRun, PhoneTypeOK
  <1>5. \A u \in Tabs : TabRight(u)'
    BY <1>1, <1>2, <1>3, <1>4, IdleIsRight, OthersKept
  <1> QED
    BY <1>2, <1>3, <1>5, Kept DEF StartRun, checklistVars

LEMMA RunEndsKeeps ==
  ASSUME PhoneIInv, NEW t \in Tabs, RunEnds(t)
  PROVE  PhoneIInv'
  <1> USE DEF PhoneIInv
  <1>1. /\ tabPc' \in [Tabs -> Pcs] /\ todo' \in [Tabs -> SUBSET DOMAIN made']
        /\ again' \in [Tabs -> BOOLEAN] /\ tabPc'[t] \in {"idle", "next"}
        /\ \A u \in Tabs \ {t} : tabPc'[u] = tabPc[u] /\ todo'[u] = todo[u]
    <2>1. CASE again[t]
      BY <2>1 DEF RunEnds, PhoneTypeOK, Pcs
    <2>2. CASE ~again[t]
      BY <2>2, StopTypes DEF RunEnds
    <2> QED
      BY <2>1, <2>2
  <1>2. PhoneTypeOK'
    BY <1>1 DEF PhoneTypeOK, RunEnds, checklistVars, Pcs
  <1>3. Onward
    BY OnwardStays DEF RunEnds
  <1>5. \A u \in Tabs : TabRight(u)'
    BY <1>1, <1>2, <1>3, IdleIsRight, OthersKept
  <1> QED
    BY <1>2, <1>3, <1>5, Kept DEF RunEnds, checklistVars

\* A photo in hand that goes by its mark's key is of a mark the phone knows
\* to be saved; one that goes by the row's id, of a mark that has its row.
LEMMA SendNextKeeps ==
  ASSUME PhoneIInv, NEW t \in Tabs, SendNext(t)
  PROVE  PhoneIInv'
  <1> USE DEF PhoneIInv
  <1>1. todo[t] # {} /\ made' = made
    BY DEF SendNext
  <1>2. PICK i \in DOMAIN made : i = Sending(t)
    BY <1>1, SendingIs
  <1>3. made[i] \in Changes
    BY MadeChanges
  <1> DEFINE c == made[i]
             waits == c.kind = "photo" /\ c.by = "key" /\ savedMarks[c.place] = NotSaved
             step == IF c.kind = "mark" THEN "mark" ELSE "start"
  <1>4. (waits /\ Stop(t)) \/ (~waits /\ MoveTab(t, step) /\ UNCHANGED <<todo, again>>)
    BY <1>2 DEF SendNext
  <1>5. /\ tabPc' \in [Tabs -> Pcs] /\ todo' \in [Tabs -> SUBSET DOMAIN made']
        /\ again' \in [Tabs -> BOOLEAN]
        /\ \A u \in Tabs \ {t} : tabPc'[u] = tabPc[u] /\ todo'[u] = todo[u]
        /\ (waits /\ tabPc'[t] = "idle") \/ (~waits /\ tabPc'[t] = step /\ todo' = todo)
    <2> HIDE DEF waits
    <2>1. CASE waits /\ Stop(t)
      BY <1>1, <2>1, StopTypes
    <2>2. CASE ~waits /\ MoveTab(t, step) /\ UNCHANGED <<todo, again>>
      <3>1. step \in Pcs
        BY DEF Pcs
      <3> HIDE DEF step
      <3> QED
        BY <1>1, <2>2, <3>1, MoveTypes DEF PhoneTypeOK
    <2> QED
      BY <1>4, <2>1, <2>2
  <1>6. PhoneTypeOK'
    BY <1>5 DEF PhoneTypeOK, SendNext, checklistVars, Pcs
  <1>7. Onward
    BY OnwardStays DEF SendNext
  <1>8. TabRight(t)'
    <2>1. CASE waits
      BY <1>5, <2>1, IdleIsRight
    <2>2. CASE ~waits
      <3>1. Sending(t)' = i /\ todo'[t] # {}
        BY <1>1, <1>2, <1>5, <2>2 DEF Sending
      <3>2. ASSUME c.kind = "photo", c.place \in MarkKeys PROVE markRows[c.place] > 0
        <4>1. c.by # "name"
          BY <3>2, PhoneAssumption DEF MadeIs
        <4>2. CASE c.by = "id"
          BY <4>2 DEF MadeIs
        <4>3. CASE c.by = "key"
          BY <2>2, <3>2, <4>3 DEF SavedHaveRows
        <4> QED
          BY <1>3, <4>1, <4>2, <4>3 DEF Changes
      <3>3. made' = made /\ markRows' = markRows
        BY DEF SendNext, checklistVars
      <3>4. c.kind \in {"mark", "photo"}
        BY <1>3 DEF Changes
      <3>5. tabPc'[t] = step
        BY <1>5, <2>2
      <3>6. InHand(t, i)'
        BY <3>2, <3>3, <3>4, <3>5 DEF InHand
      <3> QED
        BY <3>1, <3>6 DEF TabRight, InHand
    <2> QED
      BY <2>1, <2>2
  <1>9. \A u \in Tabs : TabRight(u)'
    BY <1>5, <1>6, <1>7, <1>8, OthersKept
  <1> QED
    BY <1>6, <1>7, <1>9, Kept DEF SendNext, checklistVars

LEMMA AddMarkKeeps ==
  ASSUME PhoneIInv, NEW t \in Tabs, AddMark(t)
  PROVE  PhoneIInv'
  <1> USE DEF PhoneIInv
  <1>1. /\ tabPc[t] = "mark" /\ made' = made
        /\ UNCHANGED <<day, queue, savedMarks, removedMarks, inUse, arrived, underWay, refused>>
    BY DEF AddMark
  <1>2. TabRight(t) /\ todo[t] # {}
    BY <1>1, TabsRightIs DEF TabRight
  <1>3. PICK i \in DOMAIN made : i = Sending(t)
    BY <1>2, SendingIs
  <1>4. made[i].kind = "mark" /\ made[i] \in Changes
    BY <1>1, <1>2, <1>3, MadeChanges DEF TabRight, InHand
  <1>5. PICK k \in MarkKeys : k = made[i].place
    BY <1>4 DEF MadeIs, Changes, Places
  <1>6. markRows[k] \in Nat /\ markRows[k] <= 1
    BY DEF PhoneTypeOK, OneRow
  <1>7. \/ underWay /\ markRows' = [markRows EXCEPT ![k] = 1] /\ Answer(t, "remember")
        \/ markRows' = markRows /\ lost' = lost /\ Stop(t)
    BY <1>3, <1>5, <1>6 DEF AddMark, RowOf
  <1>8. /\ markRows' \in [MarkKeys -> Nat]
        /\ \A j \in MarkKeys : markRows'[j] >= markRows[j] /\ markRows'[j] <= 1
    <2>1. markRows \in [MarkKeys -> Nat] /\ \A j \in MarkKeys : markRows[j] <= 1
      BY DEF PhoneTypeOK, OneRow
    <2>2. CASE markRows' = markRows
      BY <2>1, <2>2
    <2>3. CASE markRows' = [markRows EXCEPT ![k] = 1]
      BY <1>6, <2>1, <2>3
    <2> QED
      BY <1>7, <2>2, <2>3
  <1>9. /\ tabPc' \in [Tabs -> Pcs] /\ todo' \in [Tabs -> SUBSET DOMAIN made']
        /\ again' \in [Tabs -> BOOLEAN] /\ lost' \in 0 .. MaxLost
        /\ \A u \in Tabs \ {t} : tabPc'[u] = tabPc[u] /\ todo'[u] = todo[u]
        /\ tabPc'[t] = "idle"
           \/ (tabPc'[t] = "remember" /\ todo' = todo /\ markRows'[k] = 1)
    <2>1. CASE underWay /\ markRows' = [markRows EXCEPT ![k] = 1] /\ Answer(t, "remember")
      <3>1. markRows'[k] = 1
        BY <2>1 DEF PhoneTypeOK
      <3>2. "remember" \in Pcs
        BY DEF Pcs
      <3> QED
        BY <1>1, <2>1, <3>1, <3>2, AnswerTypes
    <2>2. CASE markRows' = markRows /\ lost' = lost /\ Stop(t)
      BY <1>1, <2>2, StopTypes DEF PhoneTypeOK
    <2> QED
      BY <1>7, <2>1, <2>2
  <1>10. PhoneTypeOK'
    BY <1>1, <1>8, <1>9 DEF PhoneTypeOK, Pcs
  <1>11. Onward
    BY <1>1, <1>8 DEF Onward, PhoneTypeOK, PhoneDays
  <1>12. TabRight(t)'
    <2>1. CASE tabPc'[t] = "idle"
      BY <2>1, IdleIsRight
    <2>2. CASE tabPc'[t] = "remember" /\ todo' = todo /\ markRows'[k] = 1
      <3>1. Sending(t)' = i /\ todo'[t] # {}
        BY <1>2, <1>3, <2>2 DEF Sending
      <3>2. InHand(t, i)'
        BY <1>1, <1>4, <1>5, <2>2 DEF InHand
      <3> QED
        BY <3>1, <3>2 DEF TabRight, InHand
    <2> QED
      BY <1>9, <2>1, <2>2
  <1>13. \A u \in Tabs : TabRight(u)'
    BY <1>9, <1>10, <1>11, <1>12, OthersKept
  <1>14. TabsRight'
    BY <1>13 DEF TabsRight, TabRight
  <1>15. OneRow'
    BY <1>8 DEF OneRow
  <1>16. NoneLost' /\ MadeIs' /\ SavedHaveRows' /\ ArrivedHaveMarks'
    BY <1>1, <1>10, <1>11, <1>15, NoneLostKept, MadeKept, SavedKept, ArrivedKept
  <1> QED
    BY <1>10, <1>14, <1>15, <1>16

LEMMA RememberMarkKeeps ==
  ASSUME PhoneIInv, NEW t \in Tabs, RememberMark(t)
  PROVE  PhoneIInv'
  <1> USE DEF PhoneIInv
  <1>1. /\ tabPc[t] = "remember"
        /\ UNCHANGED <<day, made, queue, checklistVars, refused, todo, again, lost>>
    BY DEF RememberMark
  <1>2. TabRight(t) /\ todo[t] # {}
    BY <1>1, TabsRightIs DEF TabRight
  <1>3. PICK i \in DOMAIN made : i = Sending(t)
    BY <1>2, SendingIs
  <1>4. made[i].kind = "mark" /\ made[i] \in Changes /\ markRows[made[i].place] > 0
    BY <1>1, <1>2, <1>3, MadeChanges DEF TabRight, InHand
  <1>5. PICK k \in MarkKeys : k = made[i].place
    BY <1>4 DEF MadeIs, Changes, Places
  <1>6. savedMarks' = [savedMarks EXCEPT ![k] = day] /\ MoveTab(t, "remove")
    BY <1>3, <1>5 DEF RememberMark
  <1>7. tabPc' \in [Tabs -> Pcs] /\ tabPc'[t] = "remove"
        /\ \A u \in Tabs \ {t} : tabPc'[u] = tabPc[u]
    BY <1>6, MoveTypes DEF Pcs
  <1>8. PhoneTypeOK'
    BY <1>1, <1>6, <1>7 DEF PhoneTypeOK, checklistVars, Pcs
  <1>9. Onward
    BY <1>1, OnwardStays
  <1>10. Settled(i) /\ Settled(i)'
    BY <1>1, <1>4 DEF Settled, IsSaved, checklistVars
  <1>11. TabRight(t)'
    <2>1. Sending(t)' = i /\ todo'[t] # {}
      BY <1>1, <1>2, <1>3 DEF Sending
    <2>2. InHand(t, i)'
      BY <1>7, <1>10 DEF InHand
    <2> QED
      BY <2>1, <2>2 DEF TabRight, InHand
  <1>12. \A u \in Tabs : TabRight(u)'
    BY <1>1, <1>7, <1>8, <1>9, <1>11, OthersKept
  <1>13. TabsRight'
    BY <1>12 DEF TabsRight, TabRight
  <1>14. SavedHaveRows'
    BY <1>1, <1>4, <1>5, <1>6 DEF SavedHaveRows, PhoneTypeOK, checklistVars
  <1>15. OneRow'
    BY <1>1 DEF OneRow, checklistVars
  <1>16. NoneLost' /\ MadeIs' /\ ArrivedHaveMarks'
    BY <1>1, <1>8, <1>9, <1>15, NoneLostKept, MadeKept, ArrivedKept DEF checklistVars
  <1> QED
    BY <1>8, <1>13, <1>14, <1>15, <1>16

\* A photo is let go because it is gone or refused, never for a lost answer.
LEMMA StartPhotoKeeps ==
  ASSUME PhoneIInv, NEW t \in Tabs, StartPhoto(t)
  PROVE  PhoneIInv'
  <1> USE DEF PhoneIInv
  <1>1. /\ tabPc[t] = "start"
        /\ UNCHANGED <<day, made, queue, savedMarks, checklistVars, todo, again, lost>>
    BY DEF StartPhoto
  <1>2. TabRight(t) /\ todo[t] # {}
    BY <1>1, TabsRightIs DEF TabRight
  <1>3. PICK i \in DOMAIN made : i = Sending(t)
    BY <1>2, SendingIs
  <1>4. /\ made[i].kind = "photo"
        /\ made[i].place \in MarkKeys => markRows[made[i].place] > 0
    BY <1>1, <1>2, <1>3 DEF TabRight, InHand
  <1>5. \/ IsGone(made[i]) /\ MoveTab(t, "remove") /\ refused' = refused
        \/ MoveTab(t, "finish") /\ refused' = refused
        \/ MoveTab(t, "remove") /\ refused' = refused \cup {i}
    BY <1>3 DEF StartPhoto
  <1>6. PICK step \in {"remove", "finish"} : MoveTab(t, step)
    BY <1>5
  <1>7. tabPc' \in [Tabs -> Pcs] /\ tabPc'[t] = step
        /\ \A u \in Tabs \ {t} : tabPc'[u] = tabPc[u]
    BY <1>6, MoveTypes DEF Pcs
  <1>8. refused' \subseteq DOMAIN made' /\ refused \subseteq refused'
    BY <1>1, <1>5 DEF PhoneTypeOK
  <1>9. PhoneTypeOK'
    BY <1>1, <1>7, <1>8 DEF PhoneTypeOK, checklistVars, Pcs
  <1>10. Onward
    BY <1>1, <1>8, OnwardStays
  <1>11. Sending(t)' = i /\ todo'[t] # {}
    BY <1>1, <1>2, <1>3 DEF Sending
  <1>12. tabPc'[t] = "remove" => Settled(i)'
    <2> SUFFICES ASSUME tabPc'[t] = "remove" PROVE Settled(i)'
      OBVIOUS
    <2>1. CASE IsGone(made[i])
      BY <1>1, <2>1 DEF IsGone, Settled, checklistVars
    <2>2. CASE MoveTab(t, "finish")
      BY <2>2 DEF MoveTab, PhoneTypeOK
    <2>3. CASE i \in refused'
      BY <2>3 DEF Settled
    <2> QED
      BY <1>5, <2>1, <2>2, <2>3
  <1>13. InHand(t, i)'
    BY <1>1, <1>4, <1>7, <1>12 DEF InHand, checklistVars
  <1>14. TabRight(t)'
    BY <1>11, <1>13 DEF TabRight, InHand
  <1>15. \A u \in Tabs : TabRight(u)'
    BY <1>1, <1>7, <1>9, <1>10, <1>14, OthersKept
  <1> QED
    BY <1>1, <1>9, <1>10, <1>15, Kept DEF checklistVars

\* A photo that arrives has its mark's row, and that row stays.
LEMMA FinishPhotoKeeps ==
  ASSUME PhoneIInv, NEW t \in Tabs, FinishPhoto(t)
  PROVE  PhoneIInv'
  <1> USE DEF PhoneIInv
  <1>1. /\ tabPc[t] = "finish"
        /\ UNCHANGED <<day, made, queue, savedMarks, markRows, removedMarks, underWay, refused>>
    BY DEF FinishPhoto
  <1>2. TabRight(t) /\ todo[t] # {}
    BY <1>1, TabsRightIs DEF TabRight
  <1>3. PICK i \in DOMAIN made : i = Sending(t)
    BY <1>2, SendingIs
  <1>4. /\ made[i].kind = "photo" /\ made[i] \in Changes
        /\ made[i].place \in MarkKeys => markRows[made[i].place] > 0
    BY <1>1, <1>2, <1>3, MadeChanges DEF TabRight, InHand
  <1>5. \/ /\ inUse' = [inUse EXCEPT ![made[i].place] = i]
           /\ arrived' = arrived \cup {i} /\ Answer(t, "remove")
        \/ ~underWay /\ MoveTab(t, "remove") /\ UNCHANGED <<inUse, arrived, todo, again, lost>>
    BY <1>3 DEF FinishPhoto
  <1>6. "remove" \in Pcs
    BY DEF Pcs
  <1>7. /\ tabPc' \in [Tabs -> Pcs] /\ todo' \in [Tabs -> SUBSET DOMAIN made']
        /\ again' \in [Tabs -> BOOLEAN] /\ lost' \in 0 .. MaxLost
        /\ \A u \in Tabs \ {t} : tabPc'[u] = tabPc[u] /\ todo'[u] = todo[u]
        /\ \/ tabPc'[t] = "idle"
           \/ tabPc'[t] = "remove" /\ todo' = todo /\ (i \in arrived' \/ ~underWay)
    <2>1. CASE arrived' = arrived \cup {i} /\ Answer(t, "remove")
      BY <1>1, <1>6, <2>1, AnswerTypes
    <2>2. CASE ~underWay /\ MoveTab(t, "remove") /\ UNCHANGED <<todo, again, lost>>
      BY <1>1, <1>6, <2>2, MoveTypes DEF PhoneTypeOK
    <2> QED
      BY <1>5, <2>1, <2>2
  <1>8. /\ arrived' = arrived \/ arrived' = arrived \cup {i}
        /\ inUse' \in [Places -> 0 .. Len(made')]
    <2>1. i \in 0 .. Len(made)
      BY DEF PhoneTypeOK
    <2> QED
      BY <1>1, <1>5, <2>1 DEF PhoneTypeOK
  <1>9. PhoneTypeOK'
    BY <1>1, <1>7, <1>8 DEF PhoneTypeOK, Pcs
  <1>10. Onward
    BY <1>1, <1>8 DEF PhoneTypeOK, PhoneDays, Onward
  <1>11. TabRight(t)'
    <2>1. CASE tabPc'[t] = "idle"
      BY <2>1, IdleIsRight
    <2>2. CASE tabPc'[t] = "remove" /\ todo' = todo /\ (i \in arrived' \/ ~underWay)
      <3>1. Sending(t)' = i /\ todo'[t] # {}
        BY <1>1, <1>2, <1>3, <2>2 DEF Sending
      <3>2. Settled(i)'
        BY <1>1, <1>4, <2>2 DEF Settled, IsSaved
      <3>3. InHand(t, i)'
        BY <2>2, <3>2 DEF InHand
      <3> QED
        BY <3>1, <3>3 DEF TabRight, InHand
    <2> QED
      BY <1>7, <2>1, <2>2
  <1>12. \A u \in Tabs : TabRight(u)'
    BY <1>7, <1>9, <1>10, <1>11, OthersKept
  <1>13. TabsRight'
    BY <1>12 DEF TabsRight, TabRight
  <1>14. OneRow' /\ SavedHaveRows' /\ MadeIs' /\ NoneLost'
    BY <1>1, <1>9, <1>10, MadeKept, NoneLostKept DEF OneRow, SavedHaveRows
  <1>15. ArrivedHaveMarks'
    <2> SUFFICES ASSUME NEW j \in arrived', made[j].place \in MarkKeys
                 PROVE  markRows[made[j].place] = 1
      BY <1>1 DEF ArrivedHaveMarks
    <2>1. CASE j \in arrived
      BY <2>1 DEF ArrivedHaveMarks
    <2>2. CASE j = i
      <3>1. markRows[made[i].place] \in Nat /\ markRows[made[i].place] <= 1
        BY <2>2 DEF PhoneTypeOK, OneRow
      <3> QED
        BY <1>4, <2>2, <3>1
    <2> QED
      BY <1>8, <2>1, <2>2
  <1> QED
    BY <1>9, <1>13, <1>14, <1>15

LEMMA RemoveSentKeeps ==
  ASSUME PhoneIInv, NEW t \in Tabs, RemoveSent(t)
  PROVE  PhoneIInv'
  <1> USE DEF PhoneIInv
  <1>1. /\ tabPc[t] = "remove" /\ MoveTab(t, "next")
        /\ UNCHANGED <<day, made, savedMarks, checklistVars, refused, again, lost>>
    BY DEF RemoveSent
  <1>2. TabRight(t) /\ todo[t] # {}
    BY <1>1, TabsRightIs DEF TabRight
  <1>3. PICK i \in DOMAIN made : i = Sending(t)
    BY <1>2, SendingIs
  <1>4. Settled(i)
    BY <1>1, <1>2, <1>3 DEF TabRight, InHand
  <1>5. queue' = queue \ {i} /\ todo' = [todo EXCEPT ![t] = todo[t] \ {i}]
    BY <1>3 DEF RemoveSent
  <1>6. tabPc' \in [Tabs -> Pcs] /\ tabPc'[t] = "next"
        /\ \A u \in Tabs \ {t} : tabPc'[u] = tabPc[u] /\ todo'[u] = todo[u]
    BY <1>1, <1>5, MoveTypes DEF Pcs, PhoneTypeOK
  <1>7. PhoneTypeOK'
    BY <1>1, <1>5, <1>6 DEF PhoneTypeOK, checklistVars, Pcs
  <1>8. Onward
    BY <1>1, OnwardStays
  <1>9. Settled(i)'
    BY <1>4, <1>7, <1>8, SettledStays
  <1>10. \A u \in Tabs : TabRight(u)'
    BY <1>6, <1>7, <1>8, IdleIsRight, OthersKept
  <1> QED
    BY <1>1, <1>5, <1>7, <1>8, <1>9, <1>10, Kept DEF checklistVars

LEMMA TabFailsKeeps ==
  ASSUME PhoneIInv, NEW t \in Tabs, TabFails(t)
  PROVE  PhoneIInv'
  <1> USE DEF PhoneIInv
  <1>1. UNCHANGED <<day, made, queue, savedMarks, checklistVars, refused>>
        /\ MoveTab(t, "idle") /\ lost' \in 0 .. MaxLost
    BY PhoneAssumption DEF TabFails, PhoneTypeOK
  <1>2. tabPc' \in [Tabs -> Pcs] /\ tabPc'[t] = "idle"
        /\ \A u \in Tabs \ {t} : tabPc'[u] = tabPc[u] /\ todo'[u] = todo[u]
    BY <1>1, MoveTypes DEF Pcs, PhoneTypeOK, TabFails
  <1>3. PhoneTypeOK'
    BY <1>1, <1>2 DEF PhoneTypeOK, TabFails, checklistVars, Pcs
  <1>4. Onward
    BY <1>1, OnwardStays
  <1>5. \A u \in Tabs : TabRight(u)'
    BY <1>2, <1>3, <1>4, IdleIsRight, OthersKept
  <1> QED
    BY <1>1, <1>3, <1>4, <1>5, Kept DEF checklistVars

\* The steps of no tab: the checklist's, and the phone's forgetting.
LEMMA NoTabKeeps ==
  ASSUME PhoneIInv, PhoneTypeOK', Onward, UNCHANGED <<made, markRows, arrived, tabVars>>,
         \A k \in MarkKeys : savedMarks'[k] = savedMarks[k] \/ savedMarks'[k] = NotSaved,
         \A i \in queue : i \in queue' \/ Settled(i)'
  PROVE  PhoneIInv'
  <1>1. ASSUME NEW u \in Tabs PROVE TabRight(u)'
    <2>1. TabRight(u)
      BY TabsRightIs DEF PhoneIInv
    <2> QED
      BY <2>1, TabKept DEF PhoneIInv, tabVars
  <1> QED
    BY <1>1, Kept

LEMMA RemoveMarkKeeps ==
  ASSUME PhoneIInv, NEW k \in MarkKeys, RemoveMark(k)
  PROVE  PhoneIInv'
  <1> USE DEF PhoneIInv
  <1>1. PhoneTypeOK'
    BY DEF PhoneTypeOK, RemoveMark, tabVars
  <1>2. Onward
    BY DEF PhoneTypeOK, PhoneDays, RemoveMark, Onward
  <1> QED
    BY <1>1, <1>2, NoTabKeeps DEF RemoveMark

LEMMA EndChecklistKeeps ==
  ASSUME PhoneIInv, EndChecklist
  PROVE  PhoneIInv'
  <1> USE DEF PhoneIInv
  <1>1. PhoneTypeOK'
    BY DEF PhoneTypeOK, EndChecklist, tabVars
  <1>2. Onward
    BY DEF PhoneTypeOK, PhoneDays, EndChecklist, Onward
  <1> QED
    BY <1>1, <1>2, NoTabKeeps DEF EndChecklist

LEMMA ForgetEndedKeeps ==
  ASSUME PhoneIInv, ForgetEnded
  PROVE  PhoneIInv'
  <1> USE DEF PhoneIInv
  <1>1. PhoneTypeOK'
    BY DEF PhoneTypeOK, ForgetEnded, checklistVars, tabVars
  <1>2. Onward
    BY OnwardStays DEF ForgetEnded
  <1>3. \A i \in queue : Settled(i)'
    BY DEF ForgetEnded, checklistVars, Settled
  <1> QED
    BY <1>1, <1>2, <1>3, NoTabKeeps DEF ForgetEnded, checklistVars

LEMMA ForgetOldKeeps ==
  ASSUME PhoneIInv, ForgetOld
  PROVE  PhoneIInv'
  <1> USE DEF PhoneIInv
  <1>1. UNCHANGED <<day, made, checklistVars, refused, tabVars, lost>>
    BY DEF ForgetOld
  <1>2. savedMarks' \in [MarkKeys -> PhoneDays \cup {NotSaved}]
        /\ \A k \in MarkKeys : savedMarks'[k] = savedMarks[k] \/ savedMarks'[k] = NotSaved
    BY DEF PhoneTypeOK, ForgetOld
  <1>3. queue' \subseteq queue /\ \A i \in queue : i \in queue' \/ IsOld(made[i].day)
    BY DEF ForgetOld
  <1>4. PhoneTypeOK'
    BY <1>1, <1>2, <1>3 DEF PhoneTypeOK, checklistVars, tabVars
  <1>5. Onward
    BY <1>1, OnwardStays
  <1>6. \A i \in queue : i \in queue' \/ Settled(i)'
    BY <1>1, <1>3 DEF Settled, IsOld
  <1> QED
    BY <1>1, <1>2, <1>4, <1>5, <1>6, NoTabKeeps DEF checklistVars

LEMMA NextDayKeeps ==
  ASSUME PhoneIInv, NextDay
  PROVE  PhoneIInv'
  <1> USE DEF PhoneIInv
  <1>1. UNCHANGED <<made, queue, savedMarks, checklistVars, refused, tabVars, lost>>
    BY DEF NextDay
  <1>2. day' \in PhoneDays /\ day' >= day
    BY PhoneAssumption DEF NextDay, PhoneTypeOK, PhoneDays
  <1>3. PhoneTypeOK'
    BY <1>1, <1>2 DEF PhoneTypeOK, checklistVars, tabVars
  <1>4. Onward
    BY <1>1, <1>2 DEF PhoneTypeOK, Onward, checklistVars
  <1> QED
    BY <1>1, <1>3, <1>4, NoTabKeeps DEF checklistVars

-----------------------------------------------------------------------------
LEMMA PhoneStart ==
  ASSUME PhoneInit
  PROVE  PhoneIInv
  <1>1. PhoneTypeOK
    <2>1. made \in Seq(Changes) /\ Len(made) = 0 /\ DOMAIN made = {}
      BY DEF PhoneInit
    <2> QED
      BY <2>1, PhoneAssumption DEF PhoneInit, PhoneTypeOK, PhoneDays
  <1>2. NoneLost /\ MadeIs /\ ArrivedHaveMarks
    BY DEF PhoneInit, NoneLost, MadeIs, ArrivedHaveMarks
  <1>3. OneRow /\ SavedHaveRows
    BY DEF PhoneInit, OneRow, SavedHaveRows
  <1>4. TabsRight
    BY DEF PhoneInit, TabsRight
  <1> QED
    BY <1>1, <1>2, <1>3, <1>4 DEF PhoneIInv

LEMMA PhoneStutters ==
  ASSUME PhoneIInv, UNCHANGED phoneVars
  PROVE  PhoneIInv'
  <1> USE DEF PhoneIInv, phoneVars, checklistVars, tabVars
  <1>1. PhoneTypeOK'
    BY DEF PhoneTypeOK
  <1>2. Onward
    BY OnwardStays
  <1> QED
    BY <1>1, <1>2, NoTabKeeps

LEMMA PhoneStep ==
  ASSUME PhoneIInv, [PhoneNext]_phoneVars
  PROVE  PhoneIInv'
  <1>1. ASSUME NEW t \in Tabs, OnPage(t) PROVE PhoneIInv'
    BY <1>1, OnPageIs, EnqueueKeeps DEF PhoneIInv
  <1>2. ASSUME NEW t \in Tabs, RunStep(t) PROVE PhoneIInv'
    BY <1>2, SendNextKeeps, RunEndsKeeps, AddMarkKeeps, RememberMarkKeeps, StartPhotoKeeps,
       FinishPhotoKeeps, RemoveSentKeeps DEF RunStep
  <1>3. ASSUME NEW t \in Tabs, StartRun(t) \/ TabFails(t) PROVE PhoneIInv'
    BY <1>3, StartRunKeeps, TabFailsKeeps
  <1>4. ASSUME NEW k \in MarkKeys, RemoveMark(k) PROVE PhoneIInv'
    BY <1>4, RemoveMarkKeeps
  <1>5. CASE EndChecklist \/ ForgetEnded \/ ForgetOld \/ NextDay
    BY <1>5, EndChecklistKeeps, ForgetEndedKeeps, ForgetOldKeeps, NextDayKeeps
  <1>6. CASE UNCHANGED phoneVars
    BY <1>6, PhoneStutters
  <1> QED
    BY <1>1, <1>2, <1>3, <1>4, <1>5, <1>6 DEF PhoneNext

(* The queue on the phone and the rows of the server keep in step in every *)
(* run, whatever is lost and however many tabs send (queued-changes.ts     *)
(* runQueue, handover-records.ts addDamageMark).                           *)
THEOREM PhoneInvariance == PhoneSpec => []PhoneIInv
  <1>1. PhoneInit => PhoneIInv
    BY PhoneStart
  <1>2. PhoneIInv /\ [PhoneNext]_phoneVars => PhoneIInv'
    BY PhoneStep
  <1> QED
    BY <1>1, <1>2, PTL DEF PhoneSpec

(* What was made on the phone is on it until it is settled, a mark has one *)
(* row however often it is sent, and a photo arrives after its mark        *)
(* (queued-changes.ts runQueue, handover-records.ts addDamageMark).        *)
THEOREM NothingIsLost == PhoneSpec => []NothingLost
  <1>1. PhoneIInv => NothingLost
    BY DEF PhoneIInv, NoneLost, OneRow, ArrivedHaveMarks, NothingLost, Settled
  <1> QED
    BY <1>1, PhoneInvariance, PTL

-----------------------------------------------------------------------------
(* Billing: what documents say, and how their numbers run.                 *)

\* What a credit or a line taken back points at is an earlier line of the same rental.
LineRight(l) ==
    LET of == ledger[l].of
    IN  /\ ledger[l].kind = "credit" =>
              of \in 1..(l - 1) /\ ledger[of].kind = "rent" /\ ledger[of].rental = ledger[l].rental
        /\ ledger[l].kind = "reversal" =>
              of \in 1..(l - 1) /\ ledger[of].kind # "reversal" /\ ledger[of].rental = ledger[l].rental

\* A line is taken back once.
ReversedOnce ==
    \A l, m \in DOMAIN ledger :
        (ledger[l].kind = "reversal" /\ ledger[m].kind = "reversal" /\ ledger[l].of = ledger[m].of) => l = m

\* What a credit note corrects.
Corrects(l, d) ==
    /\ ledger[l].kind = "credit" \/ TakesBack(l, {"rent", "charge"})
    /\ d = CorrectedBy(l)
    /\ d = 0 => IsReversed(ledger[l].of)

\* Each document carries its kind of lines.
PaperRight(l) ==
    IsOn(l) =>
        LET paper == papers[onPaper[l]]
        IN  /\ paper.rental = ledger[l].rental
            /\ paper.kind = "invoice" => IsCharge(l)
            /\ paper.kind = "credit_note" => Corrects(l, paper.relatesTo)
            /\ paper.kind = "receipt" => ledger[l].kind = "payment"

\* A plan made under the lock stays what the rental needs until it is recorded.
PlannedRight(plan, rental) ==
    /\ plan.kind \in Kinds /\ plan.relatesTo \in 0..Len(papers)
    /\ \A l \in plan.lines :
          /\ l \in DOMAIN ledger /\ ledger[l].rental = rental /\ IsWaiting(l)
          /\ plan.kind = "credit_note" => Corrects(l, plan.relatesTo)

IssuingRight(i) ==
    issuing[i].step = "numbered" =>
        /\ PlannedRight(issuing[i].plan, issuing[i].rental)
        /\ issuing[i].number = nextNumber[SeriesOf(issuing[i].plan.kind)]

\* Each rental and each series is one transaction's.
OneAtATime ==
    \A i, j \in Workers :
        (issuing[i].step = "numbered" /\ issuing[j].step = "numbered" /\ i # j) =>
            /\ issuing[i].rental # issuing[j].rental
            /\ SeriesOf(issuing[i].plan.kind) # SeriesOf(issuing[j].plan.kind)

Paper == [rental : Rentals, kind : Kinds, relatesTo : Nat, number : Nat]
Plan == [kind : Kinds \cup {"none"}, lines : SUBSET (1..MaxLines), relatesTo : Nat]
Issue == [step : {"idle", "look", "numbered"}, rental : Rentals \cup {NoRental}, now : BOOLEAN,
          plan : Plan, number : Nat]

BillingTypes ==
    /\ ledger \in Seq(Line) /\ Len(ledger) <= MaxLines
    /\ rentToCome \subseteq Rentals
    /\ papers \in Seq(Paper)
    /\ \A d \in DOMAIN papers : papers[d].relatesTo \in 0..(d - 1)
    /\ onPaper \in Seq(Nat) /\ Len(onPaper) = Len(ledger)
    /\ \A l \in DOMAIN onPaper : onPaper[l] <= Len(papers)
    /\ nextNumber \in [Series -> Nat] /\ isStarted \in [Series -> BOOLEAN]
    /\ issuing \in [Workers -> Issue]
    /\ \A i \in Workers : issuing[i].step # "idle" => issuing[i].rental \in Rentals
    /\ \A i \in Workers : issuing[i].plan = NoPlan \/ issuing[i].plan.kind \in Kinds
    /\ toDo \in [Nights -> SUBSET Rentals]

LedgerRight == ReversedOnce /\ \A l \in DOMAIN ledger : LineRight(l) /\ PaperRight(l)
IssuersRight == OneAtATime /\ \A i \in Workers : IssuingRight(i)

BillingIInv == BillingTypes /\ LedgerRight /\ IssuersRight /\ NumbersUsed

\* What the types say of each line and each document.
LEMMA LinesAre ==
  ASSUME BillingTypes
  PROVE  /\ Len(ledger) \in Nat /\ Len(papers) \in Nat /\ MaxLines \in Nat
         /\ DOMAIN ledger = 1..Len(ledger) /\ DOMAIN papers = 1..Len(papers)
         /\ DOMAIN onPaper = DOMAIN ledger
         /\ \A l \in DOMAIN ledger : /\ ledger[l] \in Line /\ l \in 1..MaxLines
                                     /\ onPaper[l] \in 0..Len(papers)
         /\ \A d \in DOMAIN papers : papers[d] \in Paper
  <1>1. /\ Len(ledger) \in Nat /\ DOMAIN ledger = 1..Len(ledger)
        /\ ledger \in [1..Len(ledger) -> Line]
    BY LenProperties DEF BillingTypes
  <1>2. /\ Len(papers) \in Nat /\ DOMAIN papers = 1..Len(papers)
        /\ papers \in [1..Len(papers) -> Paper]
    BY LenProperties DEF BillingTypes
  <1>3. /\ DOMAIN onPaper = 1..Len(ledger) /\ onPaper \in [1..Len(ledger) -> Nat]
    BY LenProperties DEF BillingTypes
  <1>4. MaxLines \in Nat
    BY BillingAssumption
  <1>5. \A l \in DOMAIN ledger : l \in 1..MaxLines /\ ledger[l] \in Line
    BY <1>1, <1>4 DEF BillingTypes
  <1>6. \A l \in DOMAIN ledger : onPaper[l] \in 0..Len(papers)
    BY <1>1, <1>2, <1>3 DEF BillingTypes
  <1> QED
    BY <1>1, <1>2, <1>3, <1>4, <1>5, <1>6

\* A note goes on correcting what it corrected, while what it corrects stays where it is and
\* what was taken back stays taken back.
LEMMA CorrectsStays ==
  ASSUME BillingTypes, LedgerRight, NEW l \in DOMAIN ledger, NEW d, Corrects(l, d),
         l \in DOMAIN ledger', ledger'[l] = ledger[l],
         \A of \in DOMAIN ledger :
            of = ledger[l].of =>
               /\ ledger'[of] = ledger[of] /\ onPaper'[of] = onPaper[of]
               /\ IsReversed(of) => IsReversed(of)'
  PROVE  Corrects(l, d)'
  <1>0. PICK of : of = ledger[l].of
    OBVIOUS
  <1>1. of \in DOMAIN ledger
    <2>1. ledger[l].kind \in {"credit", "reversal"}
      BY DEF Corrects, TakesBack
    <2> QED
      BY <1>0, <2>1, LinesAre DEF LedgerRight, LineRight
  <1>2. /\ ledger'[l].of = of /\ ledger'[of] = ledger[of] /\ onPaper'[of] = onPaper[of]
        /\ IsReversed(of) => IsReversed(of)'
    BY <1>0, <1>1
  <1>3. /\ CorrectedBy(l) = onPaper[of] /\ CorrectedBy(l)' = onPaper'[of]
    BY <1>0, <1>2 DEF CorrectedBy
  <1>4. TakesBack(l, {"rent", "charge"}) => TakesBack(l, {"rent", "charge"})'
    BY <1>0, <1>2 DEF TakesBack, IsOn
  <1>5. ledger[l].kind = "credit" \/ TakesBack(l, {"rent", "charge"})
    BY DEF Corrects
  <1>6. d = CorrectedBy(l) /\ (d = 0 => IsReversed(of))
    BY <1>0 DEF Corrects
  <1>7. d = CorrectedBy(l)'
    BY <1>2, <1>3, <1>6
  <1>8. d = 0 => IsReversed(ledger[l].of)'
    <2>1. d = 0 => IsReversed(of)'
      BY <1>2, <1>6
    <2>2. IsReversed(ledger[l].of)' <=> IsReversed(of)'
      BY <1>2 DEF IsReversed
    <2> QED
      BY <2>1, <2>2
  <1>9. ledger'[l].kind = "credit" \/ TakesBack(l, {"rent", "charge"})'
    BY <1>4, <1>5
  <1> QED
    BY <1>7, <1>8, <1>9 DEF Corrects

\* A line added (with its rental locked) is on no document, and is not one of a plan's.
LEMMA AddLineKeeps ==
  ASSUME BillingIInv, NEW r \in Rentals, NEW kind \in LineKinds, NEW of \in 0..MaxLines,
         AddLine(r, kind, of),
         kind = "credit" => of \in DOMAIN ledger /\ ledger[of].kind = "rent" /\ ledger[of].rental = r,
         kind = "reversal" => /\ of \in DOMAIN ledger /\ ledger[of].kind # "reversal"
                              /\ ledger[of].rental = r /\ ~IsReversed(of)
  PROVE  BillingIInv'
  <1> DEFINE line == [rental |-> r, kind |-> kind, of |-> of]
  <1>0. PICK n : n = Len(ledger) + 1
    OBVIOUS
  <1>1. BillingTypes /\ LedgerRight /\ IssuersRight /\ NumbersUsed
    BY DEF BillingIInv
  <1>2. /\ Len(ledger) < MaxLines /\ RentalFreeOfIssuing(r)
        /\ ledger' = Append(ledger, line) /\ onPaper' = Append(onPaper, 0)
        /\ UNCHANGED <<rentToCome, papers, nextNumber, isStarted, issuing, toDo>>
    BY DEF AddLine
  <1>3. line \in Line /\ line.rental = r /\ line.kind = kind /\ line.of = of
    BY DEF Line
  <1> HIDE DEF line
  <1>4. /\ ledger' \in Seq(Line) /\ Len(ledger') = n /\ DOMAIN ledger' = 1..n
        /\ ledger'[n] = line /\ \A l \in DOMAIN ledger : ledger'[l] = ledger[l]
    <2>1. ledger \in Seq(Line)
      BY <1>1 DEF BillingTypes
    <2>2. /\ ledger' \in Seq(Line) /\ Len(ledger') = n
          /\ ledger'[n] = line /\ \A l \in 1..Len(ledger) : ledger'[l] = ledger[l]
      BY <1>0, <1>2, <1>3, <2>1, AppendProperties
    <2> QED
      BY <1>0, <1>1, <2>2, LinesAre, LenProperties
  <1>5. /\ onPaper' \in Seq(Nat) /\ Len(onPaper') = n /\ DOMAIN onPaper' = 1..n
        /\ onPaper'[n] = 0 /\ \A l \in DOMAIN ledger : onPaper'[l] = onPaper[l]
    <2>1. onPaper \in Seq(Nat) /\ Len(onPaper) = Len(ledger) /\ 0 \in Nat
      BY <1>1 DEF BillingTypes
    <2>2. /\ onPaper' \in Seq(Nat) /\ Len(onPaper') = n
          /\ onPaper'[n] = 0 /\ \A l \in 1..Len(onPaper) : onPaper'[l] = onPaper[l]
      BY <1>0, <1>2, <2>1, AppendProperties
    <2> QED
      BY <1>0, <1>1, <2>1, <2>2, LinesAre, LenProperties
  <1>6. /\ DOMAIN ledger' = DOMAIN ledger \cup {n} /\ n \notin DOMAIN ledger /\ n \in Nat
        /\ \A l \in DOMAIN ledger : l < n /\ l \in Nat
    BY <1>0, <1>1, <1>4, LinesAre
  <1>7. BillingTypes'
    <2>1. Len(ledger') <= MaxLines
      BY <1>0, <1>1, <1>2, <1>4, LinesAre
    <2>2. \A l \in DOMAIN onPaper' : onPaper'[l] <= Len(papers')
      BY <1>1, <1>2, <1>4, <1>5, <1>6, LinesAre
    <2> QED
      BY <1>1, <1>2, <1>4, <1>5, <2>1, <2>2 DEF BillingTypes
  <1>8. \A l \in DOMAIN ledger : /\ IsOn(l)' <=> IsOn(l)
                                 /\ IsReversed(l)' <=> (IsReversed(l) \/ (kind = "reversal" /\ of = l))
    <2>1. ledger'[n].kind = kind /\ ledger'[n].of = of
      BY <1>3, <1>4
    <2>2. ASSUME NEW l \in DOMAIN ledger
          PROVE  IsReversed(l)' <=> (IsReversed(l) \/ (kind = "reversal" /\ of = l))
      <3>1. CASE IsReversed(l)
        BY <1>4, <1>6, <3>1 DEF IsReversed
      <3>2. CASE kind = "reversal" /\ of = l
        BY <1>6, <2>1, <3>2 DEF IsReversed
      <3>3. CASE ~IsReversed(l) /\ ~(kind = "reversal" /\ of = l)
        BY <1>4, <1>6, <2>1, <3>3 DEF IsReversed
      <3> QED
        BY <3>1, <3>2, <3>3
    <2> QED
      BY <1>5, <2>2 DEF IsOn
  <1>9. ~IsOn(n)'
    BY <1>5 DEF IsOn
  <1>10. ReversedOnce'
    <2>1. \A l \in DOMAIN ledger : ledger[l].kind = "reversal" => (kind = "reversal" => ledger[l].of # of)
      BY DEF IsReversed
    <2> QED
      BY <1>1, <1>3, <1>4, <1>6, <2>1 DEF ReversedOnce, LedgerRight
  <1>11. \A l \in DOMAIN ledger' : LineRight(l)'
    <2>1. ASSUME NEW l \in DOMAIN ledger PROVE LineRight(l)'
      <3>1. LineRight(l) /\ ledger'[l] = ledger[l]
        BY <1>1, <1>4 DEF LedgerRight
      <3>2. ledger[l].kind \in {"credit", "reversal"} =>
               ledger'[ledger[l].of] = ledger[ledger[l].of]
        BY <1>1, <1>4, <3>1, LinesAre DEF LineRight
      <3> QED
        BY <3>1, <3>2 DEF LineRight
    <2>2. LineRight(n)'
      <3>1. kind \in {"credit", "reversal"} => of \in 1..(n - 1) /\ ledger'[of] = ledger[of]
        BY <1>0, <1>1, <1>4, LinesAre
      <3> QED
        BY <1>3, <1>4, <3>1 DEF LineRight
    <2> QED
      BY <1>6, <2>1, <2>2
  <1>12. ASSUME NEW l \in DOMAIN ledger, NEW d, Corrects(l, d) PROVE Corrects(l, d)'
    BY <1>1, <1>4, <1>5, <1>6, <1>8, <1>12, CorrectsStays
  <1>13. \A l \in DOMAIN ledger' : PaperRight(l)'
    <2>1. ASSUME NEW l \in DOMAIN ledger PROVE PaperRight(l)'
      <3>1. PaperRight(l) /\ ledger'[l] = ledger[l] /\ onPaper'[l] = onPaper[l] /\ papers' = papers
        BY <1>1, <1>2, <1>4, <1>5 DEF LedgerRight
      <3>2. IsCharge(l) <=> IsCharge(l)'
        BY <3>1 DEF IsCharge
      <3>3. \A d : Corrects(l, d) => Corrects(l, d)'
        BY <1>12
      <3> QED
        BY <1>8, <3>1, <3>2, <3>3 DEF PaperRight
    <2>2. PaperRight(n)'
      BY <1>9 DEF PaperRight
    <2> QED
      BY <1>6, <2>1, <2>2
  <1>14. IssuersRight'
    <2>1. OneAtATime'
      BY <1>1, <1>2 DEF IssuersRight, OneAtATime
    <2>2. ASSUME NEW i \in Workers PROVE IssuingRight(i)'
      <3> SUFFICES ASSUME issuing[i].step = "numbered"
                   PROVE  /\ PlannedRight(issuing[i].plan, issuing[i].rental)'
                          /\ issuing[i].number = nextNumber[SeriesOf(issuing[i].plan.kind)]
        BY <1>2 DEF IssuingRight
      <3>0. PICK plan, rental : plan = issuing[i].plan /\ rental = issuing[i].rental
        OBVIOUS
      <3>1. PlannedRight(plan, rental) /\ issuing[i].number = nextNumber[SeriesOf(issuing[i].plan.kind)]
        BY <1>1, <3>0 DEF IssuersRight, IssuingRight
      <3>2. rental # r
        BY <1>2, <3>0 DEF RentalFreeOfIssuing
      <3>4. ASSUME NEW l \in plan.lines
            PROVE  /\ l \in DOMAIN ledger' /\ ledger'[l].rental = rental /\ IsWaiting(l)'
                   /\ plan.kind = "credit_note" => Corrects(l, plan.relatesTo)'
        <4>1. l \in DOMAIN ledger /\ ledger[l].rental = rental /\ IsWaiting(l)
          BY <3>1 DEF PlannedRight
        <4>2. ~(kind = "reversal" /\ of = l)
          BY <3>2, <4>1
        <4> QED
          BY <1>4, <1>6, <1>8, <1>12, <3>1, <4>1, <4>2 DEF PlannedRight, IsWaiting
      <3>5. PlannedRight(plan, rental)'
        BY <1>2, <3>1, <3>4 DEF PlannedRight
      <3> QED
        BY <1>2, <3>0, <3>1, <3>5
    <2> QED
      BY <2>1, <2>2 DEF IssuersRight
  <1>15. NumbersUsed'
    BY <1>1, <1>2 DEF NumbersUsed, InSeries
  <1> QED
    BY <1>7, <1>10, <1>11, <1>13, <1>14, <1>15 DEF BillingIInv, LedgerRight

\* While the ledger and the documents stay as they are, so does all that is said of them.
LEMMA PapersUnchanged ==
  ASSUME UNCHANGED <<ledger, papers, onPaper>>
  PROVE  /\ LedgerRight => LedgerRight'
         /\ \A plan, r : PlannedRight(plan, r) => PlannedRight(plan, r)'
  <1> USE DEF CorrectedBy, TakesBack, IsOn, IsReversed, IsCharge
  <1>1. \A l, d : Corrects(l, d) => Corrects(l, d)'
    BY DEF Corrects
  <1>2. \A l : LineRight(l) => LineRight(l)'
    BY DEF LineRight
  <1>3. \A l : PaperRight(l) => PaperRight(l)'
    BY <1>1 DEF PaperRight
  <1>4. \A l : IsWaiting(l) => IsWaiting(l)'
    BY DEF IsWaiting
  <1>5. \A plan, r : PlannedRight(plan, r) => PlannedRight(plan, r)'
    BY <1>1, <1>4 DEF PlannedRight
  <1>6. LedgerRight => LedgerRight'
    BY <1>2, <1>3 DEF LedgerRight, ReversedOnce
  <1> QED
    BY <1>5, <1>6

\* An issuer that holds nothing keeps all as it was: it looks, goes on, or gives up.
LEMMA IssuerGoes ==
  ASSUME BillingIInv, NEW i \in Workers, NEW to \in Issue, Goes(i, to),
         to.step # "numbered", to.step # "idle" => to.rental \in Rentals,
         to.plan = NoPlan \/ to.plan.kind \in Kinds,
         UNCHANGED <<papers, onPaper, nextNumber, isStarted>>,
         toDo' \in [Nights -> SUBSET Rentals]
  PROVE  BillingIInv'
  <1> USE DEF Goes, BillingIInv
  <1>1. issuing \in [Workers -> Issue] /\ issuing' = [issuing EXCEPT ![i] = to]
    BY DEF BillingTypes
  <1>2. \A j \in Workers : issuing'[j] = IF j = i THEN to ELSE issuing[j]
    BY <1>1
  <1>3. BillingTypes'
    BY <1>1, <1>2 DEF BillingTypes
  <1>4. LedgerRight' /\ \A plan, r : PlannedRight(plan, r) => PlannedRight(plan, r)'
    BY PapersUnchanged
  <1>5. IssuersRight'
    <2>1. OneAtATime'
      BY <1>2 DEF IssuersRight, OneAtATime
    <2>2. ASSUME NEW j \in Workers PROVE IssuingRight(j)'
      <3>1. CASE j = i
        BY <1>2, <3>1 DEF IssuingRight
      <3>2. CASE j # i
        <4>1. PICK is : is = issuing[j]
          OBVIOUS
        <4>2. issuing'[j] = is
          BY <1>2, <3>2, <4>1
        <4>3. IssuingRight(j)
          BY DEF IssuersRight
        <4> QED
          BY <1>4, <4>1, <4>2, <4>3 DEF IssuingRight
      <3> QED
        BY <3>1, <3>2
    <2> QED
      BY <2>1, <2>2 DEF IssuersRight
  <1>6. NumbersUsed'
    BY DEF NumbersUsed, InSeries
  <1> QED
    BY <1>3, <1>4, <1>5, <1>6

LEMMA LookingIs ==
  ASSUME NEW r \in Rentals, NEW now \in BOOLEAN
  PROVE  /\ NotIssuing \in Issue /\ NotIssuing.step = "idle" /\ NotIssuing.plan = NoPlan
         /\ Looking(r, now) \in Issue /\ Looking(r, now).step = "look"
         /\ Looking(r, now).rental = r /\ Looking(r, now).plan = NoPlan
  <1>1. NoPlan \in Plan
    BY DEF NoPlan, Plan
  <1>2. NotIssuing \in Issue
    BY <1>1 DEF NotIssuing, Issue
  <1> QED
    BY <1>1, <1>2 DEF Looking, NotIssuing, Issue

\* What a rental's plan is made of: lines on no document and not taken back, each kind where
\* the plan says; when a credit note is planned, rent still waiting for an invoice is none.
LEMMA PlansAre ==
  ASSUME BillingTypes, LedgerRight, NEW r \in Rentals, NEW now \in BOOLEAN,
         NEW plan \in Plans(r, now)
  PROVE  plan \in Plan /\ plan.kind \in Kinds /\ PlannedRight(plan, r)
  <1>1. /\ InvoiceLines(r, now) \subseteq DOMAIN ledger
        /\ \A l \in InvoiceLines(r, now) : ledger[l].rental = r /\ IsWaiting(l)
    BY DEF InvoiceLines, LinesOf
  <1>2. /\ CreditLines(r) \subseteq DOMAIN ledger
        /\ \A l \in CreditLines(r) :
              /\ ledger[l].rental = r /\ IsWaiting(l)
              /\ ledger[l].kind = "credit" \/ TakesBack(l, {"rent", "charge"})
    BY DEF CreditLines, LinesOf
  <1>3. /\ ReceiptLines(r) \subseteq DOMAIN ledger
        /\ \A l \in ReceiptLines(r) : ledger[l].rental = r /\ IsWaiting(l)
    BY DEF ReceiptLines, LinesOf
  <1>4. DOMAIN ledger \subseteq 1..MaxLines /\ Len(papers) \in Nat
    BY LinesAre
  <1>5. CASE InvoiceLines(r, now) # {}
    <2>1. plan = [kind |-> "invoice", lines |-> InvoiceLines(r, now), relatesTo |-> 0]
      BY <1>5 DEF Plans
    <2> QED
      BY <1>1, <1>4, <2>1 DEF Plan, Kinds, PlannedRight
  <1>6. CASE InvoiceLines(r, now) = {} /\ CreditLines(r) # {}
    <2>1. PICK d \in {CorrectedBy(l) : l \in CreditLines(r)} :
             plan = [kind |-> "credit_note", relatesTo |-> d,
                     lines |-> {l \in CreditLines(r) : CorrectedBy(l) = d}]
      BY <1>6 DEF Plans
    <2>2. ASSUME NEW l \in CreditLines(r)
          PROVE  ledger[l].of \in DOMAIN ledger /\ (CorrectedBy(l) = 0 => IsReversed(ledger[l].of))
      <3> DEFINE of == ledger[l].of
      <3>1. l \in DOMAIN ledger /\ LineRight(l) /\ ledger[l].rental = r
        BY <1>2 DEF LedgerRight
      <3>2. of \in DOMAIN ledger /\ ledger[of].rental = r
        BY <1>2, <3>1, LinesAre DEF LineRight, TakesBack
      <3>3. CASE ledger[l].kind = "credit"
        <4>1. ledger[of].kind = "rent"
          BY <3>1, <3>3 DEF LineRight
        <4>2. ASSUME CorrectedBy(l) = 0, ~IsReversed(of) PROVE FALSE
          <5>1. of \in LinesOf(r) /\ IsCharge(of) /\ IsWaiting(of)
            BY <3>2, <4>1, <4>2 DEF LinesOf, IsCharge, IsWaiting, IsOn, CorrectedBy
          <5>2. of \in InvoiceLines(r, now)
            BY <4>1, <5>1 DEF InvoiceLines
          <5> QED
            BY <1>6, <5>2
        <4> QED
          BY <3>2, <4>2
      <3>4. CASE ledger[l].kind # "credit"
        BY <1>2, <3>2, <3>4 DEF TakesBack, IsOn, CorrectedBy
      <3> QED
        BY <3>3, <3>4
    <2>3. \A l \in CreditLines(r) : CorrectedBy(l) \in 0..Len(papers)
      BY <2>2, LinesAre DEF CorrectedBy
    <2>4. plan \in Plan /\ plan.kind = "credit_note" /\ plan.relatesTo = d /\ d \in 0..Len(papers)
      BY <1>2, <1>4, <2>1, <2>3 DEF Plan, Kinds
    <2>5. \A l \in plan.lines : l \in CreditLines(r) /\ CorrectedBy(l) = d
      BY <2>1
    <2>6. \A l \in plan.lines : Corrects(l, plan.relatesTo)
      BY <1>2, <2>2, <2>4, <2>5 DEF Corrects
    <2> QED
      BY <1>2, <2>4, <2>5, <2>6 DEF PlannedRight, Kinds
  <1>7. CASE InvoiceLines(r, now) = {} /\ CreditLines(r) = {}
    <2>1. PICK l \in ReceiptLines(r) : plan = [kind |-> "receipt", lines |-> {l}, relatesTo |-> 0]
      BY <1>7 DEF Plans
    <2> QED
      BY <1>3, <1>4, <2>1 DEF Plan, Kinds, PlannedRight
  <1> QED
    BY <1>5, <1>6, <1>7

\* The rental and its number are this transaction's from here.
LEMMA DraftKeeps ==
  ASSUME BillingIInv, NEW i \in Workers, DraftDocument(i)
  PROVE  BillingIInv'
  <1>1. BillingTypes /\ LedgerRight /\ IssuersRight /\ NumbersUsed
    BY DEF BillingIInv
  <1>2. PICK r, now : r = issuing[i].rental /\ now = issuing[i].now
    OBVIOUS
  <1>3. PICK plan \in Plans(r, now) :
           /\ SeriesFree(SeriesOf(plan.kind))
           /\ Goes(i, [step |-> "numbered", rental |-> r, now |-> now, plan |-> plan,
                       number |-> nextNumber[SeriesOf(plan.kind)]])
    BY <1>2 DEF DraftDocument, Needed
  <1>4. /\ issuing[i].step = "look" /\ RentalFreeOfIssuing(r)
        /\ UNCHANGED <<ledger, rentToCome, papers, onPaper, nextNumber, isStarted, toDo>>
    BY <1>2, <1>3 DEF DraftDocument, Goes
  <1>5. issuing \in [Workers -> Issue] /\ r \in Rentals /\ now \in BOOLEAN
    BY <1>1, <1>2, <1>4 DEF BillingTypes, Issue
  <1>6. plan \in Plan /\ plan.kind \in Kinds /\ PlannedRight(plan, r)
    BY <1>1, <1>5, PlansAre
  <1>7. PICK n : n = nextNumber[SeriesOf(plan.kind)]
    OBVIOUS
  <1>8. n \in Nat /\ SeriesOf(plan.kind) \in Series
    BY <1>1, <1>6, <1>7 DEF BillingTypes, SeriesOf, Series
  <1>9. PICK to \in Issue : /\ issuing' = [issuing EXCEPT ![i] = to]
                            /\ to.step = "numbered" /\ to.rental = r /\ to.plan = plan
                            /\ to.number = n
    <2> DEFINE next == [step |-> "numbered", rental |-> r, now |-> now, plan |-> plan,
                        number |-> n]
    <2>1. /\ next \in Issue /\ next.step = "numbered" /\ next.rental = r /\ next.plan = plan
          /\ next.number = n
      BY <1>5, <1>6, <1>8 DEF Issue
    <2>2. issuing' = [issuing EXCEPT ![i] = next]
      BY <1>3, <1>7 DEF Goes
    <2> QED
      BY <2>1, <2>2
  <1>10. \A j \in Workers : issuing'[j] = IF j = i THEN to ELSE issuing[j]
    BY <1>5, <1>9
  <1>11. issuing' \in [Workers -> Issue]
    BY <1>5, <1>9
  <1>12. BillingTypes'
    BY <1>1, <1>4, <1>5, <1>6, <1>9, <1>10, <1>11 DEF BillingTypes
  <1>13. LedgerRight' /\ \A p, q : PlannedRight(p, q) => PlannedRight(p, q)'
    BY <1>1, <1>4, PapersUnchanged
  <1>14. OneAtATime'
    <2>1. \A j \in Workers : issuing[j].step = "numbered" =>
             issuing[j].rental # r /\ SeriesOf(issuing[j].plan.kind) # SeriesOf(plan.kind)
      BY <1>3, <1>4 DEF RentalFreeOfIssuing, SeriesFree
    <2> QED
      BY <1>1, <1>9, <1>10, <2>1 DEF IssuersRight, OneAtATime
  <1>15. ASSUME NEW j \in Workers PROVE IssuingRight(j)'
    <2>1. CASE j = i
      BY <1>4, <1>6, <1>7, <1>9, <1>10, <1>13, <2>1 DEF IssuingRight
    <2>2. CASE j # i
      <3>1. PICK is : is = issuing[j]
        OBVIOUS
      <3>2. issuing'[j] = is /\ IssuingRight(j)
        BY <1>1, <1>10, <2>2, <3>1 DEF IssuersRight
      <3> QED
        BY <1>4, <1>13, <3>1, <3>2 DEF IssuingRight
    <2> QED
      BY <2>1, <2>2
  <1>16. NumbersUsed'
    BY <1>1, <1>4 DEF NumbersUsed, InSeries
  <1> QED
    BY <1>12, <1>13, <1>14, <1>15, <1>16 DEF BillingIInv, IssuersRight

\* A number taken is the next of its series, once: no gap and no repeat.
LEMMA NumberGoesOn ==
  ASSUME BillingTypes, NumbersUsed, NEW paper \in Paper, NEW s \in Series, s = SeriesOf(paper.kind),
         paper.number = nextNumber[s],
         papers' = Append(papers, paper),
         nextNumber' = [nextNumber EXCEPT ![s] = nextNumber[s] + 1],
         isStarted' = [isStarted EXCEPT ![s] = TRUE]
  PROVE  NumbersUsed'
  <1>1. PICK d, next : d = Len(papers) + 1 /\ next = nextNumber[s]
    OBVIOUS
  <1>2. /\ papers' \in Seq(Paper) /\ DOMAIN papers' = DOMAIN papers \cup {d} /\ d \notin DOMAIN papers
        /\ papers'[d] = paper /\ \A e \in DOMAIN papers : papers'[e] = papers[e]
    <2>1. papers \in Seq(Paper)
      BY DEF BillingTypes
    <2>2. /\ papers' \in Seq(Paper) /\ Len(papers') = d /\ papers'[d] = paper
          /\ \A e \in 1..Len(papers) : papers'[e] = papers[e]
      BY <1>1, <2>1, AppendProperties
    <2> QED
      BY <1>1, <2>1, <2>2, LenProperties
  <1>3. next \in Nat /\ nextNumber \in [Series -> Nat] /\ isStarted \in [Series -> BOOLEAN]
    BY <1>1 DEF BillingTypes
  <1>4. \A t \in Series : /\ nextNumber'[t] = IF t = s THEN next + 1 ELSE nextNumber[t]
                          /\ isStarted'[t] = IF t = s THEN TRUE ELSE isStarted[t]
    BY <1>1, <1>3
  <1>5. \A t \in Series : InSeries(t)' = IF t = s THEN InSeries(s) \cup {d} ELSE InSeries(t)
    BY <1>2 DEF InSeries
  <1>6. \A e \in DOMAIN papers : papers[e].number \in Nat
    BY LinesAre DEF Paper
  <1>7. ASSUME NEW t \in Series
        PROVE  /\ isStarted'[t] <=> InSeries(t)' # {}
               /\ \A e \in InSeries(t)' :
                     /\ papers'[e].number < nextNumber'[t]
                     /\ \A f \in InSeries(t)' : papers'[e].number = papers'[f].number => e = f
                     /\ \A n \in papers'[e].number .. nextNumber'[t] - 1 :
                           \E f \in InSeries(t)' : papers'[f].number = n
    <2>1. PICK old, new, number :
             /\ old = InSeries(t) /\ new = InSeries(t)'
             /\ number = [e \in new |-> papers'[e].number]
      OBVIOUS
    <2>2. \A e \in old : /\ e \in DOMAIN papers /\ papers'[e] = papers[e]
                         /\ papers[e].number \in Nat
      BY <1>2, <1>6, <2>1 DEF InSeries
    <2>3. old \subseteq new /\ \A e \in old : number[e] = papers[e].number /\ number[e] \in Nat
      BY <1>5, <2>1, <2>2
    <2>4. /\ isStarted[t] <=> old # {}
          /\ \A e \in old :
                /\ number[e] < nextNumber[t]
                /\ \A f \in old : number[e] = number[f] => e = f
                /\ \A n \in number[e] .. nextNumber[t] - 1 : \E f \in old : number[f] = n
      <3>1. /\ isStarted[t] <=> old # {}
            /\ \A e \in old :
                  /\ papers[e].number < nextNumber[t]
                  /\ \A f \in old : papers[e].number = papers[f].number => e = f
                  /\ \A n \in papers[e].number .. nextNumber[t] - 1 :
                        \E f \in old : papers[f].number = n
        BY <2>1 DEF NumbersUsed
      <3> QED
        BY <2>3, <3>1
    <2>5. /\ isStarted'[t] <=> new # {}
          /\ \A e \in new :
                /\ number[e] < nextNumber'[t]
                /\ \A f \in new : number[e] = number[f] => e = f
                /\ \A n \in number[e] .. nextNumber'[t] - 1 : \E f \in new : number[f] = n
      <3>1. CASE t # s
        <4>1. new = old /\ nextNumber'[t] = nextNumber[t] /\ isStarted'[t] = isStarted[t]
          BY <1>4, <1>5, <2>1, <3>1
        <4> QED
          BY <2>4, <4>1
      <3>2. CASE t = s
        <4>1. /\ new = old \cup {d} /\ nextNumber'[t] = next + 1 /\ isStarted'[t] = TRUE
              /\ nextNumber[t] = next
          BY <1>1, <1>4, <1>5, <2>1, <3>2
        <4>2. number[d] = next
          BY <1>1, <1>2, <2>1, <3>2, <4>1
        <4>3. \A e \in old : number[e] < next /\ number[e] \in Nat
          BY <2>3, <2>4, <4>1
        <4>4. isStarted'[t] <=> new # {}
          BY <4>1
        <4>5. \A e \in new : number[e] < nextNumber'[t]
          BY <1>3, <4>1, <4>2, <4>3
        <4>6. \A e, f \in new : number[e] = number[f] => e = f
          BY <1>3, <2>4, <4>1, <4>2, <4>3
        <4>7. ASSUME NEW e \in new, NEW n \in number[e] .. nextNumber'[t] - 1
              PROVE  \E f \in new : number[f] = n
          <5>1. CASE n = next
            BY <4>1, <4>2, <5>1
          <5>2. CASE n # next
            <6>1. number[e] \in Nat /\ n \in Int /\ n <= next /\ number[e] <= n
              BY <1>3, <4>1, <4>2, <4>3
            <6>2. e \in old
              BY <1>3, <4>1, <4>2, <5>2, <6>1
            <6>3. n \in number[e] .. nextNumber[t] - 1
              BY <1>3, <4>1, <5>2, <6>1
            <6> QED
              BY <2>4, <4>1, <6>2, <6>3
          <5> QED
            BY <5>1, <5>2
        <4> QED
          BY <4>4, <4>5, <4>6, <4>7
      <3> QED
        BY <3>1, <3>2
    <2>6. \A e \in new : number[e] = papers'[e].number
      BY <2>1
    <2>7. \A e \in new :
             /\ number[e] < nextNumber'[t]
             /\ \A f \in new : number[e] = number[f] => e = f
             /\ \A n \in number[e] .. nextNumber'[t] - 1 : \E f \in new : number[f] = n
      BY <2>5
    <2>8. isStarted'[t] <=> InSeries(t)' # {}
      BY <2>1, <2>5
    <2>9. ASSUME NEW e \in new
          PROVE  /\ papers'[e].number < nextNumber'[t]
                 /\ \A f \in new : papers'[e].number = papers'[f].number => e = f
                 /\ \A n \in papers'[e].number .. nextNumber'[t] - 1 :
                       \E f \in new : papers'[f].number = n
      <3>1. papers'[e].number < nextNumber'[t]
        BY <2>7, <2>6
      <3>2. ASSUME NEW f \in new, papers'[e].number = papers'[f].number PROVE e = f
        <4>1. number[e] = number[f]
          BY <2>6, <3>2
        <4> QED
          BY <2>7, <4>1
      <3>3. ASSUME NEW n \in papers'[e].number .. nextNumber'[t] - 1
            PROVE  \E f \in new : papers'[f].number = n
        <4>1. n \in number[e] .. nextNumber'[t] - 1
          BY <2>6
        <4>2. PICK f \in new : number[f] = n
          BY <2>7, <4>1
        <4> QED
          BY <2>6, <4>2
      <3> QED
        BY <3>1, <3>2, <3>3
    <2> QED
      BY <2>1, <2>8, <2>9
  <1> QED
    BY <1>7 DEF NumbersUsed

\* What was planned is recorded as planned: nothing of the rental came between.
LEMMA RecordKeeps ==
  ASSUME BillingIInv, NEW i \in Workers, RecordDocument(i)
  PROVE  BillingIInv'
  <1>1. BillingTypes /\ LedgerRight /\ IssuersRight /\ NumbersUsed
    BY DEF BillingIInv
  <1>2. PICK plan, r, s, d, now, paper :
           /\ plan = issuing[i].plan /\ r = issuing[i].rental /\ s = SeriesOf(plan.kind)
           /\ d = Len(papers) + 1 /\ now = issuing[i].now
           /\ paper = [rental |-> r, kind |-> plan.kind, relatesTo |-> plan.relatesTo,
                       number |-> issuing[i].number]
    OBVIOUS
  <1>3. /\ issuing[i].step = "numbered" /\ MayCarry(plan)
        /\ papers' = Append(papers, paper)
        /\ onPaper' = [l \in DOMAIN onPaper |-> IF l \in plan.lines THEN d ELSE onPaper[l]]
        /\ nextNumber' = [nextNumber EXCEPT ![s] = issuing[i].number + 1]
        /\ isStarted' = [isStarted EXCEPT ![s] = TRUE]
        /\ issuing' = [issuing EXCEPT ![i] = Looking(r, now)]
        /\ UNCHANGED <<ledger, rentToCome, toDo>>
    BY <1>2 DEF RecordDocument, Goes
  <1>4. /\ PlannedRight(plan, r) /\ issuing[i].number = nextNumber[s]
    BY <1>1, <1>2, <1>3 DEF IssuersRight, IssuingRight
  <1>5. /\ issuing \in [Workers -> Issue] /\ r \in Rentals /\ now \in BOOLEAN
        /\ plan.kind \in Kinds /\ s \in Series /\ nextNumber \in [Series -> Nat]
    BY <1>1, <1>2, <1>3, <1>4 DEF BillingTypes, Issue, PlannedRight, SeriesOf, Series
  <1>6. paper \in Paper /\ paper.rental = r /\ paper.kind = plan.kind /\ paper.relatesTo = plan.relatesTo
        /\ paper.number = nextNumber[s]
    <2>1. plan.relatesTo \in Nat /\ nextNumber[s] \in Nat
      BY <1>1, <1>4, <1>5, LinesAre DEF PlannedRight
    <2> QED
      BY <1>2, <1>4, <1>5, <2>1 DEF Paper
  <1>7. NumbersUsed'
    BY <1>1, <1>2, <1>3, <1>4, <1>5, <1>6, NumberGoesOn
  <1>8. /\ papers' \in Seq(Paper) /\ Len(papers') = d /\ DOMAIN papers' = DOMAIN papers \cup {d}
        /\ papers'[d] = paper /\ \A e \in DOMAIN papers : papers'[e] = papers[e] /\ e \in 1..(d - 1)
    <2>1. papers \in Seq(Paper)
      BY <1>1 DEF BillingTypes
    <2>2. /\ papers' \in Seq(Paper) /\ Len(papers') = d /\ papers'[d] = paper
          /\ \A e \in 1..Len(papers) : papers'[e] = papers[e]
      BY <1>2, <1>3, <1>6, <2>1, AppendProperties
    <2> QED
      BY <1>2, <2>1, <2>2, LenProperties
  <1>9. /\ DOMAIN onPaper' = DOMAIN ledger /\ DOMAIN onPaper = DOMAIN ledger
        /\ \A l \in DOMAIN ledger : onPaper'[l] = IF l \in plan.lines THEN d ELSE onPaper[l]
    BY <1>1, <1>3, LinesAre
  <1>10. d \in Nat /\ d > 0 /\ Len(papers) = d - 1
    BY <1>1, <1>2, LinesAre
  <1>11. \A j \in Workers : issuing'[j] = IF j = i THEN Looking(r, now) ELSE issuing[j]
    BY <1>3, <1>5
  <1>12. /\ Looking(r, now) \in Issue /\ Looking(r, now).step = "look"
         /\ Looking(r, now).rental = r /\ Looking(r, now).plan = NoPlan
    BY <1>5, LookingIs
  <1>13. BillingTypes'
    <2>1. onPaper' \in Seq(Nat) /\ Len(onPaper') = Len(ledger')
      <3>1. DOMAIN onPaper' = 1..Len(ledger) /\ Len(ledger) \in Nat
        BY <1>1, <1>9, LinesAre
      <3>2. onPaper' \in [1..Len(ledger) -> Nat]
        BY <1>1, <1>3, <1>9, <1>10, <3>1, LinesAre
      <3> QED
        BY <1>3, <3>1, <3>2
    <2>2. \A l \in DOMAIN onPaper' : onPaper'[l] <= Len(papers')
      BY <1>1, <1>8, <1>9, <1>10, LinesAre
    <2>3. \A e \in DOMAIN papers' : papers'[e].relatesTo \in 0..(e - 1)
      BY <1>1, <1>4, <1>6, <1>8, <1>10 DEF BillingTypes, PlannedRight
    <2>4. nextNumber' \in [Series -> Nat] /\ isStarted' \in [Series -> BOOLEAN]
      BY <1>1, <1>3, <1>4, <1>5 DEF BillingTypes
    <2>5. issuing' \in [Workers -> Issue]
      BY <1>3, <1>5, <1>12
    <2> QED
      BY <1>1, <1>3, <1>5, <1>8, <1>11, <1>12, <2>1, <2>2, <2>3, <2>4, <2>5 DEF BillingTypes
  <1>14. \A l \in DOMAIN ledger : /\ IsOn(l)' <=> (IsOn(l) \/ l \in plan.lines)
                                  /\ IsReversed(l)' <=> IsReversed(l)
    BY <1>3, <1>9, <1>10 DEF IsOn, IsReversed
  <1>15. ASSUME NEW l \in DOMAIN ledger, NEW e, Corrects(l, e) PROVE Corrects(l, e)'
    <2>1. ASSUME NEW of \in DOMAIN ledger, of = ledger[l].of PROVE of \notin plan.lines
      <3>1. IsOn(of) \/ IsReversed(of)
        BY <1>15, <2>1 DEF Corrects, TakesBack, CorrectedBy, IsOn
      <3> QED
        BY <1>4, <3>1 DEF PlannedRight, IsWaiting
    <2> QED
      BY <1>1, <1>3, <1>9, <1>14, <1>15, <2>1, CorrectsStays
  <1>16. LedgerRight'
    <2>1. ReversedOnce'
      BY <1>1, <1>3 DEF LedgerRight, ReversedOnce
    <2>2. ASSUME NEW l \in DOMAIN ledger PROVE LineRight(l)'
      BY <1>1, <1>3 DEF LedgerRight, LineRight
    <2>3. ASSUME NEW l \in DOMAIN ledger PROVE PaperRight(l)'
      <3>1. IsCharge(l)' <=> IsCharge(l)
        BY <1>3 DEF IsCharge
      <3>2. PICK on : on = onPaper'[l]
        OBVIOUS
      <3>3. CASE l \in plan.lines
        <4>1. on = d /\ papers'[on] = paper
          BY <1>8, <1>9, <3>2, <3>3
        <4>2. ledger[l].rental = r /\ (plan.kind = "credit_note" => Corrects(l, plan.relatesTo))
          BY <1>4, <3>3 DEF PlannedRight
        <4>3. /\ plan.kind = "invoice" => IsCharge(l)
              /\ plan.kind = "receipt" => ledger[l].kind = "payment"
          BY <1>3, <3>3 DEF MayCarry
        <4>4. paper.kind = "credit_note" => Corrects(l, paper.relatesTo)'
          BY <1>6, <1>15, <4>2
        <4> QED
          BY <1>3, <1>6, <3>1, <3>2, <4>1, <4>2, <4>3, <4>4 DEF PaperRight
      <3>4. CASE l \notin plan.lines
        <4>1. on = onPaper[l] /\ PaperRight(l) /\ on \in 0..Len(papers)
          BY <1>1, <1>9, <3>2, <3>4, LinesAre DEF LedgerRight
        <4>2. on # 0 => papers'[on] = papers[on]
          BY <1>1, <1>8, <4>1, LinesAre
        <4>3. \A e : Corrects(l, e) => Corrects(l, e)'
          BY <1>15
        <4> QED
          BY <1>3, <3>1, <3>2, <4>1, <4>2, <4>3 DEF PaperRight, IsOn
      <3> QED
        BY <3>3, <3>4
    <2> QED
      BY <1>3, <2>1, <2>2, <2>3 DEF LedgerRight
  <1>17. OneAtATime'
    BY <1>1, <1>11, <1>12 DEF IssuersRight, OneAtATime
  <1>18. ASSUME NEW j \in Workers PROVE IssuingRight(j)'
    <2>1. CASE j = i
      BY <1>11, <1>12, <2>1 DEF IssuingRight
    <2>2. CASE j # i /\ issuing[j].step = "numbered"
      <3>1. PICK is, p, q : is = issuing[j] /\ p = is.plan /\ q = is.rental
        OBVIOUS
      <3>2. PICK t : t = SeriesOf(p.kind)
        OBVIOUS
      <3>3. issuing'[j] = is /\ PlannedRight(p, q) /\ is.number = nextNumber[t]
        BY <1>1, <1>11, <2>2, <3>1, <3>2 DEF IssuersRight, IssuingRight
      <3>4. q # r /\ t # s
        BY <1>1, <1>2, <1>3, <2>2, <3>1, <3>2 DEF IssuersRight, OneAtATime
      <3>5. ASSUME NEW l \in p.lines
            PROVE  /\ l \in DOMAIN ledger' /\ ledger'[l].rental = q /\ IsWaiting(l)'
                   /\ p.kind = "credit_note" => Corrects(l, p.relatesTo)'
        <4>1. /\ l \in DOMAIN ledger /\ ledger[l].rental = q /\ IsWaiting(l)
              /\ p.kind = "credit_note" => Corrects(l, p.relatesTo)
          BY <3>3 DEF PlannedRight
        <4>2. l \notin plan.lines
          BY <1>4, <3>4, <4>1 DEF PlannedRight
        <4> QED
          BY <1>3, <1>14, <1>15, <4>1, <4>2 DEF IsWaiting
      <3>6. PlannedRight(p, q)'
        BY <1>8, <1>10, <3>3, <3>5 DEF PlannedRight
      <3>7. nextNumber'[t] = nextNumber[t]
        BY <1>3, <1>5, <3>3, <3>4 DEF PlannedRight, SeriesOf, Series
      <3> QED
        BY <3>1, <3>2, <3>3, <3>6, <3>7 DEF IssuingRight
    <2>3. CASE j # i /\ issuing[j].step # "numbered"
      BY <1>11, <2>3 DEF IssuingRight
    <2> QED
      BY <2>1, <2>2, <2>3
  <1> QED
    BY <1>7, <1>13, <1>16, <1>17, <1>18 DEF BillingIInv, IssuersRight

\* At the start there is no line, no document and nobody issuing.
LEMMA InitBillingIInv == BillingInit => BillingIInv
  <1> SUFFICES ASSUME BillingInit
               PROVE  BillingIInv
    OBVIOUS
  <1>1. /\ ledger = <<>> /\ papers = <<>> /\ onPaper = <<>>
        /\ rentToCome \subseteq Rentals
        /\ nextNumber = [s \in Series |-> 1] /\ isStarted = [s \in Series |-> FALSE]
        /\ issuing = [i \in Workers |-> NotIssuing] /\ toDo = [n \in Nights |-> {}]
    BY DEF BillingInit
  <1>2. /\ ledger \in Seq(Line) /\ Len(ledger) = 0 /\ DOMAIN ledger = {}
        /\ papers \in Seq(Paper) /\ Len(papers) = 0 /\ DOMAIN papers = {}
        /\ onPaper \in Seq(Nat) /\ Len(onPaper) = 0 /\ DOMAIN onPaper = {}
    BY <1>1, EmptySeq, LenProperties
  <1>3. NotIssuing \in Issue /\ NotIssuing.step = "idle" /\ NotIssuing.plan = NoPlan
    BY DEF NotIssuing, NoPlan, Plan, Issue
  <1>4. BillingTypes
    BY <1>1, <1>2, <1>3, BillingAssumption DEF BillingTypes
  <1>5. LedgerRight
    BY <1>2 DEF LedgerRight, ReversedOnce
  <1>6. IssuersRight
    BY <1>1, <1>3 DEF IssuersRight, OneAtATime, IssuingRight
  <1>7. NumbersUsed
    <2>1. \A s \in Series : InSeries(s) = {} /\ isStarted[s] = FALSE
      BY <1>1, <1>2 DEF InSeries
    <2> QED
      BY <2>1 DEF NumbersUsed
  <1> QED
    BY <1>4, <1>5, <1>6, <1>7 DEF BillingIInv

\* The next number is set before a series has a document, while nobody issues in it.
LEMMA SaveNumberingKeeps ==
  ASSUME BillingIInv, NEW start \in Starts, SaveNumbering(start[1], start[2])
  PROVE  BillingIInv'
  <1>1. PICK s, n : s = start[1] /\ n = start[2]
    OBVIOUS
  <1>2. s \in Series /\ n \in Nat
    BY <1>1, BillingAssumption DEF Series
  <1>3. /\ SeriesFree(s) /\ ~isStarted[s] /\ nextNumber' = [nextNumber EXCEPT ![s] = n]
        /\ UNCHANGED <<ledger, rentToCome, papers, onPaper, isStarted, issuing, toDo>>
    BY <1>1 DEF SaveNumbering
  <1>4. BillingTypes /\ LedgerRight /\ IssuersRight /\ NumbersUsed
    BY DEF BillingIInv
  <1>5. nextNumber \in [Series -> Nat]
    BY <1>4 DEF BillingTypes
  <1>6. BillingTypes'
    BY <1>2, <1>3, <1>4, <1>5 DEF BillingTypes
  <1>7. LedgerRight' /\ \A p, q : PlannedRight(p, q) => PlannedRight(p, q)'
    BY <1>3, <1>4, PapersUnchanged
  <1>8. OneAtATime'
    BY <1>3, <1>4 DEF IssuersRight, OneAtATime
  <1>9. ASSUME NEW i \in Workers PROVE IssuingRight(i)'
    <2> SUFFICES ASSUME issuing[i].step = "numbered" PROVE IssuingRight(i)'
      BY <1>3 DEF IssuingRight
    <2>1. PICK is, t : is = issuing[i] /\ t = SeriesOf(is.plan.kind)
      OBVIOUS
    <2>2. issuing'[i] = is /\ t # s /\ t \in Series
      BY <1>3, <2>1 DEF SeriesFree, SeriesOf, Series
    <2>3. PlannedRight(is.plan, is.rental) /\ is.number = nextNumber[t]
      BY <1>4, <2>1 DEF IssuersRight, IssuingRight
    <2>4. nextNumber'[t] = nextNumber[t]
      BY <1>3, <1>5, <2>2
    <2> QED
      BY <1>7, <2>1, <2>2, <2>3, <2>4 DEF IssuingRight
  <1>10. NumbersUsed'
    <2>1. InSeries(s) = {}
      BY <1>2, <1>3, <1>4 DEF NumbersUsed
    <2>2. \A t \in Series : InSeries(t)' = InSeries(t)
      BY <1>3 DEF InSeries
    <2>3. \A t \in Series : t # s => nextNumber'[t] = nextNumber[t]
      BY <1>3, <1>5
    <2>4. ASSUME NEW t \in Series
          PROVE  /\ isStarted'[t] <=> InSeries(t)' # {}
                 /\ \A d \in InSeries(t)' :
                       /\ papers'[d].number < nextNumber'[t]
                       /\ \A e \in InSeries(t)' : papers'[d].number = papers'[e].number => d = e
                       /\ \A m \in papers'[d].number .. nextNumber'[t] - 1 :
                             \E e \in InSeries(t)' : papers'[e].number = m
      <3>1. isStarted'[t] <=> InSeries(t)' # {}
        BY <1>3, <1>4, <2>2 DEF NumbersUsed
      <3>2. CASE t = s
        <4>1. InSeries(t)' = {}
          BY <2>1, <2>2, <3>2
        <4> QED
          BY <3>1, <4>1
      <3>3. CASE t # s
        <4>1. nextNumber'[t] = nextNumber[t] /\ InSeries(t)' = InSeries(t) /\ papers' = papers
          BY <1>3, <2>2, <2>3, <3>3
        <4> QED
          BY <1>4, <3>1, <4>1 DEF NumbersUsed
      <3> QED
        BY <3>2, <3>3
    <2> QED
      BY <2>4 DEF NumbersUsed
  <1> QED
    BY <1>6, <1>7, <1>8, <1>9, <1>10 DEF BillingIInv, IssuersRight

\* A step that touches neither lines, documents, numbers nor issuers.
LEMMA QuietStepKeeps ==
  ASSUME BillingIInv, rentToCome' \subseteq Rentals,
         UNCHANGED <<ledger, papers, onPaper, nextNumber, isStarted, issuing, toDo>>
  PROVE  BillingIInv'
  <1>1. BillingTypes'
    BY DEF BillingIInv, BillingTypes
  <1>2. LedgerRight' /\ \A p, q : PlannedRight(p, q) => PlannedRight(p, q)'
    BY PapersUnchanged DEF BillingIInv
  <1>3. ASSUME NEW i \in Workers PROVE IssuingRight(i)'
    <2>1. PICK is : is = issuing[i]
      OBVIOUS
    <2>2. issuing'[i] = is /\ IssuingRight(i)
      BY <2>1 DEF BillingIInv, IssuersRight
    <2> QED
      BY <1>2, <2>1, <2>2 DEF IssuingRight
  <1>4. IssuersRight'
    BY <1>3 DEF BillingIInv, IssuersRight, OneAtATime
  <1>5. NumbersUsed'
    BY DEF BillingIInv, NumbersUsed, InSeries
  <1> QED
    BY <1>1, <1>2, <1>4, <1>5 DEF BillingIInv

\* Every step of the spec keeps the invariant.
LEMMA StepBillingIInv == BillingIInv /\ [BillingNext]_billingVars => BillingIInv'
  <1> SUFFICES ASSUME BillingIInv, [BillingNext]_billingVars
               PROVE  BillingIInv'
    OBVIOUS
  <1>1. BillingTypes /\ LedgerRight
    BY DEF BillingIInv
  <1>2. /\ rentToCome \subseteq Rentals /\ toDo \in [Nights -> SUBSET Rentals]
        /\ 0 \in 0..MaxLines
    BY <1>1, BillingAssumption DEF BillingTypes
  <1>3. \A l \in DOMAIN ledger : l \in 0..MaxLines /\ ledger[l].rental \in Rentals
    BY <1>1, LinesAre DEF Line
  <1>4. ASSUME NEW r \in Rentals, ChargeRent(r) \/ AddCharge(r) \/ RecordPayment(r)
        PROVE  BillingIInv'
    <2>1. CASE ChargeRent(r)
      BY <1>2, <2>1, AddLineKeeps DEF ChargeRent, LineKinds
    <2>2. CASE AddCharge(r)
      BY <1>2, <2>2, AddLineKeeps DEF AddCharge, LineKinds
    <2>3. CASE RecordPayment(r)
      BY <1>2, <2>3, AddLineKeeps DEF RecordPayment, LineKinds
    <2> QED
      BY <1>4, <2>1, <2>2, <2>3
  <1>5. ASSUME NEW r \in Rentals, RentEnds(r) PROVE BillingIInv'
    BY <1>2, <1>5, QuietStepKeeps DEF RentEnds
  <1>6. ASSUME NEW l \in DOMAIN ledger, CreditRent(l) \/ ReverseLine(l) PROVE BillingIInv'
    <2>1. CASE CreditRent(l)
      BY <1>3, <2>1, AddLineKeeps DEF CreditRent, LineKinds
    <2>2. CASE ReverseLine(l)
      BY <1>3, <2>2, AddLineKeeps DEF ReverseLine, LineKinds
    <2> QED
      BY <1>6, <2>1, <2>2
  <1>7. ASSUME NEW start \in Starts, SaveNumbering(start[1], start[2]) PROVE BillingIInv'
    BY <1>7, SaveNumberingKeeps
  <1>8. ASSUME NEW i \in Issuers, NEW r \in Rentals, NEW now \in BOOLEAN, IssuePending(i, r, now)
        PROVE  BillingIInv'
    BY <1>2, <1>8, LookingIs, IssuerGoes DEF IssuePending, Workers
  <1>9. ASSUME NEW n \in Nights, CatchUp(n) PROVE BillingIInv'
    <2>1. PICK owing \in SUBSET Rentals : \E r \in owing : /\ Goes(n, Looking(r, FALSE))
                                                          /\ toDo' = [toDo EXCEPT ![n] = owing \ {r}]
      BY <1>9 DEF CatchUp
    <2>2. PICK r \in owing : /\ Goes(n, Looking(r, FALSE))
                             /\ toDo' = [toDo EXCEPT ![n] = owing \ {r}]
      BY <2>1
    <2>3. toDo' \in [Nights -> SUBSET Rentals] /\ r \in Rentals /\ FALSE \in BOOLEAN
      BY <1>2, <2>1, <2>2
    <2> QED
      BY <1>9, <2>2, <2>3, LookingIs, IssuerGoes DEF CatchUp, Workers
  <1>10. ASSUME NEW i \in Workers, IssueStep(i) PROVE BillingIInv'
    <2>1. CASE LookForDocument(i)
      <3>1. NothingMore(i) /\ UNCHANGED <<papers, onPaper, nextNumber, isStarted>>
        BY <2>1 DEF LookForDocument, NothingMore
      <3>2. CASE i \in Nights /\ toDo[i] # {}
        <4>1. PICK r \in toDo[i] : /\ Goes(i, Looking(r, FALSE))
                                   /\ toDo' = [toDo EXCEPT ![i] = toDo[i] \ {r}]
          BY <3>1, <3>2 DEF NothingMore
        <4>2. toDo' \in [Nights -> SUBSET Rentals] /\ r \in Rentals /\ FALSE \in BOOLEAN
          BY <1>2, <3>2, <4>1
        <4> QED
          BY <3>1, <4>1, <4>2, LookingIs, IssuerGoes
      <3>3. CASE ~(i \in Nights /\ toDo[i] # {})
        <4>1. Goes(i, NotIssuing) /\ toDo' = toDo
          BY <3>1, <3>3 DEF NothingMore
        <4>2. NotIssuing \in Issue /\ NotIssuing.step = "idle" /\ NotIssuing.plan = NoPlan
          BY DEF NotIssuing, NoPlan, Plan, Issue
        <4> QED
          BY <1>2, <3>1, <4>1, <4>2, IssuerGoes
      <3> QED
        BY <3>2, <3>3
    <2>2. CASE DraftDocument(i)
      BY <2>2, DraftKeeps
    <2>3. CASE RecordDocument(i)
      BY <2>3, RecordKeeps
    <2>4. CASE IssuingFails(i)
      <3>1. /\ Goes(i, NotIssuing) /\ UNCHANGED <<papers, onPaper, nextNumber, isStarted>>
            /\ toDo' \in [Nights -> SUBSET Rentals]
        BY <1>2, <2>4 DEF IssuingFails
      <3>2. NotIssuing \in Issue /\ NotIssuing.step = "idle" /\ NotIssuing.plan = NoPlan
        BY DEF NotIssuing, NoPlan, Plan, Issue
      <3> QED
        BY <3>1, <3>2, IssuerGoes
    <2> QED
      BY <1>10, <2>1, <2>2, <2>3, <2>4 DEF IssueStep
  <1>11. CASE UNCHANGED billingVars
    BY <1>2, <1>11, QuietStepKeeps DEF billingVars
  <1> QED
    BY <1>4, <1>5, <1>6, <1>7, <1>8, <1>9, <1>10, <1>11 DEF BillingNext

\* What a line is decides the kind of document it is on.
LEMMA KindOfPaper ==
  ASSUME BillingTypes, LedgerRight, NEW l \in DOMAIN ledger, IsOn(l)
  PROVE  /\ IsCharge(l) <=> papers[onPaper[l]].kind = "invoice"
         /\ ledger[l].kind = "payment" <=> papers[onPaper[l]].kind = "receipt"
         /\ ledger[l].kind \in {"credit", "reversal"} <=> papers[onPaper[l]].kind = "credit_note"
  <1>1. PICK d \in DOMAIN papers : d = onPaper[l]
    BY LinesAre DEF IsOn
  <1>2. papers[d].kind \in Kinds /\ ledger[l].kind \in LineKinds
    BY <1>1, LinesAre DEF Paper, Line
  <1>3. /\ papers[d].kind = "invoice" => IsCharge(l)
        /\ papers[d].kind = "credit_note" => ledger[l].kind \in {"credit", "reversal"}
        /\ papers[d].kind = "receipt" => ledger[l].kind = "payment"
    <2>1. PaperRight(l)
      BY DEF LedgerRight
    <2>2. \A e : Corrects(l, e) => ledger[l].kind \in {"credit", "reversal"}
      BY DEF Corrects, TakesBack
    <2> QED
      BY <1>1, <2>1, <2>2 DEF PaperRight
  <1> QED
    BY <1>1, <1>2, <1>3 DEF Kinds, LineKinds, IsCharge

\* A taking back is never itself taken back.
LEMMA ReversalsStand ==
  ASSUME BillingTypes, LedgerRight, NEW m \in DOMAIN ledger, ledger[m].kind = "reversal"
  PROVE  ~IsReversed(m)
  <1>1. \A k \in DOMAIN ledger : ledger[k].kind = "reversal" => ledger[k].of # m
    BY DEF LedgerRight, LineRight
  <1> QED
    BY <1>1 DEF IsReversed

\* A credit on a note is of the rent on the invoice the note corrects.
LEMMA NotesNameTheirInvoice == BillingIInv => CreditsAreOnTheirInvoice
  <1> SUFFICES ASSUME BillingIInv, NEW r \in Rentals, NEW l \in LinesOn(r, "credit_note")
               PROVE  /\ papers[onPaper[l]].relatesTo = onPaper[ledger[l].of]
                      /\ papers[onPaper[l]].relatesTo = 0 => IsReversed(ledger[l].of)
    BY DEF CreditsAreOnTheirInvoice
  <1>1. l \in DOMAIN ledger /\ IsOn(l) /\ papers[onPaper[l]].kind = "credit_note" /\ PaperRight(l)
    BY DEF LinesOn, LinesOf, BillingIInv, LedgerRight
  <1>2. Corrects(l, papers[onPaper[l]].relatesTo)
    BY <1>1 DEF PaperRight
  <1> QED
    BY <1>2 DEF Corrects, CorrectedBy

\* A rental that needs no document: its invoices carry the charges that stand and those taken
\* back, its credit notes the credits that stand and, for each charge taken back, its taking
\* back; so what stands is what the documents come to.
LEMMA NothingPendingAddsUp == BillingIInv => PapersComeToLedger
  <1> SUFFICES ASSUME BillingIInv, NEW r \in Rentals, Plans(r, TRUE) = {}
               PROVE  Cardinality(LinesOn(r, "invoice")) + Charged(r)[2] =
                         Cardinality(LinesOn(r, "credit_note")) + Charged(r)[1]
    BY DEF PapersComeToLedger
  <1>1. BillingTypes /\ LedgerRight
    BY DEF BillingIInv
  <1>2. InvoiceLines(r, TRUE) = {} /\ CreditLines(r) = {}
    <2>1. InvoiceLines(r, TRUE) = {}
      BY DEF Plans
    <2>2. ASSUME NEW l \in CreditLines(r) PROVE FALSE
      <3> DEFINE note(d) == [kind |-> "credit_note", relatesTo |-> d,
                             lines |-> {m \in CreditLines(r) : CorrectedBy(m) = d}]
      <3>1. Plans(r, TRUE) = {note(d) : d \in {CorrectedBy(m) : m \in CreditLines(r)}}
        BY <2>1, <2>2 DEF Plans
      <3> HIDE DEF note
      <3>2. note(CorrectedBy(l)) \in Plans(r, TRUE)
        BY <2>2, <3>1
      <3> QED
        BY <3>2
    <2> QED
      BY <2>1, <2>2
  <1> DEFINE onInvoice == LinesOn(r, "invoice")
             onNote == LinesOn(r, "credit_note")
             charges == {l \in {k \in LinesOf(r) : ~IsReversed(k)} : IsCharge(l)}
             given == {l \in {k \in LinesOf(r) : ~IsReversed(k)} : ledger[l].kind = "credit"}
             takenBack == {l \in onInvoice : IsReversed(l)}
             takings == {l \in onNote : ledger[l].kind = "reversal"}
  <1>3. ASSUME NEW l \in LinesOf(r), IsCharge(l), ~IsReversed(l) PROVE IsOn(l)
    <2>1. ~IsOn(l) => l \in InvoiceLines(r, TRUE)
      BY <1>3 DEF InvoiceLines, IsWaiting
    <2> QED
      BY <1>2, <2>1
  <1>4. ASSUME NEW l \in LinesOf(r), ledger[l].kind = "credit", ~IsReversed(l) PROVE IsOn(l)
    <2>1. ~IsOn(l) => l \in CreditLines(r)
      BY <1>4 DEF CreditLines, IsWaiting
    <2> QED
      BY <1>2, <2>1
  <1>5. ASSUME NEW l \in LinesOf(r), IsOn(l), NEW m \in DOMAIN ledger,
               ledger[m].kind = "reversal", ledger[m].of = l
        PROVE  IsCharge(l) => m \in takings
    <2> SUFFICES ASSUME IsCharge(l) PROVE m \in takings
      OBVIOUS
    <2>1. m \in LinesOf(r) /\ ~IsReversed(m)
      BY <1>1, <1>5, ReversalsStand DEF LinesOf, LedgerRight, LineRight
    <2>2. TakesBack(m, {"rent", "charge"})
      BY <1>5 DEF TakesBack, IsCharge
    <2>3. IsOn(m)
      <3>1. ~IsOn(m) => m \in CreditLines(r)
        BY <2>1, <2>2 DEF CreditLines, IsWaiting
      <3> QED
        BY <1>2, <3>1
    <2> QED
      BY <1>1, <1>5, <2>1, <2>3, KindOfPaper DEF LinesOn
  <1>6. ASSUME NEW l \in LinesOf(r), IsOn(l), ledger[l].kind = "credit" PROVE ~IsReversed(l)
    <2> SUFFICES ASSUME NEW m \in DOMAIN ledger, ledger[m].kind = "reversal", ledger[m].of = l
                 PROVE  FALSE
      BY DEF IsReversed
    <2>1. m \in LinesOf(r) /\ ~IsReversed(m)
      BY <1>1, ReversalsStand DEF LinesOf, LedgerRight, LineRight
    <2>2. TakesBack(m, {"credit"}) /\ ~TakesBack(m, {"rent", "charge"})
      BY <1>6 DEF TakesBack
    <2>3. ~IsOn(m)
      <3> SUFFICES ASSUME IsOn(m) PROVE FALSE
        OBVIOUS
      <3>1. papers[onPaper[m]].kind = "credit_note" /\ PaperRight(m)
        BY <1>1, KindOfPaper DEF LedgerRight
      <3>2. Corrects(m, papers[onPaper[m]].relatesTo)
        BY <3>1 DEF PaperRight
      <3> QED
        BY <2>2, <3>2 DEF Corrects
    <2>4. m \in InvoiceLines(r, TRUE)
      BY <2>1, <2>2, <2>3 DEF InvoiceLines, IsWaiting
    <2> QED
      BY <1>2, <2>4
  <1>7. onInvoice = charges \cup takenBack /\ charges \cap takenBack = {}
    <2>1. \A l \in charges : l \in onInvoice
      BY <1>1, <1>3, KindOfPaper DEF LinesOn, LinesOf
    <2>2. \A l \in onInvoice : l \in LinesOf(r) /\ IsCharge(l)
      BY <1>1, KindOfPaper DEF LinesOn, LinesOf
    <2> QED
      BY <2>1, <2>2
  <1>8. onNote = given \cup takings /\ given \cap takings = {}
    <2>1. \A l \in given : l \in onNote
      BY <1>1, <1>4, KindOfPaper DEF LinesOn, LinesOf
    <2>2. \A l \in onNote : /\ l \in LinesOf(r) /\ IsOn(l)
                            /\ ledger[l].kind \in {"credit", "reversal"}
      BY <1>1, KindOfPaper DEF LinesOn, LinesOf
    <2>3. \A l \in onNote : ledger[l].kind = "credit" => ~IsReversed(l)
      BY <1>6, <2>2
    <2> QED
      BY <2>1, <2>2, <2>3
  <1>9. ExistsBijection(takings, takenBack)
    <2> DEFINE of == [m \in takings |-> ledger[m].of]
    <2>1. ASSUME NEW m \in takings PROVE ledger[m].of \in takenBack
      <3>1. m \in DOMAIN ledger /\ IsOn(m) /\ ledger[m].rental = r /\ ledger[m].kind = "reversal"
            /\ papers[onPaper[m]].kind = "credit_note"
        BY DEF LinesOn, LinesOf
      <3>2. Corrects(m, papers[onPaper[m]].relatesTo)
        BY <1>1, <3>1 DEF LedgerRight, PaperRight
      <3>3. TakesBack(m, {"rent", "charge"})
        BY <3>1, <3>2 DEF Corrects
      <3>4. LineRight(m)
        BY <1>1, <3>1 DEF LedgerRight
      <3>5. PICK k \in DOMAIN ledger : k = ledger[m].of /\ ledger[k].rental = r
        BY <1>1, <3>1, <3>4, LinesAre DEF LineRight
      <3>6. IsOn(k) /\ IsCharge(k) /\ IsReversed(k)
        BY <3>1, <3>3, <3>5 DEF TakesBack, IsCharge, IsReversed
      <3> QED
        BY <1>1, <3>5, <3>6, KindOfPaper DEF LinesOn, LinesOf
    <2>2. \A k, m \in takings : ledger[k].of = ledger[m].of => k = m
      BY <1>1 DEF LinesOn, LinesOf, LedgerRight, ReversedOnce
    <2>3. ASSUME NEW l \in takenBack PROVE \E m \in takings : ledger[m].of = l
      <3>1. l \in LinesOf(r) /\ IsOn(l) /\ IsCharge(l) /\ IsReversed(l)
        BY <1>1, KindOfPaper DEF LinesOn, LinesOf
      <3>2. PICK m \in DOMAIN ledger : ledger[m].kind = "reversal" /\ ledger[m].of = l
        BY <3>1 DEF IsReversed
      <3> QED
        BY <1>5, <3>1, <3>2
    <2> HIDE DEF takings, takenBack
    <2>4. of \in Bijection(takings, takenBack)
      BY <2>1, <2>2, <2>3 DEF Bijection, Injection, Surjection, IsInjective
    <2> QED
      BY <2>4 DEF ExistsBijection
  <1>10. IsFiniteSet(DOMAIN ledger)
    BY <1>1, LinesAre, FS_Interval
  <1>11. /\ charges \subseteq DOMAIN ledger /\ given \subseteq DOMAIN ledger
         /\ takings \subseteq DOMAIN ledger /\ takenBack \subseteq DOMAIN ledger
    BY DEF LinesOn, LinesOf
  <1>12. Charged(r)[1] = Cardinality(charges) /\ Charged(r)[2] = Cardinality(given)
    BY DEF Charged
  <1> HIDE DEF onInvoice, onNote, charges, given, takings, takenBack
  <1>13. /\ IsFiniteSet(charges) /\ IsFiniteSet(given)
         /\ IsFiniteSet(takings) /\ IsFiniteSet(takenBack)
    BY <1>10, <1>11, FS_Subset
  <1>14. /\ Cardinality(charges) \in Nat /\ Cardinality(given) \in Nat
         /\ Cardinality(takings) \in Nat /\ Cardinality(takenBack) \in Nat
    BY <1>13, FS_CardinalityType
  <1>15. Cardinality(takings) = Cardinality(takenBack)
    BY <1>9, <1>13, FS_Bijection
  <1>16. Cardinality(onInvoice) = Cardinality(charges) + Cardinality(takenBack)
    <2>1. Cardinality(charges \cup takenBack) =
             Cardinality(charges) + Cardinality(takenBack) - Cardinality(charges \cap takenBack)
      BY <1>13, FS_Union
    <2>2. Cardinality(charges \cap takenBack) = 0
      BY <1>7, FS_EmptySet
    <2> QED
      BY <1>7, <1>14, <2>1, <2>2
  <1>17. Cardinality(onNote) = Cardinality(given) + Cardinality(takings)
    <2>1. Cardinality(given \cup takings) =
             Cardinality(given) + Cardinality(takings) - Cardinality(given \cap takings)
      BY <1>13, FS_Union
    <2>2. Cardinality(given \cap takings) = 0
      BY <1>8, FS_EmptySet
    <2> QED
      BY <1>8, <1>14, <2>1, <2>2
  <1>18. Cardinality(onInvoice) + Cardinality(given) = Cardinality(onNote) + Cardinality(charges)
    BY <1>14, <1>15, <1>16, <1>17
  <1> QED
    BY <1>12, <1>18 DEF onInvoice, onNote

\* What is planned under a rental's lock stays right until it is recorded, always.
THEOREM BillingInvariance == BillingSpec => []BillingIInv
  <1> QED
    BY InitBillingIInv, StepBillingIInv, PTL DEF BillingSpec

\* What the runs check of the types.
THEOREM BillingTypesHold == BillingSpec => []BillingTypeOK
  <1>1. ASSUME BillingIInv PROVE BillingTypeOK
    <2>1. BillingTypes
      BY <1>1 DEF BillingIInv
    <2>2. \A d \in DOMAIN papers : papers[d] \in Paper
      BY <2>1, LinesAre
    <2>3. \A i \in Workers : issuing[i] \in Issue
      BY <2>1 DEF BillingTypes
    <2>4. /\ DOMAIN onPaper = DOMAIN ledger
          /\ \A l \in DOMAIN ledger : onPaper[l] \in 0..Len(papers)
      BY <2>1, LinesAre
    <2> QED
      BY <2>1, <2>2, <2>3, <2>4 DEF BillingTypeOK, BillingTypes, Paper, Issue
  <1> QED
    BY BillingInvariance, <1>1, PTL

\* Documents are numbered without a gap or a repeat, whatever fails, whoever issues at once
\* and whenever the business sets its next number (takeDocumentNumber, saveNumbering).
THEOREM NumbersRunOn == BillingSpec => []NumbersUsed
  <1>1. BillingIInv => NumbersUsed
    BY DEF BillingIInv
  <1> QED
    BY BillingInvariance, <1>1, PTL

\* A rental that needs no more documents has documents that come to its ledger, and each
\* credit is on a note of the invoice it corrects (pendingDocuments, nextDocumentFor).
THEOREM DocumentsAlwaysAddUp == BillingSpec => []DocumentsAddUp
  <1>1. BillingIInv => DocumentsAddUp
    BY NotesNameTheirInvoice, NothingPendingAddsUp DEF DocumentsAddUp
  <1> QED
    BY BillingInvariance, <1>1, PTL

-----------------------------------------------------------------------------
(* MCOffice: the parts of an office, side by side.                         *)

\* A behaviour of MCOffice is one of each part, which may stand still.
LEMMA OfficePartsRun == PartSpec => Spec /\ BillingSpec /\ PhoneSpec
  <1>1. PartInit => Init /\ BillingInit /\ PhoneInit
    BY DEF PartInit
  <1>2. [PartNext]_partVars => [Next]_vars /\ [BillingNext]_billingVars /\ [PhoneNext]_phoneVars
    <2> SUFFICES ASSUME [PartNext]_partVars
                 PROVE  [Next]_vars /\ [BillingNext]_billingVars /\ [PhoneNext]_phoneVars
      OBVIOUS
    <2>1. CASE PartNext
      BY <2>1 DEF PartNext
    <2>2. CASE UNCHANGED partVars
      BY <2>2 DEF partVars
    <2> QED
      BY <2>1, <2>2
  <1> QED
    BY <1>1, <1>2, PTL DEF PartSpec, Spec, BillingSpec, PhoneSpec

\* The types of pages, documents and phones, and what the proofs about pages rest on, in any
\* instance of the three.
THEOREM OfficeHolds == PartSpec => []OfficeInv
  <1>1. IInv /\ BillingTypeOK /\ PhoneIInv => OfficeInv
    BY DEF PhoneIInv, OfficeInv
  <1> QED
    BY <1>1, OfficePartsRun, Invariance, BillingTypesHold, PhoneInvariance, PTL
=============================================================================
