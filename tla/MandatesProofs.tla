--------------------------- MODULE MandatesProofs ---------------------------
(***************************************************************************)
(* Proofs about Mandates, for any number of direct debits, handlers,       *)
(* visits and tidy-ups.  A status read at Stripe is not undone since       *)
(* (RequestsAreTrue), so what it writes of a direct debit was so.          *)
(***************************************************************************)
EXTENDS Mandates, TLAPS

\* No direct debit kept comes back from its end, or goes back to waiting.
MovesForward ==
    \A m \in Mandates :
         /\ kept[m] = "inactive" => kept'[m] = "inactive"
         /\ kept[m] = "active" => kept'[m] \in {"active", "inactive"}
         /\ kept[m] = "waiting" => kept'[m] # "none"

\* No direct debit is set up at the start.
LEMMA InitIInv == Init => IInv
  <1> SUFFICES ASSUME Init
               PROVE  IInv
    OBVIOUS
  <1>0. crashes \in 0 .. MaxCrashes
    BY CrashesCounted DEF Init
  <1>1. TypeOK
    BY <1>0 DEF Init, TypeOK, BankStatuses, KeptStatuses, Procs
  <1>2. KeptIsTrue /\ OnlyReplacedDetached /\ NewsIsTrue
    BY DEF Init, KeptIsTrue, OnlyReplacedDetached, NewsIsTrue
  <1>3. RequestsAreTrue
    BY DEF Init, RequestsAreTrue, Procs, Recorders
  <1> QED
    BY <1>1, <1>2, <1>3 DEF IInv

\* Saving what a direct debit is (recordMandate, applyMandateStatus) keeps the rows true.
LEMMA SaveKeepsRows ==
  ASSUME IInv, NEW p \in Recorders, NEW m \in Mandates,
         NEW status \in {"waiting", "active", "inactive"}, NEW overtaken \in SUBSET {m},
         bank[m] # "none",
         status = "active" => bank[m] # "pending",
         status = "inactive" => m \in overtaken \/ bank[m] = "inactive",
         kept[m] # "inactive", kept[m] = "active" => status = "inactive",
         m \in overtaken => /\ status = "inactive"
                            /\ \E n \in Mandates : n > m /\ kept[n] # "none",
         Save(p, m, status, overtaken), UNCHANGED bank
  PROVE  /\ kept' \in [Mandates -> KeptStatuses] /\ replaced' \subseteq Mandates
         /\ replaced \subseteq replaced' /\ Rows \subseteq Rows'
         /\ KeptIsTrue' /\ MovesForward
  <1>1. CASE UNCHANGED <<kept, replaced>>
    BY <1>1 DEF IInv, TypeOK, KeptIsTrue, MovesForward, Rows, KeptStatuses
  <1>2. CASE OneActive(After(m, status))
    <2> DEFINE E == Ended(m, status)
    <2>1. /\ kept' = After(m, status)
          /\ replaced' = replaced \cup E \cup overtaken
      BY <1>2 DEF Save
    <2>2. /\ E \subseteq Mandates /\ m \notin E
          /\ \A n \in E : status = "active" /\ n < m /\ kept[n] \notin {"none", "inactive"}
      BY DEF Ended, Rows, Mandates
    <2>3. \A n \in Mandates : kept'[n] = IF n = m THEN status
                                         ELSE IF n \in E THEN "inactive" ELSE kept[n]
      BY <2>1 DEF After
    <2>4. /\ kept' \in [Mandates -> KeptStatuses] /\ replaced' \subseteq Mandates
          /\ replaced \subseteq replaced'
      BY <2>1, <2>2 DEF After, IInv, TypeOK, KeptStatuses
    <2>5. MovesForward
      BY <2>2, <2>3 DEF MovesForward, IInv, TypeOK, KeptStatuses
    <2>6. Rows \subseteq Rows'
      BY <2>2, <2>3 DEF Rows
    <2>7. m \notin replaced
      BY DEF IInv, KeptIsTrue
    <2>8. KeptIsTrue'
      <3> SUFFICES ASSUME NEW n \in Mandates
                   PROVE  /\ kept'[n] # "none" => bank[n] # "none"
                          /\ kept'[n] = "active" => bank[n] # "pending"
                          /\ kept'[n] = "inactive" => n \in replaced' \/ bank[n] = "inactive"
                          /\ n \in replaced' => /\ kept'[n] = "inactive"
                                                /\ \E k \in Mandates : k > n /\ kept'[k] # "none"
        BY DEF KeptIsTrue
      <3>1. CASE n = m
        <4>1. n \in replaced' => n \in overtaken
          BY <2>1, <2>2, <2>7, <3>1
        <4>2. n \in overtaken => \E k \in Mandates : k > n /\ kept'[k] # "none"
          BY <2>6, <3>1 DEF Rows
        <4> QED
          BY <2>1, <2>3, <3>1, <4>1, <4>2
      <3>2. CASE n # m /\ n \in E
        <4>1. m > n /\ kept'[m] # "none"
          BY <2>2, <2>3, <3>2 DEF Mandates
        <4> QED
          BY <2>1, <2>2, <2>3, <3>2, <4>1 DEF IInv, KeptIsTrue
      <3>3. CASE n # m /\ n \notin E
        <4>1. n \in replaced' => n \in replaced
          BY <2>1, <3>3
        <4>2. n \in replaced => \E k \in Mandates : k > n /\ kept'[k] # "none"
          BY <2>6 DEF IInv, KeptIsTrue, Rows
        <4> QED
          BY <2>1, <2>3, <3>3, <4>1, <4>2 DEF IInv, KeptIsTrue
      <3> QED
        BY <3>1, <3>2, <3>3
    <2> QED
      BY <2>4, <2>5, <2>6, <2>8
  <1> QED
    BY <1>1, <1>2 DEF Save

\* The Renter and the bank: no direct debit goes back to its checks.
LEMMA StripeKeeps ==
  ASSUME IInv, NEW m \in Mandates, SetUp(m) \/ Start(m) \/ End(m)
  PROVE  IInv' /\ MovesForward
  <1>1. /\ UNCHANGED <<attached, access, dbVars, procVars>>
        /\ bank' \in [Mandates -> BankStatuses \cup {"none"}]
        /\ \A n \in Mandates : n # m => bank'[n] = bank[n]
        /\ bank'[m] # "none"
        /\ bank[m] # "none" => bank'[m] # "pending"
        /\ bank[m] # "inactive"
    BY DEF SetUp, Start, End, IInv, TypeOK, BankStatuses
  <1>2. PICK type \in {"completed", "started", "ended"} :
          /\ sent' = sent \cup {[mandate |-> m, type |-> type]}
          /\ type # "completed" => bank'[m] # "pending"
    BY DEF SetUp, Start, End, Tell, IInv, TypeOK
  <1>3. TypeOK'
    BY <1>1, <1>2 DEF IInv, TypeOK, Events, dbVars, procVars
  <1>4. KeptIsTrue' /\ OnlyReplacedDetached' /\ MovesForward
    BY <1>1 DEF IInv, TypeOK, KeptIsTrue, OnlyReplacedDetached, MovesForward, KeptStatuses, dbVars
  <1>5. NewsIsTrue'
    <2> SUFFICES ASSUME NEW e \in sent'
                 PROVE  /\ bank'[e.mandate] # "none"
                        /\ e.type # "completed" => bank'[e.mandate] # "pending"
      BY DEF NewsIsTrue
    <2>1. CASE e \in sent
      <3>1. e.mandate \in Mandates
        BY <2>1 DEF IInv, TypeOK, Events
      <3>2. bank[e.mandate] # "none" /\ (e.type # "completed" => bank[e.mandate] # "pending")
        BY <2>1 DEF IInv, NewsIsTrue
      <3> QED
        BY <1>1, <3>1, <3>2
    <2>2. CASE e = [mandate |-> m, type |-> type]
      BY <1>1, <1>2, <2>2
    <2> QED
      BY <1>2, <2>1, <2>2
  <1>6. RequestsAreTrue'
    BY <1>1, <1>2 DEF IInv, TypeOK, RequestsAreTrue, Rows, dbVars, procVars
  <1> QED
    BY <1>3, <1>4, <1>5, <1>6 DEF IInv

\* Up to its transaction, a request writes nothing; what it reads at Stripe is so.
LEMMA ReadingKeeps ==
  ASSUME IInv,
         \/ \E h \in Handlers, e \in Events : Deliver(h, e)
         \/ \E v \in Visits, m \in Mandates : VisitFind(v, m)
         \/ \E p \in Recorders : ReadMandate(p)
  PROVE  IInv' /\ MovesForward
  <1>1. UNCHANGED <<bank, sent, access, attached, kept, replaced, detached, handled, connected,
                    others, crashes>>
    BY DEF Deliver, VisitFind, ReadMandate, stripeVars, dbVars
  <1>2. KeptIsTrue' /\ OnlyReplacedDetached' /\ NewsIsTrue' /\ MovesForward
    BY <1>1 DEF IInv, TypeOK, KeptIsTrue, OnlyReplacedDetached, NewsIsTrue, MovesForward,
                KeptStatuses
  <1>3. ASSUME NEW h \in Handlers, NEW e \in Events, Deliver(h, e)
        PROVE  TypeOK' /\ RequestsAreTrue'
    <2>0. e.mandate \in Mandates
      BY DEF Events
    <2>1. e \in sent /\ e.mandate \in Mandates /\ bank[e.mandate] # "none"
      BY <1>3, <2>0 DEF Deliver, IInv, NewsIsTrue
    <2>2. TypeOK'
      BY <1>1, <1>3, <2>1 DEF Deliver, IInv, TypeOK
    <2>3. RequestsAreTrue'
      BY <1>1, <1>3, <2>1, RequestKinds
         DEF Deliver, IInv, TypeOK, RequestsAreTrue, Rows, Procs, Recorders
    <2> QED
      BY <2>2, <2>3
  <1>4. ASSUME NEW v \in Visits, NEW m \in Mandates, VisitFind(v, m)
        PROVE  TypeOK' /\ RequestsAreTrue'
    <2>1. TypeOK'
      BY <1>1, <1>4 DEF VisitFind, IInv, TypeOK
    <2>2. RequestsAreTrue'
      BY <1>1, <1>4, RequestKinds
         DEF VisitFind, IInv, TypeOK, RequestsAreTrue, Rows, Procs, Recorders
    <2> QED
      BY <2>1, <2>2
  <1>5. ASSUME NEW p \in Recorders, ReadMandate(p)
        PROVE  TypeOK' /\ RequestsAreTrue'
    <2>1. /\ about[p] \in Mandates /\ bank[about[p]] \in BankStatuses
          /\ p \in Handlers /\ event[p].type # "completed" => bank[about[p]] # "pending"
      BY <1>5 DEF ReadMandate, IInv, TypeOK, RequestsAreTrue, NewsIsTrue
    <2>2. TypeOK'
      BY <1>1, <1>5, <2>1 DEF ReadMandate, IInv, TypeOK
    <2>3. RequestsAreTrue'
      BY <1>1, <1>5, <2>1, RequestKinds
         DEF ReadMandate, IInv, TypeOK, RequestsAreTrue, Rows, Procs, Recorders
    <2> QED
      BY <2>2, <2>3
  <1> QED
    BY <1>2, <1>3, <1>4, <1>5 DEF IInv

\* A request of p that ends leaves the other requests as they were.
LEMMA FinishKeepsRequests ==
  ASSUME IInv, NEW p \in Recorders, Finish(p),
         UNCHANGED <<bank, sent, attached>>, Rows \subseteq Rows', replaced \subseteq replaced'
  PROVE  RequestsAreTrue'
  BY RequestKinds DEF Finish, Done, IInv, TypeOK, RequestsAreTrue, Procs, Recorders

\* So do the types of what requests hold.
LEMMA FinishKeepsTypes ==
  ASSUME IInv, NEW p \in Recorders, Finish(p)
  PROVE  /\ pc' \in [Procs -> {"idle", "read", "record", "insert", "change", "detach", "mark"}]
         /\ event' \in [Handlers -> Events \cup {NoEvent}]
         /\ about' \in [Procs -> Mandates \cup {NoMandate}]
         /\ seen' \in [Recorders -> BankStatuses]
         /\ others' \in [Recorders -> SUBSET Mandates]
  BY DEF Finish, Done, IInv, TypeOK, BankStatuses

\* recordMandate's first statement.
LEMMA RecordLockKeeps ==
  ASSUME IInv, NEW p \in Recorders, RecordLock(p)
  PROVE  IInv' /\ MovesForward
  <1>1. UNCHANGED <<bank, sent, access, attached, kept, replaced, detached, connected, crashes>>
    BY DEF RecordLock, stripeVars
  <1>2. KeptIsTrue' /\ OnlyReplacedDetached' /\ NewsIsTrue' /\ MovesForward
    BY <1>1 DEF IInv, TypeOK, KeptIsTrue, OnlyReplacedDetached, NewsIsTrue, MovesForward,
                KeptStatuses
  <1>3. CASE ToldBefore(p)
    <2>1. handled' \subseteq Events /\ Finish(p)
      BY <1>3 DEF RecordLock, Commit, ToldBefore, IInv, TypeOK
    <2>2. TypeOK'
      BY <1>1, <2>1, FinishKeepsTypes DEF IInv, TypeOK
    <2>3. RequestsAreTrue'
      BY <1>1, <2>1, FinishKeepsRequests DEF Rows
    <2> QED
      BY <1>2, <2>2, <2>3 DEF IInv
  <1>4. CASE ~ToldBefore(p)
    <2>1. /\ pc[p] = "record" /\ pc' = [pc EXCEPT ![p] = "insert"]
          /\ others' = [others EXCEPT ![p] = Rows]
          /\ UNCHANGED <<handled, event, about, seen>>
      BY <1>4 DEF RecordLock
    <2>2. TypeOK'
      BY <1>1, <2>1 DEF IInv, TypeOK, Rows
    <2>3. RequestsAreTrue'
      BY <1>1, <2>1, RequestKinds DEF IInv, TypeOK, RequestsAreTrue, Rows, Procs, Recorders
    <2> QED
      BY <1>2, <2>2, <2>3 DEF IInv
  <1> QED
    BY <1>3, <1>4

\* A transaction that changes the rows and ends its request keeps the invariant, if the rows
\* stay true.
LEMMA CommitKeeps ==
  ASSUME IInv, NEW p \in Recorders, Finish(p),
         UNCHANGED <<bank, sent, access, attached, detached, connected, crashes>>,
         handled' \subseteq Events, kept' \in [Mandates -> KeptStatuses],
         replaced' \subseteq Mandates, replaced \subseteq replaced', Rows \subseteq Rows',
         KeptIsTrue'
  PROVE  IInv'
  <1>1. TypeOK'
    BY FinishKeepsTypes DEF IInv, TypeOK
  <1>2. OnlyReplacedDetached' /\ NewsIsTrue'
    BY DEF IInv, OnlyReplacedDetached, NewsIsTrue
  <1> QED
    BY <1>1, <1>2, FinishKeepsRequests DEF IInv

\* What mandateStatusOf makes of a status.
LEMMA StatusKept ==
  ASSUME NEW status \in BankStatuses
  PROVE  /\ MandateStatusOf(status) \in {"waiting", "active", "inactive"}
         /\ MandateStatusOf(status) = "active" <=> status = "active"
         /\ MandateStatusOf(status) = "waiting" <=> status = "pending"
  BY DEF MandateStatusOf, BankStatuses

\* recordMandate's insert.
LEMMA RecordInsertKeeps ==
  ASSUME IInv, NEW p \in Recorders, RecordInsert(p)
  PROVE  IInv' /\ MovesForward
  <1> DEFINE m == about[p]
             overtaken == IsOvertaken(m, others[p])
             status == IF overtaken THEN "inactive" ELSE MandateStatusOf(seen[p])
  <1>1. /\ UNCHANGED <<bank, sent, access, attached, detached, connected, crashes>>
        /\ Finish(p)
        /\ pc[p] = "insert"
    BY DEF RecordInsert, stripeVars
  <1>2. /\ m \in Mandates /\ bank[m] # "none" /\ seen[p] \in BankStatuses
        /\ seen[p] = "active" => bank[m] # "pending"
        /\ seen[p] = "inactive" => bank[m] = "inactive"
        /\ others[p] \subseteq Rows
        /\ p \in Handlers => event[p] \in Events
    BY <1>1 DEF IInv, TypeOK, RequestsAreTrue
  <1>3. CASE kept[m] # "none"
    <2>1. UNCHANGED <<kept, replaced>> /\ handled' \subseteq Events
      BY <1>2, <1>3 DEF RecordInsert, Commit, IInv, TypeOK
    <2>2. KeptIsTrue' /\ MovesForward
      BY <1>1, <2>1 DEF IInv, TypeOK, KeptIsTrue, MovesForward, KeptStatuses
    <2> QED
      BY <1>1, <2>1, <2>2, CommitKeeps DEF IInv, TypeOK, Rows
  <1>4. CASE kept[m] = "none"
    <2>1. Save(p, m, status, IF overtaken THEN {m} ELSE {})
      BY <1>4 DEF RecordInsert
    <2>2. overtaken => \E n \in Mandates : n > m /\ kept[n] # "none"
      BY <1>2 DEF IsOvertaken, Rows
    <2>3. /\ status \in {"waiting", "active", "inactive"}
          /\ status = "active" => bank[m] # "pending"
          /\ status = "inactive" => overtaken \/ bank[m] = "inactive"
      BY <1>2, StatusKept DEF BankStatuses
    <2>4. /\ kept' \in [Mandates -> KeptStatuses] /\ replaced' \subseteq Mandates
          /\ replaced \subseteq replaced' /\ Rows \subseteq Rows'
          /\ KeptIsTrue' /\ MovesForward
      <3> HIDE DEF overtaken, status, m
      <3>1. m \in (IF overtaken THEN {m} ELSE {}) <=> overtaken
        OBVIOUS
      <3>2. (m \in (IF overtaken THEN {m} ELSE {})) => status = "inactive"
        BY DEF status
      <3> QED
        BY <1>1, <1>2, <1>4, <2>1, <2>2, <2>3, <3>1, <3>2, SaveKeepsRows
    <2>5. handled' \subseteq Events
      BY <1>2, <2>1 DEF Save, Commit, IInv, TypeOK
    <2> QED
      BY <1>1, <2>4, <2>5, CommitKeeps
  <1> QED
    BY <1>3, <1>4

\* applyMandateStatus: news of a change is of one past its bank's checks, so it never takes a
\* working direct debit back to waiting.
LEMMA ApplyKeeps ==
  ASSUME IInv, NEW h \in Handlers, ApplyMandateStatus(h)
  PROVE  IInv' /\ MovesForward
  <1> DEFINE m == event[h].mandate
             status == MandateStatusOf(seen[h])
  <1>1. /\ UNCHANGED <<bank, sent, access, attached, detached, connected, crashes>>
        /\ Finish(h)
        /\ pc[h] = "change" /\ h \in Recorders
    BY DEF ApplyMandateStatus, stripeVars, Recorders
  <1>2. /\ m \in Mandates /\ bank[m] # "none" /\ event[h] \in Events
        /\ seen[h] \in BankStatuses /\ seen[h] # "pending"
        /\ seen[h] = "active" => bank[m] # "pending"
        /\ seen[h] = "inactive" => bank[m] = "inactive"
    BY <1>1 DEF IInv, TypeOK, RequestsAreTrue
  <1>3. CASE UNCHANGED <<kept, replaced>> /\ handled' \subseteq Events
    <2>1. KeptIsTrue' /\ MovesForward
      BY <1>1, <1>3 DEF IInv, TypeOK, KeptIsTrue, MovesForward, KeptStatuses
    <2> QED
      BY <1>1, <1>3, <2>1, CommitKeeps DEF IInv, TypeOK, Rows
  <1>4. CASE Save(h, m, status, {}) /\ ~NothingToChange(m, status)
    <2>1. /\ status \in {"active", "inactive"}
          /\ status = "active" => bank[m] # "pending"
          /\ status = "inactive" => bank[m] = "inactive"
          /\ kept[m] # "inactive" /\ (kept[m] = "active" => status = "inactive")
      BY <1>2, <1>4, StatusKept DEF NothingToChange, BankStatuses
    <2>2. /\ kept' \in [Mandates -> KeptStatuses] /\ replaced' \subseteq Mandates
          /\ replaced \subseteq replaced' /\ Rows \subseteq Rows'
          /\ KeptIsTrue' /\ MovesForward
      <3> HIDE DEF status, m
      <3> QED
        BY <1>1, <1>2, <1>4, <2>1, SaveKeepsRows
    <2>3. handled' \subseteq Events
      BY <1>2, <1>4 DEF Save, Commit, IInv, TypeOK
    <2> QED
      BY <1>1, <2>2, <2>3, CommitKeeps
  <1>5. \/ UNCHANGED <<kept, replaced>> /\ handled' \subseteq Events
        \/ Save(h, m, status, {}) /\ ~NothingToChange(m, status)
    BY <1>2 DEF ApplyMandateStatus, Commit, IInv, TypeOK
  <1> QED
    BY <1>3, <1>4, <1>5

\* The tidy-up detaches replaced direct debits only, and notes it after.
LEMMA TidyKeeps ==
  ASSUME IInv, NEW t \in Tidies,
         (\E m \in Mandates : TidyFind(t, m)) \/ TidyDetach(t) \/ TidyMark(t)
  PROVE  IInv' /\ MovesForward
  <1>1. UNCHANGED <<bank, sent, access, kept, replaced, handled, connected, event, seen, others,
                    crashes>>
    BY DEF TidyFind, TidyDetach, TidyMark, stripeVars, dbVars
  <1>2. KeptIsTrue' /\ NewsIsTrue' /\ MovesForward
    BY <1>1 DEF IInv, TypeOK, KeptIsTrue, NewsIsTrue, MovesForward, KeptStatuses
  <1>3. ASSUME NEW m \in Mandates, TidyFind(t, m)
        PROVE  TypeOK' /\ OnlyReplacedDetached' /\ RequestsAreTrue'
    <2>1. UNCHANGED <<attached, detached>>
      BY <1>3 DEF TidyFind, dbVars
    <2>2. TypeOK' /\ OnlyReplacedDetached'
      BY <1>1, <1>3, <2>1 DEF TidyFind, IInv, TypeOK, OnlyReplacedDetached
    <2>3. RequestsAreTrue'
      BY <1>1, <1>3, <2>1, RequestKinds
         DEF TidyFind, ToDetach, IInv, TypeOK, RequestsAreTrue, Rows, Procs, Recorders
    <2> QED
      BY <2>2, <2>3
  <1>4. CASE TidyDetach(t)
    <2>1. about[t] \in replaced
      BY <1>4 DEF TidyDetach, IInv, RequestsAreTrue
    <2>2. TypeOK' /\ OnlyReplacedDetached'
      BY <1>1, <1>4, <2>1 DEF TidyDetach, dbVars, IInv, TypeOK, OnlyReplacedDetached
    <2>3. RequestsAreTrue'
      BY <1>1, <1>4, <2>1, RequestKinds
         DEF TidyDetach, IInv, TypeOK, RequestsAreTrue, Rows, Procs, Recorders
    <2> QED
      BY <1>2, <2>2, <2>3 DEF IInv
  <1>5. CASE TidyMark(t)
    <2>1. about[t] \in replaced /\ about[t] \notin attached
      BY <1>5 DEF TidyMark, IInv, RequestsAreTrue
    <2>2. TypeOK' /\ OnlyReplacedDetached'
      BY <1>1, <1>5, <2>1 DEF TidyMark, Done, IInv, TypeOK, OnlyReplacedDetached
    <2>3. RequestsAreTrue'
      BY <1>1, <1>5, RequestKinds
         DEF TidyMark, Done, IInv, TypeOK, RequestsAreTrue, Rows, Procs, Recorders
    <2> QED
      BY <1>2, <2>2, <2>3 DEF IInv
  <1> QED
    BY <1>2, <1>3, <1>4, <1>5 DEF IInv

\* A request that dies, or that Stripe refuses, loses only what it held.
LEMMA DeathKeeps ==
  ASSUME IInv, NEW p \in Procs, RequestDies(p) \/ StripeRefuses(p)
  PROVE  IInv' /\ MovesForward
  <1>1. /\ UNCHANGED <<bank, sent, access, attached, kept, replaced, detached, handled, connected>>
        /\ crashes' \in 0 .. MaxCrashes /\ Abandon(p)
    BY CrashesCounted DEF RequestDies, StripeRefuses, Abandon, stripeVars, dbVars, IInv, TypeOK
  <1>2. KeptIsTrue' /\ OnlyReplacedDetached' /\ NewsIsTrue' /\ MovesForward
    BY <1>1 DEF IInv, TypeOK, KeptIsTrue, OnlyReplacedDetached, NewsIsTrue, MovesForward,
                KeptStatuses
  <1>3. CASE p \in Recorders
    <2>1. Finish(p)
      BY <1>1, <1>3 DEF Abandon
    <2>2. TypeOK'
      BY <1>1, <1>3, <2>1, FinishKeepsTypes DEF IInv, TypeOK
    <2>3. RequestsAreTrue'
      BY <1>1, <1>3, <2>1, FinishKeepsRequests DEF Rows
    <2> QED
      BY <1>2, <2>2, <2>3 DEF IInv
  <1>4. CASE p \notin Recorders
    <2>1. Done(p) /\ UNCHANGED <<event, seen, others>>
      BY <1>1, <1>4 DEF Abandon
    <2>2. TypeOK'
      BY <1>1, <2>1 DEF Done, IInv, TypeOK
    <2>3. RequestsAreTrue'
      BY <1>1, <1>4, <2>1, RequestKinds
         DEF Done, IInv, TypeOK, RequestsAreTrue, Rows, Procs, Recorders
    <2> QED
      BY <1>2, <2>2, <2>3 DEF IInv
  <1> QED
    BY <1>3, <1>4

\* The account taken away, and noted as disconnected.
LEMMA AccountEndsKeeps ==
  ASSUME IInv, AccessEnds \/ MarkDisconnected
  PROVE  IInv' /\ MovesForward
  <1>1. /\ UNCHANGED <<bank, sent, attached, kept, replaced, detached, handled, procVars>>
        /\ access' \in BOOLEAN /\ connected' \in BOOLEAN
    BY DEF AccessEnds, MarkDisconnected, stripeVars, dbVars, IInv, TypeOK
  <1>2. TypeOK' /\ RequestsAreTrue'
    BY <1>1 DEF IInv, TypeOK, RequestsAreTrue, Rows, procVars
  <1>3. KeptIsTrue' /\ OnlyReplacedDetached' /\ NewsIsTrue' /\ MovesForward
    BY <1>1 DEF IInv, TypeOK, KeptIsTrue, OnlyReplacedDetached, NewsIsTrue, MovesForward,
                KeptStatuses
  <1> QED
    BY <1>2, <1>3 DEF IInv

\* Every step keeps the invariant, and no direct debit comes back.
LEMMA NextKeeps == IInv /\ [Next]_vars => IInv' /\ MovesForward
  <1>1. ASSUME IInv, UNCHANGED vars
        PROVE  IInv' /\ MovesForward
    BY <1>1 DEF vars, IInv, TypeOK, KeptIsTrue, OnlyReplacedDetached, NewsIsTrue,
                RequestsAreTrue, Rows, MovesForward, KeptStatuses
  <1> QED
    BY <1>1, StripeKeeps, ReadingKeeps, RecordLockKeeps, RecordInsertKeeps, ApplyKeeps,
       TidyKeeps, AccountEndsKeeps, DeathKeeps DEF Next, Record

\* The invariant holds always, whatever the number of direct debits and requests.
THEOREM Invariance == Spec => []IInv
  <1>1. IInv /\ [Next]_vars => IInv'
    BY NextKeeps
  <1> QED
    BY <1>1, InitIInv, PTL DEF Spec

\* KeptIsTrue for every value of the constants: recordMandate and applyMandateStatus keep a
\* direct debit as working or cancelled only if it was.
THEOREM RowsAreTrue == Spec => []KeptIsTrue
  <1>1. IInv => KeptIsTrue
    BY DEF IInv
  <1> QED
    BY <1>1, Invariance, PTL

\* OnlyReplacedDetached for every value of the constants: detachReplacedMandates cancels no
\* direct debit that was not replaced, and none is noted as cancelled before it is.
THEOREM DetachedWasReplaced == Spec => []OnlyReplacedDetached
  <1>1. IInv => OnlyReplacedDetached
    BY DEF IInv
  <1> QED
    BY <1>1, Invariance, PTL

\* EndedStaysEnded for every value of the constants: news handled late or twice never brings
\* a direct debit back.
THEOREM NoneComesBack == Spec => EndedStaysEnded
  <1>1. IInv /\ [Next]_vars
          => [\A m \in Mandates :
                /\ kept[m] = "inactive" => kept'[m] = "inactive"
                /\ kept[m] = "active" => kept'[m] \in {"active", "inactive"}
                /\ kept[m] = "waiting" => kept'[m] # "none"]_vars
    BY NextKeeps DEF MovesForward
  <1> QED
    BY <1>1, Invariance, PTL DEF Spec, EndedStaysEnded
=============================================================================
