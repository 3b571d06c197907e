----------------------------- MODULE DeskProofs -----------------------------
(***************************************************************************)
(* Proofs about LinkCodes and Files, for any number of codes, requests and *)
(* files, and any limits.  A code that may still be used is in one place,  *)
(* the link's row or what one send found there (CodeIsInOnePlace), so the  *)
(* phone that uses it leaves none behind for a failed send to put back;    *)
(* and a count put back counts every code sent before (CountsGoUp).        *)
(* What storage has of a file, its row says: what the nightly run found    *)
(* stays due to go, and what a request moved stays until it is due.        *)
(* With direct debits (MandatesProofs) and a bond's pages (BondPagesProofs *)
(* by INSTANCE), they are the parts of MCDesk.                             *)
(***************************************************************************)
EXTENDS MCDesk, MandatesProofs, FiniteSetTheorems, NaturalsInduction, WellFoundedInduction, TLAPS

-----------------------------------------------------------------------------
(* LinkCodes: what each code lets in.                                      *)

\* No code is made at the start.
LEMMA InitCodesIInv == LinkCodesInit => CodesIInv
  <1> SUFFICES ASSUME LinkCodesInit
               PROVE  CodesIInv
    OBVIOUS
  <1> USE LinkCodesAssumption DEF LinkCodesInit, NoCodeRow, NoSend, NoCode, Codes
  <1>1. NoCodeRow \in CodeRow
    BY DEF CodeRow
  <1>2. LinkCodesTypeOK
    BY <1>1 DEF LinkCodesTypeOK
  <1>3. CodeIsInOnePlace
    BY DEF CodeIsInOnePlace, FoundBy
  <1>4. CodeUsedOnce
    BY DEF CodeUsedOnce
  <1> QED
    BY <1>2, <1>3, <1>4 DEF CodesIInv

\* The row sendLinkCode writes has the fresh code, counted within the window.
LEMMA NextRowType ==
  ASSUME LinkCodesTypeOK, made + 1 \in Codes, CodesInWindow < MaximumCodes
  PROVE  NextCodeRow \in CodeRow /\ NextCodeRow.code = made + 1
  <1>1. minute \in Nat /\ code.window \in Nat /\ code.inWindow \in Nat
    BY LinkCodesAssumption DEF LinkCodesTypeOK, CodeRow
  <1>2. CodesInWindow + 1 \in 0..MaximumCodes
    BY <1>1, LinkCodesAssumption DEF CodesInWindow
  <1>3. minute + CodeValid \in Nat
    BY <1>1, LinkCodesAssumption
  <1>4. (IF IsNewWindow THEN minute ELSE code.window) \in Nat
    BY <1>1
  <1> QED
    BY <1>2, <1>3, <1>4 DEF NextCodeRow, CodeRow

\* A fresh code takes the place of the one before, which only the new send keeps.
LEMMA SendKeeps ==
  ASSUME CodesIInv, NEW s \in Sends, SendLinkCode(s)
  PROVE  CodesIInv'
  <1> USE DEF CodesIInv, SendLinkCode
  <1>1. NextCodeRow \in CodeRow /\ NextCodeRow.code = made + 1
    BY NextRowType
  <1>2. code \in CodeRow /\ code.code \in Codes \cup {NoCode} /\ made \in Nat
    BY DEF LinkCodesTypeOK, CodeRow, Codes
  <1>3. send' = [send EXCEPT ![s] = [step |-> "sending", row |-> NextCodeRow, before |-> code]]
    OBVIOUS
  <1>4. LinkCodesTypeOK'
    <2> DEFINE new == [step |-> "sending", row |-> NextCodeRow, before |-> code]
    <2>1. /\ new \in [step : {"idle", "sending", "arrived", "failed"}, row : CodeRow,
                      before : CodeRow]
          /\ new.row.code # NoCode
      BY <1>1, <1>2 DEF NoCode
    <2> HIDE DEF new
    <2>2. send' = [send EXCEPT ![s] = new]
      BY <1>3 DEF new
    <2>3. made' \in Codes /\ code' \in CodeRow
      BY <1>1
    <2> QED
      BY <2>1, <2>2, <2>3 DEF LinkCodesTypeOK
  <1>5. \A o \in Sends : FoundBy(o)' = IF o = s THEN code.code ELSE FoundBy(o)
    BY <1>3 DEF LinkCodesTypeOK, FoundBy
  <1>6. code'.code = made + 1 /\ made' = made + 1 /\ uses' = uses
    BY <1>1
  <1>7. CodeIsInOnePlace'
    <2>0. /\ code.code \in Nat /\ code.code <= made
          /\ \A o \in Sends : FoundBy(o) \in Nat /\ FoundBy(o) <= made
      <3>1. \A o \in Sends : send[o].before \in CodeRow
        BY DEF LinkCodesTypeOK
      <3>2. \A row \in CodeRow : row.code \in Nat
        BY DEF CodeRow, Codes, NoCode
      <3> QED
        BY <1>2, <3>1, <3>2 DEF CodeIsInOnePlace, FoundBy
    <2>1. code'.code <= made' /\ \A o \in Sends : FoundBy(o)' <= made'
      BY <1>2, <1>5, <1>6, <2>0
    <2>2. uses'[code'.code] = 0 /\ \A o \in Sends : FoundBy(o)' # code'.code
      <3>1. uses[made + 1] = 0
        BY <1>2 DEF CodeIsInOnePlace
      <3> QED
        BY <1>2, <1>5, <1>6, <2>0, <3>1
    <2>3. \A o \in Sends : FoundBy(o)' # NoCode =>
             uses'[FoundBy(o)'] = 0 /\ \A q \in Sends : FoundBy(q)' = FoundBy(o)' => q = o
      BY <1>5, <1>6 DEF CodeIsInOnePlace
    <2>4. \A c \in Codes : c > made' => uses'[c] = 0
      BY <1>2, <1>6 DEF CodeIsInOnePlace, Codes
    <2> QED
      BY <2>1, <2>2, <2>3, <2>4 DEF CodeIsInOnePlace, FoundBy
  <1> QED
    BY <1>4, <1>6, <1>7 DEF CodeUsedOnce

\* A step that leaves every code where it is, or nowhere, keeps the invariant.
LEMMA StepKeeps ==
  ASSUME CodesIInv, LinkCodesTypeOK', UNCHANGED <<code, made, uses>>,
         \A s \in Sends : FoundBy(s)' \in {FoundBy(s), NoCode}
  PROVE  CodesIInv'
  <1>1. made \in Nat
    BY DEF CodesIInv, LinkCodesTypeOK, Codes
  <1>2. CodeIsInOnePlace'
    BY <1>1 DEF CodesIInv, CodeIsInOnePlace, NoCode
  <1> QED
    BY <1>2 DEF CodesIInv, CodeUsedOnce

\* A code put back leaves the send that found it (putCodeBack).
LEMMA PutBackKeeps ==
  ASSUME CodesIInv, NEW s \in Sends, PutCodeBack(s)
  PROVE  CodesIInv'
  <1> USE DEF CodesIInv, PutCodeBack
  <1>1. send[s].before \in CodeRow /\ code \in CodeRow /\ NoCodeRow \in CodeRow /\ made \in Nat
    BY LinkCodesAssumption DEF LinkCodesTypeOK, CodeRow, NoCodeRow, Codes, NoCode
  <1>2. NoSend \in [step : {"idle", "sending", "arrived", "failed"}, row : CodeRow, before : CodeRow]
    BY <1>1 DEF NoSend
  <1>3. LinkCodesTypeOK'
    <2>1. NoSend.step = "idle"
      BY DEF NoSend
    <2>2. code' \in CodeRow
      BY <1>1
    <2> QED
      BY <1>1, <1>2, <2>1, <2>2 DEF LinkCodesTypeOK
  <1>4. \A o \in Sends : FoundBy(o)' = IF o = s THEN NoCode ELSE FoundBy(o)
    BY DEF LinkCodesTypeOK, FoundBy, NoSend, NoCodeRow
  <1>5. code'.code \in {code.code, FoundBy(s)} /\ uses' = uses /\ made' = made
    BY DEF FoundBy
  <1>6. CodeIsInOnePlace'
    BY <1>1, <1>4, <1>5 DEF CodeIsInOnePlace, NoCode
  <1> QED
    BY <1>3, <1>5, <1>6 DEF CodeUsedOnce

\* A code used is nowhere any more (checkLinkCode).
LEMMA UseKeeps ==
  ASSUME CodesIInv, CheckRightCode
  PROVE  CodesIInv'
  <1> USE DEF CodesIInv, CheckRightCode, IsCodeInForce
  <1> DEFINE c == code.code
  <1>1. code \in CodeRow /\ c \in Codes /\ made \in Nat
    BY DEF LinkCodesTypeOK, CodeRow, Codes, NoCode
  <1>2. CodeUsedUp \in CodeRow /\ CodeUsedUp.code = NoCode
    BY <1>1 DEF CodeUsedUp, CodeRow, NoCode
  <1>3. uses[c] = 0 /\ uses' = [uses EXCEPT ![c] = 1]
    <2>1. uses[c] = 0
      BY <1>1 DEF CodeIsInOnePlace
    <2> QED
      BY <2>1
  <1>4. LinkCodesTypeOK'
    BY <1>1, <1>2, <1>3 DEF LinkCodesTypeOK
  <1>5. \A o \in Sends : FoundBy(o)' = FoundBy(o) /\ FoundBy(o) # c
    BY DEF CodeIsInOnePlace, FoundBy
  <1>6. \A d \in Codes : uses'[d] = IF d = c THEN 1 ELSE uses[d]
    BY <1>3 DEF LinkCodesTypeOK
  <1>7. \A o \in Sends : FoundBy(o) \in Codes \cup {NoCode}
    BY DEF LinkCodesTypeOK, FoundBy, CodeRow
  <1>8. CodeIsInOnePlace'
    <2>1. code'.code = NoCode /\ made' = made
      BY <1>2
    <2>2. code'.code <= made' /\ \A o \in Sends : FoundBy(o)' <= made'
      BY <1>1, <1>5, <2>1 DEF CodeIsInOnePlace, NoCode
    <2>3. \A o \in Sends : FoundBy(o)' # NoCode =>
             uses'[FoundBy(o)'] = 0 /\ \A q \in Sends : FoundBy(q)' = FoundBy(o)' => q = o
      BY <1>5, <1>6, <1>7 DEF CodeIsInOnePlace
    <2>4. \A d \in Codes : d > made' => uses'[d] = 0
      BY <1>1, <1>6, <2>1 DEF CodeIsInOnePlace, Codes
    <2> QED
      BY <2>1, <2>2, <2>3, <2>4 DEF CodeIsInOnePlace, FoundBy
  <1>9. CodeUsedOnce'
    BY <1>6 DEF CodeUsedOnce
  <1> QED
    BY <1>4, <1>8, <1>9

\* Every step of the spec keeps the invariant.
LEMMA StepCodesIInv == CodesIInv /\ [LinkCodesNext]_codesVars => CodesIInv'
  <1> SUFFICES ASSUME CodesIInv, [LinkCodesNext]_codesVars
               PROVE  CodesIInv'
    OBVIOUS
  <1>1. ASSUME NEW s \in Sends, SendLinkCode(s) PROVE CodesIInv'
    BY <1>1, SendKeeps
  <1>2. ASSUME NEW s \in Sends, EmailArrives(s) \/ SayCodeSent(s) \/ EmailFails(s) \/ SendDies(s)
        PROVE  CodesIInv'
    <2>1. NoSend \in [step : {"idle", "sending", "arrived", "failed"}, row : CodeRow,
                      before : CodeRow]
          /\ NoSend.step = "idle" /\ NoSend.before.code = NoCode
      BY LinkCodesAssumption DEF NoSend, NoCodeRow, NoCode, CodeRow, Codes
    <2>2. LinkCodesTypeOK /\ send[s].row \in CodeRow
      BY DEF CodesIInv, LinkCodesTypeOK
    <2>3. CASE EmailArrives(s)
      <3>1. send[s].row.code \in Codes
        BY <2>2, <2>3 DEF EmailArrives, LinkCodesTypeOK, CodeRow
      <3>2. LinkCodesTypeOK'
        BY <2>2, <2>3, <3>1 DEF EmailArrives, LinkCodesTypeOK
      <3> QED
        BY <2>2, <2>3, <3>2, StepKeeps DEF EmailArrives, FoundBy, LinkCodesTypeOK
    <2>4. CASE SayCodeSent(s)
      <3>1. LinkCodesTypeOK'
        BY <2>1, <2>2, <2>4 DEF SayCodeSent, LinkCodesTypeOK
      <3> QED
        BY <2>1, <2>2, <2>4, <3>1, StepKeeps DEF SayCodeSent, FoundBy, LinkCodesTypeOK
    <2>5. CASE EmailFails(s)
      <3>1. LinkCodesTypeOK'
        BY <2>2, <2>5 DEF EmailFails, LinkCodesTypeOK
      <3> QED
        BY <2>2, <2>5, <3>1, StepKeeps DEF EmailFails, FoundBy, LinkCodesTypeOK
    <2>6. CASE SendDies(s)
      <3>1. LinkCodesTypeOK'
        BY <2>1, <2>2, <2>6 DEF SendDies, LinkCodesTypeOK
      <3> QED
        BY <2>1, <2>2, <2>6, <3>1, StepKeeps DEF SendDies, FoundBy, LinkCodesTypeOK
    <2> QED
      BY <1>2, <2>3, <2>4, <2>5, <2>6
  <1>3. ASSUME NEW s \in Sends, PutCodeBack(s) PROVE CodesIInv'
    BY <1>3, PutBackKeeps
  <1>4. CASE CheckRightCode
    BY <1>4, UseKeeps
  <1>5. CASE CheckWrongCode
    <2>1. /\ codeTries + 1 \in 0..MaximumWrongCodes
          /\ codeTries + 1 >= MaximumWrongCodes <=> codeTries + 1 = MaximumWrongCodes
      BY <1>5, LinkCodesAssumption DEF CodesIInv, LinkCodesTypeOK, CheckWrongCode, IsCodeInForce
    <2>2. codeTries' \in 0..MaximumWrongCodes /\ (isLocked' <=> codeTries' = MaximumWrongCodes)
      BY <1>5, <2>1 DEF CheckWrongCode
    <2>3. UNCHANGED <<minute, code, made, send, inbox, told, uses>>
      BY <1>5 DEF CheckWrongCode
    <2>4. LinkCodesTypeOK'
      BY <2>2, <2>3 DEF CodesIInv, LinkCodesTypeOK
    <2> QED
      BY <2>3, <2>4 DEF CodesIInv, CodeIsInOnePlace, CodeUsedOnce, FoundBy
  <1>6. CASE PassMinute
    BY <1>6, LinkCodesAssumption
       DEF CodesIInv, LinkCodesTypeOK, CodeIsInOnePlace, CodeUsedOnce, FoundBy, PassMinute
  <1>7. CASE UNCHANGED codesVars
    BY <1>7 DEF CodesIInv, LinkCodesTypeOK, CodeIsInOnePlace, CodeUsedOnce, FoundBy, codesVars
  <1> QED
    BY <1>1, <1>2, <1>3, <1>4, <1>5, <1>6, <1>7 DEF LinkCodesNext

\* Every code that may still be used is in one place, always.
THEOREM CodesInvariance == LinkCodesSpec => []CodesIInv
  <1> QED
    BY InitCodesIInv, StepCodesIInv, PTL DEF LinkCodesSpec

\* A code of a link lets in one phone, whatever sends overlap and fail (checkLinkCode,
\* putCodeBack).
THEOREM OneUsePerCode == LinkCodesSpec => []CodeUsedOnce
  <1>1. CodesIInv => CodeUsedOnce
    BY DEF CodesIInv
  <1> QED
    BY CodesInvariance, <1>1, PTL

-----------------------------------------------------------------------------
(* LinkCodes: how many codes a window has.                                 *)

IsUnderWay(s) == send[s].step # "idle"

\* The codes that were said to be sent, or may still be.
Live == told \cup {send[s].row : s \in {o \in Sends : send[o].step \in {"sending", "arrived"}}}

\* A row is counted up to another: in an earlier window, or no further in the same one.
IsUpTo(t, u) == t.window < u.window \/ (t.window = u.window /\ t.inWindow <= u.inWindow)
IsBeforeRow(t, u) == t.window < u.window \/ (t.window = u.window /\ t.inWindow < u.inWindow)

\* The row, as it is or as a send found it, counts every code sent up to it.
Counts(row, t) == IsUpTo(t, row) /\ (row.code # NoCode => t.code <= row.code)

RowsAreMade ==
    /\ code.window <= minute /\ code.code <= made
    /\ \A s \in Sends : IsUnderWay(s) =>
          /\ send[s].row.code \in 1..made /\ send[s].row.inWindow >= 1
          /\ send[s].before.code <= made /\ send[s].before.window <= minute
    /\ \A t \in told : t.code \in 1..made /\ t.inWindow >= 1

\* Each code has one row.
RowsDiffer ==
    /\ \A s, o \in Sends : (IsUnderWay(s) /\ IsUnderWay(o) /\ send[s].row.code = send[o].row.code) => s = o
    /\ \A t \in told : \A s \in Sends : IsUnderWay(s) => send[s].row.code # t.code
    /\ \A t, u \in told : t.code = u.code => t = u

\* The count goes up with each code sent, and a send that puts back what it found puts back
\* the count of every code sent before its own.
CountsGoUp ==
    /\ \A t \in Live : Counts(code, t)
    /\ \A s \in Sends : \A t \in Live :
          (IsUnderWay(s) /\ t.code < send[s].row.code) => Counts(send[s].before, t)
    /\ \A t, u \in Live : t.code < u.code => IsBeforeRow(t, u)

WindowIInv == RowsAreMade /\ RowsDiffer /\ CountsGoUp

LEMMA RowNumbers ==
  ASSUME NEW r \in CodeRow
  PROVE  r.code \in Nat /\ r.window \in Nat /\ r.inWindow \in 0..MaximumCodes /\ r.inWindow \in Nat
  BY LinkCodesAssumption DEF CodeRow, Codes, NoCode

\* A row that is live is one said to be sent, or one on its way.
LEMMA LiveIs ==
  ASSUME LinkCodesTypeOK
  PROVE  /\ Live \subseteq CodeRow
         /\ told \subseteq Live
         /\ \A s \in Sends : send[s].step \in {"sending", "arrived"} => send[s].row \in Live
         /\ \A t \in Live : t \in told \/ \E s \in Sends : /\ send[s].step \in {"sending", "arrived"}
                                                           /\ t = send[s].row
  BY DEF Live, LinkCodesTypeOK

\* What was said to be sent, or may be, was made and counted; and each code has one row.
LEMMA LiveAreMade ==
  ASSUME LinkCodesTypeOK, RowsAreMade, RowsDiffer
  PROVE  /\ \A t \in Live : t.code \in 1..made /\ t.inWindow >= 1
         /\ \A t, u \in Live : t.code = u.code => t = u
         /\ \A t \in Live : \A s \in Sends :
               (IsUnderWay(s) /\ send[s].row.code = t.code) => t = send[s].row
  <1>1. \A s \in Sends : send[s].step \in {"sending", "arrived"} => IsUnderWay(s)
    BY DEF IsUnderWay
  <1> QED
    BY <1>1, LiveIs DEF RowsAreMade, RowsDiffer

LEMMA InitWindows == LinkCodesInit /\ LinkCodesTypeOK => WindowIInv
  <1> SUFFICES ASSUME LinkCodesInit, LinkCodesTypeOK
               PROVE  WindowIInv
    OBVIOUS
  <1>1. /\ told = {} /\ code.window = 0 /\ code.code = 0 /\ minute = 0 /\ made = 0
        /\ \A s \in Sends : send[s].step = "idle"
    BY DEF LinkCodesInit, NoCodeRow, NoSend, NoCode
  <1>2. Live = {}
    BY <1>1 DEF Live
  <1> QED
    BY <1>1, <1>2 DEF WindowIInv, RowsAreMade, RowsDiffer, CountsGoUp, IsUnderWay

\* A step after which less is on its way, and the row as it was, keeps the counts.
LEMMA FewerKeeps ==
  ASSUME LinkCodesTypeOK, LinkCodesTypeOK', WindowIInv, RowsDiffer',
         UNCHANGED <<code, made>>, minute <= minute',
         Live' \subseteq Live, told' \subseteq Live,
         \A s \in Sends : IsUnderWay(s)' => /\ IsUnderWay(s)
                                            /\ send'[s].row = send[s].row
                                            /\ send'[s].before = send[s].before
  PROVE  WindowIInv'
  <1>1. minute \in Nat /\ minute' \in Nat /\ made \in Nat
    BY DEF LinkCodesTypeOK, Codes
  <1>2. code.window \in Nat /\ \A s \in Sends : send[s].before.window \in Nat
    BY RowNumbers DEF LinkCodesTypeOK
  <1>3. RowsAreMade'
    BY <1>1, <1>2, LiveAreMade DEF WindowIInv, RowsAreMade
  <1>4. \A t \in Live' : Counts(code, t)'
    BY DEF WindowIInv, CountsGoUp, Counts
  <1>5. ASSUME NEW s \in Sends, NEW t \in Live', IsUnderWay(s)', t.code < send'[s].row.code
        PROVE  Counts(send[s].before, t)'
    BY <1>5 DEF WindowIInv, CountsGoUp, Counts
  <1>6. CountsGoUp'
    BY <1>4, <1>5 DEF WindowIInv, CountsGoUp
  <1> QED
    BY <1>3, <1>6 DEF WindowIInv

\* A row that is counted up to another is counted up to what comes after it.
LEMMA CountsGoOn ==
  ASSUME NEW t \in CodeRow, NEW r \in CodeRow, NEW q \in CodeRow, IsUpTo(t, r), IsBeforeRow(r, q)
  PROVE  IsBeforeRow(t, q) /\ IsUpTo(t, q)
  <1>1. \A row \in {t, r, q} : row.window \in Nat /\ row.inWindow \in Nat
    BY RowNumbers
  <1> QED
    BY <1>1 DEF IsUpTo, IsBeforeRow

\* A fresh code is counted after all there are.
LEMMA SendCounts ==
  ASSUME LinkCodesTypeOK, LinkCodesTypeOK', WindowIInv, NEW s \in Sends, SendLinkCode(s)
  PROVE  WindowIInv'
  <1> USE DEF WindowIInv
  <1>1. PICK old, new : old = code /\ new = NextCodeRow
    OBVIOUS
  <1>2. /\ ~IsUnderWay(s) /\ made + 1 \in Codes /\ CodesInWindow < MaximumCodes
        /\ made' = made + 1 /\ code' = new
        /\ send' = [send EXCEPT ![s] = [step |-> "sending", row |-> new, before |-> old]]
        /\ UNCHANGED <<minute, told>>
    BY <1>1 DEF SendLinkCode, IsUnderWay, NoSend
  <1>3. /\ new \in CodeRow /\ old \in CodeRow /\ new.code = made + 1
        /\ minute \in Nat /\ made \in Nat
    BY <1>1, <1>2, NextRowType DEF LinkCodesTypeOK, Codes
  <1>4. IsBeforeRow(old, new) /\ new.window <= minute /\ new.inWindow >= 1
    <2>1. /\ new.window = IF IsNewWindow THEN minute ELSE old.window
          /\ new.inWindow = CodesInWindow + 1
      BY <1>1 DEF NextCodeRow
    <2>2. old.window \in Nat /\ old.inWindow \in Nat /\ old.window <= minute
      BY <1>1, <1>3, RowNumbers DEF RowsAreMade
    <2>3. CASE IsNewWindow
      <3>1. new.window = minute /\ new.inWindow = 1
        BY <2>1, <2>3 DEF CodesInWindow
      <3>2. minute - old.window >= CodeWindow \/ old.inWindow = 0
        BY <1>1, <2>3 DEF IsNewWindow
      <3> QED
        BY <1>3, <2>2, <3>1, <3>2, LinkCodesAssumption DEF IsBeforeRow
    <2>4. CASE ~IsNewWindow
      <3>1. new.window = old.window /\ new.inWindow = old.inWindow + 1
        BY <1>1, <2>1, <2>4 DEF CodesInWindow
      <3> QED
        BY <2>2, <3>1 DEF IsBeforeRow
    <2> QED
      BY <2>3, <2>4
  <1>5. /\ \A o \in Sends : o # s => send'[o] = send[o]
        /\ send'[s].step = "sending" /\ send'[s].row = new /\ send'[s].before = old
    BY <1>2 DEF LinkCodesTypeOK
  <1>6. /\ IsUnderWay(s)' /\ \A o \in Sends : o # s => (IsUnderWay(o)' <=> IsUnderWay(o))
    BY <1>5 DEF IsUnderWay
  <1>7. Live' = Live \cup {new}
    <2>1. told' = told
      BY <1>2
    <2> QED
      BY <1>2, <1>5, <2>1 DEF Live, IsUnderWay
  <1>8. \A t \in Live : t.code \in 1..made /\ t \in CodeRow
    BY LiveIs, LiveAreMade
  <1>9. \A o \in Sends : IsUnderWay(o) => send[o].row.code \in 1..made /\ send[o].row.code \in Nat
    BY <1>3 DEF RowsAreMade
  <1>10. RowsAreMade'
    <2>1. code'.window <= minute' /\ code'.code <= made'
      BY <1>2, <1>3, <1>4
    <2>2. ASSUME NEW o \in Sends, IsUnderWay(o)'
          PROVE  /\ send'[o].row.code \in 1..made' /\ send'[o].row.inWindow >= 1
                 /\ send'[o].before.code <= made' /\ send'[o].before.window <= minute'
      <3>1. CASE o = s
        <4>1. old.code \in Nat /\ old.code <= made /\ old.window <= minute
          BY <1>1, <1>3, RowNumbers DEF RowsAreMade
        <4> QED
          BY <1>2, <1>3, <1>4, <1>5, <3>1, <4>1
      <3>2. CASE o # s
        <4>1. send[o].before \in CodeRow
          BY DEF LinkCodesTypeOK
        <4>2. send[o].before.code \in Nat
          BY <4>1, RowNumbers
        <4> QED
          BY <1>2, <1>3, <1>5, <1>6, <2>2, <3>2, <4>2 DEF RowsAreMade
      <3> QED
        BY <3>1, <3>2
    <2>3. \A t \in told' : t.code \in 1..made' /\ t.inWindow >= 1
      BY <1>2, <1>3 DEF RowsAreMade
    <2> QED
      BY <2>1, <2>2, <2>3 DEF RowsAreMade
  <1>11. RowsDiffer'
    <2>1. \A o \in Sends : (o # s /\ IsUnderWay(o)') => send'[o].row.code # new.code
      BY <1>3, <1>5, <1>6, <1>9
    <2>2. \A t \in told : t.code # new.code
      BY <1>3, <1>8, LiveIs
    <2> QED
      BY <1>2, <1>5, <1>6, <2>1, <2>2 DEF RowsDiffer
  <1>12. \A t \in Live : Counts(old, t) /\ IsBeforeRow(t, new) /\ IsUpTo(t, new)
    <2> TAKE t \in Live
    <2>1. t \in CodeRow /\ Counts(old, t)
      BY <1>1, <1>8 DEF CountsGoUp
    <2>2. IsUpTo(t, old)
      BY <2>1 DEF Counts
    <2> QED
      BY <1>3, <1>4, <2>1, <2>2, CountsGoOn
  <1>13. \A t \in Live' : Counts(code', t)
    <2>1. IsUpTo(new, new) /\ new.code <= new.code
      BY <1>3, RowNumbers DEF IsUpTo
    <2>2. \A t \in Live : t.code <= new.code
      BY <1>3, <1>8
    <2> QED
      BY <1>2, <1>7, <1>12, <2>1, <2>2 DEF Counts
  <1>14. ASSUME NEW o \in Sends, NEW t \in Live', IsUnderWay(o)', t.code < send'[o].row.code
         PROVE  Counts(send'[o].before, t)
    <2>1. CASE o = s
      <3>1. t.code < made + 1
        BY <1>3, <1>5, <1>14, <2>1
      <3>2. t \in Live
        BY <1>3, <1>7, <3>1
      <3> QED
        BY <1>5, <1>12, <2>1, <3>2
    <2>2. CASE o # s
      <3>1. send'[o] = send[o] /\ IsUnderWay(o) /\ send[o].row.code \in 1..made
        BY <1>5, <1>6, <1>9, <1>14, <2>2
      <3>2. t \in Live
        BY <1>3, <1>7, <1>14, <3>1
      <3> QED
        BY <1>14, <3>1, <3>2 DEF CountsGoUp
    <2> QED
      BY <2>1, <2>2
  <1>15. ASSUME NEW t \in Live', NEW u \in Live', t.code < u.code PROVE IsBeforeRow(t, u)
    <2>1. CASE u = new
      <3>1. t \in Live
        BY <1>3, <1>7, <1>15, <2>1
      <3> QED
        BY <1>12, <2>1, <3>1
    <2>2. CASE u # new
      <3>1. u \in Live /\ u.code \in 1..made
        BY <1>7, <1>8, <2>2
      <3>2. t \in Live
        BY <1>3, <1>7, <1>15, <3>1
      <3> QED
        BY <1>15, <3>1, <3>2 DEF CountsGoUp
    <2> QED
      BY <2>1, <2>2
  <1>16. CountsGoUp'
    <2>1. \A t \in Live' : Counts(code, t)'
      BY <1>13 DEF Counts, IsUpTo
    <2>2. \A o \in Sends : \A t \in Live' :
             (IsUnderWay(o)' /\ t.code < send'[o].row.code) => Counts(send[o].before, t)'
      BY <1>14 DEF Counts, IsUpTo
    <2> QED
      BY <1>15, <2>1, <2>2 DEF CountsGoUp, IsBeforeRow
  <1> QED
    BY <1>10, <1>11, <1>16

\* What is put back counted every code sent before the one that failed, and none came after.
LEMMA PutBackCounts ==
  ASSUME LinkCodesTypeOK, LinkCodesTypeOK', WindowIInv, NEW s \in Sends, PutCodeBack(s)
  PROVE  WindowIInv'
  <1> USE DEF WindowIInv
  <1>1. PICK was : was = send[s]
    OBVIOUS
  <1>2. /\ was.step = "failed" /\ IsUnderWay(s)
        /\ code' = IF code.code = was.row.code THEN was.before ELSE code
        /\ send' = [send EXCEPT ![s] = NoSend]
        /\ UNCHANGED <<minute, made, told>>
    BY <1>1 DEF PutCodeBack, IsPutBack, IsUnderWay
  <1>3. /\ \A o \in Sends : o # s => send'[o] = send[o]
        /\ send'[s].step = "idle"
    BY <1>2 DEF LinkCodesTypeOK, NoSend
  <1>4. ~IsUnderWay(s)' /\ \A o \in Sends : o # s => (IsUnderWay(o)' <=> IsUnderWay(o))
    BY <1>3 DEF IsUnderWay
  <1>5. Live' = Live
    BY <1>1, <1>2, <1>3 DEF Live
  <1>6. RowsAreMade'
    BY <1>1, <1>2, <1>3, <1>4 DEF RowsAreMade
  <1>7. RowsDiffer'
    BY <1>2, <1>3, <1>4 DEF RowsDiffer
  <1>8. ASSUME NEW t \in Live PROVE Counts(code', t)
    <2>1. CASE code.code # was.row.code
      BY <1>2, <2>1 DEF CountsGoUp
    <2>2. CASE code.code = was.row.code
      <3>1. was.row.code \in Nat \ {0} /\ t.code \in Nat
        <4>1. made \in Nat
          BY DEF LinkCodesTypeOK, Codes
        <4> QED
          BY <1>1, <1>2, <4>1, LiveAreMade DEF RowsAreMade
      <3>2. t.code <= was.row.code
        BY <2>2, <3>1 DEF CountsGoUp, Counts, NoCode
      <3>3. t.code # was.row.code
        <4> SUFFICES ASSUME t.code = was.row.code PROVE FALSE
          OBVIOUS
        <4>1. CASE t \in told
          BY <1>1, <1>2, <4>1 DEF RowsDiffer
        <4>2. CASE t \notin told
          <5>1. PICK o \in Sends : send[o].step \in {"sending", "arrived"} /\ t = send[o].row
            BY <4>2, LiveIs
          <5>2. IsUnderWay(o) /\ o = s
            BY <1>1, <1>2, <5>1 DEF IsUnderWay, RowsDiffer
          <5> QED
            BY <1>1, <1>2, <5>1, <5>2
        <4> QED
          BY <4>1, <4>2
      <3>4. t.code < was.row.code
        BY <3>1, <3>2, <3>3
      <3> QED
        BY <1>1, <1>2, <2>2, <3>4 DEF CountsGoUp
    <2> QED
      BY <2>1, <2>2
  <1>9. ASSUME NEW o \in Sends, NEW t \in Live, IsUnderWay(o)', t.code < send'[o].row.code
        PROVE  Counts(send'[o].before, t)
    BY <1>3, <1>4, <1>9 DEF CountsGoUp
  <1>10. CountsGoUp'
    <2>1. \A t \in Live' : Counts(code, t)'
      BY <1>5, <1>8 DEF Counts, IsUpTo
    <2>2. \A o \in Sends : \A t \in Live' :
             (IsUnderWay(o)' /\ t.code < send'[o].row.code) => Counts(send[o].before, t)'
      BY <1>5, <1>9 DEF Counts, IsUpTo
    <2>3. \A t, u \in Live' : t.code < u.code => IsBeforeRow(t, u)'
      BY <1>5 DEF CountsGoUp, IsBeforeRow
    <2> QED
      BY <2>1, <2>2, <2>3 DEF CountsGoUp
  <1> QED
    BY <1>6, <1>7, <1>10

\* A code used leaves its count.
LEMMA UseCounts ==
  ASSUME LinkCodesTypeOK, LinkCodesTypeOK', WindowIInv, CheckRightCode
  PROVE  WindowIInv'
  <1> USE DEF WindowIInv
  <1>1. /\ code'.code = NoCode /\ code'.window = code.window /\ code'.inWindow = code.inWindow
        /\ UNCHANGED <<minute, made, send, told>>
    BY DEF CheckRightCode, CodeUsedUp, LinkCodesTypeOK, CodeRow
  <1>2. Live' = Live /\ \A s \in Sends : IsUnderWay(s)' <=> IsUnderWay(s)
    BY <1>1 DEF Live, IsUnderWay
  <1>3. RowsAreMade'
    <2>1. made \in Nat
      BY DEF LinkCodesTypeOK, Codes
    <2> QED
      BY <1>1, <1>2, <2>1 DEF RowsAreMade, NoCode
  <1>4. RowsDiffer'
    BY <1>1, <1>2 DEF RowsDiffer
  <1>5. \A t \in Live' : Counts(code, t)'
    BY <1>1, <1>2 DEF CountsGoUp, Counts, IsUpTo
  <1>6. \A s \in Sends : \A t \in Live' :
           (IsUnderWay(s)' /\ t.code < send'[s].row.code) => Counts(send[s].before, t)'
    BY <1>1, <1>2 DEF CountsGoUp, Counts, IsUpTo
  <1>7. \A t, u \in Live' : t.code < u.code => IsBeforeRow(t, u)'
    BY <1>2 DEF CountsGoUp, IsBeforeRow
  <1>8. CountsGoUp'
    BY <1>5, <1>6, <1>7 DEF CountsGoUp
  <1> QED
    BY <1>3, <1>4, <1>8

LEMMA StepWindows ==
  LinkCodesTypeOK /\ LinkCodesTypeOK' /\ WindowIInv /\ [LinkCodesNext]_codesVars => WindowIInv'
  <1> SUFFICES ASSUME LinkCodesTypeOK, LinkCodesTypeOK', WindowIInv, [LinkCodesNext]_codesVars
               PROVE  WindowIInv'
    OBVIOUS
  <1>1. minute \in Nat
    BY DEF LinkCodesTypeOK
  <1>2. ASSUME NEW s \in Sends, SendLinkCode(s) PROVE WindowIInv'
    BY <1>2, SendCounts
  <1>3. ASSUME NEW s \in Sends, EmailArrives(s) \/ SayCodeSent(s) \/ EmailFails(s) \/ SendDies(s)
        PROVE  WindowIInv'
    <2>1. PICK was : was = send[s]
      OBVIOUS
    <2>2. /\ UNCHANGED <<minute, code, made>>
          /\ was.step = "arrived" => IsUnderWay(s)
      BY <1>3, <2>1 DEF EmailArrives, SayCodeSent, EmailFails, SendDies, IsUnderWay
    <2>3. \A o \in Sends : o # s => send'[o] = send[o]
      BY <1>3 DEF EmailArrives, SayCodeSent, EmailFails, SendDies, LinkCodesTypeOK
    <2>4. \A o \in Sends : IsUnderWay(o)' => /\ IsUnderWay(o)
                                             /\ send'[o].row = send[o].row
                                             /\ send'[o].before = send[o].before
      <3>1. IsUnderWay(s)' => /\ IsUnderWay(s)
                              /\ send'[s].row = was.row /\ send'[s].before = was.before
        BY <1>3, <2>1 DEF EmailArrives, SayCodeSent, EmailFails, SendDies, LinkCodesTypeOK,
                          IsUnderWay, NoSend
      <3>2. \A o \in Sends : o # s => (IsUnderWay(o)' <=> IsUnderWay(o))
        BY <2>3 DEF IsUnderWay
      <3> QED
        BY <2>1, <2>2, <2>3, <3>1, <3>2
    <2>5. /\ \A t \in told' : t \in told \/ (t = was.row /\ was.step = "arrived" /\ ~IsUnderWay(s)')
          /\ told \subseteq told'
      BY <1>3, <2>1 DEF EmailArrives, SayCodeSent, EmailFails, SendDies, LinkCodesTypeOK,
                        IsUnderWay, NoSend
    <2>6. told' \subseteq Live
      BY <2>1, <2>5, LiveIs
    <2>7. Live' \subseteq Live
      <3>1. send'[s].step \in {"sending", "arrived"} =>
               was.step \in {"sending", "arrived"} /\ send'[s].row = was.row
        BY <1>3, <2>1 DEF EmailArrives, SayCodeSent, EmailFails, SendDies, LinkCodesTypeOK, NoSend
      <3>2. \A o \in Sends : send'[o].step \in {"sending", "arrived"} => send'[o].row \in Live
        BY <2>1, <2>3, <3>1, LiveIs
      <3> QED
        BY <2>6, <3>2 DEF Live
    <2>8. RowsDiffer'
      <3>1. \A o, p \in Sends : (IsUnderWay(o)' /\ IsUnderWay(p)' /\ send'[o].row.code = send'[p].row.code) => o = p
        BY <2>4 DEF WindowIInv, RowsDiffer
      <3>2. \A t \in told' : \A o \in Sends : IsUnderWay(o)' => send'[o].row.code # t.code
        BY <2>1, <2>2, <2>4, <2>5 DEF WindowIInv, RowsDiffer
      <3>3. \A t, u \in told' : t.code = u.code => t = u
        BY <2>1, <2>2, <2>5 DEF WindowIInv, RowsDiffer
      <3> QED
        BY <3>1, <3>2, <3>3 DEF RowsDiffer
    <2> QED
      BY <1>1, <2>2, <2>4, <2>6, <2>7, <2>8, FewerKeeps
  <1>4. ASSUME NEW s \in Sends, PutCodeBack(s) PROVE WindowIInv'
    BY <1>4, PutBackCounts
  <1>5. CASE CheckRightCode
    BY <1>5, UseCounts
  <1>6. CASE CheckWrongCode \/ PassMinute \/ UNCHANGED codesVars
    <2>1. UNCHANGED <<code, made, send, told>> /\ minute <= minute'
      BY <1>1, <1>6 DEF CheckWrongCode, PassMinute, codesVars
    <2>2. Live' = Live /\ \A s \in Sends : IsUnderWay(s)' <=> IsUnderWay(s)
      BY <2>1 DEF Live, IsUnderWay
    <2>3. RowsDiffer'
      BY <2>1, <2>2 DEF WindowIInv, RowsDiffer
    <2> QED
      BY <2>1, <2>2, <2>3, LiveIs, FewerKeeps
  <1> QED
    BY <1>2, <1>3, <1>4, <1>5, <1>6 DEF LinkCodesNext

\* The count a window's codes were sent under tells them apart.
LEMMA WindowHolds == LinkCodesTypeOK /\ WindowIInv => CodesWithinWindow
  <1> SUFFICES ASSUME LinkCodesTypeOK, WindowIInv, NEW t \in told
               PROVE  Cardinality({o \in told : o.window = t.window}) <= MaximumCodes
    BY DEF CodesWithinWindow
  <1> DEFINE same == {o \in told : o.window = t.window}
             count == [o \in same |-> o.inWindow]
  <1>1. \A o \in same : /\ o \in Live /\ o.inWindow \in 1..MaximumCodes /\ o.code \in Nat
                        /\ o.window = t.window
    <2>1. \A o \in same : o \in CodeRow /\ o \in Live /\ o.inWindow >= 1
      BY LiveIs, LiveAreMade DEF WindowIInv
    <2> QED
      BY <2>1, RowNumbers
  <1>2. \A o, p \in same : o.inWindow = p.inWindow => o = p
    <2>1. \A o, p \in same : o.code < p.code => o.inWindow < p.inWindow
      <3>1. \A o \in same : o.window \in Nat
        BY RowNumbers, LiveIs, <1>1
      <3> QED
        BY <1>1, <3>1 DEF WindowIInv, CountsGoUp, IsBeforeRow
    <2>2. \A o, p \in same : o.code = p.code => o = p
      BY <1>1, LiveAreMade DEF WindowIInv
    <2> QED
      BY <1>1, <2>1, <2>2
  <1>3. count \in Injection(same, 1..MaximumCodes)
    BY <1>1, <1>2 DEF Injection, IsInjective
  <1> HIDE DEF same, count
  <1>4. MaximumCodes \in Nat /\ MaximumCodes >= 1
    BY LinkCodesAssumption
  <1>5. IsFiniteSet(1..MaximumCodes) /\ Cardinality(1..MaximumCodes) = MaximumCodes
    BY <1>4, FS_Interval
  <1>6. Cardinality(same) <= MaximumCodes
    BY <1>3, <1>5, FS_Injection
  <1> QED
    BY <1>6 DEF same

\* No hour has more codes said to be sent than its limit, however sends overlap, fail and
\* put back the counts they found (sendLinkCode, putCodeBack).
THEOREM HourHasItsCodes == LinkCodesSpec => []CodesWithinWindow
  <1>1. CodesIInv => LinkCodesTypeOK
    BY DEF CodesIInv
  <1>2. LinkCodesInit => WindowIInv
    BY InitCodesIInv, <1>1, InitWindows
  <1>3. CodesIInv /\ CodesIInv' /\ WindowIInv /\ [LinkCodesNext]_codesVars => WindowIInv'
    BY StepWindows DEF CodesIInv
  <1>4. LinkCodesSpec => []WindowIInv
    BY CodesInvariance, <1>2, <1>3, PTL DEF LinkCodesSpec
  <1>5. CodesIInv /\ WindowIInv => CodesWithinWindow
    BY <1>1, WindowHolds
  <1> QED
    BY CodesInvariance, <1>4, <1>5, PTL

-----------------------------------------------------------------------------
(* Files: what storage has and what the rows say, however requests, the    *)
(* nightly run and their deaths cross.                                     *)

IsDue(f) == file[f].createdAt < day - UnfinishedDays
IsGone(f) == file[f].deletedAt # Never /\ file[f].deletedAt < day - KeptDays

\* What is gone for good was long due to go: no browser may send it any more.
RowRight(f) ==
    /\ file[f].createdAt <= day
    /\ file[f].deletedAt # Never => file[f].createdAt <= file[f].deletedAt
    /\ file[f].state = "none" => file[f] = NoRow
    /\ file[f].isPurged => IsDue(f)

\* A small copy is removed with its photo, and so brought back with it or with neither.
CopiesGoTogether ==
    (what = "photo" /\ 1 \in Uploads) =>
        \A s \in Uploads \ {1} :
            (file[s].deletedAt # Never /\ ~file[s].isPurged) =>
                (file[1].isPurged \/ file[1].deletedAt = file[s].deletedAt)

\* What was moved to its own address stays there, until the file is due to go.
ConfirmRight(c) ==
    confirm[c].step # "idle" =>
        /\ confirm[c].file \in Uploads /\ file[confirm[c].file].state # "none"
        /\ confirm[c].step \in {"copied", "claim"} =>
              (bytes[confirm[c].file] = "good" \/ IsDue(confirm[c].file))

\* What the nightly run found cannot have come back since, unless confirmed too late.
FoundRight(r) ==
    /\ file[r.file].state # "none" /\ IsDue(r.file)
    /\ r.isDeleted => IsGone(r.file)
    /\ ~r.isDeleted => (r.file \in late \/ file[r.file].state # "confirmed")

AtRight ==
    /\ purging # "nothing" => run # {}
    /\ (purging # "nothing" /\ InHand.file \notin late) => bytes[InHand.file] = "none"
    /\ (purging = "both" /\ InHand.file \notin late) => incoming[InHand.file] = "none"

KeptRight(f) ==
    f \notin late =>
        /\ (file[f].state = "confirmed" /\ ~IsGone(f)) => bytes[f] = "good"
        /\ file[f].isPurged => (bytes[f] = "none" /\ incoming[f] = "none")

FilesIInv ==
    /\ FilesTypeOK
    /\ \A f \in Uploads : RowRight(f) /\ KeptRight(f)
    /\ CopiesGoTogether
    /\ \A c \in Confirms : ConfirmRight(c)
    /\ \A r \in run : FoundRight(r)
    /\ AtRight

LEMMA FilesTypes ==
  ASSUME FilesTypeOK, NEW f \in Uploads
  PROVE  /\ file[f] \in Row
         /\ file[f].createdAt \in Nat /\ file[f].deletedAt \in Int /\ day \in Nat
         /\ file[f].isPurged \in BOOLEAN
  BY FilesAssumption DEF FilesTypeOK, Row, Never

LEMMA UpdatedType ==
  ASSUME NEW fs
  PROVE  Updated(fs) \in [Uploads -> Nat]
  <1> SUFFICES ASSUME NEW f \in Uploads
               PROVE  Cardinality({g \in Uploads : IsBefore(g, f, fs)}) + 1 \in Nat
    BY DEF Updated
  <1> DEFINE before == {g \in Uploads : IsBefore(g, f, fs)}
  <1>1. before \in SUBSET Uploads
    OBVIOUS
  <1> HIDE DEF before
  <1>2. Cardinality(before) \in Nat
    BY <1>1, FilesAssumption, FS_Subset, FS_CardinalityType
  <1> QED
    BY <1>2 DEF before

\* The run always has one in hand while any is left.
LEMMA InHandIs ==
  ASSUME FilesTypeOK, run # {}
  PROVE  InHand \in run
  <1> DEFINE turns == {r.turn : r \in run}
             R == {ss \in Nat \X Nat : ss[1] < ss[2]}
  <1>1. turns \subseteq Nat /\ turns # {}
    BY DEF FilesTypeOK
  <1>2. PICK x \in turns : \A y \in turns : ~(<<y, x>> \in R)
    <2>1. IsWellFoundedOn(R, Nat)
      BY NatLessThanWellFounded DEF OpToRel
    <2> HIDE DEF R, turns
    <2> QED
      BY <1>1, <2>1, WFMin
  <1>3. PICK r \in run : r.turn = x
    OBVIOUS
  <1>4. ASSUME NEW o \in run PROVE r.turn <= o.turn
    <2>1. o.turn \in turns /\ o.turn \in Nat /\ r.turn \in Nat
      BY <1>1
    <2>2. ASSUME o.turn < r.turn PROVE FALSE
      <3>1. <<o.turn, x>> \in R
        BY <1>3, <2>1, <2>2
      <3> QED
        BY <1>2, <2>1, <3>1
    <2> QED
      BY <2>1, <2>2
  <1> QED
    BY <1>4 DEF InHand

LEMMA InHandFile ==
  ASSUME FilesTypeOK, run # {}
  PROVE  InHand.file \in Uploads /\ InHand.isDeleted \in BOOLEAN
  BY InHandIs DEF FilesTypeOK

\* Days pass one way: what is due to go stays due.
LEMMA DueStays ==
  ASSUME FilesTypeOK, FilesTypeOK', NEW f \in Uploads, file'[f].createdAt = file[f].createdAt,
         day' >= day, IsDue(f)
  PROVE  IsDue(f)'
  BY FilesTypes, FilesAssumption DEF IsDue, FilesTypeOK

LEMMA GoneStays ==
  ASSUME FilesTypeOK, FilesTypeOK', NEW f \in Uploads, file'[f].deletedAt = file[f].deletedAt,
         day' >= day, IsGone(f)
  PROVE  IsGone(f)'
  BY FilesTypes, FilesAssumption DEF IsGone, FilesTypeOK

\* Gone is due too: what is removed is kept as long as what is unfinished.
LEMMA GoneIsDue ==
  ASSUME FilesTypeOK, NEW f \in Uploads, RowRight(f), IsGone(f)
  PROVE  IsDue(f)
  BY FilesTypes, FilesAssumption DEF RowRight, IsGone, IsDue

\* A step that leaves rows, days and the run alone keeps what is said of them.
LEMMA FilesKept ==
  ASSUME FilesIInv, FilesTypeOK', UNCHANGED <<what, day, file, run, purging>>,
         late \subseteq late',
         \A f \in Uploads \ late' : f \in Uploads \ late /\ KeptRight(f)',
         \A c \in Confirms : ConfirmRight(c)',
         AtRight'
  PROVE  FilesIInv'
  <1> USE DEF FilesIInv
  <1>1. \A f \in Uploads : RowRight(f)' /\ KeptRight(f)'
    BY DEF RowRight, KeptRight, IsDue
  <1>2. CopiesGoTogether'
    BY DEF CopiesGoTogether
  <1>3. ASSUME NEW r \in run' PROVE FoundRight(r)'
    BY DEF FoundRight, IsDue, IsGone
  <1> QED
    BY <1>1, <1>2, <1>3

-----------------------------------------------------------------------------
(* The steps of requests.                                                  *)

Requests == [step : {"idle", "found", "seen", "refuse", "copied", "claim"},
             file : Uploads \cup {0}, seen : Contents]

LEMMA RequestUploadKeeps ==
  ASSUME FilesIInv, NEW f \in Uploads, RequestUpload(f)
  PROVE  FilesIInv'
  <1> USE DEF FilesIInv
  <1> DEFINE new == [state |-> "pending", createdAt |-> day, deletedAt |-> Never,
                     isPurged |-> FALSE]
  <1>1. new \in Row
    BY FilesTypes DEF Row
  <1>2. /\ file[f] = NoRow /\ file' = [file EXCEPT ![f] = new]
        /\ UNCHANGED <<what, day, incoming, bytes, confirm, run, purging, late, deaths>>
        /\ turn' \in [Uploads -> Nat]
    BY UpdatedType DEF RequestUpload, Touch
  <1>3. file' \in [Uploads -> Row] /\ file'[f] = new
        /\ \A u \in Uploads \ {f} : file'[u] = file[u]
    BY <1>1, <1>2 DEF FilesTypeOK
  <1>4. FilesTypeOK'
    BY <1>2, <1>3 DEF FilesTypeOK
  <1>5. ASSUME NEW u \in Uploads PROVE RowRight(u)' /\ KeptRight(u)'
    <2>1. CASE u = f
      BY <1>2, <1>3, <2>1, FilesTypes DEF RowRight, KeptRight
    <2>2. CASE u # f
      BY <1>2, <1>3, <2>2 DEF RowRight, KeptRight, IsDue, IsGone
    <2> QED
      BY <2>1, <2>2
  <1>6. CopiesGoTogether'
    <2> SUFFICES ASSUME what = "photo", 1 \in Uploads, NEW s \in Uploads \ {1},
                        file'[s].deletedAt # Never, ~file'[s].isPurged
                 PROVE  file'[1].isPurged \/ file'[1].deletedAt = file'[s].deletedAt
      BY <1>2 DEF CopiesGoTogether
    <2>1. s # f
      BY <1>3
    <2>2. file[1].isPurged \/ file[1].deletedAt = file[s].deletedAt
      BY <1>3, <2>1 DEF CopiesGoTogether
    <2>3. f # 1
      BY <1>2, <1>3, <2>1, <2>2 DEF NoRow
    <2> QED
      BY <1>3, <2>1, <2>2, <2>3
  <1>7. ASSUME NEW c \in Confirms PROVE ConfirmRight(c)'
    <2>1. ConfirmRight(c)
      OBVIOUS
    <2> QED
      BY <1>2, <1>3, <2>1 DEF ConfirmRight, NoRow, IsDue
  <1>8. ASSUME NEW r \in run' PROVE FoundRight(r)'
    <2>1. r.file \in Uploads /\ FoundRight(r)
      BY <1>2 DEF FilesTypeOK
    <2> QED
      BY <1>2, <1>3, <2>1 DEF FoundRight, NoRow, IsDue, IsGone
  <1>9. AtRight'
    BY <1>2 DEF AtRight, InHand
  <1> QED
    BY <1>4, <1>5, <1>6, <1>7, <1>8, <1>9

\* Sent only on the day it was asked for, and so before it is due.
LEMMA BrowserSendsKeeps ==
  ASSUME FilesIInv, NEW f \in Uploads, NEW content \in {"good", "bad"}, BrowserSends(f, content)
  PROVE  FilesIInv'
  <1> USE DEF FilesIInv
  <1>1. /\ day = file[f].createdAt /\ incoming' = [incoming EXCEPT ![f] = content]
        /\ UNCHANGED <<what, day, file, turn, bytes, confirm, run, purging, late, deaths>>
    BY DEF BrowserSends
  <1>2. FilesTypeOK'
    BY <1>1 DEF FilesTypeOK, Contents
  <1>3. ~IsDue(f)
    BY <1>1, FilesTypes, FilesAssumption DEF IsDue
  <1>4. \A u \in Uploads \ {f} : incoming'[u] = incoming[u]
    BY <1>1 DEF FilesTypeOK
  <1>5. ASSUME NEW u \in Uploads PROVE KeptRight(u)'
    <2>1. KeptRight(u) /\ RowRight(u)
      OBVIOUS
    <2> QED
      BY <1>1, <1>3, <1>4, <2>1 DEF KeptRight, RowRight, IsGone
  <1>6. \A c \in Confirms : ConfirmRight(c)'
    BY <1>1 DEF ConfirmRight, IsDue
  <1>7. AtRight'
    <2>1. CASE run = {}
      BY <1>1, <2>1 DEF AtRight
    <2>2. CASE run # {}
      <3>1. InHand.file \in Uploads /\ IsDue(InHand.file)
        BY <2>2, InHandIs, InHandFile DEF FoundRight
      <3>2. InHand' = InHand
        BY <1>1 DEF InHand
      <3> QED
        BY <1>1, <1>3, <1>4, <3>1, <3>2 DEF AtRight
    <2> QED
      BY <2>1, <2>2
  <1> QED
    BY <1>1, <1>2, <1>5, <1>6, <1>7, FilesKept

\* A step that only moves a confirming request on.
LEMMA OnlyConfirms ==
  ASSUME FilesIInv, UNCHANGED <<what, day, file, turn, bytes, run, purging, late>>,
         incoming' \in [Uploads -> Contents], deaths' \in 0..MaxDeaths,
         \A u \in Uploads : incoming'[u] = incoming[u] \/ incoming'[u] = "none",
         confirm' \in [Confirms -> Requests],
         \A c \in Confirms : ConfirmRight(c)'
  PROVE  FilesIInv'
  <1> USE DEF FilesIInv
  <1>1. FilesTypeOK'
    BY DEF FilesTypeOK, Requests
  <1>2. ASSUME NEW u \in Uploads PROVE KeptRight(u)'
    <2>1. KeptRight(u)
      OBVIOUS
    <2> QED
      BY <2>1 DEF KeptRight, IsGone
  <1>3. AtRight'
    <2>1. CASE run = {}
      BY <2>1 DEF AtRight
    <2>2. CASE run # {}
      <3>1. InHand.file \in Uploads /\ InHand' = InHand
        BY <2>2, InHandFile DEF InHand
      <3> QED
        BY <3>1 DEF AtRight
    <2> QED
      BY <2>1, <2>2
  <1> QED
    BY <1>1, <1>2, <1>3, FilesKept

\* What is asked of one request: the others are as they were.
LEMMA OneConfirms ==
  ASSUME FilesIInv, UNCHANGED <<file, day, bytes>>, NEW c \in Confirms, ConfirmRight(c)',
         \A o \in Confirms \ {c} : confirm'[o] = confirm[o]
  PROVE  \A o \in Confirms : ConfirmRight(o)'
  BY DEF FilesIInv, ConfirmRight, IsDue

LEMMA ConfirmTypes ==
  ASSUME FilesTypeOK, NEW c \in Confirms
  PROVE  /\ confirm \in [Confirms -> Requests] /\ confirm[c] \in Requests
         /\ NotConfirming \in Requests /\ NotConfirming.step = "idle"
  BY DEF FilesTypeOK, Requests, NotConfirming, Contents

LEMMA LookingKeeps ==
  ASSUME FilesIInv, NEW c \in Confirms,
         \/ \E f \in Uploads : FindPendingFile(c, f)
         \/ Inspect(c) \/ RefuseUpload(c) \/ RemoveIncoming(c) \/ ConfirmDies(c)
  PROVE  FilesIInv'
  <1> USE DEF FilesIInv
  <1>0. /\ confirm \in [Confirms -> Requests] /\ confirm[c] \in Requests
        /\ NotConfirming \in Requests /\ NotConfirming.step = "idle" /\ ConfirmRight(c)
        /\ incoming \in [Uploads -> Contents] /\ deaths \in 0..MaxDeaths
    BY ConfirmTypes DEF FilesTypeOK
  <1>1. ASSUME NEW f \in Uploads, FindPendingFile(c, f) PROVE FilesIInv'
    <2> DEFINE new == [step |-> "found", file |-> f, seen |-> "none"]
    <2>1. /\ new \in Requests /\ confirm' = [confirm EXCEPT ![c] = new]
          /\ UNCHANGED <<what, day, file, turn, incoming, bytes, run, purging, late, deaths>>
          /\ file[f].state = "pending"
      BY <1>1 DEF FindPendingFile, IsPending, Requests, Contents
    <2>2. confirm' \in [Confirms -> Requests] /\ confirm'[c] = new
          /\ \A o \in Confirms \ {c} : confirm'[o] = confirm[o]
      BY <1>0, <2>1
    <2>3. ConfirmRight(c)'
      BY <2>1, <2>2 DEF ConfirmRight
    <2> QED
      BY <1>0, <2>1, <2>2, <2>3, OneConfirms, OnlyConfirms
  <1>2. CASE Inspect(c)
    <2>1. PICK f \in Uploads : f = confirm[c].file
      BY <1>0, <1>2 DEF Inspect, ConfirmRight
    <2> DEFINE new == [step |-> "seen", file |-> f, seen |-> incoming[f]]
    <2>2. /\ confirm' = [confirm EXCEPT ![c] = NotConfirming]
             \/ confirm' = [confirm EXCEPT ![c] = new]
          /\ UNCHANGED <<what, day, file, turn, incoming, bytes, run, purging, late, deaths>>
      BY <1>2, <2>1 DEF Inspect
    <2>3. new \in Requests /\ new.step = "seen" /\ new.file = f
      BY <1>0 DEF Requests
    <2>4. confirm' \in [Confirms -> Requests] /\ confirm'[c] \in {NotConfirming, new}
          /\ \A o \in Confirms \ {c} : confirm'[o] = confirm[o]
      <3> HIDE DEF new
      <3> QED
        BY <1>0, <2>2, <2>3
    <2>5. ConfirmRight(c)'
      <3>1. file[f].state # "none"
        BY <1>0, <1>2, <2>1 DEF Inspect, ConfirmRight
      <3> QED
        BY <1>0, <2>2, <2>3, <2>4, <3>1 DEF ConfirmRight
    <2> QED
      BY <1>0, <2>2, <2>4, <2>5, OneConfirms, OnlyConfirms
  <1>3. CASE RefuseUpload(c)
    <2>1. PICK f \in Uploads : f = confirm[c].file /\ file[f].state # "none"
      BY <1>0, <1>3 DEF RefuseUpload, ConfirmRight
    <2>2. /\ confirm' = [confirm EXCEPT ![c].step = "refuse"]
          /\ incoming' = [incoming EXCEPT ![f] = "none"]
          /\ UNCHANGED <<what, day, file, turn, bytes, run, purging, late, deaths>>
      BY <1>3, <2>1 DEF RefuseUpload
    <2>3. /\ confirm' \in [Confirms -> Requests]
          /\ confirm'[c].step = "refuse" /\ confirm'[c].file = f
          /\ \A o \in Confirms \ {c} : confirm'[o] = confirm[o]
      BY <1>0, <2>1, <2>2 DEF Requests
    <2>4. incoming' \in [Uploads -> Contents]
          /\ \A u \in Uploads : incoming'[u] = incoming[u] \/ incoming'[u] = "none"
      BY <1>0, <2>2 DEF Contents
    <2>5. ConfirmRight(c)'
      BY <2>1, <2>2, <2>3 DEF ConfirmRight
    <2> QED
      BY <1>0, <2>2, <2>3, <2>4, <2>5, OneConfirms, OnlyConfirms
  <1>4. CASE RemoveIncoming(c)
    <2>1. PICK f \in Uploads : f = confirm[c].file /\ file[f].state # "none"
                               /\ (bytes[f] = "good" \/ IsDue(f))
      BY <1>0, <1>4 DEF RemoveIncoming, ConfirmRight
    <2>2. /\ confirm' = [confirm EXCEPT ![c].step = "claim"]
          /\ incoming' = [incoming EXCEPT ![f] = "none"]
          /\ UNCHANGED <<what, day, file, turn, bytes, run, purging, late, deaths>>
      BY <1>4, <2>1 DEF RemoveIncoming
    <2>3. /\ confirm' \in [Confirms -> Requests]
          /\ confirm'[c].step = "claim" /\ confirm'[c].file = f
          /\ \A o \in Confirms \ {c} : confirm'[o] = confirm[o]
      BY <1>0, <2>1, <2>2 DEF Requests
    <2>4. incoming' \in [Uploads -> Contents]
          /\ \A u \in Uploads : incoming'[u] = incoming[u] \/ incoming'[u] = "none"
      BY <1>0, <2>2 DEF Contents
    <2>5. ConfirmRight(c)'
      BY <2>1, <2>2, <2>3 DEF ConfirmRight, IsDue
    <2> QED
      BY <1>0, <2>2, <2>3, <2>4, <2>5, OneConfirms, OnlyConfirms
  <1>5. CASE ConfirmDies(c)
    <2>1. /\ confirm' = [confirm EXCEPT ![c] = NotConfirming] /\ deaths' \in 0..MaxDeaths
          /\ UNCHANGED <<what, day, file, turn, incoming, bytes, run, purging, late>>
      BY <1>0, <1>5, FilesAssumption DEF ConfirmDies
    <2>2. confirm' \in [Confirms -> Requests] /\ confirm'[c] = NotConfirming
          /\ \A o \in Confirms \ {c} : confirm'[o] = confirm[o]
      BY <1>0, <2>1
    <2>3. ConfirmRight(c)'
      BY <1>0, <2>2 DEF ConfirmRight
    <2> QED
      BY <1>0, <2>1, <2>2, <2>3, OneConfirms, OnlyConfirms
  <1> QED
    BY <1>1, <1>2, <1>3, <1>4, <1>5

-----------------------------------------------------------------------------
(* The steps that change rows.                                             *)

\* No step makes a row anew or gives it another first day.
RowsStay == \A u \in Uploads :
    /\ file'[u].createdAt = file[u].createdAt
    /\ file[u].state # "none" => file'[u].state # "none"
    /\ file[u].state = "none" => file'[u] = file[u]

LEMMA ConfirmStays ==
  ASSUME FilesIInv, FilesTypeOK', RowsStay, day' >= day, bytes' = bytes, NEW c \in Confirms,
         confirm'[c] = confirm[c] \/ confirm'[c].step = "idle"
  PROVE  ConfirmRight(c)'
  <1> SUFFICES ASSUME confirm'[c] = confirm[c], confirm[c].step # "idle"
               PROVE  ConfirmRight(c)'
    BY DEF ConfirmRight
  <1>1. ConfirmRight(c) /\ FilesTypeOK
    BY DEF FilesIInv
  <1>2. PICK f \in Uploads : f = confirm[c].file
    BY <1>1 DEF ConfirmRight
  <1>3. IsDue(f) => IsDue(f)'
    BY <1>1, DueStays DEF RowsStay
  <1> QED
    BY <1>1, <1>2, <1>3 DEF ConfirmRight, RowsStay

LEMMA FoundStays ==
  ASSUME FilesIInv, FilesTypeOK', RowsStay, day' >= day, NEW r \in run, late \subseteq late',
         IsGone(r.file) => IsGone(r.file)',
         file'[r.file].state = "confirmed" =>
             (file[r.file].state = "confirmed" \/ r.file \in late')
  PROVE  FoundRight(r)'
  <1>1. FoundRight(r) /\ FilesTypeOK /\ r.file \in Uploads
    BY DEF FilesIInv, FilesTypeOK
  <1>2. IsDue(r.file)'
    BY <1>1, DueStays DEF FoundRight, RowsStay
  <1> QED
    BY <1>1, <1>2 DEF FoundRight, RowsStay

LEMMA AtStays ==
  ASSUME FilesIInv, UNCHANGED <<bytes, incoming, run, purging>>, late \subseteq late'
  PROVE  AtRight'
  BY DEF FilesIInv, AtRight, InHand

LEMMA MarkRefusedKeeps ==
  ASSUME FilesIInv, NEW c \in Confirms, MarkRefused(c)
  PROVE  FilesIInv'
  <1> USE DEF FilesIInv
  <1>0. /\ confirm \in [Confirms -> Requests] /\ confirm[c] \in Requests
        /\ NotConfirming \in Requests /\ NotConfirming.step = "idle" /\ ConfirmRight(c)
    BY ConfirmTypes
  <1>1. /\ confirm' = [confirm EXCEPT ![c] = NotConfirming]
        /\ UNCHANGED <<what, day, incoming, bytes, run, purging, late, deaths>>
    BY DEF MarkRefused
  <1>2. confirm' \in [Confirms -> Requests] /\ confirm'[c] = NotConfirming
        /\ \A o \in Confirms \ {c} : confirm'[o] = confirm[o]
    BY <1>0, <1>1
  <1>3. CASE UNCHANGED <<file, turn>>
    <2>1. FilesTypeOK'
      BY <1>1, <1>2, <1>3 DEF FilesTypeOK, Requests
    <2>2. ConfirmRight(c)'
      BY <1>0, <1>2 DEF ConfirmRight
    <2> QED
      BY <1>0, <1>1, <1>2, <1>3, <2>1, <2>2, OneConfirms, OnlyConfirms DEF FilesTypeOK
  <1>4. CASE ~UNCHANGED <<file, turn>>
    <2>1. PICK f \in Uploads : f = confirm[c].file
      BY <1>0 DEF MarkRefused, ConfirmRight
    <2>2. /\ file[f].state = "pending" /\ file' = [file EXCEPT ![f].state = "refused"]
          /\ turn' \in [Uploads -> Nat]
      BY <1>4, <2>1, UpdatedType DEF MarkRefused, IsPending, Touch
    <2>3. /\ file' \in [Uploads -> Row] /\ \A u \in Uploads \ {f} : file'[u] = file[u]
          /\ file'[f].state = "refused" /\ file'[f].createdAt = file[f].createdAt
          /\ file'[f].deletedAt = file[f].deletedAt /\ file'[f].isPurged = file[f].isPurged
      BY <2>2 DEF FilesTypeOK, Row
    <2>4. FilesTypeOK'
      BY <1>1, <1>2, <2>2, <2>3 DEF FilesTypeOK, Requests
    <2>5. RowsStay /\ day' >= day
      BY <1>1, <2>2, <2>3 DEF RowsStay, FilesTypeOK
    <2>6. ASSUME NEW u \in Uploads PROVE RowRight(u)' /\ KeptRight(u)'
      BY <1>1, <2>3 DEF RowRight, KeptRight, IsDue, IsGone
    <2>7. CopiesGoTogether'
      BY <1>1, <2>3 DEF CopiesGoTogether
    <2>8. ASSUME NEW r \in run' PROVE FoundRight(r)'
      <3>1. r \in run /\ r.file \in Uploads
        BY <1>1 DEF FilesTypeOK
      <3> QED
        BY <1>1, <2>3, <2>4, <2>5, <3>1, FoundStays DEF IsGone
    <2>9. \A o \in Confirms : ConfirmRight(o)'
      BY <1>0, <1>1, <1>2, <2>4, <2>5, ConfirmStays
    <2> QED
      BY <1>1, <2>4, <2>6, <2>7, <2>8, <2>9, AtStays
  <1> QED
    BY <1>3, <1>4

\* What is moved to its own address is what was checked; once due, it is late.
LEMMA PromoteKeeps ==
  ASSUME FilesIInv, NEW c \in Confirms, Promote(c)
  PROVE  FilesIInv'
  <1> USE DEF FilesIInv
  <1>0. /\ confirm \in [Confirms -> Requests] /\ confirm[c] \in Requests
        /\ NotConfirming \in Requests /\ NotConfirming.step = "idle" /\ ConfirmRight(c)
    BY ConfirmTypes
  <1>1. /\ confirm[c].step = "seen" /\ confirm[c].seen = "good"
        /\ UNCHANGED <<what, day, file, turn, incoming, run, purging, deaths>>
    BY DEF Promote
  <1>2. PICK f \in Uploads : f = confirm[c].file /\ file[f].state # "none"
    BY <1>0, <1>1 DEF ConfirmRight
  <1>3. CASE ~IsUnchanged(c)
    <2>1. confirm' = [confirm EXCEPT ![c] = NotConfirming] /\ UNCHANGED <<bytes, late>>
      BY <1>3 DEF Promote
    <2>2. confirm' \in [Confirms -> Requests] /\ confirm'[c] = NotConfirming
          /\ \A o \in Confirms \ {c} : confirm'[o] = confirm[o]
      BY <1>0, <2>1
    <2>3. ConfirmRight(c)'
      BY <1>0, <2>2 DEF ConfirmRight
    <2> QED
      BY <1>1, <2>1, <2>2, <2>3, OneConfirms, OnlyConfirms DEF FilesTypeOK
  <1>4. CASE IsUnchanged(c)
    <2>1. /\ incoming[f] = "good" /\ bytes' = [bytes EXCEPT ![f] = "good"]
          /\ confirm' = [confirm EXCEPT ![c].step = "copied"]
          /\ late' = late \cup LateOnes(f)
      BY <1>1, <1>2, <1>4 DEF Promote, IsUnchanged
    <2>2. /\ confirm' \in [Confirms -> Requests]
          /\ confirm'[c].step = "copied" /\ confirm'[c].file = f
          /\ \A o \in Confirms \ {c} : confirm'[o] = confirm[o]
      BY <1>0, <1>2, <2>1 DEF Requests
    <2>3. late' \subseteq Uploads /\ late \subseteq late' /\ (IsDue(f) => f \in late')
      BY <2>1, FilesTypes, FilesAssumption DEF LateOnes, IsDue, FilesTypeOK
    <2>4. bytes' \in [Uploads -> Contents] /\ bytes'[f] = "good"
          /\ \A u \in Uploads \ {f} : bytes'[u] = bytes[u]
      BY <2>1 DEF FilesTypeOK, Contents
    <2>5. FilesTypeOK'
      BY <1>1, <2>2, <2>3, <2>4 DEF FilesTypeOK, Requests
    <2>6. ASSUME NEW u \in Uploads \ late' PROVE u \in Uploads \ late /\ KeptRight(u)'
      <3>1. RowRight(u) /\ KeptRight(u)
        OBVIOUS
      <3>2. CASE u = f
        BY <1>1, <2>3, <2>4, <3>1, <3>2 DEF RowRight, KeptRight
      <3>3. CASE u # f
        BY <1>1, <2>3, <2>4, <3>1, <3>3 DEF KeptRight, IsGone
      <3> QED
        BY <2>3, <3>2, <3>3
    <2>7. ASSUME NEW o \in Confirms PROVE ConfirmRight(o)'
      <3>1. ConfirmRight(o)
        OBVIOUS
      <3>2. CASE o = c
        BY <1>1, <1>2, <2>2, <2>4, <3>2 DEF ConfirmRight
      <3>3. CASE o # c
        BY <1>1, <2>2, <2>4, <3>1, <3>3 DEF ConfirmRight, IsDue
      <3> QED
        BY <3>2, <3>3
    <2>8. AtRight'
      <3>1. CASE run = {}
        BY <1>1, <3>1 DEF AtRight
      <3>2. CASE run # {}
        <4>1. InHand.file \in Uploads /\ IsDue(InHand.file) /\ InHand' = InHand
          BY <1>1, <3>2, InHandIs, InHandFile DEF FoundRight, InHand
        <4> QED
          BY <1>1, <2>3, <2>4, <4>1 DEF AtRight
      <3> QED
        BY <3>1, <3>2
    <2> QED
      BY <1>1, <2>3, <2>5, <2>6, <2>7, <2>8, FilesKept
  <1> QED
    BY <1>3, <1>4

\* Rows with fs removed.
LEMMA DeletedIs ==
  ASSUME FilesTypeOK, NEW fs
  PROVE  /\ Deleted(fs) \in [Uploads -> Row]
         /\ \A u \in Uploads :
               /\ u \notin fs => Deleted(fs)[u] = file[u]
               /\ u \in fs => Deleted(fs)[u].deletedAt = day
               /\ Deleted(fs)[u].state = file[u].state
               /\ Deleted(fs)[u].createdAt = file[u].createdAt
               /\ Deleted(fs)[u].isPurged = file[u].isPurged
  <1> SUFFICES ASSUME NEW u \in Uploads
               PROVE  /\ Deleted(fs)[u] \in Row
                      /\ u \notin fs => Deleted(fs)[u] = file[u]
                      /\ u \in fs => Deleted(fs)[u].deletedAt = day
                      /\ Deleted(fs)[u].state = file[u].state
                      /\ Deleted(fs)[u].createdAt = file[u].createdAt
                      /\ Deleted(fs)[u].isPurged = file[u].isPurged
    BY DEF Deleted
  <1>1. file[u] \in Row /\ day \in Nat
    BY FilesTypes
  <1> QED
    BY <1>1 DEF Deleted, Row

LEMMA ClaimConfirmedKeeps ==
  ASSUME FilesIInv, NEW c \in Confirms, ClaimConfirmed(c)
  PROVE  FilesIInv'
  <1> USE DEF FilesIInv
  <1>0. /\ confirm \in [Confirms -> Requests] /\ confirm[c] \in Requests
        /\ NotConfirming \in Requests /\ NotConfirming.step = "idle" /\ ConfirmRight(c)
    BY ConfirmTypes
  <1>1. /\ confirm[c].step = "claim" /\ confirm' = [confirm EXCEPT ![c] = NotConfirming]
        /\ UNCHANGED <<what, day, incoming, bytes, run, purging, deaths>>
    BY DEF ClaimConfirmed
  <1>2. confirm' \in [Confirms -> Requests] /\ confirm'[c] = NotConfirming
        /\ \A o \in Confirms \ {c} : confirm'[o] = confirm[o]
    BY <1>0, <1>1
  <1>3. PICK f \in Uploads : f = confirm[c].file /\ (bytes[f] = "good" \/ IsDue(f))
    BY <1>0, <1>1 DEF ConfirmRight
  <1>4. CASE UNCHANGED <<file, turn, late>>
    <2>1. FilesTypeOK'
      BY <1>1, <1>2, <1>4 DEF FilesTypeOK, Requests
    <2>2. ConfirmRight(c)'
      BY <1>0, <1>2 DEF ConfirmRight
    <2> QED
      BY <1>0, <1>1, <1>2, <1>4, <2>1, <2>2, OneConfirms, OnlyConfirms DEF FilesTypeOK
  <1>5. CASE ~UNCHANGED <<file, turn, late>>
    <2> DEFINE before == Predecessors(f)
    <2>1. /\ IsPending(f) /\ file' = [Deleted(before) EXCEPT ![f].state = "confirmed"]
          /\ late' = late \cup LateOnes(f) /\ turn' \in [Uploads -> Nat]
      BY <1>3, <1>5, UpdatedType DEF ClaimConfirmed, Touch
    <2>2. \A u \in before : u \in Uploads \ {f} /\ InUse(u)
      BY DEF Predecessors
    <2>3. what = "photo" => before = {}
      BY DEF Predecessors
    <2> HIDE DEF before
    <2> DEFINE facts(g) ==
                  /\ g \in [Uploads -> Row] /\ g[f] = file[f]
                  /\ \A u \in Uploads :
                        /\ u \notin before => g[u] = file[u]
                        /\ u \in before => g[u].deletedAt = day
                        /\ g[u].state = file[u].state
                        /\ g[u].createdAt = file[u].createdAt
                        /\ g[u].isPurged = file[u].isPurged
    <2>4. PICK gone : file' = [gone EXCEPT ![f].state = "confirmed"] /\ facts(gone)
      <3>1. facts(Deleted(before))
        BY <2>2, DeletedIs
      <3> HIDE DEF facts
      <3> QED
        BY <2>1, <3>1
    <2>5. /\ file' \in [Uploads -> Row] /\ \A u \in Uploads \ {f} : file'[u] = gone[u]
          /\ file'[f].state = "confirmed" /\ file'[f].createdAt = file[f].createdAt
          /\ file'[f].deletedAt = file[f].deletedAt /\ file'[f].isPurged = file[f].isPurged
      BY <2>4 DEF Row
    <2>6. late' \subseteq Uploads /\ late \subseteq late' /\ (IsDue(f) => f \in late')
      BY <2>1, FilesTypes, FilesAssumption DEF LateOnes, IsDue, FilesTypeOK
    <2>7. FilesTypeOK'
      BY <1>1, <1>2, <2>1, <2>5, <2>6 DEF FilesTypeOK, Requests
    <2>8. file[f].state = "pending" /\ file[f].deletedAt = Never
      BY <2>1 DEF IsPending
    <2>9. \A u \in before : file[u].state = "confirmed" /\ file[u].deletedAt = Never
      BY <2>2 DEF InUse
    <2>10. RowsStay /\ day' >= day
      BY <1>1, <2>4, <2>5, <2>8, <2>9 DEF RowsStay, FilesTypeOK
    <2>11. ASSUME NEW u \in Uploads PROVE RowRight(u)'
      <3>1. RowRight(u) /\ file[u].createdAt \in Nat /\ day \in Nat
        BY FilesTypes
      <3>2. CASE u = f
        BY <1>1, <2>5, <2>8, <3>1, <3>2 DEF RowRight, IsDue
      <3>3. CASE u \in before
        BY <1>1, <2>2, <2>4, <2>5, <2>9, <3>1, <3>3 DEF RowRight, IsDue
      <3>4. CASE u # f /\ u \notin before
        BY <1>1, <2>4, <2>5, <3>1, <3>4 DEF RowRight, IsDue
      <3> QED
        BY <3>2, <3>3, <3>4
    <2>12. ASSUME NEW u \in Uploads \ late' PROVE KeptRight(u)'
      <3>1. KeptRight(u) /\ u \notin late
        BY <2>6
      <3>2. CASE u = f
        BY <1>1, <1>3, <2>5, <2>6, <3>1, <3>2 DEF KeptRight
      <3>3. CASE u \in before
        BY <1>1, <2>2, <2>4, <2>5, <2>9, <3>1, <3>3 DEF KeptRight, IsGone
      <3>4. CASE u # f /\ u \notin before
        BY <1>1, <2>4, <2>5, <3>1, <3>4 DEF KeptRight, IsGone
      <3> QED
        BY <3>2, <3>3, <3>4
    <2>13. CopiesGoTogether'
      <3> SUFFICES ASSUME what = "photo", 1 \in Uploads, NEW s \in Uploads \ {1},
                          file'[s].deletedAt # Never, ~file'[s].isPurged
                   PROVE  file'[1].isPurged \/ file'[1].deletedAt = file'[s].deletedAt
        BY <1>1 DEF CopiesGoTogether
      <3>1. \A u \in Uploads : /\ file'[u].deletedAt = file[u].deletedAt
                               /\ file'[u].isPurged = file[u].isPurged
        BY <2>3, <2>4, <2>5
      <3> QED
        BY <3>1 DEF CopiesGoTogether
    <2>14. ASSUME NEW r \in run' PROVE FoundRight(r)'
      <3>1. r \in run /\ r.file \in Uploads
        BY <1>1 DEF FilesTypeOK
      <3>2. IsDue(r.file)
        BY <3>1 DEF FoundRight
      <3>3. CASE r.file = f
        BY <1>1, <2>6, <2>7, <2>8, <2>10, <3>1, <3>2, <3>3, FoundStays DEF IsGone
      <3>4. CASE r.file # f
        BY <1>1, <2>4, <2>5, <2>6, <2>7, <2>9, <2>10, <3>1, <3>4, FoundStays DEF IsGone
      <3> QED
        BY <3>3, <3>4
    <2>15. \A o \in Confirms : ConfirmRight(o)'
      BY <1>0, <1>1, <1>2, <2>7, <2>10, ConfirmStays
    <2>16. \A u \in Uploads : KeptRight(u)'
      BY <2>12 DEF KeptRight
    <2> QED
      BY <1>1, <2>6, <2>7, <2>11, <2>13, <2>14, <2>15, <2>16, AtStays
  <1> QED
    BY <1>4, <1>5

LEMMA RemoveFileKeeps ==
  ASSUME FilesIInv, NEW f \in Uploads, RemoveFile(f)
  PROVE  FilesIInv'
  <1> USE DEF FilesIInv
  <1> DEFINE removed == {f} \cup {s \in SmallCopies(f) : InUse(s)}
  <1>1. /\ file' = Deleted(removed) /\ turn' \in [Uploads -> Nat]
        /\ UNCHANGED <<what, day, incoming, bytes, confirm, run, purging, late, deaths>>
        /\ what = "photo" => f = 1
    BY UpdatedType DEF RemoveFile, Touch
  <1>2. \A u \in removed : u \in Uploads /\ file[u].state = "confirmed" /\ file[u].deletedAt = Never
    BY DEF RemoveFile, SmallCopies, InUse
  <1>3. what = "photo" => \A s \in Uploads \ {1} :
            (file[s].state = "confirmed" /\ file[s].deletedAt = Never) => s \in removed
    BY <1>1 DEF SmallCopies, InUse
  <1>4. f \in removed
    OBVIOUS
  <1> HIDE DEF removed
  <1>5. /\ file' \in [Uploads -> Row]
        /\ \A u \in Uploads :
              /\ u \notin removed => file'[u] = file[u]
              /\ u \in removed => file'[u].deletedAt = day
              /\ file'[u].state = file[u].state
              /\ file'[u].createdAt = file[u].createdAt
              /\ file'[u].isPurged = file[u].isPurged
    BY <1>1, DeletedIs
  <1>6. FilesTypeOK'
    BY <1>1, <1>5 DEF FilesTypeOK
  <1>7. RowsStay /\ day' >= day
    BY <1>1, <1>2, <1>5 DEF RowsStay, FilesTypeOK
  <1>8. ASSUME NEW u \in Uploads PROVE RowRight(u)' /\ KeptRight(u)'
    <2>1. RowRight(u) /\ KeptRight(u)
      OBVIOUS
    <2>2. CASE u \in removed
      BY <1>1, <1>2, <1>5, <2>1, <2>2 DEF RowRight, KeptRight, IsDue, IsGone
    <2>3. CASE u \notin removed
      BY <1>1, <1>5, <2>1, <2>3 DEF RowRight, KeptRight, IsDue, IsGone
    <2> QED
      BY <2>2, <2>3
  <1>9. CopiesGoTogether'
    <2> SUFFICES ASSUME what = "photo", 1 \in Uploads, NEW s \in Uploads \ {1},
                        file'[s].deletedAt # Never, ~file'[s].isPurged
                 PROVE  file'[1].isPurged \/ file'[1].deletedAt = file'[s].deletedAt
      BY <1>1 DEF CopiesGoTogether
    <2>1. file'[1].deletedAt = day /\ file[1].deletedAt = Never
      BY <1>1, <1>2, <1>4, <1>5
    <2>2. CASE s \in removed
      BY <1>5, <2>1, <2>2
    <2>3. CASE s \notin removed
      <3>1. file[1].isPurged
        BY <1>5, <2>1, <2>3 DEF CopiesGoTogether
      <3> QED
        BY <1>5, <3>1
    <2> QED
      BY <2>2, <2>3
  <1>10. ASSUME NEW r \in run' PROVE FoundRight(r)'
    <2>1. r \in run /\ r.file \in Uploads
      BY <1>1 DEF FilesTypeOK
    <2>2. IsGone(r.file) => IsGone(r.file)'
      BY <1>1, <1>2, <1>5, <2>1 DEF IsGone
    <2> QED
      BY <1>1, <1>5, <1>6, <1>7, <2>1, <2>2, FoundStays
  <1>11. \A o \in Confirms : ConfirmRight(o)'
    BY <1>1, <1>6, <1>7, ConfirmStays
  <1> QED
    BY <1>1, <1>6, <1>8, <1>9, <1>10, <1>11, AtStays

\* What comes back was not due to go, and neither were its small copies.
LEMMA RestoreFileKeeps ==
  ASSUME FilesIInv, NEW f \in Uploads, RestoreFile(f)
  PROVE  FilesIInv'
  <1> USE DEF FilesIInv
  <1> DEFINE back == {f} \cup {s \in SmallCopies(f) : file[s].deletedAt # Never /\ ~file[s].isPurged}
  <1>1. /\ f = 1 /\ what = "photo" /\ turn' \in [Uploads -> Nat] /\ back \subseteq Uploads
        /\ file[1].state = "confirmed" /\ file[1].deletedAt # Never /\ ~file[1].isPurged
        /\ day <= file[1].deletedAt + KeptDays
        /\ file' = [u \in Uploads |-> IF u \in back THEN [file[u] EXCEPT !.deletedAt = Never]
                                       ELSE file[u]]
        /\ UNCHANGED <<what, day, incoming, bytes, confirm, run, purging, late, deaths>>
    BY UpdatedType DEF RestoreFile, IsStillRecoverable, Touch, SmallCopies
  <1>2. \A u \in back : u \in Uploads /\ file[u].deletedAt = file[1].deletedAt /\ ~file[u].isPurged
    BY <1>1 DEF SmallCopies, CopiesGoTogether
  <1>3. \A s \in Uploads \ back : file[s].deletedAt = Never \/ file[s].isPurged
    BY <1>1 DEF SmallCopies
  <1>4. 1 \in back
    BY <1>1
  <1> HIDE DEF back
  <1>5. ASSUME NEW u \in Uploads
        PROVE  /\ file'[u] \in Row
               /\ u \notin back => file'[u] = file[u]
               /\ u \in back => file'[u].deletedAt = Never
               /\ file'[u].state = file[u].state
               /\ file'[u].createdAt = file[u].createdAt
               /\ file'[u].isPurged = file[u].isPurged
    <2>1. file[u] \in Row
      BY FilesTypes
    <2> QED
      BY <1>1, <2>1 DEF Row
  <1>6. FilesTypeOK'
    BY <1>1, <1>5 DEF FilesTypeOK
  <1>7. \A u \in back : ~IsGone(u) /\ file[u].state # "none"
    <2> SUFFICES ASSUME NEW u \in back PROVE ~IsGone(u) /\ file[u].state # "none"
      OBVIOUS
    <2>1. RowRight(u) /\ u \in Uploads
      BY <1>2
    <2>2. file[u].deletedAt # Never
      BY <1>1, <1>2
    <2>3. file[u].state # "none"
      BY <2>1, <2>2 DEF RowRight, NoRow
    <2>4. ~(file[u].deletedAt < day - KeptDays)
      BY <1>1, <1>2, <2>1, FilesTypes, FilesAssumption
    <2> QED
      BY <2>3, <2>4 DEF IsGone
  <1>8. RowsStay /\ day' >= day
    BY <1>1, <1>5, <1>7 DEF RowsStay, FilesTypeOK
  <1>9. ASSUME NEW u \in Uploads PROVE RowRight(u)' /\ KeptRight(u)'
    <2>1. RowRight(u) /\ KeptRight(u)
      OBVIOUS
    <2>2. CASE u \in back
      BY <1>1, <1>5, <1>7, <2>1, <2>2 DEF RowRight, KeptRight, IsDue
    <2>3. CASE u \notin back
      BY <1>1, <1>5, <2>1, <2>3 DEF RowRight, KeptRight, IsDue, IsGone
    <2> QED
      BY <2>2, <2>3
  <1>10. CopiesGoTogether'
    <2> SUFFICES ASSUME NEW s \in Uploads \ {1}, file'[s].deletedAt # Never, ~file'[s].isPurged
                 PROVE  file'[1].isPurged \/ file'[1].deletedAt = file'[s].deletedAt
      BY <1>1 DEF CopiesGoTogether
    <2>1. s \notin back /\ file[s].deletedAt # Never /\ ~file[s].isPurged
      BY <1>5
    <2> QED
      BY <1>3, <2>1
  <1>11. ASSUME NEW r \in run' PROVE FoundRight(r)'
    <2>1. r \in run /\ r.file \in Uploads
      BY <1>1 DEF FilesTypeOK
    <2>2. IsGone(r.file) => IsGone(r.file)'
      BY <1>1, <1>5, <1>7, <2>1 DEF IsGone
    <2> QED
      BY <1>1, <1>5, <1>6, <1>8, <2>1, <2>2, FoundStays
  <1>12. \A o \in Confirms : ConfirmRight(o)'
    BY <1>1, <1>6, <1>8, ConfirmStays
  <1> QED
    BY <1>1, <1>6, <1>9, <1>10, <1>11, <1>12, AtStays

-----------------------------------------------------------------------------
(* The steps of the nightly run.                                           *)

LEMMA FindDueFilesKeeps ==
  ASSUME FilesIInv, FindDueFiles
  PROVE  FilesIInv'
  <1> USE DEF FilesIInv
  <1>1. /\ run = {} /\ run' # {} /\ \A f \in DueFirst : f \in Uploads /\ Due(f)
        /\ run' = {[file |-> f, turn |-> turn[f], isDeleted |-> file[f].deletedAt # Never] :
                      f \in DueFirst}
        /\ UNCHANGED <<what, day, file, turn, incoming, bytes, confirm, purging, late, deaths>>
    BY DEF FindDueFiles, DueFirst
  <1>2. ASSUME NEW r \in run'
        PROVE  /\ r \in [file : Uploads, turn : Nat, isDeleted : BOOLEAN]
               /\ Due(r.file) /\ (r.isDeleted <=> file[r.file].deletedAt # Never)
    <2>1. PICK f \in DueFirst : r = [file |-> f, turn |-> turn[f],
                                     isDeleted |-> file[f].deletedAt # Never]
      BY <1>1
    <2>2. f \in Uploads /\ Due(f) /\ turn[f] \in Nat
      BY <1>1 DEF FilesTypeOK
    <2> QED
      BY <2>1, <2>2
  <1>3. FilesTypeOK'
    BY <1>1, <1>2 DEF FilesTypeOK
  <1>4. ASSUME NEW r \in run' PROVE FoundRight(r)'
    <2>1. r.file \in Uploads /\ Due(r.file) /\ (r.isDeleted <=> file[r.file].deletedAt # Never)
          /\ RowRight(r.file)
      BY <1>2
    <2>2. CASE file[r.file].deletedAt # Never
      <3>1. IsGone(r.file)
        BY <2>1, <2>2 DEF Due, IsPending, IsGone
      <3>2. IsDue(r.file)
        BY <2>1, <3>1, GoneIsDue
      <3> QED
        BY <1>1, <2>1, <2>2, <3>1, <3>2 DEF FoundRight, RowRight, NoRow, IsDue, IsGone
    <2>3. CASE file[r.file].deletedAt = Never
      BY <1>1, <2>1, <2>3 DEF FoundRight, Due, IsPending, IsDue
    <2> QED
      BY <2>2, <2>3
  <1>5. purging' = "nothing"
    BY <1>1 DEF AtRight, FilesTypeOK
  <1>6. AtRight'
    BY <1>5 DEF AtRight
  <1>7. \A f \in Uploads : RowRight(f)' /\ KeptRight(f)'
    BY <1>1 DEF RowRight, KeptRight, IsDue, IsGone
  <1>8. CopiesGoTogether' /\ \A c \in Confirms : ConfirmRight(c)'
    BY <1>1 DEF CopiesGoTogether, ConfirmRight, IsDue
  <1> QED
    BY <1>3, <1>4, <1>6, <1>7, <1>8

\* Taken from storage: only what no row in use needs any more.
LEMMA PurgeBytesKeeps ==
  ASSUME FilesIInv, PurgeBytes
  PROVE  FilesIInv'
  <1> USE DEF FilesIInv
  <1>1. PICK r \in run : r = InHand
    BY InHandIs DEF PurgeBytes, Purge
  <1>2. PICK f \in Uploads : f = r.file
    BY DEF FilesTypeOK
  <1>3. /\ bytes' = [bytes EXCEPT ![f] = "none"] /\ purging' = "bytes" /\ InHand' = r
        /\ UNCHANGED <<what, day, file, turn, incoming, confirm, run, late, deaths>>
    BY <1>1, <1>2 DEF PurgeBytes, InHand
  <1>4. /\ bytes' \in [Uploads -> Contents] /\ bytes'[f] = "none"
        /\ \A u \in Uploads \ {f} : bytes'[u] = bytes[u]
    BY <1>3 DEF FilesTypeOK, Contents
  <1>5. FilesTypeOK'
    BY <1>3, <1>4 DEF FilesTypeOK
  <1>6. FoundRight(r)
    OBVIOUS
  <1>7. ASSUME NEW u \in Uploads PROVE RowRight(u)' /\ KeptRight(u)'
    <2>1. RowRight(u) /\ KeptRight(u)
      OBVIOUS
    <2>2. CASE u = f
      <3>1. f \in late \/ IsGone(f) \/ file[f].state # "confirmed"
        BY <1>2, <1>6 DEF FoundRight
      <3> QED
        BY <1>3, <1>4, <2>1, <2>2, <3>1 DEF RowRight, KeptRight, IsDue, IsGone
    <2>3. CASE u # f
      BY <1>3, <1>4, <2>1, <2>3 DEF RowRight, KeptRight, IsDue, IsGone
    <2> QED
      BY <2>2, <2>3
  <1>8. ASSUME NEW c \in Confirms PROVE ConfirmRight(c)'
    <2>1. ConfirmRight(c)
      OBVIOUS
    <2>2. CASE confirm[c].file = f
      BY <1>2, <1>3, <1>6, <2>1, <2>2 DEF ConfirmRight, FoundRight, IsDue
    <2>3. CASE confirm[c].file # f
      BY <1>3, <1>4, <2>1, <2>3 DEF ConfirmRight, IsDue
    <2> QED
      BY <2>2, <2>3
  <1>9. CopiesGoTogether' /\ \A o \in run' : FoundRight(o)'
    BY <1>3 DEF CopiesGoTogether, FoundRight, IsDue, IsGone
  <1>10. AtRight'
    BY <1>2, <1>3, <1>4 DEF AtRight
  <1> QED
    BY <1>5, <1>7, <1>8, <1>9, <1>10

LEMMA PurgeIncomingKeeps ==
  ASSUME FilesIInv, PurgeIncoming
  PROVE  FilesIInv'
  <1> USE DEF FilesIInv
  <1>1. PICK f \in Uploads : f = InHand.file
    BY InHandFile DEF PurgeIncoming, Purge
  <1>2. /\ incoming' = [incoming EXCEPT ![f] = "none"] /\ InHand' = InHand
        /\ purging = "bytes" /\ purging' = "both"
        /\ UNCHANGED <<what, day, file, turn, bytes, confirm, run, late, deaths>>
    BY <1>1 DEF PurgeIncoming, Purge, InHand
  <1>3. /\ incoming' \in [Uploads -> Contents] /\ incoming'[f] = "none"
        /\ \A u \in Uploads \ {f} : incoming'[u] = incoming[u]
    BY <1>2 DEF FilesTypeOK, Contents
  <1>4. FilesTypeOK'
    BY <1>2, <1>3 DEF FilesTypeOK
  <1>5. ASSUME NEW u \in Uploads PROVE RowRight(u)' /\ KeptRight(u)'
    <2>1. RowRight(u) /\ KeptRight(u)
      OBVIOUS
    <2> QED
      BY <1>2, <1>3, <2>1 DEF RowRight, KeptRight, IsDue, IsGone
  <1>6. CopiesGoTogether' /\ \A o \in run' : FoundRight(o)'
    BY <1>2 DEF CopiesGoTogether, FoundRight, IsDue, IsGone
  <1>7. \A c \in Confirms : ConfirmRight(c)'
    BY <1>2 DEF ConfirmRight, IsDue
  <1>8. AtRight'
    BY <1>1, <1>2, <1>3 DEF AtRight
  <1> QED
    BY <1>4, <1>5, <1>6, <1>7, <1>8

\* The row says so only once nothing is left.
LEMMA MarkPurgedKeeps ==
  ASSUME FilesIInv, MarkPurged
  PROVE  FilesIInv'
  <1> USE DEF FilesIInv
  <1>1. PICK r \in run : r = InHand
    BY InHandIs DEF MarkPurged
  <1>2. PICK f \in Uploads : f = r.file
    BY DEF FilesTypeOK
  <1> DEFINE orphans == Orphans(f)
  <1>3. /\ \A u \in orphans : /\ u \in Uploads \ {f} /\ file[u] # NoRow
                              /\ file[u].deletedAt = Never
        /\ orphans # {} => f = 1
    BY DEF Orphans, SmallCopies
  <1> HIDE DEF orphans
  <1> DEFINE last == [RefusedUnlessDeleted(file[f]) EXCEPT !.isPurged = TRUE]
  <1>4. PICK gone : /\ file' = [gone EXCEPT ![f] = last] /\ gone = Deleted(orphans)
    <2>1. Deleted(orphans)[f] = file[f]
      BY <1>3, DeletedIs
    <2> QED
      BY <1>1, <1>2, <2>1 DEF MarkPurged, orphans
  <1>5. /\ gone \in [Uploads -> Row]
        /\ \A u \in Uploads :
              /\ u \notin orphans => gone[u] = file[u]
              /\ u \in orphans => gone[u].deletedAt = day
              /\ gone[u].state = file[u].state
              /\ gone[u].createdAt = file[u].createdAt
              /\ gone[u].isPurged = file[u].isPurged
    BY <1>4, DeletedIs
  <1>6. /\ purging = "both" /\ purging' = "nothing" /\ run' = run \ {r}
        /\ turn' \in [Uploads -> Nat]
        /\ UNCHANGED <<what, day, incoming, bytes, confirm, late, deaths>>
    BY <1>1, UpdatedType DEF MarkPurged, IsTaken, Touch
  <1>7. /\ last \in Row /\ last.isPurged = TRUE
        /\ last.createdAt = file[f].createdAt /\ last.deletedAt = file[f].deletedAt
        /\ last.state = file[f].state
           \/ (last.state = "refused" /\ file[f].state = "pending")
    <2>1. PICK row \in Row : /\ row = RefusedUnlessDeleted(file[f])
                             /\ row.createdAt = file[f].createdAt
                             /\ row.deletedAt = file[f].deletedAt
                             /\ row.state = file[f].state
                                \/ (row.state = "refused" /\ file[f].state = "pending")
      <3>1. file[f] \in Row
        BY FilesTypes
      <3>2. CASE ~InHand.isDeleted /\ file[f].state = "pending"
        <4> DEFINE refused == [file[f] EXCEPT !.state = "refused"]
        <4>1. RefusedUnlessDeleted(file[f]) = refused
          BY <3>2 DEF RefusedUnlessDeleted
        <4>2. /\ refused \in Row /\ refused.state = "refused"
              /\ refused.createdAt = file[f].createdAt
              /\ refused.deletedAt = file[f].deletedAt
          BY <3>1 DEF Row
        <4> QED
          BY <3>2, <4>1, <4>2
      <3>3. CASE ~(~InHand.isDeleted /\ file[f].state = "pending")
        <4>1. RefusedUnlessDeleted(file[f]) = file[f]
          BY <3>3 DEF RefusedUnlessDeleted
        <4> QED
          BY <3>1, <4>1
      <3> QED
        BY <3>2, <3>3
    <2>2. last = [row EXCEPT !.isPurged = TRUE]
      BY <2>1
    <2> QED
      BY <2>1, <2>2 DEF Row
  <1> HIDE DEF last
  <1>8. file' \in [Uploads -> Row] /\ file'[f] = last /\ \A u \in Uploads \ {f} : file'[u] = gone[u]
    BY <1>4, <1>5, <1>7
  <1>9. FilesTypeOK'
    BY <1>6, <1>8 DEF FilesTypeOK
  <1>10. FoundRight(r) /\ IsDue(f) /\ file[f].state # "none"
    BY <1>2 DEF FoundRight
  <1>11. \A u \in orphans : file[u].state # "none" /\ file[u].createdAt <= day
    BY <1>3 DEF RowRight
  <1>12. RowsStay /\ day' >= day
    BY <1>3, <1>5, <1>6, <1>7, <1>8, <1>10, <1>11 DEF RowsStay, FilesTypeOK
  <1>13. ASSUME NEW u \in Uploads PROVE RowRight(u)' /\ KeptRight(u)'
    <2>1. RowRight(u) /\ KeptRight(u)
      OBVIOUS
    <2>2. CASE u = f
      <3>1. RowRight(u)'
        BY <1>6, <1>7, <1>8, <1>10, <2>1, <2>2 DEF RowRight, IsDue
      <3>2. f \in late \/ (bytes[f] = "none" /\ incoming[f] = "none")
        BY <1>1, <1>2, <1>6 DEF AtRight
      <3>3. f \in late \/ IsGone(f) \/ file[f].state # "confirmed"
        BY <1>2, <1>10 DEF FoundRight
      <3>4. KeptRight(u)'
        BY <1>6, <1>7, <1>8, <2>1, <2>2, <3>2, <3>3 DEF KeptRight, IsGone
      <3> QED
        BY <3>1, <3>4
    <2>3. CASE u \in orphans
      BY <1>3, <1>5, <1>6, <1>8, <1>11, <2>1, <2>3 DEF RowRight, KeptRight, IsDue, IsGone
    <2>4. CASE u # f /\ u \notin orphans
      BY <1>5, <1>6, <1>8, <2>1, <2>4 DEF RowRight, KeptRight, IsDue, IsGone
    <2> QED
      BY <2>2, <2>3, <2>4
  <1>14. CopiesGoTogether'
    <2> SUFFICES ASSUME what = "photo", 1 \in Uploads, NEW s \in Uploads \ {1},
                        file'[s].deletedAt # Never, ~file'[s].isPurged
                 PROVE  file'[1].isPurged \/ file'[1].deletedAt = file'[s].deletedAt
      BY <1>6 DEF CopiesGoTogether
    <2>1. CASE f = 1
      BY <1>7, <1>8, <2>1
    <2>2. CASE f # 1
      BY <1>3, <1>5, <1>7, <1>8, <2>2 DEF CopiesGoTogether
    <2> QED
      BY <2>1, <2>2
  <1>15. ASSUME NEW o \in run' PROVE FoundRight(o)'
    <2>1. o \in run /\ o.file \in Uploads
      BY <1>6 DEF FilesTypeOK
    <2>2. IsGone(o.file) => IsGone(o.file)'
      <3>1. CASE o.file = f
        BY <1>6, <1>7, <1>8, <3>1 DEF IsGone
      <3>2. CASE o.file # f
        BY <1>3, <1>5, <1>6, <1>8, <2>1, <3>2 DEF IsGone
      <3> QED
        BY <3>1, <3>2
    <2>3. file'[o.file].state = "confirmed" => file[o.file].state = "confirmed"
      BY <1>5, <1>7, <1>8, <2>1
    <2> QED
      BY <1>6, <1>9, <1>12, <2>1, <2>2, <2>3, FoundStays
  <1>16. \A c \in Confirms : ConfirmRight(c)'
    BY <1>6, <1>9, <1>12, ConfirmStays
  <1>17. AtRight'
    BY <1>6 DEF AtRight
  <1> QED
    BY <1>9, <1>13, <1>14, <1>15, <1>16, <1>17

\* A file that will not go, or a run that stops: the rest is found again.
LEMMA RunLeftKeeps ==
  ASSUME FilesIInv, PurgeFails \/ RunDies
  PROVE  FilesIInv'
  <1> USE DEF FilesIInv
  <1>1. /\ run' \subseteq run /\ purging' = "nothing"
        /\ turn' \in [Uploads -> Nat] /\ deaths' \in 0..MaxDeaths
        /\ UNCHANGED <<what, day, file, incoming, bytes, confirm, late>>
    <2>1. CASE PurgeFails
      BY <2>1, UpdatedType DEF PurgeFails, Purge, SentToBack, FilesTypeOK
    <2>2. CASE RunDies
      BY <2>2, FilesAssumption DEF RunDies, FilesTypeOK
    <2> QED
      BY <2>1, <2>2
  <1>2. FilesTypeOK'
    BY <1>1 DEF FilesTypeOK
  <1>3. \A f \in Uploads : RowRight(f)' /\ KeptRight(f)'
    BY <1>1 DEF RowRight, KeptRight, IsDue, IsGone
  <1>4. CopiesGoTogether' /\ \A r \in run' : FoundRight(r)'
    BY <1>1 DEF CopiesGoTogether, FoundRight, IsDue, IsGone
  <1>5. \A c \in Confirms : ConfirmRight(c)'
    BY <1>1 DEF ConfirmRight, IsDue
  <1>6. AtRight'
    BY <1>1 DEF AtRight
  <1> QED
    BY <1>2, <1>3, <1>4, <1>5, <1>6

LEMMA PassDayKeeps ==
  ASSUME FilesIInv, PassDay
  PROVE  FilesIInv'
  <1> USE DEF FilesIInv
  <1>1. /\ UNCHANGED <<what, file, turn, incoming, bytes, confirm, run, purging, late, deaths>>
        /\ day' \in 0..FilesHorizon /\ day' >= day /\ day \in Nat /\ day' \in Nat
    BY FilesAssumption DEF PassDay, FilesTypeOK
  <1>2. FilesTypeOK' /\ RowsStay
    BY <1>1 DEF FilesTypeOK, RowsStay
  <1>3. ASSUME NEW f \in Uploads PROVE RowRight(f)' /\ KeptRight(f)'
    <2>1. RowRight(f) /\ KeptRight(f) /\ file[f].createdAt \in Nat
      BY FilesTypes
    <2>2. (IsDue(f) => IsDue(f)') /\ (IsGone(f) => IsGone(f)')
      BY <1>1, <1>2, DueStays, GoneStays
    <2>3. RowRight(f)'
      BY <1>1, <2>1, <2>2 DEF RowRight
    <2> QED
      BY <1>1, <2>1, <2>2, <2>3 DEF KeptRight
  <1>4. CopiesGoTogether' /\ AtRight'
    BY <1>1 DEF CopiesGoTogether, AtRight, InHand
  <1>5. ASSUME NEW r \in run' PROVE FoundRight(r)'
    <2>1. r \in run /\ r.file \in Uploads
      BY <1>1 DEF FilesTypeOK
    <2> QED
      BY <1>1, <1>2, <2>1, FoundStays, GoneStays
  <1>6. \A c \in Confirms : ConfirmRight(c)'
    BY <1>1, <1>2, ConfirmStays
  <1> QED
    BY <1>2, <1>3, <1>4, <1>5, <1>6

-----------------------------------------------------------------------------
LEMMA FilesStart ==
  ASSUME FilesInit
  PROVE  FilesIInv
  <1>1. NoRow \in Row
    BY DEF NoRow, Row
  <1>2. NotConfirming \in Requests /\ NotConfirming.step = "idle"
    BY DEF NotConfirming, Requests, Contents
  <1>3. FilesTypeOK
    BY <1>1, <1>2, FilesAssumption DEF FilesInit, FilesTypeOK, Requests, Contents
  <1>4. \A f \in Uploads : RowRight(f) /\ KeptRight(f)
    BY DEF FilesInit, RowRight, KeptRight, NoRow
  <1>5. CopiesGoTogether
    BY DEF FilesInit, CopiesGoTogether, NoRow
  <1>6. (\A c \in Confirms : ConfirmRight(c)) /\ (\A r \in run : FoundRight(r)) /\ AtRight
    BY <1>2 DEF FilesInit, ConfirmRight, AtRight
  <1> QED
    BY <1>3, <1>4, <1>5, <1>6 DEF FilesIInv

LEMMA FilesStep ==
  ASSUME FilesIInv, [FilesNext]_filesVars
  PROVE  FilesIInv'
  <1>1. ASSUME NEW f \in Uploads,
               \/ RequestUpload(f) \/ RemoveFile(f) \/ RestoreFile(f)
               \/ \E content \in {"good", "bad"} : BrowserSends(f, content)
        PROVE  FilesIInv'
    BY <1>1, RequestUploadKeeps, RemoveFileKeeps, RestoreFileKeeps, BrowserSendsKeeps
  <1>2. ASSUME NEW c \in Confirms, ConfirmStep(c) PROVE FilesIInv'
    BY <1>2, LookingKeeps, MarkRefusedKeeps, PromoteKeeps, ClaimConfirmedKeeps DEF ConfirmStep
  <1>3. CASE FindDueFiles \/ PurgeStep \/ RunDies \/ PassDay
    BY <1>3, FindDueFilesKeeps, PurgeBytesKeeps, PurgeIncomingKeeps, MarkPurgedKeeps,
       RunLeftKeeps, PassDayKeeps DEF PurgeStep
  <1>4. CASE UNCHANGED filesVars
    <2> USE <1>4 DEF FilesIInv, filesVars
    <2>1. FilesTypeOK'
      BY DEF FilesTypeOK
    <2>2. \A c \in Confirms : ConfirmRight(c)'
      BY DEF ConfirmRight, IsDue
    <2>3. \A f \in Uploads : KeptRight(f)'
      BY DEF KeptRight, IsGone
    <2> QED
      BY <2>1, <2>2, <2>3, FilesKept, AtStays
  <1> QED
    BY <1>1, <1>2, <1>3, <1>4 DEF FilesNext

(* What storage holds and what the rows say of it go together, for any     *)
(* number of files, requests and deaths (stored-files.ts,                  *)
(* file-housekeeping.ts purgeFile).                                        *)
THEOREM FilesInvariance == FilesSpec => []FilesIInv
  <1>1. FilesInit => FilesIInv
    BY FilesStart
  <1>2. FilesIInv /\ [FilesNext]_filesVars => FilesIInv'
    BY FilesStep
  <1> QED
    BY <1>1, <1>2, PTL DEF FilesSpec

(* A file in use has the bytes that were checked, and of one gone for good *)
(* nothing is left in storage, unless it was confirmed when already due to *)
(* go (file-housekeeping.ts purgeFile, stored-files.ts claimConfirmed).    *)
THEOREM BytesAlwaysMatch == FilesSpec => []BytesMatchRows
  <1>1. FilesIInv => BytesMatchRows
    BY DEF FilesIInv, KeptRight, BytesMatchRows, InUse, IsGone
  <1> QED
    BY <1>1, FilesInvariance, PTL

-----------------------------------------------------------------------------
(* MCDesk: the parts of a desk, side by side.                              *)

\* A behaviour of MCDesk is one of each part, which may stand still.
LEMMA DeskPartsRun == PartSpec => Spec /\ LinkCodesSpec /\ FilesSpec
  <1>1. PartInit => Init /\ LinkCodesInit /\ FilesInit
    BY DEF PartInit
  <1>2. [PartNext]_partVars => [Next]_vars /\ [LinkCodesNext]_codesVars /\ [FilesNext]_filesVars
    <2> SUFFICES ASSUME [PartNext]_partVars
                 PROVE  [Next]_vars /\ [LinkCodesNext]_codesVars /\ [FilesNext]_filesVars
      OBVIOUS
    <2>1. CASE PartNext
      BY <2>1 DEF PartNext
    <2>2. CASE UNCHANGED partVars
      BY <2>2 DEF partVars
    <2> QED
      BY <2>1, <2>2
  <1> QED
    BY <1>1, <1>2, PTL DEF PartSpec, Spec, LinkCodesSpec, FilesSpec

\* Every variable of direct debits, of a link's codes and of files keeps its type, for any
\* instance of them.
THEOREM DeskTypesHold == PartSpec => []DeskTypeOK
  <1>1. IInv /\ CodesIInv /\ FilesIInv => DeskTypeOK
    BY DEF IInv, CodesIInv, FilesIInv, DeskTypeOK
  <1> QED
    BY <1>1, DeskPartsRun, Invariance, CodesInvariance, FilesInvariance, PTL

\* It is one of a bond's pages too, of the instance MCDesk has of BondPages.
LEMMA DeskPageRuns == PartSpec => Page!Spec
  <1>1. PartInit => Page!Init
    BY DEF PartInit
  <1>2. [PartNext]_partVars => [Page!Next]_(Page!vars)
    BY DEF PartNext, partVars, Page!vars, pageVars
  <1> QED
    BY <1>1, <1>2, PTL DEF PartSpec, Page!Spec

\* BondPages' theorem of its amounts, for that instance: what it assumes is assumed here.
LEMMA PageWithinBond == Page!Spec => []Page!WithinBond
  <1>1. /\ Presses \cap Clerks = {} /\ Presses \cap {} = {}
        /\ Presses \cap PageHandlers = {} /\ Clerks \cap {} = {}
        /\ Clerks \cap PageHandlers = {} /\ {} \cap PageHandlers = {}
    BY PageRequestKinds
  <1>2. Bond \in Nat \ {0} /\ MinCharge \in Nat \ {0}
    BY PageBondIsMoney
  <1>3. HandAmounts \subseteq Nat \ {0}
    BY PageBondIsMoney
  <1>4. 0 \in Nat
    OBVIOUS
  <1>5. Page!IsFiniteSet(Pages) /\ Page!IsFiniteSet(Clerks)
    BY PageFinite DEF IsFiniteSet, Page!IsFiniteSet
  <1>6. NoPage \notin Pages /\ NoEvent \notin Page!Events
    BY PageNulls
  <1> QED
    BY <1>1, <1>2, <1>3, <1>4, <1>5, <1>6, Page!NeverMoreThanBond

\* No page asks for more than the bond, and what clerks take in by hand and do not reverse
\* never comes to more, for any number of clerks, presses, pages and events
\* (renter-checkout.ts startRenterCheckout, bond-records.ts recordBondReceived).
THEOREM ClerksNeverTakeMore == PartSpec => []WithinBond
  <1>1. Page!WithinBond => WithinBond
    BY DEF WithinBond
  <1> QED
    BY <1>1, DeskPageRuns, PageWithinBond, PTL
=============================================================================
