------------------------------ MODULE LinkCodes ------------------------------
(***************************************************************************)
(* The codes e-mailed for one Renter link (renter-links/link-visits.ts):   *)
(* a fresh code replaces the one before in a transaction, the e-mail goes  *)
(* after it, and one that fails is put back in another; codes are typed on *)
(* any phone meanwhile.  Each transaction locks the link's row and is one  *)
(* step.                                                                   *)
(***************************************************************************)
EXTENDS Naturals, FiniteSets

CONSTANTS
    Sends,               \* requests for a code that may be under way at once
    MaxCodes,            \* bound: how many codes are made
    CodeValid,           \* LINK_CODE_VALID_MINUTES
    CodeWindow,          \* CODE_WINDOW_MS
    MaximumCodes,        \* MAXIMUM_LINK_CODES_PER_HOUR
    MaximumWrongCodes,   \* MAXIMUM_WRONG_LINK_CODES
    CodesHorizon         \* bound: the last moment

ASSUME LinkCodesAssumption ==
    /\ MaxCodes \in Nat
    /\ CodeValid \in Nat \ {0} /\ CodeWindow \in Nat \ {0} /\ CodesHorizon \in Nat
    /\ MaximumCodes \in Nat \ {0} /\ MaximumWrongCodes \in Nat \ {0}

Codes  == 1..MaxCodes
NoCode == 0

VARIABLES
    minute,      \* the moment
    code,        \* renter_links: the code and its end, the window and its count
    codeTries,   \* renter_links.code_tries
    isLocked,    \* renter_links.locked_at is set
    made,        \* how many codes were made
    send,        \* each request: the row as it set it, and as it was before
    inbox,       \* the codes that arrived
    told,        \* the codes said to be sent, and the window each was counted in
    uses         \* how many phones were remembered for each code

codesVars == <<minute, code, codeTries, isLocked, made, send, inbox, told, uses>>

CodeRow == [code : Codes \cup {NoCode}, expiresAt : Nat, window : Nat, inWindow : 0..MaximumCodes]
NoCodeRow == [code |-> NoCode, expiresAt |-> 0, window |-> 0, inWindow |-> 0]
NoSend == [step |-> "idle", row |-> NoCodeRow, before |-> NoCodeRow]

LinkCodesTypeOK ==
    /\ minute \in 0..CodesHorizon
    /\ code \in CodeRow
    /\ codeTries \in 0..MaximumWrongCodes /\ (isLocked <=> codeTries = MaximumWrongCodes)
    /\ made \in Codes \cup {0}
    /\ send \in [Sends -> [step : {"idle", "sending", "arrived", "failed"},
                           row : CodeRow, before : CodeRow]]
    /\ \A s \in Sends : send[s].step # "idle" => send[s].row.code # NoCode
    /\ inbox \subseteq Codes
    /\ told \subseteq CodeRow
    /\ uses \in [Codes -> Nat]

LinkCodesInit ==
    /\ minute = 0
    /\ code = NoCodeRow
    /\ codeTries = 0 /\ isLocked = FALSE
    /\ made = 0
    /\ send = [s \in Sends |-> NoSend]
    /\ inbox = {} /\ told = {}
    /\ uses = [c \in Codes |-> 0]

----------------------------------------------------------------------------
IsNewWindow == minute - code.window >= CodeWindow \/ code.inWindow = 0

CodesInWindow == IF IsNewWindow THEN 0 ELSE code.inWindow

NextCodeRow ==
    [code |-> made + 1, expiresAt |-> minute + CodeValid,
     window |-> IF IsNewWindow THEN minute ELSE code.window, inWindow |-> CodesInWindow + 1]

\* sendLinkCode's transaction: a fresh code, unless the link is locked or had its codes.
SendLinkCode(s) ==
    /\ send[s] = NoSend /\ made + 1 \in Codes
    /\ ~isLocked /\ CodesInWindow < MaximumCodes
    /\ made' = made + 1
    /\ code' = NextCodeRow
    /\ send' = [send EXCEPT ![s] = [step |-> "sending", row |-> NextCodeRow, before |-> code]]
    /\ UNCHANGED <<minute, codeTries, isLocked, inbox, told, uses>>

\* The e-mail arrives, whether or not its provider gets to say so.
EmailArrives(s) ==
    /\ send[s].step = "sending"
    /\ inbox' = inbox \cup {send[s].row.code}
    /\ send' = [send EXCEPT ![s].step = "arrived"]
    /\ UNCHANGED <<minute, code, codeTries, isLocked, made, told, uses>>

SayCodeSent(s) ==
    /\ send[s].step = "arrived"
    /\ told' = told \cup {send[s].row}
    /\ send' = [send EXCEPT ![s] = NoSend]
    /\ UNCHANGED <<minute, code, codeTries, isLocked, made, inbox, uses>>

EmailFails(s) ==
    /\ send[s].step \in {"sending", "arrived"}
    /\ send' = [send EXCEPT ![s].step = "failed"]
    /\ UNCHANGED <<minute, code, codeTries, isLocked, made, inbox, told, uses>>

\* Mutant: the code before is put back whatever became of this one.
IsPutBackAnyhow(s) == TRUE

\* Unless another was sent since, or it was used.
IsPutBack(s) == code.code = send[s].row.code

PutCodeBack(s) ==
    /\ send[s].step = "failed"
    /\ code' = IF IsPutBack(s) THEN send[s].before ELSE code
    /\ send' = [send EXCEPT ![s] = NoSend]
    /\ UNCHANGED <<minute, codeTries, isLocked, made, inbox, told, uses>>

SendDies(s) ==
    /\ send[s] # NoSend
    /\ send' = [send EXCEPT ![s] = NoSend]
    /\ UNCHANGED <<minute, code, codeTries, isLocked, made, inbox, told, uses>>

IsCodeInForce == ~isLocked /\ code.code # NoCode /\ code.expiresAt > minute

\* Mutant: a right code is left as it was.
CodeLeft == code

CodeUsedUp == [code EXCEPT !.code = NoCode, !.expiresAt = 0]

\* A code that arrived is typed, on a phone that is then remembered for the link.
CheckRightCode ==
    /\ IsCodeInForce /\ code.code \in inbox
    /\ code' = CodeUsedUp
    /\ uses' = [uses EXCEPT ![code.code] = @ + 1]
    /\ UNCHANGED <<minute, codeTries, isLocked, made, send, inbox, told>>

\* Another one is typed: an older one, or a guess.
CheckWrongCode ==
    /\ IsCodeInForce
    /\ codeTries' = codeTries + 1
    /\ isLocked' = (codeTries + 1 >= MaximumWrongCodes)
    /\ UNCHANGED <<minute, code, made, send, inbox, told, uses>>

PassMinute ==
    /\ minute < CodesHorizon
    /\ minute' = minute + 1
    /\ UNCHANGED <<code, codeTries, isLocked, made, send, inbox, told, uses>>

LinkCodesNext ==
    \/ \E s \in Sends :
          \/ SendLinkCode(s) \/ EmailArrives(s) \/ SayCodeSent(s) \/ EmailFails(s)
          \/ PutCodeBack(s) \/ SendDies(s)
    \/ CheckRightCode \/ CheckWrongCode
    \/ PassMinute

LinkCodesSpec == LinkCodesInit /\ [][LinkCodesNext]_codesVars

----------------------------------------------------------------------------
(* What must hold. *)

\* A code lets in one phone: none comes back to life once used, by whichever of several sends
\* under way fails and puts back what it found.
CodeUsedOnce == \A c \in Codes : uses[c] <= 1

\* No more codes are said to be sent in a window than it has, however sends overlap and put
\* their counts back ("a link cannot flood an inbox").
CodesWithinWindow ==
    \A t \in told : Cardinality({o \in told : o.window = t.window}) <= MaximumCodes
----------------------------------------------------------------------------
(* Why a code is used once: it is only ever in one place. *)

\* The code a send under way found, which it puts back if its own e-mail fails.
FoundBy(s) == send[s].before.code

\* A code that may still be used, in the row or found by a send, is there alone, was made,
\* and was not used.
CodeIsInOnePlace ==
    /\ code.code <= made /\ \A s \in Sends : FoundBy(s) <= made
    /\ code.code # NoCode => uses[code.code] = 0 /\ \A s \in Sends : FoundBy(s) # code.code
    /\ \A s \in Sends : FoundBy(s) # NoCode =>
           uses[FoundBy(s)] = 0 /\ \A o \in Sends : FoundBy(o) = FoundBy(s) => o = s
    /\ \A c \in Codes : c > made => uses[c] = 0

CodesIInv == LinkCodesTypeOK /\ CodeIsInOnePlace /\ CodeUsedOnce
=============================================================================
