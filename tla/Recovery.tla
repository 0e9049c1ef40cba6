------------------------------ MODULE Recovery ------------------------------
(***************************************************************************)
(* A forgotten password, from the panel in the browser (AuthPanel.tsx)     *)
(* through the API (auth.go, recovery_continuation.go) to Kratos, which is *)
(* external: it mails one-time codes, opens a session for the right one,   *)
(* and sets the password of a session's identity.  A password that Kratos  *)
(* refuses has spent the code, so the API keeps the session it got for     *)
(* another try, in memory and for a limited time.  Requests and answers    *)
(* are lost, the API restarts, sessions are ended from elsewhere, and the  *)
(* owner changes the password on another device.                           *)
(***************************************************************************)
EXTENDS Integers, FiniteSets

CONSTANTS
    Passwords,
    Weak,      \* those the policy refuses
    Old,       \* the password to begin with
    Flows,     \* recovery flows; the code of a flow is known by the flow
    Tokens,    \* sessions; a continuation is known by the session it keeps
    Device,    \* the session of the owner's other device
    Calls,     \* requests the API works on at a time
    MaxFaults, \* bounds failures, mistakes and disturbances together
    None

ASSUME PasswordsAssumption == Weak \subseteq Passwords /\ Old \in Passwords \ Weak
ASSUME DeviceAssumption == Device \in Tokens
ASSUME FaultsAssumption == MaxFaults \in Nat

Answers == {"OK", "INVALID_CODE", "PASSWORD_REJECTED", "INVALID_CURRENT_PASSWORD", "UNAUTHENTICATED",
            "INTERNAL_ERROR"}
Requests ==
    [kind : {"code", "continuation", "change"}, pc : {"begin", "settings", "whoami", "answer"},
     flow : Flows \cup {None}, right : BOOLEAN, current : Passwords \cup {None}, password : Passwords,
     token : Tokens \cup {None}, answer : Answers \cup {None}, continuation : Tokens \cup {None},
     set : BOOLEAN]  \* set: history, the call has changed the password
Revocations == [targets : SUBSET Tokens, all : BOOLEAN, pc : {"begin", "revoke", "answer"}, ok : BOOLEAN]

ASSUME NoneAssumption == None \notin Tokens \cup Calls \cup Requests \cup Answers

VARIABLES
    password, mailed, ended,                 \* Kratos: flows with an unspent code, ended sessions
    calls, recoveryContinuations,            \* API
    flowId, continuationId, waiting, notice, \* panel: the call it waits for, the message it shows
    signedIn,                                \* panel: the session it was given
    rows, hidden, revoking,                  \* the other device's list of sessions, its request
    over,                                    \* history: continuations that timed out or served
    faults

kratosVars == <<password, mailed, ended>>
panelVars == <<flowId, continuationId, waiting, notice, signedIn>>
deviceVars == <<rows, hidden, revoking>>
vars == <<kratosVars, calls, recoveryContinuations, panelVars, deviceVars, over, faults>>

Init ==
    /\ password = Old /\ mailed = {} /\ ended = {}
    /\ calls = [c \in Calls |-> None] /\ recoveryContinuations = {}
    /\ flowId = None /\ continuationId = None /\ waiting = None /\ notice = None
    /\ signedIn = None /\ over = {} /\ faults = 0
    /\ rows = {} /\ hidden = {} /\ revoking = None

Costs(n) == faults + n <= MaxFaults /\ faults' = faults + n

Busy(c) == calls[c] # None

\* New names: a session, flow or call that nobody knows any more stands for a new one.  Tokens, Flows
\* and Calls bound how many are known at a time.
Known(t) == \/ t \in recoveryContinuations \cup {continuationId, signedIn, Device} \cup rows
            \/ \E c \in Calls : Busy(c) /\ calls[c].token = t
NewToken == CHOOSE t \in Tokens : ~Known(t)
TokensLeft == \E t \in Tokens : ~Known(t)
Used(f) == f = flowId \/ \E c \in Calls : Busy(c) /\ calls[c].pc = "begin" /\ calls[c].flow = f
NewFlow == CHOOSE f \in Flows : ~Used(f)
FlowsLeft == \E f \in Flows : ~Used(f)
NewCall == CHOOSE c \in Calls : ~Busy(c)
CallsLeft == \E c \in Calls : ~Busy(c)

-----------------------------------------------------------------------------
(* AuthPanel *)

\* onRecoveryRequest, or resendRecoveryCode: a code is mailed; the answer may be lost.  A user who
\* was not told to ask for one counts as a disturbance.
RequestCode(heard) ==
    /\ signedIn = None /\ FlowsLeft
    /\ Costs((IF flowId = None \/ notice = "INVALID_CODE" THEN 0 ELSE 1) + (IF heard THEN 0 ELSE 1))
    /\ mailed' = mailed \cup {NewFlow}
    /\ IF heard THEN /\ flowId' = NewFlow /\ continuationId' = None /\ notice' = None
                ELSE /\ notice' = "INTERNAL_ERROR" /\ UNCHANGED <<flowId, continuationId>>
    /\ UNCHANGED <<password, ended, calls, recoveryContinuations, waiting, signedIn, deviceVars, over>>

\* onRecoveryComplete: the API prefers the continuation the panel has to the code.
Submit(right, p) ==
    /\ signedIn = None /\ flowId # None /\ waiting = None /\ CallsLeft
    /\ Costs(IF right /\ p \notin Weak \cup {password} /\ notice # "INVALID_CODE" THEN 0 ELSE 1)
    /\ calls' = [calls EXCEPT ![NewCall] =
          [kind |-> IF continuationId # None THEN "continuation" ELSE "code", pc |-> "begin",
           flow |-> flowId, right |-> right, current |-> None, password |-> p,
           token |-> continuationId, answer |-> None, continuation |-> None, set |-> FALSE]]
    /\ waiting' = NewCall /\ notice' = None
    /\ UNCHANGED <<kratosVars, recoveryContinuations, flowId, continuationId, signedIn, deviceVars,
                   over>>

\* The connection breaks: the panel waits no longer, the call goes on.
GiveUp ==
    /\ waiting # None /\ Costs(1)
    /\ waiting' = None
    /\ UNCHANGED <<kratosVars, calls, recoveryContinuations, flowId, continuationId, notice,
                   signedIn, deviceVars, over>>

Deliver(c) ==
    /\ Busy(c) /\ calls[c].pc = "answer"
    /\ calls' = [calls EXCEPT ![c] = None]
    /\ IF waiting # c THEN UNCHANGED panelVars
       ELSE LET a == calls[c].answer IN
            /\ waiting' = None
            /\ signedIn' = IF a = "OK" THEN calls[c].token ELSE signedIn
            /\ notice' = IF a = "OK" THEN notice ELSE a
            /\ continuationId' = IF calls[c].continuation # None THEN calls[c].continuation
                                 ELSE IF a = "INVALID_CODE" THEN None ELSE continuationId
            /\ UNCHANGED flowId
    /\ UNCHANGED <<kratosVars, recoveryContinuations, deviceVars, over, faults>>

-----------------------------------------------------------------------------
(* The API *)

Answer(c, code) == calls' = [calls EXCEPT ![c].pc = "answer", ![c].answer = code]
GoOn(c, pc, token) == calls' = [calls EXCEPT ![c].pc = pc, ![c].token = token]
At(c, kind, pc) == Busy(c) /\ calls[c].kind \in kind /\ calls[c].pc = pc

\* kratos.RecoveryComplete submits the code: the right one is spent for a session.
SubmitCode(c, heard) ==
    /\ At(c, {"code"}, "begin") /\ TokensLeft
    /\ Costs(IF heard THEN 0 ELSE 1)
    /\ IF calls[c].right /\ calls[c].flow \in mailed
       THEN /\ mailed' = mailed \ {calls[c].flow} /\ ended' = ended \ {NewToken}
            /\ IF heard THEN GoOn(c, "settings", NewToken) ELSE Answer(c, "INTERNAL_ERROR")
            /\ over' = over \ {NewToken}
       ELSE /\ Answer(c, IF heard THEN "INVALID_CODE" ELSE "INTERNAL_ERROR")
            /\ UNCHANGED <<mailed, ended, over>>
    /\ UNCHANGED <<password, recoveryContinuations, panelVars, deviceVars>>

\* Mutant: a continuation is taken out of the store when it is looked up.
TakeContinuation(c) ==
    /\ At(c, {"continuation"}, "begin")
    /\ recoveryContinuations' = recoveryContinuations \ {calls[c].token}
    /\ IF calls[c].token \in recoveryContinuations THEN GoOn(c, "settings", calls[c].token)
       ELSE Answer(c, "INVALID_CODE")
    /\ UNCHANGED <<kratosVars, panelVars, deviceVars, over, faults>>

\* Mutant: a continuation that is not there is reported as a failure of the service.
GetContinuationOrFail(c) ==
    /\ At(c, {"continuation"}, "begin")
    /\ IF calls[c].token \in recoveryContinuations THEN GoOn(c, "settings", calls[c].token)
       ELSE Answer(c, "INTERNAL_ERROR")
    /\ UNCHANGED <<kratosVars, recoveryContinuations, panelVars, deviceVars, over, faults>>

GetContinuation(c) ==
    /\ At(c, {"continuation"}, "begin")
    /\ IF calls[c].token \in recoveryContinuations THEN GoOn(c, "settings", calls[c].token)
       ELSE Answer(c, "INVALID_CODE")
    /\ UNCHANGED <<kratosVars, recoveryContinuations, panelVars, deviceVars, over, faults>>

\* ChangePassword: the device's session is checked, the current password opens a fresh one.
Reauthenticate(c) ==
    /\ At(c, {"change"}, "begin") /\ TokensLeft
    /\ IF Device \in ended THEN Answer(c, "UNAUTHENTICATED") /\ UNCHANGED <<ended, over>>
       ELSE IF calls[c].current # password
       THEN Answer(c, "INVALID_CURRENT_PASSWORD") /\ UNCHANGED <<ended, over>>
       ELSE /\ GoOn(c, "settings", NewToken)
            /\ ended' = ended \ {NewToken} /\ over' = over \ {NewToken}
    /\ UNCHANGED <<password, mailed, recoveryContinuations, panelVars, deviceVars, faults>>

\* writeRecoveryPasswordRejected keeps the session of a spent code for another try.
RejectPassword(c) ==
    /\ calls' = [calls EXCEPT ![c].pc = "answer", ![c].answer = "PASSWORD_REJECTED",
                    ![c].continuation = IF calls[c].kind = "change" THEN None ELSE calls[c].token]
    /\ recoveryContinuations' = recoveryContinuations \cup
                                   (IF calls[c].kind = "code" THEN {calls[c].token} ELSE {})

\* kratos.SettingsPassword.  A dead session fails when the settings flow is opened, as an error
\* of no particular kind; a weak password, or the one that is set already, is refused.
SettingsPassword(c, heard) ==
    /\ At(c, {"code", "continuation", "change"}, "settings")
    /\ Costs(IF heard THEN 0 ELSE 1)
    /\ LET p == calls[c].password IN
       IF calls[c].token \in ended
       THEN Answer(c, "INTERNAL_ERROR") /\ UNCHANGED <<password, recoveryContinuations>>
       ELSE IF p \in Weak \/ p = password
       THEN /\ IF heard THEN RejectPassword(c)
               ELSE Answer(c, "INTERNAL_ERROR") /\ UNCHANGED recoveryContinuations
            /\ UNCHANGED password
       ELSE /\ password' = p
            /\ calls' = [calls EXCEPT ![c].set = TRUE,
                            ![c].pc = IF heard /\ calls[c].kind # "change" THEN "whoami" ELSE "answer",
                            ![c].answer = IF ~heard THEN "INTERNAL_ERROR"
                                          ELSE IF calls[c].kind = "change" THEN "OK" ELSE None]
            /\ UNCHANGED recoveryContinuations
    /\ UNCHANGED <<mailed, ended, panelVars, deviceVars, over>>

\* The session of a continuation is no longer fresh enough for Kratos: ErrFlowRejected.
NoLongerPrivileged(c) ==
    /\ At(c, {"continuation"}, "settings")
    /\ recoveryContinuations' = recoveryContinuations \ {calls[c].token}
    /\ over' = over \cup {calls[c].token}
    /\ Answer(c, "INVALID_CODE")
    /\ UNCHANGED <<kratosVars, panelVars, deviceVars, faults>>

\* Mutant: a session that cannot be read after the password was set is reported as a bad code.
WhoAmIOrBadCode(c) ==
    /\ At(c, {"code", "continuation"}, "whoami")
    /\ Answer(c, IF calls[c].token \notin ended THEN "OK" ELSE "INVALID_CODE")
    /\ recoveryContinuations' = recoveryContinuations \ {calls[c].token}
    /\ over' = over \cup {calls[c].token}
    /\ UNCHANGED <<kratosVars, panelVars, deviceVars, faults>>

\* Mutant: a continuation that has served is left to expire.
WhoAmIOnly(c) ==
    /\ At(c, {"code", "continuation"}, "whoami")
    /\ Answer(c, IF calls[c].token \notin ended THEN "OK" ELSE "INTERNAL_ERROR")
    /\ UNCHANGED <<kratosVars, recoveryContinuations, panelVars, deviceVars, over, faults>>

\* Only a session that is there ends the continuation.
WhoAmI(c) ==
    /\ At(c, {"code", "continuation"}, "whoami")
    /\ IF calls[c].token \notin ended
       THEN /\ Answer(c, "OK")
            /\ recoveryContinuations' = recoveryContinuations \ {calls[c].token}
            /\ over' = over \cup {calls[c].token}
       ELSE Answer(c, "INTERNAL_ERROR") /\ UNCHANGED <<recoveryContinuations, over>>
    /\ UNCHANGED <<kratosVars, panelVars, deviceVars, faults>>

\* respondWithSession cannot resolve the profile, after the continuation was deleted.
ProfileFails(c) ==
    /\ At(c, {"code", "continuation"}, "whoami") /\ calls[c].token \notin ended /\ Costs(1)
    /\ Answer(c, "INTERNAL_ERROR")
    /\ recoveryContinuations' = recoveryContinuations \ {calls[c].token}
    /\ over' = over \cup {calls[c].token}
    /\ UNCHANGED <<kratosVars, panelVars, deviceVars>>

\* Kratos cannot be reached.
KratosFails(c) ==
    /\ Busy(c) /\ calls[c].pc # "answer" /\ Costs(1)
    /\ Answer(c, "INTERNAL_ERROR")
    /\ UNCHANGED <<kratosVars, recoveryContinuations, panelVars, deviceVars, over>>

Expire(t) ==
    /\ t \in recoveryContinuations
    /\ recoveryContinuations' = recoveryContinuations \ {t}
    /\ over' = over \cup {t}
    /\ UNCHANGED <<kratosVars, calls, panelVars, deviceVars, faults>>

Restart ==
    /\ Costs(1)
    /\ recoveryContinuations' = {} /\ over' = over \cup recoveryContinuations
    /\ calls' = [c \in Calls |->
                    IF Busy(c) /\ calls[c].pc # "answer"
                    THEN [calls[c] EXCEPT !.pc = "answer", !.answer = "INTERNAL_ERROR"]
                    ELSE calls[c]]
    /\ UNCHANGED <<kratosVars, panelVars, deviceVars>>

-----------------------------------------------------------------------------
(* Elsewhere *)

ChangePassword(current, p) ==
    /\ CallsLeft /\ Costs(1)
    /\ calls' = [calls EXCEPT ![NewCall] =
          [kind |-> "change", pc |-> "begin", flow |-> None, right |-> FALSE, current |-> current,
           password |-> p, token |-> None, answer |-> None, continuation |-> None, set |-> FALSE]]
    /\ UNCHANGED <<kratosVars, recoveryContinuations, panelVars, deviceVars, over>>

\* The device shows its sessions (sessionInventory: itself and the others that are active).
ListSessions ==
    /\ revoking = None /\ Device \notin ended /\ Costs(1)
    /\ rows' = {t \in Tokens \ ended : Known(t)} \ {Device}
    /\ hidden' = {}
    /\ UNCHANGED <<kratosVars, calls, recoveryContinuations, panelVars, revoking, over>>

\* ProfileSessions: one of the rows, or all of them, are to be ended.
Revoke(targets, all) ==
    /\ revoking = None /\ rows \ hidden # {} /\ Costs(1)
    /\ targets \subseteq rows \ hidden
    /\ IF all THEN targets = rows \ hidden ELSE Cardinality(targets) = 1
    /\ revoking' = [targets |-> targets, all |-> all, pc |-> "begin", ok |-> FALSE]
    /\ UNCHANGED <<kratosVars, calls, recoveryContinuations, panelVars, rows, hidden, over>>

\* revokeSessions: WhoAmI, for a request whose own session has not ended.
CurrentSession ==
    /\ revoking # None /\ revoking.pc = "begin"
    /\ revoking' = [revoking EXCEPT !.pc = IF Device \in ended THEN "answer" ELSE "revoke"]
    /\ UNCHANGED <<kratosVars, calls, recoveryContinuations, panelVars, rows, hidden, over, faults>>

\* What the token of the request may end at Kratos by now.
MayEnd(r) == Device \notin ended /\ (r.all \/ r.targets \cap ended = {})

Ending(r) == IF r.all THEN {t \in Tokens : Known(t)} \ {Device} ELSE r.targets

\* Mutant: WhoAmI has found the session, and the error of the revocation is not looked at.
RevokeSessionsUnchecked(heard) ==
    /\ revoking # None /\ revoking.pc = "revoke"
    /\ Costs(IF heard THEN 0 ELSE 1)
    /\ ended' = IF MayEnd(revoking) THEN ended \cup Ending(revoking) ELSE ended
    /\ revoking' = [revoking EXCEPT !.pc = "answer", !.ok = heard]
    /\ UNCHANGED <<password, mailed, calls, recoveryContinuations, panelVars, rows, hidden, over>>

\* Then Kratos ends what the token may end by now: all other sessions, or the one named if it is
\* still there.
RevokeSessions(heard) ==
    /\ revoking # None /\ revoking.pc = "revoke"
    /\ Costs(IF heard THEN 0 ELSE 1)
    /\ ended' = IF MayEnd(revoking) THEN ended \cup Ending(revoking) ELSE ended
    /\ revoking' = [revoking EXCEPT !.pc = "answer", !.ok = MayEnd(revoking) /\ heard]
    /\ UNCHANGED <<password, mailed, calls, recoveryContinuations, panelVars, rows, hidden, over>>

\* Kratos cannot be reached by the one or the other.
RevocationFails ==
    /\ revoking # None /\ revoking.pc \in {"begin", "revoke"} /\ Costs(1)
    /\ revoking' = [revoking EXCEPT !.pc = "answer"]
    /\ UNCHANGED <<kratosVars, calls, recoveryContinuations, panelVars, rows, hidden, over>>

RevokeAnswered ==
    /\ revoking # None /\ revoking.pc = "answer"
    /\ hidden' = IF revoking.ok THEN hidden \cup revoking.targets ELSE hidden
    /\ revoking' = None
    /\ UNCHANGED <<kratosVars, calls, recoveryContinuations, panelVars, rows, over, faults>>

\* A session is signed out or has expired; the code of a flow is an hour old.
EndSession(t) ==
    /\ Known(t) /\ t \notin ended /\ Costs(1)
    /\ ended' = ended \cup {t}
    /\ UNCHANGED <<password, mailed, calls, recoveryContinuations, panelVars, deviceVars, over>>

ExpireCode(f) ==
    /\ f \in mailed /\ Used(f) /\ Costs(1)
    /\ mailed' = mailed \ {f}
    /\ UNCHANGED <<password, ended, calls, recoveryContinuations, panelVars, deviceVars, over>>

-----------------------------------------------------------------------------
\* What a call does when nothing goes wrong.
Step(c) == \/ SubmitCode(c, TRUE) \/ GetContinuation(c) \/ Reauthenticate(c)
           \/ SettingsPassword(c, TRUE) \/ WhoAmI(c) \/ Deliver(c)

Next ==
    \/ \E c \in Calls : \/ Step(c) \/ SubmitCode(c, FALSE) \/ SettingsPassword(c, FALSE)
                        \/ NoLongerPrivileged(c) \/ ProfileFails(c) \/ KratosFails(c)
    \/ \E heard \in BOOLEAN : RequestCode(heard)
    \/ \E right \in BOOLEAN, p \in Passwords : Submit(right, p)
    \/ \E current, p \in Passwords : ChangePassword(current, p)
    \/ \E t \in Tokens : Expire(t) \/ EndSession(t)
    \/ \E f \in Flows : ExpireCode(f)
    \/ GiveUp \/ Restart \/ ListSessions \/ CurrentSession \/ RevocationFails \/ RevokeAnswered
    \/ \E heard \in BOOLEAN : RevokeSessions(heard)
    \/ \E targets \in SUBSET rows, all \in BOOLEAN : Revoke(targets, all)

\* The user follows the messages: asks for a code when told that it is invalid, otherwise tries
\* again with the code of the last mail and an acceptable password that is not set already.
AskAgain == (flowId = None \/ notice = "INVALID_CODE") /\ RequestCode(TRUE)
TryAgain == /\ notice # "INVALID_CODE"
            /\ \E p \in Passwords \ (Weak \cup {password}) : Submit(TRUE, p)

Fairness ==
    /\ \A c \in Calls : WF_vars(Step(c))
    /\ \A t \in Tokens : WF_vars(Expire(t))
    /\ SF_vars(AskAgain) /\ SF_vars(TryAgain)

Spec == Init /\ [][Next]_vars /\ Fairness

-----------------------------------------------------------------------------
(* Properties *)

TypeOK ==
    /\ password \in Passwords /\ mailed \subseteq Flows /\ ended \subseteq Tokens
    /\ calls \in [Calls -> Requests \cup {None}]
    /\ recoveryContinuations \subseteq Tokens /\ over \subseteq Tokens
    /\ flowId \in Flows \cup {None} /\ notice \in Answers \cup {None}
    /\ continuationId \in Tokens \cup {None} /\ signedIn \in Tokens \cup {None}
    /\ waiting \in Calls \cup {None}
    /\ rows \subseteq Tokens /\ hidden \subseteq Tokens /\ revoking \in Revocations \cup {None}
    /\ faults \in 0..MaxFaults

\* An answer that blames the code, the current password or the new one means that the call has
\* not changed the password, whatever it had done before it failed; and a success that it has.
AnswersTellTheTruth ==
    \A c \in Calls : Busy(c) /\ calls[c].pc = "answer" =>
       /\ calls[c].answer = "OK" => calls[c].set
       /\ calls[c].set => calls[c].answer \in {"OK", "INTERNAL_ERROR"}

\* plan.md:30 of spec 035: a refused password preserves a continuation.  What the panel was told
\* to try again with is there, although other calls use it and the code is spent, until its time
\* is up or it has served.
RejectedPasswordKeepsAWayBack ==
    notice = "PASSWORD_REJECTED" =>
       /\ continuationId # None
       /\ continuationId \in recoveryContinuations \cup over

\* The session the user now works with is not left behind in the store, where its continuation
\* could set the password once more, and it is no other device's.
SignedInSessionIsSettled ==
    signedIn # None => signedIn \notin recoveryContinuations /\ signedIn # Device

\* ProfileSessions.tsx:8, rows disappear only after confirmed writes: a row that is hidden is the
\* row of a session that has ended, although answers are lost, the device's own session may be
\* ended at any time, and recoveries go on opening sessions.
HiddenRowsHaveEnded == hidden \subseteq ended

\* However the failures fall, a user who does what the messages say gets in: no message leads
\* round in a circle.
TheUserGetsIn == <>(signedIn # None)

=============================================================================
