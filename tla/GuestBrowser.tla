---------------------------- MODULE GuestBrowser ----------------------------
(***************************************************************************)
(* The guest flow of the web app, from "save" to the saved collection      *)
(* (app/src/features/guest, components/guest, features/auth/google.ts).    *)
(* Tabs of one browser share local storage and cookies, and sign-in leads  *)
(* away from the page and back.  The API is its promise, GuestLedger; the  *)
(* server actions run between the two.                                     *)
(* A step of JavaScript on local storage is atomic.                        *)
(***************************************************************************)
EXTENDS GuestData

CONSTANTS
    Tabs,
    Drafts,         \* what a page can have picked: [wardrobe, picked]
    Empty,          \* the draft with nothing picked
    Looks,          \* the drafts evaluate() finds a look in
    NoUser, NoTransfer, NoIntent, NoTab, NoCall

ASSUME DraftsAssumption ==
    /\ Drafts \subseteq [wardrobe : Wardrobes, picked : Picks]
    /\ Looks \subseteq Drafts /\ Empty \in Drafts \ Looks

Intents == [transfer : Transfers, draft : Looks, owner : Users \cup {NoUser}]

ASSUME AbsenceAssumption ==
    /\ NoUser \notin Users /\ NoTransfer \notin Transfers /\ NoIntent \notin Intents
    /\ NoTab \notin Tabs /\ NoCall \notin Attempts /\ NoInput \notin Inputs

Held ==
    [carried : Transfers \cup {NoTransfer},  \* the transfer in the URL or the sign-in panel
     viewer : Users \cup {NoUser},           \* whom the continuation page was rendered for
     bound : Intents \cup {NoIntent},        \* what bindGuestIntent returned
     call : Attempts \cup {NoCall},          \* the API call under way
     asked : Intents \cup {NoIntent}]        \* history: the last "save", and the picks then

Nothing ==
    [carried |-> NoTransfer, viewer |-> NoUser, bound |-> NoIntent, call |-> NoCall,
     asked |-> NoIntent]

\* "ended": the dashboard, or a continuation page that cannot save this request ("empty",
\* "owner").
Pages == {"start", "asking", "popup", "auth", "google", "opening", "binding", "sending",
          "waiting", "saved", "error", "ended"}

VARIABLES
    request, progress, wardrobe, answer, shown,  \* the API, as in GuestLedger
    intent,     \* local storage: cz-guest-save-v1
    kept,       \* local storage: cz-guest-v1
    drawn,      \* the transfer identifiers drawn so far
    session,    \* cookie: the signed-in account
    guestSave,  \* cookie: the transfer to continue after Google
    exchange,   \* cookie: the tab whose Google flow the exchange code is of
    page,       \* per tab: the page and where it is
    draft,      \*   the picks in memory
    held        \*   what it carries through sign-in and saving

api == <<request, progress, wardrobe, answer, shown>>
cookies == <<session, guestSave, exchange>>
vars == <<api, intent, kept, drawn, cookies, page, draft, held>>

Api == INSTANCE GuestLedger

Init ==
    /\ Api!Init
    /\ intent = NoIntent
    /\ kept = Empty
    /\ drawn = {}
    /\ session \in Users \cup {NoUser}
    /\ guestSave = NoTransfer
    /\ exchange = NoTab
    /\ page = [t \in Tabs |-> "start"]
    /\ draft = [t \in Tabs |-> Empty]
    /\ held = [t \in Tabs |-> Nothing]

Goto(t, p) == page' = [page EXCEPT ![t] = p]

\* The request ends: nothing is carried on.
EndAt(t, p) == Goto(t, p) /\ held' = [held EXCEPT ![t] = Nothing]

-----------------------------------------------------------------------------
(* GuestFlow *)

\* The picks change; an effect stores them.  A save that waits for its answer does not stop it.
Pick(t, d) ==
    /\ page[t] \in {"start", "asking"}
    /\ draft' = [draft EXCEPT ![t] = d]
    /\ kept' = d
    /\ UNCHANGED <<api, intent, drawn, cookies, page, held>>

\* The page is opened again: loadGuestState.
Visit(t) ==
    /\ page[t] \in {"popup", "auth", "saved", "error", "ended"}
    /\ EndAt(t, "start")
    /\ draft' = [draft EXCEPT ![t] = kept]
    /\ UNCHANGED <<api, intent, kept, drawn, cookies>>

\* restart()
Restart(t) ==
    /\ page[t] \in {"start", "asking"}
    /\ intent' = NoIntent
    /\ kept' = Empty
    /\ draft' = [draft EXCEPT ![t] = Empty]
    /\ UNCHANGED <<api, drawn, cookies, page, held>>

\* Only the result step has a save button, and it needs a look.
Saveable(d) == d \in Looks

NewIntents(d) == [transfer : Transfers \ drawn, draft : {d}, owner : {NoUser}]

\* createGuestIntent: an unfinished request for the same picks is taken up again.
IntentsFor(d) == IF intent # NoIntent /\ intent.draft = d THEN {intent} ELSE NewIntents(d)

\* save(), up to the answer of guestSaveSessionAction.
Save(t) ==
    /\ page[t] = "start" /\ Saveable(draft[t])
    /\ \E i \in IntentsFor(draft[t]) :
          /\ intent' = i
          /\ drawn' = drawn \cup {i.transfer}
          /\ held' = [held EXCEPT ![t] = [Nothing EXCEPT
                !.carried = i.transfer,
                !.asked = [transfer |-> i.transfer, draft |-> draft[t], owner |-> NoUser]]]
    /\ Goto(t, "asking")
    /\ UNCHANGED <<api, kept, cookies, draft>>

\* What the guest page had in memory is gone with it.
LeaveStart(t) == draft' = [draft EXCEPT ![t] = Empty]

\* The answer: on to the continuation page, or the sign-in popup; or none.
Asked(t) ==
    /\ page[t] = "asking"
    /\ \/ session # NoUser /\ Goto(t, "opening") /\ LeaveStart(t) /\ UNCHANGED held
       \/ session = NoUser /\ Goto(t, "popup") /\ UNCHANGED <<draft, held>>
       \/ EndAt(t, "start") /\ UNCHANGED draft
    /\ UNCHANGED <<api, intent, kept, drawn, cookies>>

\* closeAuth()
CloseAuth(t) ==
    /\ page[t] = "popup"
    /\ intent' = NoIntent
    /\ EndAt(t, "start")
    /\ UNCHANGED <<api, kept, drawn, cookies, draft>>

-----------------------------------------------------------------------------
(* Signing in *)

\* With a password; redirectToDashboard() then goes on with the save, if there is one.
SignIn(t, u) ==
    /\ page[t] \in {"popup", "auth"}
    /\ session' = u
    /\ IF held[t].carried # NoTransfer
          THEN Goto(t, "opening") /\ UNCHANGED held
          ELSE EndAt(t, "ended")
    /\ LeaveStart(t)
    /\ UNCHANGED <<api, intent, kept, drawn, guestSave, exchange>>

\* Signed out, expired, or revoked on another device: the session ends under the tabs.
SessionEnds ==
    /\ session # NoUser
    /\ session' = NoUser
    /\ UNCHANGED <<api, intent, kept, drawn, guestSave, exchange, page, draft, held>>

\* startGoogleSignInAction stores both cookies; the browser leaves for the consent screen.
StartGoogle(t) ==
    /\ page[t] \in {"popup", "auth"}
    /\ guestSave' = held[t].carried
    /\ exchange' = t
    /\ Goto(t, "google") /\ LeaveStart(t)
    /\ UNCHANGED <<api, intent, kept, drawn, session, held>>

\* The callback route: it takes both cookies, and the exchange needs the code of its own flow.
\* Any other outcome, a canceled consent included, ends on the auth page.
GoogleCallback(t) ==
    /\ page[t] = "google"
    /\ guestSave' = NoTransfer /\ exchange' = NoTab
    /\ \/ /\ exchange = t /\ guestSave # NoTransfer
          /\ session' \in Users
          /\ Goto(t, "opening") /\ held' = [held EXCEPT ![t].carried = guestSave]
       \/ /\ exchange = t /\ guestSave = NoTransfer
          /\ session' \in Users
          /\ EndAt(t, "ended")
       \/ /\ Goto(t, "auth") /\ held' = [held EXCEPT ![t].carried = guestSave]
          /\ UNCHANGED session
    /\ UNCHANGED <<api, intent, kept, drawn, draft>>

-----------------------------------------------------------------------------
(* GuestSaveContinue and saveGuestProgressAction *)

\* GuestContinueRoute: rendered for the account that is signed in now.
Open(t) ==
    /\ page[t] = "opening"
    /\ held' = [held EXCEPT ![t].viewer = session]
    /\ Goto(t, IF session # NoUser THEN "binding" ELSE "auth")
    /\ UNCHANGED <<api, intent, kept, drawn, cookies, draft>>

\* Mutant: bindGuestIntent takes whatever is stored.
ExpectedAlways(t) == TRUE

\* expectedTransferId
Expected(t) == intent.transfer = held[t].carried

Foreign(t) == intent.owner \notin {NoUser, held[t].viewer}

\* bindGuestIntent throws, or binds the intent to the viewer.
Bind(t) ==
    /\ page[t] = "binding"
    /\ \/ intent = NoIntent /\ EndAt(t, "ended") /\ UNCHANGED intent
       \/ intent # NoIntent /\ ~Expected(t) /\ Goto(t, "error") /\ UNCHANGED <<intent, held>>
       \/ /\ intent # NoIntent /\ Expected(t) /\ Foreign(t)
          /\ EndAt(t, "ended") /\ UNCHANGED intent
       \/ /\ intent # NoIntent /\ Expected(t) /\ ~Foreign(t)
          /\ intent' = [intent EXCEPT !.owner = held[t].viewer]
          /\ held' = [held EXCEPT ![t].bound = intent']
          /\ Goto(t, "sending")
    /\ UNCHANGED <<api, kept, drawn, cookies, draft>>

\* save() ends with an error; the page keeps its transfer for a retry.
EndInError(t) ==
    /\ Goto(t, "error")
    /\ held' = [held EXCEPT ![t].bound = NoIntent, ![t].call = NoCall]

\* Mutant: the action trusts the account the page was rendered for.
SameOwnerAlways(t) == TRUE

\* ownerUserId is compared with the session the request comes with.
SameOwner(t) == held[t].bound.owner = session

\* The server action: refused, or the call of the API for the session's account.
Send(t) ==
    /\ page[t] = "sending"
    /\ \/ session = NoUser /\ EndInError(t) /\ UNCHANGED api
       \/ session # NoUser /\ ~SameOwner(t) /\ EndAt(t, "ended") /\ UNCHANGED api
       \/ /\ session # NoUser /\ SameOwner(t)
          /\ \E n \in Attempts :
                /\ Api!Ask(n, [transfer |-> held[t].bound.transfer, user |-> session,
                               wardrobe |-> held[t].bound.draft.wardrobe,
                               picked |-> held[t].bound.draft.picked])
                /\ held' = [held EXCEPT ![t].call = n]
          /\ Goto(t, "waiting")
    /\ UNCHANGED <<intent, kept, drawn, cookies, draft>>

\* The API at work.
Serve(n) ==
    /\ Api!Accept(n) \/ Api!Lose(n) \/ Api!ApplyLate(n) \/ Api!Refuse(n)
    /\ UNCHANGED <<intent, kept, drawn, cookies, page, draft, held>>

\* Mutant: every draft goes once something was saved.
ClearDraftAlways(t) == kept' = Empty

\* clearSavedGuestDraft: unless the stored draft is another one by now.
ClearDraft(t) == kept' = IF kept = held[t].bound.draft THEN Empty ELSE kept

\* clearGuestIntent(transferId)
ClearIntent(t) ==
    intent' = IF intent # NoIntent /\ intent.transfer = held[t].bound.transfer
                 THEN NoIntent ELSE intent

\* The action answers: storage is cleaned, as far as that works, only after a durable save.
Receive(t) ==
    /\ page[t] = "waiting"
    /\ \/ /\ answer[held[t].call] = "ok"
          /\ (ClearDraft(t) /\ ClearIntent(t)) \/ UNCHANGED <<kept, intent>>
          /\ Goto(t, "saved") /\ UNCHANGED held
       \/ /\ answer[held[t].call] = "conflict"
          /\ EndAt(t, "ended") /\ UNCHANGED <<kept, intent>>
       \/ /\ answer[held[t].call] \in {"invalid", "error"}
          /\ EndInError(t) /\ UNCHANGED <<kept, intent>>
    /\ UNCHANGED <<api, drawn, cookies, draft>>

\* Storage cannot be written, or the action is not reached.  An answer that gets lost on its way
\* to the page is Api!Lose.
Interrupted(t) ==
    /\ page[t] \in {"binding", "sending"}
    /\ EndInError(t)
    /\ UNCHANGED <<api, intent, kept, drawn, cookies, draft>>

\* The retry button of the continuation page.
Retry(t) ==
    /\ page[t] = "error"
    /\ Goto(t, "binding")
    /\ UNCHANGED <<api, intent, kept, drawn, cookies, draft, held>>

\* The continuation page is loaded again.
Reload(t) ==
    /\ page[t] = "error"
    /\ Goto(t, "opening")
    /\ held' = [held EXCEPT ![t].viewer = NoUser, ![t].bound = NoIntent, ![t].call = NoCall]
    /\ UNCHANGED <<api, intent, kept, drawn, cookies, draft>>

TabStep(t) ==
    \/ Visit(t) \/ Restart(t) \/ Save(t) \/ Asked(t) \/ CloseAuth(t)
    \/ StartGoogle(t) \/ GoogleCallback(t)
    \/ Open(t) \/ Bind(t) \/ Send(t) \/ Receive(t) \/ Interrupted(t) \/ Retry(t)
    \/ Reload(t)

Next ==
    \/ \E t \in Tabs : TabStep(t)
    \/ \E t \in Tabs : \E d \in Drafts : Pick(t, d)
    \/ \E t \in Tabs : \E u \in Users : SignIn(t, u)
    \/ SessionEnds
    \/ \E n \in Attempts : Serve(n)

Spec == Init /\ [][Next]_vars

-----------------------------------------------------------------------------

TypeOK ==
    /\ intent \in Intents \cup {NoIntent}
    /\ kept \in Drafts
    /\ drawn \subseteq Transfers
    /\ session \in Users \cup {NoUser}
    /\ guestSave \in Transfers \cup {NoTransfer}
    /\ exchange \in Tabs \cup {NoTab}
    /\ page \in [Tabs -> Pages]
    /\ draft \in [Tabs -> Drafts]
    /\ held \in [Tabs -> Held]

Shows(t, d) == shown[held[t].call].wardrobe = d.wardrobe /\ shown[held[t].call].picked = d.picked

\* What a tab shows as saved is in the account its continuation page was rendered for, and is
\* what was picked when "save" was pressed for this request, whatever other tabs did to the
\* shared storage meanwhile.
SavedIsWhatWasAsked ==
    \A t \in Tabs : page[t] = "saved" =>
        /\ shown[held[t].call].user = held[t].viewer
        /\ held[t].carried = held[t].asked.transfer => Shows(t, held[t].asked.draft)

\* "A completed transfer is not replayed into another account", nor an unfinished one: a
\* request that was bound to an account is stored for that account or not at all.
BoundToOneAccount ==
    \A row \in progress : intent # NoIntent /\ intent.transfer = row.transfer =>
        intent.owner = row.user

\* "storage failure/auth failure/network loss do not clear choices": a stored draft goes only
\* when the user empties it on the guest page, or it was saved.
DraftSurvives ==
    [][kept # Empty /\ kept' = Empty =>
          \/ \E t \in Tabs : page[t] \in {"start", "asking"} /\ draft'[t] = Empty
          \/ \E row \in progress : row.wardrobe = kept.wardrobe /\ row.picked = kept.picked]_vars

\* "Transfer ID stays bound across auth; another tab cannot silently replace the request": the
\* tab that asked for a save is not shown another tab's picks as the saved ones.
AnotherTabCannotReplace ==
    \A t \in Tabs : page[t] = "saved" => Shows(t, held[t].asked.draft)
==============================================================================
