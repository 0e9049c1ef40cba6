-------------------------- MODULE GuestBrowserProofs --------------------------
(***************************************************************************)
(* The safety of GuestBrowser for any number of tabs, accounts, transfers, *)
(* calls and drafts.  A transfer is drawn once, with one draft; once a tab *)
(* has bound it to an account, or has asked the API to store it, whatever  *)
(* the storage still holds of it is bound to that account.                 *)
(***************************************************************************)
EXTENDS GuestBrowser, TLAPS

\* The API: at most one row for each transfer, as it was asked for by the call that stored it; a
\* call that was accepted was shown a row of what it had asked for.
ApiOK ==
    /\ request \in [Attempts -> Inputs \cup {NoInput}] /\ answer \in [Attempts -> Answers]
    /\ shown \in [Attempts -> Rows \cup {NoRow}] /\ progress \subseteq Rows
    /\ \A n \in Attempts : request[n] # NoInput => request[n].transfer \in drawn
    /\ \A p, q \in progress : p.transfer = q.transfer => p = q
    /\ \A p \in progress : \E n \in Attempts : request[n] # NoInput /\ p = NewRow(n, request[n])
    /\ \A n \in Attempts : answer[n] = "ok" =>
          request[n] # NoInput /\ shown[n] \in progress /\ SameSelection(shown[n], request[n])

\* What a tab on page p holds.
Fits(p, h) ==
    /\ p \notin {"start", "ended"} => h.asked # NoIntent
    /\ p \in {"binding", "sending", "waiting", "saved", "error"} => h.viewer \in Users
    /\ p \in {"sending", "waiting", "saved"} =>
          h.bound # NoIntent /\ h.bound.owner = h.viewer /\ h.bound.transfer = h.carried
    /\ p \in {"waiting", "saved"} =>
          /\ h.call \in Attempts
          /\ request[h.call] = [transfer |-> h.bound.transfer, user |-> h.viewer,
                                wardrobe |-> h.bound.draft.wardrobe, picked |-> h.bound.draft.picked]
    /\ p = "saved" => answer[h.call] = "ok"
    /\ h.bound # NoIntent => h.bound.transfer \in drawn /\ h.bound.owner \in Users
    /\ h.asked # NoIntent => h.asked.transfer \in drawn

TabsOK == \A t \in Tabs : Fits(page[t], held[t])

\* The requests that are about: stored, bound, asked for.
About == ({intent} \cup {held[t].bound : t \in Tabs} \cup {held[t].asked : t \in Tabs}) \ {NoIntent}

\* A transfer has one draft.
DraftsOK == \A a, b \in About : a.transfer = b.transfer => a.draft = b.draft

\* The stored request is of the account of whoever has bound it or asked for it.
IntentOK == intent # NoIntent =>
    /\ intent.transfer \in drawn
    /\ \A n \in Attempts : request[n] # NoInput /\ request[n].transfer = intent.transfer =>
           intent.owner = request[n].user
    /\ \A t \in Tabs : held[t].bound # NoIntent /\ held[t].bound.transfer = intent.transfer =>
           intent.owner = held[t].bound.owner

IInv == TypeOK /\ ApiOK /\ TabsOK /\ DraftsOK /\ IntentOK

USE DraftsAssumption, AbsenceAssumption

\* Nothing is picked, stored or asked.
LEMMA InitIInv == Init => IInv
<1> SUFFICES ASSUME Init
             PROVE  IInv
  OBVIOUS
<1>1. TypeOK
  <2>1. Nothing \in Held
    BY DEF Nothing, Held
  <2> QED
    BY <2>1 DEF Init, TypeOK, Pages
<1>2. ApiOK
  BY DEF Init, Api!Init, ApiOK, Answers
<1>3. TabsOK
  BY DEF Init, TabsOK, Fits, Nothing
<1>4. About = {}
  BY DEF Init, About, Nothing
<1> QED
  BY <1>1, <1>2, <1>3, <1>4 DEF IInv, DraftsOK, IntentOK, Init

\* A tab goes to another page and carries on what it held, or less; storage keeps its request or
\* loses it.
LEMMA TabMoves ==
    ASSUME IInv, NEW t \in Tabs, NEW p, NEW h \in Held, Fits(p, h),
           page' = [page EXCEPT ![t] = p], held' = [held EXCEPT ![t] = h],
           h.bound \in {held[t].bound, NoIntent}, h.asked \in {held[t].asked, NoIntent},
           intent' \in {intent, NoIntent}, UNCHANGED <<api, drawn>>, TypeOK'
    PROVE  IInv'
<1>1. /\ page'[t] = p /\ held'[t] = h
      /\ \A u \in Tabs \ {t} : page'[u] = page[u] /\ held'[u] = held[u]
      /\ UNCHANGED <<request, progress, answer, shown, drawn>>
  BY DEF IInv, TypeOK, api
<1>2. ApiOK'
  BY <1>1 DEF IInv, ApiOK
<1>3. TabsOK'
  <2>1. ASSUME NEW u \in Tabs
        PROVE  Fits(page[u], held[u])'
    <3>1. CASE u = t
      BY <1>1, <3>1 DEF Fits
    <3>2. CASE u # t
      <4>1. Fits(page[u], held[u])
        BY DEF IInv, TabsOK
      <4> QED
        BY <1>1, <3>2, <4>1 DEF Fits
    <3> QED
      BY <3>1, <3>2
  <2> QED
    BY <2>1 DEF TabsOK
<1>4. About' \subseteq About
  <2>1. \A u \in Tabs : /\ held'[u].bound \in {held[u].bound, NoIntent}
                        /\ held'[u].asked \in {held[u].asked, NoIntent}
    BY <1>1
  <2> QED
    BY <2>1 DEF About
<1>5. DraftsOK'
  BY <1>4 DEF IInv, DraftsOK
<1>6. IntentOK'
  <2>1. \A u \in Tabs : held'[u].bound \in {held[u].bound, NoIntent}
    BY <1>1
  <2> QED
    BY <1>1, <2>1 DEF IInv, IntentOK
<1> QED
  BY <1>2, <1>3, <1>5, <1>6 DEF IInv

\* Nothing but drafts, cookies and, perhaps, the stored request changes.
LEMMA TabStays ==
    ASSUME IInv, UNCHANGED <<api, drawn, page, held>>, intent' \in {intent, NoIntent}, TypeOK'
    PROVE  IInv'
<1>1. UNCHANGED <<request, progress, answer, shown, drawn, page, held>>
  BY DEF api
<1>2. ApiOK' /\ TabsOK'
  BY <1>1 DEF IInv, ApiOK, TabsOK, Fits
<1>3. About' \subseteq About
  BY <1>1 DEF About
<1>4. DraftsOK' /\ IntentOK'
  BY <1>1, <1>3 DEF IInv, DraftsOK, IntentOK
<1> QED
  BY <1>2, <1>4 DEF IInv

\* The intents a "save" may store.
LEMMA IntentsForTypes ==
    ASSUME TypeOK, NEW t \in Tabs, Saveable(draft[t]), NEW i \in IntentsFor(draft[t])
    PROVE  /\ i \in Intents /\ i.draft = draft[t] /\ (i = intent \/ i.transfer \notin drawn)
           /\ draft[t] \in Looks
<1>1. draft[t] \in Looks
  BY DEF Saveable
<1>2. CASE intent # NoIntent /\ intent.draft = draft[t] /\ i = intent
  BY <1>1, <1>2 DEF TypeOK
<1>3. CASE i \in NewIntents(draft[t])
  BY <1>1, <1>3 DEF NewIntents, Intents
<1> QED
  BY <1>1, <1>2, <1>3 DEF IntentsFor

\* A tab takes on one thing more, or drops the call under way.
LEMMA HeldUpdates ==
    ASSUME TypeOK, NEW t \in Tabs,
           \/ \E x \in Transfers \cup {NoTransfer} : held' = [held EXCEPT ![t].carried = x]
           \/ \E i \in Intents \cup {NoIntent} : held' = [held EXCEPT ![t].bound = i]
           \/ \E n \in Attempts : held' = [held EXCEPT ![t].call = n]
           \/ held' = [held EXCEPT ![t].bound = NoIntent, ![t].call = NoCall]
           \/ held' = [held EXCEPT ![t].viewer = NoUser, ![t].bound = NoIntent, ![t].call = NoCall]
           \/ held' = [held EXCEPT ![t] = Nothing]
           \/ held' = held
    PROVE  held' \in [Tabs -> Held]
<1>1. held \in [Tabs -> Held] /\ held[t] \in Held
  BY DEF TypeOK
<1>2. ASSUME NEW x \in Transfers \cup {NoTransfer}, held' = [held EXCEPT ![t].carried = x]
      PROVE  held' \in [Tabs -> Held]
  BY <1>1, <1>2 DEF Held
<1>3. ASSUME NEW i \in Intents \cup {NoIntent}, held' = [held EXCEPT ![t].bound = i]
      PROVE  held' \in [Tabs -> Held]
  BY <1>1, <1>3 DEF Held
<1>4. ASSUME NEW n \in Attempts, held' = [held EXCEPT ![t].call = n]
      PROVE  held' \in [Tabs -> Held]
  BY <1>1, <1>4 DEF Held
<1>5. CASE held' = [held EXCEPT ![t].bound = NoIntent, ![t].call = NoCall]
  BY <1>1, <1>5 DEF Held
<1>6. CASE held' = [held EXCEPT ![t].viewer = NoUser, ![t].bound = NoIntent, ![t].call = NoCall]
  BY <1>1, <1>6 DEF Held
<1>7. CASE held' = [held EXCEPT ![t] = Nothing]
  BY <1>1, <1>7 DEF Held, Nothing
<1> QED
  BY <1>1, <1>2, <1>3, <1>4, <1>5, <1>6, <1>7

\* Every step keeps the types.
LEMMA NextTypeOK == TypeOK /\ [Next]_vars => TypeOK'
<1> SUFFICES ASSUME TypeOK, [Next]_vars
             PROVE  TypeOK'
  OBVIOUS
<1> USE DEF Goto, EndAt, LeaveStart, cookies
<1>0. Nothing \in Held /\ Empty \in Drafts
  BY DEF Nothing, Held
<1>1. CASE UNCHANGED <<intent, kept, drawn, cookies, page, draft, held>>
  BY <1>1 DEF TypeOK
<1>2. ASSUME NEW t \in Tabs, NEW d \in Drafts, Pick(t, d)
      PROVE  TypeOK'
  BY <1>2 DEF TypeOK, Pick
<1>3. ASSUME NEW t \in Tabs, Visit(t)
      PROVE  TypeOK'
  BY <1>0, <1>3 DEF TypeOK, Visit, Pages
<1>4. ASSUME NEW t \in Tabs, Restart(t)
      PROVE  TypeOK'
  BY <1>0, <1>4 DEF TypeOK, Restart
<1>5. ASSUME NEW t \in Tabs, Save(t)
      PROVE  TypeOK'
  <2>1. PICK i \in IntentsFor(draft[t]) :
           /\ intent' = i
           /\ drawn' = drawn \cup {i.transfer}
           /\ held' = [held EXCEPT ![t] = [Nothing EXCEPT
                 !.carried = i.transfer,
                 !.asked = [transfer |-> i.transfer, draft |-> draft[t], owner |-> NoUser]]]
    BY <1>5 DEF Save
  <2>2. i \in Intents /\ draft[t] \in Looks
    <3>1. Saveable(draft[t]) /\ t \in Tabs
      BY <1>5 DEF Save
    <3>2. i \in IntentsFor(draft[t])
      BY <2>1
    <3> QED
      BY <3>1, <3>2, IntentsForTypes
  <2>3. /\ i.transfer \in Transfers
        /\ [transfer |-> i.transfer, draft |-> draft[t], owner |-> NoUser] \in Intents
    BY <2>2 DEF Intents
  <2>4. [Nothing EXCEPT !.carried = i.transfer,
            !.asked = [transfer |-> i.transfer, draft |-> draft[t], owner |-> NoUser]] \in Held
    BY <2>3 DEF Nothing, Held
  <2> QED
    BY <1>5, <2>1, <2>2, <2>3, <2>4 DEF TypeOK, Save, Pages
<1>6. ASSUME NEW t \in Tabs, Asked(t) \/ CloseAuth(t)
      PROVE  TypeOK'
  BY <1>0, <1>6 DEF TypeOK, Asked, CloseAuth, Pages
<1>7. ASSUME NEW t \in Tabs, NEW u \in Users, SignIn(t, u)
      PROVE  TypeOK'
  BY <1>0, <1>7 DEF TypeOK, SignIn, Pages
<1>8. CASE SessionEnds
  BY <1>8 DEF TypeOK, SessionEnds
<1>9. ASSUME NEW t \in Tabs, StartGoogle(t)
      PROVE  TypeOK'
  BY <1>0, <1>9 DEF TypeOK, StartGoogle, Pages, Held
<1>10. ASSUME NEW t \in Tabs, GoogleCallback(t)
       PROVE  TypeOK'
  <2>0. \/ held' = [held EXCEPT ![t] = Nothing]
        \/ held' = [held EXCEPT ![t].carried = guestSave]
    BY <1>10 DEF GoogleCallback
  <2>1. held' \in [Tabs -> Held]
    BY <1>10, <2>0, HeldUpdates DEF TypeOK
  <2> QED
    BY <1>0, <1>10, <2>1 DEF TypeOK, GoogleCallback, Pages
<1>11. ASSUME NEW t \in Tabs, Open(t)
       PROVE  TypeOK'
  <2>1. held' \in [Tabs -> Held]
    <3>1. session \in Users \cup {NoUser} /\ held' = [held EXCEPT ![t].viewer = session]
      BY <1>11 DEF TypeOK, Open
    <3> QED
      BY <1>11, <3>1 DEF TypeOK, Held
  <2> QED
    BY <1>11, <2>1 DEF TypeOK, Open, Pages
<1>12. ASSUME NEW t \in Tabs, Bind(t)
       PROVE  TypeOK'
  <2>1. held[t] \in Held /\ intent' \in Intents \cup {NoIntent}
    BY <1>12 DEF TypeOK, Bind, Held, Intents
  <2>0. \/ held' = [held EXCEPT ![t] = Nothing]
        \/ held' = held
        \/ held' = [held EXCEPT ![t].bound = intent']
    BY <1>12 DEF Bind
  <2>2. held' \in [Tabs -> Held]
    BY <1>12, <2>0, <2>1, HeldUpdates DEF TypeOK
  <2> QED
    BY <1>12, <2>1, <2>2 DEF TypeOK, Bind, Pages
<1>13. ASSUME NEW t \in Tabs, Send(t)
       PROVE  TypeOK'
  <2>0. \/ held' = [held EXCEPT ![t] = Nothing]
        \/ held' = [held EXCEPT ![t].bound = NoIntent, ![t].call = NoCall]
        \/ \E n \in Attempts : held' = [held EXCEPT ![t].call = n]
    BY <1>13 DEF Send, EndInError
  <2>1. held' \in [Tabs -> Held]
    BY <1>13, <2>0, HeldUpdates
  <2> QED
    BY <1>13, <2>1 DEF TypeOK, Send, EndInError, Pages
<1>14. ASSUME NEW t \in Tabs, Receive(t)
       PROVE  TypeOK'
  <2>0. \/ held' = [held EXCEPT ![t] = Nothing]
        \/ held' = [held EXCEPT ![t].bound = NoIntent, ![t].call = NoCall]
        \/ held' = held
    BY <1>14 DEF Receive, EndInError
  <2>1. held' \in [Tabs -> Held]
    BY <1>14, <2>0, HeldUpdates DEF TypeOK
  <2> QED
    BY <1>0, <1>14, <2>1 DEF TypeOK, Receive, EndInError, ClearDraft, ClearIntent, Pages
<1>15. ASSUME NEW t \in Tabs, Interrupted(t) \/ Reload(t)
       PROVE  TypeOK'
  <2>0. \/ held' = [held EXCEPT ![t].bound = NoIntent, ![t].call = NoCall]
        \/ held' = [held EXCEPT ![t].viewer = NoUser, ![t].bound = NoIntent, ![t].call = NoCall]
    BY <1>15 DEF Interrupted, Reload, EndInError
  <2>1. held' \in [Tabs -> Held]
    BY <1>15, <2>0, HeldUpdates
  <2> QED
    BY <1>15, <2>1 DEF TypeOK, Interrupted, Reload, EndInError, Pages
<1>16. ASSUME NEW t \in Tabs, Retry(t)
       PROVE  TypeOK'
  BY <1>16 DEF TypeOK, Retry, Pages
<1> QED
  BY <1>1, <1>2, <1>3, <1>4, <1>5, <1>6, <1>7, <1>8, <1>9, <1>10, <1>11, <1>12, <1>13, <1>14,
     <1>15, <1>16 DEF Next, TabStep, Serve, vars

\* A save that fails keeps the transfer and the account, and nothing else.
LEMMA EndInErrorIInv ==
    ASSUME IInv, TypeOK', NEW t \in Tabs, page[t] \in {"binding", "sending", "waiting"},
           EndInError(t), UNCHANGED <<api, drawn, intent>>
    PROVE  IInv'
<1> DEFINE h == [held[t] EXCEPT !.bound = NoIntent, !.call = NoCall]
<1>1. held[t] \in Held /\ Fits(page[t], held[t])
  BY DEF IInv, TypeOK, TabsOK
<1>2. h \in Held /\ h.asked = held[t].asked /\ h.bound = NoIntent /\ h.viewer = held[t].viewer
  BY <1>1 DEF Held
<1>3. held' = [held EXCEPT ![t] = h] /\ page' = [page EXCEPT ![t] = "error"]
  <2>1. held' = [held EXCEPT ![t].bound = NoIntent, ![t].call = NoCall]
    BY DEF EndInError
  <2> QED
    BY <1>1, <2>1 DEF IInv, TypeOK, EndInError, Goto
<1>4. Fits("error", h)
  BY <1>1, <1>2 DEF Fits
<1> HIDE DEF h
<1> QED
  BY <1>2, <1>3, <1>4, TabMoves

\* A tab changes its page, or drops what it held: every step of the guest page and of signing in
\* but "save" itself, the opening of the continuation page and every way its save can fail.
LEMMA MoveIInv ==
    ASSUME IInv, TypeOK', NEW t \in Tabs,
           \/ \E d \in Drafts : Pick(t, d)
           \/ Visit(t) \/ Restart(t) \/ Asked(t) \/ CloseAuth(t)
           \/ (\E u \in Users : SignIn(t, u)) \/ StartGoogle(t) \/ GoogleCallback(t)
           \/ Open(t) \/ Interrupted(t) \/ Retry(t) \/ Reload(t)
    PROVE  IInv'
<1>0. /\ t \in Tabs /\ held[t] \in Held /\ Fits(page[t], held[t]) /\ Nothing \in Held
      /\ page[t] \in Pages /\ held = [held EXCEPT ![t] = held[t]]
      /\ page = [page EXCEPT ![t] = page[t]]
  BY DEF IInv, TypeOK, TabsOK, Nothing, Held
<1>1. Fits("start", Nothing) /\ Fits("ended", Nothing)
  BY DEF Fits, Nothing
<1>2. CASE (\E d \in Drafts : Pick(t, d)) \/ Restart(t)
  BY <1>2, TabStays DEF Pick, Restart, cookies
<1>3. CASE Visit(t) \/ CloseAuth(t)
  <2>1. /\ page' = [page EXCEPT ![t] = "start"] /\ held' = [held EXCEPT ![t] = Nothing]
        /\ intent' \in {intent, NoIntent} /\ UNCHANGED <<api, drawn>>
    BY <1>3 DEF Visit, CloseAuth, EndAt, Goto
  <2> QED
    BY <1>0, <1>1, <2>1, TabMoves DEF Nothing
<1>4. CASE Asked(t)
  <2>1. UNCHANGED <<api, drawn, intent>> /\ page[t] = "asking"
    BY <1>4 DEF Asked
  <2>2. CASE EndAt(t, "start")
    BY <1>0, <1>1, <2>1, <2>2, TabMoves DEF EndAt, Goto, Nothing
  <2>3. ASSUME NEW p \in {"opening", "popup"}, Goto(t, p), UNCHANGED held
        PROVE  IInv'
    <3>1. Fits(p, held[t])
      BY <1>0, <2>1, <2>3 DEF Fits
    <3> QED
      BY <1>0, <2>1, <2>3, <3>1, TabMoves DEF Goto
  <2> QED
    BY <1>4, <2>2, <2>3 DEF Asked
<1>5. CASE \E u \in Users : SignIn(t, u)
  <2>1. UNCHANGED <<api, drawn, intent>> /\ page[t] \in {"popup", "auth"}
    BY <1>5 DEF SignIn
  <2>2. CASE EndAt(t, "ended")
    BY <1>0, <1>1, <2>1, <2>2, TabMoves DEF EndAt, Goto, Nothing
  <2>3. CASE Goto(t, "opening") /\ UNCHANGED held
    <3>1. Fits("opening", held[t])
      BY <1>0, <2>1 DEF Fits
    <3> QED
      BY <1>0, <2>1, <2>3, <3>1, TabMoves DEF Goto
  <2> QED
    BY <1>5, <2>2, <2>3 DEF SignIn
<1>6. CASE StartGoogle(t)
  <2>1. Fits("google", held[t])
    BY <1>0, <1>6 DEF Fits, StartGoogle
  <2> QED
    BY <1>0, <1>6, <2>1, TabMoves DEF StartGoogle, Goto
<1>7. CASE GoogleCallback(t)
  <2>1. UNCHANGED <<api, drawn, intent>> /\ page[t] = "google"
    BY <1>7 DEF GoogleCallback
  <2>2. CASE EndAt(t, "ended")
    BY <1>0, <1>1, <2>1, <2>2, TabMoves DEF EndAt, Goto, Nothing
  <2>3. ASSUME NEW p \in {"opening", "auth"}, Goto(t, p), held' = [held EXCEPT ![t].carried = guestSave]
        PROVE  IInv'
    <3> DEFINE h == [held[t] EXCEPT !.carried = guestSave]
    <3>1. h \in Held
      BY <1>0 DEF IInv, TypeOK, Held
    <3>2. /\ h.asked = held[t].asked /\ h.bound = held[t].bound
          /\ held' = [held EXCEPT ![t] = h] /\ page' = [page EXCEPT ![t] = p]
      BY <1>0, <2>3 DEF Held, Goto
    <3>3. Fits(p, h)
      BY <1>0, <2>1, <2>3, <3>2 DEF Fits
    <3> HIDE DEF h
    <3> QED
      BY <1>0, <2>1, <3>1, <3>2, <3>3, TabMoves
  <2> QED
    BY <1>7, <2>2, <2>3 DEF GoogleCallback
<1>8. CASE Open(t)
  <2>1. UNCHANGED <<api, drawn, intent>> /\ page[t] = "opening"
    BY <1>8 DEF Open
  <2> DEFINE h == [held[t] EXCEPT !.viewer = session]
             p == IF session # NoUser THEN "binding" ELSE "auth"
  <2>2. h \in Held
    BY <1>0 DEF IInv, TypeOK, Held
  <2>3. /\ h.asked = held[t].asked /\ h.bound = held[t].bound /\ h.viewer = session
        /\ held' = [held EXCEPT ![t] = h] /\ page' = [page EXCEPT ![t] = p]
    BY <1>0, <1>8 DEF Held, Goto, Open
  <2>4. Fits(p, h)
    BY <1>0, <2>1, <2>3 DEF Fits, IInv, TypeOK
  <2> HIDE DEF h, p
  <2> QED
    BY <1>0, <2>1, <2>2, <2>3, <2>4, TabMoves
<1>9. CASE Interrupted(t)
  BY <1>9, EndInErrorIInv DEF Interrupted
<1>10. CASE Retry(t)
  <2>1. UNCHANGED <<api, drawn, intent, held>> /\ page[t] = "error"
    BY <1>10 DEF Retry
  <2>2. Fits("binding", held[t])
    BY <1>0, <2>1 DEF Fits
  <2> QED
    BY <1>0, <1>10, <2>1, <2>2, TabMoves DEF Retry, Goto
<1>11. CASE Reload(t)
  <2>1. UNCHANGED <<api, drawn, intent>> /\ page[t] = "error"
    BY <1>11 DEF Reload
  <2> DEFINE h == [held[t] EXCEPT !.viewer = NoUser, !.bound = NoIntent, !.call = NoCall]
  <2>2. h \in Held
    BY <1>0 DEF Held
  <2>3. /\ h.asked = held[t].asked /\ h.bound = NoIntent
        /\ held' = [held EXCEPT ![t] = h] /\ page' = [page EXCEPT ![t] = "opening"]
    <3>1. h.asked = held[t].asked /\ h.bound = NoIntent
      BY <1>0 DEF Held
    <3>2. held' = [held EXCEPT ![t].viewer = NoUser, ![t].bound = NoIntent, ![t].call = NoCall]
      BY <1>11 DEF Reload
    <3>3. held' = [held EXCEPT ![t] = h]
      BY <1>0, <3>2 DEF IInv, TypeOK
    <3> QED
      BY <1>11, <3>1, <3>3 DEF Reload, Goto
  <2>4. Fits("opening", h)
    BY <1>0, <2>1, <2>3 DEF Fits
  <2> HIDE DEF h
  <2> QED
    BY <1>0, <2>1, <2>2, <2>3, <2>4, TabMoves
<1> QED
  BY <1>2, <1>3, <1>4, <1>5, <1>6, <1>7, <1>8, <1>9, <1>10, <1>11

\* A "save" stores a request for what is picked: the one that is there, or one with a transfer
\* that nobody has drawn.
LEMMA SaveIInv ==
    ASSUME IInv, TypeOK', NEW t \in Tabs, Save(t)
    PROVE  IInv'
<1>1. PICK i \in IntentsFor(draft[t]) :
         /\ intent' = i
         /\ drawn' = drawn \cup {i.transfer}
         /\ held' = [held EXCEPT ![t] = [Nothing EXCEPT
               !.carried = i.transfer,
               !.asked = [transfer |-> i.transfer, draft |-> draft[t], owner |-> NoUser]]]
  BY DEF Save
<1> DEFINE asked == [transfer |-> i.transfer, draft |-> draft[t], owner |-> NoUser]
           h == [Nothing EXCEPT !.carried = i.transfer, !.asked = asked]
<1>2. /\ i \in Intents /\ i.draft = draft[t] /\ i # NoIntent
      /\ i = intent \/ i.transfer \notin drawn
  BY IntentsForTypes DEF IInv, Save
<1>3. /\ asked.transfer = i.transfer /\ asked.draft = i.draft /\ asked \in Intents
  BY <1>2 DEF Intents
<1>4. h.asked = asked /\ h.bound = NoIntent
  BY DEF Nothing
<1>5. /\ page'[t] = "asking" /\ held'[t] = h
      /\ \A u \in Tabs \ {t} : page'[u] = page[u] /\ held'[u] = held[u]
      /\ UNCHANGED <<request, progress, answer, shown>>
  BY <1>1 DEF IInv, TypeOK, Save, Goto, api
<1> HIDE DEF h, asked
<1>6. ApiOK'
  BY <1>1, <1>5 DEF IInv, ApiOK
<1>7. TabsOK'
  <2>1. ASSUME NEW u \in Tabs
        PROVE  Fits(page[u], held[u])'
    <3>1. CASE u = t
      <4>1. h.asked # NoIntent /\ h.asked.transfer \in drawn' /\ h.bound = NoIntent
        BY <1>1, <1>3, <1>4
      <4> QED
        BY <1>5, <3>1, <4>1 DEF Fits
    <3>2. CASE u # t
      <4>1. Fits(page[u], held[u])
        BY DEF IInv, TabsOK
      <4> QED
        BY <1>1, <1>5, <3>2, <4>1 DEF Fits
    <3> QED
      BY <3>1, <3>2
  <2> QED
    BY <2>1 DEF TabsOK
<1>8. \A a \in About : a.transfer \in drawn
  BY DEF About, IInv, IntentOK, TabsOK, Fits
<1>9. About' \subseteq About \cup {i, asked}
  BY <1>1, <1>4, <1>5 DEF About
<1>10. \A a \in About : a.transfer = i.transfer => a.draft = i.draft
  BY <1>2, <1>8 DEF IInv, DraftsOK, About
<1>11. DraftsOK'
  BY <1>3, <1>9, <1>10 DEF IInv, DraftsOK
<1>12. IntentOK'
  <2>1. \A n \in Attempts : request[n] # NoInput => request[n].transfer \in drawn
    BY DEF IInv, ApiOK
  <2>2. \A u \in Tabs : held'[u].bound \in {held[u].bound, NoIntent}
    BY <1>4, <1>5
  <2>3. \A u \in Tabs : held[u].bound # NoIntent => held[u].bound.transfer \in drawn
    BY DEF IInv, TabsOK, Fits
  <2>4. CASE i = intent
    BY <1>1, <1>2, <1>5, <2>2, <2>4 DEF IInv, IntentOK
  <2>5. CASE i.transfer \notin drawn
    BY <1>1, <1>5, <2>1, <2>2, <2>3, <2>5 DEF IntentOK
  <2> QED
    BY <1>2, <2>4, <2>5
<1> QED
  BY <1>6, <1>7, <1>11, <1>12 DEF IInv

\* The stored request is bound to the viewer, unless it is somebody else's or another one.
LEMMA BindIInv ==
    ASSUME IInv, TypeOK', NEW t \in Tabs, Bind(t)
    PROVE  IInv'
<1>1. /\ held[t] \in Held /\ Fits("binding", held[t]) /\ page[t] = "binding" /\ Nothing \in Held
      /\ UNCHANGED <<api, drawn>> /\ held = [held EXCEPT ![t] = held[t]]
  BY DEF IInv, TypeOK, TabsOK, Bind, Nothing, Held
<1>2. CASE EndAt(t, "ended") /\ UNCHANGED intent
  <2>1. Fits("ended", Nothing)
    BY DEF Fits, Nothing
  <2> QED
    BY <1>1, <1>2, <2>1, TabMoves DEF EndAt, Goto, Nothing
<1>3. CASE Goto(t, "error") /\ UNCHANGED <<intent, held>>
  <2>1. Fits("error", held[t])
    BY <1>1 DEF Fits
  <2> QED
    BY <1>1, <1>3, <2>1, TabMoves DEF Goto
<1>4. CASE /\ intent # NoIntent /\ Expected(t) /\ ~Foreign(t)
           /\ intent' = [intent EXCEPT !.owner = held[t].viewer]
           /\ held' = [held EXCEPT ![t].bound = intent']
           /\ Goto(t, "sending")
  <2> DEFINE h == [held[t] EXCEPT !.bound = intent']
  <2>1. /\ intent \in Intents /\ held[t].viewer \in Users
        /\ intent.transfer = held[t].carried /\ intent.owner \in {NoUser, held[t].viewer}
    BY <1>1, <1>4 DEF IInv, TypeOK, Fits, Expected, Foreign
  <2>2. /\ intent' \in Intents /\ intent' # NoIntent
        /\ intent'.transfer = intent.transfer /\ intent'.draft = intent.draft
        /\ intent'.owner = held[t].viewer
    BY <1>4, <2>1 DEF Intents
  <2>3. /\ h.bound = intent' /\ h.asked = held[t].asked /\ h.viewer = held[t].viewer
        /\ h.carried = held[t].carried
    BY <1>1 DEF Held
  <2>4. /\ page'[t] = "sending" /\ held'[t] = h
        /\ \A u \in Tabs \ {t} : page'[u] = page[u] /\ held'[u] = held[u]
        /\ UNCHANGED <<request, progress, answer, shown>>
    BY <1>1, <1>4 DEF IInv, TypeOK, Goto, api
  <2> HIDE DEF h
  <2>5. ApiOK'
    BY <1>1, <2>4 DEF IInv, ApiOK
  <2>6. intent.transfer \in drawn
    BY <1>4 DEF IInv, IntentOK
  <2>7. TabsOK'
    <3>1. ASSUME NEW u \in Tabs
          PROVE  Fits(page[u], held[u])'
      <4>1. CASE u = t
        BY <1>1, <2>1, <2>2, <2>3, <2>4, <2>6, <4>1 DEF Fits
      <4>2. CASE u # t
        <5>1. Fits(page[u], held[u])
          BY DEF IInv, TabsOK
        <5> QED
          BY <1>1, <2>4, <4>2, <5>1 DEF Fits
      <4> QED
        BY <4>1, <4>2
    <3> QED
      BY <3>1 DEF TabsOK
  <2>8. About' \subseteq About \cup {intent'}
    BY <2>3, <2>4 DEF About
  <2>9. \A a \in About : a.transfer = intent.transfer => a.draft = intent.draft
    BY <1>4 DEF IInv, DraftsOK, About
  <2>10. DraftsOK'
    BY <2>2, <2>8, <2>9 DEF IInv, DraftsOK
  <2>11. IntentOK'
    <3>1. \A n \in Attempts : request[n] # NoInput => request[n].user \in Users
      BY DEF IInv, ApiOK, Inputs
    <3>2. \A u \in Tabs : held[u].bound # NoIntent => held[u].bound.owner \in Users
      BY DEF IInv, TabsOK, Fits
    <3>3. \A n \in Attempts : request[n] # NoInput /\ request[n].transfer = intent.transfer =>
             intent.owner = request[n].user
      BY <1>4 DEF IInv, IntentOK
    <3>4. \A u \in Tabs : held[u].bound # NoIntent /\ held[u].bound.transfer = intent.transfer =>
             intent.owner = held[u].bound.owner
      BY <1>4 DEF IInv, IntentOK
    <3>5. \A n \in Attempts : request[n] # NoInput /\ request[n].transfer = intent.transfer =>
             held[t].viewer = request[n].user
      BY <2>1, <3>1, <3>3
    <3>6. \A u \in Tabs : held[u].bound # NoIntent /\ held[u].bound.transfer = intent.transfer =>
             held[t].viewer = held[u].bound.owner
      BY <2>1, <3>2, <3>4
    <3> QED
      BY <1>1, <2>2, <2>3, <2>4, <2>6, <3>5, <3>6 DEF IntentOK
  <2> QED
    BY <2>5, <2>7, <2>10, <2>11 DEF IInv
<1> QED
  BY <1>2, <1>3, <1>4 DEF Bind

\* A call that is waited for, or whose outcome is shown, was made.
LEMMA AwaitedIsAsked ==
    ASSUME IInv, NEW t \in Tabs, page[t] \in {"waiting", "saved"}
    PROVE  request[held[t].call] \in Inputs /\ request[held[t].call] # NoInput
<1>1. /\ held[t].bound \in Intents /\ held[t].viewer \in Users
      /\ request[held[t].call] =
            [transfer |-> held[t].bound.transfer, user |-> held[t].viewer,
             wardrobe |-> held[t].bound.draft.wardrobe, picked |-> held[t].bound.draft.picked]
  BY DEF IInv, TypeOK, TabsOK, Fits, Held
<1> QED
  BY <1>1 DEF Intents, Inputs

\* The call is made for the account of the session, which is the one the request is bound to.
LEMMA SendIInv ==
    ASSUME IInv, TypeOK', NEW t \in Tabs, Send(t)
    PROVE  IInv'
<1>1. /\ held[t] \in Held /\ Fits("sending", held[t]) /\ page[t] = "sending" /\ Nothing \in Held
      /\ UNCHANGED <<intent, drawn>> /\ session \in Users \cup {NoUser}
  BY DEF IInv, TypeOK, TabsOK, Send, Nothing, Held
<1>2. CASE EndInError(t) /\ UNCHANGED api
  BY <1>1, <1>2, EndInErrorIInv
<1>3. CASE EndAt(t, "ended") /\ UNCHANGED api
  <2>1. Fits("ended", Nothing)
    BY DEF Fits, Nothing
  <2> QED
    BY <1>1, <1>3, <2>1, TabMoves DEF EndAt, Goto, Nothing
<1>4. CASE session # NoUser /\ SameOwner(t) /\ Goto(t, "waiting") /\
           \E n \in Attempts :
               /\ Api!Ask(n, [transfer |-> held[t].bound.transfer, user |-> session,
                              wardrobe |-> held[t].bound.draft.wardrobe,
                              picked |-> held[t].bound.draft.picked])
               /\ held' = [held EXCEPT ![t].call = n]
  <2> DEFINE in == [transfer |-> held[t].bound.transfer, user |-> held[t].viewer,
                    wardrobe |-> held[t].bound.draft.wardrobe,
                    picked |-> held[t].bound.draft.picked]
  <2>1. /\ held[t].bound \in Intents /\ held[t].bound # NoIntent
        /\ session = held[t].viewer /\ held[t].viewer \in Users
        /\ held[t].bound.owner = held[t].viewer /\ held[t].bound.transfer \in drawn
    BY <1>1, <1>4 DEF Held, Fits, SameOwner
  <2>2. in \in Inputs /\ in # NoInput /\ in.transfer = held[t].bound.transfer /\ in.user = held[t].viewer
    BY <2>1 DEF Intents, Inputs
  <2>3. PICK n \in Attempts : Api!Ask(n, in) /\ held' = [held EXCEPT ![t].call = n]
    BY <1>4, <2>1
  <2> DEFINE h == [held[t] EXCEPT !.call = n]
  <2>4. /\ h.bound = held[t].bound /\ h.asked = held[t].asked /\ h.viewer = held[t].viewer
        /\ h.carried = held[t].carried /\ h.call = n
    BY <1>1 DEF Held
  <2>5. /\ page'[t] = "waiting" /\ held'[t] = h
        /\ \A u \in Tabs \ {t} : page'[u] = page[u] /\ held'[u] = held[u]
    BY <1>4, <2>3 DEF IInv, TypeOK, Goto
  <2> HIDE DEF in, h
  <2>6. /\ request[n] = NoInput /\ request'[n] = in
        /\ \A m \in Attempts \ {n} : request'[m] = request[m] /\ answer'[m] = answer[m]
        /\ answer'[n] \in {answer[n], "invalid"} /\ UNCHANGED <<progress, shown>>
    BY <2>3 DEF Api!Ask, IInv, ApiOK
  <2>7. ApiOK'
    <3>1. request' \in [Attempts -> Inputs \cup {NoInput}] /\ answer' \in [Attempts -> Answers]
      BY <2>2, <2>3 DEF Api!Ask, IInv, ApiOK, Answers
    <3>2. \A m \in Attempts : request'[m] # NoInput => request'[m].transfer \in drawn'
      BY <1>1, <2>1, <2>2, <2>6 DEF IInv, ApiOK
    <3>3. \A p \in progress : \E m \in Attempts : request'[m] # NoInput /\ p = NewRow(m, request'[m])
      BY <2>6 DEF IInv, ApiOK
    <3>4. \A m \in Attempts : answer'[m] = "ok" =>
             request'[m] # NoInput /\ shown[m] \in progress /\ SameSelection(shown[m], request'[m])
      BY <2>6 DEF IInv, ApiOK
    <3> QED
      BY <2>6, <3>1, <3>2, <3>3, <3>4 DEF IInv, ApiOK
  <2>8. TabsOK'
    <3>1. ASSUME NEW u \in Tabs
          PROVE  Fits(page[u], held[u])'
      <4>1. CASE u = t
        <5>1. request'[h.call] = in /\ h.call \in Attempts
          BY <2>4, <2>6
        <5> QED
          BY <1>1, <2>4, <2>5, <4>1, <5>1 DEF Fits, in
      <4>2. CASE u # t
        <5>1. Fits(page[u], held[u])
          BY DEF IInv, TabsOK
        <5>2. page[u] \in {"waiting", "saved"} => held[u].call \in Attempts \ {n}
          BY <2>6, <5>1, AwaitedIsAsked DEF Fits
        <5>3. page[u] \in {"waiting", "saved"} =>
                 request'[held[u].call] = request[held[u].call] /\ answer'[held[u].call] = answer[held[u].call]
          BY <2>6, <5>2
        <5> QED
          BY <1>1, <2>5, <4>2, <5>1, <5>3 DEF Fits
      <4> QED
        BY <4>1, <4>2
    <3> QED
      BY <3>1 DEF TabsOK
  <2>9. \A u \in Tabs : held'[u].bound = held[u].bound /\ held'[u].asked = held[u].asked
    BY <2>4, <2>5
  <2>10. About' \subseteq About
    BY <1>1, <2>9 DEF About
  <2>11. DraftsOK'
    BY <2>10 DEF IInv, DraftsOK
  <2>12. IntentOK'
    <3>1. intent # NoIntent /\ held[t].bound.transfer = intent.transfer => intent.owner = held[t].viewer
      BY <2>1 DEF IInv, IntentOK
    <3> QED
      BY <1>1, <2>2, <2>6, <2>9, <3>1 DEF IInv, IntentOK
  <2> QED
    BY <2>7, <2>8, <2>11, <2>12 DEF IInv
<1> QED
  BY <1>2, <1>3, <1>4 DEF Send

\* The answer is shown, and the storage cleaned of what was saved.
LEMMA ReceiveIInv ==
    ASSUME IInv, TypeOK', NEW t \in Tabs, Receive(t)
    PROVE  IInv'
<1>1. /\ held[t] \in Held /\ Fits("waiting", held[t]) /\ page[t] = "waiting" /\ Nothing \in Held
      /\ UNCHANGED <<api, drawn>> /\ held = [held EXCEPT ![t] = held[t]]
  BY DEF IInv, TypeOK, TabsOK, Receive, Nothing, Held
<1>2. CASE answer[held[t].call] = "ok" /\ intent' \in {intent, NoIntent} /\ Goto(t, "saved") /\ UNCHANGED held
  <2>1. Fits("saved", held[t])
    BY <1>1, <1>2 DEF Fits
  <2> QED
    BY <1>1, <1>2, <2>1, TabMoves DEF Goto
<1>3. CASE EndAt(t, "ended") /\ UNCHANGED intent
  <2>1. Fits("ended", Nothing)
    BY DEF Fits, Nothing
  <2> QED
    BY <1>1, <1>3, <2>1, TabMoves DEF EndAt, Goto, Nothing
<1>4. CASE EndInError(t) /\ UNCHANGED intent
  BY <1>1, <1>4, EndInErrorIInv
<1> QED
  BY <1>2, <1>3, <1>4 DEF Receive, ClearIntent

\* The API stores the whole selection of a call, under a transfer that has no row.
LEMMA ApplyRows ==
    ASSUME IInv, NEW n \in Attempts, request[n] \in Inputs, Api!Apply(n)
    PROVE  /\ progress' = progress \cup {NewRow(n, request[n])} /\ NewRow(n, request[n]) \in Rows
           /\ \A p, q \in progress' : p.transfer = q.transfer => p = q
           /\ SameSelection(NewRow(n, request[n]), request[n])
<1>1. /\ progress' = progress \cup {NewRow(n, request[n])}
      /\ \A row \in progress : row.transfer # request[n].transfer
  BY DEF Api!Apply, Api!NewRow, NewRow
<1>2. /\ NewRow(n, request[n]) \in Rows /\ NewRow(n, request[n]).transfer = request[n].transfer
      /\ SameSelection(NewRow(n, request[n]), request[n])
  BY DEF NewRow, Inputs, Rows, SameSelection
<1> QED
  BY <1>1, <1>2 DEF IInv, ApiOK

\* A call that was not answered is answered, or takes effect after its caller was told that it
\* failed.
LEMMA ServeIInv ==
    ASSUME IInv, TypeOK', NEW n \in Attempts, Serve(n)
    PROVE  IInv'
<1>1. /\ UNCHANGED <<intent, kept, drawn, cookies, page, draft, held>> /\ request' = request
      /\ request[n] \in Inputs /\ request[n] # NoInput /\ answer[n] \in {"none", "error"}
  BY DEF Serve, Api!Accept, Api!Lose, Api!ApplyLate, Api!Refuse, Api!Pending, Api!Inputs, Inputs
<1>2. /\ \/ progress' = progress
         \/ progress' = progress \cup {NewRow(n, request[n])} /\ NewRow(n, request[n]) \in Rows
      /\ \A p, q \in progress' : p.transfer = q.transfer => p = q
  <2>1. Api!Apply(n) \/ progress' = progress
    BY DEF Serve, Api!Accept, Api!Lose, Api!ApplyLate, Api!Refuse, Api!Repeat
  <2>2. CASE Api!Apply(n)
    BY <1>1, <2>2, ApplyRows
  <2>3. CASE progress' = progress
    BY <2>3 DEF IInv, ApiOK
  <2> QED
    BY <2>1, <2>2, <2>3
<1>3. /\ answer' \in [Attempts -> Answers]
      /\ \A m \in Attempts \ {n} : answer'[m] = answer[m]
  BY DEF Serve, Api!Accept, Api!Lose, Api!ApplyLate, Api!Refuse, IInv, ApiOK, Answers
<1>4. /\ shown' \in [Attempts -> Rows \cup {NoRow}]
      /\ \A m \in Attempts \ {n} : shown'[m] = shown[m]
      /\ answer'[n] = "ok" => shown'[n] \in progress' /\ SameSelection(shown'[n], request[n])
  <2>1. CASE Api!Accept(n)
    <3>1. PICK row \in progress' :
             row.transfer = request[n].transfer /\ shown' = [shown EXCEPT ![n] = row]
      BY <2>1 DEF Api!Accept
    <3>2. row \in Rows
      BY <1>2 DEF IInv, ApiOK
    <3>3. SameSelection(row, request[n])
      <4>1. CASE Api!Apply(n)
        <5>1. NewRow(n, request[n]) \in progress' /\ NewRow(n, request[n]).transfer = request[n].transfer
          BY <1>1, <4>1, ApplyRows DEF NewRow
        <5> QED
          BY <1>1, <1>2, <3>1, <4>1, <5>1, ApplyRows
      <4>2. CASE Api!Repeat(n)
        BY <1>2, <3>1, <4>2 DEF Api!Repeat, Api!SameSelection, SameSelection
      <4> QED
        BY <2>1, <4>1, <4>2 DEF Api!Accept
    <3> QED
      BY <3>1, <3>2, <3>3 DEF IInv, ApiOK
  <2>2. CASE Api!Lose(n) \/ Api!ApplyLate(n) \/ Api!Refuse(n)
    <3>1. shown' = shown /\ answer'[n] # "ok"
      BY <1>1, <2>2 DEF Api!Lose, Api!ApplyLate, Api!Refuse, IInv, ApiOK
    <3> QED
      BY <3>1 DEF IInv, ApiOK
  <2> QED
    BY <2>1, <2>2 DEF Serve
<1>5. ApiOK'
  <2>1. progress' \subseteq Rows /\ progress \subseteq progress'
    BY <1>2 DEF IInv, ApiOK
  <2>2. \A p \in progress' : \E m \in Attempts : request[m] # NoInput /\ p = NewRow(m, request[m])
    BY <1>1, <1>2 DEF IInv, ApiOK
  <2>3. \A m \in Attempts : answer'[m] = "ok" =>
           request[m] # NoInput /\ shown'[m] \in progress' /\ SameSelection(shown'[m], request[m])
    BY <1>1, <1>3, <1>4, <2>1 DEF IInv, ApiOK
  <2> QED
    BY <1>1, <1>2, <1>3, <1>4, <2>1, <2>2, <2>3 DEF IInv, ApiOK
<1>6. TabsOK'
  <2>1. ASSUME NEW u \in Tabs
        PROVE  Fits(page[u], held[u])'
    <3>1. Fits(page[u], held[u])
      BY DEF IInv, TabsOK
    <3>2. page[u] = "saved" => answer'[held[u].call] = "ok"
      BY <1>1, <1>3, <3>1 DEF Fits
    <3> QED
      BY <1>1, <3>1, <3>2 DEF Fits
  <2> QED
    BY <2>1 DEF TabsOK
<1>7. DraftsOK' /\ IntentOK'
  <2>1. UNCHANGED <<request, intent, drawn, held>>
    BY <1>1
  <2> QED
    BY <2>1 DEF IInv, DraftsOK, IntentOK, About
<1> QED
  BY <1>5, <1>6, <1>7 DEF IInv

\* Every step of a tab, a call and the API keeps the invariant.
LEMMA NextIInv == IInv /\ [Next]_vars => IInv'
<1> SUFFICES ASSUME IInv, [Next]_vars
             PROVE  IInv'
  OBVIOUS
<1>0. TypeOK'
  BY NextTypeOK DEF IInv
<1>1. CASE UNCHANGED vars \/ SessionEnds
  BY <1>0, <1>1, TabStays DEF vars, SessionEnds
<1>2. ASSUME NEW t \in Tabs, TabStep(t)
      PROVE  IInv'
  BY <1>0, <1>2, MoveIInv, SaveIInv, BindIInv, SendIInv, ReceiveIInv DEF TabStep
<1>3. ASSUME NEW t \in Tabs, NEW d \in Drafts, Pick(t, d)
      PROVE  IInv'
  BY <1>0, <1>3, MoveIInv
<1>4. ASSUME NEW t \in Tabs, NEW u \in Users, SignIn(t, u)
      PROVE  IInv'
  BY <1>0, <1>4, MoveIInv
<1>5. ASSUME NEW n \in Attempts, Serve(n)
      PROVE  IInv'
  BY <1>0, <1>5, ServeIInv
<1> QED
  BY <1>1, <1>2, <1>3, <1>4, <1>5 DEF Next

\* The invariant holds in every state.
LEMMA SpecIInv == Spec => []IInv
BY InitIInv, NextIInv, PTL DEF Spec

\* The types, for any number of tabs, accounts, transfers, drafts and calls.
THEOREM SpecTypeOK == Spec => []TypeOK
<1>1. IInv => TypeOK
  BY DEF IInv
<1> QED
  BY <1>1, SpecIInv, PTL

\* A request that was bound to an account is stored for that account or not at all, however many
\* tabs, sign-ins and retries there are.
THEOREM SpecBoundToOneAccount == Spec => []BoundToOneAccount
<1>1. ASSUME IInv, intent # NoIntent, NEW row \in progress, intent.transfer = row.transfer
      PROVE  intent.owner = row.user
  <2>1. PICK n \in Attempts : request[n] # NoInput /\ row = NewRow(n, request[n])
    BY <1>1 DEF IInv, ApiOK
  <2>2. row.transfer = request[n].transfer /\ row.user = request[n].user
    BY <2>1 DEF NewRow
  <2> QED
    BY <1>1, <2>1, <2>2 DEF IInv, IntentOK
<1>2. IInv => BoundToOneAccount
  BY <1>1 DEF BoundToOneAccount
<1> QED
  BY <1>2, SpecIInv, PTL

\* What a tab shows as saved is in the account its page was rendered for, and is what was picked
\* when "save" was pressed for this request.
THEOREM SpecSavedIsWhatWasAsked == Spec => []SavedIsWhatWasAsked
<1>1. ASSUME IInv, NEW t \in Tabs, page[t] = "saved"
      PROVE  /\ shown[held[t].call].user = held[t].viewer
             /\ held[t].carried = held[t].asked.transfer => Shows(t, held[t].asked.draft)
  <2>1. /\ held[t].call \in Attempts /\ answer[held[t].call] = "ok"
        /\ held[t].bound # NoIntent /\ held[t].asked # NoIntent
        /\ held[t].bound.transfer = held[t].carried
        /\ request[held[t].call] =
              [transfer |-> held[t].bound.transfer, user |-> held[t].viewer,
               wardrobe |-> held[t].bound.draft.wardrobe, picked |-> held[t].bound.draft.picked]
    BY <1>1 DEF IInv, TabsOK, Fits
  <2>2. SameSelection(shown[held[t].call], request[held[t].call])
    BY <2>1, <1>1 DEF IInv, ApiOK
  <2>3. /\ shown[held[t].call].user = held[t].viewer
        /\ Shows(t, held[t].bound.draft)
    BY <2>1, <2>2 DEF SameSelection, Shows
  <2>4. held[t].bound.transfer = held[t].asked.transfer => held[t].bound.draft = held[t].asked.draft
    BY <1>1, <2>1 DEF IInv, DraftsOK, About
  <2> QED
    BY <2>1, <2>3, <2>4
<1>2. IInv => SavedIsWhatWasAsked
  BY <1>1 DEF SavedIsWhatWasAsked
<1> QED
  BY <1>2, SpecIInv, PTL

\* A stored draft goes only when the user empties it on the guest page, or when what it holds is
\* stored by the API.
THEOREM SpecDraftSurvives == Spec => DraftSurvives
<1>1. ASSUME IInv, Next, kept # Empty, kept' = Empty
      PROVE  \/ \E t \in Tabs : page[t] \in {"start", "asking"} /\ draft'[t] = Empty
             \/ \E row \in progress : row.wardrobe = kept.wardrobe /\ row.picked = kept.picked
  <2>1. CASE \E t \in Tabs : (\E d \in Drafts : Pick(t, d)) \/ Restart(t)
    BY <1>1, <2>1 DEF Pick, Restart, IInv, TypeOK
  <2>2. ASSUME NEW t \in Tabs, Receive(t)
        PROVE  \E row \in progress : row.wardrobe = kept.wardrobe /\ row.picked = kept.picked
    <3>1. /\ page[t] = "waiting" /\ answer[held[t].call] = "ok" /\ kept = held[t].bound.draft
      BY <1>1, <2>2 DEF Receive, ClearDraft
    <3>2. /\ held[t].call \in Attempts
          /\ request[held[t].call].wardrobe = kept.wardrobe /\ request[held[t].call].picked = kept.picked
      <4>1. /\ held[t].call \in Attempts
            /\ request[held[t].call] =
                  [transfer |-> held[t].bound.transfer, user |-> held[t].viewer,
                   wardrobe |-> kept.wardrobe, picked |-> kept.picked]
        BY <1>1, <2>2, <3>1 DEF IInv, TabsOK, Fits
      <4> QED
        BY <4>1
    <3>3. shown[held[t].call] \in progress /\ SameSelection(shown[held[t].call], request[held[t].call])
      BY <1>1, <3>1, <3>2 DEF IInv, ApiOK
    <3> QED
      BY <3>2, <3>3 DEF SameSelection
  <2>3. \/ \E t \in Tabs : (\E d \in Drafts : Pick(t, d)) \/ Restart(t) \/ Receive(t)
        \/ kept' = kept
    BY <1>1 DEF Next, TabStep, Visit, Save, Asked, CloseAuth, StartGoogle, GoogleCallback, Open,
                Bind, Send, Interrupted, Retry, Reload, SignIn, SessionEnds, Serve
  <2> QED
    BY <1>1, <2>1, <2>2, <2>3
<1>2. IInv /\ [Next]_vars =>
         [kept # Empty /\ kept' = Empty =>
             \/ \E t \in Tabs : page[t] \in {"start", "asking"} /\ draft'[t] = Empty
             \/ \E row \in progress : row.wardrobe = kept.wardrobe /\ row.picked = kept.picked]_vars
  BY <1>1
<1> QED
  BY <1>2, SpecIInv, PTL DEF Spec, DraftSurvives

\* The browser asks the API only for what clients may ask: its steps are steps of GuestLedger,
\* which GuestSave implements, or leave the API alone.
THEOREM SpecUsesTheLedger == Spec => Api!Spec
<1>1. Init => Api!Init
  BY DEF Init
<1>2. ASSUME IInv, [Next]_vars
      PROVE  [Api!Next]_(Api!lvars)
  <2>1. UNCHANGED api => UNCHANGED Api!lvars
    BY DEF api, Api!lvars
  <2>2. ASSUME NEW t \in Tabs, Send(t)
        PROVE  Api!Next \/ UNCHANGED api
    <3>1. CASE UNCHANGED api
      BY <3>1
    <3>2. ASSUME NEW n \in Attempts,
                 Api!Ask(n, [transfer |-> held[t].bound.transfer, user |-> session,
                             wardrobe |-> held[t].bound.draft.wardrobe,
                             picked |-> held[t].bound.draft.picked]),
                 session # NoUser
          PROVE  Api!Next
      <4> DEFINE in == [transfer |-> held[t].bound.transfer, user |-> session,
                        wardrobe |-> held[t].bound.draft.wardrobe,
                        picked |-> held[t].bound.draft.picked]
      <4>1. held[t].bound \in Intents /\ session \in Users
        BY <1>2, <2>2, <3>2 DEF IInv, TypeOK, TabsOK, Fits, Send, Held
      <4>2. in \in Api!Inputs
        BY <4>1 DEF Intents, Api!Inputs
      <4>3. Api!Ask(n, in)
        BY <3>2
      <4> HIDE DEF in
      <4> QED
        BY <4>2, <4>3 DEF Api!Next
    <3> QED
      BY <2>2, <3>1, <3>2 DEF Send
  <2>3. ASSUME NEW n \in Attempts, Serve(n)
        PROVE  Api!Next
    BY <2>3 DEF Serve, Api!Next
  <2>4. \/ \E t \in Tabs : Send(t)
        \/ \E n \in Attempts : Serve(n)
        \/ UNCHANGED api
    BY <1>2 DEF Next, TabStep, Pick, Visit, Restart, Save, Asked, CloseAuth, StartGoogle,
                GoogleCallback, Open, Bind, Receive, Interrupted, Retry, Reload, SignIn,
                SessionEnds, vars
  <2> QED
    BY <2>1, <2>2, <2>3, <2>4
<1> QED
  BY <1>1, <1>2, SpecIInv, PTL DEF Spec, Api!Spec
=============================================================================
