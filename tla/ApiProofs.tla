----------------------------- MODULE ApiProofs ------------------------------
(***************************************************************************)
(* The account side of the API, for any number of clients, identities,     *)
(* sessions, calls and faults.                                             *)
(*                                                                         *)
(* Profiles: a profile never goes away, so a statement that found its row  *)
(* by the index but not in its snapshot finds it in the snapshot of the    *)
(* second try; and the row a statement replaces is the only one of its     *)
(* identity, whose name it keeps.                                          *)
(*                                                                         *)
(* Recovery: until a refused password shares it, the session of a spent    *)
(* code is known to its call alone; from then on it is in the store, or    *)
(* has timed out or served; and once it has served, nobody is left who     *)
(* could put it back.                                                      *)
(*                                                                         *)
(* RateLimiter: credit, what a request would find, grows by at most Rate   *)
(* in a tick and is untouched by an eviction: that is the refinement, and  *)
(* with CreditInv it bounds every window.                                  *)
(***************************************************************************)
EXTENDS Profiles, Recovery, RateLimiter, TLAPS

-----------------------------------------------------------------------------
(* Profiles *)

\* One profile per identity and per address.
KeysInv == \A p, q \in profiles : p.identity = q.identity \/ p.email = q.email => p = q

\* A request that is under way has a session, and has executed at most one statement before this one.
CallInv == \A c \in EnsureCalls :
    /\ pc[c] \in {"begin", "upsert"} => session[c] \in Rows
    /\ pc[c] = "idle" => tries[c] = 0
    /\ pc[c] = "begin" => tries[c] \in {0, 1}
    /\ pc[c] = "upsert" => tries[c] \in {1, 2}

\* Before a second try there is a profile, and its snapshot has it.
RetryInv == \A c \in EnsureCalls :
    /\ pc[c] = "begin" /\ tries[c] = 1 => ProfilesOf(profiles, session[c].identity) # {}
    /\ pc[c] = "upsert" /\ tries[c] = 2 => seen[c] # {}

\* Kratos gives an address to one identity.
AddressInv == \A i, j \in Identities :
    traits[i] # NoTraits /\ traits[j] # NoTraits /\ traits[i].email = traits[j].email => i = j

ProfilesInv == ProfilesTypeOK /\ CallInv /\ RetryInv /\ AddressInv

USE NamesAssumption

\* The initial states: no request, no profile.
LEMMA ProfilesInitInv == ProfilesInit => ProfilesInv
<1> SUFFICES ASSUME ProfilesInit
             PROVE  ProfilesInv
  OBVIOUS
<1>1. \A c \in EnsureCalls : pc[c] = "idle" /\ tries[c] = 0 /\ answer[c] = "none"
  BY DEF ProfilesInit
<1>2. ProfilesTypeOK
  BY DEF ProfilesInit, ProfilesTypeOK
<1>3. AddressInv
  BY DEF ProfilesInit, AddressInv
<1> QED
  BY <1>1, <1>2, <1>3 DEF ProfilesInv, CallInv, RetryInv

\* What a refresh makes of a profile is a profile of the same identity, with its name if it has one.
LEMMA RefreshedKeepsName ==
    ASSUME NEW p \in Rows, NEW s \in Rows
    PROVE  /\ Refreshed(p, s) \in Rows /\ Refreshed(p, s).identity = p.identity
           /\ p.name # NoName => Refreshed(p, s).name = p.name
  BY DEF Refreshed, Rows

\* An upsert replaces the one profile of its identity, or adds it; no profile goes away.
LEMMA UpsertReplaces ==
    ASSUME ProfilesInv, NEW c \in EnsureCalls, Upsert(c)
    PROVE  /\ profiles' \subseteq Rows /\ KeysInv'
           /\ \A p \in profiles : \E q \in profiles' :
                  q.identity = p.identity /\ (p.name # NoName => q.name = p.name)
<1> DEFINE i == session[c].identity
           old == ProfilesOf(profiles, i)
<1>1. session[c] \in Rows /\ profiles \subseteq Rows /\ KeysInv
  BY DEF ProfilesInv, CallInv, ProfilesTypeOK, Upsert, KeysInv
<1>2. CASE profiles' = profiles
  BY <1>1, <1>2 DEF KeysInv
<1>3. ASSUME NEW row \in Rows, row.identity = i, ~EmailTaken(row),
             profiles' = (profiles \ old) \cup {row},
             \A p \in old : p.name # NoName => row.name = p.name
      PROVE  /\ profiles' \subseteq Rows /\ KeysInv'
             /\ \A p \in profiles : \E q \in profiles' :
                    q.identity = p.identity /\ (p.name # NoName => q.name = p.name)
  <2>1. profiles' \subseteq Rows
    BY <1>1, <1>3
  <2>2. \A p \in profiles' : p = row \/ (p \in profiles /\ p.identity # i)
    BY <1>3 DEF ProfilesOf
  <2>3. \A p \in profiles : p.identity # i => p.email # row.email
    BY <1>3 DEF EmailTaken
  <2>4. KeysInv'
    BY <1>1, <1>3, <2>2, <2>3 DEF KeysInv
  <2>5. ASSUME NEW p \in profiles
        PROVE  \E q \in profiles' : q.identity = p.identity /\ (p.name # NoName => q.name = p.name)
    BY <1>3 DEF ProfilesOf
  <2> QED
    BY <2>1, <2>4, <2>5
<1>4. CASE old = {} /\ Store(c, session[c])
  BY <1>1, <1>2, <1>3, <1>4 DEF Store
<1>5. ASSUME NEW p \in old, Store(c, Refreshed(p, session[c]))
      PROVE  \/ profiles' = profiles
             \/ \E row \in Rows :
                   /\ row.identity = i /\ ~EmailTaken(row)
                   /\ profiles' = (profiles \ old) \cup {row}
                   /\ \A r \in old : r.name # NoName => row.name = r.name
  <2> DEFINE row == Refreshed(p, session[c])
  <2>1. p \in Rows /\ p.identity = i /\ \A r \in old : r = p
    BY <1>1, <1>5 DEF ProfilesOf, KeysInv
  <2>2. row \in Rows /\ row.identity = i /\ (p.name # NoName => row.name = p.name)
    BY <1>1, <2>1, RefreshedKeepsName
  <2> HIDE DEF row
  <2>3. profiles' = profiles \/ (~EmailTaken(row) /\ profiles' = (profiles \ ProfilesOf(profiles, row.identity)) \cup {row})
    BY <1>5 DEF Store, row
  <2> QED
    BY <2>1, <2>2, <2>3
<1> QED
  BY <1>2, <1>3, <1>4, <1>5 DEF Upsert, FallBack

\* What an upsert leaves of its call: it ends with an answer, or tries again over a profile.
LEMMA UpsertEnds ==
    ASSUME ProfilesInv, NEW c \in EnsureCalls, Upsert(c)
    PROVE  /\ tries' = tries
           /\ \/ /\ pc' = [pc EXCEPT ![c] = "done"]
                 /\ \E code \in {"ok", "clash"} : answer' = [answer EXCEPT ![c] = code]
              \/ /\ pc' = [pc EXCEPT ![c] = "begin"] /\ answer' = answer /\ profiles' = profiles
                 /\ tries[c] = 1 /\ ProfilesOf(profiles, session[c].identity) # {}
<1>1. tries[c] \in {1, 2} /\ (tries[c] = 2 => seen[c] # {})
  BY DEF ProfilesInv, CallInv, RetryInv, Upsert
<1>2. ASSUME NEW row, Store(c, row)
      PROVE  /\ tries' = tries /\ pc' = [pc EXCEPT ![c] = "done"]
             /\ \E code \in {"ok", "clash"} : answer' = [answer EXCEPT ![c] = code]
  BY <1>2 DEF Store, Return
<1>3. CASE FallBack(c) /\ ProfilesOf(profiles, session[c].identity) # {}
  BY <1>1, <1>3 DEF FallBack, Return
<1> QED
  BY <1>2, <1>3 DEF Upsert

\* Every step preserves the invariant.
LEMMA ProfilesNextInv == ProfilesInv /\ [ProfilesNext]_profileVars => ProfilesInv'
<1> SUFFICES ASSUME ProfilesInv, [ProfilesNext]_profileVars
             PROVE  ProfilesInv'
  OBVIOUS
<1>1. CASE UNCHANGED profileVars
  BY <1>1 DEF profileVars, callVars, ProfilesInv, ProfilesTypeOK, CallInv, RetryInv, AddressInv
<1>2. ASSUME NEW i \in Identities, NEW t \in Traits \cup {NoTraits}, SetTraits(i, t)
      PROVE  ProfilesInv'
  <2>1. traits' = [traits EXCEPT ![i] = t] /\ UNCHANGED <<profiles, callVars>>
    BY <1>2 DEF SetTraits
  <2>2. ProfilesTypeOK' /\ CallInv' /\ RetryInv'
    BY <2>1 DEF callVars, ProfilesInv, ProfilesTypeOK, CallInv, RetryInv
  <2>3. AddressInv'
    BY <1>2, <2>1 DEF SetTraits, ProfilesInv, ProfilesTypeOK, AddressInv
  <2> QED
    BY <2>2, <2>3 DEF ProfilesInv
<1>3. ASSUME NEW c \in EnsureCalls, NEW i \in Identities, Receive(c, i)
      PROVE  ProfilesInv'
  <2>1. [identity |-> i, email |-> traits[i].email, name |-> traits[i].name] \in Rows
    BY <1>3 DEF Receive, ProfilesInv, ProfilesTypeOK, Traits, Rows
  <2>2. pc[c] = "idle" /\ tries[c] = 0
    BY <1>3 DEF Receive, ProfilesInv, CallInv
  <2>3. ProfilesTypeOK'
    BY <1>3, <2>1 DEF Receive, ProfilesInv, ProfilesTypeOK
  <2>4. CallInv' /\ RetryInv'
    BY <1>3, <2>1, <2>2 DEF Receive, ProfilesInv, ProfilesTypeOK, CallInv, RetryInv
  <2>5. AddressInv'
    BY <1>3 DEF Receive, ProfilesInv, AddressInv
  <2> QED
    BY <2>3, <2>4, <2>5 DEF ProfilesInv
<1>4. ASSUME NEW c \in EnsureCalls, BeginStatement(c)
      PROVE  ProfilesInv'
  <2>1. ProfilesOf(profiles, session[c].identity) \in SUBSET Rows
    BY DEF ProfilesInv, ProfilesTypeOK, ProfilesOf
  <2>2. pc[c] = "begin" /\ tries[c] \in {0, 1}
    BY <1>4 DEF BeginStatement, ProfilesInv, CallInv
  <2>3. ProfilesTypeOK'
    BY <1>4, <2>1, <2>2 DEF BeginStatement, ProfilesInv, ProfilesTypeOK
  <2>4. CallInv'
    BY <1>4, <2>2 DEF BeginStatement, ProfilesInv, ProfilesTypeOK, CallInv
  <2>5. RetryInv' /\ AddressInv'
    BY <1>4, <2>2 DEF BeginStatement, ProfilesInv, ProfilesTypeOK, RetryInv, AddressInv
  <2> QED
    BY <2>3, <2>4, <2>5 DEF ProfilesInv
<1>5. ASSUME NEW c \in EnsureCalls, Upsert(c)
      PROVE  ProfilesInv'
  <2>1. UNCHANGED <<traits, session, seen, tries>> /\ pc[c] = "upsert"
    BY <1>5, UpsertEnds DEF Upsert
  <2>2. ProfilesTypeOK'
    BY <1>5, <2>1, UpsertEnds, UpsertReplaces DEF ProfilesInv, ProfilesTypeOK, KeysInv
  <2>3. CallInv'
    BY <1>5, <2>1, UpsertEnds DEF ProfilesInv, ProfilesTypeOK, CallInv
  <2>4. \A i : ProfilesOf(profiles, i) # {} => ProfilesOf(profiles', i) # {}
    BY <1>5, UpsertReplaces DEF ProfilesOf
  <2>5. RetryInv'
    BY <1>5, <2>1, <2>4, UpsertEnds DEF ProfilesInv, ProfilesTypeOK, RetryInv
  <2>6. AddressInv'
    BY <2>1 DEF ProfilesInv, AddressInv
  <2> QED
    BY <2>2, <2>3, <2>5, <2>6 DEF ProfilesInv
<1>6. ASSUME NEW c \in EnsureCalls, Fail(c)
      PROVE  ProfilesInv'
  BY <1>6 DEF Fail, Return, ProfilesInv, ProfilesTypeOK, CallInv, RetryInv, AddressInv
<1>7. ASSUME NEW p \in profiles, NEW name \in Names, Apply(p, name)
      PROVE  ProfilesInv'
  <2> DEFINE row == [p EXCEPT !.name = name]
  <2>1. p \in Rows /\ row \in Rows /\ row.identity = p.identity /\ row.email = p.email
    BY <1>7 DEF ProfilesInv, ProfilesTypeOK, Rows
  <2>2. profiles' = (profiles \ {p}) \cup {row} /\ UNCHANGED <<traits, callVars>>
    BY <1>7 DEF Apply
  <2> HIDE DEF row
  <2>3. ProfilesTypeOK'
    BY <2>1, <2>2 DEF callVars, ProfilesInv, ProfilesTypeOK
  <2>4. \A i : ProfilesOf(profiles, i) # {} => ProfilesOf(profiles', i) # {}
    BY <2>1, <2>2 DEF ProfilesOf
  <2> QED
    BY <2>2, <2>3, <2>4 DEF callVars, ProfilesInv, CallInv, RetryInv, AddressInv
<1> QED
  BY <1>1, <1>2, <1>3, <1>4, <1>5, <1>6, <1>7 DEF ProfilesNext, EnsureStep

\* The types and the unique keys, for any number of requests.
THEOREM ProfilesSpecTypeOK == ProfilesSpec => []ProfilesTypeOK
<1>1. ProfilesInv => ProfilesTypeOK
  BY DEF ProfilesInv
<1> QED
  BY <1>1, ProfilesInitInv, ProfilesNextInv, PTL DEF ProfilesSpec

\* A request ends with the profile of its identity, or the database failed it, or it clashed with
\* an address of which one of the copies is stale.
THEOREM SpecSessionsGetTheirProfile == ProfilesSpec => SessionsGetTheirProfile
<1> DEFINE Stale(c) == \E p \in profiles :
              /\ p.identity # session[c].identity /\ p.email = session[c].email
              /\ ~(HasAddress(p.identity, p.email) /\ HasAddress(session[c].identity, p.email))
           Ends(c) ==
              \/ answer'[c] = "ok" /\ ProfilesOf(profiles', session[c].identity) # {}
              \/ answer'[c] = "error"
              \/ answer'[c] = "clash" /\ Stale(c)
           A == \A c \in EnsureCalls : answer'[c] # answer[c] => Ends(c)
<1>1. ASSUME ProfilesInv, NEW c \in EnsureCalls, NEW row \in Rows, Store(c, row), EmailTaken(row),
             row.identity = session[c].identity, row.email = session[c].email
      PROVE  Stale(c)
  <2>1. PICK p \in profiles : p.identity # row.identity /\ p.email = row.email
    BY <1>1 DEF EmailTaken
  <2>2. p.identity \in Identities /\ row.identity \in Identities
    BY <1>1, <2>1 DEF ProfilesInv, ProfilesTypeOK, Rows
  <2>3. ~(HasAddress(p.identity, p.email) /\ HasAddress(row.identity, p.email))
    BY <1>1, <2>1, <2>2 DEF ProfilesInv, AddressInv, HasAddress
  <2> QED
    BY <1>1, <2>1, <2>3
<1>2. ASSUME ProfilesInv, NEW c \in EnsureCalls, NEW row \in Rows, Store(c, row),
             row.identity = session[c].identity, row.email = session[c].email
      PROVE  /\ \/ answer'[c] = "ok" /\ ProfilesOf(profiles', session[c].identity) # {}
                \/ answer'[c] = "clash" /\ Stale(c)
             /\ \A d \in EnsureCalls : d # c => answer'[d] = answer[d]
  <2>1. answer \in [EnsureCalls -> {"none", "ok", "not_found", "clash", "error"}]
    BY <1>2 DEF ProfilesInv, ProfilesTypeOK
  <2>2. CASE EmailTaken(row)
    <3>1. Stale(c)
      BY <1>1, <1>2, <2>2
    <3> HIDE DEF Stale
    <3> QED
      BY <1>2, <2>1, <2>2, <3>1 DEF Store, Return
  <2>3. CASE ~EmailTaken(row)
    <3>1. row \in profiles' /\ row.identity = session[c].identity
      BY <1>2, <2>3 DEF Store
    <3>2. ProfilesOf(profiles', session[c].identity) # {}
      BY <3>1 DEF ProfilesOf
    <3>3. answer' = [answer EXCEPT ![c] = "ok"]
      BY <1>2, <2>3 DEF Store, Return
    <3> HIDE DEF Stale
    <3> QED
      BY <2>1, <3>2, <3>3
  <2> QED
    BY <2>2, <2>3
<1>3. ASSUME ProfilesInv, NEW c \in EnsureCalls, Upsert(c)
      PROVE  A
  <2>1. /\ session[c] \in Rows /\ profiles \subseteq Rows
        /\ tries[c] \in {1, 2} /\ (tries[c] = 2 => seen[c] # {})
        /\ answer \in [EnsureCalls -> {"none", "ok", "not_found", "clash", "error"}]
    BY <1>3 DEF ProfilesInv, ProfilesTypeOK, CallInv, RetryInv, Upsert
  <2>2. CASE Store(c, session[c])
    <3> HIDE DEF Stale
    <3> QED
      BY <1>2, <1>3, <2>1, <2>2
  <2>3. ASSUME NEW p \in ProfilesOf(profiles, session[c].identity), Store(c, Refreshed(p, session[c]))
        PROVE  A
    <3>1. p \in Rows /\ p.identity = session[c].identity
      BY <2>1 DEF ProfilesOf
    <3>2. /\ Refreshed(p, session[c]) \in Rows /\ Refreshed(p, session[c]).identity = session[c].identity
          /\ Refreshed(p, session[c]).email = session[c].email
      BY <2>1, <3>1, RefreshedKeepsName DEF Refreshed, Rows
    <3> HIDE DEF Stale
    <3> QED
      BY <1>2, <1>3, <2>3, <3>2
  <2>4. CASE FallBack(c) /\ ProfilesOf(profiles, session[c].identity) # {}
    <3> HIDE DEF Stale
    <3> QED
      BY <2>1, <2>4 DEF FallBack, Return
  <2> HIDE DEF A
  <2> QED
    BY <1>3, <2>2, <2>3, <2>4 DEF Upsert
<1>4. ASSUME ProfilesInv, [ProfilesNext]_profileVars
      PROVE  [A]_profileVars
  <2>1. CASE UNCHANGED answer
    BY <2>1
  <2>2. ASSUME NEW c \in EnsureCalls, Fail(c)
        PROVE  A
    BY <1>4, <2>2 DEF Fail, Return, ProfilesInv, ProfilesTypeOK
  <2> HIDE DEF A
  <2> QED
    BY <1>3, <1>4, <2>1, <2>2
       DEF ProfilesNext, EnsureStep, SetTraits, Receive, BeginStatement, Apply, callVars, profileVars
<1> DEFINE B == \A c \in EnsureCalls : answer'[c] # answer[c] =>
              \/ answer'[c] = "ok" /\ ProfilesOf(profiles', session[c].identity) # {}
              \/ answer'[c] = "error"
              \/ /\ answer'[c] = "clash"
                 /\ \E p \in profiles :
                       /\ p.identity # session[c].identity /\ p.email = session[c].email
                       /\ ~(HasAddress(p.identity, p.email) /\ HasAddress(session[c].identity, p.email))
<1>5. A => B
  OBVIOUS
<1>6. ASSUME ProfilesInv, [ProfilesNext]_profileVars
      PROVE  [B]_profileVars
  <2> HIDE DEF A, B
  <2> QED
    BY <1>4, <1>5, <1>6
<1> HIDE DEF A
<1> QED
  BY <1>6, ProfilesInitInv, ProfilesNextInv, PTL DEF ProfilesSpec, SessionsGetTheirProfile

\* No statement of EnsureForIdentity changes a display name that is there.
THEOREM SpecEditsSurviveRefresh == ProfilesSpec => EditsSurviveRefresh
<1> DEFINE A == pc' # pc => \A p \in profiles : p.name # NoName =>
                   \E q \in profiles' : q.identity = p.identity /\ q.name = p.name
<1>1. ASSUME ProfilesInv, [ProfilesNext]_profileVars
      PROVE  [A]_profileVars
  <2>1. CASE UNCHANGED profiles \/ UNCHANGED pc
    BY <2>1
  <2>2. ASSUME NEW c \in EnsureCalls, Upsert(c)
        PROVE  A
    BY <1>1, <2>2, UpsertReplaces
  <2> QED
    BY <1>1, <2>1, <2>2
       DEF ProfilesNext, EnsureStep, SetTraits, Receive, BeginStatement, Fail, Return, Apply, callVars, profileVars
<1> QED
  BY <1>1, ProfilesInitInv, ProfilesNextInv, PTL DEF ProfilesSpec, EditsSurviveRefresh

-----------------------------------------------------------------------------
(* Recovery *)

Kept == recoveryContinuations \cup over

\* What a call says of the password it has set, where its session is, and, while it holds the
\* session of a spent code, that nobody else does.
CallOK(c) ==
    LET r == calls[c] IN Busy(c) =>
    /\ r.set => r.pc \in {"whoami", "answer"}
    /\ r.pc = "whoami" => r.set /\ r.kind # "change"
    /\ r.pc = "answer" /\ r.answer = "OK" => r.set
    /\ r.pc = "answer" /\ r.set => r.answer \in {"OK", "INTERNAL_ERROR"}
    /\ r.kind # "change" =>
          /\ r.token # Device /\ r.continuation # Device
          /\ r.kind = "continuation" \/ r.pc \in {"settings", "whoami"} => r.token # None
          /\ r.kind = "continuation" /\ r.pc \in {"settings", "whoami"} => r.token \in Kept
          /\ r.pc = "answer" /\ r.answer = "PASSWORD_REJECTED" => r.continuation # None
          /\ r.pc = "answer" /\ r.answer = "OK" => r.token # None /\ r.token \notin recoveryContinuations
    /\ r.pc # "answer" => r.continuation = None
    /\ r.continuation # None => r.kind # "change" /\ r.continuation = r.token /\ r.token \in Kept
    /\ r.kind = "code" /\ r.pc = "settings" =>
          /\ r.token \notin recoveryContinuations \cup {continuationId, signedIn}
          /\ \A d \in Calls \ {c} : Busy(d) => calls[d].token # r.token

\* The panel waits for a recovery, and what it shows and keeps is as good as when it came.
PanelOK ==
    /\ waiting # None => Busy(waiting) /\ calls[waiting].kind # "change"
    /\ continuationId # Device
    /\ RejectedPasswordKeepsAWayBack
    /\ SignedInSessionIsSettled

\* The other device only ever asks for other sessions, and hides those that are gone.
DeviceOK ==
    /\ Device \notin rows
    /\ hidden \subseteq rows \cap ended
    /\ revoking # None => /\ revoking.targets \subseteq rows
                          /\ revoking.pc # "answer" => ~revoking.ok
                          /\ revoking.pc = "answer" /\ revoking.ok => revoking.targets \subseteq ended

IInv == TypeOK /\ (\A c \in Calls : CallOK(c)) /\ PanelOK /\ DeviceOK

USE PasswordsAssumption, DeviceAssumption, FaultsAssumption, NoneAssumption

\* Counting faults.
LEMMA CostsType ==
    ASSUME TypeOK, NEW n \in Nat, Costs(n)
    PROVE  faults' \in 0..MaxFaults
  BY DEF TypeOK, Costs

\* A new session is one that nobody knows.
LEMMA NewTokenIsUnknown ==
    ASSUME TokensLeft
    PROVE  NewToken \in Tokens /\ ~Known(NewToken)
  BY DEF TokensLeft, NewToken

\* Nothing has happened yet.
LEMMA InitIInv == Init => IInv
<1> SUFFICES ASSUME Init
             PROVE  IInv
  OBVIOUS
<1>1. TypeOK
  BY DEF Init, TypeOK
<1>2. \A c \in Calls : CallOK(c)
  BY DEF Init, CallOK, Busy
<1>3. None # Device /\ None # "PASSWORD_REJECTED"
  BY DEF Answers
<1>4. PanelOK
  BY <1>3 DEF Init, PanelOK, RejectedPasswordKeepsAWayBack, SignedInSessionIsSettled
<1>5. DeviceOK
  BY DEF Init, DeviceOK
<1> QED
  BY <1>1, <1>2, <1>4, <1>5 DEF IInv

-----------------------------------------------------------------------------
(* The API *)

\* Call c goes on as r.  It keeps its session or gets a new one; only the session of a spent code
\* comes into the store; none that is known leaves the store otherwise than by time or service,
\* and none that is known comes back to life.
Works(c, r) ==
    /\ Busy(c) /\ r \in Requests /\ calls' = [calls EXCEPT ![c] = r]
    /\ UNCHANGED <<panelVars, deviceVars>>
    /\ r.kind = calls[c].kind
    /\ r.token = calls[c].token \/ (r.token \in Tokens /\ ~Known(r.token))
    /\ \A t \in Tokens : Known(t) /\ t \in Kept => t \in Kept'
    /\ \A t \in recoveryContinuations' \ recoveryContinuations :
           t = calls[c].token /\ calls[c].kind = "code" /\ calls[c].pc = "settings"
    /\ \A t \in ended \ ended' : ~Known(t)

\* Such a step keeps the invariant if it leaves its own call in order.
LEMMA WorksIInv ==
    ASSUME IInv, NEW c \in Calls, NEW r, Works(c, r), TypeOK', CallOK(c)'
    PROVE  IInv'
<1>1. /\ UNCHANGED <<continuationId, signedIn, waiting, notice, rows, hidden, revoking>>
      /\ Busy(c)' /\ calls'[c] = r /\ \A d \in Calls \ {c} : calls'[d] = calls[d] /\ Busy(d)' = Busy(d)
  BY DEF Works, panelVars, deviceVars, Busy, IInv, TypeOK
<1>2. ASSUME NEW d \in Calls, d # c
      PROVE  CallOK(d)'
  <2> SUFFICES ASSUME Busy(d)
               PROVE  CallOK(d)'
    BY <1>1, <1>2 DEF CallOK
  <2>0. calls'[d] = calls[d] /\ CallOK(d) /\ CallOK(c) /\ Busy(c) /\ calls[d] \in Requests
    BY <1>1, <1>2 DEF IInv, Works, TypeOK, Busy
  <2>1. calls[d].token \in Tokens => Known(calls[d].token)
    BY DEF Known
  <2>2. calls[d].token \in Kept => calls[d].token \in Kept'
    <3>1. Kept \subseteq Tokens
      BY DEF IInv, TypeOK, Kept
    <3> QED
      BY <2>1, <3>1 DEF Works
  <2>3. calls[d].token \notin recoveryContinuations => calls[d].token \notin recoveryContinuations'
    BY <1>2, <2>0 DEF Works, CallOK
  <2>4. r.token # calls[c].token => r.token # calls[d].token
    BY <2>0, <2>1 DEF Works, Requests
  <2>5. calls[d].kind = "code" /\ calls[d].pc = "settings" =>
           \A e \in Calls \ {d} : Busy(e)' => calls'[e].token # calls'[d].token
    BY <1>1, <1>2, <2>0, <2>4 DEF CallOK
  <2> HIDE DEF Kept
  <2> QED
    BY <1>1, <1>2, <2>0, <2>2, <2>3, <2>5 DEF CallOK
<1>3. PanelOK'
  <2>1. waiting' # None => Busy(waiting)' /\ calls'[waiting'].kind # "change"
    BY <1>1 DEF IInv, TypeOK, PanelOK, Works
  <2>2. \A t \in {continuationId, signedIn} \ {None} : t \in Tokens /\ Known(t)
    BY DEF IInv, TypeOK, Known
  <2>3. RejectedPasswordKeepsAWayBack'
    BY <1>1, <2>2 DEF IInv, PanelOK, RejectedPasswordKeepsAWayBack, Works, Kept
  <2>4. SignedInSessionIsSettled'
    BY <1>1, <2>2 DEF IInv, PanelOK, SignedInSessionIsSettled, Works, CallOK
  <2> QED
    BY <1>1, <2>1, <2>3, <2>4 DEF IInv, PanelOK
<1>4. DeviceOK'
  <2>1. \A t \in rows : t \in ended => t \in ended'
    BY DEF Works, Known, IInv, TypeOK
  <2> QED
    BY <1>1, <2>1 DEF IInv, DeviceOK
<1> QED
  BY <1>2, <1>3, <1>4 DEF IInv

\* A call that answers with a failure, whatever it has done, is in order.
LEMMA FailureWorks ==
    ASSUME IInv, NEW c \in Calls, Busy(c), calls[c].pc # "answer",
           NEW code \in Answers \ {"OK", "PASSWORD_REJECTED"}, calls[c].set => code = "INTERNAL_ERROR",
           Answer(c, code), UNCHANGED <<panelVars, deviceVars>>, TypeOK',
           \A t \in Tokens : Known(t) /\ t \in Kept => t \in Kept',
           recoveryContinuations' \subseteq recoveryContinuations,
           \A t \in ended \ ended' : ~Known(t)
    PROVE  IInv'
<1> DEFINE r == [calls[c] EXCEPT !.pc = "answer", !.answer = code]
<1>0. calls[c] \in Requests /\ CallOK(c)
  BY DEF IInv, TypeOK, Busy
<1>1. calls' = [calls EXCEPT ![c] = r]
  BY <1>0 DEF Answer, IInv, TypeOK
<1>2. /\ r \in Requests /\ r.kind = calls[c].kind /\ r.token = calls[c].token /\ r.pc = "answer"
      /\ r.answer = code /\ r.set = calls[c].set /\ r.continuation = calls[c].continuation
  BY <1>0 DEF Requests
<1> HIDE DEF r
<1>3. Works(c, r)
  BY <1>1, <1>2 DEF Works
<1>4. calls'[c] = r /\ Busy(c)'
  BY <1>1, <1>2 DEF Busy, IInv, TypeOK
<1>5. calls[c].token \in Kept => calls[c].token \in Kept'
  BY DEF Known, Kept, IInv, TypeOK
<1>6. CallOK(c)'
  BY <1>0, <1>2, <1>4, <1>5 DEF CallOK
<1> QED
  BY <1>3, <1>6, WorksIInv

\* KratosFails, and what it leaves.
LEMMA KratosFailsIInv ==
    ASSUME IInv, NEW c \in Calls, KratosFails(c)
    PROVE  IInv'
<1>1. TypeOK'
  <2>1. faults' \in 0..MaxFaults
    BY CostsType DEF KratosFails, IInv
  <2>2. calls' \in [Calls -> Requests \cup {None}]
    <3>1. calls[c] \in Requests /\ calls' = [calls EXCEPT ![c].pc = "answer", ![c].answer = "INTERNAL_ERROR"]
      BY DEF KratosFails, Answer, IInv, TypeOK, Busy
    <3> QED
      BY <3>1 DEF IInv, TypeOK, Requests, Answers
  <2> QED
    BY <2>1, <2>2 DEF KratosFails, IInv, TypeOK, kratosVars, panelVars, deviceVars
<1> QED
  BY <1>1, FailureWorks DEF KratosFails, kratosVars, Kept, Answers

\* The right code is spent for a session that nobody else knows.
LEMMA SubmitCodeIInv ==
    ASSUME IInv, NEW c \in Calls, NEW heard \in BOOLEAN, SubmitCode(c, heard)
    PROVE  IInv'
<1>0. /\ Busy(c) /\ calls[c] \in Requests /\ CallOK(c) /\ calls[c].kind = "code" /\ calls[c].pc = "begin"
      /\ NewToken \in Tokens /\ ~Known(NewToken)
  BY NewTokenIsUnknown DEF SubmitCode, At, IInv, TypeOK, Busy
<1>1. faults' \in 0..MaxFaults
  BY CostsType DEF SubmitCode, IInv
<1>2. UNCHANGED <<password, recoveryContinuations, panelVars, deviceVars>>
  BY DEF SubmitCode
<1>3. CASE Answer(c, "INTERNAL_ERROR") \/ Answer(c, "INVALID_CODE")
  <2>1. calls' \in [Calls -> Requests \cup {None}]
    BY <1>0, <1>3 DEF Answer, IInv, TypeOK, Requests, Answers
  <2>2. /\ mailed' \subseteq mailed /\ ended' \subseteq ended /\ over' \subseteq over
        /\ \A t \in Tokens : Known(t) => (t \in over => t \in over') /\ (t \in ended => t \in ended')
    BY <1>0 DEF SubmitCode
  <2>3. TypeOK'
    BY <1>1, <1>2, <2>1, <2>2 DEF IInv, TypeOK, panelVars, deviceVars
  <2>4. /\ \A t \in Tokens : Known(t) /\ t \in Kept => t \in Kept'
        /\ \A t \in ended \ ended' : ~Known(t)
    BY <1>2, <2>2 DEF Kept, IInv, TypeOK
  <2>5. ~calls[c].set
    BY <1>0 DEF CallOK
  <2> QED
    BY <1>0, <1>2, <1>3, <2>3, <2>4, <2>5, FailureWorks DEF Answers
<1>4. CASE /\ mailed' = mailed \ {calls[c].flow} /\ ended' = ended \ {NewToken}
           /\ GoOn(c, "settings", NewToken) /\ over' = over \ {NewToken}
  <2> DEFINE r == [calls[c] EXCEPT !.pc = "settings", !.token = NewToken]
  <2>1. calls' = [calls EXCEPT ![c] = r]
    BY <1>0, <1>4 DEF GoOn, IInv, TypeOK
  <2>2. /\ r \in Requests /\ r.kind = "code" /\ r.pc = "settings" /\ r.token = NewToken
        /\ r.set = calls[c].set /\ r.continuation = calls[c].continuation
    BY <1>0 DEF Requests
  <2> HIDE DEF r
  <2>3. Works(c, r)
    BY <1>0, <1>2, <1>4, <2>1, <2>2 DEF Works, Kept
  <2>4. TypeOK'
    BY <1>1, <1>2, <1>4, <2>1, <2>2 DEF IInv, TypeOK, panelVars, deviceVars
  <2>5. calls'[c] = r /\ Busy(c)' /\ \A d \in Calls \ {c} : calls'[d] = calls[d] /\ Busy(d)' = Busy(d)
    BY <2>1, <2>2 DEF Busy, IInv, TypeOK
  <2>6. calls[c].continuation = None /\ ~calls[c].set
    BY <1>0 DEF CallOK
  <2>7. NewToken # Device /\ NewToken # None
    BY <1>0 DEF Known
  <2>8. NewToken \notin recoveryContinuations \cup {continuationId, signedIn}
    BY <1>0 DEF Known
  <2>9. \A d \in Calls \ {c} : Busy(d) => calls[d].token # NewToken
    BY <1>0 DEF Known
  <2>10. UNCHANGED <<recoveryContinuations, continuationId, signedIn>>
    BY <1>2 DEF panelVars
  <2>11. CallOK(c)'
    BY <2>2, <2>5, <2>6, <2>7, <2>8, <2>9, <2>10 DEF CallOK
  <2> QED
    BY <2>3, <2>4, <2>11, WorksIInv
<1> QED
  BY <1>3, <1>4 DEF SubmitCode

\* The type of an answered call.
LEMMA AnswerType ==
    ASSUME TypeOK, NEW c \in Calls, Busy(c), NEW code \in Answers, Answer(c, code)
    PROVE  calls' \in [Calls -> Requests \cup {None}]
<1>1. calls[c] \in Requests
  BY DEF TypeOK, Busy
<1> QED
  BY <1>1 DEF Answer, TypeOK, Requests

\* A continuation is looked up, and stays.
LEMMA GetContinuationIInv ==
    ASSUME IInv, NEW c \in Calls, GetContinuation(c)
    PROVE  IInv'
<1>0. Busy(c) /\ calls[c] \in Requests /\ CallOK(c) /\ calls[c].kind = "continuation" /\ calls[c].pc = "begin"
  BY DEF GetContinuation, At, IInv, TypeOK, Busy
<1>1. UNCHANGED <<kratosVars, panelVars, deviceVars, over, faults, recoveryContinuations>>
  BY DEF GetContinuation
<1>2. CASE Answer(c, "INVALID_CODE")
  <2>1. TypeOK'
    BY <1>0, <1>1, <1>2, AnswerType DEF IInv, TypeOK, Answers, kratosVars, panelVars, deviceVars
  <2>2. ~calls[c].set
    BY <1>0 DEF CallOK
  <2> QED
    BY <1>0, <1>1, <1>2, <2>1, <2>2, FailureWorks DEF Answers, Kept, kratosVars
<1>3. CASE calls[c].token \in recoveryContinuations /\ GoOn(c, "settings", calls[c].token)
  <2> DEFINE r == [calls[c] EXCEPT !.pc = "settings", !.token = calls[c].token]
  <2>1. calls' = [calls EXCEPT ![c] = r]
    BY <1>0, <1>3 DEF GoOn, IInv, TypeOK
  <2>2. /\ r \in Requests /\ r.kind = "continuation" /\ r.pc = "settings" /\ r.token = calls[c].token
        /\ r.set = calls[c].set /\ r.continuation = calls[c].continuation
    BY <1>0 DEF Requests
  <2> HIDE DEF r
  <2>3. Works(c, r)
    BY <1>0, <1>1, <2>1, <2>2 DEF Works, Kept, kratosVars
  <2>4. TypeOK'
    BY <1>1, <2>1, <2>2 DEF IInv, TypeOK, kratosVars, panelVars, deviceVars
  <2>5. calls'[c] = r /\ Busy(c)' /\ Kept' = Kept
    BY <1>1, <2>1, <2>2 DEF Busy, Kept, IInv, TypeOK
  <2>6. calls[c].token \in Kept
    BY <1>3 DEF Kept
  <2>7. CallOK(c)'
    BY <1>0, <2>2, <2>5, <2>6 DEF CallOK
  <2> QED
    BY <2>3, <2>4, <2>7, WorksIInv
<1> QED
  BY <1>2, <1>3 DEF GetContinuation

\* A password change works with a session of its own.
LEMMA ReauthenticateIInv ==
    ASSUME IInv, NEW c \in Calls, Reauthenticate(c)
    PROVE  IInv'
<1>0. /\ Busy(c) /\ calls[c] \in Requests /\ CallOK(c) /\ calls[c].kind = "change" /\ calls[c].pc = "begin"
      /\ NewToken \in Tokens /\ ~Known(NewToken)
  BY NewTokenIsUnknown DEF Reauthenticate, At, IInv, TypeOK, Busy
<1>1. UNCHANGED <<password, mailed, recoveryContinuations, panelVars, deviceVars, faults>>
  BY DEF Reauthenticate
<1>2. ASSUME NEW code \in {"UNAUTHENTICATED", "INVALID_CURRENT_PASSWORD"}, Answer(c, code), UNCHANGED <<ended, over>>
      PROVE  IInv'
  <2>1. TypeOK'
    BY <1>0, <1>1, <1>2, AnswerType DEF IInv, TypeOK, Answers, panelVars, deviceVars
  <2>2. ~calls[c].set
    BY <1>0 DEF CallOK
  <2> QED
    BY <1>0, <1>1, <1>2, <2>1, <2>2, FailureWorks DEF Answers, Kept
<1>3. CASE GoOn(c, "settings", NewToken) /\ ended' = ended \ {NewToken} /\ over' = over \ {NewToken}
  <2> DEFINE r == [calls[c] EXCEPT !.pc = "settings", !.token = NewToken]
  <2>1. calls' = [calls EXCEPT ![c] = r]
    BY <1>0, <1>3 DEF GoOn, IInv, TypeOK
  <2>2. /\ r \in Requests /\ r.kind = "change" /\ r.pc = "settings" /\ r.token = NewToken
        /\ r.set = calls[c].set /\ r.continuation = calls[c].continuation
    BY <1>0 DEF Requests
  <2> HIDE DEF r
  <2>3. Works(c, r)
    BY <1>0, <1>1, <1>3, <2>1, <2>2 DEF Works, Kept
  <2>4. TypeOK'
    BY <1>1, <1>3, <2>1, <2>2 DEF IInv, TypeOK, panelVars, deviceVars
  <2>5. calls'[c] = r /\ Busy(c)'
    BY <2>1, <2>2 DEF Busy, IInv, TypeOK
  <2>6. CallOK(c)'
    BY <1>0, <2>2, <2>5 DEF CallOK
  <2> QED
    BY <2>3, <2>4, <2>6, WorksIInv
<1> QED
  BY <1>2, <1>3 DEF Reauthenticate

\* A call that has moved on is still a call.
LEMMA MovedOnType ==
    ASSUME NEW q \in Requests, NEW next \in {"begin", "settings", "whoami", "answer"},
           NEW a \in Answers \cup {None}, NEW k \in Tokens \cup {None}
    PROVE  /\ [q EXCEPT !.pc = next, !.answer = a] \in Requests
           /\ [q EXCEPT !.pc = next, !.answer = a, !.continuation = k] \in Requests
           /\ [q EXCEPT !.set = TRUE, !.pc = next, !.answer = a] \in Requests
<1>1. [q EXCEPT !.pc = next, !.answer = a] \in Requests
  BY DEF Requests
<1>2. [q EXCEPT !.pc = next, !.answer = a, !.continuation = k] \in Requests
  BY DEF Requests
<1>3. [q EXCEPT !.set = TRUE, !.pc = next, !.answer = a] \in Requests
  BY DEF Requests
<1> QED
  BY <1>1, <1>2, <1>3

\* The password is set, or refused and the session of a spent code kept.
LEMMA SettingsPasswordIInv ==
    ASSUME IInv, NEW c \in Calls, NEW heard \in BOOLEAN, SettingsPassword(c, heard)
    PROVE  IInv'
<1>0. /\ Busy(c) /\ calls[c] \in Requests /\ CallOK(c) /\ calls[c].pc = "settings" /\ ~calls[c].set
      /\ calls[c].continuation = None /\ calls[c].kind \in {"code", "continuation", "change"}
  BY DEF SettingsPassword, At, IInv, TypeOK, Busy, CallOK
<1>1. faults' \in 0..MaxFaults
  BY CostsType DEF SettingsPassword, IInv
<1>2. UNCHANGED <<mailed, ended, panelVars, deviceVars, over>>
  BY DEF SettingsPassword
<1>3. CASE Answer(c, "INTERNAL_ERROR") /\ UNCHANGED <<password, recoveryContinuations>>
  <2>1. TypeOK'
    BY <1>0, <1>1, <1>2, <1>3, AnswerType DEF IInv, TypeOK, Answers, panelVars, deviceVars
  <2> QED
    BY <1>0, <1>2, <1>3, <2>1, FailureWorks DEF Answers, Kept
<1>4. CASE RejectPassword(c) /\ UNCHANGED password
  <2> DEFINE kept == IF calls[c].kind = "change" THEN None ELSE calls[c].token
             r == [calls[c] EXCEPT !.pc = "answer", !.answer = "PASSWORD_REJECTED", !.continuation = kept]
  <2>1. calls' = [calls EXCEPT ![c] = r]
    BY <1>0, <1>4 DEF RejectPassword, IInv, TypeOK
  <2>2. /\ r \in Requests /\ r.kind = calls[c].kind /\ r.pc = "answer" /\ r.token = calls[c].token
        /\ r.set = calls[c].set /\ r.continuation = kept /\ r.answer = "PASSWORD_REJECTED"
    <3>1. "PASSWORD_REJECTED" \in Answers /\ kept \in Tokens \cup {None}
      BY <1>0 DEF Answers, Requests
    <3> HIDE DEF kept
    <3>2. r \in Requests
      BY <1>0, <3>1, MovedOnType
    <3>3. r.kind = calls[c].kind /\ r.pc = "answer" /\ r.token = calls[c].token /\ r.continuation = kept
      BY <1>0 DEF Requests
    <3>4. r.set = calls[c].set /\ r.answer = "PASSWORD_REJECTED"
      BY <1>0 DEF Requests
    <3> QED
      BY <3>2, <3>3, <3>4
  <2>3. /\ recoveryContinuations' = recoveryContinuations \cup (IF calls[c].kind = "code" THEN {calls[c].token} ELSE {})
        /\ calls[c].kind = "code" => calls[c].token \in Tokens
    BY <1>0, <1>4 DEF RejectPassword, CallOK, Requests
  <2> HIDE DEF r
  <2>4. Works(c, r)
    BY <1>0, <1>2, <2>1, <2>2, <2>3 DEF Works, Kept
  <2>5. TypeOK'
    BY <1>1, <1>2, <1>4, <2>1, <2>2, <2>3 DEF IInv, TypeOK, panelVars, deviceVars
  <2>6. calls'[c] = r /\ Busy(c)'
    BY <2>1, <2>2 DEF Busy, IInv, TypeOK
  <2>7. calls[c].kind # "change" => calls[c].token \in Kept' /\ calls[c].token # None /\ calls[c].token # Device
    BY <1>0, <1>2, <2>3 DEF CallOK, Kept
  <2> HIDE DEF Kept
  <2>8. CallOK(c)'
    BY <1>0, <2>2, <2>6, <2>7 DEF CallOK
  <2> QED
    BY <2>4, <2>5, <2>8, WorksIInv
<1>5. ASSUME NEW next, NEW reply,
             next = IF heard /\ calls[c].kind # "change" THEN "whoami" ELSE "answer",
             reply = IF ~heard THEN "INTERNAL_ERROR" ELSE IF calls[c].kind = "change" THEN "OK" ELSE None,
             calls' = [calls EXCEPT ![c].set = TRUE, ![c].pc = next, ![c].answer = reply],
             password' = calls[c].password, UNCHANGED recoveryContinuations
      PROVE  IInv'
  <2> DEFINE r == [calls[c] EXCEPT !.set = TRUE, !.pc = next, !.answer = reply]
  <2>1. calls' = [calls EXCEPT ![c] = r]
    BY <1>0, <1>5 DEF IInv, TypeOK
  <2>2. /\ r \in Requests /\ r.kind = calls[c].kind /\ r.pc = next /\ r.token = calls[c].token
        /\ r.set = TRUE /\ r.continuation = None /\ r.answer = reply
    <3>1. next \in {"whoami", "answer"} /\ reply \in Answers \cup {None}
      BY <1>5 DEF Answers
    <3>2. r \in Requests
      BY <1>0, <3>1, MovedOnType
    <3>3. r.kind = calls[c].kind /\ r.pc = next /\ r.token = calls[c].token /\ r.continuation = None
      BY <1>0 DEF Requests
    <3>4. r.set = TRUE /\ r.answer = reply
      BY <1>0 DEF Requests
    <3> QED
      BY <3>2, <3>3, <3>4
  <2> HIDE DEF r
  <2>3. Works(c, r)
    BY <1>0, <1>2, <1>5, <2>1, <2>2 DEF Works, Kept
  <2>4. TypeOK'
    <3>1. password' \in Passwords
      BY <1>0, <1>5 DEF Requests
    <3>2. calls' \in [Calls -> Requests \cup {None}]
      BY <2>1, <2>2 DEF IInv, TypeOK
    <3> QED
      BY <1>1, <1>2, <1>5, <3>1, <3>2 DEF IInv, TypeOK, panelVars, deviceVars
  <2>5. calls'[c] = r /\ Busy(c)' /\ Kept' = Kept
    BY <1>2, <1>5, <2>1, <2>2 DEF Busy, Kept, IInv, TypeOK
  <2>6. CallOK(c)'
    BY <1>0, <1>5, <2>2, <2>5 DEF CallOK
  <2> QED
    BY <2>3, <2>4, <2>6, WorksIInv
<1> QED
  BY <1>3, <1>4, <1>5 DEF SettingsPassword

\* A continuation that is too old is deleted.
LEMMA NoLongerPrivilegedIInv ==
    ASSUME IInv, NEW c \in Calls, NoLongerPrivileged(c)
    PROVE  IInv'
<1>0. Busy(c) /\ CallOK(c) /\ calls[c].kind = "continuation" /\ calls[c].pc = "settings" /\ ~calls[c].set
  BY DEF NoLongerPrivileged, At, IInv, CallOK
<1>1. calls[c].token \in Tokens
  BY <1>0 DEF IInv, TypeOK, Busy, Requests, CallOK
<1>2. TypeOK'
  BY <1>0, <1>1, AnswerType DEF NoLongerPrivileged, IInv, TypeOK, Answers, kratosVars, panelVars, deviceVars
<1> QED
  BY <1>0, <1>2, FailureWorks DEF NoLongerPrivileged, Answers, Kept, kratosVars

\* The session is read: the recovery is over, and so is its continuation.
LEMMA WhoAmIIInv ==
    ASSUME IInv, NEW c \in Calls, WhoAmI(c) \/ ProfileFails(c)
    PROVE  IInv'
<1>0. /\ Busy(c) /\ calls[c] \in Requests /\ CallOK(c) /\ calls[c].kind # "change" /\ calls[c].pc = "whoami"
      /\ calls[c].set /\ calls[c].token \in Tokens /\ calls[c].continuation = None
  BY DEF WhoAmI, ProfileFails, At, IInv, TypeOK, Busy, CallOK, Requests
<1>1. UNCHANGED <<kratosVars, panelVars, deviceVars>> /\ faults' \in 0..MaxFaults
  BY CostsType DEF WhoAmI, ProfileFails, IInv, TypeOK
<1>2. /\ recoveryContinuations' \subseteq recoveryContinuations
      /\ over \subseteq over' /\ over' \subseteq Tokens /\ Kept \subseteq Kept'
  BY <1>0 DEF WhoAmI, ProfileFails, Kept, IInv, TypeOK
<1>3. CASE Answer(c, "INTERNAL_ERROR")
  <2>1. TypeOK'
    BY <1>0, <1>1, <1>2, <1>3, AnswerType DEF IInv, TypeOK, Answers, kratosVars, panelVars, deviceVars
  <2> QED
    BY <1>0, <1>1, <1>2, <1>3, <2>1, FailureWorks DEF Answers, kratosVars
<1>4. CASE Answer(c, "OK") /\ recoveryContinuations' = recoveryContinuations \ {calls[c].token}
  <2> DEFINE r == [calls[c] EXCEPT !.pc = "answer", !.answer = "OK"]
  <2>1. calls' = [calls EXCEPT ![c] = r]
    BY <1>0, <1>4 DEF Answer, IInv, TypeOK
  <2>2. /\ r \in Requests /\ r.kind = calls[c].kind /\ r.pc = "answer" /\ r.token = calls[c].token
        /\ r.set = calls[c].set /\ r.continuation = None /\ r.answer = "OK"
    <3>1. "OK" \in Answers
      BY DEF Answers
    <3>2. r \in Requests
      BY <1>0, <3>1, MovedOnType
    <3>3. r.kind = calls[c].kind /\ r.pc = "answer" /\ r.token = calls[c].token /\ r.continuation = None
      BY <1>0 DEF Requests
    <3>4. r.set = calls[c].set /\ r.answer = "OK"
      BY <1>0 DEF Requests
    <3> QED
      BY <3>2, <3>3, <3>4
  <2> HIDE DEF r
  <2>3. Works(c, r)
    BY <1>0, <1>1, <1>2, <2>1, <2>2 DEF Works, kratosVars
  <2>4. TypeOK'
    BY <1>1, <1>2, <2>1, <2>2 DEF IInv, TypeOK, kratosVars, panelVars, deviceVars
  <2>5. calls'[c] = r /\ Busy(c)'
    BY <2>1, <2>2 DEF Busy, IInv, TypeOK
  <2>6. calls[c].token \notin recoveryContinuations' /\ calls[c].token # None /\ calls[c].token # Device
    BY <1>0, <1>4 DEF CallOK
  <2>7. CallOK(c)'
    BY <1>0, <2>2, <2>5, <2>6 DEF CallOK
  <2> QED
    BY <2>3, <2>4, <2>7, WorksIInv
<1> QED
  BY <1>3, <1>4 DEF WhoAmI, ProfileFails

-----------------------------------------------------------------------------
(* The panel, the store and the other device *)

\* What the calls are owed does not change when the panel forgets its continuation, and not at
\* all when neither the calls nor what they are compared with change.
LEMMA CallsUntouched ==
    ASSUME IInv, UNCHANGED <<calls, recoveryContinuations, over, signedIn>>,
           continuationId' \in {continuationId, None}
    PROVE  \A c \in Calls : CallOK(c)'
<1> SUFFICES ASSUME NEW c \in Calls
             PROVE  CallOK(c)'
  OBVIOUS
<1>1. CallOK(c) /\ UNCHANGED <<Kept, calls>> /\ \A d \in Calls : Busy(d)' = Busy(d)
  BY DEF IInv, Kept, Busy
<1> HIDE DEF Kept
<1> QED
  BY <1>1 DEF CallOK

\* A call that nobody knows is there when one is to begin.
LEMMA NewCallIsFree ==
    ASSUME CallsLeft
    PROVE  NewCall \in Calls /\ calls[NewCall] = None
  BY DEF CallsLeft, NewCall, Busy

\* A call that begins is in order, and takes nothing from the others.
LEMMA CallBegins ==
    ASSUME IInv, NEW c \in Calls, calls[c] = None, NEW r \in Requests, calls' = [calls EXCEPT ![c] = r],
           UNCHANGED <<recoveryContinuations, over, signedIn, continuationId>>,
           r.pc = "begin", r.continuation = None, ~r.set, r.token \in {None, continuationId},
           r.kind = "continuation" => r.token # None
    PROVE  (\A d \in Calls : CallOK(d)') /\ calls' \in [Calls -> Requests \cup {None}]
<1>1. /\ calls'[c] = r /\ Busy(c)' /\ ~Busy(c)
      /\ \A d \in Calls \ {c} : calls'[d] = calls[d] /\ Busy(d)' = Busy(d)
  BY DEF Busy, IInv, TypeOK
<1>2. CallOK(c)'
  BY <1>1 DEF CallOK, IInv, PanelOK
<1>3. ASSUME NEW d \in Calls \ {c}
      PROVE  CallOK(d)'
  <2>1. CallOK(d) /\ UNCHANGED Kept
    BY DEF IInv, Kept
  <2> HIDE DEF Kept
  <2> QED
    BY <1>1, <2>1 DEF CallOK
<1> QED
  BY <1>2, <1>3 DEF IInv, TypeOK

\* A new code takes the continuation of the old one away from the panel.
LEMMA RequestCodeIInv ==
    ASSUME IInv, NEW heard \in BOOLEAN, RequestCode(heard)
    PROVE  IInv'
<1>1. /\ UNCHANGED <<password, ended, calls, recoveryContinuations, waiting, signedIn, rows, hidden,
                     revoking, over>>
      /\ continuationId' \in {continuationId, None} /\ notice' \in {None, "INTERNAL_ERROR"}
      /\ NewFlow \in Flows /\ mailed' = mailed \cup {NewFlow} /\ flowId' \in {flowId, NewFlow}
  BY DEF RequestCode, FlowsLeft, NewFlow, deviceVars
<1>2. faults' \in 0..MaxFaults
  BY CostsType DEF RequestCode, IInv
<1>3. TypeOK'
  BY <1>1, <1>2 DEF IInv, TypeOK, Answers
<1>4. \A c \in Calls : CallOK(c)'
  BY <1>1, CallsUntouched
<1>5. None # Device /\ None # "PASSWORD_REJECTED"
  BY DEF Answers
<1>6. PanelOK'
  BY <1>1, <1>5 DEF IInv, PanelOK, Busy, RejectedPasswordKeepsAWayBack, SignedInSessionIsSettled
<1> QED
  BY <1>1, <1>3, <1>4, <1>6 DEF IInv, DeviceOK

\* A try with the continuation the panel has, or with the code.
LEMMA SubmitIInv ==
    ASSUME IInv, NEW right \in BOOLEAN, NEW p \in Passwords, Submit(right, p)
    PROVE  IInv'
<1> DEFINE kind == IF continuationId # None THEN "continuation" ELSE "code"
           r == [kind |-> kind, pc |-> "begin",
                 flow |-> flowId, right |-> right, current |-> None, password |-> p,
                 token |-> continuationId, answer |-> None, continuation |-> None, set |-> FALSE]
<1>1. /\ UNCHANGED <<kratosVars, recoveryContinuations, flowId, continuationId, signedIn, deviceVars, over>>
      /\ calls' = [calls EXCEPT ![NewCall] = r] /\ waiting' = NewCall /\ notice' = None
      /\ NewCall \in Calls /\ calls[NewCall] = None
  BY NewCallIsFree DEF Submit
<1>2. faults' \in 0..MaxFaults
  BY CostsType DEF Submit, IInv
<1>3. r \in Requests
  <2>1. /\ kind \in {"code", "continuation", "change"} /\ flowId \in Flows \cup {None}
        /\ continuationId \in Tokens \cup {None}
    BY DEF IInv, TypeOK
  <2> HIDE DEF kind
  <2> QED
    BY <2>1 DEF Requests
<1>4. /\ r.pc = "begin" /\ r.continuation = None /\ ~r.set /\ r.token \in {None, continuationId}
      /\ (r.kind = "continuation" => r.token # None) /\ r.kind # "change"
  OBVIOUS
<1> HIDE DEF r
<1>5. (\A d \in Calls : CallOK(d)') /\ calls' \in [Calls -> Requests \cup {None}]
  BY <1>1, <1>3, <1>4, CallBegins
<1>6. TypeOK'
  BY <1>1, <1>2, <1>5 DEF IInv, TypeOK, kratosVars, deviceVars
<1>7. waiting' # None => Busy(waiting)' /\ calls'[waiting'].kind # "change"
  BY <1>1, <1>3, <1>4 DEF Busy, IInv, TypeOK
<1>8. None # "PASSWORD_REJECTED"
  BY DEF Answers
<1>9. PanelOK'
  BY <1>1, <1>7, <1>8 DEF IInv, PanelOK, RejectedPasswordKeepsAWayBack, SignedInSessionIsSettled
<1> QED
  BY <1>1, <1>5, <1>6, <1>9 DEF IInv, DeviceOK, kratosVars, deviceVars

\* The panel waits no longer.
LEMMA GiveUpIInv ==
    ASSUME IInv, GiveUp
    PROVE  IInv'
<1>1. /\ UNCHANGED <<kratosVars, calls, recoveryContinuations, flowId, continuationId, notice, signedIn,
                     deviceVars, over>>
      /\ waiting' = None /\ faults' \in 0..MaxFaults
  BY CostsType DEF GiveUp, IInv
<1>2. \A c \in Calls : CallOK(c)'
  BY <1>1, CallsUntouched
<1> QED
  BY <1>1, <1>2 DEF IInv, TypeOK, PanelOK, DeviceOK, RejectedPasswordKeepsAWayBack,
                    SignedInSessionIsSettled, kratosVars, deviceVars

\* The panel learns of the session of a call that had shared it, or that nobody else used.
LEMMA DeliverIInv ==
    ASSUME IInv, NEW c \in Calls, Deliver(c)
    PROVE  IInv'
<1>0. Busy(c) /\ calls[c].pc = "answer" /\ calls[c] \in Requests /\ CallOK(c) /\ calls' = [calls EXCEPT ![c] = None]
  BY DEF Deliver, IInv, TypeOK, Busy
<1>1. UNCHANGED <<kratosVars, recoveryContinuations, deviceVars, over, faults, Kept>>
  BY DEF Deliver, Kept
<1>2. /\ ~Busy(c)' /\ \A d \in Calls \ {c} : calls'[d] = calls[d] /\ Busy(d)' = Busy(d)
      /\ calls' \in [Calls -> Requests \cup {None}]
  BY <1>0 DEF Busy, IInv, TypeOK
<1>3. CASE waiting # c
  <2>1. UNCHANGED <<flowId, continuationId, waiting, notice, signedIn>>
    BY <1>3 DEF Deliver, panelVars
  <2>2. TypeOK'
    BY <1>1, <1>2, <2>1 DEF IInv, TypeOK, kratosVars, deviceVars
  <2>3. ASSUME NEW d \in Calls
        PROVE  CallOK(d)'
    <3>1. CallOK(d)
      BY DEF IInv
    <3> HIDE DEF Kept
    <3> QED
      BY <1>1, <1>2, <2>1, <3>1 DEF CallOK
  <2>4. waiting' # None => Busy(waiting)' /\ calls'[waiting'].kind # "change"
    BY <1>2, <1>3, <2>1 DEF IInv, TypeOK, PanelOK
  <2>5. PanelOK'
    BY <1>1, <2>1, <2>4 DEF IInv, PanelOK, RejectedPasswordKeepsAWayBack, SignedInSessionIsSettled
  <2> QED
    BY <1>1, <2>2, <2>3, <2>5 DEF IInv, DeviceOK, kratosVars, deviceVars
<1>4. CASE waiting = c
  <2> DEFINE r == calls[c]
  <2>1. /\ waiting' = None /\ flowId' = flowId /\ r.kind # "change"
        /\ signedIn' = IF r.answer = "OK" THEN r.token ELSE signedIn
        /\ notice' = IF r.answer = "OK" THEN notice ELSE r.answer
        /\ continuationId' = IF r.continuation # None THEN r.continuation
                             ELSE IF r.answer = "INVALID_CODE" THEN None ELSE continuationId
    <3>1. waiting # None /\ r.kind # "change"
      BY <1>0, <1>4 DEF IInv, PanelOK
    <3> QED
      BY <1>4, <3>1 DEF Deliver
  <2>2. r.continuation \in Tokens \cup {None} /\ r.token \in Tokens \cup {None} /\ r.answer \in Answers \cup {None}
    BY <1>0 DEF Requests
  <2>3. TypeOK'
    BY <1>1, <1>2, <2>1, <2>2 DEF IInv, TypeOK, kratosVars, deviceVars
  <2>4. /\ r.continuation # Device /\ (r.continuation # None => r.continuation = r.token /\ r.continuation \in Kept)
        /\ (r.answer = "PASSWORD_REJECTED" => r.continuation # None)
        /\ (r.answer = "OK" => r.token # Device /\ r.token \notin recoveryContinuations)
    BY <1>0, <2>1 DEF CallOK
  <2>5. signedIn' \in {signedIn, r.token} /\ continuationId' \in {continuationId, r.token, None}
    BY <2>1, <2>4
  <2>6. ASSUME NEW d \in Calls
        PROVE  CallOK(d)'
    <3> SUFFICES ASSUME d # c, Busy(d)
                 PROVE  CallOK(d)'
      BY <1>2 DEF CallOK
    <3>1. CallOK(d) /\ calls'[d] = calls[d]
      BY <1>2 DEF IInv
    <3>2. calls[d].kind = "code" /\ calls[d].pc = "settings" =>
             calls[d].token \notin {signedIn, continuationId, r.token, None}
      BY <1>0, <3>1 DEF CallOK
    <3> HIDE DEF Kept, r
    <3> QED
      BY <1>1, <1>2, <2>5, <3>1, <3>2 DEF CallOK
  <2>7. None # Device /\ RejectedPasswordKeepsAWayBack /\ SignedInSessionIsSettled /\ continuationId # Device
    BY DEF IInv, PanelOK
  <2>8. RejectedPasswordKeepsAWayBack'
    BY <1>1, <2>1, <2>4, <2>7 DEF RejectedPasswordKeepsAWayBack, Kept
  <2>9. SignedInSessionIsSettled'
    BY <1>1, <2>1, <2>4, <2>7 DEF SignedInSessionIsSettled
  <2>10. PanelOK'
    BY <2>1, <2>4, <2>7, <2>8, <2>9 DEF PanelOK
  <2> QED
    BY <1>1, <2>3, <2>6, <2>10 DEF IInv, DeviceOK, kratosVars, deviceVars
<1> QED
  BY <1>3, <1>4

\* Another device begins to change the password.
LEMMA ChangePasswordIInv ==
    ASSUME IInv, NEW current \in Passwords, NEW p \in Passwords, ChangePassword(current, p)
    PROVE  IInv'
<1> DEFINE r == [kind |-> "change", pc |-> "begin", flow |-> None, right |-> FALSE, current |-> current,
                 password |-> p, token |-> None, answer |-> None, continuation |-> None, set |-> FALSE]
<1>1. /\ UNCHANGED <<kratosVars, recoveryContinuations, panelVars, deviceVars, over>>
      /\ calls' = [calls EXCEPT ![NewCall] = r] /\ NewCall \in Calls /\ calls[NewCall] = None
  BY NewCallIsFree DEF ChangePassword
<1>2. faults' \in 0..MaxFaults
  BY CostsType DEF ChangePassword, IInv
<1>3. r \in Requests
  BY DEF Requests
<1>4. r.pc = "begin" /\ r.continuation = None /\ ~r.set /\ r.token = None /\ r.kind = "change"
  OBVIOUS
<1> HIDE DEF r
<1>5. (\A d \in Calls : CallOK(d)') /\ calls' \in [Calls -> Requests \cup {None}]
  BY <1>1, <1>3, <1>4, CallBegins DEF panelVars
<1>6. TypeOK'
  BY <1>1, <1>2, <1>5 DEF IInv, TypeOK, kratosVars, panelVars, deviceVars
<1>7. waiting' # None => Busy(waiting)' /\ calls'[waiting'].kind # "change"
  BY <1>1, <1>3 DEF Busy, IInv, TypeOK, PanelOK, panelVars
<1>8. PanelOK'
  BY <1>1, <1>7 DEF IInv, PanelOK, RejectedPasswordKeepsAWayBack, SignedInSessionIsSettled, panelVars
<1> QED
  BY <1>1, <1>5, <1>6, <1>8 DEF IInv, DeviceOK, kratosVars, deviceVars

\* Time takes continuations out of the store, and so does a restart, which fails all calls besides.
LEMMA StoreEmptiesIInv ==
    ASSUME IInv, (\E t \in Tokens : Expire(t)) \/ Restart
    PROVE  IInv'
<1>1. /\ UNCHANGED <<kratosVars, panelVars, deviceVars>> /\ recoveryContinuations' \subseteq recoveryContinuations
      /\ Kept' = Kept /\ over' \subseteq Tokens
  <2>1. CASE \E t \in Tokens : Expire(t)
    BY <2>1 DEF Expire, Kept, IInv, TypeOK
  <2>2. CASE Restart
    BY <2>2 DEF Restart, Kept, IInv, TypeOK
  <2> QED
    BY <2>1, <2>2
<1>2. faults' \in 0..MaxFaults
  BY CostsType DEF Expire, Restart, IInv, TypeOK
<1>3. ASSUME NEW c \in Calls
      PROVE  /\ calls'[c] \in Requests \cup {None} /\ Busy(c)' = Busy(c)
             /\ Busy(c) => \/ calls'[c] = calls[c]
                           \/ /\ calls[c].pc # "answer" /\ calls'[c].pc = "answer"
                              /\ calls'[c].answer = "INTERNAL_ERROR"
                              /\ calls'[c].kind = calls[c].kind /\ calls'[c].token = calls[c].token
                              /\ calls'[c].continuation = calls[c].continuation
                              /\ calls'[c].set = calls[c].set
  <2>1. CASE calls'[c] = calls[c]
    BY <2>1 DEF Busy, IInv, TypeOK
  <2>2. CASE Busy(c) /\ calls[c].pc # "answer" /\ calls'[c] = [calls[c] EXCEPT !.pc = "answer", !.answer = "INTERNAL_ERROR"]
    <3>1. calls[c] \in Requests
      BY <2>2 DEF Busy, IInv, TypeOK
    <3>2. "INTERNAL_ERROR" \in Answers
      BY DEF Answers
    <3>3. calls'[c] \in Requests
      <4>1. \A q \in Requests : [q EXCEPT !.pc = "answer", !.answer = "INTERNAL_ERROR"] \in Requests
        BY <3>2, MovedOnType
      <4> QED
        BY <2>2, <3>1, <4>1
    <3>4. /\ calls'[c].pc = "answer" /\ calls'[c].answer = "INTERNAL_ERROR"
          /\ calls'[c].kind = calls[c].kind /\ calls'[c].token = calls[c].token
          /\ calls'[c].continuation = calls[c].continuation
      BY <2>2, <3>1 DEF Requests
    <3>5. calls'[c].set = calls[c].set
      BY <2>2, <3>1 DEF Requests
    <3> QED
      BY <2>2, <3>3, <3>4, <3>5 DEF Busy
  <2> QED
    BY <2>1, <2>2 DEF Expire, Restart
<1>4. calls' \in [Calls -> Requests \cup {None}]
  <2>1. CASE calls' = calls
    BY <2>1 DEF IInv, TypeOK
  <2>2. CASE Restart
    <3> DEFINE f(c) == IF Busy(c) /\ calls[c].pc # "answer"
                       THEN [calls[c] EXCEPT !.pc = "answer", !.answer = "INTERNAL_ERROR"]
                       ELSE calls[c]
    <3>1. calls' = [c \in Calls |-> f(c)]
      BY <2>2 DEF Restart
    <3> HIDE DEF f
    <3> QED
      BY <1>3, <3>1
  <2> QED
    BY <2>1, <2>2 DEF Expire
<1>5. TypeOK'
  BY <1>1, <1>2, <1>4 DEF IInv, TypeOK, kratosVars, panelVars, deviceVars
<1>6. ASSUME NEW c \in Calls
      PROVE  CallOK(c)'
  <2>1. CallOK(c) /\ \A d \in Calls : Busy(d) => calls'[d].token = calls[d].token
    BY <1>3 DEF IInv
  <2> HIDE DEF Kept
  <2> QED
    BY <1>1, <1>3, <2>1 DEF CallOK, panelVars
<1>7. waiting' # None => Busy(waiting)' /\ calls'[waiting'].kind # "change"
  BY <1>1, <1>3 DEF IInv, TypeOK, PanelOK, panelVars
<1>8. PanelOK'
  BY <1>1, <1>7 DEF IInv, PanelOK, RejectedPasswordKeepsAWayBack, SignedInSessionIsSettled, Kept, panelVars
<1> QED
  BY <1>1, <1>5, <1>6, <1>8 DEF IInv, DeviceOK, kratosVars, deviceVars

\* Sessions and codes end, and the other device lists sessions and asks to end them.
LEMMA ElsewhereIInv ==
    ASSUME IInv,
           \/ ListSessions \/ CurrentSession \/ RevocationFails \/ RevokeAnswered
           \/ \E targets \in SUBSET rows, all \in BOOLEAN : Revoke(targets, all)
           \/ \E heard \in BOOLEAN : RevokeSessions(heard)
           \/ \E t \in Tokens : EndSession(t)
           \/ \E f \in Flows : ExpireCode(f)
    PROVE  IInv'
<1>1. UNCHANGED <<password, calls, recoveryContinuations, panelVars, over>>
  BY DEF ListSessions, CurrentSession, RevocationFails, RevokeAnswered, Revoke, RevokeSessions, Ending,
         EndSession, ExpireCode, kratosVars
<1>2. faults' \in 0..MaxFaults
  BY CostsType DEF ListSessions, CurrentSession, RevocationFails, RevokeAnswered, Revoke, RevokeSessions, Ending,
         EndSession, ExpireCode, IInv, TypeOK
<1>3. mailed' \subseteq mailed /\ ended \subseteq ended' /\ ended' \subseteq Tokens
  BY DEF ListSessions, CurrentSession, RevocationFails, RevokeAnswered, Revoke, RevokeSessions, Ending,
         EndSession, ExpireCode, kratosVars, IInv, TypeOK,
         Revocations
<1>4. rows' \subseteq Tokens /\ hidden' \subseteq Tokens /\ revoking' \in Revocations \cup {None} /\ DeviceOK'
  <2>0. /\ DeviceOK /\ rows \subseteq Tokens /\ hidden \subseteq Tokens /\ revoking \in Revocations \cup {None}
    BY DEF IInv, TypeOK
  <2>1. CASE ListSessions
    BY <2>0, <2>1 DEF ListSessions, DeviceOK
  <2>2. CASE RevokeAnswered
    BY <2>0, <2>2 DEF RevokeAnswered, DeviceOK, Revocations, kratosVars
  <2>3. CASE \E targets \in SUBSET rows, all \in BOOLEAN : Revoke(targets, all)
    <3>1. PICK targets \in SUBSET rows, all \in BOOLEAN : Revoke(targets, all)
      BY <2>3
    <3>2. /\ revoking' = [targets |-> targets, all |-> all, pc |-> "begin", ok |-> FALSE]
          /\ UNCHANGED <<rows, hidden, ended>>
      BY <3>1 DEF Revoke, kratosVars
    <3>3. revoking' \in Revocations
      BY <2>0, <3>2 DEF Revocations
    <3>4. revoking'.targets = targets /\ revoking'.pc = "begin" /\ ~revoking'.ok
      BY <3>2
    <3> QED
      BY <2>0, <3>2, <3>3, <3>4 DEF DeviceOK
  <2>4. CASE \E heard \in BOOLEAN : RevokeSessions(heard)
    <3>1. PICK heard \in BOOLEAN : RevokeSessions(heard)
      BY <2>4
    <3> DEFINE may == MayEnd(revoking)
               ok == may /\ heard
    <3>2. /\ revoking # None /\ revoking \in Revocations
          /\ revoking' = [revoking EXCEPT !.pc = "answer", !.ok = ok] /\ UNCHANGED <<rows, hidden>>
      BY <2>0, <3>1 DEF RevokeSessions
    <3>3. may => revoking.targets \subseteq ended'
      <4>1. revoking.targets \subseteq rows /\ \A t \in rows : Known(t) /\ t # Device
        BY <2>0, <3>2 DEF DeviceOK, Known
      <4> QED
        BY <2>0, <3>1, <4>1 DEF RevokeSessions, Ending
    <3>4. ok \in BOOLEAN
      BY DEF MayEnd
    <3>5. ok => revoking.targets \subseteq ended'
      BY <3>3
    <3> HIDE DEF ok, may
    <3>6. revoking' \in Revocations /\ revoking'.targets = revoking.targets
      BY <3>2, <3>4 DEF Revocations
    <3>7. revoking'.ok = ok /\ revoking'.pc = "answer"
      BY <3>2 DEF Revocations
    <3> QED
      BY <1>3, <2>0, <3>2, <3>5, <3>6, <3>7 DEF DeviceOK
  <2>5. CASE UNCHANGED <<rows, hidden, revoking>>
    BY <1>3, <2>0, <2>5 DEF DeviceOK
  <2>6. CASE CurrentSession \/ RevocationFails
    <3>1. PICK step \in {"revoke", "answer"} : revoking' = [revoking EXCEPT !.pc = step]
      BY <2>6 DEF CurrentSession, RevocationFails
    <3>2. /\ revoking # None /\ revoking \in Revocations /\ revoking.pc # "answer"
          /\ UNCHANGED <<rows, hidden, ended>>
      BY <2>0, <2>6 DEF CurrentSession, RevocationFails, kratosVars
    <3>3. revoking' \in Revocations /\ revoking'.targets = revoking.targets /\ revoking'.ok = revoking.ok
      BY <3>1, <3>2 DEF Revocations
    <3>4. ~revoking.ok
      BY <2>0, <3>2 DEF DeviceOK
    <3> QED
      BY <2>0, <3>2, <3>3, <3>4 DEF DeviceOK
  <2> QED
    BY <2>1, <2>2, <2>3, <2>4, <2>5, <2>6 DEF EndSession, ExpireCode, deviceVars
<1>5. \A c \in Calls : CallOK(c)'
  BY <1>1, CallsUntouched DEF panelVars
<1>6. TypeOK'
  BY <1>1, <1>2, <1>3, <1>4 DEF IInv, TypeOK, panelVars
<1>7. PanelOK'
  BY <1>1 DEF IInv, PanelOK, Busy, RejectedPasswordKeepsAWayBack, SignedInSessionIsSettled, panelVars
<1> QED
  BY <1>4, <1>5, <1>6, <1>7 DEF IInv

-----------------------------------------------------------------------------
(* The theorems *)

\* Every step keeps the invariant.
LEMMA NextIInv == IInv /\ [Next]_vars => IInv'
<1> SUFFICES ASSUME IInv, [Next]_vars
             PROVE  IInv'
  OBVIOUS
<1>1. ASSUME NEW c \in Calls,
             \/ Step(c) \/ SubmitCode(c, FALSE) \/ SettingsPassword(c, FALSE)
             \/ NoLongerPrivileged(c) \/ ProfileFails(c) \/ KratosFails(c)
      PROVE  IInv'
  BY <1>1, SubmitCodeIInv, GetContinuationIInv, ReauthenticateIInv, SettingsPasswordIInv, WhoAmIIInv,
     DeliverIInv, NoLongerPrivilegedIInv, KratosFailsIInv DEF Step
<1>2. CASE \E heard \in BOOLEAN : RequestCode(heard)
  BY <1>2, RequestCodeIInv
<1>3. CASE \E right \in BOOLEAN, p \in Passwords : Submit(right, p)
  BY <1>3, SubmitIInv
<1>4. CASE \E current, p \in Passwords : ChangePassword(current, p)
  BY <1>4, ChangePasswordIInv
<1>5. CASE GiveUp
  BY <1>5, GiveUpIInv
<1>6. CASE (\E t \in Tokens : Expire(t)) \/ Restart
  BY <1>6, StoreEmptiesIInv
<1>7. CASE \/ ListSessions \/ CurrentSession \/ RevocationFails \/ RevokeAnswered
           \/ \E targets \in SUBSET rows, all \in BOOLEAN : Revoke(targets, all)
           \/ \E heard \in BOOLEAN : RevokeSessions(heard)
           \/ \E t \in Tokens : EndSession(t)
           \/ \E f \in Flows : ExpireCode(f)
  BY <1>7, ElsewhereIInv
<1>8. CASE UNCHANGED vars
  <2>1. UNCHANGED <<password, mailed, ended, calls, recoveryContinuations, flowId, continuationId, waiting,
                    notice, signedIn, rows, hidden, revoking, over, faults>>
    BY <1>8 DEF vars, kratosVars, panelVars, deviceVars
  <2>2. \A c \in Calls : CallOK(c)'
    BY <2>1, CallsUntouched
  <2>3. TypeOK' /\ DeviceOK'
    BY <2>1 DEF IInv, TypeOK, DeviceOK
  <2>4. PanelOK'
    BY <2>1 DEF IInv, PanelOK, Busy, RejectedPasswordKeepsAWayBack, SignedInSessionIsSettled
  <2> QED
    BY <2>2, <2>3, <2>4 DEF IInv
<1> QED
  BY <1>1, <1>2, <1>3, <1>4, <1>5, <1>6, <1>7, <1>8 DEF Next

\* The types of the state, which the other theorems stand on.
THEOREM SpecTypeOK == Spec => []TypeOK
<1>1. IInv => TypeOK
  BY DEF IInv
<1> QED
  BY <1>1, InitIInv, NextIInv, PTL DEF Spec

\* Whatever failed, and wherever, the answer of a recovery or a password change does not deny a
\* change that was made, nor report one that was not (auth.go).
THEOREM SpecAnswersTellTheTruth == Spec => []AnswersTellTheTruth
<1>1. IInv => AnswersTellTheTruth
  BY DEF IInv, CallOK, AnswersTellTheTruth
<1> QED
  BY <1>1, InitIInv, NextIInv, PTL DEF Spec

\* A panel that was told that the password is refused can go on without a new code, for as long
\* as the store promises (recovery_continuation.go).
THEOREM SpecRejectedPasswordKeepsAWayBack == Spec => []RejectedPasswordKeepsAWayBack
<1>1. IInv => RejectedPasswordKeepsAWayBack
  BY DEF IInv, PanelOK
<1> QED
  BY <1>1, InitIInv, NextIInv, PTL DEF Spec

\* A session that the user was given is not in the store, and nobody puts it there (auth.go,
\* recovery_continuation.go).
THEOREM SpecSignedInSessionIsSettled == Spec => []SignedInSessionIsSettled
<1>1. IInv => SignedInSessionIsSettled
  BY DEF IInv, PanelOK
<1> QED
  BY <1>1, InitIInv, NextIInv, PTL DEF Spec

\* The list of sessions hides none that is still active (ProfileSessions.tsx, sessions.go).
THEOREM SpecHiddenRowsHaveEnded == Spec => []HiddenRowsHaveEnded
<1>1. IInv => HiddenRowsHaveEnded
  BY DEF IInv, DeviceOK, HiddenRowsHaveEnded
<1> QED
  BY <1>1, InitIInv, NextIInv, PTL DEF Spec

-----------------------------------------------------------------------------
(* Rate limiter *)

USE RatesAssumption, NoBucketAssumption

\* What was admitted since some admission, and what is left, stays within the promise.
CreditInv ==
    \A k \in Clients : \A i \in 1..Len(log[k]) :
        (Len(log[k]) - i + 1) * Cost + Credit(k) <= Full + (now - log[k][i]) * Rate

\* A bucket is filled whenever its client is seen.
SeenInv == \A k \in Clients : bucket[k] # NoBucket => bucket[k].lastFill = bucket[k].lastSeen

\* The ticker is never late, and the round it last ran left only recent clients.
CleanedInv ==
    /\ now <= cleaned + Period
    /\ \A k \in Clients : bucket[k] # NoBucket => cleaned <= bucket[k].lastSeen + IdleTTL

LimiterInv == LimiterTypeOK /\ SeenInv /\ CleanedInv /\ CreditInv /\ WindowIsBounded

\* Multiplication by a natural number keeps the order.
LEMMA TimesMonotone ==
    ASSUME NEW a \in Int, NEW b \in Int, NEW c \in Nat, a <= b
    PROVE  a * c \in Int /\ a * c <= b * c
<1>1. PICK d \in Nat : b = a + d
  <2>1. b - a \in Nat /\ b = a + (b - a)
    OBVIOUS
  <2> QED
    BY <2>1
<1>2. d * c >= 0 /\ b * c = a * c + d * c
  BY <1>1
<1> QED
  BY <1>2

\* A full bucket pays for at least one request.
LEMMA FullIsNat == Full \in Nat /\ Full >= Cost
  BY TimesMonotone DEF Full

\* The lesser of two numbers is one of them and exceeds neither.
LEMMA AtMostFacts ==
    ASSUME NEW a \in Int, NEW b \in Int
    PROVE  /\ AtMost(a, b) \in Int /\ AtMost(a, b) <= a /\ AtMost(a, b) <= b
           /\ AtMost(a, b) \in {a, b}
  BY DEF AtMost

\* The credit is a number between nothing and a full bucket.
LEMMA CreditRange ==
    ASSUME LimiterTypeOK, NEW k \in Clients
    PROVE  /\ Credit(k) \in 0..Full
           /\ bucket[k] # NoBucket =>
                 /\ bucket[k] \in Buckets
                 /\ now - bucket[k].lastFill \in Nat
                 /\ (now - bucket[k].lastFill) * Rate \in Nat
<1>1. now \in Nat /\ bucket[k] \in Buckets \cup {NoBucket}
  BY DEF LimiterTypeOK
<1>2. CASE bucket[k] = NoBucket
  BY <1>2, FullIsNat DEF Credit
<1>3. CASE bucket[k] # NoBucket
  <2>1. bucket[k] \in Buckets /\ bucket[k].tokens \in 0..Full /\ bucket[k].lastFill \in Nat
    BY <1>1, <1>3 DEF Buckets
  <2>2. now - bucket[k].lastFill \in Nat
    BY <1>1, <1>3, <2>1 DEF LimiterTypeOK
  <2>3. (now - bucket[k].lastFill) * Rate \in Nat
    BY <2>2, TimesMonotone
  <2> QED
    BY <1>3, <2>1, <2>2, <2>3, FullIsNat DEF Credit, AtMost
<1> QED
  BY <1>2, <1>3

-----------------------------------------------------------------------------
(* What the three actions do to the credit. *)

\* A tick brings every client Rate units, up to a full bucket.
LEMMA TickCredit ==
    ASSUME LimiterTypeOK, Tick, NEW k \in Clients
    PROVE  Credit(k)' = AtMost(Full, Credit(k) + Rate)
<1>1. now \in Nat /\ now' = now + 1 /\ UNCHANGED bucket
  BY DEF Tick, LimiterTypeOK
<1>2. CASE bucket[k] = NoBucket
  BY <1>1, <1>2, FullIsNat DEF Credit, AtMost
<1>3. CASE bucket[k] # NoBucket
  <2> DEFINE t == bucket[k].tokens
             d == now - bucket[k].lastFill
  <2>1. t \in Int /\ d \in Nat /\ d * Rate \in Nat
    BY <1>3, CreditRange DEF Buckets
  <2>2. now' - bucket[k].lastFill = d + 1
    BY <1>1, <1>3, CreditRange DEF Buckets
  <2>3. (d + 1) * Rate = d * Rate + Rate
    BY <2>1
  <2>4. Credit(k) = AtMost(Full, t + d * Rate)
    BY <1>3 DEF Credit
  <2>5. Credit(k)' = AtMost(Full, t + (d + 1) * Rate)
    BY <1>1, <1>3, <2>2 DEF Credit
  <2> HIDE DEF t, d
  <2> DEFINE x == t + d * Rate
  <2>6. x \in Int /\ t + (d + 1) * Rate = x + Rate
    BY <2>1, <2>3
  <2> HIDE DEF x
  <2>7. Credit(k)' = AtMost(Full, x + Rate) /\ Credit(k) = AtMost(Full, x)
    BY <2>4, <2>5, <2>6 DEF x
  <2> QED
    BY <2>6, <2>7, FullIsNat DEF AtMost
<1> QED
  BY <1>2, <1>3

\* An eviction is invisible: whoever is evicted had a full bucket by then.
LEMMA CleanupCredit ==
    ASSUME LimiterTypeOK, SeenInv, Cleanup, NEW k \in Clients
    PROVE  Credit(k)' = Credit(k)
<1>1. now' = now
  BY DEF Cleanup
<1>2. CASE ~Idle(k)
  BY <1>1, <1>2 DEF Cleanup, Credit, LimiterTypeOK
<1>3. CASE Idle(k)
  <2>1. bucket[k] # NoBucket /\ bucket'[k] = NoBucket
    BY <1>3 DEF Cleanup, Idle, LimiterTypeOK
  <2> DEFINE d == now - bucket[k].lastFill
  <2>2. d \in Nat /\ d * Rate \in Nat /\ bucket[k].tokens \in Nat
    BY <2>1, CreditRange, FullIsNat DEF Buckets
  <2>3. IdleTTL <= d
    BY <1>3, <2>1, CreditRange DEF Idle, SeenInv, Buckets, LimiterTypeOK
  <2>4. Full <= d * Rate
    <3>1. IdleTTL * Rate <= d * Rate /\ IdleTTL * Rate \in Int
      BY <2>2, <2>3, TimesMonotone
    <3> QED
      BY <2>2, <3>1, FullIsNat, EvictionAssumption
  <2>5. Credit(k) = Full
    BY <2>1, <2>2, <2>4, FullIsNat DEF Credit, AtMost
  <2>6. Credit(k)' = Full
    BY <2>1 DEF Credit
  <2> QED
    BY <2>5, <2>6
<1> QED
  BY <1>2, <1>3

\* Allow takes one token from the client it admits, and nothing from anybody else.
LEMMA AllowCredit ==
    ASSUME LimiterTypeOK, NEW k \in Clients, Allow(k), NEW c \in Clients
    PROVE  Credit(c)' = IF c = k /\ Credit(k) >= Cost THEN Credit(k) - Cost ELSE Credit(c)
<1>1. now' = now /\ now \in Nat
  BY DEF Allow, LimiterTypeOK
<1>2. CASE c # k
  BY <1>1, <1>2 DEF Allow, Credit, LimiterTypeOK
<1>3. CASE c = k
  <2> DEFINE left == IF Credit(k) >= Cost THEN Credit(k) - Cost ELSE Credit(k)
  <2>1. bucket'[k] = [tokens |-> left, lastFill |-> now, lastSeen |-> now]
    BY DEF Allow, LimiterTypeOK
  <2>2. left \in 0..Full
    BY CreditRange, FullIsNat
  <2>3. bucket'[k] # NoBucket
    BY <1>1, <2>1, <2>2, FullIsNat
  <2>4. Credit(k)' = AtMost(Full, left + (now - now) * Rate)
    BY <1>1, <2>1, <2>3 DEF Credit
  <2>5. (now - now) * Rate = 0
    BY <1>1
  <2> QED
    BY <1>3, <2>2, <2>4, <2>5, FullIsNat DEF AtMost
<1> QED
  BY <1>2, <1>3

-----------------------------------------------------------------------------
(* The inductive invariant. *)

\* An empty map and an empty log meet the invariant.
LEMMA InitInv == LimiterInit => LimiterInv
<1> SUFFICES ASSUME LimiterInit PROVE LimiterInv
  OBVIOUS
<1>1. LimiterTypeOK /\ SeenInv /\ CleanedInv
  BY DEF LimiterInit, LimiterTypeOK, SeenInv, CleanedInv
<1>2. \A k \in Clients : log[k] = <<>>
  BY DEF LimiterInit
<1>3. CreditInv /\ WindowIsBounded
  BY <1>2 DEF CreditInv, WindowIsBounded
<1> QED
  BY <1>1, <1>3 DEF LimiterInv

\* The clock advances: every credit grows by at most what every promise grows by.
LEMMA TickInv == LimiterInv /\ Tick => LimiterInv'
<1> SUFFICES ASSUME LimiterInv, Tick PROVE LimiterInv'
  OBVIOUS
<1> USE DEF LimiterInv
<1>1. UNCHANGED <<cleaned, bucket, verdict, log>> /\ now' = now + 1 /\ now' \in 0..MaxTime
      /\ now < cleaned + Period /\ now \in Nat /\ cleaned \in Nat
  BY DEF Tick, LimiterTypeOK
<1>2. LimiterTypeOK'
  <2>1. \A k \in Clients : bucket[k] # NoBucket => bucket[k].lastFill <= now + 1
    BY <1>1 DEF LimiterTypeOK, Buckets
  <2> QED
    BY <1>1, <2>1 DEF LimiterTypeOK
<1>3. SeenInv' /\ CleanedInv' /\ WindowIsBounded'
  BY <1>1 DEF SeenInv, CleanedInv, WindowIsBounded
<1>4. ASSUME NEW k \in Clients, NEW i \in 1..Len(log[k])
      PROVE  (Len(log[k]) - i + 1) * Cost + Credit(k)' <= Full + (now' - log[k][i]) * Rate
  <2>1. log[k] \in Seq(0..MaxTime) /\ log[k][i] \in Nat /\ Len(log[k]) \in Nat
    BY <1>4 DEF LimiterTypeOK
  <2> DEFINE d == now - log[k][i]
             s == (Len(log[k]) - i + 1) * Cost
  <2>2. s + Credit(k) <= Full + d * Rate
    BY <1>4 DEF CreditInv
  <2>3. d \in Int /\ s \in Int /\ now' - log[k][i] = d + 1
    <3>1. d \in Int /\ now' - log[k][i] = d + 1
      <4>1. now \in Nat /\ now' = now + 1 /\ log[k][i] \in Nat
        BY <1>1, <2>1
      <4> QED
        BY <4>1
    <3>2. Len(log[k]) - i + 1 \in Int
      BY <2>1
    <3>3. s \in Int
      BY <3>2
    <3> QED
      BY <3>1, <3>3
  <2>4. Credit(k) \in Nat /\ Credit(k)' <= Credit(k) + Rate /\ Credit(k)' \in Int
    <3>1. Credit(k) \in Nat /\ Credit(k)' = AtMost(Full, Credit(k) + Rate)
      BY TickCredit, CreditRange, FullIsNat
    <3> HIDE DEF LimiterInv
    <3> QED
      BY <3>1, AtMostFacts, FullIsNat
  <2> HIDE DEF d, s
  <2>5. d * Rate \in Int /\ (d + 1) * Rate = d * Rate + Rate
    BY <2>3
  <2>6. s + Credit(k)' <= Full + (d * Rate + Rate)
    <3> DEFINE refill == d * Rate
    <3>1. refill \in Int /\ s \in Int /\ s + Credit(k) <= Full + refill
      BY <2>2, <2>3, <2>5
    <3> HIDE DEF refill, LimiterInv
    <3>2. s + Credit(k)' <= Full + (refill + Rate)
      BY <3>1, <2>4, FullIsNat
    <3> QED
      BY <3>2 DEF refill
  <2> QED
    BY <2>3, <2>5, <2>6 DEF s
<1> QED
  BY <1>1, <1>2, <1>3, <1>4 DEF CreditInv

\* Evictions change no credit, and leave only clients seen since the cutoff.
LEMMA CleanupInv == LimiterInv /\ Cleanup => LimiterInv'
<1> SUFFICES ASSUME LimiterInv, Cleanup PROVE LimiterInv'
  OBVIOUS
<1> USE DEF LimiterInv
<1>1. UNCHANGED <<now, verdict, log>> /\ cleaned' = now /\ now \in Nat
  BY DEF Cleanup, LimiterTypeOK
<1>2. ASSUME NEW k \in Clients, bucket'[k] # NoBucket
      PROVE  bucket'[k] = bucket[k] /\ bucket[k] # NoBucket /\ ~Idle(k)
  BY <1>2 DEF Cleanup
<1>3. LimiterTypeOK' /\ SeenInv'
  BY <1>1, <1>2 DEF Cleanup, LimiterTypeOK, SeenInv
<1>4. CleanedInv'
  BY <1>1, <1>2 DEF CleanedInv, Idle, LimiterTypeOK, Buckets
<1>5. CreditInv' /\ WindowIsBounded'
  BY <1>1, CleanupCredit DEF CreditInv, WindowIsBounded
<1> QED
  BY <1>3, <1>4, <1>5

\* Allow: an admission is paid from the credit, a refusal costs nothing.
LEMMA AllowInv == LimiterInv /\ (\E k \in Clients : Allow(k)) => LimiterInv'
<1> SUFFICES ASSUME LimiterInv, NEW k \in Clients, Allow(k) PROVE LimiterInv'
  OBVIOUS
<1> USE DEF LimiterInv
<1>1. UNCHANGED <<now, cleaned>> /\ now \in 0..MaxTime /\ cleaned \in 0..now
  BY DEF Allow, LimiterTypeOK
<1> DEFINE left == IF Credit(k) >= Cost THEN Credit(k) - Cost ELSE Credit(k)
           filled == [tokens |-> left, lastFill |-> now, lastSeen |-> now]
<1>2. /\ filled \in Buckets /\ bucket' = [bucket EXCEPT ![k] = filled]
      /\ filled.lastFill = now /\ filled.lastSeen = now
  BY <1>1, CreditRange, FullIsNat DEF Allow, Buckets
<1> HIDE DEF left, filled
<1>3. \A c \in Clients : bucket'[c] = IF c = k THEN filled ELSE bucket[c]
  BY <1>2 DEF LimiterTypeOK
<1>4. log' \in [Clients -> Seq(0..MaxTime)] /\ verdict' \in [Clients -> {"none", "admitted", "refused"}]
  BY <1>1 DEF Allow, LimiterTypeOK
<1>5. LimiterTypeOK' /\ SeenInv' /\ CleanedInv'
  <2>1. \A c \in Clients : bucket'[c] # NoBucket =>
           IF c = k THEN bucket'[c].lastFill = now /\ bucket'[c].lastSeen = now
                    ELSE bucket'[c] = bucket[c]
    BY <1>2, <1>3
  <2>2. LimiterTypeOK'
    <3>1. bucket' \in [Clients -> Buckets \cup {NoBucket}]
      BY <1>2 DEF LimiterTypeOK
    <3>2. \A c \in Clients : bucket'[c] # NoBucket => bucket'[c].lastFill <= now
      BY <1>1, <2>1 DEF LimiterTypeOK
    <3> QED
      BY <1>1, <1>4, <3>1, <3>2 DEF LimiterTypeOK
  <2>3. SeenInv'
    BY <2>1 DEF SeenInv
  <2>4. CleanedInv'
    BY <1>1, <2>1 DEF CleanedInv
  <2> QED
    BY <2>2, <2>3, <2>4
<1>6. ASSUME NEW c \in Clients, log'[c] = log[c], Credit(c)' <= Credit(c), Credit(c)' \in Int
      PROVE  /\ \A i \in 1..Len(log'[c]) :
                   (Len(log'[c]) - i + 1) * Cost + Credit(c)' <= Full + (now' - log'[c][i]) * Rate
             /\ \A j \in 1..Len(log'[c]) : \A i \in 1..j :
                   (j - i + 1) * Cost <= Full + (log'[c][j] - log'[c][i]) * Rate
  <2>1. ASSUME NEW i \in 1..Len(log[c])
        PROVE  (Len(log[c]) - i + 1) * Cost + Credit(c)' <= Full + (now - log[c][i]) * Rate
    <3> DEFINE s == (Len(log[c]) - i + 1) * Cost
               r == (now - log[c][i]) * Rate
    <3>1. log[c] \in Seq(0..MaxTime) /\ s \in Int /\ r \in Int /\ Credit(c) \in Int
      BY <1>1, CreditRange, FullIsNat DEF LimiterTypeOK
    <3>2. s + Credit(c) <= Full + r
      BY DEF CreditInv
    <3> HIDE DEF s, r
    <3>3. s + Credit(c)' <= Full + r
      BY <1>6, <3>1, <3>2, FullIsNat
    <3> QED
      BY <3>3 DEF s, r
  <2> QED
    BY <1>1, <1>6, <2>1 DEF WindowIsBounded
<1>7. ASSUME Credit(k) >= Cost
      PROVE  /\ \A i \in 1..Len(log'[k]) :
                   (Len(log'[k]) - i + 1) * Cost + Credit(k)' <= Full + (now' - log'[k][i]) * Rate
             /\ \A j \in 1..Len(log'[k]) : \A i \in 1..j :
                   (j - i + 1) * Cost <= Full + (log'[k][j] - log'[k][i]) * Rate
  <2> DEFINE n == Len(log[k])
  <2>1. log[k] \in Seq(0..MaxTime) /\ n \in Nat /\ log'[k] = Append(log[k], now)
    BY <1>7 DEF LimiterTypeOK, Allow
  <2>2. /\ Len(log'[k]) = n + 1
        /\ log'[k][n + 1] = now
        /\ \A i \in 1..n : log'[k][i] = log[k][i] /\ log[k][i] \in 0..MaxTime
    BY <1>1, <2>1
  <2>3. Credit(k)' = Credit(k) - Cost /\ Credit(k) \in Nat /\ Credit(k) <= Full
    BY <1>7, AllowCredit, CreditRange, FullIsNat
  <2>4. ASSUME NEW i \in 1..n
        PROVE  /\ (n + 1 - i + 1) * Cost + Credit(k)' <= Full + (now - log[k][i]) * Rate
               /\ (n + 1 - i + 1) * Cost <= Full + (now - log[k][i]) * Rate
    <3> DEFINE a == n - i + 1
               r == (now - log[k][i]) * Rate
    <3>1. a \in Int /\ n + 1 - i + 1 = a + 1
      BY <2>1
    <3>0. log[k][i] \in Int /\ r \in Int
      BY <1>1, <2>2
    <3>2. a * Cost + Credit(k) <= Full + r
      BY DEF CreditInv
    <3> HIDE DEF a, r
    <3>3. (a + 1) * Cost = a * Cost + Cost /\ a * Cost \in Int
      BY <3>1
    <3>4. (a + 1) * Cost + Credit(k)' <= Full + r /\ (a + 1) * Cost <= Full + r
      BY <1>7, <2>3, <3>0, <3>2, <3>3, FullIsNat
    <3> QED
      BY <3>1, <3>4 DEF r
  <2>5. (n + 1 - (n + 1) + 1) * Cost = Cost /\ (now - now) * Rate = 0
    BY <1>1, <2>1
  <2>6. ASSUME NEW i \in 1..(n + 1)
        PROVE  /\ (n + 1 - i + 1) * Cost + Credit(k)' <= Full + (now - log'[k][i]) * Rate
               /\ (n + 1 - i + 1) * Cost <= Full + (now - log'[k][i]) * Rate
    <3>1. CASE i = n + 1
      BY <2>2, <2>3, <2>5, <3>1, FullIsNat
    <3>2. CASE i \in 1..n
      BY <2>2, <2>4, <3>2
    <3> QED
      BY <2>1, <3>1, <3>2
  <2>7. ASSUME NEW j \in 1..(n + 1), NEW i \in 1..j
        PROVE  (j - i + 1) * Cost <= Full + (log'[k][j] - log'[k][i]) * Rate
    <3>1. CASE j = n + 1
      <4>1. i \in 1..(n + 1) /\ log'[k][j] = now
        BY <2>2, <3>1
      <4>2. (n + 1 - i + 1) * Cost <= Full + (now - log'[k][i]) * Rate
        BY <2>6, <4>1
      <4> QED
        BY <3>1, <4>1, <4>2
    <3>2. CASE j \in 1..n
      <4>1. i \in 1..n
        BY <2>1, <3>2
      <4>2. (j - i + 1) * Cost <= Full + (log[k][j] - log[k][i]) * Rate
        BY <3>2 DEF WindowIsBounded
      <4> QED
        BY <2>2, <3>2, <4>1, <4>2
    <3>3. j = n + 1 \/ j \in 1..n
      BY <2>1
    <3> QED
      BY <3>1, <3>2, <3>3
  <2>8. Len(log'[k]) = n + 1 /\ now' = now
    BY <1>1, <2>2
  <2> HIDE DEF n, LimiterInv
  <2>9. ASSUME NEW i \in 1..Len(log'[k])
        PROVE  (Len(log'[k]) - i + 1) * Cost + Credit(k)' <= Full + (now' - log'[k][i]) * Rate
    <3>1. (n + 1 - i + 1) * Cost + Credit(k)' <= Full + (now - log'[k][i]) * Rate
      BY <2>6, <2>8
    <3> QED
      BY <1>1, <2>1, <2>8, <3>1
  <2>10. \A j \in 1..Len(log'[k]) : \A i \in 1..j :
            (j - i + 1) * Cost <= Full + (log'[k][j] - log'[k][i]) * Rate
    BY <2>7, <2>8
  <2> QED
    BY <2>9, <2>10
<1>8. CreditInv' /\ WindowIsBounded'
  <2>1. \A c \in Clients : c # k \/ ~(Credit(k) >= Cost) =>
           log'[c] = log[c] /\ Credit(c)' = Credit(c) /\ Credit(c) \in Int
    <3>1. \A c \in Clients : c # k \/ ~(Credit(k) >= Cost) => log'[c] = log[c]
      BY DEF Allow, LimiterTypeOK
    <3>2. \A c \in Clients : c # k \/ ~(Credit(k) >= Cost) => Credit(c)' = Credit(c)
      BY AllowCredit
    <3>3. \A c \in Clients : Credit(c) \in Int
      BY CreditRange, FullIsNat
    <3> QED
      BY <3>1, <3>2, <3>3
  <2>2. \A c \in Clients : c # k \/ ~(Credit(k) >= Cost) =>
           log'[c] = log[c] /\ Credit(c)' <= Credit(c) /\ Credit(c)' \in Int
    BY <2>1
  <2> QED
    BY <1>6, <1>7, <2>2 DEF CreditInv, WindowIsBounded
<1> QED
  BY <1>5, <1>8

\* The invariant of the limiter holds in every state.
THEOREM SpecIInv == LimiterSpec => []LimiterInv
<1>1. LimiterInv /\ [LimiterNext]_limiterVars => LimiterInv'
  <2> SUFFICES ASSUME LimiterInv, [LimiterNext]_limiterVars PROVE LimiterInv'
    OBVIOUS
  <2>1. CASE UNCHANGED limiterVars
    <3>1. \A k \in Clients : Credit(k)' = Credit(k)
      BY <2>1 DEF limiterVars, Credit
    <3>2. LimiterTypeOK' /\ SeenInv' /\ CleanedInv' /\ WindowIsBounded'
      BY <2>1 DEF limiterVars, LimiterInv, LimiterTypeOK, SeenInv, CleanedInv, WindowIsBounded
    <3>3. CreditInv'
      BY <2>1, <3>1 DEF limiterVars, LimiterInv, CreditInv
    <3> QED
      BY <3>2, <3>3 DEF LimiterInv
  <2> QED
    BY <2>1, TickInv, CleanupInv, AllowInv DEF LimiterNext
<1> QED
  BY <1>1, InitInv, PTL DEF LimiterSpec

\* The map, the clock and the log keep their types: no bucket ever holds more than a burst.
THEOREM LimiterSpecTypeOK == LimiterSpec => []LimiterTypeOK
  BY SpecIInv, PTL DEF LimiterInv

\* In no window does a client get more than a burst and the refill of that window, for any
\* rate, burst and eviction time with which an idle bucket has refilled when it is evicted.
THEOREM SpecWindowIsBounded == LimiterSpec => []WindowIsBounded
  BY SpecIInv, PTL DEF LimiterInv

\* The map holds only clients seen within the eviction time and one cleanup period.
THEOREM SpecMapHoldsRecentClients == LimiterSpec => []MapHoldsRecentClients
<1>1. LimiterInv => MapHoldsRecentClients
  BY DEF LimiterInv, LimiterTypeOK, Buckets, CleanedInv, MapHoldsRecentClients
<1> QED
  BY <1>1, SpecIInv, PTL

-----------------------------------------------------------------------------
(* The refinement. *)

Credits == [k \in Clients |-> Credit(k)]

\* Every step of the limiter is a step of the continuously growing credit, or leaves it alone.
LEMMA StepImplementsBudget == LimiterInv /\ [LimiterNext]_limiterVars => [Budget!Next]_<<Credits, verdict>>
<1> SUFFICES ASSUME LimiterInv, [LimiterNext]_limiterVars PROVE [Budget!Next]_<<Credits, verdict>>
  OBVIOUS
<1>0. LimiterTypeOK /\ SeenInv
  BY DEF LimiterInv
<1>1. CASE Tick
  <2>1. \A k \in Clients : Credit(k)' = Budget!AtMost(Full, Credit(k) + Rate)
    BY <1>0, <1>1, TickCredit DEF AtMost, Budget!AtMost
  <2>2. Credits' = [k \in Clients |-> Budget!AtMost(Full, Credits[k] + Rate)]
    BY <2>1 DEF Credits
  <2>3. Budget!Tick
    BY <1>1, <2>2 DEF Budget!Tick, Credits, Tick
  <2> QED
    BY <2>3 DEF Budget!Next
<1>2. CASE Cleanup
  BY <1>0, <1>2, CleanupCredit DEF Credits, Cleanup
<1>3. ASSUME NEW k \in Clients, Allow(k)
      PROVE  Budget!Next
  <2>1. CASE Credit(k) >= Cost
    <3>1. Credits' = [Credits EXCEPT ![k] = Credit(k) - Cost]
      BY <1>0, <1>3, <2>1, AllowCredit DEF Credits
    <3>2. Budget!Admit(k)
      BY <1>3, <2>1, <3>1 DEF Budget!Admit, Credits, Allow
    <3> QED
      BY <3>2 DEF Budget!Next
  <2>2. CASE ~(Credit(k) >= Cost)
    <3>1. Credits' = Credits
      BY <1>0, <1>3, <2>2, AllowCredit DEF Credits
    <3>2. Credit(k) < Cost
      BY <1>0, <2>2, CreditRange, FullIsNat
    <3>3. Budget!Refuse(k)
      BY <1>3, <2>2, <3>1, <3>2 DEF Budget!Refuse, Credits, Allow
    <3> QED
      BY <3>3 DEF Budget!Next
  <2> QED
    BY <2>1, <2>2
<1>4. CASE UNCHANGED limiterVars
  BY <1>4 DEF limiterVars, Credits, Credit
<1> QED
  BY <1>1, <1>2, <1>3, <1>4 DEF LimiterNext

\* Lazy refills and evictions implement the credit that grows with every tick: no client can
\* tell when its bucket was filled, nor whether it was forgotten in between.
THEOREM SpecImplementsBudget == LimiterSpec => ImplementsBudget
<1>1. LimiterInit => Budget!Init
  BY DEF LimiterInit, Budget!Init, Credit
<1> QED
  BY <1>1, SpecIInv, StepImplementsBudget, PTL DEF LimiterSpec, ImplementsBudget, Budget!Spec, Credits
=============================================================================
