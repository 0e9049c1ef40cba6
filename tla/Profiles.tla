------------------------------ MODULE Profiles ------------------------------
(***************************************************************************)
(* EnsureForIdentity and Apply of api/internal/profiles/profiles.go.  The  *)
(* upsert is one statement, but at READ COMMITTED its two halves look at   *)
(* two states of the table: ON CONFLICT acts on the row as last committed  *)
(* (waiting for a writer of it), the fallback SELECT on the snapshot taken *)
(* when the statement began.  Kratos is external: it keeps the addresses   *)
(* of its identities unique, and an operator may change or delete them.    *)
(***************************************************************************)
EXTENDS Integers, FiniteSets

CONSTANTS
    Identities, Emails, Names,
    GivenNames,   \* the names identities registered with
    EnsureCalls,
    NoName, NoTraits, NoRow

ASSUME NamesAssumption == GivenNames \subseteq Names

Traits == [email : Emails, name : GivenNames \cup {NoName}]
Rows == [identity : Identities, email : Emails, name : Names \cup {NoName}]

VARIABLES
    traits,    \* Kratos: the traits of each identity
    profiles,  \* the table, committed rows
    pc,        \* where each EnsureForIdentity call is
    session,   \* the identity and traits WhoAmI returned to the call
    seen,      \* the profile of its identity in the snapshot of the executing statement
    tries,     \* statements executed by the call
    answer     \* how the call ended

callVars == <<pc, session, seen, tries, answer>>
profileVars == <<traits, profiles, callVars>>

ProfilesInit ==
    /\ traits = [i \in Identities |-> NoTraits]
    /\ profiles = {}
    /\ pc = [c \in EnsureCalls |-> "idle"]
    /\ session = [c \in EnsureCalls |-> NoRow]
    /\ seen = [c \in EnsureCalls |-> {}]
    /\ tries = [c \in EnsureCalls |-> 0]
    /\ answer = [c \in EnsureCalls |-> "none"]

-----------------------------------------------------------------------------
(* Kratos *)

\* An identity registers, an operator changes its traits or deletes it; its address is nobody
\* else's.
SetTraits(i, t) ==
    /\ t # NoTraits =>
          \A j \in Identities \ {i} : traits[j] # NoTraits => traits[j].email # t.email
    /\ traits' = [traits EXCEPT ![i] = t]
    /\ UNCHANGED <<profiles, callVars>>

-----------------------------------------------------------------------------
(* Repo.EnsureForIdentity *)

ProfilesOf(table, i) == {p \in table : p.identity = i}

\* RequireSession: the identity behind the token, as Kratos has it now.
Receive(c, i) ==
    /\ pc[c] = "idle" /\ traits[i] # NoTraits
    /\ session' = [session EXCEPT ![c] =
                      [identity |-> i, email |-> traits[i].email, name |-> traits[i].name]]
    /\ pc' = [pc EXCEPT ![c] = "begin"]
    /\ UNCHANGED <<traits, profiles, seen, tries, answer>>

\* The statement begins: its snapshot is taken.
BeginStatement(c) ==
    /\ pc[c] = "begin"
    /\ seen' = [seen EXCEPT ![c] = ProfilesOf(profiles, session[c].identity)]
    /\ tries' = [tries EXCEPT ![c] = @ + 1]
    /\ pc' = [pc EXCEPT ![c] = "upsert"]
    /\ UNCHANGED <<traits, profiles, session, answer>>

Return(c, code) ==
    /\ pc' = [pc EXCEPT ![c] = "done"]
    /\ answer' = [answer EXCEPT ![c] = code]
    /\ UNCHANGED tries

\* profiles.email is UNIQUE: another profile has this address.
EmailTaken(row) == \E p \in profiles : p.identity # row.identity /\ p.email = row.email

\* Mutant: the trait wins over the name the user chose.
RefreshedFromTraits(p, s) ==
    [p EXCEPT !.email = s.email, !.name = IF s.name # NoName THEN s.name ELSE p.name]

\* DO UPDATE SET: the email is taken over, the display name only while there is none.
Refreshed(p, s) ==
    [p EXCEPT !.email = s.email, !.name = IF p.name # NoName THEN p.name ELSE s.name]

\* The upsert stores row and returns it.
Store(c, row) ==
    IF EmailTaken(row)
       THEN Return(c, "clash") /\ UNCHANGED profiles
       ELSE /\ profiles' = (profiles \ ProfilesOf(profiles, row.identity)) \cup {row}
            /\ Return(c, "ok")

\* Mutant: no second statement.
FallBackOnce(c) ==
    /\ Return(c, IF seen[c] # {} THEN "ok" ELSE "not_found")
    /\ UNCHANGED profiles

\* The upsert returned no row: the SELECT on the snapshot, and one retry when it misses.
FallBack(c) ==
    /\ \/ seen[c] # {} /\ Return(c, "ok")
       \/ /\ seen[c] = {}
          /\ IF tries[c] = 1
                THEN /\ pc' = [pc EXCEPT ![c] = "begin"]
                     /\ UNCHANGED <<tries, answer>>
                ELSE Return(c, "not_found")
    /\ UNCHANGED profiles

\* INSERT .. ON CONFLICT (kratos_identity_id) DO UPDATE .. WHERE something would change.
Upsert(c) ==
    /\ pc[c] = "upsert"
    /\ \/ ProfilesOf(profiles, session[c].identity) = {} /\ Store(c, session[c])
       \/ \E p \in ProfilesOf(profiles, session[c].identity) :
             LET row == Refreshed(p, session[c]) IN
             IF row # p THEN Store(c, row) ELSE FallBack(c)
    /\ UNCHANGED <<traits, session, seen>>

\* The database fails the statement; the caller answers 500.
Fail(c) ==
    /\ pc[c] \in {"begin", "upsert"}
    /\ Return(c, "error")
    /\ UNCHANGED <<traits, profiles, session, seen>>

-----------------------------------------------------------------------------
(* Repo.Apply, by the owner of a profile: one UPDATE of the row as last committed. *)

Apply(p, name) ==
    /\ p \in profiles
    /\ profiles' = (profiles \ {p}) \cup {[p EXCEPT !.name = name]}
    /\ UNCHANGED <<traits, callVars>>

EnsureStep(c) == BeginStatement(c) \/ Upsert(c)

ProfilesNext ==
    \/ \E i \in Identities : \E t \in Traits \cup {NoTraits} : SetTraits(i, t)
    \/ \E c \in EnsureCalls : \E i \in Identities : Receive(c, i)
    \/ \E c \in EnsureCalls : EnsureStep(c) \/ Fail(c)
    \/ \E p \in profiles : \E name \in Names : Apply(p, name)

ProfilesSpec == ProfilesInit /\ [][ProfilesNext]_profileVars

-----------------------------------------------------------------------------

\* The types, and the unique keys of the table.
ProfilesTypeOK ==
    /\ traits \in [Identities -> Traits \cup {NoTraits}]
    /\ profiles \subseteq Rows
    /\ \A p, q \in profiles : p.identity = q.identity \/ p.email = q.email => p = q
    /\ pc \in [EnsureCalls -> {"idle", "begin", "upsert", "done"}]
    /\ session \in [EnsureCalls -> Rows \cup {NoRow}]
    /\ seen \in [EnsureCalls -> SUBSET Rows]
    /\ tries \in [EnsureCalls -> 0..2]
    /\ answer \in [EnsureCalls -> {"none", "ok", "not_found", "clash", "error"}]

\* Kratos gives identity i the address e.
HasAddress(i, e) == traits[i] # NoTraits /\ traits[i].email = e

\* "The retry re-executes on a fresh snapshot": one retry is enough, however first sign-ins
\* race.  A request that ends has the profile of its identity in the table, unless the database
\* failed it, or another profile holds its address; then one of the two copies of the address,
\* that of the request or that of the other profile, is no longer what Kratos has.
SessionsGetTheirProfile ==
    [][\A c \in EnsureCalls : answer'[c] # answer[c] =>
          \/ answer'[c] = "ok" /\ ProfilesOf(profiles', session[c].identity) # {}
          \/ answer'[c] = "error"
          \/ /\ answer'[c] = "clash"
             /\ \E p \in profiles :
                   /\ p.identity # session[c].identity /\ p.email = session[c].email
                   /\ ~(HasAddress(p.identity, p.email) /\ HasAddress(session[c].identity, p.email))
      ]_profileVars

\* "User profile edits are not overwritten by stale traits": no statement of EnsureForIdentity
\* changes a display name that is there, whatever the traits were when it began.
EditsSurviveRefresh ==
    [][pc' # pc => \A p \in profiles : p.name # NoName =>
          \E q \in profiles' : q.identity = p.identity /\ q.name = p.name]_profileVars

\* "profiles.email mirrors the Kratos identifier, which Kratos already keeps unique per
\* identity": so that the unique index never refuses a session of Kratos.
MirroredEmailsNeverClash == \A c \in EnsureCalls : answer[c] # "clash"
==============================================================================
