------------------------------ MODULE Migrator ------------------------------
(***************************************************************************)
(* The boot-time migrator of api/internal/db/db.go, run by every process   *)
(* of the API before it serves.  A boot is one process: a restarted        *)
(* container is another boot, which may meet the database session of the   *)
(* one that died, with its locks and its open transaction.  PostgreSQL is  *)
(* external: a session ends some time after its process.                   *)
(***************************************************************************)
EXTENDS Integers, Sequences, Functions

CONSTANTS
    Boots,
    MaxFiles,    \* the files of the newest release, in lexical order: 1..MaxFiles
    Rerunnable,  \* those written with IF [NOT] EXISTS throughout
    NoBoot

ASSUME FilesAssumption == MaxFiles \in Nat /\ Rerunnable \subseteq 1..MaxFiles

ASSUME NoBootAssumption == NoBoot \notin Boots

Files == 1..MaxFiles

VARIABLES
    schema,    \* database: the files whose statements are committed, in commit order
    tracked,   \* database: schema_migrations exists
    recorded,  \* database: the committed versions of schema_migrations
    holder,    \* database: whose session has the advisory lock
    pc,        \* where each boot is
    release,   \* the last file embedded in its binary
    next,      \* the file it is at
    outcome    \* how applyAll ended

database == <<schema, tracked, recorded, holder>>
vars == <<database, pc, release, next, outcome>>

Init ==
    /\ schema = <<>>
    /\ tracked = FALSE
    /\ recorded = {}
    /\ holder = NoBoot
    /\ pc = [b \in Boots |-> "off"]
    /\ release \in [Boots -> Files]
    /\ next = [b \in Boots |-> 1]
    /\ outcome = [b \in Boots |-> "none"]

Goto(b, label) == pc' = [pc EXCEPT ![b] = label]

\* applyAll returns; withMigrationLock goes on to unlock.
EndBody(b, result) ==
    /\ Goto(b, "unlock")
    /\ outcome' = [outcome EXCEPT ![b] = result]

-----------------------------------------------------------------------------
(* withMigrationLock *)

Boot(b) ==
    /\ pc[b] = "off"
    /\ Goto(b, "lock")
    /\ UNCHANGED <<database, release, next, outcome>>

\* Mutant: the run is not serialised.
MayLockAlways == TRUE

\* pg_advisory_lock waits for the session that has the lock.
MayLock == holder = NoBoot

Lock(b) ==
    /\ pc[b] = "lock" /\ MayLock
    /\ holder' = b
    /\ Goto(b, "track")
    /\ UNCHANGED <<schema, tracked, recorded, release, next, outcome>>

\* Mutant: the connection returns to the pool with the lock.
UnlockNever(b) ==
    /\ pc[b] = "unlock"
    /\ Goto(b, IF outcome[b] = "applied" THEN "serving" ELSE "closing")
    /\ UNCHANGED <<database, release, next, outcome>>

\* pg_advisory_unlock, whatever applyAll returned; run() serves or exits.
Unlock(b) ==
    /\ pc[b] = "unlock"
    /\ holder' = NoBoot
    /\ Goto(b, IF outcome[b] = "applied" THEN "serving" ELSE "closing")
    /\ UNCHANGED <<schema, tracked, recorded, release, next, outcome>>

-----------------------------------------------------------------------------
(* applyAll *)

\* CREATE TABLE IF NOT EXISTS schema_migrations.
Track(b) ==
    /\ pc[b] = "track"
    /\ tracked' = TRUE
    /\ Goto(b, "check")
    /\ UNCHANGED <<schema, recorded, holder, release, next, outcome>>

\* The files are at an end, the next one is recorded, or it is read and a transaction begun.
Check(b) ==
    /\ pc[b] = "check"
    /\ \/ /\ next[b] > release[b]
          /\ EndBody(b, "applied") /\ UNCHANGED next
       \/ /\ next[b] <= release[b] /\ next[b] \in recorded
          /\ next' = [next EXCEPT ![b] = @ + 1]
          /\ UNCHANGED <<pc, outcome>>
       \/ /\ next[b] <= release[b] /\ next[b] \notin recorded
          /\ Goto(b, "execute") /\ UNCHANGED <<next, outcome>>
    /\ UNCHANGED <<database, release>>

\* The transactions that have executed file f and are open, those of dead processes too.
Open(f) == {b \in Boots : pc[b] \in {"insert", "commit", "cut"} /\ next[b] = f}

\* execMigrationSQL: the same statements in another open transaction are waited for; what they
\* create may be there already.
Execute(b) ==
    /\ pc[b] = "execute" /\ Open(next[b]) = {}
    /\ IF next[b] \in Range(schema) /\ next[b] \notin Rerunnable
          THEN EndBody(b, "collided")
          ELSE Goto(b, "insert") /\ UNCHANGED outcome
    /\ UNCHANGED <<database, release, next>>

\* INSERT INTO schema_migrations, whose key is the version.
Insert(b) ==
    /\ pc[b] = "insert"
    /\ IF next[b] \in recorded
          THEN EndBody(b, "collided")
          ELSE Goto(b, "commit") /\ UNCHANGED outcome
    /\ UNCHANGED <<database, release, next>>

\* Mutant: the statements run on the connection, the version in the transaction.
PublishVersionOnly(b) == recorded' = recorded \cup {next[b]} /\ UNCHANGED schema

\* What the transaction did becomes visible: the statements of the file and its version.
Publish(b) ==
    /\ schema' = Append(schema, next[b])
    /\ recorded' = recorded \cup {next[b]}

\* tx.Commit, and on to the next file.
Commit(b) ==
    /\ pc[b] = "commit"
    /\ Publish(b)
    /\ next' = [next EXCEPT ![b] = @ + 1]
    /\ Goto(b, "check")
    /\ UNCHANGED <<tracked, holder, release, outcome>>

-----------------------------------------------------------------------------
(* Failures *)

Working == {"track", "check", "execute", "insert", "commit"}

\* Mutant: a file that fails is skipped.
FailSkips(b) ==
    /\ pc[b] \in Working /\ next[b] <= release[b]
    /\ Goto(b, "check")
    /\ next' = [next EXCEPT ![b] = @ + 1]
    /\ UNCHANGED <<database, release, outcome>>

\* A statement or COMMIT fails: applyOne rolls back, no later file is tried.
Fail(b) ==
    /\ pc[b] \in Working /\ (pc[b] = "check" => next[b] <= release[b])
    /\ EndBody(b, "failed")
    /\ UNCHANGED <<database, release, next>>

\* COMMIT took effect but its answer was lost.
CommitUnseen(b) ==
    /\ pc[b] = "commit"
    /\ Publish(b)
    /\ EndBody(b, "failed")
    /\ UNCHANGED <<tracked, holder, release, next>>

\* The lock cannot be asked for or given back: run() returns the error and the process exits.
LockFails(b) ==
    /\ pc[b] \in {"lock", "unlock"}
    /\ Goto(b, "closing")
    /\ UNCHANGED <<database, release, next, outcome>>

\* The process is killed, or loses its connection and exits; its session goes on, with its
\* transaction where it was.
Crash(b) ==
    /\ pc[b] \in Working \cup {"lock", "unlock", "serving"}
    /\ Goto(b, IF pc[b] \in {"insert", "commit"} THEN "cut" ELSE "closing")
    /\ UNCHANGED <<database, release, next, outcome>>

\* The session ends: PostgreSQL rolls its transaction back and releases its lock.
EndSession(b) ==
    /\ pc[b] \in {"closing", "cut"}
    /\ Goto(b, "gone")
    /\ holder' = IF holder = b THEN NoBoot ELSE holder
    /\ UNCHANGED <<schema, tracked, recorded, release, next, outcome>>

Step(b) == Lock(b) \/ Track(b) \/ Check(b) \/ Execute(b) \/ Insert(b) \/ Commit(b) \/ Unlock(b)

Failure(b) == Fail(b) \/ CommitUnseen(b) \/ LockFails(b) \/ Crash(b)

Next == \E b \in Boots : Boot(b) \/ Step(b) \/ Failure(b) \/ EndSession(b)

Spec == Init /\ [][Next]_vars

\* A process executes its next statement; PostgreSQL grants the lock once it is free, and ends
\* the sessions of processes that are gone.  Nobody has to boot, and nothing has to fail.
FairSpec == Spec /\ \A b \in Boots : WF_vars(Step(b)) /\ WF_vars(EndSession(b))

-----------------------------------------------------------------------------

TypeOK ==
    /\ schema \in Seq(Files)
    /\ tracked \in BOOLEAN
    /\ recorded \subseteq Files
    /\ holder \in Boots \cup {NoBoot}
    /\ pc \in [Boots -> Working \cup
                  {"off", "lock", "unlock", "serving", "closing", "cut", "gone"}]
    /\ release \in [Boots -> Files]
    /\ next \in [Boots -> 1..MaxFiles + 1]
    /\ outcome \in [Boots -> {"none", "applied", "failed", "collided"}]

\* "Concurrently booting replicas serialize": whoever boots when, and whatever became of the
\* ones before, no boot fails because a file has been applied by another.
NoBootCollides == \A b \in Boots : outcome[b] # "collided"

\* "A failed migration leaves no partial version recorded", and no file is left out or applied
\* twice: the schema is the first files in their order, and exactly those are recorded.
SchemaIsRecorded ==
    /\ \A i \in 1..Len(schema) : schema[i] = i
    /\ recorded = Range(schema)

\* A process serves requests only over a schema that has every file of its release.
ServingHasItsSchema ==
    \A b \in Boots : pc[b] = "serving" => 1..release[b] \subseteq Range(schema)

\* "A crashed migration on one replica does not deadlock every later boot": every boot ends,
\* although it waits for the lock of others.
EveryBootEnds == \A b \in Boots : pc[b] = "lock" ~> pc[b] \in {"serving", "gone"}
==============================================================================
