------------------------------- MODULE Uploads -------------------------------
(***************************************************************************)
(* Photo uploads: Handler.Init and Handler.Complete of                     *)
(* api/internal/uploads, the transaction of Repo.Complete statement by     *)
(* statement, and the signed PUT a browser sends straight to the bucket in *)
(* between.  Identifiers are fresh random ones, so a job, its asset and    *)
(* its object key are one identifier here.  The bucket is external: a PUT  *)
(* needs a signature that has not expired and may be repeated; nothing     *)
(* deletes an object.  RequireEnabled and RequireSession have passed.      *)
(***************************************************************************)
EXTENDS Integers, FiniteSets

CONSTANTS
    Users,
    Jobs,           \* the identifiers Init calls draw, one call each
    Calls,          \* the Complete calls; a retry is a call of its own
    Metas,          \* the [type, size] pairs inputs and objects have
    ETags,          \* the contents an object can have
    MaxPhotoBytes,
    NoInput, NoObject, NoRow, Malformed

ASSUME MetasAssumption == Metas \subseteq [type : STRING, size : Nat]
ASSUME NoObjectAssumption == NoObject \notin [meta : Metas, etag : ETags]

PhotoTypes == {"image/jpeg", "image/png", "image/webp"}

\* photoExtension: a usable name, a known type and 1 to MaxPhotoBytes bytes.
ValidPhoto(in) ==
    /\ in.named
    /\ in.meta.type \in PhotoTypes
    /\ in.meta.size \in 1..MaxPhotoBytes

InitInputs == [user : Users, named : BOOLEAN, meta : Metas]
CompleteInputs == [user : Users, job : Jobs \cup {Malformed}, asset : Jobs \cup {Malformed}]
Objects == [meta : Metas, etag : ETags]
AssetRows == [id : Jobs, user : Users, meta : Metas, etag : ETags]

VARIABLES
    initPc,      \* where the Init call of each job is
    declared,    \* its decoded input, with the session's user
    initAnswer,  \* its HTTP answer
    url,         \* the signed PUT of each job
    status,      \* upload_jobs, committed: "absent", "queued" or "completed"
    object,      \* the bucket
    enforced,    \* whether the bucket holds a PUT to the size and type signed
    uploaded,    \* history: every object ever stored under the key
    pc, input, answer,  \* the Complete calls
    head,        \* the metadata Head returned to each call
    locks,       \* the calls whose open transaction has the row of their job locked
    pending,     \* the asset row each open transaction inserted
    assets       \* item_assets, committed rows

initVars == <<initPc, declared, initAnswer, url>>
callVars == <<pc, input, answer, head, locks, pending>>
bucketVars == <<object, uploaded, enforced>>
vars == <<initVars, status, bucketVars, callVars, assets>>

Init ==
    /\ initPc = [j \in Jobs |-> "idle"]
    /\ declared = [j \in Jobs |-> NoInput]
    /\ initAnswer = [j \in Jobs |-> "none"]
    /\ url = [j \in Jobs |-> "unsigned"]
    /\ status = [j \in Jobs |-> "absent"]
    /\ object = [j \in Jobs |-> NoObject]
    /\ uploaded = [j \in Jobs |-> {}]
    /\ enforced \in BOOLEAN
    /\ pc = [c \in Calls |-> "idle"]
    /\ input = [c \in Calls |-> NoInput]
    /\ answer = [c \in Calls |-> "none"]
    /\ head = [c \in Calls |-> NoObject]
    /\ locks = {}
    /\ pending = [c \in Calls |-> NoRow]
    /\ assets = {}

-----------------------------------------------------------------------------
(* Handler.Init *)

InitReply(j, code) ==
    /\ initPc' = [initPc EXCEPT ![j] = "done"]
    /\ initAnswer' = [initAnswer EXCEPT ![j] = code]

ReceiveInit(j, in) ==
    /\ initPc[j] = "idle"
    /\ declared' = [declared EXCEPT ![j] = in]
    /\ IF ValidPhoto(in)
          THEN initPc' = [initPc EXCEPT ![j] = "sign"] /\ UNCHANGED initAnswer
          ELSE InitReply(j, "invalid")
    /\ UNCHANGED <<url, status, bucketVars, callVars, assets>>

\* nextID, Objects.Ready, Objects.PresignPut: one of them fails, or the PUT is signed.
Sign(j) ==
    /\ initPc[j] = "sign"
    /\ \/ \E code \in {"error", "unavailable"} : InitReply(j, code) /\ UNCHANGED url
       \/ /\ initPc' = [initPc EXCEPT ![j] = "create"]
          /\ url' = [url EXCEPT ![j] = "live"]
          /\ UNCHANGED initAnswer
    /\ UNCHANGED <<declared, status, bucketVars, callVars, assets>>

\* Mutant: the browser gets its URL although the job could not be stored.
CreateJobAnyway(j) ==
    /\ initPc[j] = "create"
    /\ InitReply(j, "ok")
    /\ \/ status' = [status EXCEPT ![j] = "queued"]
       \/ UNCHANGED status
    /\ UNCHANGED <<declared, url, bucketVars, callVars, assets>>

\* Jobs.Create, one autocommitted INSERT; when it fails it may still have been executed.
CreateJob(j) ==
    /\ initPc[j] = "create"
    /\ \/ status' = [status EXCEPT ![j] = "queued"] /\ InitReply(j, "ok")
       \/ status' = [status EXCEPT ![j] = "queued"] /\ InitReply(j, "error")
       \/ UNCHANGED status /\ InitReply(j, "error")
    /\ UNCHANGED <<declared, url, bucketVars, callVars, assets>>

-----------------------------------------------------------------------------
(* The bucket *)

\* Mutant: neither length nor type is part of what is signed.
AcceptedAny(j) == Metas

\* What a PUT with the job's signature can store: PutInput binds length and type.
Accepted(j) == IF enforced THEN {declared[j].meta} ELSE Metas

\* The browser, or whoever holds the URL, stores or overwrites the object.
Put(j, o) ==
    /\ initAnswer[j] = "ok" /\ url[j] = "live"
    /\ o.meta \in Accepted(j)
    /\ object' = [object EXCEPT ![j] = o]
    /\ uploaded' = [uploaded EXCEPT ![j] = @ \cup {o}]
    /\ UNCHANGED <<initVars, status, enforced, callVars, assets>>

\* putExpiry passes.
Expire(j) ==
    /\ url[j] = "live"
    /\ url' = [url EXCEPT ![j] = "expired"]
    /\ UNCHANGED <<initPc, declared, initAnswer, status, bucketVars, callVars, assets>>

-----------------------------------------------------------------------------
(* Handler.Complete *)

Goto(c, phase) == pc' = [pc EXCEPT ![c] = phase]

Reply(c, code) ==
    /\ Goto(c, "done")
    /\ answer' = [answer EXCEPT ![c] = code]

Job(c) == input[c].job

Receive(c, in) ==
    /\ pc[c] = "idle"
    /\ input' = [input EXCEPT ![c] = in]
    /\ IF Malformed \in {in.job, in.asset}
          THEN Reply(c, "invalid")
          ELSE Goto(c, "find") /\ UNCHANGED answer
    /\ UNCHANGED <<initVars, status, bucketVars, head, locks, pending, assets>>

\* Mutant: the owner is not part of the WHERE clause.
OwnedByAnyone(in) ==
    Malformed \notin {in.job, in.asset} /\ status[in.job] # "absent" /\ in.job = in.asset

\* WHERE user_id = $1 AND id = $2 AND asset_id = $3
Owned(in) ==
    /\ Malformed \notin {in.job, in.asset}
    /\ status[in.job] # "absent"
    /\ in.job = in.asset
    /\ declared[in.job].user = in.user

\* Jobs.FindOwned, outside any transaction.
FindOwned(c) ==
    /\ pc[c] = "find"
    /\ \/ ~Owned(input[c]) /\ Reply(c, "not_found")
       \/ Owned(input[c]) /\ status[Job(c)] = "completed" /\ Reply(c, "ok")
       \/ Owned(input[c]) /\ status[Job(c)] = "queued" /\ Goto(c, "head") /\ UNCHANGED answer
       \/ Reply(c, "error")
    /\ UNCHANGED <<initVars, status, bucketVars, input, head, locks, pending, assets>>

\* Mutant: only the type is compared.
MatchesType(o, j) == o.meta.type = declared[j].meta.type

\* The object has the size and the type of the job.
Matches(o, j) == o.meta = declared[j].meta

\* Objects.Head: a snapshot of the object, no lock is held.
Head(c) ==
    /\ pc[c] = "head"
    /\ LET o == object[Job(c)] IN
       \/ o = NoObject /\ Reply(c, "incomplete") /\ UNCHANGED head
       \/ o # NoObject /\ ~Matches(o, Job(c)) /\ Reply(c, "mismatch") /\ UNCHANGED head
       \/ /\ o # NoObject /\ Matches(o, Job(c))
          /\ head' = [head EXCEPT ![c] = o]
          /\ Goto(c, "lock") /\ UNCHANGED answer
       \/ Reply(c, "unavailable") /\ UNCHANGED head
    /\ UNCHANGED <<initVars, status, bucketVars, input, locks, pending, assets>>

\* Mutant: FOR UPDATE is forgotten.
LockWaitNever(c) == {}

\* FOR UPDATE waits for the open transactions that have the row locked.
LockWait(c) == {d \in locks \ {c} : pc[c] = "lock" /\ Job(d) = Job(c)}

\* SELECT .. FOR UPDATE: the row as last committed decides, not the one FindOwned read.
LockJob(c) ==
    /\ pc[c] = "lock"
    /\ LockWait(c) = {}
    /\ \/ /\ status[Job(c)] = "completed"
          /\ Goto(c, "repeat") /\ locks' = locks \cup {c} /\ UNCHANGED answer
       \/ /\ status[Job(c)] = "queued"
          /\ IF Matches(head[c], Job(c))
                THEN Goto(c, "insert") /\ locks' = locks \cup {c} /\ UNCHANGED answer
                ELSE Reply(c, "mismatch") /\ UNCHANGED locks
    /\ UNCHANGED <<initVars, status, bucketVars, input, head, pending, assets>>

Stored(c) == \E a \in assets : a.id = Job(c)

\* findAsset: the asset of a completed job, the transaction commits having written nothing.
RepeatCompletion(c) ==
    /\ pc[c] = "repeat"
    /\ Reply(c, IF Stored(c) THEN "ok" ELSE "error")
    /\ locks' = locks \ {c}
    /\ UNCHANGED <<initVars, status, bucketVars, input, head, pending, assets>>

\* The unique keys of item_assets: committed rows and those of other open transactions.
KeyTaken(c) == Stored(c) \/ \E d \in Calls \ {c} : pending[d] # NoRow /\ pending[d].id = Job(c)

\* INSERT INTO item_assets, with the metadata Head returned.  (A taken key would make it
\* wait or fail; RetriesNeverCollide says that it does not happen.)
InsertAsset(c) ==
    /\ pc[c] = "insert"
    /\ ~KeyTaken(c)
    /\ pending' = [pending EXCEPT ![c] = [id |-> Job(c), user |-> input[c].user,
                                          meta |-> head[c].meta, etag |-> head[c].etag]]
    /\ Goto(c, "commit")
    /\ UNCHANGED <<initVars, status, bucketVars, input, answer, head, locks, assets>>

\* Mutant: the asset is inserted through the pool; the transaction only marks the job.
PublishJobOnly(c) ==
    /\ status' = [status EXCEPT ![Job(c)] = "completed"]
    /\ UNCHANGED assets

\* UPDATE upload_jobs SET status = 'completed', and what COMMIT makes visible with it.
Publish(c) ==
    /\ status' = [status EXCEPT ![Job(c)] = "completed"]
    /\ assets' = assets \cup {pending[c]}

Release(c) ==
    /\ locks' = locks \ {c}
    /\ pending' = [pending EXCEPT ![c] = NoRow]

Commit(c) ==
    /\ pc[c] = "commit"
    /\ Publish(c)
    /\ Release(c)
    /\ Reply(c, "ok")
    /\ UNCHANGED <<initVars, bucketVars, input, head>>

\* A statement of the transaction fails, is cancelled or loses its connection, or the
\* process stops; the server may not have ended the transaction yet.
Fail(c) ==
    /\ pc[c] \in {"lock", "repeat", "insert", "commit"}
    /\ Goto(c, IF pc[c] = "commit" THEN "committing" ELSE "aborting")
    /\ answer' = [answer EXCEPT ![c] = "error"]
    /\ UNCHANGED <<initVars, status, bucketVars, input, head, locks, pending, assets>>

\* The deferred Rollback, or the server's own on a dead connection.
RollBack(c) ==
    /\ pc[c] \in {"aborting", "committing"}
    /\ Goto(c, "done")
    /\ Release(c)
    /\ UNCHANGED <<initVars, status, bucketVars, input, answer, head, assets>>

\* The COMMIT whose result did not reach the caller takes effect.
CommitUnseen(c) ==
    /\ pc[c] = "committing"
    /\ Publish(c)
    /\ Goto(c, "done")
    /\ Release(c)
    /\ UNCHANGED <<initVars, bucketVars, input, answer, head>>

Step(c) ==
    \/ FindOwned(c) \/ Head(c) \/ LockJob(c) \/ RepeatCompletion(c)
    \/ InsertAsset(c) \/ Commit(c) \/ RollBack(c)

Next ==
    \/ \E j \in Jobs : \E in \in InitInputs : ReceiveInit(j, in)
    \/ \E j \in Jobs : Sign(j) \/ CreateJob(j) \/ Expire(j) \/ \E o \in Objects : Put(j, o)
    \/ \E c \in Calls : \E in \in CompleteInputs : Receive(c, in)
    \/ \E c \in Calls : Step(c) \/ Fail(c) \/ CommitUnseen(c)

Spec == Init /\ [][Next]_vars

-----------------------------------------------------------------------------

InitAnswers == {"none", "ok", "invalid", "unavailable", "error"}
Answers == InitAnswers \cup {"not_found", "incomplete", "mismatch"}

TypeOK ==
    /\ initPc \in [Jobs -> {"idle", "sign", "create", "done"}]
    /\ declared \in [Jobs -> InitInputs \cup {NoInput}]
    /\ \A j \in Jobs : status[j] # "absent" =>
          declared[j].meta \in [type : PhotoTypes, size : 1..MaxPhotoBytes]
    /\ initAnswer \in [Jobs -> InitAnswers]
    /\ url \in [Jobs -> {"unsigned", "live", "expired"}]
    /\ status \in [Jobs -> {"absent", "queued", "completed"}]
    /\ object \in [Jobs -> Objects \cup {NoObject}]
    /\ uploaded \in [Jobs -> SUBSET Objects]
    /\ enforced \in BOOLEAN
    /\ pc \in [Calls -> {"idle", "find", "head", "lock", "repeat", "insert", "commit",
                         "aborting", "committing", "done"}]
    /\ input \in [Calls -> CompleteInputs \cup {NoInput}]
    /\ answer \in [Calls -> Answers]
    /\ head \in [Calls -> Objects \cup {NoObject}]
    /\ locks \subseteq Calls
    /\ pending \in [Calls -> AssetRows \cup {NoRow}]
    /\ assets \subseteq AssetRows

\* "Commits the asset insert and status transition together": a job is completed exactly when
\* its one asset exists, whatever failed in between and however often it was retried.
CompletedHasItsAsset ==
    /\ \A j \in Jobs : status[j] = "completed" <=> \E a \in assets : a.id = j
    /\ \A a, b \in assets : a.id = b.id => a = b

\* An asset is the owner's and describes an object that really was in the bucket with the
\* size and type announced, also when the bucket holds nobody to them.
AssetIsVerified ==
    \A a \in assets :
        /\ a.user = declared[a.id].user
        /\ a.meta = declared[a.id].meta
        /\ [meta |-> a.meta, etag |-> a.etag] \in uploaded[a.id]

\* A completion that was acknowledged is durable, and only the owner is ever acknowledged.
AckedIsCompleted ==
    \A c \in Calls : answer[c] = "ok" =>
        /\ status[Job(c)] = "completed"
        /\ declared[Job(c)].user = input[c].user
        /\ \E a \in assets : a.id = Job(c)

\* "A concurrent/repeated caller observes the existing completed asset": the INSERT never
\* meets the key of another completion, which would answer a retry with an error.
RetriesNeverCollide == \A c \in Calls : pc[c] = "insert" => ~KeyTaken(c)

\* "Only then persists the upload job", and only then hands out the URL: the bucket holds no
\* object without a job.
NoOrphanObject == \A j \in Jobs : object[j] # NoObject => status[j] # "absent"

\* While the bucket enforces signatures, replays of the PUT, before and after completion, can
\* replace the contents of an asset's object but never its size or type.
ObjectKeepsItsShape ==
    enforced => \A a \in assets : object[a.id] # NoObject /\ object[a.id].meta = a.meta
==============================================================================
