---------------------------- MODULE UploadsProofs ----------------------------
(***************************************************************************)
(* The safety of Uploads for any number of jobs, completions, users and    *)
(* contents, over a bucket that enforces signatures or not.  A completion  *)
(* decides twice, in FindOwned without a lock and in LockJob with one.     *)
(* The first decision lasts because a job never changes its owner, its     *)
(* type or its size; the second because whoever would complete the job has *)
(* to lock its row.                                                        *)
(***************************************************************************)
EXTENDS Uploads, TLAPS

\* A job is what was declared before it was created; its URL was handed out after that; and the
\* bucket holds what was put with the URL.
JobOK(j) ==
    /\ initPc[j] # "done" => status[j] = "absent" /\ initAnswer[j] = "none"
    /\ initPc[j] \in {"sign", "create"} \/ status[j] # "absent" =>
           declared[j] \in InitInputs /\ ValidPhoto(declared[j])
    /\ initAnswer[j] = "ok" => status[j] # "absent"
    /\ object[j] # NoObject => initAnswer[j] = "ok" /\ object[j] \in uploaded[j]
    /\ enforced /\ object[j] # NoObject => object[j].meta = declared[j].meta

\* The call is the owner's, and its job is there.
Mine(c) ==
    /\ input[c] \in CompleteInputs /\ Job(c) \in Jobs
    /\ status[Job(c)] # "absent" /\ declared[Job(c)].user = input[c].user

\* The object the call saw was in the bucket as announced.
Seen(c) ==
    /\ head[c] \in Objects /\ head[c] \in uploaded[Job(c)]
    /\ head[c].meta = declared[Job(c)].meta
    /\ object[Job(c)] # NoObject

Row(c) == [id |-> Job(c), user |-> input[c].user, meta |-> head[c].meta, etag |-> head[c].etag]

\* What each call has found out so far, the lock it holds and the row it inserted.
CallOK(c) ==
    /\ pc[c] = "find" => input[c] \in CompleteInputs
    /\ pc[c] \in {"head", "lock", "repeat", "insert", "commit", "committing"} => Mine(c)
    /\ pc[c] \in {"lock", "repeat", "insert", "commit", "committing"} => Seen(c)
    /\ pc[c] \in {"repeat", "insert", "commit", "committing"} => c \in locks
    /\ c \in locks => pc[c] \in {"repeat", "insert", "commit", "committing", "aborting"}
    /\ pc[c] = "repeat" => status[Job(c)] = "completed"
    /\ pc[c] \in {"insert", "commit", "committing"} => status[Job(c)] = "queued"
    /\ pending[c] = IF pc[c] \in {"commit", "committing"} THEN Row(c) ELSE NoRow
    /\ answer[c] = "ok" => pc[c] = "done" /\ Mine(c) /\ status[Job(c)] = "completed"

\* The row of a job is locked by one transaction at a time.
LockInv == \A c, d \in locks : Job(c) = Job(d) => c = d

AssetInv ==
    /\ CompletedHasItsAsset /\ AssetIsVerified
    /\ \A a \in assets : object[a.id] # NoObject

IInv ==
    /\ TypeOK
    /\ \A j \in Jobs : JobOK(j)
    /\ \A c \in Calls : CallOK(c)
    /\ LockInv /\ AssetInv

USE MetasAssumption, NoObjectAssumption

\* The photo of a valid input has one of the types and a size within the limit.
LEMMA ValidPhotoMeta ==
    ASSUME NEW in \in InitInputs, ValidPhoto(in)
    PROVE  in.meta \in [type : PhotoTypes, size : 1..MaxPhotoBytes]
<1>1. in.meta \in [type : STRING, size : Nat]
  BY DEF InitInputs
<1> QED
  BY <1>1 DEF ValidPhoto

\* Nothing has happened yet.
LEMMA InitIInv == Init => IInv
<1> SUFFICES ASSUME Init
             PROVE  IInv
  OBVIOUS
<1>1. TypeOK
  BY DEF Init, TypeOK, InitAnswers, Answers
<1>2. \A j \in Jobs : JobOK(j)
  BY DEF Init, JobOK
<1>3. \A c \in Calls : CallOK(c)
  BY DEF Init, CallOK
<1>4. LockInv /\ AssetInv
  BY DEF Init, LockInv, AssetInv, CompletedHasItsAsset, AssetIsVerified
<1> QED
  BY <1>1, <1>2, <1>3, <1>4 DEF IInv

\* A job that is there stays there as declared, and an object that is there is only replaced: the
\* steps of Init and of the bucket leave every completion and every asset as good as they were.
LEMMA JobMove ==
    ASSUME IInv, UNCHANGED <<callVars, assets, enforced>>, TypeOK', \A j \in Jobs : JobOK(j)',
           \A j \in Jobs :
               /\ status[j] # "absent" => status'[j] = status[j] /\ declared'[j] = declared[j]
               /\ status[j] = "absent" => status'[j] \in {"absent", "queued"}
               /\ uploaded[j] \subseteq uploaded'[j]
               /\ object[j] # NoObject => object'[j] # NoObject
    PROVE  IInv'
<1>1. ASSUME NEW c \in Calls
      PROVE  CallOK(c)'
  <2>1. Mine(c) => Mine(c)' /\ status'[Job(c)] = status[Job(c)] /\ Job(c)' = Job(c)
    BY DEF Mine, Job, callVars
  <2>2. Mine(c) /\ Seen(c) => Seen(c)'
    BY DEF Mine, Seen, Job, callVars
  <2>3. Row(c)' = Row(c)
    BY DEF Row, Job, callVars
  <2> QED
    BY <2>1, <2>2, <2>3 DEF IInv, CallOK, callVars, Job
<1>2. LockInv'
  BY DEF IInv, LockInv, Job, callVars
<1>3. AssetInv'
  <2>1. \A a \in assets : a.id \in Jobs /\ status[a.id] = "completed"
    BY DEF IInv, TypeOK, AssetInv, CompletedHasItsAsset, AssetRows
  <2>2. \A j \in Jobs : status'[j] = "completed" <=> status[j] = "completed"
    BY DEF IInv, TypeOK
  <2>3. CompletedHasItsAsset'
    BY <2>2 DEF IInv, AssetInv, CompletedHasItsAsset
  <2>4. AssetIsVerified' /\ \A a \in assets' : object'[a.id] # NoObject
    BY <2>1 DEF IInv, AssetInv, AssetIsVerified
  <2> QED
    BY <2>3, <2>4 DEF AssetInv
<1> QED
  BY <1>1, <1>2, <1>3 DEF IInv

\* A step of one completion that publishes nothing.
Moves(c) ==
    /\ UNCHANGED <<initVars, status, bucketVars, assets>>
    /\ \A d \in Calls \ {c} :
           /\ pc'[d] = pc[d] /\ input'[d] = input[d] /\ answer'[d] = answer[d]
           /\ head'[d] = head[d] /\ pending'[d] = pending[d]
           /\ d \in locks' <=> d \in locks
    /\ c \in locks' => /\ input'[c] = input[c]
                       /\ c \in locks \/ \A d \in locks : Job(d) # Job(c)

\* Such a step keeps the invariant if it leaves its own call in order.
LEMMA CallMove ==
    ASSUME IInv, NEW c \in Calls, Moves(c), TypeOK', CallOK(c)'
    PROVE  IInv'
<1>1. \A j \in Jobs : JobOK(j)'
  BY DEF IInv, Moves, initVars, bucketVars, JobOK
<1>2. ASSUME NEW d \in Calls, d # c
      PROVE  CallOK(d)'
  <2>1. Job(d)' = Job(d)
    BY <1>2 DEF Moves, Job
  <2>2. Mine(d)' = Mine(d) /\ Seen(d)' = Seen(d) /\ Row(d)' = Row(d)
    BY <1>2, <2>1 DEF Moves, Mine, Seen, Row, initVars, bucketVars
  <2> QED
    BY <1>2, <2>1, <2>2 DEF IInv, CallOK, Moves
<1>3. LockInv'
  <2> SUFFICES ASSUME NEW d \in locks', NEW e \in locks', Job(d)' = Job(e)'
               PROVE  d = e
    BY DEF LockInv
  <2>1. d \in Calls /\ e \in Calls
    BY DEF TypeOK
  <2>2. Job(d)' = Job(d) /\ Job(e)' = Job(e)
    BY <2>1 DEF Moves, Job
  <2> QED
    BY <2>1, <2>2 DEF IInv, LockInv, Moves
<1>4. AssetInv'
  BY DEF IInv, AssetInv, CompletedHasItsAsset, AssetIsVerified, Moves, initVars, bucketVars
<1> QED
  BY <1>1, <1>2, <1>3, <1>4 DEF IInv

-----------------------------------------------------------------------------
(* Init and the bucket *)

\* The steps of Handler.Init change a job that is not there yet.
LEMMA InitStepIInv ==
    ASSUME IInv, NEW j \in Jobs, (\E in \in InitInputs : ReceiveInit(j, in)) \/ Sign(j) \/ CreateJob(j)
    PROVE  IInv'
<1>0. JobOK(j) /\ status[j] = "absent" /\ object[j] = NoObject
  BY DEF IInv, JobOK, ReceiveInit, Sign, CreateJob
<1>1. ASSUME NEW in \in InitInputs, ReceiveInit(j, in)
      PROVE  TypeOK' /\ \A k \in Jobs : JobOK(k)'
  <2>1. TypeOK'
    BY <1>0, <1>1 DEF ReceiveInit, InitReply, IInv, TypeOK, InitAnswers, bucketVars, callVars
  <2>2. ASSUME NEW k \in Jobs
        PROVE  JobOK(k)'
    BY <1>0, <1>1 DEF ReceiveInit, InitReply, IInv, TypeOK, JobOK, bucketVars
  <2> QED
    BY <2>1, <2>2
<1>2. CASE Sign(j)
  <2>1. TypeOK'
    BY <1>2 DEF Sign, InitReply, IInv, TypeOK, InitAnswers, bucketVars, callVars
  <2>2. ASSUME NEW k \in Jobs
        PROVE  JobOK(k)'
    BY <1>0, <1>2 DEF Sign, InitReply, IInv, TypeOK, JobOK, bucketVars
  <2> QED
    BY <1>0, <1>2, <2>1, <2>2, JobMove DEF Sign, bucketVars
<1>3. CASE CreateJob(j)
  <2>1. declared[j] \in InitInputs /\ declared[j].meta \in [type : PhotoTypes, size : 1..MaxPhotoBytes]
    BY <1>0, <1>3, ValidPhotoMeta DEF CreateJob, JobOK
  <2>2. /\ initPc' = [initPc EXCEPT ![j] = "done"]
        /\ \/ initAnswer' = [initAnswer EXCEPT ![j] = "ok"] /\ status' = [status EXCEPT ![j] = "queued"]
           \/ initAnswer' = [initAnswer EXCEPT ![j] = "error"]
        /\ status' = [status EXCEPT ![j] = "queued"] \/ status' = status
    BY <1>3 DEF CreateJob, InitReply
  <2>3. UNCHANGED <<declared, url, bucketVars, callVars, assets>>
    BY <1>3 DEF CreateJob
  <2>4. TypeOK'
    <3>1. /\ initPc' \in [Jobs -> {"idle", "sign", "create", "done"}] /\ initAnswer' \in [Jobs -> InitAnswers]
          /\ status' \in [Jobs -> {"absent", "queued", "completed"}]
      BY <2>2 DEF IInv, TypeOK, InitAnswers
    <3>2. \A k \in Jobs : status'[k] # "absent" =>
             declared'[k].meta \in [type : PhotoTypes, size : 1..MaxPhotoBytes]
      BY <2>1, <2>2, <2>3 DEF IInv, TypeOK
    <3> QED
      BY <2>3, <3>1, <3>2 DEF IInv, TypeOK, bucketVars, callVars
  <2>5. ASSUME NEW k \in Jobs
        PROVE  JobOK(k)'
    <3>1. initPc[j] = "create"
      BY <1>3 DEF CreateJob
    <3> QED
      BY <1>0, <2>2, <2>3, <3>1 DEF IInv, TypeOK, JobOK, bucketVars
  <2> QED
    BY <1>0, <2>2, <2>3, <2>4, <2>5, JobMove DEF bucketVars, IInv, TypeOK
<1>4. ASSUME NEW in \in InitInputs, ReceiveInit(j, in)
      PROVE  IInv'
  BY <1>0, <1>1, <1>4, JobMove DEF ReceiveInit, bucketVars, IInv, TypeOK
<1> QED
  BY <1>2, <1>3, <1>4

\* A PUT needs a URL that was handed out, and stores what the bucket accepts.
LEMMA PutIInv ==
    ASSUME IInv, NEW j \in Jobs, NEW o \in Objects, Put(j, o)
    PROVE  IInv'
<1>1. o # NoObject /\ o.meta \in Accepted(j)
  BY DEF Put, Objects
<1>2. enforced => o.meta = declared[j].meta
  BY <1>1 DEF Accepted
<1>3. TypeOK'
  BY DEF Put, IInv, TypeOK, initVars, callVars
<1>4. ASSUME NEW k \in Jobs
      PROVE  JobOK(k)' /\ uploaded[k] \subseteq uploaded'[k] /\ (object[k] # NoObject => object'[k] # NoObject)
  BY <1>1, <1>2 DEF Put, IInv, TypeOK, JobOK, initVars
<1> QED
  BY <1>3, <1>4, JobMove DEF Put, initVars, IInv, TypeOK

\* The end of a URL.
LEMMA ExpireIInv ==
    ASSUME IInv, NEW j \in Jobs, Expire(j)
    PROVE  IInv'
<1>1. TypeOK'
  BY DEF Expire, IInv, TypeOK, bucketVars, callVars
<1>2. \A k \in Jobs : JobOK(k)'
  BY DEF Expire, IInv, JobOK, bucketVars
<1> QED
  BY <1>1, <1>2, JobMove DEF Expire, bucketVars, IInv, TypeOK

-----------------------------------------------------------------------------
(* Completions *)

\* Up to the lock a call only reads.
LEMMA ReadIInv ==
    ASSUME IInv, NEW c \in Calls,
           (\E in \in CompleteInputs : Receive(c, in)) \/ FindOwned(c) \/ Head(c)
    PROVE  IInv'
<1>0. CallOK(c) /\ c \notin locks /\ pending[c] = NoRow
  BY DEF IInv, CallOK, Receive, FindOwned, Head
<1>1. ASSUME NEW in \in CompleteInputs, Receive(c, in)
      PROVE  IInv'
  <2>1. TypeOK'
    BY <1>1 DEF Receive, Reply, Goto, IInv, TypeOK, InitAnswers, Answers, initVars, bucketVars
  <2>2. CallOK(c)'
    BY <1>0, <1>1 DEF Receive, Reply, Goto, IInv, TypeOK, CallOK
  <2>3. Moves(c)
    BY <1>0, <1>1 DEF Receive, Reply, Goto, IInv, TypeOK, Moves
  <2> QED
    BY <2>1, <2>2, <2>3, CallMove
<1>2. CASE FindOwned(c)
  <2>1. TypeOK'
    BY <1>2 DEF FindOwned, Reply, Goto, IInv, TypeOK, InitAnswers, Answers, initVars, bucketVars
  <2>2. input[c] \in CompleteInputs /\ (Owned(input[c]) => Mine(c))
    BY <1>0, <1>2 DEF FindOwned, CallOK, Owned, Mine, Job, CompleteInputs
  <2>3. Mine(c)' = Mine(c) /\ Job(c)' = Job(c)
    BY <1>2 DEF FindOwned, Mine, Job, initVars
  <2>4. CallOK(c)'
    BY <1>0, <1>2, <2>2, <2>3 DEF FindOwned, Reply, Goto, IInv, TypeOK, CallOK
  <2>5. Moves(c)
    BY <1>0, <1>2 DEF FindOwned, Reply, Goto, IInv, TypeOK, Moves
  <2> QED
    BY <2>1, <2>4, <2>5, CallMove
<1>3. CASE Head(c)
  <2>0. Mine(c) /\ JobOK(Job(c))
    BY <1>0, <1>3 DEF Head, CallOK, Mine, IInv
  <2>1. TypeOK'
    <3>1. object[Job(c)] \in Objects \cup {NoObject}
      BY <2>0 DEF Mine, IInv, TypeOK
    <3> QED
      BY <1>3, <3>1 DEF Head, Reply, Goto, IInv, TypeOK, InitAnswers, Answers, initVars, bucketVars
  <2>2. Mine(c)' = Mine(c) /\ Job(c)' = Job(c)
    BY <1>3 DEF Head, Mine, Job, initVars
  <2>3. pc'[c] = "lock" => Seen(c)'
    <3> SUFFICES ASSUME pc'[c] = "lock"
                 PROVE  Seen(c)'
      OBVIOUS
    <3>1. object[Job(c)] # NoObject /\ Matches(object[Job(c)], Job(c)) /\ head'[c] = object[Job(c)]
      BY <1>3 DEF Head, Reply, Goto, IInv, TypeOK
    <3>2. object[Job(c)] \in Objects /\ object[Job(c)] \in uploaded[Job(c)]
      BY <2>0, <3>1 DEF Mine, IInv, TypeOK, JobOK
    <3>3. UNCHANGED <<object, uploaded, declared>>
      BY <1>3 DEF Head, initVars, bucketVars
    <3> QED
      BY <2>2, <3>1, <3>2, <3>3 DEF Seen, Matches
  <2>4. CallOK(c)'
    BY <1>0, <1>3, <2>0, <2>2, <2>3 DEF Head, Reply, Goto, IInv, TypeOK, CallOK
  <2>5. Moves(c)
    BY <1>0, <1>3 DEF Head, Reply, Goto, IInv, TypeOK, Moves
  <2> QED
    BY <2>1, <2>4, <2>5, CallMove
<1> QED
  BY <1>1, <1>2, <1>3

\* The statements of the transaction, its failure and its end, but for COMMIT.
LEMMA TransactionIInv ==
    ASSUME IInv, NEW c \in Calls,
           LockJob(c) \/ RepeatCompletion(c) \/ InsertAsset(c) \/ Fail(c) \/ RollBack(c)
    PROVE  IInv'
<1>0. CallOK(c)
  BY DEF IInv
<1>1. /\ Job(c)' = Job(c) /\ Mine(c)' = Mine(c) /\ Seen(c)' = Seen(c) /\ Row(c)' = Row(c)
      /\ UNCHANGED <<status, input, head>>
  BY DEF LockJob, RepeatCompletion, InsertAsset, Fail, RollBack, Job, Mine, Seen, Row, initVars, bucketVars
<1>2. CASE LockJob(c)
  <2>1. TypeOK' /\ Moves(c)
    <3>1. \A d \in locks : d # c => Job(d) # Job(c)
      BY <1>2 DEF LockJob, LockWait
    <3>2. Moves(c)
      BY <1>1, <1>2, <3>1 DEF LockJob, Reply, Goto, IInv, TypeOK, Moves
    <3> QED
      BY <1>2, <3>2 DEF LockJob, Reply, Goto, IInv, TypeOK, InitAnswers, Answers, initVars, bucketVars
  <2>2. CallOK(c)'
    BY <1>0, <1>1, <1>2 DEF LockJob, Reply, Goto, IInv, TypeOK, CallOK
  <2> QED
    BY <2>1, <2>2, CallMove
<1>3. CASE RepeatCompletion(c)
  <2>1. TypeOK' /\ Moves(c)
    BY <1>3 DEF RepeatCompletion, Reply, Goto, IInv, TypeOK, Moves, InitAnswers, Answers, initVars, bucketVars
  <2>2. CallOK(c)'
    BY <1>0, <1>1, <1>3 DEF RepeatCompletion, Reply, Goto, IInv, TypeOK, CallOK
  <2> QED
    BY <2>1, <2>2, CallMove
<1>4. CASE InsertAsset(c)
  <2>1. Row(c) \in AssetRows /\ pending' = [pending EXCEPT ![c] = Row(c)] /\ pc' = [pc EXCEPT ![c] = "commit"]
    BY <1>0, <1>4 DEF InsertAsset, Goto, CallOK, Mine, Seen, Row, CompleteInputs, Objects, AssetRows
  <2>2. UNCHANGED <<initVars, status, bucketVars, input, answer, head, locks, assets>>
    BY <1>4 DEF InsertAsset
  <2>3. TypeOK' /\ Moves(c)
    BY <2>1, <2>2, <1>0, <1>4 DEF InsertAsset, CallOK, IInv, TypeOK, Moves, initVars, bucketVars
  <2>4. CallOK(c)'
    BY <1>0, <1>1, <1>4, <2>1, <2>2 DEF InsertAsset, IInv, TypeOK, CallOK
  <2> QED
    BY <2>3, <2>4, CallMove
<1>5. CASE Fail(c)
  <2>1. TypeOK' /\ Moves(c)
    BY <1>5 DEF Fail, Goto, IInv, TypeOK, Moves, InitAnswers, Answers, initVars, bucketVars
  <2>2. CallOK(c)'
    BY <1>0, <1>1, <1>5 DEF Fail, Goto, IInv, TypeOK, CallOK
  <2> QED
    BY <2>1, <2>2, CallMove
<1>6. CASE RollBack(c)
  <2>1. TypeOK' /\ Moves(c)
    BY <1>6 DEF RollBack, Release, Goto, IInv, TypeOK, Moves, InitAnswers, Answers, initVars, bucketVars
  <2>2. CallOK(c)'
    BY <1>0, <1>1, <1>6 DEF RollBack, Release, Goto, IInv, TypeOK, CallOK
  <2> QED
    BY <2>1, <2>2, CallMove
<1> QED
  BY <1>2, <1>3, <1>4, <1>5, <1>6

\* COMMIT completes the job of the call, which had none before, and gives the lock back.
LEMMA PublishIInv ==
    ASSUME IInv, NEW c \in Calls, Commit(c) \/ CommitUnseen(c)
    PROVE  IInv'
<1> DEFINE j == Job(c)
<1>0. /\ CallOK(c) /\ pc[c] \in {"commit", "committing"} /\ Mine(c) /\ Seen(c) /\ c \in locks
      /\ j \in Jobs /\ status[j] = "queued" /\ pending[c] = Row(c)
  BY DEF IInv, CallOK, Commit, CommitUnseen, Mine
<1>1. /\ status' = [status EXCEPT ![j] = "completed"] /\ assets' = assets \cup {Row(c)}
      /\ locks' = locks \ {c} /\ pending' = [pending EXCEPT ![c] = NoRow]
      /\ pc' = [pc EXCEPT ![c] = "done"]
      /\ answer' = [answer EXCEPT ![c] = "ok"] \/ answer' = answer
      /\ UNCHANGED <<initVars, bucketVars, input, head>>
  BY <1>0 DEF Commit, CommitUnseen, Publish, Release, Reply, Goto
<1>2. /\ \A d \in Calls : Job(d)' = Job(d) /\ Seen(d)' = Seen(d) /\ Row(d)' = Row(d) /\ (Mine(d) => Mine(d)')
      /\ Row(c) \in AssetRows /\ Row(c).id = j
  <2>1. Row(c) \in AssetRows /\ Row(c).id = j
    BY <1>0 DEF Mine, Seen, Row, CompleteInputs, Objects, AssetRows
  <2>2. ASSUME NEW d \in Calls
        PROVE  Job(d)' = Job(d) /\ Seen(d)' = Seen(d) /\ Row(d)' = Row(d)
    BY <1>1 DEF Job, Seen, Row, initVars, bucketVars
  <2>3. ASSUME NEW d \in Calls, Mine(d)
        PROVE  Mine(d)'
    BY <1>0, <1>1, <2>2, <2>3 DEF Mine, initVars, IInv, TypeOK
  <2> QED
    BY <2>1, <2>2, <2>3
<1> HIDE DEF j
<1>3. TypeOK'
  <2>1. /\ status' \in [Jobs -> {"absent", "queued", "completed"}]
        /\ \A k \in Jobs : status'[k] # "absent" => status[k] # "absent"
    BY <1>0, <1>1 DEF IInv, TypeOK
  <2>2. pc' \in [Calls -> {"idle", "find", "head", "lock", "repeat", "insert", "commit",
                           "aborting", "committing", "done"}]
        /\ answer' \in [Calls -> Answers]
    BY <1>1 DEF IInv, TypeOK, Answers, InitAnswers
  <2>3. locks' \subseteq Calls /\ pending' \in [Calls -> AssetRows \cup {NoRow}] /\ assets' \subseteq AssetRows
    BY <1>1, <1>2 DEF IInv, TypeOK
  <2> QED
    BY <1>1, <2>1, <2>2, <2>3 DEF IInv, TypeOK, initVars, bucketVars
<1>4. \A k \in Jobs : JobOK(k)'
  BY <1>0, <1>1 DEF IInv, TypeOK, JobOK, initVars, bucketVars
<1>5. ASSUME NEW d \in Calls
      PROVE  CallOK(d)'
  <2>1. CASE d = c
    <3>1. Mine(c)' /\ status'[Job(c)'] = "completed"
      BY <1>0, <1>1, <1>2 DEF IInv, TypeOK, j
    <3> QED
      BY <1>0, <1>1, <2>1, <3>1 DEF IInv, TypeOK, CallOK
  <2>2. CASE d # c
    <3>1. pc'[d] = pc[d] /\ pending'[d] = pending[d] /\ answer'[d] = answer[d] /\ (d \in locks' <=> d \in locks)
      BY <1>1, <2>2 DEF IInv, TypeOK
    <3>2. d \in locks => Job(d) # j
      BY <1>0, <2>2 DEF IInv, LockInv, j
    <3>3. /\ Job(d) # j => status'[Job(d)] = status[Job(d)]
          /\ Job(d) = j => status'[Job(d)] = "completed"
      BY <1>0, <1>1 DEF IInv, TypeOK
    <3> QED
      BY <1>1, <1>2, <3>1, <3>2, <3>3 DEF IInv, CallOK
  <2> QED
    BY <2>1, <2>2
<1>6. LockInv'
  BY <1>1, <1>2 DEF IInv, TypeOK, LockInv
<1>7. AssetInv'
  <2>1. \A a \in assets : a.id # j
    BY <1>0 DEF IInv, AssetInv, CompletedHasItsAsset
  <2>2. CompletedHasItsAsset'
    <3>1. ASSUME NEW k \in Jobs
          PROVE  status'[k] = "completed" <=> \E a \in assets' : a.id = k
      <4>1. CASE k = j
        BY <1>0, <1>1, <1>2, <4>1 DEF IInv, TypeOK
      <4>2. CASE k # j
        BY <1>0, <1>1, <1>2, <4>2 DEF IInv, TypeOK, AssetInv, CompletedHasItsAsset
      <4> QED
        BY <4>1, <4>2
    <3>2. \A a, b \in assets' : a.id = b.id => a = b
      BY <1>1, <1>2, <2>1 DEF IInv, AssetInv, CompletedHasItsAsset
    <3> QED
      BY <3>1, <3>2 DEF CompletedHasItsAsset
  <2>3. /\ Row(c).user = declared[j].user /\ Row(c).meta = declared[j].meta
        /\ [meta |-> Row(c).meta, etag |-> Row(c).etag] \in uploaded[j]
        /\ object[j] # NoObject
    <3>1. [meta |-> head[c].meta, etag |-> head[c].etag] = head[c]
      BY <1>0 DEF Seen, Objects
    <3> QED
      BY <1>0, <3>1 DEF Mine, Seen, Row, j
  <2>4. AssetIsVerified' /\ \A a \in assets' : object'[a.id] # NoObject
    BY <1>1, <1>2, <2>3 DEF IInv, AssetInv, AssetIsVerified, initVars, bucketVars
  <2> QED
    BY <2>2, <2>4 DEF AssetInv
<1> QED
  BY <1>3, <1>4, <1>5, <1>6, <1>7 DEF IInv

\* Every step preserves the invariant.
LEMMA NextIInv == IInv /\ [Next]_vars => IInv'
<1> SUFFICES ASSUME IInv, [Next]_vars
             PROVE  IInv'
  OBVIOUS
<1>1. CASE UNCHANGED vars
  <2>1. TypeOK' /\ \A j \in Jobs : JobOK(j)'
    BY <1>1 DEF vars, initVars, bucketVars, callVars, IInv, TypeOK, JobOK
  <2> QED
    BY <1>1, <2>1, JobMove DEF vars, initVars, bucketVars, IInv, TypeOK
<1> QED
  BY <1>1, InitStepIInv, PutIInv, ExpireIInv, ReadIInv, TransactionIInv, PublishIInv DEF Next, Step

\* The invariant holds in every state.
LEMMA SpecIInv == Spec => []IInv
BY InitIInv, NextIInv, PTL DEF Spec

-----------------------------------------------------------------------------
(* Theorems *)

\* The types, for any number of jobs and completions.
THEOREM SpecTypeOK == Spec => []TypeOK
<1>1. IInv => TypeOK
  BY DEF IInv
<1> QED
  BY <1>1, SpecIInv, PTL

\* A job is completed exactly when its one asset exists.
THEOREM SpecCompletedHasItsAsset == Spec => []CompletedHasItsAsset
<1>1. IInv => CompletedHasItsAsset
  BY DEF IInv, AssetInv
<1> QED
  BY <1>1, SpecIInv, PTL

\* An asset is its owner's, and describes an object that was there as announced.
THEOREM SpecAssetIsVerified == Spec => []AssetIsVerified
<1>1. IInv => AssetIsVerified
  BY DEF IInv, AssetInv
<1> QED
  BY <1>1, SpecIInv, PTL

\* A completion that was acknowledged is durable, and the owner's.
THEOREM SpecAckedIsCompleted == Spec => []AckedIsCompleted
<1>1. ASSUME IInv, NEW c \in Calls, answer[c] = "ok"
      PROVE  /\ status[Job(c)] = "completed" /\ declared[Job(c)].user = input[c].user
             /\ \E a \in assets : a.id = Job(c)
  <2>1. Mine(c) /\ status[Job(c)] = "completed"
    BY <1>1 DEF IInv, CallOK
  <2> QED
    BY <1>1, <2>1 DEF Mine, IInv, AssetInv, CompletedHasItsAsset
<1>2. IInv => AckedIsCompleted
  BY <1>1 DEF AckedIsCompleted
<1> QED
  BY <1>2, SpecIInv, PTL

\* The INSERT of a completion never meets the key of another one.
THEOREM SpecRetriesNeverCollide == Spec => []RetriesNeverCollide
<1>1. ASSUME IInv, NEW c \in Calls, pc[c] = "insert"
      PROVE  ~KeyTaken(c)
  <2>1. Job(c) \in Jobs /\ status[Job(c)] = "queued" /\ c \in locks
    BY <1>1 DEF IInv, CallOK, Mine
  <2>2. ~Stored(c)
    BY <1>1, <2>1 DEF Stored, IInv, AssetInv, CompletedHasItsAsset
  <2>3. ASSUME NEW d \in Calls \ {c}, pending[d] # NoRow
        PROVE  pending[d].id # Job(c)
    <3>1. pending[d] = Row(d) /\ d \in locks
      BY <1>1, <2>3 DEF IInv, CallOK
    <3> QED
      BY <1>1, <2>1, <2>3, <3>1 DEF IInv, LockInv, Row
  <2> QED
    BY <2>2, <2>3 DEF KeyTaken
<1>2. IInv => RetriesNeverCollide
  BY <1>1 DEF RetriesNeverCollide
<1> QED
  BY <1>2, SpecIInv, PTL

\* The bucket holds no object without a job.
THEOREM SpecNoOrphanObject == Spec => []NoOrphanObject
<1>1. IInv => NoOrphanObject
  BY DEF IInv, JobOK, NoOrphanObject
<1> QED
  BY <1>1, SpecIInv, PTL

\* While the bucket enforces signatures, the object of an asset keeps its size and type.
THEOREM SpecObjectKeepsItsShape == Spec => []ObjectKeepsItsShape
<1>1. ASSUME IInv, enforced, NEW a \in assets
      PROVE  object[a.id] # NoObject /\ object[a.id].meta = a.meta
  <2>1. a.id \in Jobs /\ object[a.id] # NoObject /\ a.meta = declared[a.id].meta
    BY <1>1 DEF IInv, TypeOK, AssetRows, AssetInv, AssetIsVerified
  <2> QED
    BY <1>1, <2>1 DEF IInv, JobOK
<1>2. IInv => ObjectKeepsItsShape
  BY <1>1 DEF ObjectKeepsItsShape
<1> QED
  BY <1>2, SpecIInv, PTL
=============================================================================
