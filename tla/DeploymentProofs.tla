-------------------------- MODULE DeploymentProofs --------------------------
(***************************************************************************)
(* The safety of a deployment: of the script that changes the host, and of *)
(* the migrator that every process of the new release runs when it boots.  *)
(*                                                                         *)
(* HostDeploy, for any paths, commits and refused contents: whatever the   *)
(* script is at, what it has done of its loop follows the configuration of *)
(* the commit or the copies, the rest is as the run found it.              *)
(*                                                                         *)
(* Migrator, for any number of boots, releases and files: whoever is       *)
(* between taking the lock and giving it back holds it, in a process or in *)
(* a session that outlived it; so what a boot has read of                  *)
(* schema_migrations stays true until it commits, and the file it executes *)
(* is the one after the last that was applied.                             *)
(***************************************************************************)
EXTENDS Migrator, HostDeploy, SequenceTheorems, TLAPS

-----------------------------------------------------------------------------
(* The deploy script *)

Contents == Commits \cup {Absent, Torn, Edited}

Stages == {"compose", "wait", "backup", "verify", "apply", "test", "smoke", "remove", "report",
           "restore", "retest", "discard"}

DeployTypeOK ==
    /\ head \in Commits
    /\ live \in [Services -> Commits]
    /\ files \in [Indices -> Contents]
    /\ loaded \in [Indices -> Contents]
    /\ stage \in Stages \cup {"idle"}
    /\ at \in Indices
    /\ run \in [sha : Commits, sync : BOOLEAN, before : [Indices -> Contents]]
    /\ backup \in [Indices -> Contents \cup {NotCopied}]
    /\ unlisted \in SUBSET Indices
    /\ result \in {"none", "ok", "failed", "killed"}
    /\ runs \in Nat

Copied == backup = run.before

Restored(i) == files[i] = IF i \in unlisted THEN Absent ELSE run.before[i]

Uncopied == backup = [i \in Indices |-> NotCopied]

\* What a run that goes on knows of the files and of their copies, stage by stage: the loops are
\* through with the indices before at.
StageInv ==
    /\ stage \in {"compose", "wait"} => files = run.before /\ Uncopied
    /\ stage = "backup" =>
          /\ files = run.before
          /\ \A i \in Indices : backup[i] = IF i < at THEN files[i] ELSE NotCopied
    /\ stage = "verify" => files = run.before /\ Copied
    /\ stage = "apply" =>
          /\ Copied
          /\ \A i \in Indices : files[i] = IF i < at THEN Target(run.sha, i) ELSE run.before[i]
    /\ stage = "test" => Copied /\ files = Installed(run.sha)
    /\ stage = "smoke" =>
          IF run.sync THEN Copied /\ files = Installed(run.sha) /\ loaded = files
                      ELSE Uncopied /\ files = run.before
    /\ stage = "remove" => Replaced
    /\ stage = "report" => IF run.sync THEN Replaced ELSE files = run.before
    /\ stage = "restore" =>
          /\ Copied
          /\ \A i \in Indices : (i < at => Restored(i)) /\ (i \in unlisted => i < at)
    /\ stage = "retest" => Copied /\ PutBack
    /\ stage = "discard" => PutBack
    /\ stage \in Stages \ {"restore", "retest", "discard"} => unlisted = {}

\* Only a forward run comes to the configuration, and only after its images are up.
RunInv ==
    /\ stage # "idle" => head = run.sha /\ result = "none"
    /\ stage \in Stages \ {"compose", "wait", "smoke", "report"} => run.sync
    /\ stage \in Stages \ {"compose"} => live = [s \in Services |-> run.sha]

DeployInv ==
    DeployTypeOK /\ StageInv /\ RunInv /\ PreviousConfigIsNeverLost /\ ResultTellsTheTruth

\* The paths are a sequence that is not empty.
LEMMA IndicesAreAnInterval ==
    /\ Len(Paths) \in Nat \ {0} /\ Indices = 1..Len(Paths)
    /\ 1 \in Indices /\ Len(Paths) \in Indices
<1>1. Len(Paths) \in Nat /\ Indices = 1..Len(Paths)
  BY SizesAssumption, LenProperties DEF Indices
<1>2. Len(Paths) # 0
  BY SizesAssumption, EmptySeq
<1> QED
  BY <1>1, <1>2

\* A run that goes on keeps its promises at every stage: the copies are complete, or the files
\* are in their places, or the new configuration is.
LEMMA OnwardDeployInv ==
    ASSUME DeployTypeOK', StageInv', RunInv', stage' \in Stages
    PROVE  DeployInv'
<1>1. Copied' \/ PutBack' \/ Replaced'
  <2>1. CASE \/ stage' \in {"compose", "wait", "backup"}
             \/ stage' \in {"smoke", "report"} /\ ~run'.sync
    BY <2>1 DEF StageInv, PutBack, Stages
  <2>2. CASE \/ stage' \in {"verify", "apply", "test", "restore", "retest"}
             \/ stage' = "smoke" /\ run'.sync
    BY <2>2 DEF StageInv
  <2>3. CASE \/ stage' \in {"remove", "discard"}
             \/ stage' = "report" /\ run'.sync
    BY <2>3 DEF StageInv
  <2> QED
    BY <2>1, <2>2, <2>3 DEF Stages
<1>2. PreviousConfigIsNeverLost'
  BY <1>1 DEF PreviousConfigIsNeverLost, Copied, PutBack, DeployTypeOK
<1>3. result' = "none"
  BY DEF RunInv, Stages
<1>4. ResultTellsTheTruth'
  BY <1>3 DEF ResultTellsTheTruth
<1> QED
  BY <1>2, <1>4 DEF DeployInv

\* Wherever a run fails or is cut off, one of the three still holds.
LEMMA EndDeployInv ==
    ASSUME DeployTypeOK', End("failed") \/ End("killed"), Copied' \/ PutBack' \/ Replaced'
    PROVE  DeployInv'
<1>1. StageInv' /\ RunInv'
  BY DEF StageInv, RunInv, End, Stages
<1>2. PreviousConfigIsNeverLost'
  BY DEF PreviousConfigIsNeverLost, Copied, PutBack, DeployTypeOK
<1>3. ResultTellsTheTruth'
  BY DEF ResultTellsTheTruth, Copied, End
<1> QED
  BY <1>1, <1>2, <1>3 DEF DeployInv

\* What a commit installs is a configuration.
LEMMA InstalledIsAConfiguration ==
    ASSUME NEW c \in Commits
    PROVE  Installed(c) \in [Indices -> Contents] /\ \A i \in Indices : Target(c, i) \in Contents
BY DEF Installed, Target, Contents

\* The first commit is installed, and the script has not run.
LEMMA InitDeployInv == DeployInit => DeployInv
<1> SUFFICES ASSUME DeployInit
             PROVE  DeployInv
  OBVIOUS
<1>1. 1 \in Commits
  BY SizesAssumption DEF Commits
<1>2. DeployTypeOK
  BY <1>1, IndicesAreAnInterval, InstalledIsAConfiguration DEF DeployInit, DeployTypeOK
<1>3. StageInv /\ RunInv
  BY DEF DeployInit, StageInv, RunInv, Stages
<1>4. PreviousConfigIsNeverLost /\ ResultTellsTheTruth
  BY DEF DeployInit, PreviousConfigIsNeverLost, ResultTellsTheTruth
<1> QED
  BY <1>2, <1>3, <1>4 DEF DeployInv

\* A run begins, over what it finds.
LEMMA StartDeployInv ==
    ASSUME DeployInv, NEW c \in Commits, NEW sync \in BOOLEAN, Start(c, sync)
    PROVE  DeployInv'
<1>1. DeployTypeOK'
  BY IndicesAreAnInterval DEF DeployInv, DeployTypeOK, Start, Enter, Drop, Stages, host, edge
<1>2. StageInv' /\ RunInv'
  BY DEF Start, Enter, Drop, StageInv, RunInv, Stages, Uncopied, edge
<1>3. PreviousConfigIsNeverLost' /\ ResultTellsTheTruth'
  BY DEF Start, Enter, edge, PreviousConfigIsNeverLost, ResultTellsTheTruth
<1> QED
  BY <1>1, <1>2, <1>3 DEF DeployInv

\* The images go up one after the other, and the run ends there or goes on to wait for them.
LEMMA ComposeDeployInv ==
    ASSUME DeployInv, Compose \/ WaitHealthy
    PROVE  DeployInv'
<1>1. PICK services \in Prefixes : live' = Up(services) \/ UNCHANGED live
  BY DEF Compose, WaitHealthy, host, Prefixes
<1>2. Up(services) \in [Services -> Commits] /\ Up(Services) = [s \in Services |-> run.sha]
  BY DEF Up, DeployInv, DeployTypeOK
<1>3. DeployTypeOK'
  BY <1>1, <1>2, IndicesAreAnInterval
     DEF DeployInv, DeployTypeOK, Compose, WaitHealthy, Enter, End, Stages, host, edge
<1>4. /\ files = run.before /\ Uncopied /\ head = run.sha /\ unlisted = {}
      /\ UNCHANGED <<files, run, backup, head, unlisted>>
      /\ \/ End("failed")
         \/ /\ stage' \in {"wait", "backup", "smoke"} /\ result' = "none" /\ at' = 1
            /\ stage' = "backup" => run.sync
            /\ stage' = "smoke" => ~run.sync
  BY DEF DeployInv, StageInv, RunInv, Compose, WaitHealthy, Enter, End, Stages, host, edge
<1>5. CASE End("failed")
  <2>1. PutBack'
    BY <1>4 DEF PutBack
  <2> QED
    BY <1>3, <1>5, <2>1, EndDeployInv
<1>6. CASE stage' \in {"wait", "backup", "smoke"} /\ ~End("failed")
  <2>1. live' = [s \in Services |-> run.sha]
    BY <1>2, <1>6 DEF DeployInv, RunInv, Compose, WaitHealthy, Enter, End, Stages, host
  <2>2. StageInv'
    BY <1>4, <1>6, IndicesAreAnInterval DEF StageInv, Uncopied
  <2>3. RunInv'
    BY <1>4, <1>6, <2>1 DEF RunInv, Stages
  <2> QED
    BY <1>3, <1>6, <2>2, <2>3, OnwardDeployInv DEF Stages
<1> QED
  BY <1>4, <1>5, <1>6

\* The loop over the paths goes on, or it is through.
LEMMA AdvanceMoves ==
    ASSUME DeployTypeOK, NEW label, Advance(label)
    PROVE  \/ at = Len(Paths) /\ stage' = label /\ at' = 1
           \/ at < Len(Paths) /\ at' = at + 1 /\ at' \in Indices /\ stage' = stage
BY IndicesAreAnInterval DEF DeployTypeOK, Advance, Last, Enter

\* One more file is copied, or the run ends before anything was changed.
LEMMA BackupPathDeployInv ==
    ASSUME DeployInv, BackupPath
    PROVE  DeployInv'
<1>1. /\ at \in Indices /\ files = run.before /\ head = run.sha /\ result = "none" /\ run.sync
      /\ live = [s \in Services |-> run.sha] /\ unlisted = {}
      /\ \A i \in Indices : backup[i] = IF i < at THEN files[i] ELSE NotCopied
      /\ UNCHANGED <<head, live, files, loaded, run, unlisted, runs>> /\ stage = "backup"
  BY DEF DeployInv, DeployTypeOK, StageInv, RunInv, BackupPath, Stages, host, edge
<1>2. CASE UNCHANGED backup /\ End("failed")
  <2>1. DeployTypeOK'
    BY <1>1, <1>2, IndicesAreAnInterval DEF DeployInv, DeployTypeOK, End
  <2>2. PutBack'
    BY <1>1 DEF PutBack
  <2> QED
    BY <1>2, <2>1, <2>2, EndDeployInv
<1>3. CASE backup' = [backup EXCEPT ![at] = files[at]] /\ Advance("verify") /\ UNCHANGED result
  <2>1. \/ at = Len(Paths) /\ stage' = "verify" /\ at' = 1
        \/ at < Len(Paths) /\ at' = at + 1 /\ at' \in Indices /\ stage' = "backup"
    BY <1>1, <1>3, AdvanceMoves DEF DeployInv
  <2>2. DeployTypeOK'
    BY <1>1, <1>3, <2>1, IndicesAreAnInterval DEF DeployInv, DeployTypeOK, Stages
  <2>3. \A i \in Indices : backup'[i] = IF i <= at THEN files[i] ELSE NotCopied
    BY <1>1, <1>3, IndicesAreAnInterval DEF DeployInv, DeployTypeOK
  <2>4. StageInv'
    <3>1. CASE stage' = "verify" /\ at = Len(Paths)
      <4>1. \A i \in Indices : backup'[i] = run'.before[i]
        BY <1>1, <2>3, <3>1, IndicesAreAnInterval
      <4>2. Copied'
        BY <2>2, <4>1 DEF DeployTypeOK, Copied
      <4> QED
        BY <1>1, <3>1, <4>2 DEF StageInv
    <3>2. CASE stage' = "backup" /\ at' = at + 1
      <4>1. \A i \in Indices : backup'[i] = IF i < at' THEN files'[i] ELSE NotCopied
        BY <1>1, <2>3, <3>2, IndicesAreAnInterval
      <4> QED
        BY <1>1, <3>2, <4>1 DEF StageInv
    <3> QED
      BY <2>1, <3>1, <3>2
  <2>5. RunInv'
    BY <1>1, <1>3, <2>1 DEF RunInv, Stages
  <2> QED
    BY <2>1, <2>2, <2>4, <2>5, OnwardDeployInv DEF Stages
<1> QED
  BY <1>2, <1>3 DEF BackupPath

\* What makes the invariant of a state in which the copies are complete and the run goes on.
LEMMA OnwardCopiedDeployInv ==
    ASSUME DeployInv, Copied, run.sync, stage \in Stages \ {"compose"},
           UNCHANGED <<head, live, run, backup, result, runs>>,
           files' \in [Indices -> Contents], loaded' \in [Indices -> Contents], at' \in Indices,
           unlisted' \in SUBSET Indices,
           \/ /\ stage' = "restore"
              /\ \A i \in Indices : (i < at' => Restored(i)') /\ (i \in unlisted' => i < at')
           \/ stage' = "retest" /\ PutBack'
           \/ /\ unlisted' = {}
              /\ \/ /\ stage' = "apply"
                    /\ \A i \in Indices : files'[i] = IF i < at' THEN Target(run.sha, i) ELSE run.before[i]
                 \/ stage' = "test" /\ files' = Installed(run.sha)
                 \/ stage' = "smoke" /\ files' = Installed(run.sha) /\ loaded' = files'
    PROVE  DeployInv'
<1>1. DeployTypeOK'
  BY DEF DeployInv, DeployTypeOK, Stages
<1>2. Copied' /\ run' = run
  BY DEF Copied
<1>3. StageInv'
  BY <1>2 DEF StageInv, Stages
<1>4. RunInv'
  BY DEF DeployInv, RunInv, Stages
<1> QED
  BY <1>1, <1>3, <1>4, OnwardDeployInv DEF Stages

\* The certificate is there, or what was begun is restored.
LEMMA VerifyCertificateDeployInv ==
    ASSUME DeployInv, VerifyCertificate
    PROVE  DeployInv'
<1>1. /\ Copied /\ unlisted = {} /\ files = run.before /\ run.sync /\ 1 \in Indices
      /\ files \in [Indices -> Contents] /\ loaded \in [Indices -> Contents]
      /\ stage \in Stages \ {"compose"} /\ at' = 1 /\ stage' \in {"apply", "restore"}
      /\ UNCHANGED <<head, live, files, loaded, run, backup, unlisted, result, runs>>
  BY IndicesAreAnInterval
     DEF DeployInv, DeployTypeOK, StageInv, RunInv, VerifyCertificate, Enter, Stages, host, edge
<1>2. \A i \in Indices : ~(i < 1)
  BY IndicesAreAnInterval
<1> QED
  BY <1>1, <1>2, OnwardCopiedDeployInv

\* One more file is installed, or it is left torn and everything is restored.
LEMMA ApplyPathDeployInv ==
    ASSUME DeployInv, ApplyPath
    PROVE  DeployInv'
<1>1. /\ Copied /\ unlisted = {} /\ run.sync /\ at \in Indices /\ run.sha \in Commits /\ stage = "apply"
      /\ files \in [Indices -> Contents] /\ loaded \in [Indices -> Contents]
      /\ stage \in Stages \ {"compose"}
      /\ \A i \in Indices : files[i] = IF i < at THEN Target(run.sha, i) ELSE run.before[i]
      /\ UNCHANGED <<head, live, loaded, run, backup, unlisted, result, runs>>
  BY DEF DeployInv, DeployTypeOK, StageInv, RunInv, ApplyPath, Stages, host
<1>2. /\ Target(run.sha, at) \in Contents /\ Torn \in Contents
      /\ \A i \in Indices : ~(i < 1)
  BY <1>1, InstalledIsAConfiguration, IndicesAreAnInterval DEF Contents
<1>3. CASE files' \in {files, [files EXCEPT ![at] = Torn]} /\ Enter("restore")
  <2>1. files' \in [Indices -> Contents] /\ stage' = "restore" /\ at' = 1
    BY <1>1, <1>2, <1>3 DEF Enter
  <2> QED
    BY <1>1, <1>2, <2>1, IndicesAreAnInterval, OnwardCopiedDeployInv
<1>4. CASE files' = [files EXCEPT ![at] = Target(run.sha, at)] /\ Advance("test")
  <2>1. \/ at = Len(Paths) /\ stage' = "test" /\ at' = 1
        \/ at < Len(Paths) /\ at' = at + 1 /\ at' \in Indices /\ stage' = "apply"
    BY <1>1, <1>4, AdvanceMoves DEF DeployInv
  <2>2. /\ files' \in [Indices -> Contents]
        /\ \A i \in Indices : files'[i] = IF i <= at THEN Target(run.sha, i) ELSE run.before[i]
    BY <1>1, <1>2, <1>4, IndicesAreAnInterval
  <2>3. CASE at = Len(Paths) /\ stage' = "test" /\ at' = 1
    <3>1. \A i \in Indices : files'[i] = Target(run.sha, i)
      BY <1>1, <2>2, <2>3, IndicesAreAnInterval
    <3>2. files' = Installed(run.sha)
      BY <2>2, <3>1 DEF Installed
    <3> QED
      BY <1>1, <2>2, <2>3, <3>2, IndicesAreAnInterval, OnwardCopiedDeployInv
  <2>4. CASE at' = at + 1 /\ at' \in Indices /\ stage' = "apply"
    <3>1. \A i \in Indices : files'[i] = IF i < at' THEN Target(run.sha, i) ELSE run.before[i]
      BY <1>1, <2>2, <2>4, IndicesAreAnInterval
    <3> QED
      BY <1>1, <2>2, <2>4, <3>1, OnwardCopiedDeployInv
  <2> QED
    BY <2>1, <2>3, <2>4
<1> QED
  BY <1>3, <1>4 DEF ApplyPath

\* The workers run what is installed, or everything is restored.
LEMMA TestAndReloadDeployInv ==
    ASSUME DeployInv, TestAndReload
    PROVE  DeployInv'
<1>1. /\ Copied /\ unlisted = {} /\ run.sync /\ files = Installed(run.sha) /\ 1 \in Indices
      /\ files \in [Indices -> Contents] /\ loaded' \in [Indices -> Contents]
      /\ stage \in Stages \ {"compose"} /\ at' = 1
      /\ (stage' = "smoke" /\ loaded' = files) \/ stage' = "restore"
      /\ UNCHANGED <<head, live, files, run, backup, unlisted, result, runs>>
  BY IndicesAreAnInterval
     DEF DeployInv, DeployTypeOK, StageInv, RunInv, TestAndReload, Enter, Stages, host
<1>2. \A i \in Indices : ~(i < 1)
  BY IndicesAreAnInterval
<1> QED
  BY <1>1, <1>2, OnwardCopiedDeployInv

\* The smoke test passes, or the run fails: a forward one is restored, a rollback has changed no
\* file.
LEMMA SmokeDeployInv ==
    ASSUME DeployInv, Smoke
    PROVE  DeployInv'
<1>1. /\ head = run.sha /\ live = [s \in Services |-> run.sha] /\ run.sync \in BOOLEAN
      /\ run.sync => Copied /\ files = Installed(run.sha) /\ loaded = files
      /\ ~run.sync => files = run.before
      /\ files \in [Indices -> Contents] /\ loaded \in [Indices -> Contents] /\ unlisted = {}
      /\ stage = "smoke" /\ UNCHANGED <<head, live, files, loaded, run, backup, unlisted, runs>>
  BY DEF DeployInv, DeployTypeOK, StageInv, RunInv, Smoke, Stages, host, edge
<1>2. DeployTypeOK'
  BY <1>1, IndicesAreAnInterval DEF DeployInv, DeployTypeOK, Smoke, Enter, End, Stages
<1>3. CASE Enter(IF run.sync THEN "remove" ELSE "report") /\ UNCHANGED result
  <2>1. run.sync => Replaced'
    BY <1>1 DEF Replaced
  <2>2. StageInv'
    BY <1>1, <1>3, <2>1 DEF StageInv, Enter, Stages
  <2>3. RunInv'
    BY <1>1, <1>3 DEF DeployInv, RunInv, Enter, Stages
  <2> QED
    BY <1>2, <1>3, <2>2, <2>3, OnwardDeployInv DEF Enter, Stages
<1>4. CASE run.sync /\ Enter("restore") /\ UNCHANGED result
  <2>1. 1 \in Indices /\ \A i \in Indices : ~(i < 1)
    BY IndicesAreAnInterval
  <2> QED
    BY <1>1, <1>4, <2>1, OnwardCopiedDeployInv DEF Enter, Stages
<1>5. CASE ~run.sync /\ End("failed")
  <2>1. PutBack'
    BY <1>1, <1>5 DEF PutBack
  <2> QED
    BY <1>2, <1>5, <2>1, EndDeployInv
<1> QED
  BY <1>3, <1>4, <1>5 DEF Smoke

\* The copies go, whole or in part, and the new configuration is in place either way.
LEMMA RemoveBackupDeployInv ==
    ASSUME DeployInv, RemoveBackup
    PROVE  DeployInv'
<1>1. /\ Replaced /\ stage = "remove" /\ unlisted = {} /\ head = run.sha /\ result = "none"
      /\ UNCHANGED <<head, live, files, loaded, run, unlisted, runs>>
  BY DEF DeployInv, StageInv, RunInv, RemoveBackup, Stages, host, edge
<1>2. Replaced'
  BY <1>1 DEF Replaced
<1>3. backup' \in [Indices -> Contents \cup {NotCopied}]
  BY DEF RemoveBackup, Drop, Removed, DeployInv, DeployTypeOK
<1>4. DeployTypeOK'
  BY <1>1, <1>3, IndicesAreAnInterval DEF DeployInv, DeployTypeOK, RemoveBackup, Enter, End, Stages
<1>5. CASE Enter("report") /\ UNCHANGED result
  <2>1. StageInv'
    BY <1>1, <1>2, <1>5 DEF StageInv, Enter, Stages, Replaced
  <2>2. RunInv'
    BY <1>1, <1>2, <1>5 DEF RunInv, Enter, Stages, Replaced
  <2> QED
    BY <1>4, <1>5, <2>1, <2>2, OnwardDeployInv DEF Enter, Stages
<1> QED
  BY <1>2, <1>4, <1>5, EndDeployInv DEF RemoveBackup

\* The last command decides what is reported, and changes nothing.
LEMMA ReportDeployInv ==
    ASSUME DeployInv, Report
    PROVE  DeployInv'
<1>1. /\ head = run.sha /\ live = [s \in Services |-> run.sha] /\ unlisted = {}
      /\ run.sync => Replaced
      /\ ~run.sync => files = run.before
      /\ run.sync \in BOOLEAN
      /\ UNCHANGED <<head, live, files, loaded, run, backup, unlisted, runs>>
  BY DEF DeployInv, DeployTypeOK, StageInv, RunInv, Report, Stages, host, edge
<1>2. DeployTypeOK'
  BY <1>1, IndicesAreAnInterval DEF DeployInv, DeployTypeOK, Report, End
<1>3. PutBack' \/ Replaced'
  BY <1>1 DEF PutBack, Replaced
<1>4. CASE End("ok")
  <2>1. StageInv' /\ RunInv'
    BY <1>4 DEF StageInv, RunInv, End, Stages
  <2>2. PreviousConfigIsNeverLost'
    BY <1>4 DEF PreviousConfigIsNeverLost, End
  <2>3. ResultTellsTheTruth'
    BY <1>1, <1>4 DEF ResultTellsTheTruth, Replaced, End
  <2> QED
    BY <1>2, <2>1, <2>2, <2>3 DEF DeployInv
<1> QED
  BY <1>2, <1>3, <1>4, EndDeployInv DEF Report

\* One more file is back, or was looked up in vain and is absent, or the run ends there with the
\* copies kept.
LEMMA RestorePathDeployInv ==
    ASSUME DeployInv, RestorePath
    PROVE  DeployInv'
<1>1. /\ Copied /\ run.sync /\ at \in Indices /\ stage = "restore"
      /\ files \in [Indices -> Contents] /\ loaded \in [Indices -> Contents]
      /\ run.before \in [Indices -> Contents] /\ unlisted \in SUBSET Indices
      /\ stage \in Stages \ {"compose"}
      /\ \A i \in Indices : (i < at => Restored(i)) /\ (i \in unlisted => i < at)
      /\ UNCHANGED <<head, live, loaded, run, backup, runs>>
  BY DEF DeployInv, DeployTypeOK, StageInv, RunInv, RestorePath, Stages, host
<1>2. backup[at] \in Contents /\ backup[at] = run.before[at] /\ {Absent, Torn} \subseteq Contents
  BY <1>1 DEF Copied, Contents
<1>3. CASE /\ \/ files' = [files EXCEPT ![at] = backup[at]] /\ UNCHANGED unlisted
              \/ files' = [files EXCEPT ![at] = Absent] /\ unlisted' = unlisted \cup {at}
           /\ Advance("retest") /\ UNCHANGED result
  <2>1. \/ at = Len(Paths) /\ stage' = "retest" /\ at' = 1
        \/ at < Len(Paths) /\ at' = at + 1 /\ at' \in Indices /\ stage' = "restore"
    BY <1>1, <1>3, AdvanceMoves DEF DeployInv
  <2>2. files' \in [Indices -> Contents] /\ unlisted' \in SUBSET Indices
    BY <1>1, <1>2, <1>3
  <2>3. \A i \in Indices : i <= at => Restored(i)'
    <3>1. TAKE i \in Indices
    <3>2. CASE i = at
      <4>1. at \notin unlisted
        BY <1>1, IndicesAreAnInterval
      <4> QED
        BY <1>1, <1>2, <1>3, <3>2, <4>1 DEF Restored
    <3>3. CASE i # at
      BY <1>1, <1>3, <3>3, IndicesAreAnInterval DEF Restored
    <3> QED
      BY <3>2, <3>3
  <2>4. CASE at = Len(Paths) /\ stage' = "retest" /\ at' = 1
    <3>1. PutBack'
      BY <1>1, <2>3, <2>4, IndicesAreAnInterval DEF PutBack, Restored
    <3> QED
      BY <1>1, <1>3, <2>2, <2>4, <3>1, IndicesAreAnInterval, OnwardCopiedDeployInv
  <2>5. CASE at' = at + 1 /\ at' \in Indices /\ stage' = "restore"
    <3>1. \A i \in Indices : (i < at' => Restored(i)') /\ (i \in unlisted' => i < at')
      BY <1>1, <1>3, <2>3, <2>5, IndicesAreAnInterval
    <3> QED
      BY <1>1, <1>3, <2>2, <2>5, <3>1, OnwardCopiedDeployInv
  <2> QED
    BY <2>1, <2>4, <2>5
<1>4. CASE /\ \E left \in {files[at], Absent, Torn} : files' = [files EXCEPT ![at] = left]
           /\ End("failed") /\ UNCHANGED unlisted
  <2>1. DeployTypeOK'
    BY <1>1, <1>2, <1>4, IndicesAreAnInterval DEF DeployInv, DeployTypeOK, End
  <2> QED
    BY <1>1, <1>4, <2>1, EndDeployInv DEF Copied
<1> QED
  BY <1>3, <1>4 DEF RestorePath

\* What was restored is tested and loaded: it is refused with the copies kept, or they may go.
LEMMA RetestAndReloadDeployInv ==
    ASSUME DeployInv, RetestAndReload
    PROVE  DeployInv'
<1>1. /\ Copied /\ PutBack /\ head = run.sha /\ result = "none" /\ run.sync /\ stage = "retest"
      /\ live = [s \in Services |-> run.sha]
      /\ UNCHANGED <<head, live, files, run, backup, unlisted, runs>>
  BY DEF DeployInv, StageInv, RunInv, RetestAndReload, Stages, host
<1>2. DeployTypeOK'
  BY IndicesAreAnInterval
     DEF DeployInv, DeployTypeOK, RetestAndReload, Enter, End, Stages, host
<1>3. PutBack'
  BY <1>1 DEF PutBack
<1>4. CASE Enter("discard") /\ UNCHANGED result
  <2>1. StageInv'
    BY <1>3, <1>4 DEF StageInv, Enter, Stages
  <2>2. RunInv'
    BY <1>1, <1>4 DEF RunInv, Enter, Stages
  <2> QED
    BY <1>2, <1>4, <2>1, <2>2, OnwardDeployInv DEF Enter, Stages
<1> QED
  BY <1>2, <1>3, <1>4, EndDeployInv DEF RetestAndReload

\* The copies go, whole or in part, and the files are in their places either way.
LEMMA DiscardBackupDeployInv ==
    ASSUME DeployInv, DiscardBackup
    PROVE  DeployInv'
<1>1. /\ PutBack /\ End("failed")
      /\ UNCHANGED <<head, live, files, loaded, run, unlisted, runs>>
  BY DEF DeployInv, StageInv, DiscardBackup, host, edge
<1>2. PutBack'
  BY <1>1 DEF PutBack
<1>3. backup' \in [Indices -> Contents \cup {NotCopied}]
  BY DEF DiscardBackup, Removed, DeployInv, DeployTypeOK
<1>4. DeployTypeOK'
  BY <1>1, <1>3, IndicesAreAnInterval DEF DeployInv, DeployTypeOK, End
<1> QED
  BY <1>1, <1>2, <1>4, EndDeployInv

\* A run that is cut off leaves at most the file it was at changed, and that one is in the
\* backup; the backup is cut into only when nothing needs it.
LEMMA KillDeployInv ==
    ASSUME DeployInv, Kill
    PROVE  DeployInv'
<1>1. /\ End("killed") /\ stage \in Stages /\ at \in Indices
      /\ UNCHANGED <<head, loaded, run, unlisted, runs>>
  BY DEF Kill, DeployInv, DeployTypeOK
<1>2. live' \in [Services -> Commits] /\ (stage # "compose" => UNCHANGED live)
  BY DEF Kill, Up, DeployInv, DeployTypeOK
<1>3. files' \in [Indices -> Contents] /\ (stage \notin {"apply", "restore"} => UNCHANGED files)
  BY <1>1 DEF Kill, Contents, DeployInv, DeployTypeOK
<1>4. /\ backup' \in [Indices -> Contents \cup {NotCopied}]
      /\ stage \notin {"remove", "discard"} => UNCHANGED backup
  BY DEF Kill, Removed, DeployInv, DeployTypeOK
<1>5. DeployTypeOK'
  BY <1>1, <1>2, <1>3, <1>4, IndicesAreAnInterval DEF DeployInv, DeployTypeOK, End
<1>6. CASE \/ stage \in {"compose", "wait", "backup", "discard"}
           \/ stage \in {"smoke", "report"} /\ ~run.sync
  <2>1. PutBack'
    BY <1>1, <1>3, <1>6 DEF DeployInv, StageInv, PutBack, Stages
  <2> QED
    BY <1>1, <1>5, <2>1, EndDeployInv
<1>7. CASE \/ stage \in {"verify", "apply", "test", "restore", "retest"}
           \/ stage = "smoke" /\ run.sync
  <2>1. Copied'
    BY <1>1, <1>4, <1>7 DEF DeployInv, StageInv, Copied
  <2> QED
    BY <1>1, <1>5, <2>1, EndDeployInv
<1>8. CASE \/ stage = "remove"
           \/ stage = "report" /\ run.sync
  <2>1. Replaced'
    BY <1>1, <1>2, <1>3, <1>8 DEF DeployInv, StageInv, Replaced
  <2> QED
    BY <1>1, <1>5, <2>1, EndDeployInv
<1>9. stage \in {"smoke", "report"} =>
          \/ stage \in {"smoke", "report"} /\ ~run.sync
          \/ stage = "smoke" /\ run.sync
          \/ stage = "report" /\ run.sync
  OBVIOUS
<1> QED
  BY <1>1, <1>6, <1>7, <1>8, <1>9 DEF Stages

\* The workers take over what is on the disk, at any time.
LEMMA ReloadHookDeployInv ==
    ASSUME DeployInv, ReloadHook
    PROVE  DeployInv'
<1>1. loaded' = files /\ UNCHANGED <<head, live, files, stage, at, run, backup, unlisted, result, runs>>
  BY DEF ReloadHook, host, script
<1>2. DeployTypeOK'
  BY <1>1 DEF DeployInv, DeployTypeOK
<1>3. StageInv' /\ RunInv'
  BY <1>1 DEF DeployInv, StageInv, RunInv, Copied, Uncopied, Restored, PutBack, Replaced
<1>4. PreviousConfigIsNeverLost' /\ ResultTellsTheTruth'
  BY <1>1 DEF DeployInv, PreviousConfigIsNeverLost, ResultTellsTheTruth, PutBack, Replaced
<1> QED
  BY <1>2, <1>3, <1>4 DEF DeployInv

\* A file is changed by hand: what the last run said of them is past.
LEMMA EditDeployInv ==
    ASSUME DeployInv, Edit
    PROVE  DeployInv'
<1>1. /\ stage = "idle" /\ result' = "none"
      /\ UNCHANGED <<head, live, loaded, stage, at, run, backup, unlisted, runs>>
      /\ files' \in [Indices -> Contents]
  BY DEF Edit, host, Contents, DeployInv, DeployTypeOK
<1>2. DeployTypeOK'
  BY <1>1 DEF DeployInv, DeployTypeOK
<1>3. StageInv' /\ RunInv'
  BY <1>1 DEF StageInv, RunInv, Stages
<1>4. PreviousConfigIsNeverLost' /\ ResultTellsTheTruth'
  BY <1>1 DEF PreviousConfigIsNeverLost, ResultTellsTheTruth
<1> QED
  BY <1>2, <1>3, <1>4 DEF DeployInv

\* Every step of a run, and of what disturbs it, keeps the invariant.
LEMMA NextDeployInv == DeployInv /\ [DeployNext]_deployVars => DeployInv'
<1>1. ASSUME DeployInv, UNCHANGED deployVars
      PROVE  DeployInv'
  BY <1>1 DEF deployVars, host, edge, script, DeployInv, DeployTypeOK, StageInv, RunInv, Copied,
              Uncopied, Restored, PutBack, Replaced, PreviousConfigIsNeverLost, ResultTellsTheTruth
<1> QED
  BY <1>1, StartDeployInv, ComposeDeployInv, BackupPathDeployInv, VerifyCertificateDeployInv,
     ApplyPathDeployInv, TestAndReloadDeployInv, SmokeDeployInv, RestorePathDeployInv,
     RetestAndReloadDeployInv, RemoveBackupDeployInv, ReportDeployInv, DiscardBackupDeployInv,
     KillDeployInv, ReloadHookDeployInv, EditDeployInv DEF DeployNext

\* The invariant holds in every state.
LEMMA SpecDeployInv == DeploySpec => []DeployInv
BY InitDeployInv, NextDeployInv, PTL DEF DeploySpec

\* The types of the deploy script, for any paths and commits, and whatever nginx refuses.
THEOREM DeploySpecTypeOK == DeploySpec => []DeployTypeOK
<1>1. DeployInv => DeployTypeOK
  BY DEF DeployInv
<1> QED
  BY <1>1, SpecDeployInv, PTL

\* From the moment a run begins, at whichever command it fails or is cut off: every file it found
\* is in its place or in the backup, or the whole new configuration has replaced them; apart from
\* a path whose look-up failed in the restore.
THEOREM SpecPreviousConfigIsNeverLost == DeploySpec => []PreviousConfigIsNeverLost
<1>1. DeployInv => PreviousConfigIsNeverLost
  BY DEF DeployInv
<1> QED
  BY <1>1, SpecDeployInv, PTL

\* A forward run that says it succeeded left the whole configuration of its commit, on disk and
\* in the workers; one that failed put everything back, or the whole backup is there, or it failed
\* after the new configuration had passed its smoke test.
THEOREM SpecResultTellsTheTruth == DeploySpec => []ResultTellsTheTruth
<1>1. DeployInv => ResultTellsTheTruth
  BY DEF DeployInv
<1> QED
  BY <1>1, SpecDeployInv, PTL

-----------------------------------------------------------------------------
(* The migrator *)

Pcs == Working \cup {"off", "lock", "unlock", "serving", "closing", "cut", "gone"}

\* The lock belongs to whoever is past Lock, a dead process with an open transaction included.
LockInv == \A b \in Boots : pc[b] \in Working \cup {"unlock", "cut"} => holder = b

\* A boot has gone through the files that are applied, and executes the one that follows them.
NextInv == \A b \in Boots :
    /\ pc[b] \in {"off", "lock"} => next[b] = 1
    /\ pc[b] \in Working => next[b] <= Len(schema) + 1
    /\ pc[b] \in {"execute", "insert", "commit"} =>
           next[b] = Len(schema) + 1 /\ next[b] <= release[b]

\* A run that succeeded has its whole release, and a process serves only after one.
AppliedInv == \A b \in Boots :
    /\ outcome[b] = "applied" => release[b] <= Len(schema)
    /\ pc[b] = "serving" => outcome[b] = "applied"

IInv == TypeOK /\ SchemaIsRecorded /\ NoBootCollides /\ LockInv /\ NextInv /\ AppliedInv

USE FilesAssumption, NoBootAssumption

\* While the schema is the first files in their order, a file is recorded iff it is one of them.
LEMMA RecordedIsPrefix ==
    ASSUME TypeOK, SchemaIsRecorded
    PROVE  recorded = 1..Len(schema) /\ Len(schema) \in Nat
<1>1. DOMAIN schema = 1..Len(schema) /\ Len(schema) \in Nat
  BY LenProperties DEF TypeOK
<1> QED
  BY <1>1 DEF SchemaIsRecorded, Range

\* Nothing is applied and nobody has booted.
LEMMA InitIInv == Init => IInv
<1> SUFFICES ASSUME Init
             PROVE  IInv
  OBVIOUS
<1>1. Len(schema) = 0 /\ DOMAIN schema = {} /\ schema \in Seq(Files)
  BY DEF Init
<1>2. TypeOK
  <2>1. 1 \in 1..MaxFiles + 1
    OBVIOUS
  <2>2. next \in [Boots -> 1..MaxFiles + 1]
    BY <2>1 DEF Init
  <2>3. /\ tracked \in BOOLEAN /\ recorded \subseteq Files /\ holder \in Boots \cup {NoBoot}
        /\ release \in [Boots -> Files]
    BY DEF Init
  <2>4. pc \in [Boots -> Pcs] /\ outcome \in [Boots -> {"none", "applied", "failed", "collided"}]
    BY DEF Init, Pcs
  <2> QED
    BY <1>1, <2>2, <2>3, <2>4 DEF TypeOK, Pcs
<1>3. SchemaIsRecorded
  BY <1>1 DEF Init, SchemaIsRecorded, Range
<1>4. \A b \in Boots : pc[b] = "off" /\ next[b] = 1 /\ outcome[b] = "none"
  BY DEF Init
<1>5. LockInv /\ NextInv /\ AppliedInv /\ NoBootCollides
  BY <1>4 DEF LockInv, NextInv, AppliedInv, NoBootCollides, Working
<1> QED
  BY <1>2, <1>3, <1>5 DEF IInv

\* A commit adds the next file and its version; nobody else is where it would matter.
LEMMA PublishIInv ==
    ASSUME IInv, NEW b \in Boots, pc[b] = "commit", Publish(b), UNCHANGED <<tracked, holder, release>>,
           \/ /\ pc' = [pc EXCEPT ![b] = "check"]
              /\ next' = [next EXCEPT ![b] = @ + 1] /\ outcome' = outcome
           \/ pc' = [pc EXCEPT ![b] = "unlock"] /\ next' = next /\ outcome' = [outcome EXCEPT ![b] = "failed"]
    PROVE  IInv'
<1>1. recorded = 1..Len(schema) /\ Len(schema) \in Nat
  BY RecordedIsPrefix DEF IInv
<1>2. /\ next[b] = Len(schema) + 1 /\ next[b] <= release[b]
      /\ release[b] \in Files /\ next[b] \in Files
  BY <1>1 DEF IInv, NextInv, TypeOK, Files
<1>3. /\ schema' \in Seq(Files) /\ Len(schema') = Len(schema) + 1
      /\ \A i \in 1..Len(schema) : schema'[i] = schema[i]
      /\ schema'[Len(schema) + 1] = next[b]
  BY <1>2, AppendProperties DEF Publish, IInv, TypeOK
<1>4. DOMAIN schema' = 1..Len(schema) + 1
  BY <1>3, LenProperties
<1>5. TypeOK'
  <2>1. schema' \in Seq(Files) /\ tracked' \in BOOLEAN /\ recorded' \subseteq Files /\ holder' \in Boots \cup {NoBoot}
    BY <1>2, <1>3 DEF IInv, TypeOK, Publish
  <2>2. release' \in [Boots -> Files] /\ pc' \in [Boots -> Pcs]
    BY DEF IInv, TypeOK, Working, Pcs
  <2>3. next' \in [Boots -> 1..MaxFiles + 1]
    <3>1. next[b] + 1 \in 1..MaxFiles + 1
      BY <1>2 DEF Files
    <3> QED
      BY <3>1 DEF IInv, TypeOK
  <2>4. outcome' \in [Boots -> {"none", "applied", "failed", "collided"}]
    BY DEF IInv, TypeOK
  <2> QED
    BY <2>1, <2>2, <2>3, <2>4 DEF TypeOK, Pcs
<1>6. SchemaIsRecorded'
  <2>1. \A i \in 1..Len(schema') : schema'[i] = i
    BY <1>1, <1>2, <1>3 DEF IInv, SchemaIsRecorded
  <2>2. recorded' = 1..Len(schema) + 1
    BY <1>1, <1>2 DEF Publish
  <2> QED
    BY <1>3, <1>4, <2>1, <2>2 DEF SchemaIsRecorded, Range
<1>7. LockInv'
  BY DEF IInv, LockInv, TypeOK, Working
<1>8. NextInv'
  <2> SUFFICES ASSUME NEW c \in Boots
               PROVE  /\ pc'[c] \in {"off", "lock"} => next'[c] = 1
                      /\ pc'[c] \in Working => next'[c] <= Len(schema') + 1
                      /\ pc'[c] \in {"execute", "insert", "commit"} =>
                             next'[c] = Len(schema') + 1 /\ next'[c] <= release'[c]
    BY DEF NextInv
  <2>1. CASE c = b
    BY <1>1, <1>2, <1>3, <2>1 DEF IInv, TypeOK, Working
  <2>2. CASE c # b
    <3>1. pc[c] \notin Working
      BY <2>2 DEF IInv, LockInv, Working
    <3> QED
      BY <2>2, <3>1 DEF IInv, TypeOK, NextInv, Working
  <2> QED
    BY <2>1, <2>2
<1>9. AppliedInv' /\ NoBootCollides'
  <2> SUFFICES ASSUME NEW c \in Boots
               PROVE  /\ outcome'[c] = "applied" => release'[c] <= Len(schema')
                      /\ pc'[c] = "serving" => outcome'[c] = "applied"
                      /\ outcome'[c] # "collided"
    BY DEF AppliedInv, NoBootCollides
  <2>1. release[c] \in Nat /\ release' = release
    BY DEF IInv, TypeOK, Files
  <2>2. /\ outcome'[c] \in {outcome[c], "failed"}
        /\ pc'[c] = "serving" => c # b /\ pc[c] = "serving" /\ outcome'[c] = outcome[c]
    BY DEF IInv, TypeOK
  <2>3. /\ outcome[c] = "applied" => release[c] <= Len(schema)
        /\ pc[c] = "serving" => outcome[c] = "applied"
        /\ outcome[c] # "collided"
    BY DEF IInv, AppliedInv, NoBootCollides
  <2> QED
    BY <1>1, <1>3, <2>1, <2>2, <2>3
<1> QED
  BY <1>5, <1>6, <1>7, <1>8, <1>9 DEF IInv

\* Boot b moves to label, with the file it is at and the outcome so far; the lock may change hands
\* between it and nobody, and nothing is applied.
Moves(b, label, file, how) ==
    /\ UNCHANGED <<schema, recorded, release>> /\ tracked' \in BOOLEAN
    /\ holder' \in Boots \cup {NoBoot}
    /\ pc' = [pc EXCEPT ![b] = label]
    /\ next' = [next EXCEPT ![b] = file]
    /\ outcome' = [outcome EXCEPT ![b] = how]
    /\ \A c \in Boots \ {b} : holder = c => holder' = c
    /\ label \in Working \cup {"unlock", "cut"} => holder' = b
    /\ label \in {"off", "lock"} => file = 1
    /\ label \in Working => file <= Len(schema) + 1
    /\ label \in {"execute", "insert", "commit"} => file = Len(schema) + 1 /\ file <= release[b]
    /\ how = "applied" => release[b] <= Len(schema)
    /\ label = "serving" => how = "applied"

\* Such a move keeps the invariant.
LEMMA MoveIInv ==
    ASSUME IInv, NEW b \in Boots, NEW label \in Pcs, NEW file \in 1..MaxFiles + 1,
           NEW how \in {"none", "applied", "failed"}, Moves(b, label, file, how)
    PROVE  IInv'
<1>1. TypeOK'
  BY DEF Moves, IInv, TypeOK, Pcs
<1>2. SchemaIsRecorded'
  BY DEF Moves, IInv, SchemaIsRecorded
<1>3. LockInv'
  BY DEF Moves, IInv, LockInv, TypeOK
<1>4. NextInv'
  BY DEF Moves, IInv, NextInv, TypeOK
<1>5. AppliedInv' /\ NoBootCollides'
  BY DEF Moves, IInv, AppliedInv, NoBootCollides, TypeOK
<1> QED
  BY <1>1, <1>2, <1>3, <1>4, <1>5 DEF IInv

\* Every step other than a commit moves one boot.
LEMMA NextIInv == IInv /\ [Next]_vars => IInv'
<1> SUFFICES ASSUME IInv, [Next]_vars
             PROVE  IInv'
  OBVIOUS
<1>1. recorded = 1..Len(schema) /\ Len(schema) \in Nat
  BY RecordedIsPrefix DEF IInv
<1>2. CASE UNCHANGED vars
  BY <1>2 DEF vars, database, IInv, TypeOK, SchemaIsRecorded, NoBootCollides, LockInv, NextInv, AppliedInv
<1>3. ASSUME NEW b \in Boots, Boot(b) \/ Step(b) \/ Failure(b) \/ EndSession(b)
      PROVE  IInv'
  <2>0. /\ holder \in Boots \cup {NoBoot} /\ tracked \in BOOLEAN
        /\ pc = [pc EXCEPT ![b] = pc[b]] /\ pc[b] \in Pcs
        /\ next = [next EXCEPT ![b] = next[b]] /\ next[b] \in 1..MaxFiles + 1
        /\ outcome = [outcome EXCEPT ![b] = outcome[b]] /\ outcome[b] \in {"none", "applied", "failed"}
        /\ release[b] \in 1..MaxFiles
    BY DEF IInv, TypeOK, NoBootCollides, Pcs, Files
  <2>1. /\ pc[b] \in Working \cup {"unlock", "cut"} => holder = b
        /\ pc[b] \in {"off", "lock"} => next[b] = 1
        /\ pc[b] \in Working => next[b] <= Len(schema) + 1
        /\ pc[b] \in {"execute", "insert", "commit"} => next[b] = Len(schema) + 1 /\ next[b] <= release[b]
        /\ outcome[b] = "applied" => release[b] <= Len(schema)
        /\ pc[b] = "serving" => outcome[b] = "applied"
    BY DEF IInv, LockInv, NextInv, AppliedInv
  <2>2. next[b] \in recorded <=> next[b] <= Len(schema)
    BY <1>1, <2>0
  <2>3. CASE Boot(b)
    <3>1. "lock" \in Pcs /\ Moves(b, "lock", next[b], outcome[b])
      BY <1>1, <2>0, <2>1, <2>3 DEF Boot, Goto, database, Moves, Pcs, Working
    <3> QED
      BY <2>0, <3>1, MoveIInv
  <2>4. CASE Lock(b)
    <3>1. "track" \in Pcs /\ Moves(b, "track", next[b], outcome[b])
      BY <1>1, <2>0, <2>1, <2>4 DEF Lock, MayLock, Goto, Moves, Pcs, Working
    <3> QED
      BY <2>0, <3>1, MoveIInv
  <2>5. CASE Track(b)
    <3>1. "check" \in Pcs /\ Moves(b, "check", next[b], outcome[b])
      BY <1>1, <2>0, <2>1, <2>5 DEF Track, Goto, Moves, Pcs, Working
    <3> QED
      BY <2>0, <3>1, MoveIInv
  <2>6. CASE Check(b)
    <3>1. ASSUME next[b] > release[b], EndBody(b, "applied"), UNCHANGED <<database, release, next>>, pc[b] = "check"
          PROVE  IInv'
      <4>1. "unlock" \in Pcs /\ Moves(b, "unlock", next[b], "applied")
        BY <1>1, <2>0, <2>1, <3>1 DEF EndBody, Goto, database, Moves, Pcs, Working
      <4> QED
        BY <2>0, <4>1, MoveIInv
    <3>2. ASSUME next[b] <= release[b], next[b] \in recorded, next' = [next EXCEPT ![b] = next[b] + 1],
                 UNCHANGED <<database, release, pc, outcome>>, pc[b] = "check"
          PROVE  IInv'
      <4>1. next[b] + 1 \in 1..MaxFiles + 1 /\ next[b] + 1 <= Len(schema) + 1
        BY <1>1, <2>0, <2>2, <3>2
      <4>2. Moves(b, "check", next[b] + 1, outcome[b])
        BY <1>1, <2>0, <2>1, <3>2, <4>1 DEF database, Moves, Working
      <4> QED
        BY <2>0, <3>2, <4>1, <4>2, MoveIInv
    <3>3. ASSUME next[b] <= release[b], next[b] \notin recorded, Goto(b, "execute"),
                 UNCHANGED <<database, release, next, outcome>>, pc[b] = "check"
          PROVE  IInv'
      <4>1. next[b] = Len(schema) + 1
        BY <1>1, <2>0, <2>1, <2>2, <3>3 DEF Working
      <4>2. "execute" \in Pcs /\ Moves(b, "execute", next[b], outcome[b])
        BY <1>1, <2>0, <2>1, <3>3, <4>1 DEF Goto, database, Moves, Pcs, Working
      <4> QED
        BY <2>0, <4>2, MoveIInv
    <3> QED
      BY <2>6, <3>1, <3>2, <3>3 DEF Check, database
  <2>7. CASE Execute(b)
    <3>1. next[b] \notin Range(schema)
      BY <1>1, <2>1, <2>2, <2>7 DEF Execute, IInv, SchemaIsRecorded
    <3>2. "insert" \in Pcs /\ Moves(b, "insert", next[b], outcome[b])
      BY <1>1, <2>0, <2>1, <2>7, <3>1 DEF Execute, Goto, database, Moves, Pcs, Working
    <3> QED
      BY <2>0, <3>2, MoveIInv
  <2>8. CASE Insert(b)
    <3>1. next[b] \notin recorded
      BY <1>1, <2>1, <2>2, <2>8 DEF Insert
    <3>2. "commit" \in Pcs /\ Moves(b, "commit", next[b], outcome[b])
      BY <1>1, <2>0, <2>1, <2>8, <3>1 DEF Insert, Goto, database, Moves, Pcs, Working
    <3> QED
      BY <2>0, <3>2, MoveIInv
  <2>9. CASE Commit(b)
    BY <2>9, PublishIInv DEF Commit, Goto
  <2>10. CASE Unlock(b)
    <3>1. \A c \in Boots \ {b} : holder # c
      BY <2>1, <2>10 DEF Unlock
    <3>2. CASE outcome[b] = "applied"
      <4>1. "serving" \in Pcs /\ Moves(b, "serving", next[b], outcome[b])
        BY <1>1, <2>0, <2>1, <2>10, <3>1, <3>2 DEF Unlock, Goto, Moves, Pcs, Working
      <4> QED
        BY <2>0, <4>1, MoveIInv
    <3>3. CASE outcome[b] # "applied"
      <4>1. "closing" \in Pcs /\ Moves(b, "closing", next[b], outcome[b])
        BY <1>1, <2>0, <2>1, <2>10, <3>1, <3>3 DEF Unlock, Goto, Moves, Pcs, Working
      <4> QED
        BY <2>0, <4>1, MoveIInv
    <3> QED
      BY <3>2, <3>3
  <2>11. CASE Fail(b)
    <3>1. "unlock" \in Pcs /\ Moves(b, "unlock", next[b], "failed")
      BY <1>1, <2>0, <2>1, <2>11 DEF Fail, EndBody, Goto, database, Moves, Pcs, Working
    <3> QED
      BY <2>0, <3>1, MoveIInv
  <2>12. CASE CommitUnseen(b)
    BY <2>12, PublishIInv DEF CommitUnseen, EndBody, Goto
  <2>13. CASE LockFails(b)
    <3>1. "closing" \in Pcs /\ Moves(b, "closing", next[b], outcome[b])
      BY <1>1, <2>0, <2>1, <2>13 DEF LockFails, Goto, database, Moves, Pcs, Working
    <3> QED
      BY <2>0, <3>1, MoveIInv
  <2>14. CASE Crash(b)
    <3> DEFINE label == IF pc[b] \in {"insert", "commit"} THEN "cut" ELSE "closing"
    <3>1. label \in Pcs /\ Moves(b, label, next[b], outcome[b])
      BY <1>1, <2>0, <2>1, <2>14 DEF Crash, Goto, database, Moves, Pcs, Working
    <3> QED
      BY <2>0, <3>1, MoveIInv
  <2>15. CASE EndSession(b)
    <3>1. "gone" \in Pcs /\ Moves(b, "gone", next[b], outcome[b])
      BY <1>1, <2>0, <2>1, <2>15 DEF EndSession, Goto, Moves, Pcs, Working
    <3> QED
      BY <2>0, <3>1, MoveIInv
  <2> QED
    BY <1>3, <2>3, <2>4, <2>5, <2>6, <2>7, <2>8, <2>9, <2>10, <2>11, <2>12, <2>13, <2>14, <2>15
       DEF Step, Failure
<1> QED
  BY <1>2, <1>3 DEF Next

\* The invariant holds in every state.
LEMMA SpecIInv == Spec => []IInv
BY InitIInv, NextIInv, PTL DEF Spec

\* The invariant of types for any number of boots, releases and files.
THEOREM SpecTypeOK == Spec => []TypeOK
<1>1. IInv => TypeOK
  BY DEF IInv
<1> QED
  BY <1>1, SpecIInv, PTL

\* No boot ever fails because a file has been applied by another, whoever boots, crashes or leaves
\* its session behind.
THEOREM SpecNoBootCollides == Spec => []NoBootCollides
<1>1. IInv => NoBootCollides
  BY DEF IInv
<1> QED
  BY <1>1, SpecIInv, PTL

\* The schema is always the first files in their order, each once, and exactly those are recorded.
THEOREM SpecSchemaIsRecorded == Spec => []SchemaIsRecorded
<1>1. IInv => SchemaIsRecorded
  BY DEF IInv
<1> QED
  BY <1>1, SpecIInv, PTL

\* A process that serves has every file of its release.
THEOREM SpecServingHasItsSchema == Spec => []ServingHasItsSchema
<1>1. ASSUME IInv, NEW b \in Boots, pc[b] = "serving"
      PROVE  1..release[b] \subseteq Range(schema)
  <2>1. Range(schema) = 1..Len(schema) /\ Len(schema) \in Nat
    BY <1>1, RecordedIsPrefix DEF IInv, SchemaIsRecorded
  <2>2. release[b] <= Len(schema) /\ release[b] \in Nat
    BY <1>1 DEF IInv, AppliedInv, TypeOK, Files
  <2> QED
    BY <2>1, <2>2
<1>2. IInv => ServingHasItsSchema
  BY <1>1 DEF ServingHasItsSchema
<1> QED
  BY <1>2, SpecIInv, PTL
=============================================================================
