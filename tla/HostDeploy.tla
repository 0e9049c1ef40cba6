----------------------------- MODULE HostDeploy -----------------------------
(***************************************************************************)
(* The deployment wrapper infra/scripts/capsule-zero-deploy, which the CD  *)
(* workflow runs on the host: checkout, compose, and on a forward deploy   *)
(* the transaction on the host nginx configuration.  Any command may fail, *)
(* the script may be cut off anywhere (a reboot, a closed pipe), and the   *)
(* hook of certbot may reload nginx while it runs.                         *)
(***************************************************************************)
EXTENDS Integers, Sequences, Functions

CONSTANTS
    Paths,      \* nginx_paths, in the order of the array; the last is removed by a deploy
    Releases,   \* commits of origin/main: 1..Releases, of which the first is deployed
    Kratos,     \* the Kratos version that each commit pins
    Broken,     \* the contents that nginx -t refuses
    Absent,     \* no file
    Torn,       \* a file whose copy was cut off
    Edited,     \* a file changed by hand
    NotCopied,  \* not in backup_dir (yet)
    MaxRuns     \* bound: runs of the script

Commits == 1..Releases

ASSUME SizesAssumption ==
    Releases \in Nat \ {0} /\ MaxRuns \in Nat /\ Paths \in Seq(STRING) /\ Paths # <<>>

ASSUME KratosAssumption == Kratos \in [Commits -> Nat]

ASSUME ContentsAssumption ==
    /\ {Absent, Torn, Edited} \cap Commits = {}
    /\ NotCopied \notin Commits \cup {Absent, Torn, Edited}
    /\ Torn \in Broken /\ Absent \notin Broken

VARIABLES
    head,      \* the commit checked out in /opt/capsule-zero
    live,      \* the commit whose container each service runs
    files,     \* the managed nginx files on disk
    loaded,    \* the configuration the nginx workers run
    stage,     \* where the script is
    at,        \* index of the path its loop is at
    run,       \* its arguments, and the files as they were when it began
    backup,    \* the copies in backup_dir
    unlisted,  \* history: the paths whose look-up in present_file failed in this restore
    result,    \* how the last run ended
    runs       \* how many there were

host == <<head, live>>
edge == <<files, loaded>>
script == <<stage, at, run, backup, unlisted, result, runs>>
deployVars == <<host, edge, script>>

Services == {"kratos", "api", "web"}
Indices == DOMAIN Paths

\* What apply_host_nginx_config leaves at a path.
Target(c, i) == IF i = Len(Paths) THEN Absent ELSE c

Valid(config) == Range(config) \cap Broken = {}

Installed(c) == [i \in Indices |-> Target(c, i)]

DeployInit ==
    /\ head = 1 /\ live = [s \in Services |-> 1]
    /\ files = Installed(1) /\ loaded = files
    /\ stage = "idle" /\ at = 1 /\ result = "none"
    /\ run = [sha |-> 1, sync |-> FALSE, before |-> files]
    /\ backup = [i \in Indices |-> NotCopied] /\ unlisted = {}
    /\ runs = 0

Enter(label) == stage' = label /\ at' = 1

\* The script ends; what is in backup_dir stays there unless it was removed.
End(how) == stage' = "idle" /\ at' = 1 /\ result' = how

Drop == backup' = [i \in Indices |-> NotCopied]

\* rm -rf "$backup_dir", to where it comes.
Removed(gone) == backup' = [i \in Indices |-> IF i \in gone THEN NotCopied ELSE backup[i]]

-----------------------------------------------------------------------------
(* Checkout and compose *)

\* check-kratos-rollback-boundary, run by the workflow and by the wrapper.
MayRollBack(c) == Kratos[c] = Kratos[Releases] /\ Kratos[c] = Kratos[head]

\* A deploy of the newest commit, the re-run of an older one, or an image rollback; the checks
\* pass and the commit is checked out.
Start(c, sync) ==
    /\ stage = "idle" /\ runs < MaxRuns
    /\ sync \/ MayRollBack(c)
    /\ head' = c
    /\ run' = [sha |-> c, sync |-> sync, before |-> files]
    /\ Drop /\ unlisted' = {}
    /\ result' = "none" /\ runs' = runs + 1
    /\ Enter("compose")
    /\ UNCHANGED <<live, edge>>

\* Kratos comes before api, and api before web.
Prefixes == {{}, {"kratos"}, {"kratos", "api"}, Services}

Up(services) == [s \in Services |-> IF s \in services THEN run.sha ELSE live[s]]

\* compose pull and up; a failure leaves the services it has not come to on what they ran.
Compose ==
    /\ stage = "compose"
    /\ \E services \in Prefixes :
        /\ live' = Up(services)
        /\ IF services = Services
              THEN Enter("wait") /\ UNCHANGED result
              ELSE End("failed")
    /\ UNCHANGED <<head, edge, run, backup, unlisted, runs>>

\* wait_healthy api, wait_healthy web.
WaitHealthy ==
    /\ stage = "wait"
    /\ \/ Enter(IF run.sync THEN "backup" ELSE "smoke") /\ UNCHANGED result
       \/ End("failed")
    /\ UNCHANGED <<host, edge, run, backup, unlisted, runs>>

-----------------------------------------------------------------------------
(* The transaction on the nginx configuration *)

Last == at = Len(Paths)

Advance(label) == IF Last THEN Enter(label) ELSE at' = at + 1 /\ UNCHANGED stage

\* Mutant: called in a condition, where set -e does not apply.
BackupPathCarelessly ==
    /\ stage = "backup"
    /\ \/ backup' = [backup EXCEPT ![at] = files[at]]
       \/ UNCHANGED backup
    /\ Advance("verify")
    /\ UNCHANGED <<host, edge, run, unlisted, result, runs>>

\* backup_nginx_config: a path that is absent is recorded as absent; set -e ends the script.
BackupPath ==
    /\ stage = "backup"
    /\ \/ /\ backup' = [backup EXCEPT ![at] = files[at]]
          /\ Advance("verify") /\ UNCHANGED result
       \/ End("failed") /\ UNCHANGED backup
    /\ UNCHANGED <<host, edge, run, unlisted, runs>>

VerifyCertificate ==
    /\ stage = "verify"
    /\ Enter("apply") \/ Enter("restore")
    /\ UNCHANGED <<host, edge, run, backup, unlisted, result, runs>>

\* Mutant: the marker of the last sync is believed when the commit is the same.
ApplyPathUnlessMarked ==
    /\ stage = "apply"
    /\ files' = IF run.sha \in Range(run.before) THEN files
                ELSE [files EXCEPT ![at] = Target(run.sha, at)]
    /\ Advance("test")
    /\ UNCHANGED <<host, loaded, run, backup, unlisted, result, runs>>

\* One install, ln or rm of apply_host_nginx_config; one that fails may have begun.
ApplyPath ==
    /\ stage = "apply"
    /\ \/ /\ files' = [files EXCEPT ![at] = Target(run.sha, at)]
          /\ Advance("test")
       \/ /\ files' \in {files, [files EXCEPT ![at] = Torn]}
          /\ Enter("restore")
    /\ UNCHANGED <<host, loaded, run, backup, unlisted, result, runs>>

\* nginx -t and the reload, which may fail by itself.
TestAndReload ==
    /\ stage = "test"
    /\ \/ Valid(files) /\ loaded' = files /\ Enter("smoke")
       \/ UNCHANGED loaded /\ Enter("restore")
    /\ UNCHANGED <<host, files, run, backup, unlisted, result, runs>>

\* smoke_prod_edge.  A forward deploy that fails is restored, a rollback has nothing to restore.
Smoke ==
    /\ stage = "smoke"
    /\ \/ Enter(IF run.sync THEN "remove" ELSE "report") /\ UNCHANGED result
       \/ run.sync /\ Enter("restore") /\ UNCHANGED result
       \/ ~run.sync /\ End("failed")
    /\ UNCHANGED <<host, edge, run, backup, unlisted, runs>>

\* The backup of a forward deploy is removed; set -e ends the script when rm fails half-way.
RemoveBackup ==
    /\ stage = "remove"
    /\ \/ Drop /\ Enter("report") /\ UNCHANGED result
       \/ (\E gone \in SUBSET Indices : Removed(gone)) /\ End("failed")
    /\ UNCHANGED <<host, edge, run, unlisted, runs>>

\* echo and compose ps: set -e still ends the script with their failure.
Report ==
    /\ stage = "report"
    /\ End("ok") \/ End("failed")
    /\ UNCHANGED <<host, edge, run, backup, unlisted, runs>>

-----------------------------------------------------------------------------
(* restore_nginx_config *)

\* rm -rf and, for a path that present_file lists, the copy back; one that fails keeps the
\* backup.  A failure of grep is no different from a path that is not listed: the loop goes on.
RestorePath ==
    /\ stage = "restore"
    /\ \/ /\ files' = [files EXCEPT ![at] = backup[at]]
          /\ Advance("retest") /\ UNCHANGED <<unlisted, result>>
       \/ /\ files' = [files EXCEPT ![at] = Absent]
          /\ unlisted' = unlisted \cup {at}
          /\ Advance("retest") /\ UNCHANGED result
       \/ /\ \E left \in {files[at], Absent, Torn} : files' = [files EXCEPT ![at] = left]
          /\ End("failed") /\ UNCHANGED unlisted
    /\ UNCHANGED <<host, loaded, run, backup, runs>>

\* nginx -t and reload again; only then is the backup removed.
RetestAndReload ==
    /\ stage = "retest"
    /\ \/ Valid(files) /\ loaded' = files /\ Enter("discard") /\ UNCHANGED result
       \/ UNCHANGED loaded /\ End("failed")
    /\ UNCHANGED <<host, files, run, backup, unlisted, runs>>

\* The backup of a deploy that was restored is removed, and the script fails either way.
DiscardBackup ==
    /\ stage = "discard"
    /\ \E gone \in SUBSET Indices : Removed(gone)
    /\ End("failed")
    /\ UNCHANGED <<host, edge, run, unlisted, runs>>

-----------------------------------------------------------------------------
(* What else happens on the host *)

\* The script is cut off; the command it was at may have begun.
Kill ==
    /\ stage # "idle"
    /\ End("killed")
    /\ files' \in {files} \cup
          IF stage \in {"apply", "restore"}
             THEN {[files EXCEPT ![at] = left] : left \in {Absent, Torn}} ELSE {}
    /\ live' \in IF stage = "compose" THEN {Up(services) : services \in Prefixes} ELSE {live}
    /\ \E gone \in IF stage \in {"remove", "discard"} THEN SUBSET Indices ELSE {{}} : Removed(gone)
    /\ UNCHANGED <<head, loaded, run, unlisted, runs>>

\* The renewal hook of certbot: reload-host-nginx.sh.
ReloadHook ==
    /\ Valid(files)
    /\ loaded' = files
    /\ UNCHANGED <<host, files, script>>

\* An operator edits or removes a file, once between two runs.
Edit ==
    /\ stage = "idle" /\ result # "none"
    /\ \E i \in Indices, content \in {Edited, Absent} : files' = [files EXCEPT ![i] = content]
    /\ result' = "none"
    /\ UNCHANGED <<host, loaded, stage, at, run, backup, unlisted, runs>>

DeployNext ==
    \/ \E c \in Commits, sync \in BOOLEAN : Start(c, sync)
    \/ Compose \/ WaitHealthy
    \/ BackupPath \/ VerifyCertificate \/ ApplyPath \/ TestAndReload \/ Smoke
    \/ RemoveBackup \/ Report
    \/ RestorePath \/ RetestAndReload \/ DiscardBackup
    \/ Kill \/ ReloadHook \/ Edit

DeploySpec == DeployInit /\ [][DeployNext]_deployVars

-----------------------------------------------------------------------------
\* The new configuration is on the disk and in the workers in full, over its images.
Replaced ==
    /\ run.sync
    /\ files = Installed(run.sha) /\ loaded = files
    /\ live = [s \in Services |-> run.sha]

\* Wherever a run fails or is cut off, each file that it found is in its place or in the backup,
\* and the backup is given up for nothing less than the whole new configuration.  The one way
\* to lose a file is a look-up in present_file that fails: its path is taken for one that was
\* absent, and nginx does without it when the restored configuration is tested.
PreviousConfigIsNeverLost ==
    (stage # "idle" \/ result \in {"failed", "killed"}) =>
        Replaced \/ \A i \in Indices \ unlisted : run.before[i] \in {files[i], backup[i]}

\* Every file is as the run found it, those apart whose look-up failed.
PutBack == \A i \in Indices : files[i] = IF i \in unlisted THEN Absent ELSE run.before[i]

\* A forward run that succeeds leaves the whole configuration of its commit, on disk and in the
\* workers, over its images, whatever earlier runs left; a rollback leaves the configuration
\* alone.  A run that fails of itself put the files back, or left the whole backup, or failed
\* only after its smoke test (removing the backup, listing the services), with the new
\* configuration in place: a red run never leaves half of one without the means to undo it.
ResultTellsTheTruth ==
    /\ result = "ok" =>
          /\ head = run.sha /\ live = [s \in Services |-> run.sha]
          /\ files = IF run.sync THEN Installed(run.sha) ELSE run.before
          /\ run.sync => loaded = files
    /\ result = "failed" => PutBack \/ backup = run.before \/ Replaced
=============================================================================
