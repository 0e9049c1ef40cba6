# Capsule Zero: a verification project

TLA+ models of the parts of Capsule Zero whose correctness depends on orders of events
that tests hardly produce: transactions of concurrent API calls, browser state shared by
tabs, one-time codes and tokens, polling loops, and scripts that are interrupted half-way.
Sources are named relative to the repository root (`api/`, `app/`, `infra/`, `scripts/`).

## 1. The system

| Component | State it keeps | Operations | What it talks to |
|---|---|---|---|
| Guest progress API (`api/internal/guest`) | tables `guest_progress`, `guest_wardrobe_items` | Save, Update, Get, List, Items | PostgreSQL transactions; session middleware gives the user |
| Uploads API (`api/internal/uploads`, `storage`) | tables `upload_jobs`, `item_assets`; objects in the bucket | Init, the browser's PUT, Complete | PostgreSQL, S3-compatible storage |
| Profiles (`api/internal/profiles`) | table `profiles` | EnsureForIdentity, Apply, GetByUserID | PostgreSQL, Kratos traits |
| Migrator (`api/internal/db`) | `schema_migrations`, the schema | Migrate at every boot | PostgreSQL advisory lock |
| Rate limiter (`api/internal/ratelimit`) | bucket per client | Allow, Cleanup | clock |
| Auth API (`api/internal/auth`, `kratos`) | recovery continuations in memory | register, log in, recover, verify, change password, log out, sessions | Ory Kratos |
| API process (`api/cmd/api`) | cached storage readiness | start, health, shutdown | all of the above |
| Guest flow of the web app (`app/src/features/guest`, `components/guest`) | draft and save intent in local storage | pick, save, sign in, continue, retry | server actions, guest API |
| App session and auth actions (`app/src/features/auth`) | signed session cookie, Google exchange cookies | sign in/up/out, verify, recover, Google callback | auth API |
| Recovery panel and sessions panel (`components/auth/AuthPanel.tsx`, `components/profile`) | flow, code and continuation of one recovery; list of sessions | ask for a code, submit, try again, change the password, revoke sessions | auth actions, auth API |
| Wardrobe pages (`components/my-items`, `favorites`, `for-sale`, `for-repair`, `uncapsulated`) | a page's list, panel and counters | open, favorite, move, delete, add to the capsule | server action for guest items, guest API |
| Guided journey (`components/guided-journey`) | step, type, categories, colours and items of a new capsule, the timer of its creation | choose, count, select, add, go back, create | search page, capsule page |
| Capsule page (`components/capsule-result`) | snapshot, the list the user edits, a dialog | add, replace, remove | outfit algorithm |
| Colour rule and outfit algorithm (`app/src/lib/colorCompatibility.ts`, `app/src/lib/outfit*.ts`, `app/src/features/guest/outfits.ts`) | none | base looks, variations, cards, coverage; the guest's looks | none |
| Deploy script (`infra/scripts/capsule-zero-deploy`) | running images, host nginx configuration | deploy, back up, restore, smoke test | docker compose, nginx |
| Review gates (`scripts/check-codex-review.mjs`, `ai-review-gate.mjs`) | none (polls GitHub) | decide whether a head commit was reviewed | GitHub API |
| Legacy Supabase functions (`supabase/migrations`) | coin balances, ledger, capsules | spend, credit, create capsule | PostgreSQL |
| UI shells, legal pages, catalog data, generated API types | presentation | render | - |

Behaviours that are hard: concurrent transactions over the same unique keys; retries of calls
whose answer was lost; two calls with a read between them that is not covered by a lock; a
process that stops between two steps; a second tab or account in the same browser; codes and
tokens that are consumed by a call that later fails; a bound that is reached exactly.

### What makes each component correct

* Guest progress: a transfer is accepted once and entirely or not at all; retries agree; an
  entry never loses what its owner set; concurrent saves cannot deadlock.
* Uploads: an asset exists only for an object that was there with the announced size and
  type; one asset per upload job, whatever is retried; only the owner completes a job.
* Profiles: one profile per identity although first requests race; a user's own edits
  survive the refresh from identity traits.
* Migrator: every migration is applied exactly once and in order with any number of
  replicas booting and stopping; a failed one leaves nothing behind.
* Rate limiter: a client gets at most its burst plus the refill, evictions included.
* Auth: a password changes only after the code was verified; a continuation belongs to one
  session and ends; what a client is told agrees with what Kratos did.
* Recovery: what an answer says of the password is true; a refused password leaves a way back; the
  user who follows the messages gets in; a session is hidden only after it has ended.
* Wardrobe pages: the counters, which every page keeps by adding and subtracting, are those of the
  wardrobe as the user left it; each page lists its own items; a refused change leaves no trace.
* Guided journey: the palette and the items fit together in whatever order they were chosen.
* Capsule page and outfits: the number of outfits is the number of cards shown, cards can be told
  apart, the guest's evaluator agrees with the capsule's, and an added item takes no look away.
* Guest flow: what the user picked is saved to the account they confirmed, at most once,
  and is cleared only after it was saved.
* Deploy: a deployment that fails has not lost the configuration it found, unless the new one is in place in full; a passing review
  gate means that the head commit was reviewed with nothing open.

## 2. Guest progress: `GuestData`, `GuestLedger`, `GuestSave`

`GuestSave` is `Repo.Save` statement by statement. A call (`Attempts`; a retry is a new call)
goes through `Receive` (decode and `snapshots`), `InsertTransfer` (the `INSERT .. ON CONFLICT
DO NOTHING` on the transfer), either `CompareTransfer` (a row was there) or one `InsertItem`
per preset in sorted order, `SelectSaved`, `Commit`. `Fail` may happen at any statement: the
caller is answered with an error while the server still has the transaction; `RollBack` ends
it, or `CommitUnseen` does when the COMMIT had been sent. `Update` is the single-statement
`PATCH`. The model of PostgreSQL (external) is: an insert waits for an open transaction that
inserted the same unique key (`TransferWait`, `ItemWait`), skips a committed row, and sees the
committed rows and its own (`Visible`).
Statements that cannot miss under this model (the `SELECT` of a row the `INSERT` collided
with, rows are never deleted by this code) have no failure of their own besides `Fail`.

`GuestLedger` is the promise: `Accept` applies a transfer at once, `Repeat`s it without effect,
`Refuse`s another selection under the same transfer; an `error` answer promises nothing
(`Lose`, `ApplyLate`).
`GuestSave` implements it with `shown` mapped to the row of an accepted answer.

## 3. The other modules

### Uploads: `Uploads`

One call of `Handler.Init` per job (`ReceiveInit`, `Sign`, `CreateJob`), then the browser's `Put`
straight to the bucket, as often as it likes until the signature ends (`Expire`), and any
number of completions: `Receive`, `FindOwned` outside a transaction, `Head` without a lock,
then the transaction of `Repo.Complete` statement by statement (`LockJob` with FOR UPDATE,
`RepeatCompletion` or `InsertAsset`, the UPDATE and `Commit`). `Fail`, `RollBack` and
`CommitUnseen` as in `GuestSave`. Identifiers are random and fresh, so a job, its asset and
its object key are one identifier. `enforced`, chosen once, says whether the bucket holds a
PUT to the length and type that were signed: `AssetIsVerified` does not depend on it,
`ObjectKeepsItsShape` does and says so.

### Profiles: `Profiles`

`EnsureForIdentity` is one SQL statement, split where READ COMMITTED splits it:
`BeginStatement` takes the snapshot that the fallback SELECT reads, `Upsert` acts on the row
as last committed. Everything else in the statement is atomic: an insert that would wait for
another transaction takes its step after it, and the arbiter key (the identity) is decided
before the unique index on the address. `Apply` is the owner's edit. Kratos is external
(`SetTraits`): addresses are unique among its identities, which an operator may change or
delete, as the code's comment on stale addresses allows for.

### Rate limiter: `RateBudget`, `RateLimiter`

`Allow` and `Cleanup` hold the mutex, so each is a step; `Tick` advances the clock, with
`Cleanup` due every `Period`. Tokens are integers, in units of 1/`Cost` of a token, so that
the arithmetic is exact; the code uses float64, whose rounding is not modelled. `log` is a
history of admissions. `RateBudget` is the promise: a credit per client that grows with every
tick up to a full bucket and pays for every admission. `RateLimiter` implements it although
it computes refills lazily and forgets idle clients: the credit of a client without a bucket
is a full one. The refinement needs `EvictionAssumption`: a bucket idle for `IdleTTL` is full. It holds
for the deployed values (10 a minute, burst 10, and 120 a minute, burst 60, over 15
minutes; `MCRateLimiter!DeployedEviction`), but `config.getenvInt` lets an operator set values
for which it does not.

### Migrator: `Migrator`

`Migrate` of one process per boot: `Lock`, `Track`, then `Check`, `Execute`, `Insert` and
`Commit` per file, `Unlock`. A boot has its own `release`, the number of files embedded in its
binary, so old and new releases may overlap. `Fail`, `CommitUnseen` and `LockFails` are
errors the code handles; after `Crash` the session of the dead process goes on holding its
lock and its open transaction until `EndSession`. The statements of one file are one step
that takes effect at COMMIT; whether a second execution of a file would fail is a constant
(`Rerunnable`).

### Guest flow: `GuestBrowser`

Several tabs of one browser share local storage (`intent`, `kept`) and cookies (`session`,
`guestSave`, `exchange`). A tab is at a page: the guest page, waiting for the session check
(`asking`), in the sign-in popup, on the auth page, at Google, or on the continuation page,
whose `save()` is cut at its awaits: `Bind` (storage), `Send` (the server action reads the
session and calls the API), `Receive` (storage again). The API is `Api == INSTANCE GuestLedger`, its promise:
that the real transactions keep it is what `GuestSave` shows. A JavaScript step on local storage is atomic.
Abstractions: a draft is one of two selections with a look, or the empty one, of one
wardrobe; cookies do not run out; a Google sign-in that was not started for a save is only
told apart by the empty transfer; leaving the consent screen comes back through the callback.
`?fresh` in the URL of the guest page empties the draft like `Restart` does.

### Password recovery and sessions: `Recovery`

The panel (`RequestCode`, `Submit`, `GiveUp`), the handlers statement by statement
(`SubmitCode`, `GetContinuation`, `Reauthenticate`, `SettingsPassword`, `WhoAmI`, `Deliver`), the store
of continuations, which a restart of the process empties and whose entries expire, a password change
from another device and the sessions panel with its revocations (`CurrentSession`, which asks WhoAmI, and `RevokeSessions`, before which the session that asks may
itself have ended). Kratos is external: it has one
password, the flows whose code is in the mail, and the tokens that have ended. A continuation is
identified with the session it keeps. `MaxFaults` bounds lost answers, wrong codes, failures at any
call of Kratos, restarts, expired codes, ended sessions and what other devices do, all together.
`hidden` holds the rows the sessions panel has taken away. `Flows`, `Tokens` and `Calls` bound how many of each are known at
a time (`FlowsLeft`, `TokensLeft`, `CallsLeft`): one that nobody knows any more stands for a new one. A submission the user gave up may
still be under way and set its password after a later one was acknowledged; no
document promises otherwise and no property says so.

### Wardrobe pages: `WardrobePages`

One tab shows one of five pages (`Open`); each has its own part of the wardrobe and its own moves
(`MovesOn`), and all keep the counters of the navigation by adding and subtracting. A change of a
saved guest item is a call (`ClickGuest`, then `Store` and `Succeed`, or `Refuse`, or `Lose`)
during which the user goes on; a change of any other item is local to the page (`ClickLocal`,
`deleteItem`, `addToCapsule`). Other tabs, and calls nobody waits for any more, change the rows
(`Elsewhere`). `whole` is a history: what the user left each entry as, whether or not the
page lists it. Next.js runs the server actions of a tab one after the other; here they overlap freely,
which includes that. An answer closes the panel of whatever item is open by then, as in the code.
Left out: the fields of an item, its creation (with the identifiers it gives, `local-<length + 1>`, which
repeat after a deletion), and the router's cache for the browser's Back button, under which a page may return with older counters.

### Deployment: `HostDeploy`

The wrapper from checkout to its last command. `Compose` leaves each service on the old commit or takes it to the new one in the order
of their dependencies. The transaction on nginx is one step per managed path
(`BackupPath`, `ApplyPath`, `RestorePath`), then come the removal of the backup (`RemoveBackup` after a smoke test that passed,
`DiscardBackup` after a restore) and what the script does last (`Report`). Every command may fail, and `Kill` cuts the script off at any
stage, with the file it was at whole, torn or gone, and a backup it was removing gone in part. `set -e` ends the script where it applies (the
backup, its removal, the last commands) and not where the code calls a function in a condition (apply, smoke and restore, hence their
`|| return`); the `grep` of the restore is a condition too, so that its failure cannot be told from a path that was absent: the file is
removed and not copied back. `unlisted` is a history of the paths to which that has happened. `backup` is that of the latest run; directories of older runs stay in `/tmp` and nothing reads them.
A deploy of an older commit is the re-run of its workflow run; the rollback boundary is only checked for rollbacks, as in the code.

### Colours, outfits, journey and capsule page: `ColorCompatibility`, `Outfits`, `GuidedJourney`, `CapsuleResult`, `CapsulePages`

`ColorCompatibility` is the rule on colour groups. `Outfits` has both evaluators: base looks, accessory variations
with their selection in three rounds, counted outfits, cards and layering coverage of the capsule page, and
`evaluate` of the guest page, pure operators over sets of items. Lists are sets: their order is
only that of display, except where the code sorts by text, for which numbers stand in the
order of the texts; there are any number of them (`ColorCount`, `ItemCount`). `GuidedJourney` and `CapsuleResult` are the two pages, one action per handler;
`CapsulePages` composes them in one tab: the timer of a creation survives its page (`strays`), and sends the tab to the
capsule page wherever the user has gone. A capsule is opened with the count its creation stored, which is the count of
its items (`storedOutfitCount`; the mock provider computes it with the same function; the provider's `createCapsule`
has no caller in the pages yet). Left out: favorites, gaps, tabs and search of the catalog, notices, and
the guest's `recommend`, which only orders suggestions.

## 4. Runs and what they show

| Run | Bounds | Shows |
|---|---|---|
| `guest_save` | 2 accounts, 2 transfers, 2 calls, 2 presets, edits, refused selections | the transactions implement `GuestLedger`: durable answers, agreeing retries, all-or-nothing, no circle of waits; edits survive; every call ends |
| `uploads_race` | 1 job, 2 accounts, 2 completions, bucket that enforces signatures or not | job and asset change together, only for a verified object, once |
| `profiles_race` | 2 identities, 2 addresses, 2 names, 3 requests | one retry of the upsert is enough: a session ends without its profile only over a failed database or an address that has moved; edits survive the refresh |
| `profiles_clash` | 2 identities, 2 requests | violation, see below |
| `limiter` | 2 clients, burst 2, 6 ticks, eviction exactly when full | every window of admissions is bounded, evictions included; `RateBudget` is implemented |
| `migrator` | 3 boots, 2 files, any releases | files are applied once and in order with their versions; nobody waits for ever |
| `browser_tabs` | 2 tabs, 2 accounts, 2 requests, 2 API calls | what is shown as saved was asked for, in one account; no draft is lost |
| `browser_google` | the same | violation, see below |
| `recovery` | 3 passwords (one refused by the policy), 4 flows, 7 tokens, 2 calls, `MaxFaults` 3 | answers tell the truth, a refused password keeps a way back, hidden rows have ended, and the user gets in |
| `wardrobe` | 2 guest items, or a guest item and one of the user's own in one of 4 situations; 2 calls | counters, lists and stored rows stay in step |
| `capsule` | 4 colours of different behaviour, 3 items, palettes of 3 colours (2 chromatic), 2 types, 2 categories at least, 1 timer, 3 capsules | the palette fits, and figures, cards and both evaluators agree after every edit |
| `host_deploy` | 2 commits with different Kratos versions, 3 paths, 3 runs, an edit by hand between two | wherever a run ends, each file it found is in place or in the backup, or the new configuration has replaced all of them (the exception: a look-up that fails in the restore); a green run installed all of its commit |

Why the bounds are enough for what the runs ask: the properties relate at most two actors and what became
of a third. Two guest calls are two that
collide, or a call and its retry; the circles of waits that two presets allow need two calls, and the theorems cover any number. Two completions are a completion and its retry or a stranger's;
a third would find the states the second leaves. Three profile requests are the two that race
for the first sign-in and one that changes the row under the loser's retry. Three boots are a
dead one with its lock, one that waits and one that comes later. Two tabs with two
requests and two calls are the smallest in which one tab replaces, clears or continues the request of
the other and a save is retried. The limiter's bounds make eviction meet the refill exactly.
Three runs of the deployment are one that fails, one that finds what it left and one more; three paths are
one already installed, one at work and the one a deploy removes. Three faults let a recovery lose an answer, meet a restart and then an expired code, with another
device in between; four flows and seven tokens are as many as those faults can use up, so that
the user never lacks a next one. One guest item and one of the user's own make every counter move from every page while two calls for the
same item settle in either order. The four colours are one of each class the rule tells apart; the capsules were chosen so that
twin bags, bags of three colours, accessories that clash with a dress, layers, items without role and items without colour all
occur; palettes of three meet both limits.
The bounds named in the modules are `MaxTime` (clock of the limiter), `MaxFiles`, `MaxFaults` (recovery), `MaxCount` (of one
category), `MaxTimers` (journey), `MaxRuns` (deployment), and the sizes of
the sets of calls, jobs, boots, flows, tokens and transfers: identifiers are used once. The journey's own limits
(`MinCategories`, `MaxTotalColors`, `MaxChromaticColors`) are constants of the code, with smaller values in the runs.

The constants that stand for a missing value (`NoInput`, `NoRow`, `NoUser`, ..) are model
values. Symmetry is used only in runs that check no liveness, over sets of model values the
modules do not tell apart. Most runs have `CHECK_DEADLOCK FALSE`: their systems may come to rest (every call answered, every
identifier used, the clock at its bound); that waiting ends is checked as a property instead
(`EveryCallEnds`, `EveryBootEnds`, `TheUserGetsIn`). `wardrobe` and `capsule` check deadlock: a page always lets the user do something.

### Fairness

* `GuestSave!FairSpec`: weak fairness of the next statement of every call that has been received. The handler
  runs on a goroutine that nothing holds up but the waits for locks, which are guards of the statements;
  failures need not happen.
* `Migrator!FairSpec`: weak fairness of the next statement of every running process, and of
  the end of the sessions of dead ones, which PostgreSQL guarantees (TCP keep-alive). Weak is enough for
  the lock although it is contended: each boot takes it at most once, so that it is free for good in the end.

* `Recovery!Fairness`: weak fairness of the next step of every call, and of the expiry of continuations, which a timer of the
  store carries out. Strong fairness of `AskAgain` and `TryAgain`: a user who wants to get in does what the panel's
  message says, if it says so again and again. Weak fairness would not do: what is asked of the user changes with
  every answer, and nothing is asked while a call is under way. Faults need not happen and are bounded.

### Where the code and its documents differ

* `profiles_clash`: `profiles.email` is described as a mirror of an address Kratos keeps
  unique, but the copy is refreshed only by requests of its own identity. After an
  identity is deleted, or changed and not seen since, its address stays taken; the identity that registers with
  it next cannot resolve its profile.
* `browser_google`: "another tab cannot silently replace the request" does not hold when
  two tabs use Google. Both cookies have fixed names; the second start overwrites them, the callback of
  the first tab fails and hands that tab the request of the second, which a later sign-in in the first tab saves.
  `SavedIsWhatWasAsked` holds all the same: what is saved is the request in the address of the page.
* Without a run of its own: the specification of the deployment says that a failure "restores previous file contents" and that a "failed
  restoration preserves its backup" (`.specify/specs/060-production-nginx-reconciliation/spec.md:14`, and `infra/nginx-host/README.md:40`).
  A `grep` that fails in `restore_nginx_config` (`capsule-zero-deploy:144`) does neither: the file is gone, nginx starts without it if it can, and
  line 220 removes the copy. And a run can be red with the new configuration in place and no backup, when only a command
  after the smoke test failed (lines 223 to 230). `PreviousConfigIsNeverLost` and `ResultTellsTheTruth` state what holds with both.

## 5. Proofs

| Module | Theorems |
|---|---|
| `GuestSaveProofs` | `SpecTypeOK`, `SpecAckedIsStored`, `SpecRetriesAgree`, `SpecWardrobeIsUnionOfTransfers`, `SpecKeysAreUnique`, `SpecNoWaitCycle`, `SpecEditsSurviveSaves`, `SpecImplementsLedger` |
| `UploadsProofs` | `SpecTypeOK`, `SpecCompletedHasItsAsset`, `SpecAssetIsVerified`, `SpecAckedIsCompleted`, `SpecRetriesNeverCollide`, `SpecNoOrphanObject`, `SpecObjectKeepsItsShape` |
| `ApiProofs` (profiles, recovery, rate limiter) | `ProfilesSpecTypeOK`, `SpecSessionsGetTheirProfile`, `SpecEditsSurviveRefresh`; `SpecTypeOK`, `SpecAnswersTellTheTruth`, `SpecRejectedPasswordKeepsAWayBack`, `SpecSignedInSessionIsSettled`, `SpecHiddenRowsHaveEnded`; `LimiterSpecTypeOK`, `SpecWindowIsBounded`, `SpecMapHoldsRecentClients`, `SpecImplementsBudget` |
| `DeploymentProofs` (deploy script, migrator) | `DeploySpecTypeOK`, `SpecPreviousConfigIsNeverLost`, `SpecResultTellsTheTruth`; `SpecTypeOK`, `SpecNoBootCollides`, `SpecSchemaIsRecorded`, `SpecServingHasItsSchema` |
| `GuestBrowserProofs` | `SpecTypeOK`, `SpecBoundToOneAccount`, `SpecSavedIsWhatWasAsked`, `SpecDraftSurvives`, `SpecUsesTheLedger` |
| `WardrobePagesProofs` | `SpecCountersAgree`, `SpecListsHoldTheirOwn`, `SpecUndisturbedIsStored` |
| `OutfitsProofs` | lemmas on the outfit algorithm for any list of items, `CardsAreCounted` among them |
| `CapsulePagesProofs` | `PagesTypeOK`, `PaletteAlwaysFits`, `ShownCountAlwaysCards`, `NeverTwinCards`, `EvaluatorsAlwaysAgree`, `AddingNeverLoses` |

They hold for every value of the constants that satisfies the named assumptions, and for any
number of calls, accounts, tabs, clients, boots, files, runs, jobs, identities, sessions, faults, ticks, colours and items. The assumptions are:

* that what stands for an absent value is none of the values (`NoRow`, `NoIntent`, `NoBoot`, `NoObject`, `None`, ..), and that bounds are numbers;
* `RateLimiter`: a bucket that is idle for as long as the eviction wants is full (`EvictionAssumption`, see above);
* `GuidedJourney`: every colour has a group, an item's colours are colours, the hand-off type is a type;
* `CapsuleResult`: capsules are finite, and their items have identifiers of their own (they are primary keys, and `uniqueItems`
  keeps one item of each); `WardrobePages`: wardrobes are finite, and only an active entry that is no guest item is in the capsule;
* `GuestBrowser`: the empty draft is a draft without a look; `Uploads`: an announced photo has a type and a size;
  `Profiles`: the names identities have are names; `Migrator`: the files that may be run twice are files;
* `Recovery`: the first password is one the policy accepts, the device's session is a session;
* `HostDeploy`: there is a managed path, every commit has a Kratos version, and nginx refuses a torn file and does without an absent one.

*Guest save.* None of the properties is inductive alone: that COMMIT publishes a whole
save depends on what the open transaction has inserted and still has to do. `IInv` adds
that an open transaction holds the keys it inserted and nobody else does
(`OpenInv`, `HeldInv`), that a preset is in the wardrobe, in the transaction or still to do (`CoverInv`), that a call
that met another row met one of its transfer (`MatchInv`), and that the row selected for the answer
is the visible one (`SavedInv`). `AckedIsStored` and `WardrobeIsUnionOfTransfers` follow at
COMMIT. `NoWaitCycle` does not follow from `IInv` step by step but from the order of the inserts: a
call waits for a transfer before it holds any preset, and for a preset only above all those it
holds; among the calls of a circle the one whose preset is greatest would wait for a smaller one. The
refinement maps the step that publishes to `Accept` (or to `ApplyLate` when the caller was
already told of an error) and every other to a stutter.

*Rate limiter.* `WindowIsBounded` says that any two entries of the admission log are as far
apart as refills need. What makes it inductive is `CreditInv`: the credit now, together with
what was admitted since an earlier entry, never exceeds a full bucket plus the refill since that entry. Eviction preserves it because an idle bucket
is full by `EvictionAssumption`; `SeenInv` and `CleanedInv` tie `lastSeen` and the cleanups to the clock.

*Guest browser.* A tab carries what it read before an await (`bound`, `asked`) while other tabs replace what is stored. What keeps them
together is that a transfer identifier is drawn once, with one draft, so that whatever is stored, bound or asked for under one
identifier is one request (`DraftsOK`), and that a stored request whose identifier some tab has bound, or the API has been asked for, is
of that account (`IntentOK`). `TabsOK` ties a tab that waits to the call it made, `ApiOK` a call to the row it was shown. The
refinement needs no mapping: every step of the pages makes one step of the ledger or leaves its variables alone.

*Deploy.* `StageInv` says, stage by stage, which of the managed files are as the run found them, which are those of the commit
and which are copied, in terms of how far the loop of the stage has come (`at`): the backup is complete before the first file is
replaced, and a restore that ends without error has put back all of it but what `grep` failed to find. A kill may tear one file, and only in a
stage whose copies are complete. At every stage one of three things is true, and wherever a run ends it stays true (`OnwardDeployInv`,
`EndDeployInv`): the copies are complete, or the files are in their places (`PutBack`), or the new configuration is (`Replaced`). `RunInv` adds that only a forward run installs a configuration, and only after its images are up.

*Capsule pages.* The code checks a new item only against the first chromatic colour of the palette
(`baseChromaticColor`) and a new colour against that and the items. That this is enough
is the argument of `PaletteAlwaysFits`: compatibility is symmetric, and transitive through any group that is not achromatic
(`CompatibilityThrough`), so the base colour stands for all (`BaseStandsForAll`); removing the base leaves a palette whose
colours still fit pairwise. The invariant `PaletteInv` adds only the types the argument needs.
For the capsule page `ResultInv` says that the list is a part of what the page was opened with and that the stored number was
counted; the rest is about any list, in `OutfitsProofs`:

* `ShownCountAlwaysCards`: no two pairs of a look and a variation give one card, because a look has no accessories and a variation
  nothing else (`CardsAreCounted`).
* `NeverTwinCards`: the selection compares joined texts, and its order is total on the lists of up to three numbers that occur
  (`FirstText`), so that each round takes exactly one candidate (`SelectNextTakesOne`) and three rounds take
  three or all (`SelectionShape`, `VariationsTellApart`).
* `AddingNeverLoses`: a base look asks only about its own items, and an added accessory only adds keys to choose from
  (`LooksGrow`, `VariationsGrow`, `CountGrows`, `CoverageGrows`).
* `EvaluatorsAlwaysAgree`: the guest's evaluator takes the first three bags that fit, the capsule's selects among keys. A guest's
  accessories are all bags, so keys are colours, and both numbers are the smaller of three and the bags that
  fit (`FirstThree`, `GuestKeys`, `GuestVariations`, `GuestCount`). Without looks a role is missing, or each candidate clashes (`GuestIsTold`).

*Migrator.* Whoever is between taking the advisory lock and giving it back holds it, a dead process whose session outlived it
included (`LockInv`). So what a boot has read of `schema_migrations` stays true until it commits, and the file it
executes is the one after the last that was applied (`NextInv`); `SchemaIsRecorded` is preserved at COMMIT
and no file is met that another boot has applied.

*Uploads.* A completion decides twice. What `FindOwned` found lasts without a lock because a job never changes its owner, type or
size once created (`JobOK`, `CallOK`); what `LockJob` found lasts because only a completion changes a job's status and it has to lock its
row (`LockInv`), so that no second INSERT is on its way. `AssetInv` carries both to COMMIT.

*Profiles.* One retry is enough for any number of racing requests because a profile never goes away: a statement that met
its row in the index but not in its snapshot finds it in the snapshot of the second (`RetryInv`). A clash finds another profile with the address of the session, and Kratos gives an address to
one identity (`AddressInv`), so one of the two copies is stale. `KeysInv`, that there is one profile
per identity and per address, makes the row a statement refreshes the one whose name it keeps.

*Recovery.* A call that holds the session of a spent code is alone with it until a refused password shares it (last part of `CallOK`);
from then on the session is in the store, or has timed out or served, and once it has served nobody is left who could put it back: a
call that answers `OK` has seen it leave the store, and the only call that could insert it would be the one that is answering.
`WorksIInv` states what a step of one call may do to the store, the sessions and the names others know, and every handler is shown to be such a step.

*Wardrobe pages.* A page adds to and subtracts from its counters by the entry as it was when the button was pressed. That this entry
is still the one of the list when the answer comes is `CallOK`: two calls are never for one item, and what is not a call moves no guest
item. `PageOK` then says that the list is the page's part of the wardrobe and each counter the cardinality of a set of its
items (`Differs`: what one changed item does to the five sets), for every page and button apart. `StoredOK` relates a row to
the entry before and after its call was carried out.

Only model-checked: the three liveness properties (`EveryCallEnds`, `EveryBootEnds`, `TheUserGetsIn`), because the
proof system has no rules for fairness and ENABLED that its installed back ends can use, and the two runs
that show a violation. Every other property of a run is stated by a theorem.

## 6. What is not modelled, and the plan

Not modelled: requests that only read; the wording of answers; presentation, legal
pages, catalog data and generated types; the mock and Supabase providers, ports that forward one request each; health probes; the legacy
SQL functions on coins, which the deployed mode does not call; registration, verification and log-in, each of which forwards one call to Kratos and
keeps nothing; the form that creates an item. The greatest part of the repository's lines is of this kind: markup, styles,
generated types, tables of data and adapters without control of their own.

In this order:

1. `ReviewGate`: parallel reads of a pull request that changes. Property: a gate that passes
   has seen the head reviewed and nothing open at one time.

Known and without a property: a creation that ends 700 ms after it was confirmed, when the user has gone back and unticked
categories or left the page, is modelled (`Created`, `StrayEnds`); the documents ask for the minimum of categories when the user
proceeds and say nothing of the wait. A new item of my items gets its identifier from the length of the list.
