# RootGuard in TLA+

RootGuard runs a DNS stack (AdGuard Home in front of Unbound) as a Docker
Compose project and maintains it: it installs it, updates its containers with
provenance attestation and rollback, edits its configuration, and backs it up
and restores it. These modules model the parts of it whose correctness depends
on the order of steps, on failures and on crashes. TLC checks them on small
instances; the most important results are proved for all instances with TLAPS.

Paths below are relative to the repository's root.

## 1. Inventory

### The processes

| Process | Code | Role |
| --- | --- | --- |
| Core | `rootguard-core` | the only process that may change the stack; HTTP API for WebApp |
| WebApp | `rootguard-webapp/backend` | login, sessions, rate limits; forwards to Core |
| Updater | `rootguard-updater` | replaces Core and WebApp, which cannot replace themselves |
| Attestation proxy | `rootguard-attestation-proxy` | the only way to the signature service |
| Docker proxy | `rootguard-docker-proxy` | filters the Docker API calls of Core and the Updater |
| Unbound, AdGuard, block page | images | the services being maintained |

Core replaces the data plane (Unbound, AdGuard, block page) and, as a
"self-update", the Updater and the attestation proxy. The Updater replaces Core
and WebApp. So each of the two may kill the other in the middle of an operation.

### The components

For each: its state, its operations, whom it interacts with, what makes it hard,
and what makes it correct.

**Core update manager** (`rootguard-core/internal/updater/{manager,cleanup,backups}.go`).
State: `status` (state, history, per-service identities, PersistError), the
selected image of each service, the control-plane reservation, backup retention;
on disk `state.json`, `updates.yaml`, `backup-settings.json` and the restore
points. Operations: update (inspect, backup, pull, attest, migrate ownership,
select, compose, verify, and a five-step rollback), check, cleanup, exclusive
section, reservation, retention, status resynchronisation, restart. Interacts
with Docker, with HTTP handlers that call it concurrently, and with the
installer, which recreates the same containers. Hard: one guard in five places,
two files renamed one after the other, a rollback any step of which may fail, a
kill between any two steps, retention that deletes while an update may need what
it deletes. Correct when: operations exclude each other; no unattested image is
started; what is reported as success, failure or rollback is true; restore
points outlive their update; a restart is never left busy.

**Control-plane updater** (`rootguard-updater/{manager,http,image}.go`). State:
`status` and `status.json`, the override file, one goroutine. Operations: check,
update of the pair with downgrade and attestation gates, rollback, cleanup,
resynchronisation, restart. Hard: one compose command replaces two containers;
one deadline covers update and rollback; a version that cannot be read switches
the downgrade check off; it may be replaced by Core while it works. Correct when:
a verdict is true of both members, only attested releases run, no downgrade.

**Control-plane composition** (`rootguard-core/internal/api/routes.go`,
`rootguard-core/internal/controlplane/client.go`). State: the reservation in
Core, the request on its way, the Updater's status. Hard: check then act across
two processes, timeouts after which the request may still arrive, each process
killing the other. Correct when: neither is replaced while it replaces the other,
and both become available again.

**Attempt limiter** (`rootguard-webapp/backend/internal/httpapi/ratelimit.go`).
State: failures with their times and attempts in flight, per key. Operations:
begin, end, reset, sweep. Hard: requests that verify concurrently, two orders of
reset and end, a window that slides. Correct when: remembered failures and
attempts in flight never exceed the limit, and no key is remembered for ever.

**Web session authentication** (`.../httpapi/auth.go`). State: sessions and
credentials, in memory and in two files. Operations: login, logout, revoke,
account change, recovery, expiry. Hard: login hashes the password outside the
lock while a password change ends all sessions; two files written in turn with
rollbacks. Correct when: memory and disk agree after every failure, an ended
session stays ended, an account change that is taken back signs nobody out, and no
old session meets a new password at the next start.

**Installer** (`rootguard-core/internal/installer/manager.go`) and **backup and
restore** (`.../backuprestore`, `.../backupexport`). State: the deployment's
state and steps, persisted; three directories of Core, copied before a restore
and cleared and filled again. Operations: start, restore with its preflight, the
worker's steps, cleanup, restart. Hard: the containers are looked at before the
lock is taken, the handler puts directories back after the worker has given the
state free and removed the containers, errors of persisting, and every Docker
command passes a filter. Correct when: only attested images start, a failed
restore leaves Core's directories as they were and readable for who has to read
them, a deployment ends, and what an installation needs is forwarded.

**Unbound configuration** (`rootguard-core/internal/unbound`). State: three
configuration files, the running resolver's generation, the diagnostic logging
timer. Operations: apply of settings, expert directives, restored
versions and bundles; history; start, stop and expiry of diagnostic logging.
Hard: three files and a restart are separate steps; a timer races with apply and
stop. Correct when: files and resolver belong together between applies, an apply
changes what it was asked for or nothing, what it replaced can be restored.

**Unbound import** (`rootguard-core/internal/unbound/import.go`): reads a
configuration from elsewhere into guided settings and expert directives, in
several passes that mark lines as taken, on top of settings that may lack what a
line speaks of. Correct when: nothing is lost without being reported, and what one
RootGuard renders another one takes over.

**AdGuard manager** (`rootguard-core/internal/adguard/manager.go`). State:
AdGuard's own configuration, credentials and their temporary file, the block
page's token. Operations: bootstrap with upstream configuration, protection and
filtering. Hard: the worker and requests bootstrap at once without a lock; a
configuration may be applied although its answer was lost. Correct when: a
configured AdGuard can be logged in to, and nginx presents the published token.

**Docker proxy** (`rootguard-docker-proxy`): an allowlist with body validators,
no state. Correct when: what Core, compose and the docker CLI send is forwarded.

**Durable file writes** (`rootguard-core/internal/atomicfile`): write all
temporary files, rename in turn, sync the directories; an error after a rename
leaves it renamed.

**Release resolution** and **attestation gate** (`.../updater/github_release.go`,
`.../stack/attestation.go`, `rootguard-updater/{image,attestation}.go`): which
image is the target, and whether it may run.

**Without state of their own**: router import, Unbound advice, stack status and
metrics, most HTTP handlers.
**Other**: frontend, block page, image builds, install and release scripts.

### Hazards

`PROJECT.json` lists each at the line where it bites with the properties that
would catch it. A hazard without a property has a note: most of these happen in
the model, the code does not undo what they leave, and the properties have to
except them (see "What the properties except"). The ones that shaped
the models are the guard that five operations share, the two files that are renamed in turn, the kill between
"compose up" and verification, compose runs that exit 0 without recreating a
container, the two managers that replace each other, the gap in which a password
is hashed, the restore whose two halves know little of each other, the three
files of one configuration, and the timer nobody stops.

## 2. Plan

Modules in the order of their importance:

1. `ImageRetention`, `ServiceMaintenance`, `UpdateManager`, `UpdateManagerProofs`,
   `UpdateRecoveryProofs`: done.
2. `ControlPlaneUpdater`, `ControlPlaneUpdaterProofs`, and `ControlPlane`, which composes it with Core's
   handlers and with `ServiceMaintenance` in the place of Core's manager, with
   `ControlPlaneProofs`: done.
3. `AttemptLimiter`, `AttemptLimiterProofs`: done.
4. `SessionAuth`, `SessionAuthProofs`: done.
5. `AdGuardManager`, `DockerProxy`, and `Installer`, which composes them with the
   directories of `backuprestore`, `InstallerProofs`: done.
6. `UnboundImport` and `UnboundConfig` with diagnostic logging, `UnboundConfigProofs`: done.
7. Left: `AtomicFile` (implementing the outcomes that `UpdateManager.Persist` and
   `SessionAuth.PersistSessions` assume), the Docker proxy's rules for updates, the
   installer as the outside deployment of `ServiceMaintenance`.

Runs: one per component for safety and liveness together where one bound serves
both; a run with a counterexample for four of the places where a comment or a
document says otherwise than the code (section 4 lists the others).
Of the safety properties that a passing run checks only
`ExportReadBack` of `UnboundConfig` has no theorem yet.

## 3. The modules

Every module marks its deliberate wrong variants as `<definition>_<difference>`;
they are used by no specification and show, one per property, that the property
notices such a mistake.

### ImageRetention

The rule by which both managers choose images to delete: per service, the image
IDs of successful updates in the order first seen, without the last two and
without those recorded as removed. `FirstSeen`, `SeenLater` and `Candidates`
are the loops of `cleanupPreviewLocked`.

### UpdateManager

A step is a Docker command (or file operation) with the critical section next to
it. A caller is an HTTP request together with the goroutine it starts.

| State | Code |
| --- | --- |
| `state`, `reserved`, `selected`, `history`, `cached`, `persistError` | fields of `Manager` and its `status` |
| `retention`, `backupError` | `backupRetention`, `backupError` |
| `disk`, `override`, `savedRetention`, `backups` | `state.json`, `updates.yaml`, `backup-settings.json`, restore points |
| `running`, `owner`, `data`, `local` | Docker: each container's image, volume owner, volume contents, image store |
| `pc`, `job` | the callers and their goroutine's local variables |

| Actions | Code |
| --- | --- |
| `StartUpdate`, `StartCheck`, `RunManualCleanup`, `RunExclusive`, `ReserveForControlPlane`, `Release` | the operations of the same names |
| `Inspect` to `Verify` | `update()` in its order |
| `RestoreOwnership` to `VerifyRollback` | `rollback()` in its order |
| `RecordHistory` to `Finish` | the nine exits of `update()` |
| `CheckService`, `CheckDone`, `Sweep`, `CleanupDone` | `check()`, `executeCleanup` |
| `StatusSynced`, `SetBackupRetention` | the operations of the same names |
| `RecreateElsewhere` | the installer or an operator's own compose run (outside the Manager) |
| `Restart` | a kill at any point, then `NewManager` |

The owner of a volume is a pair: the user of its top directory, and whether
everything below has the same. `Migrate` looks at the first only, as
`migrateVolumeOwnership` does with `stat`; a `chown` that fails may have changed
part of what is below and, being the last thing it does, the top or not
(`AfterFailedChown`).

`Persist` has four outcomes (nothing renamed, first file renamed, both renamed
but unsynced, success): what `atomicfile.WriteFiles` over two files can leave.
Images stand for references and IDs, since references are qualified by digest
before use. Messages, timestamps and per-service error strings are left out.

### ServiceMaintenance

The abstract promise: one holder at a time, a holder replaces only the container
of its own target, and only by an image that was vetted or that somebody else
deployed. `UpdateManager` implements it (`ImplementsMaintenance`, checked and
proved) with `holders` the callers past the guard and `target` the service of an
update.

### ControlPlaneUpdater

| State | Code (`rootguard-updater/manager.go`) |
| --- | --- |
| `state`, `history`, `known` / `disk` / `override` | `status` / `status.json` / `control-plane-images.yaml` |
| `running`, `local` | containers and images of each member |
| `pc`, `job` | the goroutine and its local variables |

`Inspect`, `Pull`, `Attest` are run for each member in order, then `Compare`,
`Override`, `ComposeUp`, `Verify`, the rollback, and the record. `Expire` is the
update's 20 minute deadline: after it no Docker command starts, the rollback's
included. `Reload` is the end of the process and `newManager`. A failed or
stopped compose run may have replaced either member. An error of persisting is
dropped, as in the code. `job.blind` records that a version could not be read.

### ControlPlane

Adds Core's handlers (`hpc`), the request between client and Updater (`wire`)
and Core's self-update manager, an instance of `ServiceMaintenance` whose callers
are the handlers. A handler that starts a control-plane update reserves the
manager, sends the request, and gives the reservation back when the call
returns, whether with an answer or after a timeout, when the request may still
arrive. A handler that starts a self-update asks the Updater first and acts
later. `CoreEnds` and `SelfSwap` are the two ways one process ends the other.
Recreation of Core or WebApp by somebody else is not modelled here.

### AttemptLimiter

One key of the limiter and the requests that use it. Outcomes are a constant:
wrong credentials count, rejected ones are released, right ones reset the key;
destructive actions always count; restore uploads never do. Failures are kept as
ages, so time needs no bound. `login` ends its attempt before it resets the key,
account change and recovery afterwards; both orders are modelled.

### SessionAuth

| State | Code (`rootguard-webapp/backend/internal/httpapi/auth.go`) |
| --- | --- |
| `sessions`, `account` / `sessionsFile`, `accountFile` | the fields of `SessionAuth` / `sessions.json`, `credentials.json` |
| `lock`, `pc`, `req` | the mutex between two writes, each request's progress and local variables |
| `expired`, `stale` | sessions whose time is over, files a failed write left unlike memory |
| `granted`, `ended`, `told`, `retired`, `reset`, `origin` | what clients were given and told, kept for the properties |

A request that verifies a password has a start (the copy under the mutex) and a
commit (`Login`, `SaveAccount`, `WipeSessions`); the hash lies between them, and
anything may happen there. The two writes of `handleAccount` and `handleRecovery`
are steps of their own, because the process may die between them, but hold the
mutex. `PersistSessions` and `PersistAccount` have the three outcomes of
`writeAtomicFile`. `Restart` reads both files and drops expired sessions.

`Logout` has the two branches of `handleLogout`: a session it finds is removed from
memory before the file is written, and stays removed when the write fails; one it
does not find is answered with a success and nothing is written. `ended` has the
sessions removed by the request that confirmed it, `told` those whose holder was
answered so without a removal. `granted` loses a session only when the request
that ends it succeeds, or takes effect in memory in spite of its error as a logout
and a revocation do; `reset.found` are the sessions the last recovery has wiped.

### AdGuardManager

Bootstrap as it is run by the deployment's worker and by requests at once:
`StageCredentials`, `Configure`, `ActivateCredentials` (through one temporary
file with a fixed name), `WaitUntilReady`, the upstream, the filtering, the token,
the confirming status, and the `Reload` its callers owe. A configure request
whose answer is lost may have been applied, may be applied later (`late`), or
never. A ghost, `raced`, records that two writers met in the temporary file, which
a failing write may also have emptied. `PublishToken` may return an error after its
rename; `pageBroken` records that the token was replaced under nginx and nobody owes
a reload any more.

### DockerProxy

The allowlist as pairs of verb and kind, the validators as predicates on what
they read of a body, and the Docker commands of an installation as the sets of
requests that the docker CLI and compose send for them. The requests are modelled
from how the code runs these commands; they are marked as external.

### Installer

| State | Code |
| --- | --- |
| `state`, `stateFile` | the installation's status and `status.json` |
| `job` | the goroutine of `deploy` or `restoreDeploy` |
| `compose`, `registry`, `local` | the reference in `compose.yaml`; what the tag names there and here |
| `docker`, `resources` | the stack's containers; its volumes and network |
| `conf`, `readable` | Unbound's directory: what it holds, and whether Unbound may read it |
| `stored`, `staged`, `tokenServed` | AdGuard's directory, and whether nginx holds the token in the block page's |
| `restore` | the handler of `backuprestore/manager.go`, with its copies |

`Pull`, `PinDigests`, `CreateStopped`, the three restore steps,
`VerifyAttestation`, `ComposeUp`, `ConnectAndWait`, `RunBootstrap` and `Finish`
are the worker in its order, `Fail` with `CleanUp` its error path, and
`UndoUnboundDirectory`, `UndoAdGuardDirectory` and `NormalizeOwnership` the
handler's own rollback, which runs after the worker has set the state to failed.
The directory with the block page's service token is replaced and put back with
AdGuard's (`ReplaceToken`): an nginx that runs then may hold another token, and
nobody reloads it. What `replaceDirectory` copies belongs to root alone until a
helper container has given it to Unbound, whose image both callers of
`normalizeUnboundOwnership` ask the container for. A command the proxy refuses
fails. A write of `status.json` that fails may have replaced it (`NotPersisted`).
`mess` names what a restore does not undo, one name per cause.

### UnboundImport

Settings, what is accepted, `Render`, and `ImportUnboundConf` as operators:
forwarding zones with their exceptions, private domains, groups of local hosts,
reverse zones, profile, network mode, what is refused and what goes to the expert
file. A directive is a record; syntax, canonical spelling and limits are left out.
`IsSettings` and `IsText` say which settings and parsed files there are: finitely
many zones, hosts and addresses, policies for any of the private networks (also
none, as `validateReverseZones` accepts), and directives that have what their key
needs. `ReverseZonePolicies` takes the lines of every network a file states
completely; `ImportUnboundConf` sets the policies the settings have and no others.

### UnboundConfig

| State | Code (`rootguard-core/internal/unbound`) |
| --- | --- |
| `files` | `50-rootguard.conf`, `settings.json`, `90-rootguard-custom.conf` |
| `history` | the snapshots of `lifecycle.go` |
| `request` | each request: waiting for the mutex or in `applyStateLocked` |
| `running`, `verbosity` | the container's configuration, and the level set in the process |
| `timers`, `logging` | the timer of `diagnostic_logging.go`, one that was replaced without being stopped, each caller |

`Begin` to `RestartBack` is `applyStateLocked` with `rollbackFailedApply`. A write
renames and then syncs: one that fails may have replaced its file. `Raise` and
`SetTimer`, `Lower` and `Ended` are the calls and the mutex that follows them.
`RestartByOthers` is an update of the container, the stack's controls or Docker.
`torn` and `unattended` record the cases the code does not undo.

## 4. The runs

| Run | Bounds | Shows |
| --- | --- | --- |
| `updater_safety` | 1 service, 4 images (one unsigned), 2 callers, 2 operations, 1 fault, 1 crash | the lock, the files, restore points, rollback and cleanup; the Manager becomes available again; implements `ServiceMaintenance` |
| `updater_foreign` | 2 services (one without policy), 2 images (one attested), a compose that may lie, 1 outside recreation, 1 fault | a recorded success is real |
| `updater_pair` | 2 members, 4 images (one unsigned development build), 2 operations, 3 faults, deadlines or crashes, a compose that may lie | verdicts true of both members, only attested releases, no downgrade |
| `control_plane_handlers` | 2 handlers, 2 images, 1 operation, 1 self-update of either helper, 1 fault, deadline or crash | reservations protect their request, interruption is reported, both become available again |
| `control_plane_deadline` | 1 operation, 1 deadline | counterexample: an unhealthy pair without its rollback |
| `attempt_limiter` | 4 concurrent requests, 7 in all, limit 3, window 3 | the limit, the exact window, no leak |
| `web_sessions` | 2 concurrent requests, 2 tokens, 2 names, 1 new password, 2 failing writes, 1 restart | memory and files agree, ended sessions stay ended, a reset never meets an old session on disk, sessions go only for the reasons named |
| `web_logout` | the same, 1 failing write, 1 restart | counterexample: a confirmed logout undone by a restart |
| `web_reset` | the same, without failures | counterexample: a session of the replaced password |
| `installation` | 2 deployments or restores, 1 bootstrap request beside them, 2 images (one attested), 1 move of the tag, 2 failing calls, 1 restart, 2 generated passwords | only attested images start, the contents after a restore are all or nothing, AdGuard stays reachable, nginx gets the token, the worker ends, the proxy forwards what is needed |
| `restore_readable` | the same | counterexample: files put back that Unbound may not read |
| `unbound` | 2 requests at once, 3 calls in all (to apply settings, expert directives, a version of the history or one of 4 files, or to switch diagnostic logging), settings with policies for all or one of the private networks, history of 2, any 2 failing calls, restarts by others or crashes | files and resolver agree, an apply is all or nothing, the previous version can be restored, nothing of an imported file is lost, an export is taken over by any settings, diagnostic logging ends |

Why these are enough. Two callers are what a guard has to keep apart; a third
adds no new pair. Two operations let the second meet everything the first can
leave behind (a selection, an unverified container, a history entry, a restore
point), and the retention bound of two makes the second prune. Four images give
cleanup something to delete (three are needed) and one that must never run. One
fault anywhere reaches every error path; `updater_pair` allows three because a
failing update, its failing rollback and a failing write of the record are
already three; two failures in the other runs are a failing call and a failing
undo of it. In `web_sessions` two tokens are the caller's session and another
one, and the restart may come between any two writes. In `installation` the
second start meets everything a failed first one has left, and the tag may move
between pull, pin and create. In `unbound` the third call is an apply after two
that may have failed, and with a history of two (20 in the code) already the
second apply has to prune. The files it imports are one whose
every line becomes a guided setting and that says some of it twice, one that
becomes expert directives as far as it may, and what `Render` gives for the
default settings and for settings with a policy for one network; since a call may
come before it, each meets settings other than its own, also without a policy for
a network it states. Restore points, history
and failures are bounded below what the runs produce, so the bounds are really
reached.

Type invariants are stated in every module. Runs check those of `UpdateManager`
and `AttemptLimiter`; those of `ControlPlaneUpdater` and `Installer` are proved;
those of the others only document the shape of their state.

`web_sessions` counts states as one that differ only in `retired`, `told` and the
password that opened a session (`SafetyView`): no guard and no property of that run
reads them, and `web_reset` and `web_logout`, which do, use no view.

Deadlock checking is off where every bound can be spent with nobody at work: the
system is then idle, not stuck. Symmetry is used only for callers, and in no run
with a liveness property.

### What the properties except

Some cases the model has are excepted by a property because the code does nothing
about them; a property that does not except them is not true. They are named by
ghosts or by operators, and each has its place among the hazards of `PROJECT.json`.

| Name | Cases | Excepted by |
| --- | --- | --- |
| `mess` | a deployment between the preflight and the lock (`unclean`); a create that fails half way (`partialCreate`); a cleanup, a rollback or a last status write that fails (`cleanup`, `rollback`, `finalStatus`); a crash (`crash`); resources left (`leftover`, excepted by none but `CredentialsRecoverable` and `UndisturbedInstalls`) | `RestoreAllOrNothing`, `InstalledIsManaged`, `CredentialsRecoverable` |
| `raced` | two bootstraps in the temporary file; a deployment begun while a restore is undone | `InstalledIsManaged`, `CredentialsRecoverable` |
| `stuck` | a restore whose first status write fails | `DeployEnds` |
| `pageBroken` | a bootstrap cut off between the token and the reload; a restore that replaced or put back the token's directory while nginx may run | `PageTokenCurrent` |
| `torn` | a write that reports an error after its rename, a rollback that fails, a crash, a refused check after a restart by others | `AppliedTogether`, `ApplyAllOrNothing`, `PreviousRestorable` |
| `Unplaced` | the reverse lines of a private network for which the settings have no policy | `ImportLosesNothing` |
| `unattended` | diagnostic logging across a restart of Core, an unanswered start, or crossing an end | `DiagnosticLoggingEnds` |
| `stale` | a session or account file whose write failed after memory could not be taken back, or was not synced | `DiskAgrees` |
| `reset.found` | the sessions a recovery has wiped, also one whose password could not be written then | `GrantedLives` |
| `told` | a logout that found no session in memory, though the file may have it | `EndedStaysEnded` (not by `LoggedOutStaysOut`) |
| `spoiled` | somebody else redeployed the service during its update; an update that aborted with a migration it could not take back | `SuccessIsReal`, `FailureRestores`, `SnapshotKept` |
| `OwnerTaken` | a volume whose top directory already has the target's owner, and the rest may not: the migration is skipped | `SuccessIsReal` |

### Where the code and what is said of it differ

| Run | Said | What the code does |
| --- | --- | --- |
| `control_plane_deadline` | `rootguard-updater/README.md:65`: both previous images are restored | the deadline that ends the verification also prevents the rollback's compose run |
| `web_reset` | `docs/disaster-recovery.md:105`: a reset invalidates every existing session | a login that copied the account before the reset inserts its session after it; a rename without a new password writes the copied one back |
| `web_logout` | `auth.go:643`: a revocation that is not durable is surfaced rather than reported as a success | a logout whose write fails has removed the session from memory; sent again it finds none, writes nothing and answers 200, and the next start reads the session from the file |
| `restore_readable` | `backuprestore/manager.go:153` and its test: what a failed restore puts back is given to Unbound again | the worker's cleanup has removed Unbound's container before, the image cannot be asked for, and the error is dropped |

Met while modelling, and visible in the models without a run of their own:

- `docs/image-retention-policy.md:91` says that the active and the previous
  successful image are retained. Retention keeps the two images *first seen* last
  (`cleanup.go:143`): after A, B, A again and C it deletes A, which was the
  previous one. `CleanupSparesPrevious` therefore speaks of services that only
  move forward.
- `docs/project-state.md:118` says that Core migrates the ownership of the resolver
  state before it replaces the image. When a rollback's `chown` back has stopped
  part-way, and left the top directory to the target, the next update looks at the
  top alone (`manager.go:646`), skips the migration and is a success on a volume in
  two parts (`OwnerTaken`).
- `docs/backup-export.md:52` says that a failed restore removes the Docker resources
  it created. Its cleanup passes the Docker proxy, which has no rule to delete a
  network and refuses the stack's volumes (`validate.go:863`); the error is
  dropped, and the next restore is refused because of what stayed (`leftover`).
- `adguard/manager.go:296` says that nginx is reloaded right after the token was
  replaced, so that there is no window with a stale one. `Bootstrap` ends with a
  status request, and when that fails both callers return before the reload
  (`pageBroken`).
- `docs-site/docs/webgui/unbound.en.md:51` says that an import drops nothing
  silently. The lines of a private network the settings have no policy for are
  reported as applied (`import.go:681`), and no policy is there to change (`:225`;
  `Unplaced`). `validateReverseZones` accepts any subset of the networks.
- A restore whose last status write fails leaves the stack installed and running,
  and its handler puts the old directories back under it (`mess`:
  `finalStatus`). A `compose create` that fails half way is not cleaned up,
  because the flag that asks for it is set afterwards (`partialCreate`). A
  restore whose first status write fails leaves the state deploying until
  the next restart (`stuck`).
- A restore replaces the directory of the block page's token, and its failure
  puts the old token back, without a reload; that matters only where an nginx
  runs that the preflight or the cleanup did not see (`pageBroken`).
- A configuration file whose rename cannot be synced is reported as not written
  but is there: `settings.go:843` puts nothing back, `:846` and `:850` put back
  the files before it (`torn`). So does a refused check after somebody else
  restarted the container on the new files.
- Diagnostic logging stays on after a restart of Core, after a start whose answer
  was lost, and when a start crosses an apply or a stop (`unattended`), although
  the frontend's `en.ts:698` says that it is always ended; a retry replaces a
  timer without stopping it.
- The self-update's pre-check (`api/routes.go:217`) is read before and used
  after the other request's reservation, although `updater/manager.go:965` calls
  it the longer window's cover: Core and Updater may replace each other.
- `rollback()` of Core's update manager does not compare the container's image, so
  that a compose run that exits 0 without recreating it counts as rolled back;
  and after a kill between compose and verification the image to return to is one
  nobody verified. `FailureRestores` is therefore checked with a compose that
  tells the truth, and says that the image found by the update comes back, not
  that it is a good one; `SuccessIsReal`, with a compose that may lie, speaks of
  successes.
- Import: a private domain that the file makes the exception of a forwarding zone
  leaves settings that are refused, although the comment of `mergePrivateDomains`
  excludes that; without an exception of its own it comes back as one. A
  `domain-insecure` without a clean zone is offered as an expert directive, which
  `custom.go` refuses. Expert server directives are adopted without a `server:`
  header, so that after a guided forwarding zone they stand in the wrong clause
  and are refused by unbound-checkconf. A clean and an unclean clause for
  forwarding in one file exclude each other, and of two clauses for one name the
  first is lost. These are refusals of an apply, except the last.

## 5. Fairness

Weak fairness of a caller's own work, once it has entered: every Docker command
and remote request in the code runs under a deadline, and the goroutine then
goes on. In `ControlPlane` also of the handlers, whose client has a timeout of 20
seconds; a handler waiting for an answer returns with or without it. In
`Installer` of the worker: each of its calls has a timeout and its whole run one
of ten minutes. In `UnboundConfig` of diagnostic logging's callers, whose calls
have timeouts, and of its timer. In
`AttemptLimiter` also of the sweep, which is driven by a ticker, and of time.
Nothing makes a request arrive, a fault happen or a process restart.

## 6. What is proved

`UpdateManagerProofs` proves, for all services, images, callers and bounds that
satisfy `ConstantsAssumption`:

| Theorem | Statement |
| --- | --- |
| `TypeCorrectness` | `Spec => []TypeOK` |
| `MutualExclusion` | `Spec => []ExclusiveOperation` |
| `TrustedImages` | `Spec => []TrustedImagesRun` |
| `Refinement` | `Spec => Maintenance!Spec` |

The argument. `Typed` strengthens `TypeOK` by what a program counter says of its
job (an update has a service; from the pull on it has a candidate). The inductive
invariant `Inv` adds `ExclusiveOperation` and `JobTrust`: from the attestation
gate to "compose up" the candidate is attested, the image to return to is one
that was trusted when the update found it, and when compose starts `updates.yaml`
names the one or the other. `TrustedImagesRun` alone is not inductive, because a
compose step starts whatever the selection names: `JobTrust` carries the trust
from the step that establishes it to the step that uses it. Each action has its
own lemma, with one step per conjunct it can disturb. The refinement then maps
each step to the step of `ServiceMaintenance` it is (entering, replacing,
finishing, crashing, an outside deployment) or to a stutter.

`UpdateRecoveryProofs` goes on from there, with the same assumption, to what an
update can be undone by:

| Theorem | Statement |
| --- | --- |
| `Durability` | `Spec => []DurableUnlessFlagged` |
| `SelectionSeen` | `Spec => []ComposeSeesSelection` |
| `SnapshotOutlives` | `Spec => []SnapshotKept` |
| `SuccessesAreReal` | `Spec => []SuccessIsReal` |
| `FailuresRestore` | `~QuirkyCompose => (Spec => []FailureRestores)`, stated with ASSUME |
| `InterruptionSeen` | `Spec => InterruptionReported` |
| `PreviousStays` | `Spec => CleanupSparesPrevious` |
| `PrunedInTime` | `Spec => RetentionBeforeTerminal` |

`Recoverable` is `Inv` with `Doing(p)` for every caller, which says stage by stage
how far the update of `p` is: `Point` (its restore point is the newest of the
service and holds the data it found), `Saved` (`state.json` names what compose is
about to start), `Forward` (what is still as it was found, and what belongs to the
candidate already), `Backward` (what the rollback has put back) and `Judged` (what
a verdict says of the containers). Somebody else's deployment in the middle
(`spoiled`) takes the foundation from the last three only. The restore point
survives retention because it is the newest (`Past`: none is from the future) and
at least one is always kept (`MinRetention` is positive); that is the one argument
about cardinalities. `FailuresRestore` needs a compose that recreates a container
when it says so, because the rollback does not compare the container with the old
image; `SuccessesAreReal` does not, because the verification of the update does.
The volume's owner is part of both: a success has all of it with the target, unless
the update found the top directory so (`OwnerTaken`), and a failure gives it back
the owner it had (`OwnerRestored`).
`Durability` needs none of this: every step that changes the status is one of
`Persist`'s four outcomes.

The last three are about steps. `InterruptionSeen` needs `DurableUnlessFlagged`,
since a restart sees only the file. `PreviousStays` is about the retention rule
itself: of a service that went forward the only image first seen after the one it
ran before is the one its newest success installed, so fewer than `KeptImages`
images are newer and the previous one is no candidate (`PreviousSpared`). The loops
of the rule are CHOOSEs of a largest or smallest index; that these exist is
`Smallest`, by well-foundedness. `PrunedInTime` adds `Retained` to `Recoverable`: an
update with a verdict is on its way to the pruning or past it (`Timely`), and past
it every service has no more restore points than `retention` says or `backupError`
is set, which no step in between disturbs because nobody else works. That pruning
leaves so few (`NewestCount`) maps each restore point that is kept to the number of
those after it, one to one because no two of a service have the same time; so a new
restore point must be later than all others, `b.at < used.ops` before the copy.

`AttemptLimiterProofs` proves, for any number of requests, window and limit
(`LimiterAssumption`):

| Theorem | Statement |
| --- | --- |
| `SlotsAccounted` | `Spec => []TypeOK` |
| `LimitHolds` | `Spec => []WithinLimit` |
| `WindowHolds` | `Spec => []WindowExact` |

The limit is inductive only together with the account of the slots: a failure
that `endAttempt` adds has to be paid for by a slot it frees, so `inFlight` must
be the number of holders and a holder must exist.

The window is inductive only together with the order of the failures (`Ordered`):
`pruneLocked` drops a prefix, which are the expired ones only where the oldest come
first. Ordered failures have a place up to which all are expired and after which
none is (`OrderedCut`); pruning keeps what comes after it by definition
(`CutPruned`), and so does taking the young ones one by one (`CutYoung`), the
induction of the proof, done by the least index at which the two would differ.
Time then moves that place forward (`PrunedOlder`). `Young` is a recursive function
of the module because the prover does not expand the library's `SelectSeq`.

`SessionAuthProofs` proves, for any clients, tokens, passwords and bounds:

| Theorem | Statement |
| --- | --- |
| `FilesAgree` | `Spec => []DiskAgrees` |
| `EndIsFinal` | `Spec => []EndedStaysEnded` |
| `WipedBeforeReset` | `Spec => []ResetAfterWipe` |
| `GrantedUntilEnded` | `Spec => []GrantedLives` |

`EndIsFinal` is about the request that removed a session; a logout that finds none
in memory has confirmed nothing of the file, and `web_logout` shows what becomes of
it. `GrantedUntilEnded` excepts the sessions a recovery has wiped (`reset.found`),
also one that fails at the password afterwards.

Here the properties are nearly inductive together and none is alone: a restart
reads the sessions from the file, so that an ended session stays ended and a
granted one lives only because `DiskAgrees` held before it. `Known` adds that every
token anywhere was drawn (a new one is in no file, was never ended and is in no
recovery's list) and that a recovery's list is gone from memory and file, which
is `ResetAfterWipe` without its premise. Lemmas on `Without`, `With` and `Live` say
what the operators on stores do to their domains and that agreeing stores go on
agreeing when more sessions expire; `PersistSessions` and `PersistAccount` have
lemmas of their own for the three outcomes of a write, and every handler's
commit, with what it takes back on an error, is built from them.

`ControlPlaneUpdaterProofs` proves, for any members in any order, any images and
bounds (`ConstantsAssumption`, which asks for at least one member):

| Theorem | Statement |
| --- | --- |
| `TypeCorrectness` | `Spec => []TypeOK` |
| `TrustedImagesRun` | `Spec => []TrustedPair` |
| `VerdictsAreTrue` | `Spec => []PairVerdict` |
| `NeverDowngrades` | `Spec => NoDowngrade` |

The members are resolved one after the other, and compose starts all of them at
once from the override file. `JobTrust` therefore says of every member the loop is
done with that its image was found running and its candidate vetted (attested,
and not older unless a version could not be read); after the last member this
holds of the pair, from there to "compose up" the running containers are still
those that were found, and while compose runs the file names the candidates, or in
the rollback the old images, which were trusted when they were found. A compose
that stops half way mixes two trusted pairs (`BetweenTrusted`). Without the order
of the loop in the invariant nothing is known of a member whose turn is over, and
without `override = job.cand` nothing of what compose starts. That no step
replaces a release by an older one follows from the invariant for `ComposeUp`, the
one step outside the rollback that starts containers.

`ControlPlaneProofs` proves, for any handlers, members, images and bounds:

| Theorem | Statement |
| --- | --- |
| `RequestsComplete` | `CompositionSpec => RequestNotCutOff` |
| `PairTogether` | `CompositionSpec => [](TrustedPair /\ PairVerdict)` |
| `NoSilentInterruption` | `CompositionSpec => InterruptionReported` |

Every step of the composition is a step of the updater, its `Reload`, a fault
elsewhere, or none to the updater, so that the updater's invariant carries over
although Core may end it at any step. `Holding` says of Core's self-update manager
that it has one holder and that a reservation names no service: a handler that
waits for the updater's answer is that holder, and only a holder with a service
replaces a container.

`InstallerProofs` proves, for any images, tags and bounds (`InstallerAssumption`):

| Theorem | Statement |
| --- | --- |
| `OnlyAttestedStarts` | `Spec => []StartedAttested` |
| `TypeCorrectness` | `Spec => []TypeOK` |
| `InstallationInvariance` | `Spec => []IInv` |
| `CredentialsStayRecoverable` | `Spec => []CredentialsRecoverable` |
| `InstalledStaysManaged` | `Spec => []InstalledIsManaged` |
| `RestoreWholeOrNot` | `Spec => RestoreAllOrNothing` |
| `TokenStaysCurrent` | `Spec => []PageTokenCurrent` |

The gate attests the image the worker holds, compose starts the one in
`compose.yaml`, and the tag may move in between. `Gated` therefore says that from
the pin on the two are the same, and that the worker is past the gate with an
attested one only. Only the worker writes `compose.yaml` while there is one.

The next three theorems follow from one invariant, `IInv`, that is `Types` with
`Kept`. None of its parts is inductive alone:

- `Phases` says which step belongs to which kind of job and that a restore beyond
  its lock is the job; `NothingYet` that before the first containers there is
  neither a password nor anybody near one, which is what a restore's preflight
  establishes when it finds no resources;
- `RestoreUnderWay` says for each phase of a restore which of the directories and
  volumes hold the archive already, and `UndoUnderWay` what is left to put back;
- `OneStaged` says that at most one caller has a password in the temporary file and
  where AdGuard's own password is at each stage of it, `LateIsStaged` that a late
  answer of AdGuard can only set that one, `StoredOpens` that the password in the
  final file opens AdGuard; together they give `Recoverable`, which is
  `CredentialsRecoverable`;
- `DeployerHolds` carries the password from the worker's bootstrap to the step that
  writes "installed", and `StaysManaged` says of state and state file alike what
  `InstalledIsManaged` says of the state, or a restart would lose it.

`mess` and `raced` name what the code does not undo; every part holds as long as
they do not say otherwise. `RestoreWholeOrNot` is about the steps that end a restore
and reads its cases off the same invariant. `TokenOwed` is apart from it: somebody
who is past publishing still has the reload to do, or nginx has the token, or one of the
two exceptions of `PageTokenCurrent` has happened. `RestoreWholeOrNot` speaks of what
the directories hold; who may read them is the question of `restore_readable`.

`UnboundConfigProofs` proves, for any requests, settings and bounds:

| Theorem | Statement |
| --- | --- |
| `FilesBelongTogether` | `Spec => []AppliedTogether` |
| `ApplyWholeOrNot` | `Spec => ApplyAllOrNothing` |
| `ReplacedIsKept` | `Spec => PreviousRestorable` |
| `NothingLost` | `Spec => ImportLosesNothing` |

`Progress(r)` says at every stage of an apply which of the three files are already
the wanted ones, that those it keeps to put back are good ones, and at "ready" that
the container runs what is there. `OneApply` is the mutex; `AtRest` is the property
also for a container that is down, so that a restart by others runs files that
belong together; `torn` excludes what the code does not undo. `Memory` adds what an
apply in progress knows of the past: its old files are the newest snapshot, what
it wants differs from them only in the half it was asked for, and from the check on
the expert file is the wanted one. `EndsWell` says of every step what an apply
that ends with it has done.

`NothingLost` is about what an import computes, for any settings, with policies for
any of the private networks, and any file; the lines without a place (`Unplaced`)
are its one exception. Its
invariant `Writable` says that all settings there are, in the files, in the history
and in requests, are finite and that a waiting import carries a parsed file; it
rests on the assumptions that those of the panel, the files somebody may choose and
the table of reverse zones (`ImportAssumption`) are so too, as everything that has
been parsed from a request is. Under it the lemmas say what the operators return:

- `Listed`, `Flattened` and `Picking`: a finite set as a sequence has its members,
  joined sequences have the elements of all, and picked places give their elements.
  The last two are about recursive functions; they are proved by exhibiting the
  function (`Iteration`) and by `UpTo`, which is induction in the form of a least
  counterexample, since the library's induction takes an operator.
- `Rendered`: the lines and clauses of `Render` are `ServerLines` and one clause for
  each forwarding zone; `RenderedText`: what is rendered can be imported again.
- `ImportedSettings`: an import leads to finite settings again.
- `LineKept`, with one lemma for each of the extractions that may take a line
  (`VerbosityKept`, `DomainKept`, `GroupKept`, `ReverseKept`) and `CustomLines` for
  those nobody takes; `ClauseKept` and `OtherZonesStay`.

A file may say twice what there is one of: the verbosity, a guided forwarding zone
or a group of local data. Then `mergeZonesByName` and the assignments keep the last,
the code reports both as taken over, and the property says so (`Overruled`,
`OverruledClause`): stated without it, the theorem has a counterexample, which
the first of the run's files contains.

Only model-checked: every liveness property (fairness and ENABLED are out of the
prover's reach), `ExportReadBack` (it needs the order in which rendered lines
follow each other, where `NothingLost` needs only which lines there are), and
`AdGuardManager` and `DockerProxy` apart from what `Installer` uses of them.

## 7. Not modelled, and why

- Signature verification, the archive format, YAML rendering, version parsing and
  the GitHub and Docker protocols are pure data or library code: the models take
  their outcomes.
- Router import, stack status, metrics and Unbound advice keep no state.
- The HTTP handlers decode, call one operation and encode. Those that do more
  (control plane, self-update, restore, bootstrap) are modelled with what they
  combine.
- Of AdGuard the switches for protection and filtering, the statistics and the
  filter report: single requests passed on.
- Of the installer the preflight's single checks, which become one guard, its
  progress messages, and installations older than the Docker proxy.
- Of the Docker proxy requests that nothing in the project sends, the fields of a
  body that Core never sets, and the commands of updates.
- Of the import the syntax of a file, `server` clauses after an adopted clause and
  the limits on its size.
- The clock is taken never to go back, which only the order of Unbound's history
  depends on. Torn writes of a single file are excluded by rename; loss of power,
  as opposed to the death of a process, is not modelled.
- The frontend, static content and shell scripts are not programs of this kind.
