--------------------------- MODULE UpdateManager ---------------------------
(***************************************************************************)
(* Core's container updater (rootguard-core/internal/updater, Manager).    *)
(*                                                                         *)
(* One Manager owns a set of Compose services.  HTTP handlers call it      *)
(* concurrently; every call first takes m.mu and is refused while          *)
(* busyLocked() holds, and an update or a check then runs in a goroutine   *)
(* that takes m.mu only for short sections between Docker commands.  Here  *)
(* every caller (with the goroutine it starts) is a member of Callers with *)
(* a program counter; a step is one such section together with the Docker  *)
(* command next to it.  The process may be killed between any two steps.   *)
(*                                                                         *)
(* Images stand for both image references and image IDs: a reference is    *)
(* digest-qualified before it is used, so each denotes one image.  Message *)
(* texts, timestamps and per-service error strings are left out.           *)
(***************************************************************************)
EXTENDS Naturals, Sequences, FiniteSets, ImageRetention

CONSTANTS
  Services,        \* the Manager's ServiceSpecs
  Images,          \* images a service may run
  Callers,         \* concurrent requests, each with the goroutine it starts
  FirstImage,      \* what every container runs when RootGuard was installed
  DefaultTarget,   \* ServiceSpec.TargetImage, the static pin
  Signed,          \* images whose provenance attestation verifies
  Unpoliced,       \* services without an attestation policy (AdGuard)
  Migrated,        \* services with OwnershipMigrations (Unbound)
  QuirkyCompose,   \* may "compose up" exit 0 without recreating the container?
  MaxHistory,      \* history entries kept (50 in the code)
  MinRetention, MaxRetention, DefaultRetention,  \* backup restore points
  MaxOps, MaxFaults, MaxCrashes, MaxForeign      \* bounds of the model

ASSUME ConstantsAssumption ==
  /\ FirstImage \in Images
  /\ NoImage \notin Images
  /\ DefaultTarget \in [Services -> Images]
  /\ Unpoliced \subseteq Services
  /\ QuirkyCompose \in BOOLEAN
  /\ MaxHistory \in Nat \ {0}
  /\ MinRetention \in Nat \ {0} /\ MaxRetention \in Nat
  /\ DefaultRetention \in MinRetention .. MaxRetention
  /\ MaxOps \in Nat /\ MaxFaults \in Nat /\ MaxCrashes \in Nat /\ MaxForeign \in Nat
  /\ "none" \notin Services /\ "cleanup" \notin Services

VARIABLES
  (* the Manager, in memory *)
  state,          \* status.State
  reserved,       \* reservedForControlPlane
  selected,       \* m.selected: the image each service is pinned to, if any
  history,        \* status.History, newest first
  cached,         \* status.Services: CurrentID and CandidateID
  persistError,   \* is status.PersistError set?
  retention,      \* backupRetention
  backupError,    \* is backupError set?
  (* its files *)
  disk,           \* state.json
  override,       \* updates.yaml, the override file docker compose reads
  savedRetention, \* backup-settings.json
  backups,        \* the restore points with a valid manifest, per service
  (* Docker *)
  running,        \* the image of each service's container, NoImage if absent
  owner,          \* who owns the service's persistent volume, top and rest
  data,           \* the image generation that last wrote the volume
  local,          \* images of each service present on the host
  (* the callers *)
  pc, job,
  (* observation *)
  deployed,       \* images the installer or the operator put on a service
  verified,       \* images that passed this Manager's own verification
  used            \* how much of each bound is spent

memory     == <<state, reserved, selected, history, cached, persistError,
                retention, backupError>>
files      == <<disk, override, savedRetention, backups>>
containers == <<running, owner, data, local>>
ghosts     == <<deployed, verified>>
vars       == <<memory, files, containers, pc, job, ghosts, used>>

-----------------------------------------------------------------------------
MaybeImage == Images \cup {NoImage}
State      == {"idle", "checking", "updating", "failed"}
Uid        == {"legacy", "target"}
\* The owner of a volume's top directory, and whether all below has it too.
Owner      == [top : Uid, whole : BOOLEAN]
Verdict    == {"none", "aborted", "no_change", "success", "rolled_back", "failed"}
Label      == {"idle", "inspect", "backup", "pull", "attest", "migrate", "select",
               "up", "verify", "rbOwner", "rbSelect", "rbUp", "rbData", "rbVerify",
               "record", "cleanup", "attach", "prune", "result", "end", "fail",
               "check", "sweep", "swept", "exclusive", "remote"}
Entry      == [service : Services \cup {"cleanup"},
               outcome : {"no_change", "success", "rolled_back", "failed", "cleanup"},
               from : MaybeImage, to : MaybeImage, removed : SUBSET (Services \X Images)]
Backup     == [at : Nat, data : Images]
Identity   == [cur : MaybeImage, cand : MaybeImage]
Base       == [image : MaybeImage, owner : Owner, data : Images]
Job        == [svc : Services \cup {"none"}, old : MaybeImage, cand : MaybeImage,
               changed : BOOLEAN, prev : Uid, at : Nat, verdict : Verdict,
               todo : SUBSET Services, removed : SUBSET (Services \X Images), ok : BOOLEAN,
               base : Base, spoiled : BOOLEAN]
Budget     == [ops : Nat, faults : Nat, crashes : Nat, foreign : Nat]
Snapshot   == [state : State, history : Seq(Entry),
               selected : [Services -> MaybeImage], cached : [Services -> Identity]]

StatusTypes ==
  /\ state \in State /\ reserved \in BOOLEAN /\ persistError \in BOOLEAN
  /\ selected \in [Services -> MaybeImage]
  /\ history \in Seq(Entry)
  /\ cached \in [Services -> Identity]
  /\ disk \in Snapshot
  /\ override \in [Services -> Images]

BackupTypes ==
  /\ retention \in MinRetention .. MaxRetention
  /\ savedRetention \in MinRetention .. MaxRetention
  /\ backupError \in BOOLEAN
  /\ backups \in [Services -> SUBSET Backup]

ContainerTypes ==
  /\ running \in [Services -> MaybeImage]
  /\ owner \in [Services -> Owner]
  /\ data \in [Services -> Images]
  /\ local \in [Services -> SUBSET Images]

CallerTypes ==
  /\ pc \in [Callers -> Label]
  /\ job \in [Callers -> Job]

GhostTypes ==
  /\ deployed \in [Services -> SUBSET Images]
  /\ verified \in [Services -> SUBSET Images]
  /\ used \in Budget

TypeOK == StatusTypes /\ BackupTypes /\ ContainerTypes /\ CallerTypes /\ GhostTypes

-----------------------------------------------------------------------------
(* Shared operators *)

\* Variants named <definition>_<difference> are plausible mistakes in the code
\* their definition models; a run shows that its properties reject them.
Busy_NoReservation == state \in {"checking", "updating"}

\* m.busyLocked
Busy == state \in {"checking", "updating"} \/ reserved

Whole(uid) == [top |-> uid, whole |-> TRUE]

NoBase == [image |-> NoImage, owner |-> Whole("legacy"), data |-> FirstImage]
NoJob  == [svc |-> "none", old |-> NoImage, cand |-> NoImage, changed |-> FALSE,
           prev |-> "legacy", at |-> 0, verdict |-> "none", todo |-> {},
           removed |-> {}, ok |-> TRUE, base |-> NoBase, spoiled |-> FALSE]

OverrideContent_NoFallback(sel) == [s \in Services |-> sel[s]]

\* overrideContentLocked: an unselected service falls back to its pin.
OverrideContent(sel) ==
  [s \in Services |-> IF sel[s] = NoImage THEN DefaultTarget[s] ELSE sel[s]]

\* atomicfile.WriteFiles over <<state.json, updates.yaml>>: nothing renamed,
\* state.json alone renamed, both renamed but the directory not synced (an
\* error all the same), or success.
WriteOutcome == {"ok", "none", "state", "unsynced"}
Cost(outcome) == IF outcome = "ok" THEN 0 ELSE 1

DiskAfter(outcome, before, snapshot) ==
  IF outcome = "none" THEN before ELSE snapshot
OverrideAfter(outcome, before, sel) ==
  IF outcome \in {"ok", "unsynced"} THEN OverrideContent(sel) ELSE before

\* The override is rendered before the selection is assigned.
Persist_StaleOverride(outcome) ==
  /\ disk' = DiskAfter(outcome, disk,
               [state |-> state', history |-> history', selected |-> selected',
                cached |-> cached'])
  /\ override' = OverrideAfter(outcome, override, selected)
  /\ persistError' = (outcome # "ok")

\* A failed write is not reported.
Persist_Silent(outcome) ==
  /\ disk' = DiskAfter(outcome, disk,
               [state |-> state', history |-> history', selected |-> selected',
                cached |-> cached'])
  /\ override' = OverrideAfter(outcome, override, selected')
  /\ persistError' = FALSE

\* m.persistLocked, after the other changes of the same critical section.
Persist(outcome) ==
  /\ disk' = DiskAfter(outcome, disk,
               [state |-> state', history |-> history', selected |-> selected',
                cached |-> cached'])
  /\ override' = OverrideAfter(outcome, override, selected')
  /\ persistError' = (outcome # "ok")

\* A step that goes wrong in n ways spends n of the bounded faults.
Spend(n) ==
  /\ used.faults + n <= MaxFaults
  /\ used' = [used EXCEPT !.faults = @ + n]

Goto(p, label) == pc' = [pc EXCEPT ![p] = label]
At(p, label)   == pc[p] = label
SetJob(p, new) == job' = [job EXCEPT ![p] = new]

\* What RequireAttestation lets through: a service without a policy always.
Attested(s, image) == s \in Unpoliced \/ image \in Signed

\* recordHistory: newest first, bounded.
Recorded(entry) ==
  LET longer == <<entry>> \o history
  IN  IF Len(longer) > MaxHistory THEN SubSeq(longer, 1, MaxHistory) ELSE longer

\* cleanupPreviewLocked skips an image a container uses ("ps -a --filter
\* ancestor"), and Docker itself would refuse to remove it.
Removable(s) ==
  {image \in Candidates(history, s) \cap local[s] : running[s] # image}

\* docker image rm of some of the candidates: a removal that fails is skipped.
RemoveImages(p, services) ==
  \E gone \in SUBSET {pair \in services \X Images : pair[2] \in Removable(pair[1])} :
    /\ local' = [s \in Services |-> {image \in local[s] : <<s, image>> \notin gone}]
    /\ SetJob(p, [job[p] EXCEPT !.removed = gone])

Newest_OldestKept(points, n) ==
  {b \in points : Cardinality({c \in points : c.at < b.at}) < n}
Newest_OneTooMany(points, n) ==
  {b \in points : Cardinality({c \in points : c.at > b.at}) <= n}

\* pruneBackupsLocked: the newest restore points of a service stay.
Newest(points, n) ==
  {b \in points : Cardinality({c \in points : c.at > b.at}) < n}
Pruned(keep) == [s \in Services |-> Newest(backups[s], keep)]

\* It stops at the first failure, having removed some of the others.
PrunedPartly ==
  \E gone \in SUBSET {pair \in Services \X UNION {backups[s] : s \in Services} :
                      pair[2] \in backups[pair[1]] \ Newest(backups[pair[1]], retention')} :
    backups' = [s \in Services |-> {b \in backups[s] : <<s, b>> \notin gone}]

-----------------------------------------------------------------------------
Init ==
  /\ state = "idle" /\ reserved = FALSE
  /\ selected = [s \in Services |-> NoImage]
  /\ history = <<>>
  /\ cached = [s \in Services |-> [cur |-> NoImage, cand |-> NoImage]]
  /\ persistError = FALSE /\ backupError = FALSE
  /\ retention = DefaultRetention /\ savedRetention = DefaultRetention
  /\ disk = [state |-> "idle", history |-> <<>>, selected |-> selected, cached |-> cached]
  /\ override = OverrideContent(selected)
  /\ backups = [s \in Services |-> {}]
  /\ running = [s \in Services |-> FirstImage]
  /\ owner = [s \in Services |-> Whole(IF s \in Migrated THEN "legacy" ELSE "target")]
  /\ data = [s \in Services |-> FirstImage]
  /\ local = [s \in Services |-> {FirstImage}]
  /\ pc = [p \in Callers |-> "idle"]
  /\ job = [p \in Callers |-> NoJob]
  /\ deployed = [s \in Services |-> {FirstImage}]
  /\ verified = [s \in Services |-> {}]
  /\ used = [ops |-> 0, faults |-> 0, crashes |-> 0, foreign |-> 0]

-----------------------------------------------------------------------------
(* Entry points: each is refused with ErrBusy while the Manager is busy. *)

Enter(p, newState, label, newJob, outcome) ==
  /\ At(p, "idle")
  /\ ~Busy
  /\ used.ops < MaxOps
  /\ used.faults + Cost(outcome) <= MaxFaults
  /\ used' = [used EXCEPT !.ops = @ + 1, !.faults = @ + Cost(outcome)]
  /\ state' = newState
  /\ Goto(p, label)
  /\ SetJob(p, newJob)
  /\ UNCHANGED <<reserved, selected, history, cached, retention, backupError,
                 savedRetention, backups, containers, ghosts>>
  /\ Persist(outcome)

StartUpdate(p, s) ==
  \E outcome \in WriteOutcome :
    Enter(p, "updating", "inspect", [NoJob EXCEPT !.svc = s], outcome)

StartCheck(p) ==
  \E outcome \in WriteOutcome :
    Enter(p, "checking", "check", [NoJob EXCEPT !.todo = Services], outcome)

RunManualCleanup(p) ==
  \E outcome \in WriteOutcome : Enter(p, "updating", "sweep", NoJob, outcome)

RunExclusive(p) ==
  \E outcome \in WriteOutcome : Enter(p, "updating", "exclusive", NoJob, outcome)

\* The reservation leaves status alone and is not persisted.
ReserveForControlPlane(p) ==
  /\ At(p, "idle")
  /\ ~Busy
  /\ used.ops < MaxOps
  /\ used' = [used EXCEPT !.ops = @ + 1]
  /\ reserved' = TRUE
  /\ Goto(p, "remote")
  /\ UNCHANGED <<state, selected, history, cached, persistError, retention,
                 backupError, files, containers, job, ghosts>>

Release_StaysReserved(p) ==
  /\ At(p, "remote")
  /\ Goto(p, "idle")
  /\ UNCHANGED <<state, reserved, selected, history, cached, persistError, retention,
                 backupError, files, containers, job, ghosts, used>>

\* The deferred release once the remote request has returned.
Release(p) ==
  /\ At(p, "remote")
  /\ reserved' = FALSE
  /\ Goto(p, "idle")
  /\ UNCHANGED <<state, selected, history, cached, persistError, retention,
                 backupError, files, containers, job, ghosts, used>>

-----------------------------------------------------------------------------
(* update(), one step per critical section with its Docker command *)

\* setProgress: only the message changes, and everything is persisted again.
Progress(outcome) ==
  /\ UNCHANGED <<state, reserved, selected, history, cached>>
  /\ Persist(outcome)

NotPersisting ==
  UNCHANGED <<state, reserved, selected, history, cached, persistError, disk, override>>

KeepRetention == UNCHANGED <<retention, backupError, savedRetention>>

\* inspectContainer: no container, or a Docker error, ends the update at once.
\* This early failure and the next step's do not enforce backup retention.
Inspect(p) ==
  LET s == job[p].svc IN
  /\ At(p, "inspect")
  /\ \/ /\ running[s] # NoImage
        /\ SetJob(p, [job[p] EXCEPT !.old = running[s],
                                    !.base = [image |-> running[s], owner |-> owner[s],
                                              data |-> data[s]]])
        /\ Goto(p, "backup")
        /\ UNCHANGED used
     \/ /\ \/ running[s] = NoImage /\ UNCHANGED used
           \/ Spend(1)
        /\ Goto(p, "fail")
        /\ UNCHANGED job
  /\ NotPersisting /\ KeepRetention
  /\ UNCHANGED <<backups, containers, ghosts>>

\* backup: a failed copy leaves a directory without a manifest, which is never
\* counted as a restore point.
BackupData(p) ==
  LET s == job[p].svc IN
  /\ At(p, "backup")
  /\ \E outcome \in WriteOutcome :
       /\ Progress(outcome)
       /\ \/ /\ Spend(Cost(outcome))
             /\ backups' = [backups EXCEPT ![s] = @ \cup {[at |-> used.ops, data |-> data[s]]}]
             /\ SetJob(p, [job[p] EXCEPT !.at = used.ops])
             /\ Goto(p, "pull")
          \/ /\ Spend(Cost(outcome) + 1)
             /\ Goto(p, "fail")
             /\ UNCHANGED <<backups, job>>
  /\ KeepRetention
  /\ UNCHANGED <<containers, ghosts>>

\* pull, digest resolution and inspectImage. ResolveTarget may answer any
\* image: the newest release, or the static pin when the lookup fails.
Pull(p) ==
  LET s == job[p].svc IN
  /\ At(p, "pull")
  /\ \E outcome \in WriteOutcome :
       /\ Progress(outcome)
       /\ \/ /\ Spend(Cost(outcome))
             /\ \E image \in Images :
                  /\ local' = [local EXCEPT ![s] = @ \cup {image}]
                  /\ IF image = job[p].old
                       THEN /\ SetJob(p, [job[p] EXCEPT !.cand = image, !.verdict = "no_change"])
                            /\ Goto(p, "record")
                       ELSE /\ SetJob(p, [job[p] EXCEPT !.cand = image])
                            /\ Goto(p, "attest")
          \/ /\ Spend(Cost(outcome) + 1)
             /\ SetJob(p, [job[p] EXCEPT !.verdict = "aborted"])
             /\ Goto(p, "prune")
             /\ UNCHANGED local
  /\ KeepRetention
  /\ UNCHANGED <<backups, running, owner, data, ghosts>>

Attest_NotGating(p) ==
  /\ At(p, "attest")
  /\ \E outcome \in WriteOutcome : Progress(outcome) /\ Spend(Cost(outcome))
  /\ Goto(p, "migrate")
  /\ KeepRetention
  /\ UNCHANGED <<backups, containers, job, ghosts>>

\* attestationVerifier gates activation; it also fails while unavailable.
Attest(p) ==
  /\ At(p, "attest")
  /\ \E outcome \in WriteOutcome :
       /\ Progress(outcome)
       /\ \/ /\ Attested(job[p].svc, job[p].cand)
             /\ Spend(Cost(outcome))
             /\ Goto(p, "migrate")
             /\ UNCHANGED job
          \/ /\ \/ ~Attested(job[p].svc, job[p].cand) /\ Spend(Cost(outcome))
                \/ Spend(Cost(outcome) + 1)
             /\ SetJob(p, [job[p] EXCEPT !.verdict = "aborted"])
             /\ Goto(p, "prune")
  /\ KeepRetention
  /\ UNCHANGED <<backups, containers, ghosts>>

\* "chown -R" that reports an error: it did nothing, stopped part-way with the
\* top directory changed or not, or had done everything when its helper failed.
AfterFailedChown(o, uid) ==
  {o, Whole(uid)} \cup [top : {o.top, uid}, whole : {FALSE}]

\* restoreVolumeOwnership of what the migration changed.
GivenBack(p) == IF job[p].changed THEN Whole(job[p].prev) ELSE owner[job[p].svc]

\* migrateVolumeOwnership: stat of the volume's top directory alone decides
\* whether anything is changed, so that a volume an earlier chown left in two
\* parts may be skipped. When its chown fails it gives the volume back and
\* ignores whether that worked.
Migrate(p) ==
  LET s == job[p].svc
      differs == s \in Migrated /\ owner[s].top # "target"
  IN
  /\ At(p, "migrate")
  /\ \E outcome \in WriteOutcome :
       /\ Progress(outcome)
       /\ \/ /\ Spend(Cost(outcome))
             /\ SetJob(p, [job[p] EXCEPT !.changed = differs, !.prev = owner[s].top])
             /\ owner' = [owner EXCEPT ![s] = IF differs THEN Whole("target") ELSE @]
             /\ Goto(p, "select")
          \/ /\ s \in Migrated
             /\ Goto(p, "prune")
             /\ \/ /\ Spend(Cost(outcome) + 1)
                   /\ SetJob(p, [job[p] EXCEPT !.verdict = "aborted"])
                   /\ \/ UNCHANGED owner
                      \/ differs /\ owner' = [owner EXCEPT ![s] = Whole(@.top)]
                \/ /\ differs
                   /\ Spend(Cost(outcome) + 2)
                   /\ SetJob(p, [job[p] EXCEPT !.verdict = "aborted", !.spoiled = TRUE])
                   /\ \E half \in AfterFailedChown(owner[s], "target") :
                        \E left \in AfterFailedChown(half, owner[s].top) :
                          owner' = [owner EXCEPT ![s] = left]
  /\ KeepRetention
  /\ UNCHANGED <<backups, running, data, local, ghosts>>

\* selectImage: when the write fails the selection is taken back in memory and
\* everything is written once more, whatever comes of that.
SelectImage(s, image, first, second) ==
  /\ UNCHANGED <<state, reserved, history, cached>>
  /\ IF first = "ok"
       THEN /\ selected' = [selected EXCEPT ![s] = image]
            /\ Persist("ok")
            /\ second = "ok"
       ELSE /\ UNCHANGED selected
            /\ LET tried == [selected EXCEPT ![s] = image]
                   disk1 == DiskAfter(first, disk,
                              [state |-> state, history |-> history,
                               selected |-> tried, cached |-> cached])
                   override1 == OverrideAfter(first, override, tried)
               IN  /\ disk' = DiskAfter(second, disk1,
                                [state |-> state, history |-> history,
                                 selected |-> selected, cached |-> cached])
                   /\ override' = OverrideAfter(second, override1, selected)
            /\ persistError' = (second # "ok")

\* The selection of the candidate; on failure the volume is given back.
Select(p) ==
  LET s == job[p].svc IN
  /\ At(p, "select")
  /\ \E first, second \in WriteOutcome :
       /\ SelectImage(s, job[p].cand, first, second)
       /\ \/ /\ first = "ok"
             /\ Goto(p, "up")
             /\ UNCHANGED <<job, owner, used>>
          \/ /\ first # "ok"
             /\ Goto(p, "prune")
             /\ \/ /\ Spend(Cost(second) + 1)
                   /\ owner' = [owner EXCEPT ![s] = GivenBack(p)]
                   /\ SetJob(p, [job[p] EXCEPT !.verdict = "aborted"])
                \/ /\ job[p].changed
                   /\ Spend(Cost(second) + 2)
                   /\ \E left \in AfterFailedChown(owner[s], job[p].prev) :
                        owner' = [owner EXCEPT ![s] = left]
                   /\ SetJob(p, [job[p] EXCEPT !.verdict = "aborted", !.spoiled = TRUE])
  /\ KeepRetention
  /\ UNCHANGED <<backups, running, data, local, ghosts>>

\* "compose up -d --no-deps" with updates.yaml on top. A started image may
\* rewrite the volume in its own format. A failing run may leave the old
\* container, none, or the new one.
ComposeSucceeds(s) ==
  \/ /\ override[s] \in local[s]
     /\ running' = [running EXCEPT ![s] = override[s]]
     /\ \E generation \in {data[s], override[s]} : data' = [data EXCEPT ![s] = generation]
  \/ /\ QuirkyCompose
     /\ UNCHANGED <<running, data>>
ComposeFails(s) ==
  /\ \E image \in {running[s], NoImage, override[s]} : running' = [running EXCEPT ![s] = image]
  /\ \E generation \in {data[s], override[s]} : data' = [data EXCEPT ![s] = generation]

ComposeUp(p) ==
  LET s == job[p].svc IN
  /\ At(p, "up")
  /\ \/ ComposeSucceeds(s) /\ Goto(p, "verify") /\ UNCHANGED used
     \/ ComposeFails(s) /\ Goto(p, "rbOwner") /\ Spend(1)
  /\ NotPersisting /\ KeepRetention
  /\ UNCHANGED <<backups, owner, local, job, ghosts>>

Verify_HealthOnly(p) ==
  LET s == job[p].svc IN
  /\ At(p, "verify")
  /\ \/ /\ running[s] # NoImage
        /\ verified' = [verified EXCEPT ![s] = @ \cup {running[s]}]
        /\ SetJob(p, [job[p] EXCEPT !.verdict = "success"])
        /\ Goto(p, "record")
     \/ /\ Goto(p, "rbOwner")
        /\ UNCHANGED <<job, verified>>
  /\ NotPersisting /\ KeepRetention
  /\ UNCHANGED <<backups, containers, deployed, used>>

\* verifyImageSwapped, then verifyWithRetry. Health is the image's own affair.
Verify(p) ==
  LET s == job[p].svc IN
  /\ At(p, "verify")
  /\ \/ /\ running[s] = job[p].cand
        /\ verified' = [verified EXCEPT ![s] = @ \cup {job[p].cand}]
        /\ SetJob(p, [job[p] EXCEPT !.verdict = "success"])
        /\ Goto(p, "record")
     \/ /\ Goto(p, "rbOwner")
        /\ UNCHANGED <<job, verified>>
  /\ NotPersisting /\ KeepRetention
  /\ UNCHANGED <<backups, containers, deployed, used>>

-----------------------------------------------------------------------------
(* rollback(), on its own context *)

RollbackFails(p) ==
  /\ Goto(p, "record")
  /\ SetJob(p, [job[p] EXCEPT !.verdict = "failed"])

RestoreOwnership_Forgotten(p) ==
  /\ At(p, "rbOwner")
  /\ \E outcome \in WriteOutcome : Progress(outcome) /\ Spend(Cost(outcome))
  /\ Goto(p, "rbSelect")
  /\ KeepRetention
  /\ UNCHANGED <<backups, containers, job, ghosts>>

RestoreOwnership(p) ==
  LET s == job[p].svc IN
  /\ At(p, "rbOwner")
  /\ \E outcome \in WriteOutcome :
       /\ Progress(outcome)
       /\ \/ /\ Spend(Cost(outcome))
             /\ owner' = [owner EXCEPT ![s] = GivenBack(p)]
             /\ Goto(p, "rbSelect")
             /\ UNCHANGED job
          \/ /\ job[p].changed
             /\ Spend(Cost(outcome) + 1)
             /\ \E left \in AfterFailedChown(owner[s], job[p].prev) :
                  owner' = [owner EXCEPT ![s] = left]
             /\ RollbackFails(p)
  /\ KeepRetention
  /\ UNCHANGED <<backups, running, data, local, ghosts>>

SelectOld(p) ==
  /\ At(p, "rbSelect")
  /\ \E first, second \in WriteOutcome :
       /\ SelectImage(job[p].svc, job[p].old, first, second)
       /\ IF first = "ok"
            THEN Goto(p, "rbUp") /\ UNCHANGED <<job, used>>
            ELSE RollbackFails(p) /\ Spend(Cost(second) + 1)
  /\ KeepRetention
  /\ UNCHANGED <<backups, containers, ghosts>>

\* The old image is not compared with the container afterwards.
ComposeUpOld(p) ==
  LET s == job[p].svc IN
  /\ At(p, "rbUp")
  /\ \/ ComposeSucceeds(s) /\ Goto(p, "rbData") /\ UNCHANGED <<job, used>>
     \/ ComposeFails(s) /\ RollbackFails(p) /\ Spend(1)
  /\ NotPersisting /\ KeepRetention
  /\ UNCHANGED <<backups, owner, local, ghosts>>

\* verifyBackupManifest, docker cp of every path back, docker restart.
RestoreData(p) ==
  LET s == job[p].svc
      snapshots == {b \in backups[s] : b.at = job[p].at}
  IN
  /\ At(p, "rbData")
  /\ \/ /\ running[s] # NoImage
        /\ \E b \in snapshots : data' = [data EXCEPT ![s] = b.data]
        /\ Goto(p, "rbVerify")
        /\ UNCHANGED <<job, used>>
     \/ /\ running[s] = NoImage \/ snapshots = {}
        /\ RollbackFails(p)
        /\ UNCHANGED <<data, used>>
     \/ /\ Spend(1)
        /\ \E generation \in {data[s]} \cup {b.data : b \in snapshots} :
             data' = [data EXCEPT ![s] = generation]
        /\ RollbackFails(p)
  /\ NotPersisting /\ KeepRetention
  /\ UNCHANGED <<backups, running, owner, local, ghosts>>

VerifyRollback(p) ==
  LET s == job[p].svc IN
  /\ At(p, "rbVerify")
  /\ \/ /\ running[s] # NoImage
        /\ SetJob(p, [job[p] EXCEPT !.verdict = "rolled_back"])
        /\ Goto(p, "record")
        /\ UNCHANGED used
     \/ /\ RollbackFails(p)
        /\ \/ running[s] = NoImage /\ UNCHANGED used
           \/ Spend(1)
  /\ NotPersisting /\ KeepRetention
  /\ UNCHANGED <<backups, containers, ghosts>>

-----------------------------------------------------------------------------
(* The end of an update *)

\* recordHistory with the verdict.
RecordHistory(p) ==
  LET s == job[p].svc IN
  /\ At(p, "record")
  /\ history' = Recorded([service |-> s, outcome |-> job[p].verdict, from |-> job[p].old,
                          to |-> job[p].cand, removed |-> {}])
  /\ Goto(p, IF job[p].verdict = "success" THEN "cleanup" ELSE "prune")
  /\ UNCHANGED <<state, reserved, selected, cached>>
  /\ \E outcome \in WriteOutcome : Persist(outcome) /\ Spend(Cost(outcome))
  /\ KeepRetention
  /\ UNCHANGED <<backups, containers, job, ghosts>>

\* cleanupAfterSuccess, for this service alone.
CleanupAfterSuccess(p) ==
  /\ At(p, "cleanup")
  /\ RemoveImages(p, {job[p].svc})
  /\ Goto(p, "attach")
  /\ NotPersisting /\ KeepRetention
  /\ UNCHANGED <<backups, running, owner, data, ghosts, used>>

AttachCleanup(p) ==
  /\ At(p, "attach")
  /\ history' = IF history = <<>> THEN history
                ELSE [history EXCEPT ![1].removed = job[p].removed]
  /\ Goto(p, "prune")
  /\ UNCHANGED <<state, reserved, selected, cached>>
  /\ \E outcome \in WriteOutcome : Persist(outcome) /\ Spend(Cost(outcome))
  /\ KeepRetention
  /\ UNCHANGED <<backups, containers, job, ghosts>>

\* enforceBackupRetention, before the terminal state becomes visible.
EnforceBackupRetention(p) ==
  /\ At(p, "prune")
  /\ UNCHANGED <<retention, savedRetention>>
  /\ \/ backups' = Pruned(retention) /\ backupError' = FALSE /\ UNCHANGED used
     \/ PrunedPartly /\ backupError' = TRUE /\ Spend(1)
  /\ Goto(p, IF job[p].verdict \in {"success", "no_change"} THEN "result" ELSE "fail")
  /\ NotPersisting
  /\ UNCHANGED <<containers, job, ghosts>>

\* finish: the service's result in one critical section ...
SetServiceResult(p) ==
  LET s == job[p].svc IN
  /\ At(p, "result")
  /\ cached' = [cached EXCEPT ![s] = [cur |-> job[p].cand, cand |-> job[p].cand]]
  /\ Goto(p, "end")
  /\ UNCHANGED <<state, reserved, selected, history>>
  /\ \E outcome \in WriteOutcome : Persist(outcome) /\ Spend(Cost(outcome))
  /\ KeepRetention
  /\ UNCHANGED <<backups, containers, job, ghosts>>

\* ... and a terminal state in another; fail() has only this one.
Leave(p, newState, newHistory) ==
  /\ state' = newState
  /\ history' = newHistory
  /\ Goto(p, "idle")
  /\ SetJob(p, NoJob)
  /\ UNCHANGED <<reserved, selected, cached>>
  /\ \E outcome \in WriteOutcome : Persist(outcome) /\ Spend(Cost(outcome))
  /\ KeepRetention
  /\ UNCHANGED <<backups, containers, ghosts>>

Finish(p) == At(p, "end") /\ Leave(p, "idle", history)
Fail(p)   == At(p, "fail") /\ Leave(p, "failed", history)

-----------------------------------------------------------------------------
(* The other operations *)

\* check(), one service at a time: inspect, pull, inspectImage,
\* setServiceResult. A missing container or a failure empties the identity.
CheckService(p, s) ==
  /\ At(p, "check")
  /\ s \in job[p].todo
  /\ SetJob(p, [job[p] EXCEPT !.todo = @ \ {s}])
  /\ UNCHANGED <<state, reserved, selected, history, pc>>
  /\ \E outcome \in WriteOutcome :
       /\ \/ /\ \/ running[s] = NoImage /\ Spend(Cost(outcome))
                \/ Spend(Cost(outcome) + 1)
             /\ cached' = [cached EXCEPT ![s] = [cur |-> NoImage, cand |-> NoImage]]
             /\ UNCHANGED local
          \/ /\ running[s] # NoImage
             /\ Spend(Cost(outcome) + 1)
             /\ cached' = [cached EXCEPT ![s] = [cur |-> running[s], cand |-> NoImage]]
             /\ UNCHANGED local
          \/ /\ running[s] # NoImage
             /\ Spend(Cost(outcome))
             /\ \E image \in Images :
                  /\ local' = [local EXCEPT ![s] = @ \cup {image}]
                  /\ cached' = [cached EXCEPT ![s] = [cur |-> running[s], cand |-> image]]
       /\ Persist(outcome)
  /\ KeepRetention
  /\ UNCHANGED <<backups, running, owner, data, ghosts>>

CheckDone(p) ==
  /\ At(p, "check")
  /\ job[p].todo = {}
  /\ Leave(p, "idle", history)

\* executeCleanup for every service, then the record of what it did.
Sweep(p) ==
  /\ At(p, "sweep")
  /\ \/ /\ UNCHANGED used
        /\ RemoveImages(p, Services)
     \/ /\ Spend(1)
        /\ SetJob(p, [job[p] EXCEPT !.ok = FALSE])
        /\ UNCHANGED local
  /\ Goto(p, "swept")
  /\ NotPersisting /\ KeepRetention
  /\ UNCHANGED <<backups, running, owner, data, ghosts>>

CleanupDone(p) ==
  /\ At(p, "swept")
  /\ Leave(p, IF job[p].ok THEN "idle" ELSE "failed",
           Recorded([service |-> "cleanup",
                     outcome |-> IF job[p].ok THEN "cleanup" ELSE "failed",
                     from |-> NoImage, to |-> NoImage, removed |-> job[p].removed]))

\* RunExclusive's operation returns, with an error or without.
ExclusiveDone(p) ==
  /\ At(p, "exclusive")
  /\ \E newState \in {"idle", "failed"} : Leave(p, newState, history)

\* resyncCurrentIdentities for the services whose inspect succeeds.
StatusSynced ==
  /\ ~Busy
  /\ \E seen \in SUBSET {s \in Services : running[s] # NoImage} :
       cached' = [s \in Services |->
                    IF s \in seen THEN [cached[s] EXCEPT !.cur = running[s]] ELSE cached[s]]
  /\ cached' # cached
  /\ UNCHANGED <<state, reserved, selected, history>>
  /\ \E outcome \in WriteOutcome : Persist(outcome) /\ Spend(Cost(outcome))
  /\ KeepRetention
  /\ UNCHANGED <<backups, containers, pc, job, ghosts>>

\* The new value is in force even if it cannot be saved; then nothing is pruned.
SetBackupRetention(n) ==
  /\ ~Busy
  /\ retention' = n
  /\ \/ savedRetention' = n /\ backupError' = FALSE /\ backups' = Pruned(n) /\ UNCHANGED used
     \/ savedRetention' = n /\ backupError' = TRUE /\ PrunedPartly /\ Spend(1)
     \/ UNCHANGED <<savedRetention, backupError, backups>> /\ Spend(1)
  /\ NotPersisting
  /\ UNCHANGED <<containers, pc, job, ghosts>>

\* Anything that recreates a container behind the Manager's back: the
\* installer, or an operator's own "docker compose up -d".
RecreateElsewhere(s, image) ==
  /\ used.foreign < MaxForeign
  /\ used' = [used EXCEPT !.foreign = @ + 1]
  /\ running' = [running EXCEPT ![s] = image]
  /\ local' = [local EXCEPT ![s] = @ \cup {image}]
  /\ \E generation \in {data[s], image} : data' = [data EXCEPT ![s] = generation]
  /\ deployed' = [deployed EXCEPT ![s] = @ \cup {image}]
  /\ job' = [p \in Callers |->
               IF job[p].svc = s THEN [job[p] EXCEPT !.spoiled = TRUE] ELSE job[p]]
  /\ NotPersisting /\ KeepRetention
  /\ UNCHANGED <<backups, owner, pc, verified>>

Interrupted_UpdatesOnly(saved) == saved = "updating"

\* load(): what was in progress when state.json was last written.
Interrupted(saved) == saved \in {"checking", "updating"}

\* The process dies and NewManager runs: load, loadBackupSettings, and an
\* operation found in progress becomes a failure, which is persisted.
Restart ==
  /\ used.crashes < MaxCrashes
  /\ selected' = disk.selected
  /\ history' = disk.history
  /\ cached' = disk.cached
  /\ reserved' = FALSE
  /\ retention' = savedRetention
  /\ backupError' = FALSE
  /\ pc' = [p \in Callers |-> "idle"]
  /\ job' = [p \in Callers |-> NoJob]
  /\ IF Interrupted(disk.state)
       THEN /\ state' = "failed"
            /\ \E outcome \in WriteOutcome :
                 /\ Persist(outcome)
                 /\ used.faults + Cost(outcome) <= MaxFaults
                 /\ used' = [used EXCEPT !.crashes = @ + 1, !.faults = @ + Cost(outcome)]
       ELSE /\ state' = disk.state
            /\ persistError' = FALSE
            /\ used' = [used EXCEPT !.crashes = @ + 1]
            /\ UNCHANGED <<disk, override>>
  /\ UNCHANGED <<savedRetention, backups, containers, ghosts>>

-----------------------------------------------------------------------------
UpdateStep(p) ==
  \/ Inspect(p) \/ BackupData(p) \/ Pull(p) \/ Attest(p) \/ Migrate(p) \/ Select(p)
  \/ ComposeUp(p) \/ Verify(p)
  \/ RestoreOwnership(p) \/ SelectOld(p) \/ ComposeUpOld(p) \/ RestoreData(p)
  \/ VerifyRollback(p)
  \/ RecordHistory(p) \/ CleanupAfterSuccess(p) \/ AttachCleanup(p)
  \/ EnforceBackupRetention(p) \/ SetServiceResult(p) \/ Finish(p) \/ Fail(p)

OtherStep(p) ==
  \/ \E s \in Services : CheckService(p, s)
  \/ CheckDone(p) \/ Sweep(p) \/ CleanupDone(p) \/ ExclusiveDone(p) \/ Release(p)

Work(p) == UpdateStep(p) \/ OtherStep(p)

Call(p) ==
  \/ \E s \in Services : StartUpdate(p, s)
  \/ StartCheck(p) \/ RunManualCleanup(p) \/ RunExclusive(p) \/ ReserveForControlPlane(p)

Next ==
  \/ \E p \in Callers : Call(p) \/ Work(p)
  \/ StatusSynced
  \/ \E n \in MinRetention .. MaxRetention : SetBackupRetention(n)
  \/ \E s \in Services, image \in Images : RecreateElsewhere(s, image)
  \/ Restart

Spec == Init /\ [][Next]_vars

\* Every Docker command and every remote request runs under a deadline, so a
\* caller that has entered goes on. Nothing else is obliged to happen.
FairSpec == Spec /\ \A p \in Callers : WF_vars(Work(p))

-----------------------------------------------------------------------------
(* Safety *)

\* The busy guard is a lock: at most one caller is past it, and status.State
\* and the control-plane reservation say exactly whether one is. A second
\* operation would rewrite updates.yaml, images or backups under the first.
ExclusiveOperation ==
  /\ \A p, q \in Callers : p # q => At(p, "idle") \/ At(q, "idle")
  /\ (\E p \in Callers : pc[p] \notin {"idle", "remote"}) <=> state \in {"checking", "updating"}
  /\ (\E p \in Callers : At(p, "remote")) <=> reserved

\* Whatever fails and whenever the process dies, a container runs an image
\* that passed attestation or that somebody else deployed: neither an update
\* nor a rollback starts an image the attestation gate did not let through.
TrustedImagesRun ==
  \A s \in Services :
    running[s] = NoImage \/ Attested(s, running[s]) \/ running[s] \in deployed[s]

\* Every change of status and selection is written before its lock is given
\* up: as long as PersistError is empty, state.json is what the process knows.
DurableUnlessFlagged ==
  ~persistError => disk = [state |-> state, history |-> history,
                           selected |-> selected, cached |-> cached]

\* docker compose is only started on an updates.yaml that names the image the
\* update (or its rollback) is about to activate, and that a crash would keep.
ComposeSeesSelection ==
  \A p \in Callers :
    /\ At(p, "up") => /\ override[job[p].svc] = job[p].cand
                      /\ disk.selected[job[p].svc] = job[p].cand
    /\ At(p, "rbUp") => /\ override[job[p].svc] = job[p].old
                        /\ disk.selected[job[p].svc] = job[p].old

\* The restore point taken by the update in flight outlives retention, from
\* the moment it is complete to the end of the update.
SnapshotKept ==
  \A p \in Callers :
    job[p].at > 0 => \E b \in backups[job[p].svc] :
                       b.at = job[p].at /\ (job[p].spoiled \/ b.data = job[p].base.data)

\* The volume has the owner it had: all of it, or the two it was found with.
OwnerRestored(found, now) == now.top = found.top /\ (now.whole \/ now = found)

\* An update that reports "failed, but nothing changed" or "rolled back" left
\* the container's image and its data as it found them, and its volume with
\* the owner it had.
FailureRestores ==
  \A p \in Callers :
    LET s == job[p].svc IN
    /\ pc[p] \in {"record", "prune", "fail"}
    /\ job[p].verdict \in {"aborted", "rolled_back"}
    /\ ~job[p].spoiled
    => /\ running[s] = job[p].base.image /\ data[s] = job[p].base.data
       /\ OwnerRestored(job[p].base.owner, owner[s])
       /\ job[p].verdict = "rolled_back" => selected[s] = running[s]

\* The volume is the target's: all of it, unless the update found the top
\* directory so already: then the migration is skipped, also where a chown that
\* stopped part-way has left the rest to another owner.
OwnerTaken(found, now) ==
  now.top = "target" /\ (now.whole \/ found = [top |-> "target", whole |-> FALSE])

\* A success is only recorded for a container that was really recreated on the
\* attested candidate, with the selection and the local image store agreeing
\* and, where ownership is migrated, a volume taken over as OwnerTaken says
\* (but for what the old container writes while chown runs: manager.go:489).
SuccessIsReal ==
  \A p \in Callers :
    LET s == job[p].svc IN
    /\ job[p].verdict = "success"
    /\ ~job[p].spoiled
    => /\ running[s] = job[p].cand /\ selected[s] = job[p].cand
       /\ job[p].cand \in local[s] \cap verified[s]
       /\ Attested(s, job[p].cand)
       /\ s \in Migrated => OwnerTaken(job[p].base.owner, owner[s])

\* The newest success of a service, if any.
LastSuccess(s) == CHOOSE i \in Successes(history, s) :
                    \A j \in Successes(history, s) : i <= j
\* It went forward: to an image never seen before, from the image the success
\* before it installed (or from one never seen either).
WentForward(s) ==
  LET i == LastSuccess(s)
      older == {j \in Successes(history, s) : j > i}
      first == FirstSeen(history, s, history[i].from)
  IN  /\ FirstSeen(history, s, history[i].to) = i
      /\ \/ first = i
         \/ history[first].to = history[i].from /\ \A j \in older : first <= j

-----------------------------------------------------------------------------
(* What a step may never do, and what must happen *)

Crash == used.crashes' = used.crashes + 1

\* A cleanup, after an update or on request, deletes neither the image a service
\* runs nor, where the service only ever moved on to new images, the one it ran
\* before: the image an operator would go back to.
CleanupSparesPrevious ==
  [][\A s \in Services : \A image \in local[s] \ local'[s] :
       /\ image # running[s]
       /\ Successes(history, s) # {} /\ WentForward(s) =>
            image # history[LastSuccess(s)].from]_vars

\* When an update's terminal state becomes visible its restore points have been
\* pruned already (or pruning failed, which is reported): a reader never counts
\* one too many.
RetentionBeforeTerminal ==
  [][\A p \in Callers :
       /\ job[p].verdict # "none"
       /\ ~At(p, "idle") /\ At(p, "idle")'
       /\ ~Crash
       => backupError' \/ \A s \in Services : Cardinality(backups'[s]) <= retention']_vars

\* A restart never leaves the Manager busy with nobody working, and reports an
\* operation it interrupted, provided the last write had succeeded.
InterruptionReported ==
  [][Crash => /\ ~Busy'
              /\ state \in {"checking", "updating"} /\ ~persistError => state' = "failed"]_vars

\* Every operation comes to an end: the Manager becomes available again.
BusyEnds == Busy ~> ~Busy

-----------------------------------------------------------------------------
(* The Manager implements ServiceMaintenance. *)

Maintenance == INSTANCE ServiceMaintenance WITH
  holders <- {p \in Callers : pc[p] # "idle"},
  target <- [p \in Callers |-> job[p].svc],
  image <- running,
  NoService <- "none",
  Vetted <- [s \in Services |-> {image \in Images : Attested(s, image)}]

\* Every step of the Manager is one of ServiceMaintenance's or changes nothing
\* it speaks of: no container is replaced outside an update of its service, and
\* no update, rollback or retry after a crash starts an image that was neither
\* attested nor deployed by somebody else.
ImplementsMaintenance == Maintenance!Spec

=============================================================================
