----------------------------- MODULE Installer -----------------------------
(***************************************************************************)
(* The first deployment of the DNS stack and the restore of a backup onto  *)
(* a host that has none: a status in memory with its file, one worker that *)
(* pulls, pins, attests and starts the containers, and the restore handler *)
(* that swaps Core's own directories in the middle of it and swaps them    *)
(* back when the worker reports an error. Every bootstrap is the module    *)
(* AdGuardManager; requests to its endpoint run beside the worker.         *)
(*                                                                         *)
(* Unbound's image stands for the attested images. Of the three            *)
(* directories of Core a restore replaces, Unbound's is modelled by what   *)
(* it holds and whether Unbound may read it, AdGuard's by its credentials  *)
(* and the block page's by whether nginx holds the token in it. setStep    *)
(* writes the same state again and is left out. Every Docker command goes  *)
(* through rootguard-docker-proxy, DockerProxy, as the release's compose   *)
(* file has it; a command it forwards may still fail.                      *)
(***************************************************************************)
EXTENDS AdGuardManager

CONSTANTS
  Deployer,       \* the worker, when it bootstraps
  Images, Signed, \* what Unbound's tag may name, and what is attested
  FirstImage,     \* what it names at first
  Tag,            \* the tag itself, where a digest is expected
  MaxTagMoves,    \* bound: times the tag moves
  MaxStarts,      \* bound: deployments and restores begun
  MaxRestarts     \* bound: restarts of Core

ASSUME InstallerAssumption ==
  /\ Deployer \in Callers
  /\ Signed \subseteq Images /\ FirstImage \in Images /\ Tag \notin Images
  /\ MaxTagMoves \in Nat /\ MaxStarts \in Nat /\ MaxRestarts \in Nat

VARIABLES
  state, stateFile, \* the installation's state, and status.json's
  job,              \* the worker: what it does, how far, containers created, Unbound's image
  compose,          \* Unbound's image in compose.yaml: the tag or a digest
  registry, local,  \* the image the tag names there and here
  docker,           \* the stack's containers and the image of Unbound's
  resources,        \* whether its volumes and its network exist
  conf,             \* what Unbound's directory holds
  readable,         \* whether Unbound may read what is in it
  restore,          \* the restore handler: progress, its copies, data touched
  stuck,            \* a restore returned and left the state deploying
  mess,             \* what went wrong in a restore beyond its own failure
  spent             \* bounds used

instVars == <<state, stateFile, job, compose, registry, local, docker, resources, conf, readable, restore, stuck,
              mess, spent>>
vars == <<agVars, instVars>>

NoImage == Tag
State == {"not_installed", "deploying", "installed", "failed"}
Phase == {"none", "pull", "pin", "create", "directories", "adguardDirectory", "volumes", "attest",
          "up", "connect", "bootstrap", "booting", "finish", "failing"}
RestoreStage == {"idle", "copied", "clean", "running", "undo", "undoAdguard", "undoOwnership"}
Content == {"before", "archive", "cleared"}
Mess == {"unclean", "partialCreate", "cleanup", "leftover", "rollback", "finalStatus", "crash"}

\* The components' states, and no worker without the state that excludes a
\* second one: a deployment and a restore never run at the same time.
TypeOK ==
  /\ AdGuardTypeOK
  /\ state \in State /\ stateFile \in State
  /\ job \in [kind : {"none", "deploy", "restore"}, at : Phase, created : BOOLEAN,
            image : Images \cup {Tag}]
  /\ compose \in Images \cup {Tag} /\ registry \in Images /\ local \in Images
  /\ docker \in [at : {"absent", "created", "up"}, image : Images \cup {NoImage}]
  /\ resources \in BOOLEAN /\ conf \in Content /\ readable \in BOOLEAN
  /\ restore \in [at : RestoreStage, touched : BOOLEAN, conf : Content,
                  stored : Password, staged : Password]
  /\ stuck \in BOOLEAN /\ mess \subseteq Mess
  /\ spent \in [moves : 0 .. MaxTagMoves, starts : 0 .. MaxStarts, restarts : 0 .. MaxRestarts]
  /\ (job.kind # "none") <=> (job.at # "none")
  /\ job.kind # "none" => state = "deploying"
  /\ job.kind = "restore" => restore.at = "running"

NoJob == [kind |-> "none", at |-> "none", created |-> FALSE, image |-> Tag]
NoContainers == [at |-> "absent", image |-> NoImage]
NoRestore == [at |-> "idle", touched |-> FALSE, conf |-> "before", stored |-> 0, staged |-> 0]
Init ==
  /\ AdGuardInit
  /\ state = "not_installed" /\ stateFile = "not_installed"
  /\ job = NoJob
  /\ compose = Tag /\ registry = FirstImage /\ local = FirstImage
  /\ docker = NoContainers /\ resources = FALSE
  /\ conf = "before" /\ readable = TRUE
  /\ restore = NoRestore
  /\ stuck = FALSE /\ mess = {}
  /\ spent = [moves |-> 0, starts |-> 0, restarts |-> 0]

\* The values Core's own steps leave alone, by who changes them.
quiet    == <<compose, registry, local, docker, resources, conf, readable, mess>>

\* persistLocked: the file follows the state, or the write fails and says so; it
\* may then have replaced the file all the same.
NotPersisted(s) == Fault /\ stateFile' \in {stateFile, s}
ExceptFaults == <<stored, staged, adguard, late, tokenServed, boot, made, raced, pageBroken>>

-----------------------------------------------------------------------------
(* Start and Restore *)

MayStart == state # "deploying"

\* POST /api/installation/deploy, once its preflight is in order, also while a
\* failed restore is still being undone. When the state cannot be written
\* nothing is started.
Start ==
  /\ MayStart
  /\ spent.starts < MaxStarts /\ spent' = [spent EXCEPT !.starts = @ + 1]
  /\ \/ /\ NoFault /\ state' = "deploying" /\ stateFile' = "deploying"
        /\ job' = [NoJob EXCEPT !.kind = "deploy", !.at = "pull"]
        /\ raced' = (raced \/ restore.at \in {"undo", "undoAdguard"})
     \/ NotPersisted("deploying") /\ state' = "failed" /\ UNCHANGED <<job, raced>>
  /\ UNCHANGED <<stored, staged, adguard, late, tokenServed, boot, made, pageBroken>>
  /\ UNCHANGED <<quiet, restore, stuck>>

\* The directories are copied before anything is checked. RunExclusive keeps
\* a second restore out, not a deployment.
CopyDirectories ==
  /\ restore.at = "idle"
  /\ spent.starts < MaxStarts /\ spent' = [spent EXCEPT !.starts = @ + 1]
  /\ restore' = [at |-> "copied", touched |-> FALSE, conf |-> conf, stored |-> stored, staged |-> staged]
  /\ UNCHANGED <<agVars, state, stateFile, job, quiet, stuck>>

\* No stack deployed, and none of its containers, volumes and network there.
RestorePreflight ==
  /\ restore.at = "copied"
  /\ restore' = IF state \in {"not_installed", "failed"} /\ docker.at = "absent" /\ ~resources
                THEN [restore EXCEPT !.at = "clean"] ELSE NoRestore
  /\ UNCHANGED <<agVars, state, stateFile, job, quiet, stuck, spent>>

\* Restore looks at the state again under its mutex, and not at the containers
\* a deployment may have left since. An error of the first write returns with
\* the state already changed.
BeginRestore ==
  /\ restore.at = "clean"
  /\ IF state \in {"not_installed", "failed"}
     THEN /\ state' = "deploying"
          /\ \/ /\ NoFault /\ stateFile' = "deploying"
                /\ job' = [NoJob EXCEPT !.kind = "restore", !.at = "pull"]
                /\ restore' = [restore EXCEPT !.at = "running"] /\ UNCHANGED stuck
                /\ mess' = IF docker.at = "absent" /\ ~resources THEN mess ELSE mess \cup {"unclean"}
             \/ NotPersisted("deploying") /\ stuck' = TRUE /\ restore' = NoRestore /\ UNCHANGED <<job, mess>>
     ELSE NoFault /\ restore' = NoRestore /\ UNCHANGED <<state, stateFile, job, stuck, mess>>
  /\ UNCHANGED <<ExceptFaults, compose, registry, local, docker, resources, conf, readable, spent>>

-----------------------------------------------------------------------------
(* deploy and restoreDeploy *)

Advance(at) == job' = [job EXCEPT !.at = at]
\* The step of the worker fails, and its next step is fail().
Break == Fault /\ Advance("failing")
\* So it does when the proxy refuses one of its requests.
BreakOr(command) == Break \/ (~Proxy!Forwarded(command) /\ NoFault /\ Advance("failing"))
Working(at) == job.at = at
JobOnly == UNCHANGED <<state, stateFile, stuck, spent>>

\* compose.yaml with the tag, then compose pull.
Pull ==
  /\ Working("pull")
  /\ compose' = Tag
  /\ \/ NoFault /\ Proxy!Forwarded(Proxy!ComposePull) /\ local' = registry /\ Advance("pin")
     \/ BreakOr(Proxy!ComposePull) /\ UNCHANGED local
  /\ UNCHANGED <<ExceptFaults, registry, docker, resources, conf, readable, mess, restore>> /\ JobOnly

\* The tag is pulled once more for the digest of what came; without one the
\* local image's digest will do, and without that the tag stays.
Resolve(images) ==
  \E image \in images :
    job' = [job EXCEPT !.image = image, !.at = IF job.kind = "restore" THEN "create" ELSE "attest"]

PinDigests_NotWritten ==
  /\ Working("pin")
  /\ NoFault /\ local' = registry /\ Resolve({registry, local, Tag})
  /\ UNCHANGED <<ExceptFaults, compose, registry, docker, resources, conf, readable, mess, restore>> /\ JobOnly

PinDigests ==
  /\ Working("pin")
  /\ \/ NoFault /\ local' = registry /\ Resolve({registry, local, Tag}) /\ compose' = job'.image
     \/ Fault /\ UNCHANGED local /\ Resolve({local, Tag}) /\ compose' = job'.image  \* the second pull fails
     \/ Break /\ UNCHANGED <<local, compose>>
  /\ UNCHANGED <<ExceptFaults, registry, docker, resources, conf, readable, mess, restore>> /\ JobOnly

\* What a container made from compose.yaml runs.
Pinned == IF compose = Tag THEN local ELSE compose

\* compose create. One that fails half way leaves what it has created.
CreateStopped ==
  /\ Working("create")
  /\ \/ /\ NoFault /\ Proxy!Forwarded(Proxy!ComposeCreate)
        /\ docker' = [at |-> "created", image |-> Pinned] /\ resources' = TRUE
        /\ job' = [job EXCEPT !.at = "directories", !.created = TRUE]
        /\ UNCHANGED mess
     \/ /\ BreakOr(Proxy!ComposeCreate)
        /\ \/ UNCHANGED <<docker, resources, mess>>
           \/ /\ docker' = [at |-> "created", image |-> Pinned] /\ resources' = TRUE
              /\ mess' = mess \cup {"partialCreate"}
  /\ UNCHANGED <<ExceptFaults, compose, registry, local, conf, readable, restore>> /\ JobOnly

\* restoreData: replaceDirectory clears a directory before it copies, and what
\* it copies belongs to root alone.
RestoreUnboundDirectory ==
  /\ Working("directories")
  /\ restore' = [restore EXCEPT !.touched = TRUE]
  /\ readable' = FALSE
  /\ \/ NoFault /\ conf' = "archive" /\ Advance("adguardDirectory")
     \/ Break /\ conf' = "cleared"
  /\ UNCHANGED <<ExceptFaults, compose, registry, local, docker, resources, mess>> /\ JobOnly

\* The token file is replaced as well, or gone with its directory's content.
\* An nginx that runs may by chance hold the one put there; nobody reloads it.
NginxMayRun == Blockpage /\ (docker.at = "up" \/ "unclean" \in mess)
ReplaceToken ==
  /\ tokenServed' \in (IF NginxMayRun THEN BOOLEAN ELSE {tokenServed})
  /\ pageBroken' = (pageBroken \/ NginxMayRun)

\* AdGuard's directory, then the block page's.
RestoreAdGuardDirectory ==
  /\ Working("adguardDirectory")
  /\ staged' = 0
  /\ \/ NoFault /\ stored' = Archived /\ ReplaceToken /\ Advance("volumes")
     \/ Break /\ stored' = 0 /\ UNCHANGED <<tokenServed, pageBroken>>
     \/ Break /\ stored' = Archived /\ ReplaceToken
  /\ UNCHANGED <<adguard, late, boot, made, raced, quiet, restore>> /\ JobOnly

\* docker cp into the stopped containers, then the ownership of Unbound's.
RestoreVolumes ==
  /\ Working("volumes")
  /\ \/ /\ NoFault /\ Proxy!Forwarded(Proxy!RestoreCommands)
        /\ adguard' = [adguard EXCEPT !.password = Archived] /\ readable' = TRUE
        /\ Advance("attest")
     \/ /\ BreakOr(Proxy!RestoreCommands) /\ readable' \in BOOLEAN
        /\ \E p \in {0, Archived} : adguard' = [adguard EXCEPT !.password = p]
  /\ UNCHANGED <<stored, staged, late, tokenServed, boot, made, raced, pageBroken>>
  /\ UNCHANGED <<compose, registry, local, docker, resources, conf, mess, restore>> /\ JobOnly

VerifyAttestation_ReturnsOnly ==
  /\ Working("attest")
  /\ NoFault /\ IF job.image \in Signed THEN Advance("up") ELSE job' = NoJob
  /\ UNCHANGED <<ExceptFaults, quiet, restore>> /\ JobOnly

\* verifyStackAttestation: a reference without a digest is never attested.
VerifyAttestation ==
  /\ Working("attest")
  /\ NoFault /\ Advance(IF job.image \in Signed THEN "up" ELSE "failing")
  /\ UNCHANGED <<ExceptFaults, quiet, restore>> /\ JobOnly

\* compose up, tried again while a port is taken. Containers of an earlier
\* deployment are recreated when their definition has changed, and stay as they
\* are otherwise; a failure may leave any part running.
Recreated == IF docker.at = "absent" \/ job.created THEN {FALSE} ELSE BOOLEAN
Rendered == {TRUE} \cup (IF NginxMayRun THEN {tokenServed} ELSE {})
ComposeUp ==
  /\ Working("up")
  /\ \/ /\ NoFault /\ Advance("connect")
        /\ \E recreate \in Recreated : Proxy!Forwarded(Proxy!ComposeUp(recreate))
        /\ docker' = [at |-> "up", image |-> Pinned] /\ resources' = TRUE
        /\ adguard' = [adguard EXCEPT !.up = TRUE]
        /\ tokenServed' \in Rendered
     \/ /\ \E recreate \in Recreated : BreakOr(Proxy!ComposeUp(recreate))
        /\ \/ UNCHANGED <<docker, resources, adguard, tokenServed>>
           \/ /\ docker' = [at |-> "up", image |-> Pinned] /\ resources' = TRUE
              /\ \E up \in BOOLEAN : adguard' = [adguard EXCEPT !.up = up]
              /\ tokenServed' \in Rendered
  /\ UNCHANGED <<stored, staged, late, boot, made, raced, pageBroken>>
  /\ UNCHANGED <<compose, registry, local, conf, readable, mess, restore>> /\ JobOnly

\* Core joins the network and waits for Unbound's health: one that may not read
\* its configuration does not start.
ConnectAndWait ==
  /\ Working("connect")
  /\ \/ NoFault /\ Proxy!Forwarded(Proxy!NetworkConnect) /\ readable /\ Advance("bootstrap")
     \/ NoFault /\ ~readable /\ Advance("failing")
     \/ BreakOr(Proxy!NetworkConnect)
  /\ UNCHANGED <<ExceptFaults, quiet, restore>> /\ JobOnly

AfterBootstrapError_Ignored == Advance("finish")
AfterBootstrapError == Advance("failing")

RunBootstrap ==
  /\ \/ Working("bootstrap") /\ StartBootstrap(Deployer) /\ Advance("booting")
     \/ Working("booting") /\ BootstrapStep(Deployer) /\ UNCHANGED job
     \/ Working("booting") /\ Stage(Deployer, "done") /\ Reload(Deployer)
        /\ Advance(IF pageBroken' THEN "failing" ELSE "finish")
     \/ Working("booting") /\ Stage(Deployer, "idle") /\ AfterBootstrapError /\ UNCHANGED agVars
  /\ UNCHANGED <<quiet, restore>> /\ JobOnly

\* The last write of a deployment may fail unnoticed; that of a restore is
\* returned as its error, with the state installed and the stack running.
Finish ==
  /\ Working("finish")
  /\ state' = "installed" /\ job' = NoJob
  /\ \/ /\ NoFault /\ stateFile' = "installed" /\ UNCHANGED mess
        /\ restore' = IF job.kind = "restore" THEN NoRestore ELSE restore
     \/ /\ NotPersisted("installed")
        /\ IF job.kind = "restore"
           THEN restore' = [restore EXCEPT !.at = "undo"] /\ mess' = mess \cup {"finalStatus"}
           ELSE UNCHANGED <<restore, mess>>
  /\ UNCHANGED <<ExceptFaults, compose, registry, local, docker, resources, conf, readable, stuck, spent>>

CleanUp_OnCancelledRequest ==
  UNCHANGED <<docker, resources, adguard, late, tokenServed, mess, faults>>

\* compose down --volumes; an error of it is not looked at. The containers go
\* first. The network and the volumes stay when the proxy refuses to have them
\* removed, and AdGuard's volume with what the restore has put there.
CleanUp ==
  \/ /\ Proxy!Forwarded(Proxy!RemoveContainers) /\ UNCHANGED faults
     /\ docker' = NoContainers /\ late' = {} /\ tokenServed' = TRUE
     /\ IF Proxy!Forwarded(Proxy!RemoveResources)
        THEN resources' = FALSE /\ adguard' = Removed /\ UNCHANGED mess
        ELSE adguard' = [adguard EXCEPT !.up = FALSE] /\ mess' = mess \cup {"leftover"}
             /\ UNCHANGED resources
  \/ Fault /\ mess' = mess \cup {"cleanup"} /\ UNCHANGED <<docker, resources, adguard, late, tokenServed>>

\* fail(): the state is failed, and free for a deployment, before the restore
\* handler has put anything back.
Fail ==
  /\ Working("failing")
  /\ IF job.created THEN CleanUp
     ELSE UNCHANGED <<docker, resources, adguard, late, tokenServed, mess, faults>>
  /\ state' = "failed" /\ job' = NoJob
  /\ stateFile' \in {"failed", stateFile}
  /\ restore' = IF job.kind = "deploy" THEN restore
                ELSE IF restore.touched THEN [restore EXCEPT !.at = "undo"] ELSE NoRestore
  /\ UNCHANGED <<stored, staged, boot, made, raced, pageBroken>>
  /\ UNCHANGED <<compose, registry, local, conf, readable, stuck, spent>>

-----------------------------------------------------------------------------
(* The restore handler puts the directories back in turn *)

UndoUnboundDirectory ==
  /\ restore.at = "undo"
  /\ readable' = FALSE
  /\ \/ /\ NoFault /\ conf' = restore.conf
        /\ restore' = [restore EXCEPT !.at = "undoAdguard"] /\ UNCHANGED mess
     \/ Fault /\ conf' = "cleared" /\ restore' = NoRestore /\ mess' = mess \cup {"rollback"}
  /\ UNCHANGED <<ExceptFaults, state, stateFile, job, compose, registry, local, docker, resources, stuck, spent>>

\* AdGuard's directory, then the block page's. What anybody has stored, staged
\* or published meanwhile is overwritten.
UndoAdGuardDirectory ==
  /\ restore.at = "undoAdguard"
  /\ \/ /\ NoFault /\ stored' = restore.stored /\ staged' = restore.staged /\ ReplaceToken
        /\ restore' = [restore EXCEPT !.at = "undoOwnership"] /\ UNCHANGED mess
     \/ /\ Fault /\ restore' = NoRestore /\ mess' = mess \cup {"rollback"}
        /\ \/ stored' = 0 /\ staged' = 0 /\ UNCHANGED <<tokenServed, pageBroken>>
           \/ stored' = restore.stored /\ staged' = restore.staged /\ ReplaceToken
  /\ UNCHANGED <<adguard, late, boot, made, raced>>
  /\ UNCHANGED <<state, stateFile, job, compose, registry, local, docker, resources, conf, readable, stuck, spent>>

\* normalizeUnboundOwnership, for what was put back: a helper container of the
\* image that Unbound's container has gives the files to Unbound. Its error is
\* dropped, that of finding no such container too.
NormalizeOwnership ==
  /\ restore.at = "undoOwnership"
  /\ restore' = NoRestore
  /\ \/ docker.at # "absent" /\ Proxy!Forwarded(Proxy!OwnershipCommands) /\ NoFault /\ readable' = TRUE
     \/ (docker.at = "absent" \/ ~Proxy!Forwarded(Proxy!OwnershipCommands)) /\ NoFault /\ UNCHANGED readable
     \/ docker.at # "absent" /\ Fault /\ readable' \in BOOLEAN
  /\ UNCHANGED <<ExceptFaults, state, stateFile, job, compose, registry, local, docker, resources, conf, stuck, mess, spent>>

-----------------------------------------------------------------------------
(* Around them *)

\* POST /api/adguard/bootstrap, and the reload its handler owes.
Request(c) ==
  /\ c # Deployer
  /\ \/ StartBootstrap(c) /\ adguard.up
     \/ BootstrapStep(c) \/ Reload(c)
  /\ UNCHANGED instVars

\* Core's process ends and starts again: NewManager.
Restart ==
  /\ spent.restarts < MaxRestarts /\ spent' = [spent EXCEPT !.restarts = @ + 1]
  /\ state' = IF stateFile = "deploying" THEN "failed" ELSE stateFile
  /\ stateFile' \in {stateFile, state'}
  /\ job' = NoJob /\ restore' = NoRestore /\ stuck' = FALSE
  /\ boot' = [c \in Callers |-> NoBoot]
  /\ late' = late \cup {boot[c].pass : c \in {d \in Callers : Stage(d, "configure")}}
  /\ pageBroken' = (pageBroken \/ (Blockpage /\ \E c \in Callers : boot[c].at \in {"confirm", "done"}))
  /\ mess' = IF restore.at \in {"running", "undo", "undoAdguard", "undoOwnership"} THEN mess \cup {"crash"} ELSE mess
  /\ UNCHANGED <<stored, staged, adguard, tokenServed, made, faults, raced>>
  /\ UNCHANGED <<compose, registry, local, docker, resources, conf, readable>>

MoveTag ==
  /\ spent.moves < MaxTagMoves /\ spent' = [spent EXCEPT !.moves = @ + 1]
  /\ registry' \in Images \ {registry}
  /\ UNCHANGED <<agVars, state, stateFile, job, compose, local, docker, resources, conf, readable, restore,
                 stuck, mess>>

Worker ==
  \/ Pull \/ PinDigests \/ CreateStopped
  \/ RestoreUnboundDirectory \/ RestoreAdGuardDirectory \/ RestoreVolumes
  \/ VerifyAttestation \/ ComposeUp \/ ConnectAndWait \/ RunBootstrap \/ Finish \/ Fail
Undo == UndoUnboundDirectory \/ UndoAdGuardDirectory \/ NormalizeOwnership

Next ==
  \/ Start \/ CopyDirectories \/ RestorePreflight \/ BeginRestore
  \/ Worker \/ Undo
  \/ \E c \in Callers : Request(c)
  \/ (ApplyLate /\ UNCHANGED instVars)
  \/ Restart \/ MoveTag

\* Every call of the worker has a timeout, its whole run one of ten minutes.
Spec == Init /\ [][Next]_vars /\ WF_vars(Worker)

-----------------------------------------------------------------------------
(* Properties *)

\* Whatever the tag did while the stack was pulled, pinned and created, the
\* resolver that compose up started runs an attested image.
StartedAttested == docker.at = "up" => docker.image \in Signed

\* A restore leaves the whole archive installed or the host's data as it was:
\* when its worker fails no container is left, and when its handler is through
\* with Core's directories they hold what was copied of them; whether Unbound
\* may read that is RollbackReadable. What the code does not undo is in mess:
\* volumes and network, a deployment between the preflight and the lock, a
\* create that fails half way, a cleanup or rollback that fails, a last status
\* write that fails, and a crash.
RestoreAllOrNothing ==
  [][mess' \subseteq {"leftover"} =>
       /\ (job.kind = "restore" /\ job'.kind = "none" /\ state' = "failed") => docker'.at = "absent"
       /\ (restore.at \in {"running", "undo", "undoAdguard"} /\ restore'.at \in {"idle", "undoOwnership"}) =>
            \/ state' = "installed" /\ conf' = "archive" /\ stored' = Archived
            \/ conf' = restore.conf /\ <<stored', staged'>> = <<restore.stored, restore.staged>>]_vars

\* An AdGuard that has left its wizard can be logged in to with a password in
\* one of the two files, whichever call fails or process dies, unless two
\* attempts met there (in the temporary file, or a deployment with the undoing
\* of a restore) or a restore left things undone.
CredentialsRecoverable ==
  adguard.password # 0 /\ ~raced /\ mess = {} /\ job.kind # "restore"
    => adguard.password \in {stored, staged}

\* Installed means managed: the containers run, Core's credentials open
\* AdGuard, and AdGuard forwards to Unbound.
InstalledIsManaged ==
  state = "installed" /\ ~raced /\ mess \subseteq {"leftover"}
    => docker.at = "up" /\ LogsIn(stored) /\ adguard.upstream

\* Between bootstraps the block page's nginx presents the token Core expects,
\* with two exceptions: a bootstrap was cut off between replacing the token and
\* reloading nginx, or a restore replaced the token's directory, or put it back,
\* while an nginx may have been running. Either lasts until the next reload.
PageTokenCurrent ==
  ~pageBroken /\ (\A c \in Callers : Stage(c, "idle")) => tokenServed

\* A deployment ends, except the one whose first write failed.
DeployEnds == (state = "deploying" /\ ~stuck) ~> (state # "deploying")

\* The proxy forwards everything an installation needs, also one over the
\* containers of an earlier one: a deployment that nothing fails under, nobody
\* interferes with and whose image has a digest, installs.
Undisturbed ==
  /\ faults = 0 /\ ~raced /\ mess = {} /\ spent.moves = 0 /\ spent.restarts = 0
  /\ \A c \in Callers \ {Deployer} : Stage(c, "idle")
  /\ job.at = "attest" => job.image # Tag
UndisturbedInstalls ==
  (job.kind = "deploy" /\ job.at = "pull" /\ Undisturbed) ~> (state = "installed" \/ ~Undisturbed)

-----------------------------------------------------------------------------
(* Stated of the program by its documents, and not so *)

\* normalizeUnboundOwnership is there so that what a failed restore puts back is
\* not "unreadable by the unbound user": when its handler returns, Unbound may
\* read its directory, unless something went wrong beyond the restore's failure.
RollbackReadable ==
  [][restore.at \in {"running", "undo", "undoAdguard", "undoOwnership"} /\ restore'.at = "idle"
       /\ mess' \subseteq {"leftover"} => readable']_vars

=============================================================================
