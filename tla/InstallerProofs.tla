-------------------------- MODULE InstallerProofs --------------------------
(***************************************************************************)
(* What compose up starts is what was attested, for any images and tags,   *)
(* callers and bounds: between the gate and the start nobody writes        *)
(* compose.yaml but the worker itself (Inv).                               *)
(*                                                                         *)
(* Then the credentials, the status and the restore, from one invariant    *)
(* (IInv): types; what host a restore found; what each of its phases has   *)
(* put in place; that one caller at most has a password staged, and where  *)
(* AdGuard's own password is meanwhile. Last the block page's token.       *)
(***************************************************************************)
EXTENDS Installer, TLAPS

Job    == [kind : {"none", "deploy", "restore"}, at : Phase, created : BOOLEAN,
           image : Images \cup {Tag}]
Docker == [at : {"absent", "created", "up"}, image : Images \cup {NoImage}]

Typed ==
  /\ job \in Job /\ docker \in Docker
  /\ compose \in Images \cup {Tag} /\ registry \in Images /\ local \in Images

\* From the pin on compose.yaml names the image the worker holds; from the gate
\* on that is attested.
Held == {"create", "directories", "adguardDirectory", "volumes", "attest", "up"}
Gated ==
  /\ job.at \in Held => compose = job.image
  /\ job.at = "up" => job.image \in Signed

Inv == Typed /\ Gated /\ StartedAttested

-----------------------------------------------------------------------------
(* The operators *)

\* The next phase of a worker has its image.
LEMMA NextPhase ==
  ASSUME NEW at \in Phase, job \in Job, Advance(at)
  PROVE  job' \in Job /\ job'.at = at /\ job'.image = job.image
  BY DEF Advance, Job

\* The worker that fails is at "failing".
LEMMA BreakPhase ==
  ASSUME job \in Job, NEW command, Break \/ BreakOr(command)
  PROVE  job' \in Job /\ job'.at = "failing" /\ job'.image = job.image
  BY NextPhase DEF Break, BreakOr, Phase

\* A step after which the worker is nowhere between the pin and the start.
LEMMA OffGate ==
  ASSUME Inv, job' \in Job, job'.at \notin Held,
         docker' \in Docker, docker'.at = "up" => docker' = docker,
         compose' \in Images \cup {Tag}, registry' \in Images, local' \in Images
  PROVE  Inv'
  BY DEF Inv, Typed, Gated, StartedAttested, Held

\* A step of the worker, or of none, that leaves its image and compose.yaml
\* alone and does not pass the gate.
LEMMA SameGate ==
  ASSUME Inv, job' \in Job, job'.image = job.image,
         job'.at \in Held => job.at \in Held, job'.at = "up" => job.at = "up",
         docker' \in Docker, docker'.at = "up" => docker' = docker,
         UNCHANGED compose, registry' \in Images, local' \in Images
  PROVE  Inv'
  BY DEF Inv, Typed, Gated, StartedAttested

-----------------------------------------------------------------------------
(* The steps *)

\* Nothing is pinned and nothing runs at first.
LEMMA InvInit == Init => Inv
  BY InstallerAssumption
  DEF Init, InstallerAssumption, NoJob, NoContainers, NoImage, Inv, Typed, Gated, StartedAttested,
      Job, Docker, Phase, Held

\* The operations that start a worker, or refuse to.
LEMMA BeginStep ==
  ASSUME Inv, Start \/ BeginRestore PROVE Inv'
  <1>1. UNCHANGED <<compose, registry, local, docker>>
    BY DEF Start, BeginRestore, quiet
  <1>2. CASE UNCHANGED job
    BY <1>1, <1>2, SameGate DEF Inv, Typed
  <1>3. CASE job' \in Job /\ job'.at = "pull"
    BY <1>1, <1>3, OffGate DEF Inv, Typed, Held
  <1>4. CASE job' # job
    <2>1. PICK kind \in {"deploy", "restore"} : job' = [NoJob EXCEPT !.kind = kind, !.at = "pull"]
      BY <1>4 DEF Start, BeginRestore
    <2>2. job' \in Job /\ job'.at = "pull"
      BY <2>1 DEF NoJob, Job, Phase
    <2> QED BY <1>3, <2>2
  <1> QED BY <1>2, <1>4

\* pull() writes the tag into compose.yaml, before anything is pinned.
LEMMA PullStep ==
  ASSUME Inv, Pull PROVE Inv'
  <1>1. compose' = Tag /\ UNCHANGED <<registry, docker>> /\ local' \in {local, registry}
    BY DEF Pull
  <1>2. job' \in Job /\ job'.at \in {"pin", "failing"}
    BY NextPhase, BreakPhase DEF Pull, Inv, Typed, Phase
  <1> QED BY <1>1, <1>2, OffGate DEF Inv, Typed, Held

\* pinDigests() writes into compose.yaml what the worker will have attested.
LEMMA PinDigestsStep ==
  ASSUME Inv, PinDigests PROVE Inv'
  <1>1. job.at = "pin" /\ UNCHANGED <<registry, docker>> /\ local' \in {local, registry}
    BY DEF PinDigests, Working
  <1>2. CASE Break /\ UNCHANGED compose
    <2>1. job' \in Job /\ job'.at = "failing"
      BY <1>2, BreakPhase DEF Inv, Typed
    <2> QED BY <1>1, <1>2, <2>1, OffGate DEF Inv, Typed, Held
  <1>3. CASE Resolve({registry, local, Tag}) /\ compose' = job'.image
    <2>1. /\ job' \in Job /\ job'.at \in {"create", "attest"}
          /\ job'.image \in Images \cup {Tag}
      <3>1. PICK image \in {registry, local, Tag}, at \in {"create", "attest"} :
              job' = [job EXCEPT !.image = image, !.at = at]
        BY <1>3 DEF Resolve
      <3>2. image \in Images \cup {Tag} /\ at \in Phase /\ job \in Job
        BY DEF Inv, Typed, Phase
      <3> QED BY <3>1, <3>2 DEF Job
    <2>2. Typed'
      BY <1>1, <1>3, <2>1 DEF Inv, Typed
    <2>3. Gated' /\ StartedAttested'
      BY <1>1, <1>3, <2>1 DEF Inv, Gated, StartedAttested
    <2> QED BY <2>2, <2>3 DEF Inv
  <1>4. Resolve({local, Tag}) => Resolve({registry, local, Tag})
    BY DEF Resolve
  <1> QED BY <1>2, <1>3, <1>4 DEF PinDigests

\* A container is created from compose.yaml, and not started.
LEMMA CreateStoppedStep ==
  ASSUME Inv, CreateStopped PROVE Inv'
  <1>1. job.at = "create" /\ UNCHANGED <<compose, registry, local>>
    BY DEF CreateStopped, Working
  <1>2. Pinned \in Images \cup {NoImage}
    BY DEF Pinned, Inv, Typed, NoImage
  <1>3. docker' \in Docker /\ (docker'.at = "up" => docker' = docker)
    BY <1>2 DEF CreateStopped, Inv, Typed, Docker
  <1>4. job' \in Job /\ job'.image = job.image /\ job'.at \in {"directories", "failing"}
    <2>1. CASE job' = [job EXCEPT !.at = "directories", !.created = TRUE]
      BY <2>1 DEF Inv, Typed, Job, Phase
    <2>2. CASE BreakOr(Proxy!ComposeCreate)
      BY <2>2, BreakPhase DEF Inv, Typed
    <2> QED BY <2>1, <2>2 DEF CreateStopped
  <1> QED BY <1>1, <1>3, <1>4, SameGate DEF Inv, Typed, Held

\* The restore of the files leaves compose.yaml and the containers alone.
LEMMA RestoreFilesStep ==
  ASSUME Inv, RestoreUnboundDirectory \/ RestoreAdGuardDirectory \/ RestoreVolumes PROVE Inv'
  <1>1. /\ job.at \in Held /\ UNCHANGED <<compose, registry, local, docker>>
    BY DEF RestoreUnboundDirectory, RestoreAdGuardDirectory, RestoreVolumes, Working, quiet, Held
  <1>2. /\ job' \in Job /\ job'.image = job.image
        /\ job'.at \in {"adguardDirectory", "volumes", "attest", "failing"}
    BY NextPhase, BreakPhase
    DEF RestoreUnboundDirectory, RestoreAdGuardDirectory, RestoreVolumes, Inv, Typed, Phase
  <1> QED BY <1>1, <1>2, SameGate DEF Inv, Typed

\* The gate: a worker without an attested image does not reach the start.
LEMMA VerifyAttestationStep ==
  ASSUME Inv, VerifyAttestation PROVE Inv'
  <1>1. job.at = "attest" /\ compose = job.image /\ UNCHANGED <<compose, registry, local, docker>>
    BY DEF VerifyAttestation, Working, quiet, Inv, Gated, Held
  <1>2. CASE job.image \in Signed
    <2>1. job' \in Job /\ job'.at = "up" /\ job'.image = job.image
      BY <1>2, NextPhase DEF VerifyAttestation, Inv, Typed, Phase
    <2> QED BY <1>1, <1>2, <2>1 DEF Inv, Typed, Gated, StartedAttested
  <1>3. CASE job.image \notin Signed
    <2>1. job' \in Job /\ job'.at = "failing"
      BY <1>3, NextPhase DEF VerifyAttestation, Inv, Typed, Phase
    <2> QED BY <1>1, <2>1, OffGate DEF Inv, Typed, Held
  <1> QED BY <1>2, <1>3

\* compose up starts what compose.yaml names, which the worker holds.
LEMMA ComposeUpStep ==
  ASSUME Inv, ComposeUp PROVE Inv'
  <1>1. job.at = "up" /\ UNCHANGED <<compose, registry, local>>
    BY DEF ComposeUp, Working
  <1>2. Pinned \in Signed /\ Pinned \in Images
    BY <1>1, InstallerAssumption DEF Pinned, Inv, Gated, Held, InstallerAssumption
  <1>3. job' \in Job /\ job'.at \in {"connect", "failing"}
    BY NextPhase, BreakPhase DEF ComposeUp, Inv, Typed, Phase
  <1>4. docker' \in Docker /\ (docker'.at = "up" => docker'.image \in Signed)
    <2>1. CASE docker' = [at |-> "up", image |-> Pinned]
      BY <1>2, <2>1 DEF Docker
    <2>2. CASE UNCHANGED docker
      BY <2>2 DEF Inv, Typed, StartedAttested
    <2> QED BY <2>1, <2>2 DEF ComposeUp
  <1> QED BY <1>1, <1>3, <1>4 DEF Inv, Typed, Gated, StartedAttested, Held

\* What follows the start, up to AdGuard's bootstrap.
LEMMA AfterStartStep ==
  ASSUME Inv, ConnectAndWait \/ RunBootstrap PROVE Inv'
  <1>1. /\ job.at \in {"connect", "bootstrap", "booting"}
        /\ UNCHANGED <<compose, registry, local, docker>>
    BY DEF ConnectAndWait, RunBootstrap, Working, quiet
  <1>2. job' \in Job /\ job'.at \in {"bootstrap", "booting", "finish", "failing"}
    <2>1. CASE UNCHANGED job /\ job.at = "booting"
      BY <2>1 DEF Inv, Typed
    <2>2. CASE \E at \in {"bootstrap", "booting", "finish", "failing"} : Advance(at)
      BY <2>2, NextPhase DEF Inv, Typed, Phase
    <2>3. CASE BreakOr(Proxy!NetworkConnect)
      BY <2>3, BreakPhase DEF Inv, Typed
    <2> QED BY <2>1, <2>2, <2>3 DEF ConnectAndWait, RunBootstrap, AfterBootstrapError, Working
  <1> QED BY <1>1, <1>2, OffGate DEF Inv, Typed, Held

\* The end of the worker, which may remove the containers, and that of Core.
LEMMA EndStep ==
  ASSUME Inv, Finish \/ Fail \/ Restart PROVE Inv'
  <1>1. job' = NoJob /\ UNCHANGED <<compose, registry, local>>
    BY DEF Finish, Fail, Restart
  <1>2. docker' \in {docker, NoContainers}
    BY DEF Finish, Fail, CleanUp, Restart
  <1>3. job' \in Job /\ job'.at \notin Held
    BY <1>1 DEF NoJob, Job, Phase, Held
  <1>4. NoContainers \in Docker /\ NoContainers.at # "up"
    BY DEF NoContainers, Docker, NoImage
  <1> QED BY <1>1, <1>2, <1>3, <1>4, OffGate DEF Inv, Typed

\* Requests, the restore handler and the registry leave the worker alone.
LEMMA OtherStep ==
  ASSUME Inv, UNCHANGED <<job, compose, local, docker>>, registry' \in Images PROVE Inv'
  BY DEF Inv, Typed, Gated, StartedAttested

\* Every step keeps the invariant.
LEMMA InvNext == Inv /\ [Next]_vars => Inv'
  <1> SUFFICES ASSUME Inv, [Next]_vars PROVE Inv'
    OBVIOUS
  <1>1. CASE Start \/ BeginRestore
    BY <1>1, BeginStep
  <1>2. CASE Worker
    BY <1>2, PullStep, PinDigestsStep, CreateStoppedStep, RestoreFilesStep, VerifyAttestationStep,
       ComposeUpStep, AfterStartStep, EndStep
    DEF Worker
  <1>3. CASE Restart
    BY <1>3, EndStep
  <1>4. CASE \/ CopyDirectories \/ RestorePreflight \/ Undo \/ MoveTag
             \/ (\E c \in Callers : Request(c)) \/ (ApplyLate /\ UNCHANGED instVars)
             \/ UNCHANGED vars
    <2>1. UNCHANGED <<job, compose, local, docker>> /\ registry' \in Images
      BY <1>4
      DEF CopyDirectories, RestorePreflight, Undo, UndoUnboundDirectory, UndoAdGuardDirectory, NormalizeOwnership,
          MoveTag, Request, instVars, vars, quiet, Inv, Typed
    <2> QED BY <2>1, OtherStep
  <1> QED BY <1>1, <1>2, <1>3, <1>4 DEF Next

-----------------------------------------------------------------------------
(* The theorems *)

\* Inv holds in every state.
THEOREM Invariance == Spec => []Inv
  BY InvInit, InvNext, PTL DEF Spec

\* verifyStackAttestation: whatever the tag names while the stack is pulled,
\* pinned, created and started, the resolver that runs is an attested one.
THEOREM OnlyAttestedStarts == Spec => []StartedAttested
  <1>1. Inv => StartedAttested
    BY DEF Inv
  <1> QED BY <1>1, Invariance, PTL

-----------------------------------------------------------------------------
(* Types *)

Boot    == [at : BootStage, pass : Password]
AdGuard == [up : BOOLEAN, password : Password, upstream : BOOLEAN]
RestoreState == [at : RestoreStage, touched : BOOLEAN, conf : Content, stored : Password, staged : Password]
Spent   == [moves : 0 .. MaxTagMoves, starts : 0 .. MaxStarts, restarts : 0 .. MaxRestarts]

\* Passwords are numbers, and that of the archive is one of them.
LEMMA Passwords ==
  /\ 0 \in Password /\ Archived \in Password /\ Archived = 1 /\ Password \subseteq Nat
  /\ MaxFaults \in Nat /\ NoBoot \in Boot /\ Removed \in AdGuard
  BY AdGuardAssumption DEF AdGuardAssumption, Password, NoBoot, Boot, BootStage, Removed, AdGuard

\* What a step of a bootstrap does to its caller, and to nobody else.
LEMMA BootSet ==
  ASSUME boot \in [Callers -> Boot], NEW c \in Callers, NEW new \in Boot, boot' = [boot EXCEPT ![c] = new]
  PROVE  boot' \in [Callers -> Boot] /\ boot'[c] = new /\ \A d \in Callers \ {c} : boot'[d] = boot[d]
  OBVIOUS

\* A step that goes on keeps the password it hands on.
LEMMA BootMoves ==
  ASSUME boot \in [Callers -> Boot], NEW c \in Callers, NEW at \in BootStage, MoveTo(c, at)
  PROVE  /\ boot' \in [Callers -> Boot] /\ boot'[c].at = at /\ boot'[c].pass = boot[c].pass
         /\ \A d \in Callers \ {c} : boot'[d] = boot[d]
  BY DEF MoveTo, Boot

\* One that gives up leaves its caller without a bootstrap.
LEMMA BootGivenUp ==
  ASSUME boot \in [Callers -> Boot], NEW c \in Callers, GiveUp(c)
  PROVE  /\ boot' \in [Callers -> Boot] /\ boot'[c] = NoBoot /\ boot'[c].at = "idle" /\ boot'[c].pass = 0
         /\ \A d \in Callers \ {c} : boot'[d] = boot[d]
  BY Passwords DEF GiveUp, NoBoot

\* A failing call is counted.
LEMMA FaultCounted ==
  ASSUME faults \in 0 .. MaxFaults, Fault \/ NoFault PROVE faults' \in 0 .. MaxFaults
  BY Passwords DEF Fault, NoFault

\* Every step of a bootstrap keeps the types.
LEMMA BootstrapTypes ==
  ASSUME AdGuardTypeOK, NEW c \in Callers, StartBootstrap(c) \/ BootstrapStep(c) \/ Reload(c)
  PROVE  AdGuardTypeOK'
  <1>0. /\ boot \in [Callers -> Boot] /\ adguard \in AdGuard /\ faults \in 0 .. MaxFaults
        /\ boot[c].pass \in Password
    BY DEF AdGuardTypeOK, Boot, AdGuard
  <1>1. CASE StartBootstrap(c)
    <2>1. boot' \in [Callers -> Boot]
      BY <1>0, <1>1, BootSet DEF StartBootstrap, AdGuardTypeOK, Boot, BootStage
    <2> QED BY <1>1, <2>1 DEF StartBootstrap, AdGuardTypeOK, Boot
  <1>2. CASE StageCredentials(c)
    <2>1. made' \in Archived .. MaxPasswords /\ made' \in Password
      BY <1>2, AdGuardAssumption DEF StageCredentials, AdGuardTypeOK, AdGuardAssumption, Password
    <2>2. boot' \in [Callers -> Boot]
      BY <1>0, <1>2, <2>1, BootSet, BootGivenUp DEF StageCredentials, Boot, BootStage
    <2>3. raced' \in BOOLEAN /\ staged' \in Password
      BY <1>2, <2>1, Passwords DEF StageCredentials, AdGuardTypeOK, Overlaps
    <2>4. faults' \in 0 .. MaxFaults
      BY <1>0, <1>2, FaultCounted DEF StageCredentials
    <2> QED BY <1>2, <2>1, <2>2, <2>3, <2>4 DEF StageCredentials, AdGuardTypeOK, Boot
  <1>3. CASE Configure(c)
    <2>1. boot' \in [Callers -> Boot]
      BY <1>0, <1>3, BootMoves, BootGivenUp DEF Configure, BootStage
    <2>2. adguard' \in AdGuard /\ late' \subseteq Password /\ staged' \in Password
      BY <1>0, <1>3, Passwords DEF Configure, AdGuardTypeOK, AdGuard
    <2>3. faults' \in 0 .. MaxFaults
      BY <1>0, <1>3, FaultCounted DEF Configure
    <2> QED BY <1>3, <2>1, <2>2, <2>3 DEF Configure, AdGuardTypeOK, Boot, AdGuard
  <1>4. CASE ActivateCredentials(c)
    <2>1. boot' \in [Callers -> Boot]
      BY <1>0, <1>4, BootMoves, BootGivenUp DEF ActivateCredentials, BootStage
    <2>2. faults' \in 0 .. MaxFaults
      BY <1>0, <1>4, FaultCounted DEF ActivateCredentials
    <2> QED BY <1>4, <2>1, <2>2, Passwords DEF ActivateCredentials, AdGuardTypeOK, Boot
  <1>5. CASE WaitUntilReady(c) \/ EnableFiltering(c) \/ PublishToken(c) \/ ConfirmStatus(c) \/ Reload(c)
    <2>1. boot' \in [Callers -> Boot]
      BY <1>0, <1>5, BootMoves, BootGivenUp
      DEF WaitUntilReady, EnableFiltering, PublishToken, ConfirmStatus, Reload, BootStage
    <2>2. faults' \in 0 .. MaxFaults
      BY <1>0, <1>5, FaultCounted DEF WaitUntilReady, EnableFiltering, PublishToken, ConfirmStatus, Reload
    <2>3. tokenServed' \in BOOLEAN /\ pageBroken' \in BOOLEAN
      BY <1>5, AdGuardAssumption
      DEF WaitUntilReady, EnableFiltering, PublishToken, ConfirmStatus, Reload, AdGuardTypeOK, AdGuardAssumption
    <2> QED BY <1>5, <2>1, <2>2, <2>3
        DEF WaitUntilReady, EnableFiltering, PublishToken, ConfirmStatus, Reload, AdGuardTypeOK, Boot
  <1>6. CASE ConfigureUpstream(c)
    <2>1. boot' \in [Callers -> Boot]
      BY <1>0, <1>6, BootMoves, BootGivenUp DEF ConfigureUpstream, BootStage
    <2>2. faults' \in 0 .. MaxFaults /\ adguard' \in AdGuard
      BY <1>0, <1>6, FaultCounted DEF ConfigureUpstream, AdGuard
    <2> QED BY <1>6, <2>1, <2>2 DEF ConfigureUpstream, AdGuardTypeOK, Boot, AdGuard
  <1> QED BY <1>1, <1>2, <1>3, <1>4, <1>5, <1>6 DEF BootstrapStep

\* The installation's part of TypeOK.
InstTypeOK ==
  /\ state \in State /\ stateFile \in State
  /\ job \in Job
  /\ compose \in Images \cup {Tag} /\ registry \in Images /\ local \in Images
  /\ docker \in Docker
  /\ resources \in BOOLEAN /\ conf \in Content /\ readable \in BOOLEAN
  /\ restore \in RestoreState
  /\ stuck \in BOOLEAN /\ mess \subseteq Mess
  /\ spent \in Spent
  /\ (job.kind # "none") <=> (job.at # "none")
  /\ job.kind # "none" => state = "deploying"
  /\ job.kind = "restore" => restore.at = "running"

\* Both make the type invariant.
LEMMA TypeOKParts == TypeOK <=> AdGuardTypeOK /\ InstTypeOK
  BY DEF TypeOK, InstTypeOK, Job, Docker, RestoreState, Spent

\* Nothing is typed otherwise at first.
LEMMA InitTypes == Init => TypeOK
  <1> SUFFICES ASSUME Init PROVE AdGuardTypeOK /\ InstTypeOK
    BY TypeOKParts
  <1>1. AdGuardTypeOK
    <2>1. boot \in [Callers -> Boot] /\ adguard \in AdGuard
      BY Passwords DEF Init, AdGuardInit
    <2>2. made \in Archived .. MaxPasswords /\ faults \in 0 .. MaxFaults
      BY AdGuardAssumption DEF Init, AdGuardInit, AdGuardAssumption
    <2> QED BY <2>1, <2>2, Passwords DEF Init, AdGuardInit, AdGuardTypeOK, Boot, AdGuard
  <1>2. InstTypeOK
    <2>1. job \in Job /\ docker \in Docker /\ job.kind = "none" /\ job.at = "none"
      BY DEF Init, NoJob, NoContainers, NoImage, Job, Docker, Phase
    <2>2. restore \in RestoreState
      BY Passwords DEF Init, NoRestore, RestoreState, RestoreStage, Content
    <2>3. spent \in Spent
      BY InstallerAssumption DEF Init, Spent, InstallerAssumption
    <2> QED BY <2>1, <2>2, <2>3, InstallerAssumption
        DEF Init, InstTypeOK, State, Content, InstallerAssumption
  <1> QED BY <1>1, <1>2

\* The three counters of what the bounds allow.
LEMMA SpentTypes ==
  ASSUME spent \in Spent
  PROVE  /\ spent.starts < MaxStarts => [spent EXCEPT !.starts = @ + 1] \in Spent
         /\ spent.moves < MaxTagMoves => [spent EXCEPT !.moves = @ + 1] \in Spent
         /\ spent.restarts < MaxRestarts => [spent EXCEPT !.restarts = @ + 1] \in Spent
  BY InstallerAssumption DEF Spent, InstallerAssumption

\* A worker that goes on, or fails, is typed.
LEMMA JobGoesOn ==
  ASSUME job \in Job, job.kind # "none", NEW at \in Phase \ {"none"}, Advance(at)
  PROVE  /\ job' \in Job /\ job'.at = at /\ job'.kind = job.kind /\ job'.created = job.created
         /\ job'.image = job.image /\ job'.kind # "none" /\ job'.at # "none"
  BY DEF Advance, Job

\* Or it fails, and stays the same job.
LEMMA JobBreaks ==
  ASSUME job \in Job, job.kind # "none", faults \in 0 .. MaxFaults, NEW command, Break \/ BreakOr(command)
  PROVE  /\ job' \in Job /\ job'.at = "failing" /\ job'.kind = job.kind /\ job'.created = job.created
         /\ job'.image = job.image /\ job'.kind # "none" /\ job'.at # "none"
         /\ faults' \in 0 .. MaxFaults
  BY JobGoesOn, FaultCounted DEF Break, BreakOr, Phase

\* Copies and marks of the restore handler.
LEMMA RestoreSet ==
  ASSUME restore \in RestoreState, NEW at \in RestoreStage
  PROVE  /\ [restore EXCEPT !.at = at] \in RestoreState
         /\ [restore EXCEPT !.at = at].at = at
         /\ [restore EXCEPT !.at = at].touched = restore.touched
         /\ [restore EXCEPT !.at = at].conf = restore.conf
         /\ [restore EXCEPT !.at = at].stored = restore.stored
         /\ [restore EXCEPT !.at = at].staged = restore.staged
         /\ [restore EXCEPT !.touched = TRUE] \in RestoreState
         /\ [restore EXCEPT !.touched = TRUE].at = restore.at
         /\ [restore EXCEPT !.touched = TRUE].touched = TRUE
         /\ [restore EXCEPT !.touched = TRUE].conf = restore.conf
         /\ [restore EXCEPT !.touched = TRUE].stored = restore.stored
         /\ [restore EXCEPT !.touched = TRUE].staged = restore.staged
  BY DEF RestoreState

\* What stands for no job, no restore and no containers.
LEMMA NoneYet ==
  /\ NoJob \in Job /\ NoJob.kind = "none" /\ NoJob.at = "none" /\ NoJob.created = FALSE
  /\ NoRestore \in RestoreState /\ NoRestore.at = "idle" /\ NoRestore.touched = FALSE
  /\ NoRestore.conf = "before" /\ NoRestore.stored = 0 /\ NoRestore.staged = 0
  /\ NoContainers \in Docker /\ NoContainers.at = "absent"
  /\ \A kind \in {"deploy", "restore"} :
       /\ [NoJob EXCEPT !.kind = kind, !.at = "pull"] \in Job
       /\ [NoJob EXCEPT !.kind = kind, !.at = "pull"].kind = kind
       /\ [NoJob EXCEPT !.kind = kind, !.at = "pull"].at = "pull"
       /\ [NoJob EXCEPT !.kind = kind, !.at = "pull"].created = FALSE
  BY Passwords
  DEF NoJob, Job, Phase, NoRestore, RestoreState, RestoreStage, Content, NoContainers, Docker, NoImage

\* What of AdGuard's part an action of the worker may have changed.
LEMMA AdGuardKept ==
  ASSUME AdGuardTypeOK, boot' = boot, made' = made,
         stored' \in Password, staged' \in Password, late' \subseteq Password,
         adguard' \in AdGuard, tokenServed' \in BOOLEAN, raced' \in BOOLEAN, pageBroken' \in BOOLEAN,
         faults' \in 0 .. MaxFaults
  PROVE  AdGuardTypeOK'
  BY DEF AdGuardTypeOK, AdGuard, Boot

\* A step that does at most spend faults.
LEMMA OnlyFaults ==
  ASSUME AdGuardTypeOK, UNCHANGED ExceptFaults, faults' \in 0 .. MaxFaults
  PROVE  AdGuardTypeOK'
  BY DEF AdGuardTypeOK, ExceptFaults

\* A step that leaves the bootstraps alone.
LEMMA NoneOfAdGuard ==
  ASSUME AdGuardTypeOK, UNCHANGED agVars PROVE AdGuardTypeOK'
  BY DEF AdGuardTypeOK, agVars

\* The token file is replaced.
LEMMA TokenReplaced ==
  ASSUME AdGuardTypeOK, ReplaceToken PROVE tokenServed' \in BOOLEAN /\ pageBroken' \in BOOLEAN
  BY DEF AdGuardTypeOK, ReplaceToken

\* A step of the worker that goes on, or fails: its own part is typed.
LEMMA WorkerKept ==
  ASSUME InstTypeOK, job' \in Job, job'.kind = job.kind, job.kind # "none", job'.at # "none",
         compose' \in Images \cup {Tag}, registry' \in Images, local' \in Images, docker' \in Docker,
         resources' \in BOOLEAN, conf' \in Content, readable' \in BOOLEAN, restore' \in RestoreState, restore'.at = restore.at,
         mess' \subseteq Mess, UNCHANGED <<state, stateFile, stuck, spent>>
  PROVE  InstTypeOK'
  BY DEF InstTypeOK

\* Both parts.
Types == AdGuardTypeOK /\ InstTypeOK

\* Deploy begins a job, or cannot write that it does.
LEMMA StartTypes ==
  ASSUME Types, Start PROVE Types'
  <1>0. AdGuardTypeOK /\ InstTypeOK
    BY DEF Types
  <1>1. faults' \in 0 .. MaxFaults
    BY <1>0, FaultCounted DEF Start, NotPersisted, AdGuardTypeOK
  <1>2. AdGuardTypeOK'
    BY <1>0, <1>1, AdGuardKept DEF Start, AdGuardTypeOK, AdGuard
  <1>3. spent' \in Spent
    BY <1>0, SpentTypes DEF Start, InstTypeOK
  <1>4. job.kind = "none" /\ job.at = "none"
    BY <1>0 DEF Start, MayStart, InstTypeOK
  <1>5. /\ job' \in Job /\ ((job'.kind # "none") <=> (job'.at # "none"))
        /\ job'.kind # "none" => state' = "deploying"
        /\ job'.kind # "restore"
    BY <1>0, <1>4, NoneYet DEF Start, InstTypeOK
  <1>6. state' \in State /\ stateFile' \in State
    BY <1>0 DEF Start, NotPersisted, InstTypeOK, State
  <1>7. InstTypeOK'
    BY <1>0, <1>3, <1>5, <1>6 DEF Start, quiet, InstTypeOK
  <1> QED BY <1>2, <1>7 DEF Types

\* Restore copies the directories it will replace, or stops.
LEMMA CopyDirectoriesTypes ==
  ASSUME Types, CopyDirectories PROVE Types'
  <1>0. AdGuardTypeOK /\ InstTypeOK
    BY DEF Types
  <1>1. AdGuardTypeOK'
    BY <1>0, NoneOfAdGuard DEF CopyDirectories
  <1>2. spent' \in Spent
    BY <1>0, SpentTypes DEF CopyDirectories, InstTypeOK
  <1>3. restore' \in RestoreState
    BY <1>0 DEF CopyDirectories, InstTypeOK, AdGuardTypeOK, RestoreState, RestoreStage
  <1>4. job.kind # "restore"
    BY <1>0 DEF CopyDirectories, InstTypeOK
  <1>5. InstTypeOK'
    BY <1>0, <1>2, <1>3, <1>4 DEF CopyDirectories, quiet, InstTypeOK
  <1> QED BY <1>1, <1>5 DEF Types

\* It looks at Docker before it begins.
LEMMA RestorePreflightTypes ==
  ASSUME Types, RestorePreflight PROVE Types'
  <1>0. AdGuardTypeOK /\ InstTypeOK
    BY DEF Types
  <1>1. AdGuardTypeOK'
    BY <1>0, NoneOfAdGuard DEF RestorePreflight
  <1>2. restore' \in RestoreState /\ job.kind # "restore"
    BY <1>0, RestoreSet, NoneYet DEF RestorePreflight, InstTypeOK, RestoreStage
  <1>3. InstTypeOK'
    BY <1>0, <1>2 DEF RestorePreflight, quiet, InstTypeOK
  <1> QED BY <1>1, <1>3 DEF Types

\* It begins as a job of its own.
LEMMA BeginRestoreTypes ==
  ASSUME Types, BeginRestore PROVE Types'
  <1>0. AdGuardTypeOK /\ InstTypeOK
    BY DEF Types
  <1>1. faults' \in 0 .. MaxFaults
    BY <1>0, FaultCounted DEF BeginRestore, NotPersisted, AdGuardTypeOK
  <1>2. AdGuardTypeOK'
    BY <1>0, <1>1, OnlyFaults DEF BeginRestore
  <1>3. job.kind # "restore"
    BY <1>0 DEF BeginRestore, InstTypeOK
  <1>4. CASE /\ job' = [NoJob EXCEPT !.kind = "restore", !.at = "pull"]
             /\ restore' = [restore EXCEPT !.at = "running"]
             /\ state' = "deploying" /\ stateFile' = "deploying" /\ UNCHANGED stuck
             /\ mess' \in {mess, mess \cup {"unclean"}}
    <2>1. job' \in Job /\ job'.kind = "restore" /\ job'.at = "pull"
      BY <1>4, NoneYet
    <2>2. restore' \in RestoreState /\ restore'.at = "running"
      BY <1>0, <1>4, RestoreSet DEF InstTypeOK, RestoreStage
    <2>3. state' = "deploying" /\ stateFile' \in State /\ stuck' \in BOOLEAN /\ mess' \subseteq Mess
      BY <1>0, <1>4 DEF BeginRestore, InstTypeOK, State, Mess
    <2>4. InstTypeOK'
      BY <1>0, <2>1, <2>2, <2>3 DEF BeginRestore, InstTypeOK, State
    <2> QED BY <1>2, <2>4 DEF Types
  <1>5. CASE restore' = NoRestore /\ UNCHANGED <<job, mess>> /\ stateFile' \in {stateFile, "deploying"}
    <2>1. restore' \in RestoreState
      BY <1>5, NoneYet
    <2>2. state' \in State /\ (job.kind # "none" => state' = "deploying") /\ stuck' \in BOOLEAN /\ stateFile' \in State
      BY <1>0, <1>5 DEF BeginRestore, InstTypeOK, State
    <2>3. InstTypeOK'
      BY <1>0, <1>3, <1>5, <2>1, <2>2 DEF BeginRestore, InstTypeOK
    <2> QED BY <1>2, <2>3 DEF Types
  <1> QED BY <1>4, <1>5 DEF BeginRestore, NotPersisted

\* The job pulls its image.
LEMMA PullTypes ==
  ASSUME Types, Pull PROVE Types'
  <1>0. AdGuardTypeOK /\ InstTypeOK /\ job.at = "pull"
    BY DEF Types, Pull, Working
  <1>1. /\ job' \in Job /\ job'.kind = job.kind /\ job.kind # "none" /\ job'.at # "none"
        /\ faults' \in 0 .. MaxFaults
    <2>1. job \in Job /\ job.kind # "none" /\ faults \in 0 .. MaxFaults
      BY <1>0 DEF InstTypeOK, AdGuardTypeOK
    <2>2. CASE NoFault /\ Advance("pin")
      BY <2>1, <2>2, JobGoesOn, FaultCounted DEF Phase
    <2>3. CASE BreakOr(Proxy!ComposePull)
      BY <2>1, <2>3, JobBreaks
    <2> QED BY <2>2, <2>3 DEF Pull
  <1>2. AdGuardTypeOK'
    BY <1>0, <1>1, OnlyFaults DEF Pull
  <1>3. compose' \in Images \cup {Tag} /\ local' \in Images
    BY <1>0 DEF Pull, InstTypeOK
  <1>4. InstTypeOK'
    BY <1>0, <1>1, <1>3, WorkerKept DEF Pull, InstTypeOK, JobOnly
  <1> QED BY <1>2, <1>4 DEF Types

\* It pins what the registry answers.
LEMMA PinDigestsTypes ==
  ASSUME Types, PinDigests PROVE Types'
  <1>0. AdGuardTypeOK /\ InstTypeOK /\ job.at = "pin"
    BY DEF Types, PinDigests, Working
  <1>a. job \in Job /\ job.kind # "none" /\ faults \in 0 .. MaxFaults
    BY <1>0 DEF InstTypeOK, AdGuardTypeOK
  <1>1. /\ job' \in Job /\ job'.kind = job.kind /\ job'.at # "none" /\ faults' \in 0 .. MaxFaults
        /\ compose' \in Images \cup {Tag} /\ local' \in Images
    <2>1. CASE Break /\ UNCHANGED <<local, compose>>
      BY <1>0, <1>a, <2>1, JobBreaks DEF InstTypeOK
    <2>2. CASE Resolve({registry, local, Tag}) /\ compose' = job'.image
      <3>1. PICK image \in {registry, local, Tag}, at \in {"create", "attest"} :
              job' = [job EXCEPT !.image = image, !.at = at]
        BY <2>2 DEF Resolve
      <3>2. image \in Images \cup {Tag} /\ at \in Phase /\ at # "none"
        BY <1>0 DEF InstTypeOK, Phase
      <3>3. job' \in Job /\ job'.kind = job.kind /\ job'.at # "none" /\ job'.image = image
        BY <1>a, <3>1, <3>2 DEF Job
      <3>4. faults' \in 0 .. MaxFaults /\ local' \in Images
        BY <1>0, <1>a, FaultCounted DEF PinDigests, InstTypeOK, Break
      <3> QED BY <2>2, <3>2, <3>3, <3>4
    <2>3. Resolve({local, Tag}) => Resolve({registry, local, Tag})
      BY DEF Resolve
    <2> QED BY <2>1, <2>2, <2>3 DEF PinDigests
  <1>2. AdGuardTypeOK'
    BY <1>0, <1>1, OnlyFaults DEF PinDigests
  <1>4. InstTypeOK'
    BY <1>0, <1>a, <1>1, WorkerKept DEF PinDigests, InstTypeOK, JobOnly
  <1> QED BY <1>2, <1>4 DEF Types

\* A restore creates the containers without starting them.
LEMMA CreateStoppedTypes ==
  ASSUME Types, CreateStopped PROVE Types'
  <1>0. AdGuardTypeOK /\ InstTypeOK /\ job.at = "create"
    BY DEF Types, CreateStopped, Working
  <1>a. job \in Job /\ job.kind # "none" /\ faults \in 0 .. MaxFaults
    BY <1>0 DEF InstTypeOK, AdGuardTypeOK
  <1>1. job' \in Job /\ job'.kind = job.kind /\ job'.at # "none" /\ faults' \in 0 .. MaxFaults
    <2>1. CASE NoFault /\ job' = [job EXCEPT !.at = "directories", !.created = TRUE]
      BY <1>a, <2>1, FaultCounted DEF Job, Phase
    <2>2. CASE BreakOr(Proxy!ComposeCreate)
      BY <1>a, <2>2, JobBreaks
    <2> QED BY <2>1, <2>2 DEF CreateStopped
  <1>2. AdGuardTypeOK'
    BY <1>0, <1>1, OnlyFaults DEF CreateStopped
  <1>3. Pinned \in Images \cup {NoImage}
    BY <1>0 DEF Pinned, InstTypeOK, NoImage
  <1>4. docker' \in Docker /\ resources' \in BOOLEAN /\ mess' \subseteq Mess
    <2>1. docker' \in {docker, [at |-> "created", image |-> Pinned]} /\ resources' \in {resources, TRUE}
          /\ mess' \in {mess, mess \cup {"partialCreate"}}
      BY DEF CreateStopped
    <2>2. [at |-> "created", image |-> Pinned] \in Docker
      BY <1>3 DEF Docker
    <2> QED BY <1>0, <2>1, <2>2 DEF InstTypeOK, Mess
  <1>5. InstTypeOK'
    BY <1>0, <1>a, <1>1, <1>4, WorkerKept DEF CreateStopped, InstTypeOK, JobOnly
  <1> QED BY <1>2, <1>5 DEF Types

\* It replaces the configuration of Unbound.
LEMMA RestoreUnboundTypes ==
  ASSUME Types, RestoreUnboundDirectory PROVE Types'
  <1>0. AdGuardTypeOK /\ InstTypeOK /\ job.at = "directories"
    BY DEF Types, RestoreUnboundDirectory, Working
  <1>a. job \in Job /\ job.kind # "none" /\ faults \in 0 .. MaxFaults /\ restore \in RestoreState
    BY <1>0 DEF InstTypeOK, AdGuardTypeOK
  <1>1. /\ job' \in Job /\ job'.kind = job.kind /\ job'.at # "none" /\ faults' \in 0 .. MaxFaults
        /\ conf' \in Content
    <2>1. CASE NoFault /\ conf' = "archive" /\ Advance("adguardDirectory")
      BY <1>a, <2>1, JobGoesOn, FaultCounted DEF Phase, Content
    <2>2. CASE Break /\ conf' = "cleared"
      BY <1>a, <2>2, JobBreaks DEF Content
    <2> QED BY <2>1, <2>2 DEF RestoreUnboundDirectory
  <1>2. AdGuardTypeOK'
    BY <1>0, <1>1, OnlyFaults DEF RestoreUnboundDirectory
  <1>3. restore' \in RestoreState /\ restore'.at = restore.at
    BY <1>a, RestoreSet DEF RestoreUnboundDirectory, RestoreStage
  <1>4. InstTypeOK'
    BY <1>0, <1>a, <1>1, <1>3, WorkerKept DEF RestoreUnboundDirectory, InstTypeOK, JobOnly
  <1> QED BY <1>2, <1>4 DEF Types

\* It replaces the directory of AdGuard Home.
LEMMA RestoreAdGuardTypes ==
  ASSUME Types, RestoreAdGuardDirectory PROVE Types'
  <1>0. AdGuardTypeOK /\ InstTypeOK /\ job.at = "adguardDirectory"
    BY DEF Types, RestoreAdGuardDirectory, Working
  <1>a. job \in Job /\ job.kind # "none" /\ faults \in 0 .. MaxFaults
    BY <1>0 DEF InstTypeOK, AdGuardTypeOK
  <1>1. /\ job' \in Job /\ job'.kind = job.kind /\ job'.at # "none" /\ faults' \in 0 .. MaxFaults
        /\ stored' \in Password /\ staged' \in Password
    <2>1. CASE NoFault /\ stored' = Archived /\ Advance("volumes")
      BY <1>a, <2>1, JobGoesOn, FaultCounted, Passwords DEF Phase, RestoreAdGuardDirectory
    <2>2. CASE Break /\ stored' \in {0, Archived}
      BY <1>a, <2>2, JobBreaks, Passwords DEF RestoreAdGuardDirectory
    <2> QED BY <2>1, <2>2 DEF RestoreAdGuardDirectory
  <1>2. tokenServed' \in BOOLEAN /\ pageBroken' \in BOOLEAN
    BY <1>0, TokenReplaced DEF RestoreAdGuardDirectory, AdGuardTypeOK
  <1>3. AdGuardTypeOK'
    BY <1>0, <1>1, <1>2, AdGuardKept DEF RestoreAdGuardDirectory, AdGuardTypeOK, AdGuard
  <1>4. InstTypeOK'
    BY <1>0, <1>a, <1>1, WorkerKept DEF RestoreAdGuardDirectory, quiet, InstTypeOK, JobOnly
  <1> QED BY <1>3, <1>4 DEF Types

\* It replaces the volumes.
LEMMA RestoreVolumesTypes ==
  ASSUME Types, RestoreVolumes PROVE Types'
  <1>0. AdGuardTypeOK /\ InstTypeOK /\ job.at = "volumes"
    BY DEF Types, RestoreVolumes, Working
  <1>a. job \in Job /\ job.kind # "none" /\ faults \in 0 .. MaxFaults /\ adguard \in AdGuard
    BY <1>0 DEF InstTypeOK, AdGuardTypeOK, AdGuard
  <1>1. job' \in Job /\ job'.kind = job.kind /\ job'.at # "none" /\ faults' \in 0 .. MaxFaults
    <2>1. CASE NoFault /\ Advance("attest")
      BY <1>a, <2>1, JobGoesOn, FaultCounted DEF Phase
    <2>2. CASE BreakOr(Proxy!RestoreCommands)
      BY <1>a, <2>2, JobBreaks
    <2> QED BY <2>1, <2>2 DEF RestoreVolumes
  <1>2. adguard' \in AdGuard
    <2>1. PICK p \in {0, Archived} : adguard' = [adguard EXCEPT !.password = p]
      BY DEF RestoreVolumes
    <2> QED BY <1>a, <2>1, Passwords DEF AdGuard
  <1>3. AdGuardTypeOK'
    BY <1>0, <1>1, <1>2, AdGuardKept DEF RestoreVolumes, AdGuardTypeOK
  <1>4. InstTypeOK'
    BY <1>0, <1>a, <1>1, WorkerKept DEF RestoreVolumes, quiet, InstTypeOK, JobOnly
  <1> QED BY <1>3, <1>4 DEF Types

\* The image is attested.
LEMMA VerifyAttestationTypes ==
  ASSUME Types, VerifyAttestation PROVE Types'
  <1>0. AdGuardTypeOK /\ InstTypeOK /\ job.at = "attest"
    BY DEF Types, VerifyAttestation, Working
  <1>a. job \in Job /\ job.kind # "none" /\ faults \in 0 .. MaxFaults
    BY <1>0 DEF InstTypeOK, AdGuardTypeOK
  <1>1. job' \in Job /\ job'.kind = job.kind /\ job'.at # "none" /\ faults' \in 0 .. MaxFaults
    BY <1>a, JobGoesOn, FaultCounted DEF VerifyAttestation, Phase
  <1>2. AdGuardTypeOK'
    BY <1>0, <1>1, OnlyFaults DEF VerifyAttestation
  <1>3. InstTypeOK'
    BY <1>0, <1>a, <1>1, WorkerKept DEF VerifyAttestation, quiet, InstTypeOK, JobOnly
  <1> QED BY <1>2, <1>3 DEF Types

\* compose up may go either way with the containers and with AdGuard.
LEMMA ComposeUpEffects ==
  ASSUME ComposeUp
  PROVE  /\ docker' \in {docker, [at |-> "up", image |-> Pinned]} /\ resources' \in {resources, TRUE}
         /\ \E up \in BOOLEAN : adguard' = [adguard EXCEPT !.up = up] \/ adguard' = adguard
         /\ tokenServed' \in {TRUE, tokenServed}
         /\ (NoFault /\ Advance("connect")) \/ \E recreate \in Recreated : BreakOr(Proxy!ComposeUp(recreate))
  <1>1. Rendered \subseteq {TRUE, tokenServed}
    BY DEF Rendered
  <1> QED BY <1>1 DEF ComposeUp

\* Compose starts what it finds.
LEMMA ComposeUpTypes ==
  ASSUME Types, ComposeUp PROVE Types'
  <1>0. AdGuardTypeOK /\ InstTypeOK /\ job.at = "up"
    BY DEF Types, ComposeUp, Working
  <1>a. job \in Job /\ job.kind # "none" /\ faults \in 0 .. MaxFaults /\ adguard \in AdGuard
    BY <1>0 DEF InstTypeOK, AdGuardTypeOK, AdGuard
  <1>1. job' \in Job /\ job'.kind = job.kind /\ job'.at # "none" /\ faults' \in 0 .. MaxFaults
    <2>1. CASE NoFault /\ Advance("connect")
      BY <1>a, <2>1, JobGoesOn, FaultCounted DEF Phase
    <2>2. CASE \E recreate \in Recreated : BreakOr(Proxy!ComposeUp(recreate))
      BY <1>a, <2>2, JobBreaks
    <2> QED BY <2>1, <2>2, ComposeUpEffects
  <1>2. adguard' \in AdGuard /\ tokenServed' \in BOOLEAN
    <2>1. PICK up \in BOOLEAN : adguard' = [adguard EXCEPT !.up = up] \/ adguard' = adguard
      BY ComposeUpEffects
    <2> QED BY <1>0, <1>a, <2>1, ComposeUpEffects DEF AdGuard, AdGuardTypeOK
  <1>3. AdGuardTypeOK'
    BY <1>0, <1>1, <1>2, AdGuardKept DEF ComposeUp, AdGuardTypeOK
  <1>4. docker' \in Docker /\ resources' \in BOOLEAN
    <2>1. Pinned \in Images \cup {NoImage}
      BY <1>0 DEF Pinned, InstTypeOK, NoImage
    <2>2. [at |-> "up", image |-> Pinned] \in Docker
      BY <2>1 DEF Docker
    <2> QED BY <1>0, <2>2, ComposeUpEffects DEF InstTypeOK
  <1>5. InstTypeOK'
    BY <1>0, <1>a, <1>1, <1>4, WorkerKept DEF ComposeUp, InstTypeOK, JobOnly
  <1> QED BY <1>3, <1>5 DEF Types

\* The containers get their network and become healthy.
LEMMA ConnectAndWaitTypes ==
  ASSUME Types, ConnectAndWait PROVE Types'
  <1>0. AdGuardTypeOK /\ InstTypeOK /\ job.at = "connect"
    BY DEF Types, ConnectAndWait, Working
  <1>a. job \in Job /\ job.kind # "none" /\ faults \in 0 .. MaxFaults
    BY <1>0 DEF InstTypeOK, AdGuardTypeOK
  <1>1. job' \in Job /\ job'.kind = job.kind /\ job'.at # "none" /\ faults' \in 0 .. MaxFaults
    <2>1. CASE NoFault /\ Advance("bootstrap")
      BY <1>a, <2>1, JobGoesOn, FaultCounted DEF Phase
    <2>2. CASE BreakOr(Proxy!NetworkConnect)
      BY <1>a, <2>2, JobBreaks
    <2>3. CASE NoFault /\ Advance("failing")
      BY <1>a, <2>3, JobGoesOn, FaultCounted DEF Phase
    <2> QED BY <2>1, <2>2, <2>3 DEF ConnectAndWait
  <1>2. AdGuardTypeOK'
    BY <1>0, <1>1, OnlyFaults DEF ConnectAndWait
  <1>3. InstTypeOK'
    BY <1>0, <1>a, <1>1, WorkerKept DEF ConnectAndWait, quiet, InstTypeOK, JobOnly
  <1> QED BY <1>2, <1>3 DEF Types

\* The job bootstraps AdGuard Home.
LEMMA RunBootstrapTypes ==
  ASSUME Types, RunBootstrap PROVE Types'
  <1>0. AdGuardTypeOK /\ InstTypeOK /\ job.at \in {"bootstrap", "booting"} /\ Deployer \in Callers
    BY InstallerAssumption DEF Types, RunBootstrap, Working, InstallerAssumption
  <1>a. job \in Job /\ job.kind # "none"
    BY <1>0 DEF InstTypeOK
  <1>1. job' \in Job /\ job'.kind = job.kind /\ job'.at # "none"
    <2>1. CASE UNCHANGED job
      BY <1>0, <1>a, <2>1
    <2>2. CASE \E at \in {"booting", "failing", "finish"} : Advance(at)
      BY <1>a, <2>2, JobGoesOn DEF Phase
    <2> QED BY <2>1, <2>2 DEF RunBootstrap, AfterBootstrapError
  <1>2. AdGuardTypeOK'
    <2>1. CASE StartBootstrap(Deployer) \/ BootstrapStep(Deployer) \/ Reload(Deployer)
      BY <1>0, <2>1, BootstrapTypes
    <2>2. CASE UNCHANGED agVars
      BY <1>0, <2>2, NoneOfAdGuard
    <2> QED BY <2>1, <2>2 DEF RunBootstrap
  <1>3. InstTypeOK'
    BY <1>0, <1>a, <1>1, WorkerKept DEF RunBootstrap, quiet, InstTypeOK, JobOnly
  <1> QED BY <1>2, <1>3 DEF Types

\* The job ends well.
LEMMA FinishTypes ==
  ASSUME Types, Finish PROVE Types'
  <1>0. AdGuardTypeOK /\ InstTypeOK /\ job.at = "finish"
    BY DEF Types, Finish, Working
  <1>a. faults' \in 0 .. MaxFaults /\ stateFile' \in {stateFile, "installed"}
    BY <1>0, FaultCounted DEF Finish, NotPersisted, AdGuardTypeOK
  <1>1. AdGuardTypeOK'
    BY <1>0, <1>a, OnlyFaults DEF Finish
  <1>2. restore' \in RestoreState
    BY <1>0, RestoreSet, NoneYet DEF Finish, InstTypeOK, RestoreStage
  <1>3. mess' \subseteq Mess
    <2>1. mess' \in {mess, mess \cup {"finalStatus"}}
      BY DEF Finish
    <2> QED BY <1>0, <2>1 DEF InstTypeOK, Mess
  <1>4. InstTypeOK'
    BY <1>0, <1>a, <1>2, <1>3, NoneYet DEF Finish, InstTypeOK, State
  <1> QED BY <1>1, <1>4 DEF Types

\* What the removal of the containers may leave.
LEMMA FailEffects ==
  ASSUME Types, Fail
  PROVE  /\ docker' \in {docker, NoContainers} /\ resources' \in {resources, FALSE}
         /\ late' \in {late, {}} /\ tokenServed' \in {tokenServed, TRUE}
         /\ adguard' \in {adguard, Removed, [adguard EXCEPT !.up = FALSE]}
         /\ mess' \in {mess, mess \cup {"leftover"}, mess \cup {"cleanup"}}
         /\ faults' \in 0 .. MaxFaults
  <1>1. UNCHANGED faults \/ Fault
    BY DEF Fail, CleanUp
  <1>2. faults' \in 0 .. MaxFaults
    BY <1>1, FaultCounted DEF Types, AdGuardTypeOK, NoFault
  <1> QED BY <1>2 DEF Fail, CleanUp

\* Or it fails, and a restore that touched nothing is over with it.
LEMMA FailTypes ==
  ASSUME Types, Fail PROVE Types'
  <1>0. AdGuardTypeOK /\ InstTypeOK /\ job.at = "failing"
    BY DEF Types, Fail, Working
  <1>1. adguard' \in AdGuard /\ late' \subseteq Password /\ tokenServed' \in BOOLEAN
    BY <1>0, FailEffects, Passwords DEF AdGuardTypeOK, AdGuard
  <1>2. AdGuardTypeOK'
    BY <1>0, <1>1, FailEffects, AdGuardKept DEF Fail, AdGuardTypeOK
  <1>3. restore' \in RestoreState
    BY <1>0, RestoreSet, NoneYet DEF Fail, InstTypeOK, RestoreStage
  <1>4. docker' \in Docker /\ resources' \in BOOLEAN /\ mess' \subseteq Mess
    BY <1>0, FailEffects, NoneYet DEF InstTypeOK, Mess
  <1>5. InstTypeOK'
    BY <1>0, <1>3, <1>4, NoneYet DEF Fail, InstTypeOK, State
  <1> QED BY <1>2, <1>5 DEF Types

\* Restore puts the directories back.
LEMMA UndoTypes ==
  ASSUME Types, Undo PROVE Types'
  <1>0. AdGuardTypeOK /\ InstTypeOK /\ job.kind # "restore"
    BY DEF Types, Undo, UndoUnboundDirectory, UndoAdGuardDirectory, NormalizeOwnership, InstTypeOK
  <1>1. faults' \in 0 .. MaxFaults
    BY <1>0, FaultCounted DEF Undo, UndoUnboundDirectory, UndoAdGuardDirectory, NormalizeOwnership, AdGuardTypeOK
  <1>2. restore \in RestoreState /\ restore' \in RestoreState
    BY <1>0, RestoreSet, NoneYet DEF Undo, UndoUnboundDirectory, UndoAdGuardDirectory, NormalizeOwnership, InstTypeOK, RestoreStage
  <1>3. mess' \subseteq Mess
    <2>1. mess' \in {mess, mess \cup {"rollback"}}
      BY DEF Undo, UndoUnboundDirectory, UndoAdGuardDirectory, NormalizeOwnership
    <2> QED BY <1>0, <2>1 DEF InstTypeOK, Mess
  <1>4. stored' \in Password /\ staged' \in Password /\ conf' \in Content
    BY <1>0, <1>2, Passwords
    DEF Undo, UndoUnboundDirectory, UndoAdGuardDirectory, NormalizeOwnership, ExceptFaults, RestoreState, AdGuardTypeOK, InstTypeOK, Content
  <1>a. tokenServed' \in BOOLEAN /\ pageBroken' \in BOOLEAN /\ readable' \in BOOLEAN
    BY <1>0, TokenReplaced
    DEF Undo, UndoUnboundDirectory, UndoAdGuardDirectory, NormalizeOwnership, ExceptFaults, AdGuardTypeOK, InstTypeOK
  <1>5. AdGuardTypeOK'
    BY <1>0, <1>1, <1>4, <1>a, AdGuardKept
    DEF Undo, UndoUnboundDirectory, UndoAdGuardDirectory, NormalizeOwnership, ExceptFaults, AdGuardTypeOK, AdGuard
  <1>6. InstTypeOK'
    BY <1>0, <1>2, <1>3, <1>4, <1>a DEF Undo, UndoUnboundDirectory, UndoAdGuardDirectory, NormalizeOwnership, InstTypeOK
  <1> QED BY <1>5, <1>6 DEF Types

\* Requests, late answers and the registry leave the installation alone.
LEMMA InstallationAlone ==
  ASSUME InstTypeOK, UNCHANGED <<state, stateFile, job, compose, local, docker, resources, conf, readable, restore, stuck, mess>>,
         spent' \in Spent, registry' \in Images
  PROVE  InstTypeOK'
  BY DEF InstTypeOK

\* Another caller bootstraps.
LEMMA RequestTypes ==
  ASSUME Types, NEW c \in Callers, Request(c) PROVE Types'
  <1>1. AdGuardTypeOK'
    BY BootstrapTypes DEF Types, Request
  <1>2. InstTypeOK'
    BY InstallationAlone DEF Types, Request, instVars, InstTypeOK
  <1> QED BY <1>1, <1>2 DEF Types

\* A late answer of AdGuard Home.
LEMMA ApplyLateTypes ==
  ASSUME Types, ApplyLate, UNCHANGED instVars PROVE Types'
  <1>0. AdGuardTypeOK /\ InstTypeOK /\ adguard \in AdGuard /\ late \subseteq Password
    BY DEF Types, AdGuardTypeOK, AdGuard
  <1>1. PICK pass \in late : adguard' = [adguard EXCEPT !.password = pass] /\ late' = late \ {pass}
    BY DEF ApplyLate
  <1>2. adguard' \in AdGuard /\ late' \subseteq Password
    BY <1>0, <1>1 DEF AdGuard
  <1>3. AdGuardTypeOK'
    BY <1>0, <1>2, AdGuardKept DEF ApplyLate, AdGuardTypeOK
  <1>4. InstTypeOK'
    BY <1>0, InstallationAlone DEF instVars, InstTypeOK
  <1> QED BY <1>3, <1>4 DEF Types

\* A restart of the control plane.
LEMMA RestartTypes ==
  ASSUME Types, Restart PROVE Types'
  <1>0. AdGuardTypeOK /\ InstTypeOK
    BY DEF Types
  <1>1. boot' \in [Callers -> Boot]
    BY Passwords DEF Restart
  <1>2. late' \subseteq Password
    BY <1>0 DEF Restart, AdGuardTypeOK
  <1>3. pageBroken' \in BOOLEAN
    BY DEF Restart
  <1>4. AdGuardTypeOK'
    BY <1>0, <1>1, <1>2, <1>3 DEF Restart, AdGuardTypeOK, AdGuard, Boot
  <1>5. spent' \in Spent /\ mess' \subseteq Mess
    <2>1. mess' \in {mess, mess \cup {"crash"}}
      BY DEF Restart
    <2>2. mess' \subseteq Mess
      BY <1>0, <2>1 DEF InstTypeOK, Mess
    <2> QED BY <1>0, <2>2, SpentTypes DEF Restart, InstTypeOK
  <1>6. InstTypeOK'
    BY <1>0, <1>5, NoneYet DEF Restart, InstTypeOK, State
  <1> QED BY <1>4, <1>6 DEF Types

\* The registry moves its tag.
LEMMA MoveTagTypes ==
  ASSUME Types, MoveTag PROVE Types'
  <1>1. AdGuardTypeOK'
    BY NoneOfAdGuard DEF Types, MoveTag
  <1>2. spent' \in Spent
    BY SpentTypes DEF Types, MoveTag, InstTypeOK
  <1>3. InstTypeOK'
    BY <1>2, InstallationAlone DEF Types, MoveTag, InstTypeOK
  <1> QED BY <1>1, <1>3 DEF Types

\* A stutter.
LEMMA UnchangedTypes ==
  ASSUME Types, UNCHANGED vars PROVE Types'
  <1>1. AdGuardTypeOK'
    BY NoneOfAdGuard DEF Types, vars
  <1>2. InstTypeOK'
    BY InstallationAlone DEF Types, vars, instVars, InstTypeOK
  <1> QED BY <1>1, <1>2 DEF Types

\* Every step keeps the types.
LEMMA TypesNext == Types /\ [Next]_vars => Types'
  <1> SUFFICES ASSUME Types, [Next]_vars PROVE Types'
    OBVIOUS
  <1>1. CASE Start \/ CopyDirectories \/ RestorePreflight \/ BeginRestore
    BY <1>1, StartTypes, CopyDirectoriesTypes, RestorePreflightTypes, BeginRestoreTypes
  <1>2. CASE Worker
    BY <1>2, PullTypes, PinDigestsTypes, CreateStoppedTypes, RestoreUnboundTypes, RestoreAdGuardTypes,
       RestoreVolumesTypes, VerifyAttestationTypes, ComposeUpTypes, ConnectAndWaitTypes, RunBootstrapTypes,
       FinishTypes, FailTypes
    DEF Worker
  <1>3. CASE Undo \/ Restart \/ MoveTag \/ UNCHANGED vars
    BY <1>3, UndoTypes, RestartTypes, MoveTagTypes, UnchangedTypes
  <1>4. CASE (\E c \in Callers : Request(c)) \/ (ApplyLate /\ UNCHANGED instVars)
    BY <1>4, RequestTypes, ApplyLateTypes
  <1> QED BY <1>1, <1>2, <1>3, <1>4 DEF Next

\* The state and the worker keep to their sets, the worker exists only while the
\* state is deploying, and the restore's exactly while its handler waits for it.
THEOREM TypeCorrectness == Spec => []TypeOK
  <1>1. Init => Types
    BY InitTypes, TypeOKParts DEF Types
  <1>2. Types => TypeOK
    BY TypeOKParts DEF Types
  <1> QED BY <1>1, <1>2, TypesNext, PTL DEF Spec

-----------------------------------------------------------------------------
(* What holds between the installation, a restore and the credentials *)

Staging == {"configure", "activate"}
Ready   == {"ready", "upstream", "filtering", "publish", "confirm", "done"}
Undoing == restore.at \in {"undo", "undoAdguard"}
NoneAt(stages) == \A c \in Callers : boot[c].at \notin stages

\* Nothing went wrong in a restore but what its own failure always leaves; nor
\* did two writers of the credentials meet. Both are given up for good.
Benign  == mess \subseteq {"leftover"}
Clean   == ~raced /\ Benign
Managed == docker.at = "up" /\ LogsIn(stored) /\ adguard.upstream

\* How far the worker, its files and the restore handler are together.
Phases ==
  /\ job.kind # "none" => stateFile = "deploying"
  /\ restore.at = "running" => job.kind = "restore"
  /\ job.at \in {"create", "directories", "adguardDirectory", "volumes"} => job.kind = "restore"
  /\ job.created => job.kind = "restore"
  /\ job.at \in {"directories", "adguardDirectory", "volumes"} => job.created
  /\ restore.at = "running" /\ restore.touched => job.created
  /\ restore.at \in {"idle", "copied", "clean"} => ~restore.touched
  /\ job.at # "booting" => boot[Deployer].at = "idle"
  /\ restore.at = "undoAdguard" => conf = restore.conf
  /\ Undoing => mess # {}
  /\ job.at \in {"connect", "bootstrap", "booting", "finish"} => docker.at = "up"

\* As long as the volumes and the network have never been there nothing else has.
NothingYet ==
  ~resources =>
    /\ docker.at = "absent" /\ adguard = Removed
    /\ late = {} /\ stored = 0 /\ staged = 0 /\ conf = "before" /\ ~raced
    /\ NoneAt({"install"} \cup Staging \cup Ready)
    /\ restore.at # "idle" => /\ restore.conf = "before" /\ restore.stored = 0 /\ restore.staged = 0
                              /\ ~restore.touched
    /\ ~Undoing /\ ~job.created
    /\ job.kind = "restore" => job.at \in {"pull", "pin", "create", "failing"}

\* A restore that began on such a host has it for itself, and puts the archive
\* in place directory by directory.
BeforeFiles   == {"pull", "pin", "create", "directories"}
BeforeAdGuard == BeforeFiles \cup {"adguardDirectory"}
BeforeVolumes == BeforeAdGuard \cup {"volumes"}
RestoreUnderWay ==
  restore.at = "running" /\ Benign =>
    /\ ~raced /\ late = {} /\ staged = 0 /\ NoneAt({"install"} \cup Staging)
    /\ restore.conf = "before" /\ restore.stored = 0 /\ restore.staged = 0
    /\ ~job.created => docker.at = "absent" /\ adguard = Removed
    /\ ~restore.touched => conf = "before" /\ stored = 0
    /\ job.at \in BeforeFiles => ~restore.touched
    /\ job.at \notin BeforeFiles \cup {"failing"} => conf = "archive" /\ job.created
    /\ job.at \notin BeforeAdGuard \cup {"failing"} => stored = Archived
    /\ job.at \notin BeforeVolumes \cup {"failing"} => adguard.password = Archived
    /\ job.at \in BeforeVolumes => ~adguard.up
    /\ adguard.up => adguard.password = Archived /\ stored = Archived

\* While its handler puts the directories back, AdGuard is gone.
UndoUnderWay ==
  Clean /\ Undoing =>
    /\ state = "failed" /\ stateFile # "installed"
    /\ ~adguard.up /\ late = {} /\ staged = 0 /\ NoneAt({"install"} \cup Staging)
    /\ restore.stored = 0 /\ restore.staged = 0

\* One caller at most has a password in the temporary file, and it is AdGuard's
\* as soon as AdGuard has been told.
OneStaged ==
  Clean => \A c \in Callers : boot[c].at \in Staging =>
    /\ staged = boot[c].pass /\ boot[c].pass # 0 /\ stored = 0 /\ late = {}
    /\ \A d \in Callers : boot[d].at \in Staging => d = c
    /\ boot[c].at = "configure" => adguard.password = 0
    /\ boot[c].at = "activate" => adguard.password = boot[c].pass

\* The password in credentials.json is AdGuard's own.
StoredOpens ==
  Clean /\ stored # 0 /\ restore.at # "running" /\ ~Undoing => adguard.password = stored

\* A request that is still to be carried out carries the staged password.
LateIsStaged ==
  Clean /\ late # {} => late = {staged} /\ stored = 0 /\ adguard.password = 0 /\ NoneAt(Staging)

\* The password AdGuard has is in one of the files.
Recoverable ==
  ~raced /\ mess = {} /\ adguard.password # 0 => adguard.password \in {stored, staged} \/ job.kind = "restore"

\* The worker's own bootstrap goes on with the stored password, and ends with an
\* AdGuard that takes it and forwards to Unbound.
DeployerHolds ==
  Clean =>
    /\ boot[Deployer].at \in Ready => boot[Deployer].pass = stored /\ stored # 0
    /\ boot[Deployer].at = "done" \/ job.at = "finish" => LogsIn(stored) /\ adguard.upstream

\* Installed, in memory or in the file, means managed.
StaysManaged == Clean /\ "installed" \in {state, stateFile} => Managed

Kept ==
  /\ Phases /\ NothingYet /\ RestoreUnderWay /\ UndoUnderWay /\ OneStaged /\ StoredOpens
  /\ LateIsStaged /\ Recoverable /\ DeployerHolds /\ StaysManaged

IInv == Types /\ Kept

\* At first nothing is installed, staged or stored.
LEMMA KeptInit == Init => Kept
  <1> SUFFICES ASSUME Init PROVE Kept
    OBVIOUS
  <1>1. /\ boot \in [Callers -> {NoBoot}] /\ NoBoot.at = "idle" /\ Deployer \in Callers
        /\ \A c \in Callers : boot[c].at = "idle"
    BY InstallerAssumption DEF Init, AdGuardInit, NoBoot, InstallerAssumption
  <1>2. Phases /\ NothingYet
    BY <1>1, NoneYet DEF Init, AdGuardInit, Phases, NothingYet, Undoing, NoneAt, Staging, Ready
  <1>3. RestoreUnderWay /\ UndoUnderWay /\ OneStaged /\ StoredOpens
    BY <1>1, NoneYet DEF Init, AdGuardInit, RestoreUnderWay, UndoUnderWay, Undoing, OneStaged, Staging, StoredOpens
  <1>4. LateIsStaged /\ Recoverable /\ DeployerHolds /\ StaysManaged
    BY <1>1, NoneYet DEF Init, AdGuardInit, LateIsStaged, Recoverable, Removed, DeployerHolds, Ready, StaysManaged
  <1> QED BY <1>2, <1>3, <1>4 DEF Kept

\* The proxy has no rule to delete a network: what compose created stays.
LEMMA ResourcesStay == ~Proxy!Forwarded(Proxy!RemoveResources)
  <1>1. Proxy!Plain("delete", "network", "rootguard-dns") \in Proxy!RemoveResources
    BY DEF Proxy!RemoveResources
  <1>2. ~Proxy!Admits(Proxy!Plain("delete", "network", "rootguard-dns"))
    BY DEF Proxy!Admits, Proxy!Plain, Proxy!Request, Proxy!Rules, Proxy!Rules_WithoutRename
  <1> QED BY <1>1, <1>2 DEF Proxy!Forwarded

\* Nothing moved that the parts speak of.
LEMMA NothingMoved ==
  ASSUME Kept, UNCHANGED <<stored, staged, adguard, late, boot, raced>>,
         UNCHANGED <<state, stateFile, job, docker, resources, conf, restore, mess>>
  PROVE  Kept'
  BY DEF Kept, Phases, NothingYet, RestoreUnderWay, UndoUnderWay, OneStaged, StoredOpens, LateIsStaged,
         Recoverable, DeployerHolds, StaysManaged, Undoing, NoneAt, Benign, Clean, Managed, LogsIn

\* The worker goes on to its next phase, or fails, and touches nothing else.
LEMMA OnlyTheWorker ==
  ASSUME IInv, UNCHANGED <<stored, staged, adguard, late, boot, raced>>,
         UNCHANGED <<state, stateFile, docker, resources, conf, restore, mess>>,
         job.kind # "none", job'.kind = job.kind, job'.created = job.created,
         job.at \in {"pull", "pin", "attest", "connect"},
         job'.at \in {"pin", "create", "attest", "up", "bootstrap", "failing"},
         job'.at = "pin" => job.at = "pull",
         job'.at = "create" => job.at = "pin" /\ job.kind = "restore",
         job'.at = "attest" => job.at = "pin" /\ job.kind # "restore",
         job'.at = "up" => job.at = "attest",
         job'.at = "bootstrap" => job.at = "connect"
  PROVE  Kept'
  <1>1. Phases'
    BY DEF IInv, Kept, Phases, Undoing
  <1>2. NothingYet'
    BY DEF IInv, Kept, NothingYet, Undoing, NoneAt
  <1>3. RestoreUnderWay'
    BY DEF IInv, Kept, Phases, NothingYet, RestoreUnderWay, Benign, NoneAt, BeforeFiles, BeforeAdGuard, BeforeVolumes
  <1>4. UndoUnderWay' /\ OneStaged' /\ StoredOpens' /\ LateIsStaged' /\ Recoverable'
    BY DEF IInv, Kept, UndoUnderWay, OneStaged, StoredOpens, LateIsStaged, Recoverable, Undoing, NoneAt, Benign, Clean
  <1>5. DeployerHolds' /\ StaysManaged'
    BY DEF IInv, Kept, DeployerHolds, StaysManaged, Benign, Clean, Managed, LogsIn
  <1> QED BY <1>1, <1>2, <1>3, <1>4, <1>5 DEF Kept

\* A deployment that begins has created nothing yet.
LEMMA StartKept ==
  ASSUME IInv, Start PROVE Kept'
  <1>0. Types /\ Types' /\ job.kind = "none" /\ job.at = "none"
    BY StartTypes DEF IInv, Start, MayStart, Types, InstTypeOK
  <1>1. /\ UNCHANGED <<stored, staged, adguard, late, boot, docker, resources, conf, restore, mess>>
        /\ restore.at # "running" /\ job'.kind # "restore" /\ ~job'.created
        /\ job'.kind # "none" => stateFile' = "deploying"
    BY <1>0, NoneYet DEF Start, quiet, IInv, Kept, Phases
  <1>2. CASE /\ state' = "deploying" /\ stateFile' = "deploying"
             /\ job'.kind = "deploy" /\ job'.at = "pull" /\ (raced' <=> raced \/ Undoing)
    <2>1. Phases' /\ NothingYet'
      BY <1>0, <1>1, <1>2 DEF IInv, Kept, Phases, NothingYet, Undoing, NoneAt
    <2>2. RestoreUnderWay' /\ UndoUnderWay'
      BY <1>1, <1>2 DEF RestoreUnderWay, UndoUnderWay, Undoing, Clean
    <2>3. OneStaged' /\ StoredOpens' /\ LateIsStaged' /\ Recoverable'
      BY <1>0, <1>1, <1>2
      DEF IInv, Kept, OneStaged, StoredOpens, LateIsStaged, Recoverable, Undoing, NoneAt, Clean, Benign
    <2>4. DeployerHolds' /\ StaysManaged'
      BY <1>0, <1>1, <1>2 DEF IInv, Kept, DeployerHolds, StaysManaged, Clean, Benign, LogsIn, Managed
    <2> QED BY <2>1, <2>2, <2>3, <2>4 DEF Kept
  <1>3. CASE state' = "failed" /\ stateFile' \in {stateFile, "deploying"} /\ UNCHANGED <<job, raced>>
    <2>1. Phases' /\ NothingYet'
      BY <1>1, <1>3 DEF IInv, Kept, Phases, NothingYet, Undoing, NoneAt
    <2>2. RestoreUnderWay' /\ UndoUnderWay'
      BY <1>1, <1>3 DEF IInv, Kept, RestoreUnderWay, UndoUnderWay, Undoing, NoneAt, Benign, Clean
    <2>3. OneStaged' /\ StoredOpens' /\ LateIsStaged' /\ Recoverable'
      BY <1>1, <1>3
      DEF IInv, Kept, OneStaged, StoredOpens, LateIsStaged, Recoverable, Undoing, NoneAt, Clean, Benign
    <2>4. DeployerHolds' /\ StaysManaged'
      BY <1>1, <1>3 DEF IInv, Kept, DeployerHolds, StaysManaged, Clean, Benign, LogsIn, Managed
    <2> QED BY <2>1, <2>2, <2>3, <2>4 DEF Kept
  <1> QED BY <1>2, <1>3, NoneYet DEF Start, NotPersisted, Undoing

\* The copies of a restore change nothing that is in use.
LEMMA CopyDirectoriesKept ==
  ASSUME IInv, CopyDirectories PROVE Kept'
  <1>1. /\ UNCHANGED <<stored, staged, adguard, late, boot, raced>>
        /\ UNCHANGED <<state, stateFile, job, docker, resources, conf, mess>>
        /\ restore.at = "idle" /\ restore'.at = "copied" /\ ~restore'.touched
        /\ restore'.conf = conf /\ restore'.stored = stored /\ restore'.staged = staged
    BY DEF CopyDirectories, agVars, quiet
  <1>2. Phases' /\ NothingYet'
    BY <1>1 DEF IInv, Kept, Phases, NothingYet, Undoing, NoneAt
  <1>3. RestoreUnderWay' /\ UndoUnderWay'
    BY <1>1 DEF RestoreUnderWay, UndoUnderWay, Undoing
  <1>4. OneStaged' /\ StoredOpens' /\ LateIsStaged' /\ Recoverable'
    BY <1>1 DEF IInv, Kept, OneStaged, StoredOpens, LateIsStaged, Recoverable, Undoing, NoneAt, Clean, Benign
  <1>5. DeployerHolds' /\ StaysManaged'
    BY <1>1 DEF IInv, Kept, DeployerHolds, StaysManaged, Clean, Benign, LogsIn, Managed
  <1> QED BY <1>2, <1>3, <1>4, <1>5 DEF Kept

\* Neither does its look at Docker.
LEMMA RestorePreflightKept ==
  ASSUME IInv, RestorePreflight PROVE Kept'
  <1>1. /\ UNCHANGED <<stored, staged, adguard, late, boot, raced>>
        /\ UNCHANGED <<state, stateFile, job, docker, resources, conf, mess>>
        /\ restore.at = "copied" /\ restore'.at \in {"idle", "clean"}
        /\ restore'.at = "clean" => /\ restore'.conf = restore.conf /\ restore'.stored = restore.stored
                                    /\ restore'.staged = restore.staged /\ restore'.touched = restore.touched
        /\ restore'.at = "idle" => ~restore'.touched
    BY RestoreSet, NoneYet DEF RestorePreflight, agVars, quiet, IInv, Types, InstTypeOK, RestoreStage
  <1>2. Phases' /\ NothingYet'
    BY <1>1 DEF IInv, Kept, Phases, NothingYet, Undoing, NoneAt
  <1>3. RestoreUnderWay' /\ UndoUnderWay'
    BY <1>1 DEF RestoreUnderWay, UndoUnderWay, Undoing
  <1>4. OneStaged' /\ StoredOpens' /\ LateIsStaged' /\ Recoverable'
    BY <1>1 DEF IInv, Kept, OneStaged, StoredOpens, LateIsStaged, Recoverable, Undoing, NoneAt, Clean, Benign
  <1>5. DeployerHolds' /\ StaysManaged'
    BY <1>1 DEF IInv, Kept, DeployerHolds, StaysManaged, Clean, Benign, LogsIn, Managed
  <1> QED BY <1>2, <1>3, <1>4, <1>5 DEF Kept

\* A restore that finds containers, volumes or the network of a deployment that
\* came between is marked; one that does not has the host for itself.
LEMMA BeginRestoreKept ==
  ASSUME IInv, BeginRestore PROVE Kept'
  <1>0. Types /\ restore.at = "clean" /\ restore \in RestoreState
    BY DEF IInv, BeginRestore, Types, InstTypeOK
  <1>1. UNCHANGED <<stored, staged, adguard, late, boot, raced, docker, resources, conf>>
    BY DEF BeginRestore, ExceptFaults
  <1>2. CASE /\ state \in {"not_installed", "failed"} /\ state' = "deploying" /\ stateFile' = "deploying"
             /\ job' = [NoJob EXCEPT !.kind = "restore", !.at = "pull"]
             /\ restore' = [restore EXCEPT !.at = "running"]
             /\ mess' = IF docker.at = "absent" /\ ~resources THEN mess ELSE mess \cup {"unclean"}
    <2>1. job'.kind = "restore" /\ job'.at = "pull" /\ ~job'.created
      BY <1>2, NoneYet
    <2>2. /\ restore'.at = "running" /\ restore'.conf = restore.conf /\ restore'.stored = restore.stored
          /\ restore'.staged = restore.staged /\ restore'.touched = restore.touched
      BY <1>0, <1>2, RestoreSet DEF RestoreStage
    <2>3. job.kind = "none" /\ job.at = "none" /\ boot[Deployer].at = "idle"
      BY <1>0, <1>2 DEF Types, InstTypeOK, State, IInv, Kept, Phases
    <2>4. Benign' => Benign /\ ~resources
      BY <1>2 DEF Benign
    <2>5. Phases' /\ NothingYet'
      <3>1. stateFile' = "deploying" /\ NothingYet /\ ~restore'.touched
        BY <1>0, <1>2, <2>2 DEF IInv, Kept, Phases
      <3>2. Phases'
        BY <1>0, <1>1, <2>1, <2>2, <2>3, <3>1 DEF Phases, Undoing
      <3>3. NothingYet'
        BY <1>0, <1>1, <2>1, <2>2, <3>1 DEF NothingYet, Undoing, NoneAt
      <3> QED BY <3>2, <3>3
    <2>6. RestoreUnderWay'
      BY <1>0, <1>1, <1>2, <2>1, <2>2, <2>4
      DEF IInv, Kept, NothingYet, RestoreUnderWay, NoneAt, BeforeFiles, BeforeAdGuard, BeforeVolumes, Removed
    <2>7. UndoUnderWay' /\ StoredOpens' /\ Recoverable'
      BY <2>1, <2>2 DEF UndoUnderWay, StoredOpens, Recoverable, Undoing
    <2>8. OneStaged' /\ LateIsStaged' /\ DeployerHolds'
      BY <1>0, <1>1, <1>2, <2>1, <2>2, <2>3, <2>4
      DEF IInv, Kept, OneStaged, LateIsStaged, DeployerHolds, Clean, NoneAt, LogsIn
    <2>9. StaysManaged'
      BY <1>2 DEF StaysManaged
    <2> QED BY <2>5, <2>6, <2>7, <2>8, <2>9 DEF Kept
  <1>3. CASE /\ restore' = NoRestore /\ UNCHANGED <<job, mess>> /\ stateFile' \in {stateFile, "deploying"}
             /\ state' = state \/ (state \in {"not_installed", "failed"} /\ state' = "deploying")
    <2>1. restore'.at = "idle" /\ ~restore'.touched
      BY <1>3, NoneYet
    <2>2. Phases' /\ NothingYet'
      BY <1>0, <1>1, <1>3, <2>1 DEF IInv, Kept, Phases, NothingYet, Undoing, NoneAt
    <2>3. RestoreUnderWay' /\ UndoUnderWay'
      BY <2>1 DEF RestoreUnderWay, UndoUnderWay, Undoing
    <2>4. OneStaged' /\ StoredOpens' /\ LateIsStaged' /\ Recoverable'
      BY <1>0, <1>1, <1>3, <2>1
      DEF IInv, Kept, OneStaged, StoredOpens, LateIsStaged, Recoverable, Undoing, NoneAt, Clean, Benign
    <2>5. DeployerHolds' /\ StaysManaged'
      BY <1>0, <1>1, <1>3, <2>1 DEF IInv, Kept, DeployerHolds, StaysManaged, Clean, Benign, LogsIn, Managed
    <2> QED BY <2>2, <2>3, <2>4, <2>5 DEF Kept
  <1> QED BY <1>2, <1>3 DEF BeginRestore, NotPersisted

\* The image is pulled and pinned, the gate asked and the network joined.
LEMMA PullKept ==
  ASSUME IInv, Pull PROVE Kept'
  <1>1. job \in Job /\ job.kind # "none" /\ job.at = "pull" /\ faults \in 0 .. MaxFaults
    BY DEF IInv, Types, InstTypeOK, AdGuardTypeOK, Pull, Working
  <1>2. job'.kind = job.kind /\ job'.created = job.created /\ job'.at \in {"pin", "failing"}
    BY <1>1, JobGoesOn, JobBreaks DEF Pull, Phase
  <1> QED BY <1>1, <1>2, OnlyTheWorker DEF Pull, ExceptFaults, JobOnly

\* Pinning changes the images only.
LEMMA PinDigestsKept ==
  ASSUME IInv, PinDigests PROVE Kept'
  <1>1. job \in Job /\ job.kind # "none" /\ job.at = "pin" /\ faults \in 0 .. MaxFaults
    BY DEF IInv, Types, InstTypeOK, AdGuardTypeOK, PinDigests, Working
  <1>2. /\ job'.kind = job.kind /\ job'.created = job.created
        /\ job'.at \in {IF job.kind = "restore" THEN "create" ELSE "attest", "failing"}
    <2>1. CASE Break
      BY <1>1, <2>1, JobBreaks
    <2>2. CASE \E images \in {{registry, local, Tag}, {local, Tag}} : Resolve(images)
      <3>1. PICK images \in {{registry, local, Tag}, {local, Tag}} : Resolve(images)
        BY <2>2
      <3>2. PICK image \in images :
              job' = [job EXCEPT !.image = image, !.at = IF job.kind = "restore" THEN "create" ELSE "attest"]
        BY <3>1 DEF Resolve
      <3> QED BY <1>1, <3>2 DEF Job
    <2> QED BY <2>1, <2>2 DEF PinDigests
  <1> QED BY <1>1, <1>2, OnlyTheWorker DEF PinDigests, ExceptFaults, JobOnly

\* Attesting them changes nothing.
LEMMA VerifyAttestationKept ==
  ASSUME IInv, VerifyAttestation PROVE Kept'
  <1>1. job \in Job /\ job.kind # "none" /\ job.at = "attest"
    BY DEF IInv, Types, InstTypeOK, VerifyAttestation, Working
  <1>2. job'.kind = job.kind /\ job'.created = job.created /\ job'.at \in {"up", "failing"}
    BY <1>1, JobGoesOn DEF VerifyAttestation, Phase
  <1> QED BY <1>1, <1>2, OnlyTheWorker DEF VerifyAttestation, quiet, ExceptFaults, JobOnly

\* Nor does waiting for them.
LEMMA ConnectAndWaitKept ==
  ASSUME IInv, ConnectAndWait PROVE Kept'
  <1>1. job \in Job /\ job.kind # "none" /\ job.at = "connect" /\ faults \in 0 .. MaxFaults
    BY DEF IInv, Types, InstTypeOK, AdGuardTypeOK, ConnectAndWait, Working
  <1>2. job'.kind = job.kind /\ job'.created = job.created /\ job'.at \in {"bootstrap", "failing"}
    BY <1>1, JobGoesOn, JobBreaks DEF ConnectAndWait, Phase
  <1> QED BY <1>1, <1>2, OnlyTheWorker DEF ConnectAndWait, quiet, ExceptFaults, JobOnly

\* Containers, volumes and network are there, if only in part.
LEMMA CreateStoppedKept ==
  ASSUME IInv, CreateStopped PROVE Kept'
  <1>1. /\ job \in Job /\ job.kind # "none" /\ job.at = "create" /\ faults \in 0 .. MaxFaults
        /\ job.kind = "restore" /\ restore.at = "running" /\ state = "deploying"
    BY DEF IInv, Types, InstTypeOK, AdGuardTypeOK, CreateStopped, Working, Kept, Phases
  <1>2. /\ UNCHANGED <<stored, staged, adguard, late, boot, raced, state, stateFile, conf, restore>>
        /\ resources => resources'
        /\ job'.kind = "restore"
        /\ \/ job'.at = "directories" /\ job'.created /\ resources' /\ mess' = mess
           \/ job'.at = "failing" /\ job'.created = job.created
              /\ (UNCHANGED <<docker, resources, mess>> \/ (resources' /\ mess' = mess \cup {"partialCreate"}))
    <2>1. CASE BreakOr(Proxy!ComposeCreate)
      <3>1. job'.at = "failing" /\ job'.kind = job.kind /\ job'.created = job.created
        BY <1>1, <2>1, JobBreaks
      <3>2. \/ UNCHANGED <<docker, resources, mess>>
            \/ resources' /\ mess' = mess \cup {"partialCreate"}
            \/ job' = [job EXCEPT !.at = "directories", !.created = TRUE]
        BY DEF CreateStopped
      <3>3. job' # [job EXCEPT !.at = "directories", !.created = TRUE]
        BY <1>1, <3>1 DEF Job
      <3> QED BY <1>1, <3>1, <3>2, <3>3 DEF CreateStopped, ExceptFaults, JobOnly
    <2>2. CASE /\ job' = [job EXCEPT !.at = "directories", !.created = TRUE]
               /\ resources' = TRUE /\ UNCHANGED mess
      <3>1. job'.at = "directories" /\ job'.kind = job.kind /\ job'.created
        BY <1>1, <2>2 DEF Job
      <3> QED BY <1>1, <2>2, <3>1 DEF CreateStopped, ExceptFaults, JobOnly
    <2> QED BY <2>1, <2>2 DEF CreateStopped
  <1>3. Phases'
    BY <1>1, <1>2 DEF IInv, Kept, Phases, Undoing
  <1>4. NothingYet'
    BY <1>1, <1>2 DEF IInv, Kept, NothingYet, Undoing, NoneAt
  <1>5. RestoreUnderWay'
    <2>1. Benign' => Benign /\ ("partialCreate" \notin mess')
      BY <1>2 DEF Benign
    <2> QED BY <1>1, <1>2, <2>1
        DEF IInv, Kept, Phases, RestoreUnderWay, NoneAt, BeforeFiles, BeforeAdGuard, BeforeVolumes
  <1>6. UndoUnderWay' /\ StoredOpens' /\ Recoverable' /\ StaysManaged'
    BY <1>1, <1>2 DEF IInv, Kept, Phases, UndoUnderWay, StoredOpens, Recoverable, StaysManaged, Undoing
  <1>7. OneStaged' /\ LateIsStaged' /\ DeployerHolds'
    <2>1. Clean' => Clean
      BY <1>2 DEF Clean, Benign
    <2> QED BY <1>1, <1>2, <2>1 DEF IInv, Kept, OneStaged, LateIsStaged, DeployerHolds, NoneAt, LogsIn
  <1> QED BY <1>3, <1>4, <1>5, <1>6, <1>7 DEF Kept

\* The three directories, in turn.
LEMMA RestoreUnboundKept ==
  ASSUME IInv, RestoreUnboundDirectory PROVE Kept'
  <1>1. /\ job \in Job /\ job.kind = "restore" /\ job.at = "directories" /\ faults \in 0 .. MaxFaults
        /\ job.created /\ restore.at = "running" /\ state = "deploying" /\ restore \in RestoreState
    BY DEF IInv, Types, InstTypeOK, AdGuardTypeOK, RestoreUnboundDirectory, Working, Kept, Phases
  <1>2. /\ UNCHANGED <<stored, staged, adguard, late, boot, raced, state, stateFile, docker, resources, mess>>
        /\ job'.kind = "restore" /\ job'.created
        /\ (job'.at = "adguardDirectory" /\ conf' = "archive") \/ job'.at = "failing"
        /\ restore'.at = "running" /\ restore'.conf = restore.conf /\ restore'.stored = restore.stored
        /\ restore'.staged = restore.staged /\ restore'.touched
    BY <1>1, JobGoesOn, JobBreaks, RestoreSet DEF RestoreUnboundDirectory, ExceptFaults, JobOnly, Phase, RestoreStage
  <1>3. Phases' /\ NothingYet'
    BY <1>1, <1>2 DEF IInv, Kept, Phases, NothingYet, Undoing, NoneAt
  <1>4. RestoreUnderWay'
    BY <1>1, <1>2
    DEF IInv, Kept, Phases, RestoreUnderWay, NoneAt, BeforeFiles, BeforeAdGuard, BeforeVolumes, Benign
  <1>5. UndoUnderWay' /\ StoredOpens' /\ Recoverable' /\ StaysManaged'
    BY <1>1, <1>2 DEF IInv, Kept, Phases, UndoUnderWay, StoredOpens, Recoverable, StaysManaged, Undoing
  <1>6. OneStaged' /\ LateIsStaged' /\ DeployerHolds'
    BY <1>1, <1>2 DEF IInv, Kept, OneStaged, LateIsStaged, DeployerHolds, NoneAt, LogsIn, Clean, Benign
  <1> QED BY <1>3, <1>4, <1>5, <1>6 DEF Kept

\* The directory of AdGuard Home comes with the password it was saved with.
LEMMA RestoreAdGuardKept ==
  ASSUME IInv, RestoreAdGuardDirectory PROVE Kept'
  <1>1. /\ job \in Job /\ job.kind = "restore" /\ job.at = "adguardDirectory" /\ faults \in 0 .. MaxFaults
        /\ job.created /\ restore.at = "running" /\ state = "deploying"
    BY DEF IInv, Types, InstTypeOK, AdGuardTypeOK, RestoreAdGuardDirectory, Working, Kept, Phases
  <1>2. /\ UNCHANGED <<adguard, late, boot, raced, state, stateFile, docker, resources, conf, restore, mess>>
        /\ job'.kind = "restore" /\ job'.created /\ staged' = 0
        /\ (job'.at = "volumes" /\ stored' = Archived) \/ job'.at = "failing"
    BY <1>1, JobGoesOn, JobBreaks DEF RestoreAdGuardDirectory, quiet, JobOnly, Phase
  <1>3. Phases' /\ NothingYet'
    BY <1>1, <1>2 DEF IInv, Kept, Phases, NothingYet, Undoing, NoneAt
  <1>4. RestoreUnderWay'
    BY <1>1, <1>2
    DEF IInv, Kept, Phases, RestoreUnderWay, NoneAt, BeforeFiles, BeforeAdGuard, BeforeVolumes, Benign
  <1>5. UndoUnderWay' /\ StoredOpens' /\ Recoverable' /\ StaysManaged'
    BY <1>1, <1>2 DEF IInv, Kept, Phases, UndoUnderWay, StoredOpens, Recoverable, StaysManaged, Undoing
  <1>6. OneStaged' /\ LateIsStaged' /\ DeployerHolds'
    BY <1>1, <1>2
    DEF IInv, Kept, Phases, RestoreUnderWay, OneStaged, LateIsStaged, DeployerHolds, NoneAt, Clean, Benign, Staging, Ready
  <1> QED BY <1>3, <1>4, <1>5, <1>6 DEF Kept

\* The volumes come last, and with them what the credential file opens.
LEMMA RestoreVolumesKept ==
  ASSUME IInv, RestoreVolumes PROVE Kept'
  <1>1. /\ job \in Job /\ job.kind = "restore" /\ job.at = "volumes" /\ faults \in 0 .. MaxFaults
        /\ job.created /\ restore.at = "running" /\ state = "deploying" /\ adguard \in AdGuard
    BY DEF IInv, Types, InstTypeOK, AdGuardTypeOK, RestoreVolumes, Working, Kept, Phases, AdGuard
  <1>2. /\ UNCHANGED <<stored, staged, late, boot, raced, state, stateFile, docker, resources, conf, restore, mess>>
        /\ job'.kind = "restore" /\ job'.created /\ adguard'.up = adguard.up
        /\ (job'.at = "attest" /\ adguard'.password = Archived) \/ job'.at = "failing"
    <2>1. PICK p \in {0, Archived} : adguard' = [adguard EXCEPT !.password = p] /\ (job'.at = "attest" => p = Archived)
      <3>1. CASE NoFault /\ adguard' = [adguard EXCEPT !.password = Archived]
        BY <3>1
      <3>2. CASE BreakOr(Proxy!RestoreCommands)
        BY <1>1, <3>2, JobBreaks DEF RestoreVolumes
      <3> QED BY <3>1, <3>2 DEF RestoreVolumes
    <2>2. job'.kind = "restore" /\ job'.created /\ job'.at \in {"attest", "failing"}
      BY <1>1, JobGoesOn, JobBreaks DEF RestoreVolumes, Phase
    <2> QED BY <1>1, <2>1, <2>2 DEF RestoreVolumes, quiet, JobOnly, AdGuard
  <1>3. Phases' /\ NothingYet'
    BY <1>1, <1>2 DEF IInv, Kept, Phases, NothingYet, Undoing, NoneAt
  <1>4. RestoreUnderWay'
    BY <1>1, <1>2
    DEF IInv, Kept, Phases, RestoreUnderWay, NoneAt, BeforeFiles, BeforeAdGuard, BeforeVolumes, Benign
  <1>5. UndoUnderWay' /\ StoredOpens' /\ Recoverable' /\ StaysManaged'
    BY <1>1, <1>2 DEF IInv, Kept, Phases, UndoUnderWay, StoredOpens, Recoverable, StaysManaged, Undoing
  <1>6. OneStaged' /\ LateIsStaged' /\ DeployerHolds'
    BY <1>1, <1>2
    DEF IInv, Kept, Phases, RestoreUnderWay, OneStaged, LateIsStaged, DeployerHolds, NoneAt, Clean, Benign, Staging, Ready
  <1> QED BY <1>3, <1>4, <1>5, <1>6 DEF Kept

\* The containers run; AdGuard too, or not.
LEMMA ComposeUpKept ==
  ASSUME IInv, ComposeUp PROVE Kept'
  <1>1. /\ job \in Job /\ job.kind # "none" /\ job.at = "up" /\ faults \in 0 .. MaxFaults
        /\ state = "deploying" /\ stateFile = "deploying" /\ boot[Deployer].at = "idle" /\ adguard \in AdGuard
    BY DEF IInv, Types, InstTypeOK, AdGuardTypeOK, ComposeUp, Working, Kept, Phases, AdGuard
  <1>2. /\ UNCHANGED <<stored, staged, late, boot, raced, state, stateFile, conf, restore, mess>>
        /\ job'.kind = job.kind /\ job'.created = job.created
        /\ (job'.at = "connect" /\ docker'.at = "up" /\ resources') \/ job'.at = "failing"
        /\ adguard'.password = adguard.password
        /\ resources' \/ UNCHANGED <<docker, resources, adguard>>
    <2>1. PICK up \in BOOLEAN : adguard' = [adguard EXCEPT !.up = up] \/ adguard' = adguard
      BY ComposeUpEffects
    <2>2. adguard'.password = adguard.password
      BY <1>1, <2>1 DEF AdGuard
    <2>3. CASE \E recreate \in Recreated : BreakOr(Proxy!ComposeUp(recreate))
      <3>1. job'.kind = job.kind /\ job'.created = job.created /\ job'.at = "failing"
        BY <1>1, <2>3, JobBreaks
      <3> QED BY <2>2, <3>1 DEF ComposeUp, JobOnly
    <2>4. CASE NoFault /\ Advance("connect") /\ docker' = [at |-> "up", image |-> Pinned] /\ resources' = TRUE
      <3>1. job'.kind = job.kind /\ job'.created = job.created /\ job'.at = "connect"
        BY <1>1, <2>4, JobGoesOn DEF Phase
      <3> QED BY <2>2, <2>4, <3>1 DEF ComposeUp, JobOnly
    <2> QED BY <2>3, <2>4 DEF ComposeUp
  <1>3. Phases' /\ NothingYet'
    BY <1>1, <1>2 DEF IInv, Kept, Phases, NothingYet, Undoing, NoneAt
  <1>4. RestoreUnderWay'
    BY <1>1, <1>2
    DEF IInv, Kept, Phases, RestoreUnderWay, NoneAt, BeforeFiles, BeforeAdGuard, BeforeVolumes, Benign
  <1>5. UndoUnderWay' /\ StoredOpens' /\ Recoverable' /\ StaysManaged'
    BY <1>1, <1>2
    DEF IInv, Kept, UndoUnderWay, StoredOpens, Recoverable, StaysManaged, Undoing, Clean, Benign
  <1>6. OneStaged' /\ LateIsStaged' /\ DeployerHolds'
    BY <1>1, <1>2
    DEF IInv, Kept, Phases, OneStaged, LateIsStaged, DeployerHolds, NoneAt, Clean, Benign, Staging, Ready
  <1> QED BY <1>3, <1>4, <1>5, <1>6 DEF Kept

\* The end of a deployment, or of a restore that keeps the archive.
LEMMA FinishKept ==
  ASSUME IInv, Finish PROVE Kept'
  <1>1. /\ job \in Job /\ job.kind # "none" /\ job.at = "finish" /\ docker.at = "up" /\ resources
        /\ state = "deploying" /\ stateFile = "deploying" /\ boot[Deployer].at = "idle"
        /\ restore.at = "running" <=> job.kind = "restore"
    BY DEF IInv, Types, InstTypeOK, Finish, Working, Kept, Phases, NothingYet
  <1>2. /\ UNCHANGED <<stored, staged, adguard, late, boot, raced, docker, resources, conf>>
        /\ job'.kind = "none" /\ job'.at = "none" /\ ~job'.created
        /\ state' = "installed" /\ stateFile' \in {"installed", stateFile}
    BY NoneYet DEF Finish, NotPersisted, ExceptFaults
  <1>3. CASE job.kind = "restore" /\ stateFile' = "installed" /\ restore' = NoRestore /\ UNCHANGED mess
    <2>1. restore'.at = "idle" /\ ~restore'.touched
      BY <1>3, NoneYet
    <2>2. Phases' /\ NothingYet'
      BY <1>1, <1>2, <1>3, <2>1 DEF IInv, Kept, Phases, NothingYet, Undoing, NoneAt
    <2>3. RestoreUnderWay' /\ UndoUnderWay'
      BY <2>1 DEF RestoreUnderWay, UndoUnderWay, Undoing
    <2>4. StoredOpens' /\ Recoverable'
      BY <1>1, <1>2, <1>3, <2>1, Passwords
      DEF IInv, Kept, StoredOpens, RestoreUnderWay, Recoverable, Clean, Benign, BeforeFiles, BeforeAdGuard, BeforeVolumes
    <2>5. OneStaged' /\ LateIsStaged'
      BY <1>2, <1>3 DEF IInv, Kept, OneStaged, LateIsStaged, NoneAt, Clean, Benign
    <2>6. DeployerHolds' /\ StaysManaged'
      BY <1>1, <1>2, <1>3 DEF IInv, Kept, DeployerHolds, StaysManaged, Managed, LogsIn, Ready, Clean, Benign
    <2> QED BY <2>2, <2>3, <2>4, <2>5, <2>6 DEF Kept
  <1>4. CASE /\ job.kind = "restore" /\ restore' = [restore EXCEPT !.at = "undo"]
             /\ mess' = mess \cup {"finalStatus"}
    <2>1. restore'.at = "undo" /\ ~Benign' /\ mess' # {} /\ restore.at = "running"
      <3>1. restore \in RestoreState /\ restore'.at = "undo"
        BY <1>4, RestoreSet DEF IInv, Types, InstTypeOK, RestoreStage
      <3> QED BY <1>1, <1>4, <3>1 DEF Benign
    <2>2. Phases' /\ NothingYet'
      BY <1>1, <1>2, <2>1 DEF IInv, Kept, Phases, NothingYet, Undoing
    <2>3. RestoreUnderWay' /\ UndoUnderWay' /\ OneStaged' /\ StoredOpens' /\ LateIsStaged' /\ DeployerHolds' /\ StaysManaged'
      BY <2>1 DEF RestoreUnderWay, UndoUnderWay, OneStaged, StoredOpens, LateIsStaged, DeployerHolds, StaysManaged, Clean
    <2>4. Recoverable'
      BY <2>1 DEF Recoverable
    <2> QED BY <2>2, <2>3, <2>4 DEF Kept
  <1>5. CASE job.kind # "restore" /\ UNCHANGED <<restore, mess>>
    <2>1. Phases' /\ NothingYet'
      BY <1>1, <1>2, <1>5 DEF IInv, Kept, Phases, NothingYet, Undoing, NoneAt
    <2>2. RestoreUnderWay' /\ UndoUnderWay'
      BY <1>1, <1>2, <1>5 DEF IInv, Kept, RestoreUnderWay, UndoUnderWay, Undoing, Clean, Benign
    <2>3. StoredOpens' /\ Recoverable' /\ OneStaged' /\ LateIsStaged'
      BY <1>2, <1>5
      DEF IInv, Kept, StoredOpens, Recoverable, OneStaged, LateIsStaged, NoneAt, Clean, Benign, Undoing
    <2>4. DeployerHolds' /\ StaysManaged'
      BY <1>1, <1>2, <1>5 DEF IInv, Kept, DeployerHolds, StaysManaged, Managed, LogsIn, Ready, Clean, Benign
    <2> QED BY <2>1, <2>2, <2>3, <2>4 DEF Kept
  <1> QED BY <1>3, <1>4, <1>5 DEF Finish

\* fail() takes away what its own restore created, and no deployment's.
LEMMA FailKept ==
  ASSUME IInv, Fail PROVE Kept'
  <1>1. /\ job \in Job /\ job.kind # "none" /\ job.at = "failing" /\ restore \in RestoreState /\ adguard \in AdGuard
        /\ state = "deploying" /\ stateFile = "deploying" /\ boot[Deployer].at = "idle"
        /\ restore.at = "running" <=> job.kind = "restore"
        /\ job.kind # "restore" <=> job.kind = "deploy"
        /\ job.created => job.kind = "restore"
    BY DEF IInv, Types, InstTypeOK, AdGuardTypeOK, AdGuard, Fail, Working, Kept, Phases, Job
  <1>2. /\ UNCHANGED <<stored, staged, boot, raced, resources, conf>>
        /\ job'.kind = "none" /\ job'.at = "none" /\ ~job'.created
        /\ state' = "failed" /\ stateFile' \in {"failed", stateFile}
    BY NoneYet, ResourcesStay DEF Fail, CleanUp
  <1>3. /\ ~job.created => UNCHANGED <<docker, adguard, late, mess>>
        /\ job.created => mess' # {}
        /\ job.created /\ Benign' => /\ Benign /\ docker'.at = "absent" /\ late' = {} /\ ~adguard'.up
                                     /\ adguard'.password = adguard.password
    <2>1. CASE job.created
      <3>1. CASE /\ docker' = NoContainers /\ late' = {} /\ adguard' = [adguard EXCEPT !.up = FALSE]
                 /\ mess' = mess \cup {"leftover"}
        BY <1>1, <2>1, <3>1, NoneYet DEF AdGuard, Benign
      <3>2. CASE mess' = mess \cup {"cleanup"}
        BY <2>1, <3>2 DEF Benign
      <3> QED BY <2>1, <3>1, <3>2, ResourcesStay DEF Fail, CleanUp
    <2>2. CASE ~job.created
      BY <2>2 DEF Fail
    <2> QED BY <2>1, <2>2
  <1>4. Benign' => Benign
    BY <1>3 DEF Benign
  <1>5. CASE job.kind = "deploy" /\ restore' = restore
    <2>1. UNCHANGED <<docker, adguard, late, mess>>
      BY <1>1, <1>3, <1>5
    <2>2. Phases' /\ NothingYet'
      BY <1>1, <1>2, <1>5, <2>1 DEF IInv, Kept, Phases, NothingYet, Undoing, NoneAt
    <2>3. RestoreUnderWay' /\ UndoUnderWay'
      BY <1>1, <1>2, <1>5, <2>1 DEF IInv, Kept, RestoreUnderWay, UndoUnderWay, Undoing, Clean, Benign, NoneAt
    <2>4. StoredOpens' /\ Recoverable' /\ OneStaged' /\ LateIsStaged'
      BY <1>2, <1>5, <2>1
      DEF IInv, Kept, StoredOpens, Recoverable, OneStaged, LateIsStaged, NoneAt, Clean, Benign, Undoing
    <2>5. DeployerHolds' /\ StaysManaged'
      BY <1>1, <1>2, <1>5, <2>1 DEF IInv, Kept, DeployerHolds, StaysManaged, Managed, LogsIn, Ready, Clean, Benign
    <2> QED BY <2>2, <2>3, <2>4, <2>5 DEF Kept
  <1>6. CASE job.kind = "restore" /\ restore.touched /\ restore' = [restore EXCEPT !.at = "undo"]
    <2>1. /\ restore'.at = "undo" /\ restore'.conf = restore.conf /\ restore'.stored = restore.stored
          /\ restore'.staged = restore.staged /\ job.created /\ resources
      BY <1>1, <1>6, RestoreSet DEF RestoreStage, IInv, Kept, Phases, NothingYet
    <2>2. Phases' /\ NothingYet'
      BY <1>1, <1>2, <1>3, <1>6, <2>1 DEF IInv, Kept, Phases, NothingYet, Undoing
    <2>3. RestoreUnderWay' /\ UndoUnderWay'
      BY <1>1, <1>2, <1>3, <1>6, <2>1 DEF IInv, Kept, RestoreUnderWay, UndoUnderWay, Undoing, Clean, NoneAt
    <2>4. StoredOpens' /\ Recoverable' /\ StaysManaged'
      BY <1>1, <1>2, <1>3, <2>1 DEF StoredOpens, Recoverable, StaysManaged, Undoing
    <2>5. OneStaged' /\ LateIsStaged'
      BY <1>1, <1>2, <1>3, <1>6, <2>1
      DEF IInv, Kept, RestoreUnderWay, OneStaged, LateIsStaged, Clean, Staging, NoneAt
    <2>6. DeployerHolds'
      BY <1>1, <1>2 DEF DeployerHolds, Ready
    <2> QED BY <2>2, <2>3, <2>4, <2>5, <2>6 DEF Kept
  <1>7. CASE job.kind = "restore" /\ ~restore.touched /\ restore' = NoRestore
    <2>1. restore'.at = "idle" /\ ~restore'.touched
      BY <1>7, NoneYet
    <2>2. Phases' /\ NothingYet'
      BY <1>1, <1>2, <1>3, <2>1 DEF IInv, Kept, Phases, NothingYet, Undoing, NoneAt
    <2>3. RestoreUnderWay' /\ UndoUnderWay'
      BY <2>1 DEF RestoreUnderWay, UndoUnderWay, Undoing
    <2>4. StoredOpens'
      BY <1>1, <1>2, <1>3, <1>4, <1>7, <2>1 DEF IInv, Kept, RestoreUnderWay, StoredOpens, Clean
    <2>5. Recoverable'
      BY <1>1, <1>2, <1>3, <1>4, <1>7, <2>1 DEF IInv, Kept, RestoreUnderWay, Recoverable, Removed, Benign
    <2>6. StaysManaged' /\ DeployerHolds'
      BY <1>1, <1>2 DEF StaysManaged, DeployerHolds, Ready
    <2>7. OneStaged' /\ LateIsStaged'
      BY <1>1, <1>2, <1>3, <1>4, <1>7, <2>1
      DEF IInv, Kept, RestoreUnderWay, OneStaged, LateIsStaged, Clean, Staging, NoneAt
    <2> QED BY <2>2, <2>3, <2>4, <2>5, <2>6, <2>7 DEF Kept
  <1> QED BY <1>1, <1>5, <1>6, <1>7 DEF Fail

\* The handler puts the directories back.
LEMMA UndoUnboundKept ==
  ASSUME IInv, UndoUnboundDirectory PROVE Kept'
  <1>1. /\ restore.at = "undo" /\ restore \in RestoreState /\ resources /\ mess # {}
        /\ UNCHANGED <<stored, staged, adguard, late, boot, raced, state, stateFile, job, docker, resources>>
    BY DEF IInv, Types, InstTypeOK, UndoUnboundDirectory, ExceptFaults, Kept, Phases, NothingYet, Undoing
  <1>2. CASE conf' = restore.conf /\ restore' = [restore EXCEPT !.at = "undoAdguard"] /\ UNCHANGED mess
    <2>1. /\ restore'.at = "undoAdguard" /\ restore'.conf = restore.conf /\ restore'.stored = restore.stored
          /\ restore'.staged = restore.staged
      BY <1>1, <1>2, RestoreSet DEF RestoreStage
    <2>2. Phases' /\ NothingYet'
      BY <1>1, <1>2, <2>1 DEF IInv, Kept, Phases, NothingYet, Undoing
    <2>3. RestoreUnderWay' /\ UndoUnderWay'
      BY <1>1, <1>2, <2>1 DEF IInv, Kept, RestoreUnderWay, UndoUnderWay, Undoing, Clean, Benign, NoneAt
    <2>4. StoredOpens' /\ Recoverable' /\ OneStaged' /\ LateIsStaged'
      BY <1>1, <1>2, <2>1
      DEF IInv, Kept, StoredOpens, Recoverable, OneStaged, LateIsStaged, NoneAt, Clean, Benign, Undoing
    <2>5. DeployerHolds' /\ StaysManaged'
      BY <1>1, <1>2 DEF IInv, Kept, DeployerHolds, StaysManaged, Managed, LogsIn, Clean, Benign
    <2> QED BY <2>2, <2>3, <2>4, <2>5 DEF Kept
  <1>3. CASE restore' = NoRestore /\ mess' = mess \cup {"rollback"}
    <2>1. restore'.at = "idle" /\ ~restore'.touched /\ ~Benign' /\ mess' # {}
      BY <1>3, NoneYet DEF Benign
    <2>2. Phases' /\ NothingYet'
      BY <1>1, <2>1 DEF IInv, Kept, Phases, NothingYet, Undoing
    <2> QED BY <2>1, <2>2
        DEF Kept, RestoreUnderWay, UndoUnderWay, OneStaged, StoredOpens, LateIsStaged, Recoverable,
            DeployerHolds, StaysManaged, Clean
  <1> QED BY <1>2, <1>3 DEF UndoUnboundDirectory

\* The copy of the AdGuard Home directory goes back.
LEMMA UndoAdGuardKept ==
  ASSUME IInv, UndoAdGuardDirectory PROVE Kept'
  <1>1. /\ restore.at = "undoAdguard" /\ resources /\ mess # {}
        /\ restore'.at \in {"idle", "undoOwnership"} /\ (restore'.at = "idle" => ~restore'.touched)
        /\ UNCHANGED <<adguard, late, boot, raced, state, stateFile, job, docker, resources, conf>>
        /\ mess' \in {mess, mess \cup {"rollback"}}
    <2>1. restore \in RestoreState /\ restore.at = "undoAdguard" /\ resources /\ mess # {}
      BY DEF IInv, UndoAdGuardDirectory, Kept, Phases, NothingYet, Undoing, Types, InstTypeOK
    <2>2. [restore EXCEPT !.at = "undoOwnership"].at = "undoOwnership"
      BY <2>1, RestoreSet DEF RestoreStage
    <2> QED BY <2>1, <2>2, NoneYet DEF UndoAdGuardDirectory
  <1>2. Phases' /\ NothingYet'
    BY <1>1 DEF IInv, Kept, Phases, NothingYet, Undoing
  <1>3. RestoreUnderWay' /\ UndoUnderWay' /\ Recoverable'
    BY <1>1 DEF RestoreUnderWay, UndoUnderWay, Undoing, Recoverable
  <1>4. CASE ~Clean'
    BY <1>2, <1>3, <1>4 DEF Kept, OneStaged, StoredOpens, LateIsStaged, DeployerHolds, StaysManaged
  <1>5. CASE Clean'
    <2>1. Clean /\ Undoing /\ UndoUnderWay
      BY <1>1, <1>5 DEF Clean, Benign, Undoing, IInv, Kept
    <2>2. stored' = 0 /\ staged' = 0
      BY <2>1 DEF UndoAdGuardDirectory, UndoUnderWay
    <2>3. boot[Deployer].at = "idle" /\ job.at # "finish"
      BY <2>1 DEF UndoUnderWay, IInv, Types, InstTypeOK, Kept, Phases
    <2>4. StoredOpens' /\ OneStaged' /\ LateIsStaged'
      BY <1>1, <2>1, <2>2 DEF UndoUnderWay, StoredOpens, OneStaged, LateIsStaged, NoneAt, Staging
    <2>5. DeployerHolds' /\ StaysManaged'
      BY <1>1, <2>1, <2>3 DEF UndoUnderWay, DeployerHolds, StaysManaged, Ready
    <2> QED BY <1>2, <1>3, <2>4, <2>5 DEF Kept
  <1> QED BY <1>4, <1>5

\* The ownership of what was put back is nothing the parts speak of.
LEMMA NormalizeOwnershipKept ==
  ASSUME IInv, NormalizeOwnership PROVE Kept'
  <1>1. /\ restore.at = "undoOwnership" /\ restore'.at = "idle" /\ ~restore'.touched
        /\ UNCHANGED <<stored, staged, adguard, late, boot, raced>>
        /\ UNCHANGED <<state, stateFile, job, docker, resources, conf, mess>>
    BY NoneYet DEF NormalizeOwnership, ExceptFaults
  <1>2. Phases' /\ NothingYet'
    BY <1>1 DEF IInv, Kept, Phases, NothingYet, Undoing, NoneAt
  <1>3. RestoreUnderWay' /\ UndoUnderWay'
    BY <1>1 DEF RestoreUnderWay, UndoUnderWay, Undoing
  <1>4. OneStaged' /\ StoredOpens' /\ LateIsStaged' /\ Recoverable'
    BY <1>1 DEF IInv, Kept, OneStaged, StoredOpens, LateIsStaged, Recoverable, Undoing, NoneAt, Clean, Benign
  <1>5. DeployerHolds' /\ StaysManaged'
    BY <1>1 DEF IInv, Kept, DeployerHolds, StaysManaged, Clean, Benign, LogsIn, Managed
  <1> QED BY <1>2, <1>3, <1>4, <1>5 DEF Kept

\* The process ends: bootstraps, worker and handler are gone, a configure request
\* under way may still be carried out.
LEMMA RestartKept ==
  ASSUME IInv, Restart PROVE Kept'
  <1>1. /\ job'.kind = "none" /\ job'.at = "none" /\ ~job'.created /\ restore'.at = "idle" /\ ~restore'.touched
        /\ UNCHANGED <<stored, staged, adguard, raced, docker, resources, conf>>
        /\ "installed" \in {state', stateFile'} => stateFile = "installed"
        /\ mess' \in {mess, mess \cup {"crash"}} /\ (Benign' => restore.at # "running" /\ ~Undoing)
    BY NoneYet DEF Restart, Benign, Undoing
  <1>2. \A c \in Callers : boot'[c].at = "idle"
    BY DEF Restart, NoBoot
  <1>3. boot'[Deployer].at = "idle"
    BY <1>2, InstallerAssumption DEF InstallerAssumption
  <1>4. late' = late \cup {boot[c].pass : c \in {d \in Callers : boot[d].at = "configure"}}
    BY DEF Restart, Stage
  <1>5. Phases'
    BY <1>1, <1>3 DEF Phases, Undoing
  <1>6. NothingYet'
    <2>1. ~resources => late' = {}
      BY <1>4 DEF IInv, Kept, NothingYet, NoneAt, Staging
    <2> QED BY <1>1, <1>2, <2>1 DEF IInv, Kept, NothingYet, Undoing, NoneAt, Staging, Ready
  <1>7. RestoreUnderWay' /\ UndoUnderWay'
    BY <1>1 DEF RestoreUnderWay, UndoUnderWay, Undoing
  <1>8. OneStaged' /\ DeployerHolds' /\ StaysManaged'
    BY <1>1, <1>2, <1>3
    DEF IInv, Kept, OneStaged, DeployerHolds, StaysManaged, Staging, Ready, Clean, Benign, Managed, LogsIn
  <1>9. StoredOpens' /\ Recoverable'
    <2>1. StoredOpens'
      BY <1>1 DEF IInv, Kept, StoredOpens, Clean, Benign
    <2>2. ~raced' /\ mess' = {} => ~raced /\ mess = {} /\ job.kind # "restore"
      BY <1>1 DEF Benign, IInv, Types, InstTypeOK
    <2>3. Recoverable'
      BY <1>1, <2>2 DEF IInv, Kept, Recoverable
    <2> QED BY <2>1, <2>3
  <1>10. LateIsStaged'
    <2>1. SUFFICES ASSUME Clean', late' # {}
                   PROVE  late' = {staged} /\ stored = 0 /\ adguard.password = 0 /\ NoneAt(Staging)'
      BY <1>1 DEF LateIsStaged
    <2>2. Clean /\ NoneAt(Staging)'
      BY <1>1, <1>2, <2>1 DEF Clean, Benign, NoneAt, Staging
    <2>3. CASE \E c \in Callers : boot[c].at = "configure"
      <3>1. PICK c \in Callers : boot[c].at = "configure"
        BY <2>3
      <3>2. /\ staged = boot[c].pass /\ stored = 0 /\ late = {} /\ adguard.password = 0
            /\ \A d \in Callers : boot[d].at = "configure" => d = c
        BY <2>2, <3>1 DEF IInv, Kept, OneStaged, Staging
      <3>3. {d \in Callers : boot[d].at = "configure"} = {c}
        BY <3>1, <3>2
      <3>4. late' = {staged}
        BY <1>4, <3>2, <3>3
      <3> QED BY <2>2, <3>2, <3>4
    <2>4. CASE ~\E c \in Callers : boot[c].at = "configure"
      <3>1. late' = late
        BY <1>4, <2>4
      <3> QED BY <2>1, <2>2, <3>1 DEF IInv, Kept, LateIsStaged
    <2> QED BY <2>3, <2>4
  <1> QED BY <1>5, <1>6, <1>7, <1>8, <1>9, <1>10 DEF Kept

\* The late answer gives AdGuard the staged password.
LEMMA ApplyLateKept ==
  ASSUME IInv, ApplyLate, UNCHANGED instVars PROVE Kept'
  <1>1. PICK pass \in late : adguard' = [adguard EXCEPT !.password = pass] /\ late' = late \ {pass}
    BY DEF ApplyLate
  <1>2. /\ UNCHANGED <<stored, staged, boot, raced, state, stateFile, job, docker, resources, conf, restore, mess>>
        /\ late # {} /\ adguard.up /\ adguard.password = 0
        /\ adguard'.up /\ adguard'.upstream = adguard.upstream /\ adguard'.password = pass
    BY <1>1 DEF ApplyLate, Wizard, instVars, IInv, Types, AdGuardTypeOK
  <1>3. Phases' /\ NothingYet'
    BY <1>2 DEF IInv, Kept, Phases, NothingYet, Undoing
  <1>4. RestoreUnderWay' /\ UndoUnderWay'
    BY <1>2 DEF IInv, Kept, RestoreUnderWay, UndoUnderWay, Undoing, Clean, Benign
  <1>5. CASE ~Clean
    BY <1>2, <1>3, <1>4, <1>5
    DEF Kept, OneStaged, StoredOpens, LateIsStaged, Recoverable, DeployerHolds, StaysManaged, Clean, Benign
  <1>6. CASE Clean
    <2>1. late = {staged} /\ stored = 0 /\ NoneAt(Staging) /\ pass = staged /\ late' = {}
      BY <1>1, <1>2, <1>6 DEF IInv, Kept, LateIsStaged
    <2>2. OneStaged' /\ StoredOpens' /\ LateIsStaged' /\ Recoverable'
      BY <1>2, <2>1 DEF OneStaged, StoredOpens, LateIsStaged, Recoverable, NoneAt
    <2>3. DeployerHolds' /\ StaysManaged'
      BY <1>2, <1>6, <2>1 DEF IInv, Kept, DeployerHolds, StaysManaged, Managed, LogsIn, Clean, Benign
    <2> QED BY <1>3, <1>4, <2>2, <2>3 DEF Kept
  <1> QED BY <1>5, <1>6

-----------------------------------------------------------------------------
(* Bootstraps beside the worker, and its own *)

InstallationSame == UNCHANGED <<state, stateFile, docker, resources, conf, restore, mess>>

\* Who is at work in a bootstrap has an AdGuard that was created, and is the
\* worker only where the worker waits for it.
LEMMA AtWork ==
  ASSUME IInv, NEW c \in Callers, boot[c].at # "idle"
  PROVE  /\ resources /\ (c = Deployer => job.at = "booting" /\ job.kind # "none" /\ state = "deploying")
         /\ boot \in [Callers -> Boot] /\ adguard \in AdGuard /\ Deployer \in Callers
  <1>1. boot \in [Callers -> Boot] /\ adguard \in AdGuard
    BY DEF IInv, Types, AdGuardTypeOK, Boot, AdGuard
  <1>2. boot[c].at \in {"install"} \cup Staging \cup Ready
    BY <1>1 DEF Boot, BootStage, Staging, Ready
  <1>3. resources
    BY <1>2 DEF IInv, Kept, NothingYet, NoneAt
  <1>4. Deployer \in Callers
    BY InstallerAssumption DEF InstallerAssumption
  <1> QED BY <1>1, <1>3, <1>4 DEF IInv, Types, InstTypeOK, Kept, Phases

\* A bootstrap that ends, in an error or at last, or that goes on with the stored
\* password; AdGuard has Unbound as its upstream, or has it from now on.
LEMMA GoesOnOrEnds ==
  ASSUME IInv, NEW c \in Callers, boot[c].at # "idle", boot' \in [Callers -> Boot],
         \A d \in Callers \ {c} : boot'[d] = boot[d],
         boot'[c].at = "idle" \/ (boot[c].at \in Ready /\ boot'[c].at \in Ready /\ boot'[c].pass = boot[c].pass),
         boot'[c].at = "done" => LogsIn(boot[c].pass) /\ adguard.upstream,
         UNCHANGED <<stored, staged, late, raced>>, InstallationSame, UNCHANGED job,
         UNCHANGED adguard \/ (adguard.up /\ adguard' = [adguard EXCEPT !.upstream = TRUE])
  PROVE  Kept'
  <1>1. /\ resources /\ (c = Deployer => job.at = "booting") /\ Deployer \in Callers
        /\ adguard'.up = adguard.up /\ adguard'.password = adguard.password
        /\ adguard.upstream => adguard'.upstream
        /\ UNCHANGED adguard \/ adguard.up
    BY AtWork DEF AdGuard
  <1>2. Phases' /\ NothingYet'
    BY <1>1 DEF InstallationSame, IInv, Kept, Phases, NothingYet, Undoing
  <1>3. RestoreUnderWay'
    BY <1>1, Passwords
    DEF InstallationSame, IInv, Kept, RestoreUnderWay, NoneAt, Benign, Staging, Ready, Removed
  <1>4. UndoUnderWay'
    BY <1>1 DEF InstallationSame, IInv, Kept, UndoUnderWay, Undoing, Clean, NoneAt, Benign, Staging, Ready
  <1>5. OneStaged'
    BY <1>1 DEF InstallationSame, IInv, Kept, OneStaged, Clean, Benign, Staging, Ready
  <1>6. StoredOpens' /\ LateIsStaged' /\ Recoverable' /\ StaysManaged'
    BY <1>1
    DEF InstallationSame, IInv, Kept, StoredOpens, LateIsStaged, Recoverable, StaysManaged, Managed, LogsIn,
        Undoing, Clean, NoneAt, Benign, Staging, Ready
  <1>7. DeployerHolds'
    BY <1>1 DEF InstallationSame, IInv, Kept, DeployerHolds, LogsIn, Clean, Benign, Ready
  <1> QED BY <1>2, <1>3, <1>4, <1>5, <1>6, <1>7 DEF Kept

\* The wizard answers: a new password is staged. Nobody else's is there, or the
\* two have met.
LEMMA StageCredentialsKept ==
  ASSUME IInv, NEW c \in Callers, StageCredentials(c), InstallationSame, UNCHANGED job PROVE Kept'
  <1>0. boot[c].at = "install"
    BY DEF StageCredentials, Stage
  <1>1. /\ resources /\ (c = Deployer => job.at = "booting") /\ Deployer \in Callers
        /\ boot \in [Callers -> Boot] /\ adguard \in AdGuard
    BY <1>0, AtWork
  <1>2. CASE GiveUp(c) /\ UNCHANGED <<staged, made, raced>>
    <2>1. /\ boot' \in [Callers -> Boot] /\ boot'[c].at = "idle"
          /\ \A d \in Callers \ {c} : boot'[d] = boot[d]
      BY <1>1, <1>2, BootGivenUp
    <2> QED BY <1>0, <1>2, <2>1, GoesOnOrEnds DEF StageCredentials
  <1>3. CASE /\ Wizard /\ made < MaxPasswords /\ made' = made + 1 /\ staged' = made'
             /\ boot' = [boot EXCEPT ![c] = [at |-> "configure", pass |-> made']]
             /\ raced' = (raced \/ Overlaps(c))
    <2>1. made' # 0
      BY <1>3, AdGuardAssumption DEF IInv, Types, AdGuardTypeOK, AdGuardAssumption
    <2>2. /\ boot'[c].at = "configure" /\ boot'[c].pass = staged' /\ staged' # 0
          /\ \A d \in Callers \ {c} : boot'[d] = boot[d]
      BY <1>1, <1>3, <2>1
    <2>3. UNCHANGED <<stored, adguard, late>> /\ adguard.up /\ adguard.password = 0
      BY <1>3 DEF StageCredentials, Wizard
    <2>4. Phases' /\ NothingYet'
      BY <1>1, <2>2, <2>3 DEF InstallationSame, IInv, Kept, Phases, NothingYet, Undoing
    <2>5. RestoreUnderWay' /\ UndoUnderWay'
      BY <1>0, <1>3, <2>3 DEF InstallationSame, IInv, Kept, RestoreUnderWay, UndoUnderWay, Undoing, NoneAt, Benign, Clean
    <2>6. CASE ~Clean'
      BY <2>3, <2>4, <2>5, <2>6 DEF Kept, OneStaged, StoredOpens, LateIsStaged, Recoverable, DeployerHolds, StaysManaged
    <2>7. CASE Clean'
      <3>1. Clean /\ staged \notin late /\ \A d \in Callers \ {c} : boot[d].at \notin Staging
        BY <1>3, <2>7 DEF Clean, Benign, InstallationSame, Staging, Overlaps
      <3>2. restore.at # "running" /\ ~Undoing
        BY <1>0, <3>1 DEF IInv, Kept, RestoreUnderWay, UndoUnderWay, NoneAt, Clean
      <3>3. stored = 0
        BY <2>3, <3>1, <3>2 DEF IInv, Kept, StoredOpens
      <3>4. late = {}
        BY <3>1 DEF IInv, Kept, LateIsStaged
      <3>5. OneStaged'
        BY <2>2, <2>3, <3>1, <3>3, <3>4 DEF OneStaged, Staging
      <3>6. StoredOpens' /\ LateIsStaged' /\ Recoverable'
        BY <2>3, <3>3, <3>4 DEF StoredOpens, LateIsStaged, Recoverable
      <3>7. DeployerHolds'
        BY <1>1, <2>2, <2>3, <3>1 DEF IInv, Kept, DeployerHolds, Ready, LogsIn
      <3>8. StaysManaged'
        BY <2>3, <3>1, <3>3 DEF InstallationSame, IInv, Kept, StaysManaged, Managed, LogsIn
      <3> QED BY <2>4, <2>5, <3>5, <3>6, <3>7, <3>8 DEF Kept
    <2> QED BY <2>6, <2>7
  <1>4. CASE Wizard /\ GiveUp(c) /\ staged' = 0 /\ raced' = (raced \/ Overlaps(c))
    <2>1. /\ boot'[c].at = "idle" /\ \A d \in Callers \ {c} : boot'[d] = boot[d]
      BY <1>1, <1>4, BootGivenUp
    <2>2. UNCHANGED <<stored, adguard, late>> /\ adguard.up /\ adguard.password = 0
      BY <1>4 DEF StageCredentials, Wizard
    <2>3. Phases' /\ NothingYet'
      BY <1>1, <2>1, <2>2 DEF InstallationSame, IInv, Kept, Phases, NothingYet, Undoing
    <2>4. RestoreUnderWay' /\ UndoUnderWay'
      BY <1>0, <1>4, <2>2 DEF InstallationSame, IInv, Kept, RestoreUnderWay, UndoUnderWay, Undoing, NoneAt, Benign, Clean
    <2>5. CASE ~Clean'
      BY <2>2, <2>3, <2>4, <2>5 DEF Kept, OneStaged, StoredOpens, LateIsStaged, Recoverable, DeployerHolds, StaysManaged
    <2>6. CASE Clean'
      <3>1. Clean /\ staged \notin late /\ \A d \in Callers : boot'[d].at \notin Staging
        BY <1>4, <2>1, <2>6 DEF Clean, Benign, InstallationSame, Staging, Overlaps
      <3>2. restore.at # "running" /\ ~Undoing
        BY <1>0, <3>1 DEF IInv, Kept, RestoreUnderWay, UndoUnderWay, NoneAt, Clean
      <3>3. stored = 0
        BY <2>2, <3>1, <3>2 DEF IInv, Kept, StoredOpens
      <3>4. late = {}
        BY <3>1 DEF IInv, Kept, LateIsStaged
      <3>5. OneStaged' /\ StoredOpens' /\ LateIsStaged' /\ Recoverable'
        BY <2>2, <3>1, <3>3, <3>4 DEF OneStaged, StoredOpens, LateIsStaged, Recoverable
      <3>6. DeployerHolds'
        BY <1>1, <2>1, <2>2, <3>1 DEF InstallationSame, IInv, Kept, DeployerHolds, Ready, LogsIn
      <3>7. StaysManaged'
        BY <2>2, <3>1, <3>3 DEF InstallationSame, IInv, Kept, StaysManaged, Managed, LogsIn
      <3> QED BY <2>3, <2>4, <3>5, <3>6, <3>7 DEF Kept
    <2> QED BY <2>5, <2>6
  <1> QED BY <1>2, <1>3, <1>4 DEF StageCredentials

\* AdGuard is told, or is not, or nobody knows.
LEMMA ConfigureKept ==
  ASSUME IInv, NEW c \in Callers, Configure(c), InstallationSame, UNCHANGED job PROVE Kept'
  <1>0. boot[c].at = "configure" /\ UNCHANGED <<stored, raced>>
    BY DEF Configure, Stage
  <1>1. /\ resources /\ (c = Deployer => job.at = "booting") /\ Deployer \in Callers
        /\ boot \in [Callers -> Boot] /\ adguard \in AdGuard
    BY <1>0, AtWork
  <1>2. CASE GiveUp(c) /\ UNCHANGED <<staged, adguard, late>>
    <2>1. /\ boot' \in [Callers -> Boot] /\ boot'[c].at = "idle"
          /\ \A d \in Callers \ {c} : boot'[d] = boot[d]
      BY <1>1, <1>2, BootGivenUp
    <2> QED BY <1>0, <1>2, <2>1, GoesOnOrEnds
  <1>3. CASE Wizard /\ ~(GiveUp(c) /\ UNCHANGED <<staged, adguard, late>>)
    <2>1. /\ boot'[c].at \in {"activate", "idle"}
          /\ boot'[c].at = "activate" => boot'[c].pass = boot[c].pass
          /\ \A d \in Callers \ {c} : boot'[d] = boot[d]
      BY <1>1, <1>3, BootMoves, BootGivenUp DEF Configure, BootStage
    <2>2. /\ adguard'.up /\ adguard.up /\ adguard.password = 0 /\ adguard'.upstream = adguard.upstream
          /\ \/ /\ boot'[c].at = "activate" /\ adguard'.password = boot[c].pass /\ UNCHANGED <<staged, late>>
             \/ boot'[c].at = "idle" /\ staged' = 0 /\ late' = late /\ adguard'.password = 0
             \/ /\ boot'[c].at = "idle" /\ staged' = staged
                /\ \/ adguard'.password = boot[c].pass /\ late' = late
                   \/ adguard'.password = 0 /\ late' = late \cup {boot[c].pass}
      BY <1>1, <1>3, BootMoves, BootGivenUp DEF Configure, Wizard, AdGuard, BootStage
    <2>3. Phases' /\ NothingYet'
      BY <1>1, <2>1, <2>2 DEF InstallationSame, IInv, Kept, Phases, NothingYet, Undoing
    <2>4. RestoreUnderWay' /\ UndoUnderWay'
      BY <1>0 DEF InstallationSame, IInv, Kept, RestoreUnderWay, UndoUnderWay, Undoing, NoneAt, Staging, Benign, Clean
    <2>5. CASE ~Clean
      BY <1>0, <2>3, <2>4, <2>5
      DEF InstallationSame, Kept, OneStaged, StoredOpens, LateIsStaged, Recoverable, DeployerHolds, StaysManaged, Clean, Benign
    <2>6. CASE Clean
      <3>1. /\ staged = boot[c].pass /\ boot[c].pass # 0 /\ stored = 0 /\ late = {}
            /\ \A d \in Callers \ {c} : boot[d].at \notin Staging
        BY <1>0, <2>6 DEF IInv, Kept, OneStaged, Staging
      <3>2. OneStaged'
        BY <1>0, <2>1, <2>2, <3>1 DEF OneStaged, Staging
      <3>3. StoredOpens' /\ LateIsStaged' /\ Recoverable'
        BY <1>0, <2>1, <2>2, <3>1 DEF StoredOpens, LateIsStaged, Recoverable, NoneAt, Staging
      <3>4. DeployerHolds'
        <4>1. boot[Deployer].at \notin Ready /\ job.at # "finish"
          BY <2>6, <3>1 DEF IInv, Kept, DeployerHolds, LogsIn
        <4>2. boot'[Deployer].at \notin Ready
          BY <1>1, <2>1, <4>1 DEF Ready
        <4> QED BY <4>1, <4>2 DEF DeployerHolds, Ready
      <3>5. StaysManaged'
        BY <2>6, <3>1 DEF InstallationSame, IInv, Kept, StaysManaged, Managed, LogsIn
      <3> QED BY <2>3, <2>4, <3>2, <3>3, <3>4, <3>5 DEF Kept
    <2> QED BY <2>5, <2>6
  <1> QED BY <1>2, <1>3 DEF Configure

\* The rename: what was staged is stored, and is AdGuard's.
LEMMA ActivateCredentialsKept ==
  ASSUME IInv, NEW c \in Callers, ActivateCredentials(c), InstallationSame, UNCHANGED job PROVE Kept'
  <1>0. boot[c].at = "activate" /\ UNCHANGED <<adguard, late, raced>>
    BY DEF ActivateCredentials, Stage
  <1>1. /\ resources /\ (c = Deployer => job.at = "booting") /\ Deployer \in Callers
        /\ boot \in [Callers -> Boot] /\ adguard \in AdGuard
    BY <1>0, AtWork
  <1>2. CASE GiveUp(c) /\ UNCHANGED <<stored, staged>>
    <2>1. /\ boot' \in [Callers -> Boot] /\ boot'[c].at = "idle"
          /\ \A d \in Callers \ {c} : boot'[d] = boot[d]
      BY <1>1, <1>2, BootGivenUp
    <2> QED BY <1>0, <1>2, <2>1, GoesOnOrEnds
  <1>3. CASE staged # 0 /\ stored' = staged /\ staged' = 0 /\ MoveTo(c, "ready")
    <2>1. /\ boot'[c].at = "ready" /\ boot'[c].pass = boot[c].pass
          /\ \A d \in Callers \ {c} : boot'[d] = boot[d]
      BY <1>1, <1>3, BootMoves DEF BootStage
    <2>2. Phases' /\ NothingYet'
      BY <1>0, <1>1, <2>1 DEF InstallationSame, IInv, Kept, Phases, NothingYet, Undoing
    <2>3. RestoreUnderWay' /\ UndoUnderWay'
      BY <1>0 DEF InstallationSame, IInv, Kept, RestoreUnderWay, UndoUnderWay, Undoing, NoneAt, Staging, Benign, Clean
    <2>4. CASE ~Clean
      BY <1>0, <2>2, <2>3, <2>4
      DEF InstallationSame, Kept, OneStaged, StoredOpens, LateIsStaged, Recoverable, DeployerHolds, StaysManaged, Clean, Benign
    <2>5. CASE Clean
      <3>1. /\ staged = boot[c].pass /\ stored = 0 /\ late = {} /\ adguard.password = boot[c].pass
            /\ \A d \in Callers \ {c} : boot[d].at \notin Staging
        BY <1>0, <2>5 DEF IInv, Kept, OneStaged, Staging
      <3>2. OneStaged' /\ StoredOpens' /\ LateIsStaged' /\ Recoverable'
        BY <1>0, <1>3, <2>1, <3>1 DEF OneStaged, StoredOpens, LateIsStaged, Recoverable, Staging
      <3>3. DeployerHolds' /\ StaysManaged'
        BY <1>0, <1>1, <1>3, <2>1, <2>5, <3>1
        DEF InstallationSame, IInv, Kept, DeployerHolds, StaysManaged, Managed, LogsIn, Ready
      <3> QED BY <2>2, <2>3, <3>2, <3>3 DEF Kept
    <2> QED BY <2>4, <2>5
  <1> QED BY <1>2, <1>3 DEF ActivateCredentials

\* The steps that follow log in with the password the bootstrap goes on with.
LEMMA LaterStepsKept ==
  ASSUME IInv, NEW c \in Callers, InstallationSame, UNCHANGED job,
         \/ WaitUntilReady(c) \/ ConfigureUpstream(c) \/ EnableFiltering(c)
         \/ PublishToken(c) \/ ConfirmStatus(c) \/ Reload(c)
  PROVE  Kept'
  <1>0. boot[c].at \in Ready /\ boot[c].at # "idle" /\ UNCHANGED <<stored, staged, late, raced>>
    BY DEF WaitUntilReady, ConfigureUpstream, EnableFiltering, PublishToken, ConfirmStatus, Reload, Stage, Ready
  <1>1. boot \in [Callers -> Boot] /\ adguard \in AdGuard
    BY <1>0, AtWork
  <1>2. UNCHANGED adguard \/ (adguard.up /\ adguard' = [adguard EXCEPT !.upstream = TRUE])
    BY DEF WaitUntilReady, ConfigureUpstream, EnableFiltering, PublishToken, ConfirmStatus, Reload, LogsIn
  <1>3. CASE GiveUp(c)
    <2>1. /\ boot' \in [Callers -> Boot] /\ boot'[c].at = "idle"
          /\ \A d \in Callers \ {c} : boot'[d] = boot[d]
      BY <1>1, <1>3, BootGivenUp
    <2> QED BY <1>0, <1>2, <2>1, GoesOnOrEnds
  <1>4. CASE \E at \in {"upstream", "filtering", "publish", "confirm"} : MoveTo(c, at)
    <2>1. /\ boot' \in [Callers -> Boot] /\ boot'[c].at \in Ready \ {"done"} /\ boot'[c].pass = boot[c].pass
          /\ \A d \in Callers \ {c} : boot'[d] = boot[d]
      BY <1>1, <1>4, BootMoves DEF BootStage, Ready
    <2> QED BY <1>0, <1>2, <2>1, GoesOnOrEnds
  <1>5. CASE MoveTo(c, "done") /\ LogsIn(boot[c].pass) /\ adguard.upstream
    <2>1. /\ boot' \in [Callers -> Boot] /\ boot'[c].at \in Ready /\ boot'[c].pass = boot[c].pass
          /\ \A d \in Callers \ {c} : boot'[d] = boot[d]
      BY <1>1, <1>5, BootMoves DEF BootStage, Ready
    <2> QED BY <1>0, <1>2, <1>5, <2>1, GoesOnOrEnds
  <1> QED BY <1>3, <1>4, <1>5
      DEF WaitUntilReady, ConfigureUpstream, EnableFiltering, PublishToken, ConfirmStatus, Reload

\* The call of Bootstrap: with credentials stored it only logs in.
LEMMA StartBootstrapKept ==
  ASSUME IInv, NEW c \in Callers, StartBootstrap(c), InstallationSame,
         job'.kind = job.kind, job'.created = job.created,
         \/ c # Deployer /\ adguard.up /\ job' = job
         \/ c = Deployer /\ job.at = "bootstrap" /\ job'.at = "booting" /\ job.kind # "none"
  PROVE  Kept'
  <1>1. /\ UNCHANGED <<stored, staged, adguard, late, raced>> /\ boot[c].at = "idle"
        /\ boot'[c].at = (IF stored = 0 THEN "install" ELSE "ready") /\ boot'[c].pass = stored
        /\ \A d \in Callers \ {c} : boot'[d] = boot[d]
        /\ Deployer \in Callers
    BY InstallerAssumption DEF StartBootstrap, Stage, IInv, Types, AdGuardTypeOK, InstallerAssumption
  <1>2. resources
    BY DEF IInv, Kept, Phases, NothingYet, Removed
  <1>3. Phases' /\ NothingYet'
    BY <1>1, <1>2 DEF InstallationSame, IInv, Kept, Phases, NothingYet, Undoing
  <1>4. restore.at = "running" /\ Benign => stored = Archived
    BY DEF IInv, Types, InstTypeOK, Kept, RestoreUnderWay, BeforeFiles, BeforeAdGuard
  <1>5. RestoreUnderWay'
    BY <1>1, <1>4, Passwords
    DEF InstallationSame, IInv, Kept, RestoreUnderWay, NoneAt, Benign, Staging, BeforeFiles, BeforeAdGuard, BeforeVolumes
  <1>6. ~(Clean /\ Undoing)
    BY DEF IInv, Types, InstTypeOK, Kept, UndoUnderWay
  <1>7. UndoUnderWay' /\ StoredOpens' /\ Recoverable'
    BY <1>1, <1>6 DEF InstallationSame, IInv, Kept, UndoUnderWay, StoredOpens, Recoverable, Undoing, Clean, Benign
  <1>8. OneStaged' /\ LateIsStaged'
    BY <1>1 DEF InstallationSame, IInv, Kept, OneStaged, LateIsStaged, NoneAt, Staging, Clean, Benign
  <1>9. DeployerHolds' /\ StaysManaged'
    BY <1>1
    DEF InstallationSame, IInv, Kept, DeployerHolds, StaysManaged, Managed, LogsIn, Ready, Clean, Benign
  <1> QED BY <1>3, <1>5, <1>7, <1>8, <1>9 DEF Kept

\* The worker's bootstrap is over: it failed before, or ends with the reload.
LEMMA WorkerLeavesBootstrap ==
  ASSUME IInv, InstallationSame, UNCHANGED <<stored, staged, adguard, late, raced>>,
         boot'[Deployer].at = "idle", \A d \in Callers \ {Deployer} : boot'[d] = boot[d],
         job.kind # "none", job'.kind = job.kind, job'.created = job.created,
         job.at = "booting", job'.at \in {"finish", "failing"},
         job'.at = "finish" => boot[Deployer].at = "done"
  PROVE  Kept'
  <1>1. Deployer \in Callers /\ resources
    BY InstallerAssumption DEF InstallerAssumption, IInv, Kept, Phases, NothingYet
  <1>2. Phases' /\ NothingYet'
    BY <1>1 DEF InstallationSame, IInv, Kept, Phases, NothingYet, Undoing
  <1>3. RestoreUnderWay' /\ UndoUnderWay'
    BY <1>1
    DEF InstallationSame, IInv, Kept, RestoreUnderWay, UndoUnderWay, Undoing, NoneAt, Benign, Clean, Staging,
        BeforeFiles, BeforeAdGuard, BeforeVolumes
  <1>4. OneStaged' /\ LateIsStaged'
    BY <1>1 DEF InstallationSame, IInv, Kept, OneStaged, LateIsStaged, NoneAt, Staging, Clean, Benign
  <1>5. StoredOpens' /\ Recoverable' /\ StaysManaged'
    BY DEF InstallationSame, IInv, Kept, StoredOpens, Recoverable, StaysManaged, Managed, LogsIn, Undoing, Clean, Benign
  <1>6. DeployerHolds'
    BY DEF InstallationSame, IInv, Kept, DeployerHolds, LogsIn, Ready, Clean, Benign
  <1> QED BY <1>2, <1>3, <1>4, <1>5, <1>6 DEF Kept

\* Every step of a bootstrap.
LEMMA BootstrapStepKept ==
  ASSUME IInv, NEW c \in Callers, InstallationSame, UNCHANGED job, BootstrapStep(c) \/ Reload(c)
  PROVE  Kept'
  BY StageCredentialsKept, ConfigureKept, ActivateCredentialsKept, LaterStepsKept DEF BootstrapStep

\* A bootstrap that another caller asked for.
LEMMA RequestKept ==
  ASSUME IInv, NEW c \in Callers, Request(c) PROVE Kept'
  <1>1. InstallationSame /\ UNCHANGED job /\ c # Deployer
    BY DEF Request, instVars, InstallationSame
  <1>2. CASE StartBootstrap(c) /\ adguard.up
    BY <1>1, <1>2, StartBootstrapKept
  <1>3. CASE BootstrapStep(c) \/ Reload(c)
    BY <1>1, <1>3, BootstrapStepKept
  <1> QED BY <1>2, <1>3 DEF Request

\* The bootstrap that the job waits for.
LEMMA RunBootstrapKept ==
  ASSUME IInv, RunBootstrap PROVE Kept'
  <1>1. /\ InstallationSame /\ Deployer \in Callers /\ job \in Job /\ job.kind # "none"
        /\ boot \in [Callers -> Boot]
    BY InstallerAssumption
    DEF RunBootstrap, Working, quiet, JobOnly, InstallationSame, InstallerAssumption, IInv, Types, InstTypeOK,
        AdGuardTypeOK, Boot
  <1>2. CASE Working("bootstrap") /\ StartBootstrap(Deployer) /\ Advance("booting")
    <2>1. job.at = "bootstrap" /\ job'.at = "booting" /\ job'.kind = job.kind /\ job'.created = job.created
      BY <1>1, <1>2, JobGoesOn DEF Working, Phase
    <2> QED BY <1>1, <1>2, <2>1, StartBootstrapKept
  <1>3. CASE Working("booting") /\ BootstrapStep(Deployer) /\ UNCHANGED job
    BY <1>1, <1>3, BootstrapStepKept
  <1>4. CASE /\ Working("booting") /\ Stage(Deployer, "done") /\ Reload(Deployer)
             /\ Advance(IF pageBroken' THEN "failing" ELSE "finish")
    <2>1. /\ job.at = "booting" /\ job'.at \in {"failing", "finish"} /\ job'.kind = job.kind
          /\ job'.created = job.created /\ boot[Deployer].at = "done"
      BY <1>1, <1>4, JobGoesOn DEF Working, Phase, Stage
    <2>2. /\ UNCHANGED <<stored, staged, adguard, late, raced>> /\ boot'[Deployer].at = "idle"
          /\ \A d \in Callers \ {Deployer} : boot'[d] = boot[d]
      BY <1>1, <1>4, BootGivenUp DEF Reload
    <2> QED BY <1>1, <2>1, <2>2, WorkerLeavesBootstrap
  <1>5. CASE Working("booting") /\ Stage(Deployer, "idle") /\ AfterBootstrapError /\ UNCHANGED agVars
    <2>1. /\ job.at = "booting" /\ job'.at = "failing" /\ job'.kind = job.kind
          /\ job'.created = job.created /\ boot[Deployer].at = "idle"
      BY <1>1, <1>5, JobGoesOn DEF Working, Phase, Stage, AfterBootstrapError
    <2>2. UNCHANGED <<stored, staged, adguard, late, raced, boot>>
      BY <1>5 DEF agVars
    <2> QED BY <1>1, <2>1, <2>2, WorkerLeavesBootstrap
  <1> QED BY <1>2, <1>3, <1>4, <1>5 DEF RunBootstrap

-----------------------------------------------------------------------------
(* The whole *)

\* Kept is inductive.
LEMMA KeptNext == IInv /\ [Next]_vars => Kept'
  <1> SUFFICES ASSUME IInv, [Next]_vars PROVE Kept'
    OBVIOUS
  <1>0. Kept
    BY DEF IInv
  <1>1. CASE Start \/ CopyDirectories \/ RestorePreflight \/ BeginRestore
    BY <1>1, StartKept, CopyDirectoriesKept, RestorePreflightKept, BeginRestoreKept
  <1>2. CASE Worker
    BY <1>2, PullKept, PinDigestsKept, CreateStoppedKept, RestoreUnboundKept, RestoreAdGuardKept, RestoreVolumesKept,
       VerifyAttestationKept, ComposeUpKept, ConnectAndWaitKept, RunBootstrapKept, FinishKept, FailKept
    DEF Worker
  <1>3. CASE Undo \/ Restart
    BY <1>3, UndoUnboundKept, UndoAdGuardKept, NormalizeOwnershipKept, RestartKept DEF Undo
  <1>4. CASE MoveTag \/ UNCHANGED vars
    BY <1>0, <1>4, NothingMoved DEF MoveTag, vars, agVars, instVars
  <1>5. CASE (\E c \in Callers : Request(c)) \/ (ApplyLate /\ UNCHANGED instVars)
    BY <1>5, RequestKept, ApplyLateKept
  <1> QED BY <1>1, <1>2, <1>3, <1>4, <1>5 DEF Next

\* The worker, a restore, the bootstraps beside them and the two files keep step.
THEOREM InstallationInvariance == Spec => []IInv
  <1>1. Init => IInv
    BY InitTypes, TypeOKParts, KeptInit DEF IInv, Types
  <1>2. IInv /\ [Next]_vars => IInv'
    BY KeptNext, TypesNext DEF IInv
  <1> QED BY <1>1, <1>2, PTL DEF Spec

\* stageCredentials, configure, activateCredentials: whichever call fails or
\* process dies, one of the two files opens the AdGuard that was configured.
THEOREM CredentialsStayRecoverable == Spec => []CredentialsRecoverable
  <1>1. IInv => CredentialsRecoverable
    BY DEF IInv, Kept, Recoverable, CredentialsRecoverable
  <1> QED BY <1>1, InstallationInvariance, PTL

\* A status "installed", also one read back after a restart, is of a stack that
\* runs and that Core can log in to.
THEOREM InstalledStaysManaged == Spec => []InstalledIsManaged
  <1>1. IInv => InstalledIsManaged
    BY DEF IInv, Kept, StaysManaged, Clean, Benign, Managed, InstalledIsManaged
  <1> QED BY <1>1, InstallationInvariance, PTL

\* What a restore comes to when it ends and nothing else has gone wrong.
AllOrNothing ==
  mess' \subseteq {"leftover"} =>
    /\ (job.kind = "restore" /\ job'.kind = "none" /\ state' = "failed") => docker'.at = "absent"
    /\ (restore.at \in {"running", "undo", "undoAdguard"} /\ restore'.at \in {"idle", "undoOwnership"}) =>
         \/ state' = "installed" /\ conf' = "archive" /\ stored' = Archived
         \/ conf' = restore.conf /\ <<stored', staged'>> = <<restore.stored, restore.staged>>

\* A step that neither ends the worker of a restore in failure nor its handler.
LEMMA RestoreGoesOn ==
  ASSUME job.kind = "restore" => job'.kind # "none" \/ state' # "failed",
         restore.at \in {"running", "undo", "undoAdguard"} => restore'.at = restore.at
  PROVE  AllOrNothing
  BY DEF AllOrNothing

\* A restore that ends well is whole, and one that could not write so is undone.
LEMMA FinishRestores ==
  ASSUME IInv, Finish PROVE AllOrNothing
  <1>1. state' = "installed" /\ UNCHANGED <<stored, conf>>
    BY DEF Finish, ExceptFaults
  <1>2. restore.at = "running" <=> job.kind = "restore"
    BY DEF IInv, Types, InstTypeOK, Kept, Phases
  <1>3. CASE job.kind = "restore" /\ UNCHANGED mess
    <2>1. Benign => conf = "archive" /\ stored = Archived
      BY <1>2, <1>3 DEF Finish, Working, IInv, Kept, RestoreUnderWay, BeforeFiles, BeforeAdGuard
    <2> QED BY <1>1, <1>3, <2>1 DEF AllOrNothing, Benign
  <1>4. CASE mess' = mess \cup {"finalStatus"}
    BY <1>4 DEF AllOrNothing
  <1>5. CASE job.kind # "restore" /\ UNCHANGED restore
    BY <1>1, <1>2, <1>5, RestoreGoesOn
  <1> QED BY <1>3, <1>4, <1>5 DEF Finish

\* One that fails before it touched anything is over, the others are put back.
LEMMA FailRestores ==
  ASSUME IInv, Fail PROVE AllOrNothing
  <1>1. /\ restore.at = "running" <=> job.kind = "restore"
        /\ job.kind # "none" /\ job \in Job /\ restore \in RestoreState
        /\ UNCHANGED <<stored, staged, conf>>
    BY DEF Fail, Working, IInv, Types, InstTypeOK, Kept, Phases
  <1>2. CASE job.kind # "restore"
    <2>1. UNCHANGED restore
      BY <1>1, <1>2 DEF Fail, Job
    <2> QED BY <1>1, <1>2, <2>1, RestoreGoesOn
  <1>3. CASE job.kind = "restore"
    <2> SUFFICES ASSUME mess' \subseteq {"leftover"}
                 PROVE  /\ docker'.at = "absent"
                        /\ restore'.at \in {"idle", "undoOwnership"} =>
                             conf' = restore.conf /\ stored' = restore.stored /\ staged' = restore.staged
      BY DEF AllOrNothing
    <2>1. Benign
      BY DEF Fail, CleanUp, Benign
    <2>2. docker'.at = "absent"
      <3>1. CASE job.created
        BY <3>1, NoneYet DEF Fail, CleanUp
      <3>2. CASE ~job.created
        BY <1>1, <1>3, <2>1, <3>2 DEF Fail, IInv, Kept, RestoreUnderWay
      <3> QED BY <3>1, <3>2
    <2>3. CASE restore.touched
      <3>1. restore'.at = "undo"
        BY <1>1, <1>3, <2>3, RestoreSet DEF Fail, RestoreStage
      <3> QED BY <2>2, <3>1
    <2>4. CASE ~restore.touched
      BY <1>1, <1>3, <2>1, <2>2, <2>4 DEF IInv, Kept, RestoreUnderWay
    <2> QED BY <2>3, <2>4
  <1> QED BY <1>2, <1>3

\* What putting back ends is what the restore began with, or it is reported.
LEMMA UndoRestores ==
  ASSUME IInv, Undo PROVE AllOrNothing
  <1>1. job.kind # "restore"
    BY DEF Undo, UndoUnboundDirectory, UndoAdGuardDirectory, NormalizeOwnership, IInv, Types, InstTypeOK
  <1>2. CASE UndoUnboundDirectory
    <2>1. CASE restore' = [restore EXCEPT !.at = "undoAdguard"]
      <3>1. restore'.at = "undoAdguard"
        BY <2>1, RestoreSet DEF IInv, Types, InstTypeOK, RestoreStage
      <3> QED BY <1>1, <3>1 DEF AllOrNothing
    <2>2. CASE mess' = mess \cup {"rollback"}
      BY <2>2 DEF AllOrNothing
    <2> QED BY <1>2, <2>1, <2>2 DEF UndoUnboundDirectory
  <1>3. CASE UndoAdGuardDirectory
    <2>1. CASE stored' = restore.stored /\ staged' = restore.staged
      <3>1. conf' = restore.conf
        BY <1>3 DEF UndoAdGuardDirectory, IInv, Kept, Phases
      <3> QED BY <1>1, <2>1, <3>1 DEF AllOrNothing
    <2>2. CASE mess' = mess \cup {"rollback"}
      BY <2>2 DEF AllOrNothing
    <2> QED BY <1>3, <2>1, <2>2 DEF UndoAdGuardDirectory
  <1>4. CASE NormalizeOwnership
    BY <1>1, <1>4, RestoreGoesOn DEF NormalizeOwnership
  <1> QED BY <1>2, <1>3, <1>4 DEF Undo

\* A worker on its way is still deploying, and its handler waits.
LEMMA WorkerRestores ==
  ASSUME IInv,
         \/ Pull \/ PinDigests \/ CreateStopped
         \/ RestoreUnboundDirectory \/ RestoreAdGuardDirectory \/ RestoreVolumes
         \/ VerifyAttestation \/ ComposeUp \/ ConnectAndWait \/ RunBootstrap
  PROVE  AllOrNothing
  <1>1. job.kind = "restore" => state' = "deploying"
    BY DEF Pull, PinDigests, CreateStopped, RestoreUnboundDirectory, RestoreAdGuardDirectory, RestoreVolumes,
           VerifyAttestation, ComposeUp, ConnectAndWait, RunBootstrap, JobOnly, IInv, Types, InstTypeOK
  <1>2. restore' = restore \/ restore' = [restore EXCEPT !.touched = TRUE]
    BY DEF Pull, PinDigests, CreateStopped, RestoreUnboundDirectory, RestoreAdGuardDirectory, RestoreVolumes,
           VerifyAttestation, ComposeUp, ConnectAndWait, RunBootstrap
  <1>3. restore'.at = restore.at
    BY <1>2, RestoreSet DEF IInv, Types, InstTypeOK, RestoreStage
  <1> QED BY <1>1, <1>3, RestoreGoesOn

\* The other steps neither end a restore nor fail a job.
LEMMA OthersRestore ==
  ASSUME IInv,
         \/ Start \/ CopyDirectories \/ RestorePreflight \/ BeginRestore \/ Restart \/ MoveTag
         \/ \E c \in Callers : Request(c)
         \/ ApplyLate /\ UNCHANGED instVars
  PROVE  AllOrNothing
  <1>1. CASE Start
    <2>1. job.kind = "none" /\ UNCHANGED restore
      BY <1>1 DEF Start, MayStart, IInv, Types, InstTypeOK
    <2> QED BY <2>1, RestoreGoesOn
  <1>2. CASE CopyDirectories \/ RestorePreflight \/ BeginRestore
    <2>1. job.kind # "restore" /\ restore.at \in {"idle", "copied", "clean"}
      BY <1>2 DEF CopyDirectories, RestorePreflight, BeginRestore, IInv, Types, InstTypeOK
    <2> QED BY <2>1, RestoreGoesOn
  <1>3. CASE Restart
    <2>1. job.kind = "restore" \/ restore.at \in {"running", "undo", "undoAdguard"} => "crash" \in mess'
      BY <1>3 DEF Restart, IInv, Types, InstTypeOK
    <2> QED BY <2>1 DEF AllOrNothing
  <1>4. CASE MoveTag \/ (\E c \in Callers : Request(c)) \/ (ApplyLate /\ UNCHANGED instVars)
    <2>1. UNCHANGED <<job, restore, state>>
      BY <1>4 DEF MoveTag, Request, instVars
    <2>2. job.kind = "restore" => job'.kind # "none"
      BY <2>1
    <2> QED BY <2>1, <2>2, RestoreGoesOn
  <1> QED BY <1>1, <1>2, <1>3, <1>4

\* restoreDeploy and its handler: the worker of a restore that fails leaves no
\* container, and the handler leaves in Core's directories what it had copied of
\* them, or the archive. Whether Unbound may read its own is no part of it.
THEOREM RestoreWholeOrNot == Spec => RestoreAllOrNothing
  <1>1. IInv /\ [Next]_vars => [AllOrNothing]_vars
    <2> SUFFICES ASSUME IInv, Next PROVE AllOrNothing
      OBVIOUS
    <2> QED BY FinishRestores, FailRestores, UndoRestores, WorkerRestores, OthersRestore DEF Next, Worker
  <1>2. [AllOrNothing]_vars =>
          [mess' \subseteq {"leftover"} =>
             /\ (job.kind = "restore" /\ job'.kind = "none" /\ state' = "failed") => docker'.at = "absent"
             /\ (restore.at \in {"running", "undo", "undoAdguard"} /\ restore'.at \in {"idle", "undoOwnership"}) =>
                  \/ state' = "installed" /\ conf' = "archive" /\ stored' = Archived
                  \/ conf' = restore.conf /\ <<stored', staged'>> = <<restore.stored, restore.staged>>]_vars
    BY DEF AllOrNothing
  <1> QED BY <1>1, <1>2, InstallationInvariance, PTL DEF Spec, RestoreAllOrNothing

-----------------------------------------------------------------------------
(* The block page's token *)

\* While nginx holds another token than Core's, a bootstrap still owes it a
\* reload, unless one was cut off in between or a restore replaced the file.
TokenOwed ==
  /\ ~pageBroken => tokenServed \/ \E c \in Callers : boot[c].at \in {"confirm", "done"}
  /\ ~tokenServed => Blockpage
  /\ \A c \in Callers : boot[c].at = "publish" => Blockpage

\* A step of a bootstrap that publishes nothing and owes no reload.
LEMMA NothingPublished ==
  ASSUME TokenOwed, NEW c \in Callers, \A d \in Callers \ {c} : boot'[d] = boot[d],
         boot[c].at \notin {"confirm", "done"}, boot'[c].at = "publish" => Blockpage,
         UNCHANGED <<tokenServed, pageBroken>>
  PROVE  TokenOwed'
  BY DEF TokenOwed

\* The steps of a bootstrap keep it.
LEMMA TokenBootstrap ==
  ASSUME Types, TokenOwed, NEW c \in Callers, StartBootstrap(c) \/ BootstrapStep(c) \/ Reload(c)
  PROVE  TokenOwed'
  <1>0. boot \in [Callers -> Boot] /\ tokenServed \in BOOLEAN /\ pageBroken \in BOOLEAN
    BY DEF Types, AdGuardTypeOK, Boot
  <1>1. CASE StartBootstrap(c)
    <2>1. /\ boot[c].at = "idle" /\ boot'[c].at \in {"install", "ready"}
          /\ \A d \in Callers \ {c} : boot'[d] = boot[d]
      BY <1>0, <1>1 DEF StartBootstrap, Stage
    <2> QED BY <1>1, <2>1, NothingPublished DEF StartBootstrap
  <1>2. CASE StageCredentials(c)
    <2>1. /\ boot[c].at = "install" /\ boot'[c].at \in {"configure", "idle"}
          /\ \A d \in Callers \ {c} : boot'[d] = boot[d]
      <3>1. CASE GiveUp(c)
        BY <1>0, <1>2, <3>1, BootGivenUp DEF StageCredentials, Stage
      <3>2. CASE boot' = [boot EXCEPT ![c] = [at |-> "configure", pass |-> made']]
        BY <1>0, <1>2, <3>2 DEF StageCredentials, Stage
      <3> QED BY <1>2, <3>1, <3>2 DEF StageCredentials
    <2> QED BY <1>2, <2>1, NothingPublished DEF StageCredentials
  <1>3. CASE Configure(c) \/ ActivateCredentials(c) \/ WaitUntilReady(c) \/ ConfigureUpstream(c) \/ EnableFiltering(c)
    <2>1. boot[c].at \notin {"confirm", "done"} /\ UNCHANGED <<tokenServed, pageBroken>>
      BY <1>3 DEF Configure, ActivateCredentials, WaitUntilReady, ConfigureUpstream, EnableFiltering, Stage
    <2>2. GiveUp(c) \/ \E at \in BootStage : MoveTo(c, at) /\ (at = "publish" => Blockpage)
      BY <1>3 DEF Configure, ActivateCredentials, WaitUntilReady, ConfigureUpstream, EnableFiltering, BootStage
    <2>3. boot'[c].at = "publish" => Blockpage
      BY <1>0, <2>2, BootMoves, BootGivenUp
    <2>4. \A d \in Callers \ {c} : boot'[d] = boot[d]
      BY <1>0, <2>2, BootMoves, BootGivenUp
    <2> QED BY <2>1, <2>3, <2>4, NothingPublished
  <1>4. CASE PublishToken(c)
    <2>1. CASE tokenServed' = FALSE /\ MoveTo(c, "confirm")
      <3>1. boot'[c].at = "confirm" /\ \A d \in Callers \ {c} : boot'[d] = boot[d]
        BY <1>0, <2>1, BootMoves DEF BootStage
      <3> QED BY <1>4, <2>1, <3>1 DEF PublishToken, Stage, TokenOwed
    <2>2. CASE GiveUp(c) /\ UNCHANGED <<tokenServed, pageBroken>>
      <3>1. boot'[c].at = "idle" /\ \A d \in Callers \ {c} : boot'[d] = boot[d]
        BY <1>0, <2>2, BootGivenUp
      <3> QED BY <1>4, <2>2, <3>1, NothingPublished DEF PublishToken, Stage
    <2>3. CASE GiveUp(c) /\ tokenServed' = FALSE /\ pageBroken' = TRUE
      <3>1. boot'[c].at = "idle" /\ \A d \in Callers \ {c} : boot'[d] = boot[d]
        BY <1>0, <2>3, BootGivenUp
      <3> QED BY <1>4, <2>3, <3>1 DEF PublishToken, Stage, TokenOwed
    <2> QED BY <1>4, <2>1, <2>2, <2>3 DEF PublishToken
  <1>5. CASE ConfirmStatus(c)
    <2>1. CASE MoveTo(c, "done") /\ UNCHANGED pageBroken
      <3>1. boot'[c].at = "done" /\ \A d \in Callers \ {c} : boot'[d] = boot[d]
        BY <1>0, <2>1, BootMoves DEF BootStage
      <3> QED BY <1>5, <2>1, <3>1 DEF ConfirmStatus, TokenOwed
    <2>2. CASE GiveUp(c) /\ pageBroken' = (pageBroken \/ Blockpage)
      <3>1. boot'[c].at = "idle" /\ \A d \in Callers \ {c} : boot'[d] = boot[d]
        BY <1>0, <2>2, BootGivenUp
      <3> QED BY <1>0, <1>5, <2>2, <3>1 DEF ConfirmStatus, TokenOwed
    <2> QED BY <1>5, <2>1, <2>2 DEF ConfirmStatus
  <1>6. CASE Reload(c)
    <2>1. boot'[c].at = "idle" /\ \A d \in Callers \ {c} : boot'[d] = boot[d]
      BY <1>0, <1>6, BootGivenUp DEF Reload
    <2> QED BY <1>0, <1>6, <2>1 DEF Reload, TokenOwed
  <1> QED BY <1>1, <1>2, <1>3, <1>4, <1>5, <1>6 DEF BootstrapStep

\* TokenOwed is inductive.
LEMMA TokenNext == Types /\ TokenOwed /\ [Next]_vars => TokenOwed'
  <1> SUFFICES ASSUME Types, TokenOwed, [Next]_vars PROVE TokenOwed'
    OBVIOUS
  <1>1. CASE UNCHANGED boot /\ UNCHANGED pageBroken /\ tokenServed' \in {tokenServed, TRUE}
    BY <1>1 DEF TokenOwed
  <1>a. CASE ReplaceToken /\ UNCHANGED boot
    BY <1>a DEF ReplaceToken, NginxMayRun, TokenOwed, Types, AdGuardTypeOK
  <1>2. CASE \/ Start \/ CopyDirectories \/ RestorePreflight \/ BeginRestore
             \/ UndoUnboundDirectory \/ NormalizeOwnership \/ MoveTag \/ UNCHANGED vars
    <2>1. UNCHANGED <<boot, pageBroken, tokenServed>>
      BY <1>2 DEF Start, CopyDirectories, RestorePreflight, BeginRestore, UndoUnboundDirectory,
                  NormalizeOwnership, MoveTag, vars, agVars, ExceptFaults
    <2> QED BY <1>1, <2>1
  <1>3. CASE \/ Pull \/ PinDigests \/ CreateStopped
             \/ RestoreUnboundDirectory \/ RestoreVolumes
             \/ VerifyAttestation \/ ConnectAndWait \/ Finish
    <2>1. UNCHANGED <<boot, pageBroken, tokenServed>>
      BY <1>3 DEF Pull, PinDigests, CreateStopped, RestoreUnboundDirectory,
                  RestoreVolumes, VerifyAttestation, ConnectAndWait, Finish, ExceptFaults
    <2> QED BY <1>1, <2>1
  <1>b. CASE RestoreAdGuardDirectory \/ UndoAdGuardDirectory
    <2>1. UNCHANGED boot /\ (ReplaceToken \/ UNCHANGED <<pageBroken, tokenServed>>)
      BY <1>b DEF RestoreAdGuardDirectory, UndoAdGuardDirectory
    <2> QED BY <1>1, <1>a, <2>1
  <1>4. CASE ComposeUp
    BY <1>1, <1>4, ComposeUpEffects DEF ComposeUp
  <1>5. CASE Fail
    BY <1>1, <1>5, FailEffects DEF Fail
  <1>6. CASE RunBootstrap
    <2>1. Deployer \in Callers
      BY InstallerAssumption DEF InstallerAssumption
    <2>2. CASE UNCHANGED agVars
      BY <1>1, <2>2 DEF agVars
    <2> QED BY <1>6, <2>1, <2>2, TokenBootstrap DEF RunBootstrap
  <1>7. CASE \E c \in Callers : Request(c)
    BY <1>7, TokenBootstrap DEF Request
  <1>8. CASE ApplyLate
    BY <1>1, <1>8 DEF ApplyLate
  <1>9. CASE Restart
    <2>1. \A c \in Callers : boot'[c].at = "idle"
      BY <1>9 DEF Restart, NoBoot
    <2>2. tokenServed' = tokenServed
      BY <1>9 DEF Restart
    <2>3. ~pageBroken' => ~pageBroken /\ (~Blockpage \/ \A c \in Callers : boot[c].at \notin {"confirm", "done"})
      BY <1>9 DEF Restart
    <2>4. tokenServed \in BOOLEAN
      BY DEF Types, AdGuardTypeOK
    <2> QED BY <2>1, <2>2, <2>3, <2>4 DEF TokenOwed
  <1> QED BY <1>2, <1>3, <1>b, <1>4, <1>5, <1>6, <1>7, <1>8, <1>9 DEF Next, Worker, Undo

\* publishBlockpageServiceToken, ReloadBlockpageConfig and replaceDirectory: when
\* no bootstrap is under way nginx presents the token Core expects, unless one was
\* cut off before its reload or a restore changed the file under a running nginx.
THEOREM TokenStaysCurrent == Spec => []PageTokenCurrent
  <1>1. Init => Types /\ TokenOwed
    <2>1. Init => TokenOwed
      BY DEF Init, AdGuardInit, NoBoot, TokenOwed
    <2> QED BY <2>1, InitTypes, TypeOKParts DEF Types
  <1>2. TokenOwed => PageTokenCurrent
    BY DEF TokenOwed, PageTokenCurrent, Stage
  <1> QED BY <1>1, <1>2, TypesNext, TokenNext, PTL DEF Spec

=============================================================================
