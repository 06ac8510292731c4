------------------------ MODULE UpdateManagerProofs ------------------------
(***************************************************************************)
(* Theorems about UpdateManager, for every set of services, images and     *)
(* callers and every bound: its type invariant, that operations exclude    *)
(* each other, that only trusted images run, and that it implements        *)
(* ServiceMaintenance.                                                     *)
(*                                                                         *)
(* Typed is TypeOK with what the program counters say of the jobs (JobOK). *)
(* Inv is the inductive invariant: Typed, ExclusiveOperation,              *)
(* TrustedImagesRun and JobTrust, which follows the image an update will   *)
(* activate, or return to, from the attestation gate to "compose up".      *)
(***************************************************************************)
EXTENDS UpdateManager, SequenceTheorems, TLAPS

-----------------------------------------------------------------------------
(* Types *)

\* The program counters of an update.
UpdateLabel == {"inspect", "backup", "pull", "attest", "migrate", "select", "up", "verify",
                "rbOwner", "rbSelect", "rbUp", "rbData", "rbVerify",
                "record", "cleanup", "attach", "prune", "result", "end", "fail"}

Outcome == {"no_change", "success", "rolled_back", "failed"}

CandidateLabel == {"attest", "migrate", "select", "up", "verify"}

JobOK ==
  \A p \in Callers :
    /\ pc[p] \in UpdateLabel => job[p].svc \in Services
    /\ pc[p] = "record" => job[p].verdict \in Outcome
    /\ pc[p] \in CandidateLabel => job[p].cand \in Images

Typed == TypeOK /\ JobOK

\* A caller that enters starts with a job of the right type.
LEMMA NoJobType == NoJob \in Job /\ \A s \in Services : [NoJob EXCEPT !.svc = s] \in Job
  BY ConstantsAssumption DEF NoJob, NoBase, Job, MaybeImage, Owner, Uid, Whole, Verdict, Base, ConstantsAssumption

\* recordHistory keeps the history a sequence of entries, cut or not.
LEMMA RecordedType ==
  ASSUME NEW entry \in Entry, history \in Seq(Entry) PROVE Recorded(entry) \in Seq(Entry)
  <1> DEFINE longer == <<entry>> \o history
  <1>1. longer \in Seq(Entry)
    OBVIOUS
  <1>2. CASE Len(longer) > MaxHistory
    <2>1. SubSeq(longer, 1, MaxHistory) \in Seq(Entry)
      BY <1>1, <1>2, SubSeqProperties, ConstantsAssumption DEF ConstantsAssumption
    <2> QED BY <1>2, <2>1 DEF Recorded
  <1>3. CASE ~(Len(longer) > MaxHistory)
    BY <1>1, <1>3 DEF Recorded
  <1> QED BY <1>2, <1>3

\* persistLocked writes a well-typed state.json and updates.yaml, however far
\* it gets.
LEMMA PersistTypes ==
  ASSUME StatusTypes, NEW outcome \in WriteOutcome, Persist(outcome),
         state' \in State, reserved' \in BOOLEAN, history' \in Seq(Entry),
         selected' \in [Services -> MaybeImage], cached' \in [Services -> Identity]
  PROVE  StatusTypes'
  BY ConstantsAssumption
  DEF StatusTypes, Persist, DiskAfter, OverrideAfter, OverrideContent, Snapshot, MaybeImage, ConstantsAssumption

\* setProgress leaves the status well typed.
LEMMA ProgressTypes ==
  ASSUME StatusTypes, NEW outcome \in WriteOutcome, Progress(outcome) PROVE StatusTypes'
  BY PersistTypes DEF StatusTypes, Progress

\* A step that persists nothing leaves the status well typed.
LEMMA NotPersistingTypes ==
  ASSUME StatusTypes, NotPersisting PROVE StatusTypes'
  BY DEF StatusTypes, NotPersisting


\* What an update of job[p] does to the fields the invariants speak of.
Keeps(j, k) == k \in Job /\ k.svc = j.svc /\ k.cand = j.cand

Pulled(j, k, c) == k \in Job /\ k.svc = j.svc /\ k.cand = c

\* A verdict does not change a job's service or candidate.
LEMMA VerdictUpdate ==
  ASSUME NEW j \in Job, NEW v \in Verdict
  PROVE  /\ Keeps(j, [j EXCEPT !.verdict = v]) /\ [j EXCEPT !.verdict = v].verdict = v
         /\ Keeps(j, [j EXCEPT !.verdict = v, !.spoiled = TRUE])
  BY DEF Job, Keeps

\* The candidate that was pulled is an image.
LEMMA PullUpdate ==
  ASSUME NEW j \in Job, NEW v \in Verdict, NEW c \in Images
  PROVE  /\ Pulled(j, [j EXCEPT !.cand = c], c)
         /\ Pulled(j, [j EXCEPT !.cand = c, !.verdict = v], c)
         /\ [j EXCEPT !.cand = c, !.verdict = v].verdict = v
  BY DEF Job, Pulled, MaybeImage

\* No other assignment of an update changes its service or candidate.
LEMMA JobUpdates ==
  ASSUME NEW j \in Job
  PROVE  /\ \A o \in MaybeImage, b \in Base : Keeps(j, [j EXCEPT !.old = o, !.base = b])
         /\ \A n \in Nat : Keeps(j, [j EXCEPT !.at = n])
         /\ \A c \in BOOLEAN, o \in Uid : Keeps(j, [j EXCEPT !.changed = c, !.prev = o])
         /\ \A t \in SUBSET Services : Keeps(j, [j EXCEPT !.todo = t])
         /\ \A r \in SUBSET (Services \X Images) : Keeps(j, [j EXCEPT !.removed = r])
         /\ Keeps(j, [j EXCEPT !.ok = FALSE])
  BY DEF Job, Keeps

\* Nor does a container recreated elsewhere.
LEMMA SpoiledUpdate ==
  ASSUME NEW j \in Job
  PROVE  Keeps(j, [j EXCEPT !.spoiled = TRUE]) /\ [j EXCEPT !.spoiled = TRUE].verdict = j.verdict
  BY DEF Job, Keeps

\* What a step spends leaves natural numbers.
LEMMA BudgetUpdates ==
  ASSUME NEW u \in Budget, NEW n \in Nat, NEW m \in Nat
  PROVE  /\ [u EXCEPT !.faults = @ + n] \in Budget
         /\ [u EXCEPT !.ops = @ + 1] \in Budget
         /\ [u EXCEPT !.foreign = @ + 1] \in Budget
         /\ [u EXCEPT !.crashes = @ + 1] \in Budget
         /\ [u EXCEPT !.ops = @ + 1, !.faults = @ + n] \in Budget
         /\ [u EXCEPT !.crashes = @ + 1, !.faults = @ + n] \in Budget
  <1>1. \A a, b \in Nat : /\ [u EXCEPT !.faults = a] \in Budget
                          /\ [u EXCEPT !.ops = a] \in Budget
                          /\ [u EXCEPT !.foreign = a] \in Budget
                          /\ [u EXCEPT !.crashes = a] \in Budget
                          /\ [u EXCEPT !.ops = a, !.faults = b] \in Budget
                          /\ [u EXCEPT !.crashes = a, !.faults = b] \in Budget
    BY DEF Budget
  <1>2. /\ u.faults + n \in Nat /\ u.ops + 1 \in Nat /\ u.crashes + 1 \in Nat
        /\ u.foreign + 1 \in Nat
    BY DEF Budget
  <1> QED BY <1>1, <1>2

\* Spending faults keeps the budget well typed.
LEMMA SpendTypes ==
  ASSUME used \in Budget, NEW n \in Nat, Spend(n) PROVE used' \in Budget
  BY BudgetUpdates DEF Spend

\* The cost of a write is a natural number.
LEMMA CostTypes ==
  ASSUME NEW outcome \in WriteOutcome
  PROVE  Cost(outcome) \in Nat /\ Cost(outcome) + 1 \in Nat /\ Cost(outcome) + 2 \in Nat
  BY DEF Cost

\* A step of p that keeps its service and candidate keeps the callers typed.
LEMMA JobStep ==
  ASSUME CallerTypes, JobOK, NEW p \in Callers, NEW label \in Label, NEW k,
         Keeps(job[p], k), Goto(p, label), SetJob(p, k),
         label \in UpdateLabel => pc[p] \in UpdateLabel,
         label \in CandidateLabel => pc[p] \in CandidateLabel,
         label = "record" => k.verdict \in Outcome
  PROVE  CallerTypes' /\ JobOK'
  BY DEF CallerTypes, JobOK, Keeps, Goto, SetJob

\* So does one that sets the candidate.
LEMMA PullStep ==
  ASSUME CallerTypes, JobOK, NEW p \in Callers, NEW label \in Label, NEW k, NEW c \in Images,
         Pulled(job[p], k, c), Goto(p, label), SetJob(p, k),
         label \in UpdateLabel => pc[p] \in UpdateLabel,
         label = "record" => k.verdict \in Outcome
  PROVE  CallerTypes' /\ JobOK'
  BY DEF CallerTypes, JobOK, Pulled, Goto, SetJob

\* So does one that only moves the program counter.
LEMMA LabelStep ==
  ASSUME CallerTypes, JobOK, NEW p \in Callers, NEW label \in Label,
         Goto(p, label), job' = job,
         label \in UpdateLabel => pc[p] \in UpdateLabel,
         label \in CandidateLabel => pc[p] \in CandidateLabel,
         label # "record"
  PROVE  CallerTypes' /\ JobOK'
  BY DEF CallerTypes, JobOK, Goto

\* The initial state is well typed.
LEMMA TypedInit == Init => Typed
  <1> SUFFICES ASSUME Init PROVE Typed
    OBVIOUS
  <1> USE ConstantsAssumption DEF Init, ConstantsAssumption
  <1>1. /\ state \in State /\ reserved \in BOOLEAN /\ persistError \in BOOLEAN
        /\ selected \in [Services -> MaybeImage]
    BY DEF State, MaybeImage
  <1>0. history \in Seq(Entry)
    OBVIOUS
  <1>8. cached \in [Services -> Identity]
    BY DEF MaybeImage, Identity
  <1>2. disk \in Snapshot
    BY <1>0, <1>1, <1>8 DEF Snapshot
  <1>3. override \in [Services -> Images]
    BY DEF OverrideContent
  <1>4. StatusTypes
    BY <1>0, <1>1, <1>2, <1>3, <1>8 DEF StatusTypes
  <1>5. BackupTypes /\ ContainerTypes
    BY DEF BackupTypes, ContainerTypes, MaybeImage, Owner, Uid, Whole
  <1>6. CallerTypes /\ JobOK
    BY NoJobType DEF CallerTypes, JobOK, Label, UpdateLabel, CandidateLabel
  <1>7. GhostTypes
    BY DEF GhostTypes, Budget
  <1> QED BY <1>4, <1>5, <1>6, <1>7 DEF Typed, TypeOK

\* Every call that is let in keeps the types (StartUpdate and its like).
LEMMA TypedEnter ==
  ASSUME Typed, NEW p \in Callers, NEW newState \in State, NEW label \in Label \ ({"record"} \cup CandidateLabel),
         NEW newJob \in Job, NEW outcome \in WriteOutcome,
         label \in UpdateLabel => newJob.svc \in Services,
         Enter(p, newState, label, newJob, outcome)
  PROVE  Typed'
  <1>1. StatusTypes'
    BY PersistTypes DEF Enter, Typed, TypeOK, StatusTypes
  <1>2. CallerTypes' /\ JobOK'
    BY DEF Enter, Goto, SetJob, Typed, TypeOK, CallerTypes, JobOK
  <1>3. used' \in Budget
    <2>1. used \in Budget /\ Cost(outcome) \in Nat
      BY CostTypes DEF Typed, TypeOK, GhostTypes
    <2>2. used' = [used EXCEPT !.ops = @ + 1, !.faults = @ + Cost(outcome)]
      BY DEF Enter
    <2> QED BY <2>1, <2>2, BudgetUpdates
  <1> QED
    BY <1>1, <1>2, <1>3
    DEF Typed, TypeOK, Enter, BackupTypes, ContainerTypes, GhostTypes, containers, ghosts

\* What the program counter says of the job at work.
LEMMA JobAt ==
  ASSUME CallerTypes, JobOK, NEW p \in Callers
  PROVE  /\ job[p] \in Job
         /\ job[p].cand \in MaybeImage /\ job[p].old \in MaybeImage /\ job[p].prev \in Uid
         /\ pc[p] \in UpdateLabel => job[p].svc \in Services
         /\ pc[p] \in CandidateLabel => job[p].cand \in Images
  BY DEF CallerTypes, JobOK, Job

\* selectImage keeps the types, whichever of its two writes fails.
LEMMA SelectTypes ==
  ASSUME StatusTypes, NEW s, NEW image \in MaybeImage,
         NEW first \in WriteOutcome, NEW second \in WriteOutcome, SelectImage(s, image, first, second)
  PROVE  StatusTypes'
  <1> DEFINE tried == [selected EXCEPT ![s] = image]
  <1>1. tried \in [Services -> MaybeImage]
    BY DEF StatusTypes
  <1>2. CASE first = "ok"
    <2>1. selected' \in [Services -> MaybeImage] /\ Persist("ok")
      BY <1>1, <1>2 DEF SelectImage
    <2> QED
      BY <2>1, <1>2, PersistTypes DEF SelectImage, StatusTypes
  <1>3. CASE first # "ok"
    <2> DEFINE written(sel) == [state |-> state, history |-> history, selected |-> sel, cached |-> cached]
    <2>1. written(tried) \in Snapshot /\ written(selected) \in Snapshot
      BY <1>1 DEF StatusTypes, Snapshot
    <2>2. OverrideContent(tried) \in [Services -> Images] /\ OverrideContent(selected) \in [Services -> Images]
      BY <1>1, ConstantsAssumption DEF StatusTypes, OverrideContent, MaybeImage, ConstantsAssumption
    <2>3. disk' \in Snapshot
      BY <1>3, <2>1 DEF SelectImage, DiskAfter, StatusTypes
    <2>4. override' \in [Services -> Images]
      BY <1>3, <2>2 DEF SelectImage, OverrideAfter, StatusTypes
    <2> QED
      BY <1>3, <2>3, <2>4 DEF SelectImage, StatusTypes
  <1> QED BY <1>2, <1>3

\* executeCleanup removes images of the services it was given.
LEMMA RemovedTypes ==
  ASSUME NEW p \in Callers, NEW services \in SUBSET Services, RemoveImages(p, services)
  PROVE  \E gone \in SUBSET (Services \X Images) : SetJob(p, [job[p] EXCEPT !.removed = gone])
  BY DEF RemoveImages

\* Pruning leaves a subset of the restore points.
LEMMA PrunedTypes ==
  ASSUME backups \in [Services -> SUBSET Backup]
  PROVE  /\ \A keep : Pruned(keep) \in [Services -> SUBSET Backup]
         /\ PrunedPartly => backups' \in [Services -> SUBSET Backup]
  BY DEF Pruned, PrunedPartly, Newest

\* Inspect keeps the types.
LEMMA TypedInspect ==
  ASSUME Typed, NEW p \in Callers, Inspect(p) PROVE Typed'
  <1> USE DEF Typed, TypeOK
  <1>1. StatusTypes'
    BY NotPersistingTypes DEF Inspect
  <1>2. CallerTypes' /\ JobOK'
    <2> DEFINE s == job[p].svc
    <2> DEFINE b == [image |-> running[s], owner |-> owner[s], data |-> data[s]]
    <2>1. b \in Base /\ running[s] \in MaybeImage /\ pc[p] \in UpdateLabel /\ job[p] \in Job
      BY DEF Inspect, At, JobOK, UpdateLabel, CallerTypes, ContainerTypes, Base
    <2> QED
      BY <2>1, JobUpdates, JobStep, LabelStep DEF Inspect, Label, CandidateLabel
  <1>3. used' \in Budget
    BY SpendTypes DEF Inspect, GhostTypes
  <1> QED
    BY <1>1, <1>2, <1>3
    DEF Inspect, BackupTypes, ContainerTypes, GhostTypes, containers, ghosts, KeepRetention

\* BackupData keeps the types.
LEMMA TypedBackupData ==
  ASSUME Typed, NEW p \in Callers, BackupData(p) PROVE Typed'
  <1> USE DEF Typed, TypeOK
  <1>1. StatusTypes'
    BY ProgressTypes DEF BackupData
  <1>2. BackupTypes'
    BY JobAt DEF BackupData, BackupTypes, KeepRetention, Backup, At, UpdateLabel, GhostTypes, Budget, ContainerTypes
  <1>3. ContainerTypes'
    BY DEF BackupData, ContainerTypes, containers
  <1>4. CallerTypes' /\ JobOK'
    BY JobAt, JobUpdates, JobStep, LabelStep DEF BackupData, At, UpdateLabel, CandidateLabel, Label, Outcome, Verdict, GhostTypes, Budget
  <1>5. GhostTypes'
    BY SpendTypes, CostTypes DEF BackupData, GhostTypes, ghosts
  <1> QED BY <1>1, <1>2, <1>3, <1>4, <1>5

\* Pull keeps the types.
LEMMA TypedPull ==
  ASSUME Typed, NEW p \in Callers, Pull(p) PROVE Typed'
  <1> USE DEF Typed, TypeOK
  <1>1. StatusTypes'
    BY ProgressTypes DEF Pull
  <1>2. BackupTypes'
    BY DEF Pull, BackupTypes, KeepRetention
  <1>3. ContainerTypes'
    <2>1. UNCHANGED <<running, owner, data>>
      BY DEF Pull
    <2>2. \/ UNCHANGED local
          \/ \E image \in Images : local' = [local EXCEPT ![job[p].svc] = @ \cup {image}]
      BY DEF Pull
    <2> QED BY <2>1, <2>2 DEF ContainerTypes
  <1>4. CallerTypes' /\ JobOK'
    <2>1. pc[p] = "pull" /\ pc[p] \in UpdateLabel /\ job[p] \in Job
      BY JobAt DEF Pull, At, UpdateLabel
    <2>2. CASE \E image \in Images :
                 SetJob(p, [job[p] EXCEPT !.cand = image, !.verdict = "no_change"]) /\ Goto(p, "record")
      <3>1. PICK image \in Images :
              SetJob(p, [job[p] EXCEPT !.cand = image, !.verdict = "no_change"]) /\ Goto(p, "record")
        BY <2>2
      <3>2. /\ Pulled(job[p], [job[p] EXCEPT !.cand = image, !.verdict = "no_change"], image)
            /\ [job[p] EXCEPT !.cand = image, !.verdict = "no_change"].verdict = "no_change"
        BY <2>1, PullUpdate DEF Verdict
      <3> QED BY <2>1, <3>1, <3>2, PullStep DEF Label, Outcome
    <2>3. CASE \E image \in Images : SetJob(p, [job[p] EXCEPT !.cand = image]) /\ Goto(p, "attest")
      <3>1. PICK image \in Images : SetJob(p, [job[p] EXCEPT !.cand = image]) /\ Goto(p, "attest")
        BY <2>3
      <3>2. Pulled(job[p], [job[p] EXCEPT !.cand = image], image)
        BY <2>1, PullUpdate DEF Verdict
      <3> QED BY <2>1, <3>1, <3>2, PullStep DEF Label
    <2>4. CASE SetJob(p, [job[p] EXCEPT !.verdict = "aborted"]) /\ Goto(p, "prune")
      BY <2>1, <2>4, VerdictUpdate, JobStep DEF Label, CandidateLabel, Verdict
    <2> QED BY <2>2, <2>3, <2>4 DEF Pull
  <1>5. GhostTypes'
    BY SpendTypes, CostTypes DEF Pull, GhostTypes, ghosts
  <1> QED BY <1>1, <1>2, <1>3, <1>4, <1>5

\* Attest keeps the types.
LEMMA TypedAttest ==
  ASSUME Typed, NEW p \in Callers, Attest(p) PROVE Typed'
  <1> USE DEF Typed, TypeOK
  <1>1. StatusTypes'
    BY ProgressTypes DEF Attest
  <1>2. BackupTypes'
    BY DEF Attest, BackupTypes, KeepRetention
  <1>3. ContainerTypes'
    BY DEF Attest, ContainerTypes, containers
  <1>4. CallerTypes' /\ JobOK'
    BY JobAt, VerdictUpdate, JobStep, LabelStep DEF Attest, At, UpdateLabel, CandidateLabel, Label, Outcome, Verdict
  <1>5. GhostTypes'
    BY SpendTypes, CostTypes DEF Attest, GhostTypes, ghosts
  <1> QED BY <1>1, <1>2, <1>3, <1>4, <1>5

\* A chown leaves an owner, whether it succeeds or fails.
LEMMA OwnerTypes ==
  ASSUME NEW o \in Owner, NEW uid \in Uid
  PROVE  o.top \in Uid /\ Whole(uid) \in Owner /\ AfterFailedChown(o, uid) \subseteq Owner
  <1>1. o.top \in Uid
    BY DEF Owner
  <1>2. \A top \in Uid, whole \in BOOLEAN : [top |-> top, whole |-> whole] \in Owner
    BY DEF Owner
  <1>3. Whole(uid) \in Owner
    BY <1>2 DEF Whole
  <1>4. [top : {o.top, uid}, whole : {FALSE}] \subseteq Owner
    BY <1>1 DEF Owner
  <1> QED BY <1>1, <1>3, <1>4 DEF AfterFailedChown

\* One service's volume gets an owner, or none does.
LEMMA OwnerStep ==
  ASSUME ContainerTypes, NEW s,
         owner' = owner \/ \E v \in Owner : owner' = [owner EXCEPT ![s] = v]
  PROVE  owner' \in [Services -> Owner]
  BY DEF ContainerTypes

\* Migrate keeps the types.
LEMMA TypedMigrate ==
  ASSUME Typed, NEW p \in Callers, Migrate(p) PROVE Typed'
  <1> USE DEF Typed, TypeOK
  <1>1. StatusTypes'
    BY ProgressTypes DEF Migrate
  <1>2. BackupTypes'
    BY DEF Migrate, BackupTypes, KeepRetention
  <1> DEFINE s == job[p].svc
  <1>0. s \in Services /\ owner[s] \in Owner /\ owner[s].top \in Uid
    BY JobAt, OwnerTypes DEF Migrate, At, UpdateLabel, ContainerTypes
  <1>3. ContainerTypes'
    <2>1. CASE \E half \in AfterFailedChown(owner[s], "target") :
                 \E left \in AfterFailedChown(half, owner[s].top) : owner' = [owner EXCEPT ![s] = left]
      <3>1. "target" \in Uid
        BY DEF Uid
      <3> QED BY <1>0, <2>1, <3>1, OwnerTypes, OwnerStep DEF Migrate, ContainerTypes
    <2>2. CASE owner' = owner \/ owner' = [owner EXCEPT ![s] = Whole(@.top)]
               \/ owner' = [owner EXCEPT ![s] = Whole("target")]
      <3>1. Whole("target") \in Owner /\ Whole(owner[s].top) \in Owner
        BY <1>0, OwnerTypes DEF Uid
      <3> QED BY <1>0, <2>2, <3>1, OwnerStep DEF Migrate, ContainerTypes
    <2>3. [owner EXCEPT ![s] = @] = owner
      BY <1>0 DEF ContainerTypes
    <2> QED BY <2>1, <2>2, <2>3 DEF Migrate
  <1>4. CallerTypes' /\ JobOK'
    BY <1>0, JobAt, JobUpdates, VerdictUpdate, JobStep, LabelStep DEF Migrate, At, UpdateLabel, CandidateLabel, Label, Outcome, Verdict, ContainerTypes
  <1>5. GhostTypes'
    BY SpendTypes, CostTypes DEF Migrate, GhostTypes, ghosts
  <1> QED BY <1>1, <1>2, <1>3, <1>4, <1>5

\* Select keeps the types.
LEMMA TypedSelect ==
  ASSUME Typed, NEW p \in Callers, Select(p) PROVE Typed'
  <1> USE DEF Typed, TypeOK
  <1>1. StatusTypes'
    BY SelectTypes, JobAt DEF Select
  <1>2. BackupTypes'
    BY DEF Select, BackupTypes, KeepRetention
  <1>3. ContainerTypes'
    <2> DEFINE s == job[p].svc
    <2>1. /\ s \in Services /\ owner[s] \in Owner /\ job[p].prev \in Uid
          /\ Whole(job[p].prev) \in Owner /\ AfterFailedChown(owner[s], job[p].prev) \subseteq Owner
      BY JobAt, OwnerTypes DEF Select, At, UpdateLabel, ContainerTypes
    <2>2. owner' = owner \/ \E v \in Owner : owner' = [owner EXCEPT ![s] = v]
      BY <2>1 DEF Select, GivenBack
    <2> QED BY <2>2, OwnerStep DEF Select, ContainerTypes
  <1>4. CallerTypes' /\ JobOK'
    BY JobAt, VerdictUpdate, JobStep, LabelStep DEF Select, At, UpdateLabel, CandidateLabel, Label, Outcome, Verdict
  <1>5. GhostTypes'
    BY SpendTypes, CostTypes DEF Select, GhostTypes, ghosts
  <1> QED BY <1>1, <1>2, <1>3, <1>4, <1>5

\* ComposeUp keeps the types.
LEMMA TypedComposeUp ==
  ASSUME Typed, NEW p \in Callers, ComposeUp(p) PROVE Typed'
  <1> USE DEF Typed, TypeOK
  <1>1. StatusTypes'
    BY NotPersistingTypes DEF ComposeUp
  <1>2. BackupTypes'
    BY DEF ComposeUp, BackupTypes, KeepRetention
  <1>3. ContainerTypes'
    BY JobAt DEF ComposeUp, ComposeSucceeds, ComposeFails, At, UpdateLabel, ContainerTypes, StatusTypes, MaybeImage
  <1>4. CallerTypes' /\ JobOK'
    BY JobAt, JobStep, LabelStep DEF ComposeUp, At, UpdateLabel, CandidateLabel, Label, Outcome, Verdict
  <1>5. GhostTypes'
    BY SpendTypes, CostTypes DEF ComposeUp, GhostTypes, ghosts
  <1> QED BY <1>1, <1>2, <1>3, <1>4, <1>5

\* Verify keeps the types.
LEMMA TypedVerify ==
  ASSUME Typed, NEW p \in Callers, Verify(p) PROVE Typed'
  <1> USE DEF Typed, TypeOK
  <1>1. StatusTypes'
    BY NotPersistingTypes DEF Verify
  <1>2. BackupTypes'
    BY DEF Verify, BackupTypes, KeepRetention
  <1>3. ContainerTypes'
    BY DEF Verify, ContainerTypes, containers
  <1>4. CallerTypes' /\ JobOK'
    BY JobAt, VerdictUpdate, JobStep, LabelStep DEF Verify, At, UpdateLabel, CandidateLabel, Label, Outcome, Verdict
  <1>5. GhostTypes'
    BY JobAt DEF Verify, At, UpdateLabel, CandidateLabel, GhostTypes, ContainerTypes
  <1> QED BY <1>1, <1>2, <1>3, <1>4, <1>5

\* RestoreOwnership keeps the types.
LEMMA TypedRestoreOwnership ==
  ASSUME Typed, NEW p \in Callers, RestoreOwnership(p) PROVE Typed'
  <1> USE DEF Typed, TypeOK
  <1>1. StatusTypes'
    BY ProgressTypes DEF RestoreOwnership
  <1>2. BackupTypes'
    BY DEF RestoreOwnership, BackupTypes, KeepRetention
  <1>3. ContainerTypes'
    <2> DEFINE s == job[p].svc
    <2>0. /\ s \in Services /\ owner[s] \in Owner /\ job[p].prev \in Uid
          /\ Whole(job[p].prev) \in Owner /\ AfterFailedChown(owner[s], job[p].prev) \subseteq Owner
      BY JobAt, OwnerTypes DEF RestoreOwnership, At, UpdateLabel, ContainerTypes
    <2>1. owner' = owner \/ \E v \in Owner : owner' = [owner EXCEPT ![s] = v]
      BY <2>0 DEF RestoreOwnership, GivenBack
    <2>2. UNCHANGED <<running, data, local>>
      BY DEF RestoreOwnership
    <2> QED BY <2>1, <2>2, OwnerStep DEF ContainerTypes
  <1>4. CallerTypes' /\ JobOK'
    BY JobAt, VerdictUpdate, JobStep, LabelStep DEF RestoreOwnership, At, UpdateLabel, CandidateLabel, Label, Outcome, Verdict, RollbackFails
  <1>5. GhostTypes'
    BY SpendTypes, CostTypes DEF RestoreOwnership, GhostTypes, ghosts
  <1> QED BY <1>1, <1>2, <1>3, <1>4, <1>5

\* SelectOld keeps the types.
LEMMA TypedSelectOld ==
  ASSUME Typed, NEW p \in Callers, SelectOld(p) PROVE Typed'
  <1> USE DEF Typed, TypeOK
  <1>1. StatusTypes'
    BY SelectTypes, JobAt DEF SelectOld
  <1>2. BackupTypes'
    BY DEF SelectOld, BackupTypes, KeepRetention
  <1>3. ContainerTypes'
    BY DEF SelectOld, ContainerTypes, containers
  <1>4. CallerTypes' /\ JobOK'
    BY JobAt, VerdictUpdate, JobStep, LabelStep DEF SelectOld, At, UpdateLabel, CandidateLabel, Label, Outcome, Verdict, RollbackFails
  <1>5. GhostTypes'
    BY SpendTypes, CostTypes DEF SelectOld, GhostTypes, ghosts
  <1> QED BY <1>1, <1>2, <1>3, <1>4, <1>5

\* ComposeUpOld keeps the types.
LEMMA TypedComposeUpOld ==
  ASSUME Typed, NEW p \in Callers, ComposeUpOld(p) PROVE Typed'
  <1> USE DEF Typed, TypeOK
  <1>1. StatusTypes'
    BY NotPersistingTypes DEF ComposeUpOld
  <1>2. BackupTypes'
    BY DEF ComposeUpOld, BackupTypes, KeepRetention
  <1>3. ContainerTypes'
    BY JobAt DEF ComposeUpOld, ComposeSucceeds, ComposeFails, At, UpdateLabel, ContainerTypes, StatusTypes, MaybeImage
  <1>4. CallerTypes' /\ JobOK'
    BY JobAt, VerdictUpdate, JobStep, LabelStep DEF ComposeUpOld, At, UpdateLabel, CandidateLabel, Label, Outcome, Verdict, RollbackFails
  <1>5. GhostTypes'
    BY SpendTypes, CostTypes DEF ComposeUpOld, GhostTypes, ghosts
  <1> QED BY <1>1, <1>2, <1>3, <1>4, <1>5

\* RestoreData keeps the types.
LEMMA TypedRestoreData ==
  ASSUME Typed, NEW p \in Callers, RestoreData(p) PROVE Typed'
  <1> USE DEF Typed, TypeOK
  <1>1. StatusTypes'
    BY NotPersistingTypes DEF RestoreData
  <1>2. BackupTypes'
    BY DEF RestoreData, BackupTypes, KeepRetention
  <1>3. ContainerTypes'
    BY JobAt DEF RestoreData, At, UpdateLabel, ContainerTypes, BackupTypes, Backup
  <1>4. CallerTypes' /\ JobOK'
    BY JobAt, VerdictUpdate, JobStep, LabelStep DEF RestoreData, At, UpdateLabel, CandidateLabel, Label, Outcome, Verdict, RollbackFails
  <1>5. GhostTypes'
    BY SpendTypes, CostTypes DEF RestoreData, GhostTypes, ghosts
  <1> QED BY <1>1, <1>2, <1>3, <1>4, <1>5

\* VerifyRollback keeps the types.
LEMMA TypedVerifyRollback ==
  ASSUME Typed, NEW p \in Callers, VerifyRollback(p) PROVE Typed'
  <1> USE DEF Typed, TypeOK
  <1>1. StatusTypes'
    BY NotPersistingTypes DEF VerifyRollback
  <1>2. BackupTypes'
    BY DEF VerifyRollback, BackupTypes, KeepRetention
  <1>3. ContainerTypes'
    BY DEF VerifyRollback, ContainerTypes, containers
  <1>4. CallerTypes' /\ JobOK'
    BY JobAt, VerdictUpdate, JobStep, LabelStep DEF VerifyRollback, At, UpdateLabel, CandidateLabel, Label, Outcome, Verdict, RollbackFails
  <1>5. GhostTypes'
    BY SpendTypes, CostTypes DEF VerifyRollback, GhostTypes, ghosts
  <1> QED BY <1>1, <1>2, <1>3, <1>4, <1>5

\* RecordHistory keeps the types.
LEMMA TypedRecordHistory ==
  ASSUME Typed, NEW p \in Callers, RecordHistory(p) PROVE Typed'
  <1> USE DEF Typed, TypeOK
  <1>1. StatusTypes'
    <2> DEFINE entry == [service |-> job[p].svc, outcome |-> job[p].verdict, from |-> job[p].old,
                       to |-> job[p].cand, removed |-> {}]
    <2>1. entry \in Entry
      BY JobAt DEF RecordHistory, At, UpdateLabel, JobOK, Outcome, Entry
    <2>2. history' \in Seq(Entry)
      BY <2>1, RecordedType DEF RecordHistory, StatusTypes
    <2> QED BY <2>2, PersistTypes DEF RecordHistory, StatusTypes
  <1>2. BackupTypes'
    BY DEF RecordHistory, BackupTypes, KeepRetention
  <1>3. ContainerTypes'
    BY DEF RecordHistory, ContainerTypes, containers
  <1>4. CallerTypes' /\ JobOK'
    BY JobAt, JobStep, LabelStep DEF RecordHistory, At, UpdateLabel, CandidateLabel, Label, Outcome, Verdict
  <1>5. GhostTypes'
    BY SpendTypes, CostTypes DEF RecordHistory, GhostTypes, ghosts
  <1> QED BY <1>1, <1>2, <1>3, <1>4, <1>5

\* CleanupAfterSuccess keeps the types.
LEMMA TypedCleanupAfterSuccess ==
  ASSUME Typed, NEW p \in Callers, CleanupAfterSuccess(p) PROVE Typed'
  <1> USE DEF Typed, TypeOK
  <1>1. StatusTypes'
    BY NotPersistingTypes DEF CleanupAfterSuccess
  <1>2. BackupTypes'
    BY DEF CleanupAfterSuccess, BackupTypes, KeepRetention
  <1>3. ContainerTypes'
    BY DEF CleanupAfterSuccess, RemoveImages, ContainerTypes
  <1>4. CallerTypes' /\ JobOK'
    <2>1. pc[p] = "cleanup" /\ job[p].svc \in Services /\ job[p] \in Job
      BY JobAt DEF CleanupAfterSuccess, At, UpdateLabel
    <2>2. PICK gone \in SUBSET (Services \X Images) : SetJob(p, [job[p] EXCEPT !.removed = gone])
      BY <2>1, RemovedTypes DEF CleanupAfterSuccess
    <2>3. Keeps(job[p], [job[p] EXCEPT !.removed = gone])
      BY <2>1, JobUpdates
    <2> QED
      BY <2>1, <2>2, <2>3, JobStep DEF CleanupAfterSuccess, UpdateLabel, CandidateLabel, Label
  <1>5. GhostTypes'
    BY SpendTypes, CostTypes DEF CleanupAfterSuccess, GhostTypes, ghosts
  <1> QED BY <1>1, <1>2, <1>3, <1>4, <1>5

\* AttachCleanup keeps the types.
LEMMA TypedAttachCleanup ==
  ASSUME Typed, NEW p \in Callers, AttachCleanup(p) PROVE Typed'
  <1> USE DEF Typed, TypeOK
  <1>1. StatusTypes'
    <2>1. history' \in Seq(Entry)
      <3>1. CASE history = <<>>
        BY <3>1 DEF AttachCleanup, StatusTypes
      <3>2. CASE history # <<>>
        <4>1. history[1] \in Entry /\ 1 \in DOMAIN history
          BY <3>2 DEF StatusTypes
        <4>2. [history[1] EXCEPT !.removed = job[p].removed] \in Entry
          BY <4>1 DEF Entry, CallerTypes, Job
        <4> QED BY <3>2, <4>1, <4>2 DEF AttachCleanup, StatusTypes
      <3> QED BY <3>1, <3>2
    <2> QED BY <2>1, PersistTypes DEF AttachCleanup, StatusTypes
  <1>2. BackupTypes'
    BY DEF AttachCleanup, BackupTypes, KeepRetention
  <1>3. ContainerTypes'
    BY DEF AttachCleanup, ContainerTypes, containers
  <1>4. CallerTypes' /\ JobOK'
    BY JobAt, JobStep, LabelStep DEF AttachCleanup, At, UpdateLabel, CandidateLabel, Label, Outcome, Verdict
  <1>5. GhostTypes'
    BY SpendTypes, CostTypes DEF AttachCleanup, GhostTypes, ghosts
  <1> QED BY <1>1, <1>2, <1>3, <1>4, <1>5

\* EnforceBackupRetention keeps the types.
LEMMA TypedEnforceBackupRetention ==
  ASSUME Typed, NEW p \in Callers, EnforceBackupRetention(p) PROVE Typed'
  <1> USE DEF Typed, TypeOK
  <1>1. StatusTypes'
    BY NotPersistingTypes DEF EnforceBackupRetention
  <1>2. BackupTypes'
    BY PrunedTypes DEF EnforceBackupRetention, BackupTypes
  <1>3. ContainerTypes'
    BY DEF EnforceBackupRetention, ContainerTypes, containers
  <1>4. CallerTypes' /\ JobOK'
    BY JobAt, JobStep, LabelStep DEF EnforceBackupRetention, At, UpdateLabel, CandidateLabel, Label, Outcome, Verdict
  <1>5. GhostTypes'
    BY SpendTypes, CostTypes DEF EnforceBackupRetention, GhostTypes, ghosts
  <1> QED BY <1>1, <1>2, <1>3, <1>4, <1>5

\* SetServiceResult keeps the types.
LEMMA TypedSetServiceResult ==
  ASSUME Typed, NEW p \in Callers, SetServiceResult(p) PROVE Typed'
  <1> USE DEF Typed, TypeOK
  <1>1. StatusTypes'
    <2>1. cached' \in [Services -> Identity]
      BY JobAt DEF SetServiceResult, StatusTypes, Identity
    <2> QED BY <2>1, PersistTypes DEF SetServiceResult, StatusTypes
  <1>2. BackupTypes'
    BY DEF SetServiceResult, BackupTypes, KeepRetention
  <1>3. ContainerTypes'
    BY DEF SetServiceResult, ContainerTypes, containers
  <1>4. CallerTypes' /\ JobOK'
    BY JobAt, JobStep, LabelStep DEF SetServiceResult, At, UpdateLabel, CandidateLabel, Label, Outcome, Verdict
  <1>5. GhostTypes'
    BY SpendTypes, CostTypes DEF SetServiceResult, GhostTypes, ghosts
  <1> QED BY <1>1, <1>2, <1>3, <1>4, <1>5

\* CheckService keeps the types.
LEMMA TypedCheckService ==
  ASSUME Typed, NEW p \in Callers, NEW s \in Services, CheckService(p, s) PROVE Typed'
  <1> USE DEF Typed, TypeOK
  <1>1. StatusTypes'
    <2>1. running[s] \in MaybeImage /\ NoImage \in MaybeImage /\ Images \subseteq MaybeImage
      BY DEF ContainerTypes, MaybeImage
    <2>2. \A image \in MaybeImage :
            /\ [cur |-> NoImage, cand |-> NoImage] \in Identity
            /\ [cur |-> running[s], cand |-> image] \in Identity
      BY <2>1 DEF Identity
    <2>3. \E identity \in Identity : cached' = [cached EXCEPT ![s] = identity]
      <3>1. \/ cached' = [cached EXCEPT ![s] = [cur |-> NoImage, cand |-> NoImage]]
            \/ \E image \in MaybeImage :
                 cached' = [cached EXCEPT ![s] = [cur |-> running[s], cand |-> image]]
        BY <2>1, Zenon DEF CheckService
      <3> QED BY <2>1, <2>2, <3>1, Zenon
    <2>4. cached' \in [Services -> Identity]
      BY <2>3 DEF StatusTypes
    <2>5. \E outcome \in WriteOutcome : Persist(outcome)
      BY Zenon DEF CheckService
    <2>6. UNCHANGED <<state, reserved, selected, history>>
      BY DEF CheckService
    <2> QED BY <2>4, <2>5, <2>6, PersistTypes DEF StatusTypes
  <1>2. BackupTypes'
    BY DEF CheckService, BackupTypes, KeepRetention
  <1>3. ContainerTypes'
    BY DEF CheckService, ContainerTypes, containers
  <1>4. CallerTypes' /\ JobOK'
    <2>1. job[p].todo \ {s} \in SUBSET Services
      BY JobAt DEF Job
    <2> QED BY <2>1, JobAt, JobUpdates DEF CheckService, SetJob, Keeps, CallerTypes, JobOK, At, UpdateLabel, CandidateLabel
  <1>5. GhostTypes'
    BY SpendTypes, CostTypes DEF CheckService, GhostTypes, ghosts
  <1> QED BY <1>1, <1>2, <1>3, <1>4, <1>5

\* Sweep keeps the types.
LEMMA TypedSweep ==
  ASSUME Typed, NEW p \in Callers, Sweep(p) PROVE Typed'
  <1> USE DEF Typed, TypeOK
  <1>1. StatusTypes'
    BY NotPersistingTypes DEF Sweep
  <1>2. BackupTypes'
    BY DEF Sweep, BackupTypes, KeepRetention
  <1>3. ContainerTypes'
    BY DEF Sweep, RemoveImages, ContainerTypes
  <1>4. CallerTypes' /\ JobOK'
    <2>1. Goto(p, "swept") /\ job[p] \in Job
      BY JobAt DEF Sweep
    <2>2. CASE RemoveImages(p, Services)
      <3>1. PICK gone \in SUBSET (Services \X Images) : SetJob(p, [job[p] EXCEPT !.removed = gone])
        BY <2>2, RemovedTypes
      <3>2. Keeps(job[p], [job[p] EXCEPT !.removed = gone])
        BY <2>1, JobUpdates
      <3> QED
        BY <2>1, <3>1, <3>2, JobStep DEF UpdateLabel, CandidateLabel, Label
    <2>3. CASE SetJob(p, [job[p] EXCEPT !.ok = FALSE])
      <3>1. Keeps(job[p], [job[p] EXCEPT !.ok = FALSE])
        BY <2>1, JobUpdates
      <3> QED
        BY <2>1, <2>3, <3>1, JobStep DEF UpdateLabel, CandidateLabel, Label
    <2> QED BY <2>2, <2>3 DEF Sweep
  <1>5. GhostTypes'
    BY SpendTypes, CostTypes DEF Sweep, GhostTypes, ghosts
  <1> QED BY <1>1, <1>2, <1>3, <1>4, <1>5

\* Leave keeps the types.
LEMMA TypedLeave ==
  ASSUME Typed, NEW p \in Callers, NEW newState \in State, NEW newHistory \in Seq(Entry),
         Leave(p, newState, newHistory)
  PROVE  Typed'
  <1> USE DEF Typed, TypeOK
  <1>1. StatusTypes'
    BY PersistTypes DEF Leave, StatusTypes
  <1>2. CallerTypes' /\ JobOK'
    BY NoJobType DEF Leave, Goto, SetJob, CallerTypes, JobOK, Label, UpdateLabel, CandidateLabel
  <1>3. GhostTypes'
    BY SpendTypes, CostTypes DEF Leave, GhostTypes, ghosts
  <1> QED
    BY <1>1, <1>2, <1>3 DEF Leave, BackupTypes, ContainerTypes, KeepRetention, containers

\* ReserveForControlPlane keeps the types.
LEMMA TypedReserveForControlPlane ==
  ASSUME Typed, NEW p \in Callers, ReserveForControlPlane(p) PROVE Typed'
  <1> USE DEF Typed, TypeOK
  <1>1. StatusTypes'
    BY DEF ReserveForControlPlane, StatusTypes, files
  <1>2. BackupTypes'
    BY DEF ReserveForControlPlane, BackupTypes, files
  <1>3. ContainerTypes'
    BY DEF ReserveForControlPlane, ContainerTypes, containers
  <1>4. CallerTypes' /\ JobOK'
    BY DEF ReserveForControlPlane, Goto, CallerTypes, JobOK, Label, UpdateLabel, CandidateLabel
  <1>5. GhostTypes'
    BY BudgetUpdates DEF ReserveForControlPlane, GhostTypes, ghosts
  <1> QED BY <1>1, <1>2, <1>3, <1>4, <1>5

\* Release keeps the types.
LEMMA TypedRelease ==
  ASSUME Typed, NEW p \in Callers, Release(p) PROVE Typed'
  <1> USE DEF Typed, TypeOK
  <1>1. StatusTypes'
    BY DEF Release, StatusTypes, files
  <1>2. BackupTypes'
    BY DEF Release, BackupTypes, files
  <1>3. ContainerTypes'
    BY DEF Release, ContainerTypes, containers
  <1>4. CallerTypes' /\ JobOK'
    BY DEF Release, Goto, CallerTypes, JobOK, Label, UpdateLabel, CandidateLabel
  <1>5. GhostTypes'
    BY SpendTypes, CostTypes DEF Release, GhostTypes, ghosts
  <1> QED BY <1>1, <1>2, <1>3, <1>4, <1>5

\* StatusSynced keeps the types.
LEMMA TypedStatusSynced ==
  ASSUME Typed, StatusSynced PROVE Typed'
  <1> USE DEF Typed, TypeOK
  <1>1. StatusTypes'
    <2>1. cached' \in [Services -> Identity]
      BY DEF StatusSynced, StatusTypes, Identity, ContainerTypes
    <2> QED BY <2>1, PersistTypes DEF StatusSynced, StatusTypes
  <1>2. BackupTypes'
    BY DEF StatusSynced, BackupTypes, KeepRetention
  <1>3. ContainerTypes'
    BY DEF StatusSynced, ContainerTypes, containers
  <1>4. CallerTypes' /\ JobOK'
    BY DEF StatusSynced, CallerTypes, JobOK
  <1>5. GhostTypes'
    BY SpendTypes, CostTypes DEF StatusSynced, GhostTypes, ghosts
  <1> QED BY <1>1, <1>2, <1>3, <1>4, <1>5

\* SetBackupRetention keeps the types.
LEMMA TypedSetBackupRetention ==
  ASSUME Typed, NEW n \in MinRetention .. MaxRetention, SetBackupRetention(n) PROVE Typed'
  <1> USE DEF Typed, TypeOK
  <1>1. StatusTypes'
    BY NotPersistingTypes DEF SetBackupRetention
  <1>2. BackupTypes'
    BY PrunedTypes DEF SetBackupRetention, BackupTypes
  <1>3. ContainerTypes'
    BY DEF SetBackupRetention, ContainerTypes, containers
  <1>4. CallerTypes' /\ JobOK'
    BY DEF SetBackupRetention, CallerTypes, JobOK
  <1>5. GhostTypes'
    BY SpendTypes, CostTypes DEF SetBackupRetention, GhostTypes, ghosts
  <1> QED BY <1>1, <1>2, <1>3, <1>4, <1>5

\* RecreateElsewhere keeps the types.
LEMMA TypedRecreateElsewhere ==
  ASSUME Typed, NEW s \in Services, NEW new \in Images, RecreateElsewhere(s, new) PROVE Typed'
  <1> USE DEF Typed, TypeOK
  <1>1. StatusTypes'
    BY NotPersistingTypes DEF RecreateElsewhere
  <1>2. BackupTypes'
    BY DEF RecreateElsewhere, BackupTypes, KeepRetention
  <1>3. ContainerTypes'
    BY DEF RecreateElsewhere, ContainerTypes, MaybeImage
  <1>4. CallerTypes' /\ JobOK'
    <2>1. \A p \in Callers : job'[p] = job[p] \/ job'[p] = [job[p] EXCEPT !.spoiled = TRUE]
      BY DEF RecreateElsewhere
    <2>2. \A p \in Callers : Keeps(job[p], job'[p]) /\ job'[p].verdict = job[p].verdict
      BY <2>1, JobAt, SpoiledUpdate DEF Keeps
    <2>3. pc' = pc /\ job' = [p \in Callers |-> job'[p]]
      BY DEF RecreateElsewhere
    <2> QED BY <2>2, <2>3 DEF CallerTypes, JobOK, Keeps
  <1>5. GhostTypes'
    BY BudgetUpdates DEF RecreateElsewhere, GhostTypes
  <1> QED BY <1>1, <1>2, <1>3, <1>4, <1>5

\* A crash and the restart after it (NewManager, load) keep the types.
LEMMA TypedRestart ==
  ASSUME Typed, Restart PROVE Typed'
  <1> USE DEF Typed, TypeOK
  <1>1. StatusTypes'
    <2>1. /\ disk \in Snapshot
          /\ selected' \in [Services -> MaybeImage] /\ history' \in Seq(Entry)
          /\ cached' \in [Services -> Identity] /\ reserved' \in BOOLEAN
      BY DEF Restart, StatusTypes, Snapshot
    <2>2. CASE Interrupted(disk.state)
      BY <2>1, <2>2, PersistTypes DEF Restart, State
    <2>3. CASE ~Interrupted(disk.state)
      BY <2>1, <2>3 DEF Restart, StatusTypes, Snapshot
    <2> QED BY <2>2, <2>3
  <1>2. BackupTypes'
    BY DEF Restart, BackupTypes
  <1>3. ContainerTypes'
    BY DEF Restart, ContainerTypes, containers
  <1>4. CallerTypes' /\ JobOK'
    BY NoJobType DEF Restart, CallerTypes, JobOK, Label, UpdateLabel, CandidateLabel
  <1>5. GhostTypes'
    BY BudgetUpdates, CostTypes DEF Restart, GhostTypes, ghosts
  <1> QED BY <1>1, <1>2, <1>3, <1>4, <1>5

-----------------------------------------------------------------------------
(* Type correctness of Next *)

\* Every step of update() keeps the types.
LEMMA TypedUpdateStep ==
  ASSUME Typed, NEW p \in Callers, UpdateStep(p) PROVE Typed'
  <1>1. Finish(p) => Typed'
    BY TypedLeave DEF Finish, State, Typed, TypeOK, StatusTypes
  <1>2. Fail(p) => Typed'
    BY TypedLeave DEF Fail, State, Typed, TypeOK, StatusTypes
  <1> QED
    BY <1>1, <1>2, TypedInspect, TypedBackupData, TypedPull, TypedAttest, TypedMigrate, TypedSelect,
       TypedComposeUp, TypedVerify, TypedRestoreOwnership, TypedSelectOld, TypedComposeUpOld,
       TypedRestoreData, TypedVerifyRollback, TypedRecordHistory, TypedCleanupAfterSuccess,
       TypedAttachCleanup, TypedEnforceBackupRetention, TypedSetServiceResult
    DEF UpdateStep

\* So does every step of the other operations.
LEMMA TypedOtherStep ==
  ASSUME Typed, NEW p \in Callers, OtherStep(p) PROVE Typed'
  <1> DEFINE done == [service |-> "cleanup",
                      outcome |-> IF job[p].ok THEN "cleanup" ELSE "failed",
                      from |-> NoImage, to |-> NoImage, removed |-> job[p].removed]
  <1>1. CheckDone(p) => Typed'
    BY TypedLeave DEF CheckDone, State, Typed, TypeOK, StatusTypes
  <1>2. ExclusiveDone(p) => Typed'
    BY TypedLeave DEF ExclusiveDone, State, Typed, TypeOK, StatusTypes
  <1>3. CleanupDone(p) => Typed'
    <2>1. done \in Entry
      BY DEF Entry, Typed, TypeOK, CallerTypes, Job, MaybeImage
    <2>2. Recorded(done) \in Seq(Entry)
      BY <2>1, RecordedType DEF Typed, TypeOK, StatusTypes
    <2> QED BY <2>2, TypedLeave DEF CleanupDone, State
  <1> QED
    BY <1>1, <1>2, <1>3, TypedCheckService, TypedSweep, TypedRelease DEF OtherStep

\* So does every call.
LEMMA TypedCall ==
  ASSUME Typed, NEW p \in Callers, Call(p) PROVE Typed'
  <1>1. ASSUME NEW s \in Services, StartUpdate(p, s) PROVE Typed'
    <2>1. [NoJob EXCEPT !.svc = s].svc = s
      BY DEF NoJob
    <2> QED BY <1>1, <2>1, NoJobType, TypedEnter DEF StartUpdate, State, Label, CandidateLabel
  <1>2. StartCheck(p) => Typed'
    <2>1. [NoJob EXCEPT !.todo = Services] \in Job
      BY NoJobType DEF Job
    <2> QED BY <2>1, TypedEnter DEF StartCheck, State, Label, UpdateLabel, CandidateLabel
  <1>3. RunManualCleanup(p) => Typed'
    BY NoJobType, TypedEnter DEF RunManualCleanup, State, Label, UpdateLabel, CandidateLabel
  <1>4. RunExclusive(p) => Typed'
    BY NoJobType, TypedEnter DEF RunExclusive, State, Label, UpdateLabel, CandidateLabel
  <1> QED BY <1>1, <1>2, <1>3, <1>4, TypedReserveForControlPlane DEF Call

\* Every step keeps the types.
LEMMA TypedNext == Typed /\ [Next]_vars => Typed'
  <1> SUFFICES ASSUME Typed, [Next]_vars PROVE Typed'
    OBVIOUS
  <1>1. ASSUME NEW p \in Callers, Call(p) \/ Work(p) PROVE Typed'
    BY <1>1, TypedCall, TypedUpdateStep, TypedOtherStep DEF Work
  <1>2. CASE UNCHANGED vars
    BY <1>2 DEF vars, memory, files, containers, ghosts, Typed, TypeOK, StatusTypes, BackupTypes,
                ContainerTypes, CallerTypes, GhostTypes, JobOK
  <1> QED
    BY <1>1, <1>2, TypedStatusSynced, TypedSetBackupRetention, TypedRecreateElsewhere, TypedRestart
    DEF Next

\* Every reachable state has the types the code's declarations give it.
THEOREM TypeCorrectness == Spec => []TypeOK
  <1>1. Typed => TypeOK
    BY DEF Typed
  <1> QED BY <1>1, TypedInit, TypedNext, PTL DEF Spec

-----------------------------------------------------------------------------
(* Mutual exclusion *)

\* The steps inside an operation: neither its first nor its last.
InnerStep(p) ==
  \/ Inspect(p) \/ BackupData(p) \/ Pull(p) \/ Attest(p) \/ Migrate(p) \/ Select(p)
  \/ ComposeUp(p) \/ Verify(p)
  \/ RestoreOwnership(p) \/ SelectOld(p) \/ ComposeUpOld(p) \/ RestoreData(p)
  \/ VerifyRollback(p)
  \/ RecordHistory(p) \/ CleanupAfterSuccess(p) \/ AttachCleanup(p)
  \/ EnforceBackupRetention(p) \/ SetServiceResult(p)
  \/ Sweep(p) \/ \E s \in Services : CheckService(p, s)

Quiet == {"idle", "remote"}

\* A step inside an operation moves its own program counter and job alone.
LEMMA InnerFrame ==
  ASSUME NEW p \in Callers, pc \in [Callers -> Label], InnerStep(p)
  PROVE  /\ pc[p] \notin Quiet
         /\ \E label \in Label \ Quiet : pc' = [pc EXCEPT ![p] = label]
         /\ UNCHANGED <<state, reserved, deployed>>
  <1> USE DEF At, Goto, Quiet, Label, RollbackFails, Progress, NotPersisting, SelectImage, ghosts
  <1>Inspect. CASE Inspect(p)
    BY <1>Inspect DEF Inspect
  <1>BackupData. CASE BackupData(p)
    BY <1>BackupData DEF BackupData
  <1>Pull. CASE Pull(p)
    BY <1>Pull DEF Pull
  <1>Attest. CASE Attest(p)
    BY <1>Attest DEF Attest
  <1>Migrate. CASE Migrate(p)
    BY <1>Migrate DEF Migrate
  <1>Select. CASE Select(p)
    BY <1>Select DEF Select
  <1>ComposeUp. CASE ComposeUp(p)
    BY <1>ComposeUp DEF ComposeUp
  <1>Verify. CASE Verify(p)
    BY <1>Verify DEF Verify
  <1>RestoreOwnership. CASE RestoreOwnership(p)
    BY <1>RestoreOwnership DEF RestoreOwnership
  <1>SelectOld. CASE SelectOld(p)
    BY <1>SelectOld DEF SelectOld
  <1>ComposeUpOld. CASE ComposeUpOld(p)
    BY <1>ComposeUpOld DEF ComposeUpOld
  <1>RestoreData. CASE RestoreData(p)
    BY <1>RestoreData DEF RestoreData
  <1>VerifyRollback. CASE VerifyRollback(p)
    BY <1>VerifyRollback DEF VerifyRollback
  <1>RecordHistory. CASE RecordHistory(p)
    BY <1>RecordHistory DEF RecordHistory
  <1>CleanupAfterSuccess. CASE CleanupAfterSuccess(p)
    BY <1>CleanupAfterSuccess DEF CleanupAfterSuccess
  <1>AttachCleanup. CASE AttachCleanup(p)
    BY <1>AttachCleanup DEF AttachCleanup
  <1>EnforceBackupRetention. CASE EnforceBackupRetention(p)
    BY <1>EnforceBackupRetention DEF EnforceBackupRetention
  <1>SetServiceResult. CASE SetServiceResult(p)
    BY <1>SetServiceResult DEF SetServiceResult
  <1>Sweep. CASE Sweep(p)
    BY <1>Sweep DEF Sweep
  <1>CheckService. CASE \E s \in Services : CheckService(p, s)
    <2>1. [pc EXCEPT ![p] = "check"] = pc \/ pc[p] # "check"
      OBVIOUS
    <2> QED BY <1>CheckService, <2>1 DEF CheckService
  <1> QED
    BY <1>Inspect, <1>BackupData, <1>Pull, <1>Attest, <1>Migrate, <1>Select, <1>ComposeUp,
       <1>Verify, <1>RestoreOwnership, <1>SelectOld, <1>ComposeUpOld, <1>RestoreData,
       <1>VerifyRollback, <1>RecordHistory, <1>CleanupAfterSuccess, <1>AttachCleanup,
       <1>EnforceBackupRetention, <1>SetServiceResult, <1>Sweep, <1>CheckService DEF
       InnerStep

\* One operation at a time, with pc and state only: what the frames preserve.
LEMMA ExclusiveInner ==
  ASSUME Typed, ExclusiveOperation, NEW p \in Callers, InnerStep(p) PROVE ExclusiveOperation'
  <1>1. PICK label \in Label \ Quiet : pc' = [pc EXCEPT ![p] = label]
    BY InnerFrame DEF Typed, TypeOK, CallerTypes
  <1>2. pc[p] \notin Quiet /\ UNCHANGED <<state, reserved>> /\ pc \in [Callers -> Label]
    BY InnerFrame DEF Typed, TypeOK, CallerTypes
  <1> QED BY <1>1, <1>2 DEF ExclusiveOperation, At, Quiet

\* A call is let in only while every other caller is idle, and makes the
\* Manager busy.
LEMMA ExclusiveEnter ==
  ASSUME Typed, ExclusiveOperation, NEW p \in Callers, NEW newState \in {"checking", "updating"},
         NEW label \in Label \ Quiet, pc[p] = "idle", ~Busy,
         Goto(p, label), state' = newState, reserved' = reserved
  PROVE  ExclusiveOperation'
  <1>1. \A q \in Callers : pc[q] = "idle"
    BY DEF ExclusiveOperation, At, Busy
  <1> QED
    BY <1>1 DEF ExclusiveOperation, At, Busy, Goto, Quiet, Typed, TypeOK, CallerTypes

\* Leaving makes the Manager available again.
LEMMA ExclusiveLeave ==
  ASSUME Typed, ExclusiveOperation, NEW p \in Callers, pc[p] \notin Quiet,
         NEW newState \in {"idle", "failed"},
         Goto(p, "idle"), state' = newState, reserved' = reserved
  PROVE  ExclusiveOperation'
  BY DEF ExclusiveOperation, At, Goto, Quiet, Typed, TypeOK, CallerTypes

\* Every step keeps operations exclusive.
LEMMA ExclusiveNext == Typed /\ ExclusiveOperation /\ [Next]_vars => ExclusiveOperation'
  <1> SUFFICES ASSUME Typed, ExclusiveOperation, [Next]_vars PROVE ExclusiveOperation'
    OBVIOUS
  <1>1. ASSUME NEW p \in Callers, Call(p) PROVE ExclusiveOperation'
    <2>1. ASSUME NEW newState \in {"checking", "updating"}, NEW label \in Label \ Quiet, NEW newJob,
                 NEW outcome \in WriteOutcome, Enter(p, newState, label, newJob, outcome)
          PROVE  ExclusiveOperation'
      BY <2>1, ExclusiveEnter DEF Enter, At
    <2>2. CASE ReserveForControlPlane(p)
      <3>1. \A q \in Callers : pc[q] = "idle"
        BY <2>2 DEF ReserveForControlPlane, ExclusiveOperation, At, Busy
      <3> QED
        BY <2>2, <3>1
        DEF ReserveForControlPlane, ExclusiveOperation, At, Goto, Busy, Typed, TypeOK, CallerTypes
    <2>3. CASE ~ReserveForControlPlane(p)
      BY <1>1, <2>1, <2>3 DEF Call, StartUpdate, StartCheck, RunManualCleanup, RunExclusive, Label, Quiet
    <2> QED BY <2>2, <2>3
  <1>2. ASSUME NEW p \in Callers, Work(p) PROVE ExclusiveOperation'
    <2>1. ASSUME NEW newState \in {"idle", "failed"}, NEW newHistory, pc[p] \notin Quiet,
                 Leave(p, newState, newHistory)
          PROVE  ExclusiveOperation'
      BY <2>1, ExclusiveLeave DEF Leave
    <2>2. CASE Finish(p) \/ Fail(p) \/ CheckDone(p) \/ CleanupDone(p) \/ ExclusiveDone(p)
      BY <2>1, <2>2 DEF Finish, Fail, CheckDone, CleanupDone, ExclusiveDone, At, Quiet
    <2>3. CASE Release(p)
      BY <2>3 DEF Release, ExclusiveOperation, At, Goto, Typed, TypeOK, CallerTypes
    <2>4. CASE InnerStep(p)
      BY <2>4, ExclusiveInner
    <2> QED BY <1>2, <2>2, <2>3, <2>4 DEF Work, UpdateStep, OtherStep, InnerStep
  <1>3. CASE StatusSynced
    BY <1>3 DEF StatusSynced, ExclusiveOperation, At
  <1>4. CASE \E n \in MinRetention .. MaxRetention : SetBackupRetention(n)
    BY <1>4 DEF SetBackupRetention, NotPersisting, ExclusiveOperation, At
  <1>5. CASE \E s \in Services, new \in Images : RecreateElsewhere(s, new)
    BY <1>5 DEF RecreateElsewhere, NotPersisting, ExclusiveOperation, At
  <1>6. CASE Restart
    <2>1. \A q \in Callers : pc'[q] = "idle"
      BY <1>6 DEF Restart
    <2>2. state' \notin {"checking", "updating"} /\ reserved' = FALSE
      BY <1>6 DEF Restart, Interrupted
    <2> QED BY <2>1, <2>2 DEF ExclusiveOperation, At
  <1>7. CASE UNCHANGED vars
    BY <1>7 DEF vars, memory, ExclusiveOperation, At
  <1> QED BY <1>1, <1>2, <1>3, <1>4, <1>5, <1>6, <1>7 DEF Next

\* The busy guard is a lock, for any number of callers, services and images,
\* however many faults and crashes there are.
THEOREM MutualExclusion == Spec => []ExclusiveOperation
  <1>1. Init => ExclusiveOperation
    BY DEF Init, ExclusiveOperation, At
  <1>2. Typed /\ ExclusiveOperation /\ [Next]_vars => (Typed /\ ExclusiveOperation)'
    BY TypedNext, ExclusiveNext
  <1> QED BY <1>1, <1>2, TypedInit, PTL DEF Spec

-----------------------------------------------------------------------------
(* Trusted images *)

OldLabel == {"backup", "pull", "attest", "migrate", "select", "up", "verify",
             "rbOwner", "rbSelect", "rbUp"}
VettedLabel == {"migrate", "select", "up"}

TrustedImage(s, image) == image \in Images /\ (Attested(s, image) \/ image \in deployed[s])

\* Why TrustedImagesRun is not inductive by itself: an update carries the image
\* it found, and later the one it checked, to the docker compose that starts it.
JobTrust ==
  \A p \in Callers :
    /\ pc[p] \in OldLabel => TrustedImage(job[p].svc, job[p].old)
    /\ pc[p] \in VettedLabel => Attested(job[p].svc, job[p].cand)
    /\ pc[p] = "up" => override[job[p].svc] = job[p].cand
    /\ pc[p] = "rbUp" => override[job[p].svc] = job[p].old
    /\ pc[p] \in Quiet => job[p].svc = "none"

Inv == Typed /\ ExclusiveOperation /\ TrustedImagesRun /\ JobTrust

Subject(j) == <<j.svc, j.old, j.cand>>

\* Only job[p] may differ, and not in its subject.
SameSubject(p) ==
  /\ \A q \in Callers \ {p} : job'[q] = job[q]
  /\ Subject(job'[p]) = Subject(job[p])

\* No assignment but those of Inspect and Pull changes which service and
\* images a job is about.
LEMMA SubjectKept ==
  ASSUME job \in [Callers -> Job], NEW p \in Callers
  PROVE  /\ UNCHANGED job => SameSubject(p)
         /\ \A v : SetJob(p, [job[p] EXCEPT !.verdict = v]) => SameSubject(p)
         /\ \A v : SetJob(p, [job[p] EXCEPT !.verdict = v, !.spoiled = TRUE]) => SameSubject(p)
         /\ \A n : SetJob(p, [job[p] EXCEPT !.at = n]) => SameSubject(p)
         /\ \A c, o : SetJob(p, [job[p] EXCEPT !.changed = c, !.prev = o]) => SameSubject(p)
         /\ \A t : SetJob(p, [job[p] EXCEPT !.todo = t]) => SameSubject(p)
         /\ \A r : SetJob(p, [job[p] EXCEPT !.removed = r]) => SameSubject(p)
         /\ SetJob(p, [job[p] EXCEPT !.ok = FALSE]) => SameSubject(p)
  <1>1. \A new : SetJob(p, new) => job'[p] = new /\ \A q \in Callers \ {p} : job'[q] = job[q]
    BY DEF SetJob
  <1>2. job[p] \in Job
    OBVIOUS
  <1>3. /\ \A v : Subject([job[p] EXCEPT !.verdict = v]) = Subject(job[p])
        /\ \A v : Subject([job[p] EXCEPT !.verdict = v, !.spoiled = TRUE]) = Subject(job[p])
        /\ \A n : Subject([job[p] EXCEPT !.at = n]) = Subject(job[p])
        /\ \A c, o : Subject([job[p] EXCEPT !.changed = c, !.prev = o]) = Subject(job[p])
        /\ \A t : Subject([job[p] EXCEPT !.todo = t]) = Subject(job[p])
        /\ \A r : Subject([job[p] EXCEPT !.removed = r]) = Subject(job[p])
        /\ Subject([job[p] EXCEPT !.ok = FALSE]) = Subject(job[p])
    BY <1>2 DEF Job, Subject
  <1>4. \A new : SetJob(p, new) /\ Subject(new) = Subject(job[p]) => SameSubject(p)
    BY <1>1 DEF SameSubject
  <1>5. UNCHANGED job => SameSubject(p)
    BY DEF SameSubject, Subject
  <1> QED
    BY <1>3, <1>4, <1>5

\* The subject of the caller at work changes in Inspect and Pull only.
LEMMA SubjectFrame ==
  ASSUME Typed, NEW p \in Callers, InnerStep(p), ~Inspect(p), ~Pull(p)
  PROVE  SameSubject(p)
  <1> USE SubjectKept DEF RollbackFails, Typed, TypeOK, CallerTypes
  <1>BackupData. CASE BackupData(p)
    BY <1>BackupData DEF BackupData
  <1>Attest. CASE Attest(p)
    BY <1>Attest DEF Attest
  <1>Migrate. CASE Migrate(p)
    BY <1>Migrate DEF Migrate
  <1>Select. CASE Select(p)
    BY <1>Select DEF Select
  <1>ComposeUp. CASE ComposeUp(p)
    BY <1>ComposeUp DEF ComposeUp
  <1>Verify. CASE Verify(p)
    BY <1>Verify DEF Verify
  <1>RestoreOwnership. CASE RestoreOwnership(p)
    BY <1>RestoreOwnership DEF RestoreOwnership
  <1>SelectOld. CASE SelectOld(p)
    BY <1>SelectOld DEF SelectOld
  <1>ComposeUpOld. CASE ComposeUpOld(p)
    BY <1>ComposeUpOld DEF ComposeUpOld
  <1>RestoreData. CASE RestoreData(p)
    BY <1>RestoreData DEF RestoreData
  <1>VerifyRollback. CASE VerifyRollback(p)
    BY <1>VerifyRollback DEF VerifyRollback
  <1>RecordHistory. CASE RecordHistory(p)
    BY <1>RecordHistory DEF RecordHistory
  <1>CleanupAfterSuccess. CASE CleanupAfterSuccess(p)
    BY <1>CleanupAfterSuccess DEF CleanupAfterSuccess, RemoveImages
  <1>AttachCleanup. CASE AttachCleanup(p)
    BY <1>AttachCleanup DEF AttachCleanup
  <1>EnforceBackupRetention. CASE EnforceBackupRetention(p)
    BY <1>EnforceBackupRetention DEF EnforceBackupRetention
  <1>SetServiceResult. CASE SetServiceResult(p)
    BY <1>SetServiceResult DEF SetServiceResult
  <1>Sweep. CASE Sweep(p)
    BY <1>Sweep DEF Sweep, RemoveImages
  <1>CheckService. CASE \E s \in Services : CheckService(p, s)
    BY <1>CheckService DEF CheckService
  <1> QED
    BY <1>BackupData, <1>Attest, <1>Migrate, <1>Select, <1>ComposeUp, <1>Verify,
       <1>RestoreOwnership, <1>SelectOld, <1>ComposeUpOld, <1>RestoreData,
       <1>VerifyRollback, <1>RecordHistory, <1>CleanupAfterSuccess, <1>AttachCleanup,
       <1>EnforceBackupRetention, <1>SetServiceResult, <1>Sweep, <1>CheckService DEF
       InnerStep

\* What the callers that are not at work contribute to JobTrust.
OthersIdle(p) == \A q \in Callers \ {p} : pc[q] = "idle" /\ pc'[q] = "idle" /\ job'[q] = job[q]

\* While one caller is at work the others are idle, before and after its step.
LEMMA OthersStayIdle ==
  ASSUME Inv, NEW p \in Callers, InnerStep(p) PROVE OthersIdle(p)
  <1>1. pc[p] \notin Quiet /\ \E label \in Label \ Quiet : pc' = [pc EXCEPT ![p] = label]
    BY InnerFrame DEF Inv, Typed, TypeOK, CallerTypes
  <1>2. \A q \in Callers \ {p} : pc[q] = "idle" /\ pc'[q] = "idle"
    BY <1>1 DEF Inv, ExclusiveOperation, At, Quiet, Typed, TypeOK, CallerTypes
  <1>3. \A q \in Callers \ {p} : job'[q] = job[q]
    <2>1. CASE Inspect(p)
      BY <2>1 DEF Inspect, SetJob, Inv, Typed, TypeOK, CallerTypes
    <2>2. CASE Pull(p)
      BY <2>2 DEF Pull, SetJob, Inv, Typed, TypeOK, CallerTypes
    <2> QED BY <2>1, <2>2, SubjectFrame DEF Inv, SameSubject
  <1> QED BY <1>2, <1>3 DEF OthersIdle

\* JobTrust is preserved by a step that changes job[p] alone, once the new
\* job[p] is shown to have it.
LEMMA TrustStep ==
  ASSUME Inv, NEW p \in Callers, NEW label \in Label \ Quiet, OthersIdle(p), Goto(p, label),
         deployed' = deployed,
         label \in OldLabel => TrustedImage(job'[p].svc, job'[p].old),
         label \in VettedLabel => Attested(job'[p].svc, job'[p].cand),
         label = "up" => override'[job'[p].svc] = job'[p].cand,
         label = "rbUp" => override'[job'[p].svc] = job'[p].old
  PROVE  JobTrust'
  <1>1. pc'[p] = label /\ \A q \in Callers \ {p} : pc'[q] = "idle" /\ job'[q] = job[q] /\ job[q].svc = "none"
    BY DEF Goto, OthersIdle, Inv, JobTrust, Quiet, Typed, TypeOK, CallerTypes
  <1> QED BY <1>1 DEF JobTrust, TrustedImage, OldLabel, VettedLabel, Quiet

\* The containers are all trusted after a step that only replaces one of them,
\* by a trusted image or by none.
LEMMA RunningStep ==
  ASSUME Inv, NEW s \in Services, NEW new, deployed' = deployed,
         running' = [running EXCEPT ![s] = new] \/ running' = running,
         new = NoImage \/ TrustedImage(s, new) \/ new = running[s]
  PROVE  TrustedImagesRun'
  BY DEF Inv, TrustedImagesRun, TrustedImage, Typed, TypeOK, ContainerTypes

\* So does one that replaces no container.
LEMMA TrustKeptRunning ==
  ASSUME Inv, running' = running, deployed' = deployed PROVE TrustedImagesRun'
  BY DEF Inv, TrustedImagesRun

\* The steps that neither load, vet, select nor start an image.
LEMMA TrustPlain ==
  ASSUME Inv, NEW p \in Callers, InnerStep(p), SameSubject(p), NEW label \in Label \ Quiet,
         Goto(p, label),
         label \in OldLabel => pc[p] \in OldLabel,
         label \in VettedLabel => pc[p] \in VettedLabel,
         label \notin {"up", "rbUp"},
         running' = running
  PROVE  TrustedImagesRun' /\ JobTrust'
  <1>1. OthersIdle(p) /\ deployed' = deployed
    BY OthersStayIdle, InnerFrame DEF Inv, Typed, TypeOK, CallerTypes
  <1>2. /\ job'[p].svc = job[p].svc /\ job'[p].old = job[p].old /\ job'[p].cand = job[p].cand
    BY DEF SameSubject, Subject
  <1>3. /\ pc[p] \in OldLabel => TrustedImage(job[p].svc, job[p].old)
        /\ pc[p] \in VettedLabel => Attested(job[p].svc, job[p].cand)
    BY DEF Inv, JobTrust
  <1> QED
    BY <1>1, <1>2, <1>3, TrustStep, TrustKeptRunning

\* The image found running, which a rollback returns to, is trusted.
LEMMA TrustInspect ==
  ASSUME Inv, NEW p \in Callers, Inspect(p) PROVE TrustedImagesRun' /\ JobTrust'
  <1>1. InnerStep(p) /\ OthersIdle(p) /\ deployed' = deployed /\ running' = running
    BY OthersStayIdle DEF InnerStep, Inspect, ghosts, containers
  <1>2. job[p].svc \in Services /\ job[p] \in Job
    BY JobAt DEF Inspect, At, Inv, Typed, TypeOK, UpdateLabel
  <1>3. CASE Goto(p, "fail")
    BY <1>1, <1>3, TrustStep, TrustKeptRunning DEF Label, Quiet, OldLabel, VettedLabel
  <1>4. CASE Goto(p, "backup") /\ ~Goto(p, "fail")
    <2> DEFINE new == [job[p] EXCEPT !.old = running[job[p].svc],
                                     !.base = [image |-> running[job[p].svc],
                                               owner |-> owner[job[p].svc],
                                               data |-> data[job[p].svc]]]
    <2>1. SetJob(p, new) /\ running[job[p].svc] # NoImage
      BY <1>4 DEF Inspect
    <2>2. new.old = running[job[p].svc] /\ new.svc = job[p].svc
      BY <1>2 DEF Job
    <2>3. job'[p] = new
      BY <2>1 DEF SetJob, Inv, Typed, TypeOK, CallerTypes
    <2>4. TrustedImage(job[p].svc, running[job[p].svc])
      BY <1>2, <2>1 DEF Inv, TrustedImagesRun, TrustedImage, Typed, TypeOK, ContainerTypes, MaybeImage
    <2>5. TrustedImage(job'[p].svc, job'[p].old)
      BY <2>2, <2>3, <2>4
    <2> QED
      BY <1>1, <1>4, <2>5, TrustStep, TrustKeptRunning DEF Label, Quiet, OldLabel, VettedLabel
  <1> QED BY <1>3, <1>4 DEF Inspect

\* A pulled candidate has to pass the attestation gate next.
LEMMA TrustPull ==
  ASSUME Inv, NEW p \in Callers, Pull(p) PROVE TrustedImagesRun' /\ JobTrust'
  <1>1. InnerStep(p) /\ OthersIdle(p) /\ deployed' = deployed /\ running' = running
    BY OthersStayIdle DEF InnerStep, Pull, ghosts
  <1>2. job[p] \in Job /\ TrustedImage(job[p].svc, job[p].old)
    BY JobAt DEF Pull, At, Inv, JobTrust, OldLabel, Typed, TypeOK
  <1>5. job'[p].svc = job[p].svc /\ job'[p].old = job[p].old
    <2>1. PICK image : \/ SetJob(p, [job[p] EXCEPT !.cand = image, !.verdict = "no_change"])
                       \/ SetJob(p, [job[p] EXCEPT !.cand = image])
                       \/ SetJob(p, [job[p] EXCEPT !.verdict = "aborted"])
      BY DEF Pull
    <2>2. \/ job'[p] = [job[p] EXCEPT !.cand = image, !.verdict = "no_change"]
          \/ job'[p] = [job[p] EXCEPT !.cand = image]
          \/ job'[p] = [job[p] EXCEPT !.verdict = "aborted"]
      BY <2>1 DEF SetJob, Inv, Typed, TypeOK, CallerTypes
    <2> QED BY <2>2, <1>2 DEF Job
  <1>6. \E label \in {"record", "attest", "prune"} : Goto(p, label)
    BY DEF Pull
  <1> QED
    BY <1>1, <1>2, <1>5, <1>6, TrustStep, TrustKeptRunning DEF Label, Quiet, OldLabel, VettedLabel

\* Past the gate the candidate is attested.
LEMMA TrustAttest ==
  ASSUME Inv, NEW p \in Callers, Attest(p) PROVE TrustedImagesRun' /\ JobTrust'
  <1>1. InnerStep(p) /\ SameSubject(p) /\ pc[p] = "attest"
    BY SubjectFrame DEF InnerStep, Attest, At, Inspect, Pull, Inv
  <1>2. OthersIdle(p) /\ deployed' = deployed /\ running' = running
    BY <1>1, OthersStayIdle DEF Attest, ghosts, containers
  <1>3. CASE Goto(p, "migrate") /\ Attested(job[p].svc, job[p].cand)
    <2>1. TrustedImage(job[p].svc, job[p].old)
      BY <1>1 DEF Inv, JobTrust, OldLabel
    <2> QED
      BY <1>1, <1>2, <1>3, <2>1, TrustStep, TrustKeptRunning
      DEF SameSubject, Subject, Label, Quiet, OldLabel, VettedLabel
  <1>4. CASE Goto(p, "prune")
    BY <1>1, <1>4, <1>2, TrustPlain DEF Label, Quiet, OldLabel, VettedLabel
  <1> QED BY <1>3, <1>4 DEF Attest

\* After a successful selectImage updates.yaml names the candidate.
LEMMA TrustSelect ==
  ASSUME Inv, NEW p \in Callers, Select(p) PROVE TrustedImagesRun' /\ JobTrust'
  <1>1. InnerStep(p) /\ SameSubject(p) /\ pc[p] = "select"
    BY SubjectFrame DEF InnerStep, Select, At, Inspect, Pull, Inv
  <1>2. OthersIdle(p) /\ deployed' = deployed /\ running' = running
    BY <1>1, OthersStayIdle DEF Select, ghosts
  <1>3. CASE Goto(p, "up") /\ \E second : SelectImage(job[p].svc, job[p].cand, "ok", second)
    <2>1. job[p].svc \in Services /\ job[p].cand \in Images
      BY <1>1, JobAt DEF Inv, Typed, TypeOK, UpdateLabel, CandidateLabel
    <2>2. override'[job[p].svc] = job[p].cand
      BY <1>3, <2>1, ConstantsAssumption
      DEF SelectImage, Persist, OverrideAfter, OverrideContent, Inv, Typed, TypeOK, StatusTypes, ConstantsAssumption
    <2>3. TrustedImage(job[p].svc, job[p].old) /\ Attested(job[p].svc, job[p].cand)
      BY <1>1 DEF Inv, JobTrust, OldLabel, VettedLabel
    <2> QED
      BY <1>1, <1>2, <1>3, <2>2, <2>3, TrustStep, TrustKeptRunning
      DEF SameSubject, Subject, Label, Quiet, OldLabel, VettedLabel
  <1>4. CASE Goto(p, "prune")
    BY <1>1, <1>4, <1>2, TrustPlain DEF Label, Quiet, OldLabel, VettedLabel
  <1> QED BY <1>3, <1>4 DEF Select

\* After a successful selectImage of a rollback it names the old image.
LEMMA TrustSelectOld ==
  ASSUME Inv, NEW p \in Callers, SelectOld(p) PROVE TrustedImagesRun' /\ JobTrust'
  <1>1. InnerStep(p) /\ SameSubject(p) /\ pc[p] = "rbSelect"
    BY SubjectFrame DEF InnerStep, SelectOld, At, Inspect, Pull, Inv
  <1>2. OthersIdle(p) /\ deployed' = deployed /\ running' = running
    BY <1>1, OthersStayIdle DEF SelectOld, ghosts, containers
  <1>3. CASE Goto(p, "rbUp") /\ \E second : SelectImage(job[p].svc, job[p].old, "ok", second)
    <2>1. job[p].svc \in Services /\ TrustedImage(job[p].svc, job[p].old)
      BY <1>1, JobAt DEF Inv, JobTrust, OldLabel, Typed, TypeOK, UpdateLabel
    <2>2. override'[job[p].svc] = job[p].old
      BY <1>3, <2>1, ConstantsAssumption
      DEF SelectImage, Persist, OverrideAfter, OverrideContent, TrustedImage, Inv, Typed, TypeOK, StatusTypes, ConstantsAssumption
    <2> QED
      BY <1>1, <1>2, <1>3, <2>1, <2>2, TrustStep, TrustKeptRunning
      DEF SameSubject, Subject, Label, Quiet, OldLabel, VettedLabel
  <1>4. CASE Goto(p, "record")
    BY <1>1, <1>4, <1>2, TrustPlain DEF Label, Quiet, OldLabel, VettedLabel
  <1> QED BY <1>3, <1>4 DEF SelectOld, RollbackFails

\* What docker compose may do to the containers.
LEMMA ComposeOutcome ==
  ASSUME Inv, NEW s \in Services, ComposeSucceeds(s) \/ ComposeFails(s)
  PROVE  \E new \in {running[s], NoImage, override[s]} :
           running' = [running EXCEPT ![s] = new] \/ running' = running
  BY DEF ComposeSucceeds, ComposeFails

\* Whatever docker compose leaves is trusted.
LEMMA TrustCompose ==
  ASSUME Inv, NEW p \in Callers, ComposeUp(p) \/ ComposeUpOld(p) PROVE TrustedImagesRun' /\ JobTrust'
  <1>1. InnerStep(p) /\ SameSubject(p) /\ pc[p] \in {"up", "rbUp"}
    BY SubjectFrame DEF InnerStep, ComposeUp, ComposeUpOld, At, Inspect, Pull, Inv
  <1>2. OthersIdle(p) /\ deployed' = deployed
    BY <1>1, OthersStayIdle DEF ComposeUp, ComposeUpOld, ghosts
  <1>3. job[p].svc \in Services /\ (pc[p] = "up" => job[p].cand \in Images)
    BY <1>1, JobAt DEF Inv, Typed, TypeOK, UpdateLabel, CandidateLabel
  <1>4. TrustedImage(job[p].svc, override[job[p].svc]) /\ TrustedImage(job[p].svc, job[p].old)
    BY <1>1, <1>3 DEF Inv, JobTrust, TrustedImage, OldLabel, VettedLabel
  <1>5. TrustedImagesRun'
    BY <1>2, <1>3, <1>4, ComposeOutcome, RunningStep DEF ComposeUp, ComposeUpOld
  <1>6. \E label \in {"verify", "rbOwner", "rbData", "record"} : Goto(p, label)
    BY DEF ComposeUp, ComposeUpOld, RollbackFails
  <1>7. job'[p].svc = job[p].svc /\ job'[p].old = job[p].old
    BY <1>1 DEF SameSubject, Subject
  <1>8. JobTrust'
    BY <1>2, <1>4, <1>6, <1>7, TrustStep DEF Label, Quiet, OldLabel, VettedLabel
  <1> QED BY <1>5, <1>8

\* A step of p from one label to another that loads, vets, selects and starts
\* nothing.
Plain(p, from, to) == pc[p] = from /\ Goto(p, to) /\ running' = running

\* The steps TrustPlain speaks of.
LEMMA PlainLabels ==
  ASSUME Inv, NEW p \in Callers, InnerStep(p), ~Inspect(p), ~Pull(p), ~Attest(p), ~Select(p),
         ~SelectOld(p), ~ComposeUp(p), ~ComposeUpOld(p)
  PROVE  \E from, to \in Label \ Quiet :
           /\ Plain(p, from, to)
           /\ to \notin {"up", "rbUp"}
           /\ to \in OldLabel => from \in OldLabel
           /\ to \in VettedLabel => from \in VettedLabel
  <1> USE DEF At, RollbackFails, containers, Plain
  <1>1. BackupData(p) => Plain(p, "backup", "pull") \/ Plain(p, "backup", "fail")
    BY DEF BackupData
  <1>2. Migrate(p) => Plain(p, "migrate", "select") \/ Plain(p, "migrate", "prune")
    BY DEF Migrate
  <1>3. Verify(p) => Plain(p, "verify", "record") \/ Plain(p, "verify", "rbOwner")
    BY DEF Verify
  <1>4. RestoreOwnership(p) => Plain(p, "rbOwner", "rbSelect") \/ Plain(p, "rbOwner", "record")
    BY DEF RestoreOwnership
  <1>5. RestoreData(p) => Plain(p, "rbData", "rbVerify") \/ Plain(p, "rbData", "record")
    BY DEF RestoreData
  <1>6. VerifyRollback(p) => Plain(p, "rbVerify", "record")
    BY DEF VerifyRollback
  <1>7. RecordHistory(p) => Plain(p, "record", "cleanup") \/ Plain(p, "record", "prune")
    BY DEF RecordHistory
  <1>8. CleanupAfterSuccess(p) => Plain(p, "cleanup", "attach")
    BY DEF CleanupAfterSuccess
  <1>9. AttachCleanup(p) => Plain(p, "attach", "prune")
    BY DEF AttachCleanup
  <1>10. EnforceBackupRetention(p) => Plain(p, "prune", "result") \/ Plain(p, "prune", "fail")
    BY DEF EnforceBackupRetention
  <1>11. SetServiceResult(p) => Plain(p, "result", "end")
    BY DEF SetServiceResult
  <1>12. Sweep(p) => Plain(p, "sweep", "swept")
    BY DEF Sweep
  <1>13. (\E s \in Services : CheckService(p, s)) => Plain(p, "check", "check")
    BY DEF CheckService, Goto, Inv, Typed, TypeOK, CallerTypes
  <1> HIDE DEF Plain
  <1> QED
    BY <1>1, <1>2, <1>3, <1>4, <1>5, <1>6, <1>7, <1>8, <1>9, <1>10, <1>11, <1>12, <1>13
    DEF InnerStep, Label, Quiet, OldLabel, VettedLabel

\* Every step of an operation keeps Inv.
LEMMA TrustInner ==
  ASSUME Inv, NEW p \in Callers, InnerStep(p) PROVE TrustedImagesRun' /\ JobTrust'
  <1>1. ASSUME ~Inspect(p), ~Pull(p), ~Attest(p), ~Select(p), ~SelectOld(p), ~ComposeUp(p),
               ~ComposeUpOld(p)
        PROVE  TrustedImagesRun' /\ JobTrust'
    BY <1>1, PlainLabels, SubjectFrame, TrustPlain DEF Plain, Inv
  <1> QED
    BY <1>1, TrustInspect, TrustPull, TrustAttest, TrustSelect, TrustSelectOld, TrustCompose

\* Every step keeps Inv.
LEMMA InvNext == Inv /\ [Next]_vars => Inv'
  <1> SUFFICES ASSUME Inv, [Next]_vars PROVE TrustedImagesRun' /\ JobTrust'
    BY TypedNext, ExclusiveNext DEF Inv
  <1>1. ASSUME NEW p \in Callers, Call(p) PROVE TrustedImagesRun' /\ JobTrust'
    <2>1. \A q \in Callers : pc[q] = "idle" /\ job[q].svc = "none"
      BY <1>1 DEF Call, StartUpdate, StartCheck, RunManualCleanup, RunExclusive, Enter,
                  ReserveForControlPlane, Busy, Inv, ExclusiveOperation, JobTrust, At, Quiet
    <2>2. running' = running /\ deployed' = deployed
      BY <1>1 DEF Call, StartUpdate, StartCheck, RunManualCleanup, RunExclusive, Enter,
                  ReserveForControlPlane, containers, ghosts
    <2>3. CASE ReserveForControlPlane(p)
      <3>1. \A q \in Callers : pc'[q] \in Quiet /\ job'[q].svc = "none"
        BY <2>1, <2>3 DEF ReserveForControlPlane, Goto, Quiet, Inv, Typed, TypeOK, CallerTypes
      <3>2. \A q \in Callers : pc'[q] \notin OldLabel \cup VettedLabel \cup {"up", "rbUp"}
        BY <3>1 DEF OldLabel, VettedLabel, Quiet
      <3>3. JobTrust'
        BY <3>1, <3>2 DEF JobTrust
      <3> QED BY <2>2, <3>3, TrustKeptRunning
    <2>4. ASSUME NEW newState, NEW label \in {"inspect", "check", "sweep", "exclusive"}, NEW newJob,
                 NEW outcome, Enter(p, newState, label, newJob, outcome)
          PROVE  JobTrust'
      <3>1. Goto(p, label) /\ SetJob(p, newJob)
        BY <2>4 DEF Enter
      <3>2. pc'[p] = label /\ \A q \in Callers \ {p} : pc'[q] = "idle" /\ job'[q].svc = "none"
        BY <2>1, <3>1 DEF Goto, SetJob, Inv, Typed, TypeOK, CallerTypes
      <3> QED
        BY <3>2 DEF JobTrust, OldLabel, VettedLabel, Quiet
    <2>5. CASE ~ReserveForControlPlane(p)
      <3>1. PICK newState, newJob, outcome, label :
              /\ label \in {"inspect", "check", "sweep", "exclusive"}
              /\ Enter(p, newState, label, newJob, outcome)
        <4>1. ASSUME NEW s \in Services, StartUpdate(p, s)
              PROVE  \E newJob, outcome : Enter(p, "updating", "inspect", newJob, outcome)
          BY <4>1 DEF StartUpdate
        <4> QED
          BY <1>1, <2>5, <4>1 DEF Call, StartCheck, RunManualCleanup, RunExclusive
      <3>2. JobTrust'
        BY <3>1, <2>4
      <3> QED BY <2>2, <3>2, TrustKeptRunning
    <2> QED BY <2>2, <2>3, <2>5, TrustKeptRunning
  <1>2. ASSUME NEW p \in Callers, Work(p) PROVE TrustedImagesRun' /\ JobTrust'
    <2>1. CASE InnerStep(p)
      BY <2>1, TrustInner
    <2>2. ASSUME NEW newState, NEW newHistory, pc[p] \notin Quiet, Leave(p, newState, newHistory)
          PROVE  TrustedImagesRun' /\ JobTrust'
      <3>1. Goto(p, "idle") /\ SetJob(p, NoJob) /\ running' = running /\ deployed' = deployed
        BY <2>2 DEF Leave, containers, ghosts
      <3>2. \A q \in Callers \ {p} : pc[q] = "idle"
        BY <2>2 DEF Inv, ExclusiveOperation, At, Quiet
      <3>3. NoJob.svc = "none"
        BY DEF NoJob
      <3>4. JobTrust'
        BY <3>1, <3>2, <3>3 DEF Goto, SetJob, JobTrust, OldLabel, VettedLabel, Quiet,
                               Inv, Typed, TypeOK, CallerTypes
      <3> QED BY <3>1, <3>4, TrustKeptRunning
    <2>3. CASE Finish(p) \/ Fail(p) \/ CheckDone(p) \/ CleanupDone(p) \/ ExclusiveDone(p)
      BY <2>2, <2>3 DEF Finish, Fail, CheckDone, CleanupDone, ExclusiveDone, At, Quiet
    <2>4. CASE Release(p)
      <3>1. \A q \in Callers \ {p} : pc[q] = "idle"
        BY <2>4 DEF Release, Inv, ExclusiveOperation, At
      <3>2. JobTrust'
        BY <2>4, <3>1 DEF Release, At, Goto, JobTrust, OldLabel, VettedLabel, Quiet,
                          Inv, Typed, TypeOK, CallerTypes
      <3> QED BY <2>4, <3>2, TrustKeptRunning DEF Release, containers, ghosts
    <2> QED BY <1>2, <2>1, <2>3, <2>4 DEF Work, UpdateStep, OtherStep, InnerStep
  <1>3. CASE StatusSynced
    <2>1. \A q \in Callers : pc[q] = "idle"
      BY <1>3 DEF StatusSynced, Busy, Inv, ExclusiveOperation, At
    <2> QED
      BY <1>3, <2>1, TrustKeptRunning
      DEF StatusSynced, Inv, JobTrust, containers, ghosts, OldLabel, VettedLabel, Quiet
  <1>4. CASE \E n \in MinRetention .. MaxRetention : SetBackupRetention(n)
    <2>1. UNCHANGED <<running, deployed, pc, job, override>>
      BY <1>4 DEF SetBackupRetention, NotPersisting, containers, ghosts
    <2> QED BY <2>1, TrustKeptRunning DEF Inv, JobTrust, TrustedImage
  <1>5. ASSUME NEW s \in Services, NEW new \in Images, RecreateElsewhere(s, new)
        PROVE  TrustedImagesRun' /\ JobTrust'
    <2>1. /\ running' = [running EXCEPT ![s] = new]
          /\ deployed' = [deployed EXCEPT ![s] = @ \cup {new}]
          /\ UNCHANGED <<pc, override>>
      BY <1>5 DEF RecreateElsewhere, NotPersisting
    <2>2. \A p \in Callers : Subject(job'[p]) = Subject(job[p])
      <3>1. \A p \in Callers : job'[p] = job[p] \/ job'[p] = [job[p] EXCEPT !.spoiled = TRUE]
        BY <1>5 DEF RecreateElsewhere
      <3>2. \A p \in Callers : Subject([job[p] EXCEPT !.spoiled = TRUE]) = Subject(job[p])
        BY DEF Inv, Typed, TypeOK, CallerTypes, Job, Subject
      <3> QED BY <3>1, <3>2
    <2>3. \A p \in Callers : job'[p].svc = job[p].svc /\ job'[p].old = job[p].old /\ job'[p].cand = job[p].cand
      BY <2>2 DEF Subject
    <2>4. \A t \in Services : deployed[t] \subseteq deployed'[t]
      BY <2>1 DEF Inv, Typed, TypeOK, GhostTypes
    <2>5. TrustedImagesRun'
      BY <2>1, <2>4 DEF Inv, TrustedImagesRun, Typed, TypeOK, ContainerTypes, GhostTypes
    <2>6. \A p \in Callers : pc[p] \in OldLabel => job[p].svc \in Services
      BY JobAt DEF Inv, Typed, TypeOK, OldLabel, UpdateLabel
    <2>7. JobTrust'
      BY <2>1, <2>3, <2>4, <2>6 DEF Inv, JobTrust, TrustedImage
    <2> QED BY <2>5, <2>7
  <1>6. CASE Restart
    <2>1. running' = running /\ deployed' = deployed
      BY <1>6 DEF Restart, containers, ghosts
    <2>2. \A q \in Callers : pc'[q] = "idle" /\ job'[q].svc = "none"
      BY <1>6 DEF Restart, NoJob
    <2> QED
      BY <2>1, <2>2, TrustKeptRunning DEF JobTrust, OldLabel, VettedLabel, Quiet
  <1>7. CASE UNCHANGED vars
    BY <1>7 DEF vars, memory, files, containers, ghosts, Inv, TrustedImagesRun, JobTrust, TrustedImage
  <1> QED BY <1>1, <1>2, <1>3, <1>4, <1>5, <1>6, <1>7 DEF Next

\* Inv holds when RootGuard was installed.
LEMMA InvInit == Init => Inv
  <1> SUFFICES ASSUME Init PROVE Inv
    OBVIOUS
  <1>1. Typed
    BY TypedInit
  <1>2. ExclusiveOperation
    BY DEF Init, ExclusiveOperation, At
  <1>3. TrustedImagesRun
    BY DEF Init, TrustedImagesRun
  <1>4. JobTrust
    BY DEF Init, JobTrust, OldLabel, VettedLabel, Quiet, NoJob
  <1> QED BY <1>1, <1>2, <1>3, <1>4 DEF Inv

\* Inv holds in every reachable state.
LEMMA InvAlways == Spec => []Inv
  BY InvInit, InvNext, PTL DEF Spec

\* No update, rollback, retry or restart starts an image that was neither
\* attested nor deployed by somebody else.
THEOREM TrustedImages == Spec => []TrustedImagesRun
  <1>1. Inv => TrustedImagesRun
    BY DEF Inv
  <1> QED BY <1>1, InvAlways, PTL

-----------------------------------------------------------------------------
(* Refinement *)

\* The refinement mapping of UpdateManager's instance of ServiceMaintenance.
Holders == {p \in Callers : pc[p] # "idle"}
Target == [p \in Callers |-> job[p].svc]
VettedImages == [s \in Services |-> {image \in Images : Attested(s, image)}]

\* The Manager starts where ServiceMaintenance may start.
LEMMA MaintenanceInit == Init => Maintenance!Init
  <1> SUFFICES ASSUME Init PROVE Maintenance!Init
    OBVIOUS
  <1>1. Holders = {} /\ Target = [p \in Callers |-> "none"]
    BY DEF Init, Holders, Target, NoJob
  <1>2. FirstImage \in Images /\ running = [s \in Services |-> FirstImage]
        /\ deployed = [s \in Services |-> {FirstImage}]
    BY ConstantsAssumption DEF Init, ConstantsAssumption
  <1> QED BY <1>1, <1>2 DEF Maintenance!Init, Holders, Target

\* A step inside an operation replaces the container of its own service, by a
\* trusted image, or is invisible.
LEMMA InnerRefines ==
  ASSUME Inv, NEW p \in Callers, InnerStep(p)
  PROVE  Maintenance!Replace(p) \/ UNCHANGED Maintenance!vars
  <1>1. pc \in [Callers -> Label] /\ job \in [Callers -> Job]
    BY DEF Inv, Typed, TypeOK, CallerTypes
  <1>2. OthersIdle(p)
    BY OthersStayIdle
  <1>3. pc[p] # "idle" /\ pc'[p] # "idle" /\ pc' \in [Callers -> Label] /\ deployed' = deployed
    BY <1>1, InnerFrame DEF Quiet
  <1>4. job'[p].svc = job[p].svc
    <2>1. CASE Inspect(p)
      BY <2>1, <1>1 DEF Inspect, SetJob, Job
    <2>2. CASE Pull(p)
      <3>1. \E image : \/ SetJob(p, [job[p] EXCEPT !.cand = image, !.verdict = "no_change"])
                       \/ SetJob(p, [job[p] EXCEPT !.cand = image])
                       \/ SetJob(p, [job[p] EXCEPT !.verdict = "aborted"])
        BY <2>2 DEF Pull
      <3> QED BY <3>1, <1>1 DEF SetJob, Job
    <2> QED BY <2>1, <2>2, SubjectFrame DEF Inv, SameSubject, Subject
  <1>5. Holders' = Holders
    BY <1>2, <1>3 DEF Holders, OthersIdle
  <1>6. Target' = Target
    BY <1>2, <1>4 DEF Target, OthersIdle
  <1>7. CASE running' = running
    BY <1>3, <1>5, <1>6, <1>7 DEF Maintenance!vars, Holders, Target
  <1>8. CASE ComposeUp(p) \/ ComposeUpOld(p)
    <2>1. pc[p] \in {"up", "rbUp"} /\ job[p].svc \in Services /\ (pc[p] = "up" => job[p].cand \in Images)
      BY <1>8, JobAt DEF ComposeUp, ComposeUpOld, At, Inv, Typed, TypeOK, UpdateLabel, CandidateLabel
    <2>2. TrustedImage(job[p].svc, override[job[p].svc])
      BY <2>1 DEF Inv, JobTrust, TrustedImage, OldLabel, VettedLabel
    <2>3. PICK new \in {running[job[p].svc], NoImage, override[job[p].svc]} :
            running' = [running EXCEPT ![job[p].svc] = new] \/ running' = running
      BY <1>8, <2>1, ComposeOutcome DEF ComposeUp, ComposeUpOld
    <2>4. new = NoImage \/ TrustedImage(job[p].svc, new)
      BY <2>1, <2>2, <2>3
      DEF Inv, TrustedImagesRun, TrustedImage, Typed, TypeOK, ContainerTypes, MaybeImage
    <2>5. CASE running' = [running EXCEPT ![job[p].svc] = new]
      <3>1. new \in VettedImages[job[p].svc] \cup deployed[job[p].svc] \cup {NoImage}
        BY <2>1, <2>4 DEF TrustedImage, VettedImages
      <3>2. p \in Holders /\ Target[p] = job[p].svc
        BY <1>3 DEF Holders, Target
      <3> QED
        BY <1>3, <1>5, <1>6, <2>1, <2>5, <3>1, <3>2
        DEF Maintenance!Replace, Maintenance!Trusted, Holders, Target, VettedImages
    <2>6. CASE running' = running
      BY <1>7, <2>6
    <2> QED BY <2>3, <2>5, <2>6
  <1>9. CASE ~ComposeUp(p) /\ ~ComposeUpOld(p)
    <2>1. running' = running
      <3>1. CASE Inspect(p) \/ Pull(p) \/ Attest(p) \/ Select(p) \/ SelectOld(p)
        BY <3>1 DEF Inspect, Pull, Attest, Select, SelectOld, containers
      <3>2. CASE ~(Inspect(p) \/ Pull(p) \/ Attest(p) \/ Select(p) \/ SelectOld(p))
        BY <1>9, <3>2, PlainLabels DEF Plain
      <3> QED BY <3>1, <3>2
    <2> QED BY <1>7, <2>1
  <1> QED BY <1>8, <1>9

\* A call that is let in begins an operation.
LEMMA BeginRefines ==
  ASSUME Inv, NEW p \in Callers, Call(p) PROVE Maintenance!Begin(p)
  <1>1. \A q \in Callers : pc[q] = "idle" /\ job[q].svc = "none"
    BY DEF Call, StartUpdate, StartCheck, RunManualCleanup, RunExclusive, Enter,
           ReserveForControlPlane, Busy, Inv, ExclusiveOperation, JobTrust, At, Quiet
  <1>2. running' = running /\ deployed' = deployed
    BY DEF Call, StartUpdate, StartCheck, RunManualCleanup, RunExclusive, Enter,
           ReserveForControlPlane, containers, ghosts
  <1>3. PICK label \in Label, new \in Job :
          /\ label # "idle" /\ Goto(p, label)
          /\ new.svc \in Services \cup {"none"}
          /\ SetJob(p, new)
    <2> DEFINE Started(label, new) ==
          /\ label \in Label /\ new \in Job
          /\ label # "idle" /\ Goto(p, label)
          /\ new.svc \in Services \cup {"none"}
          /\ SetJob(p, new)
    <2> SUFFICES \E label, new : Started(label, new)
      OBVIOUS
    <2>1. ASSUME NEW s \in Services, StartUpdate(p, s)
          PROVE  Started("inspect", [NoJob EXCEPT !.svc = s])
      BY <2>1, NoJobType DEF StartUpdate, Enter, Label, NoJob
    <2>2. StartCheck(p) => Started("check", [NoJob EXCEPT !.todo = Services])
      <3>1. [NoJob EXCEPT !.todo = Services] \in Job /\ [NoJob EXCEPT !.todo = Services].svc = "none"
        BY NoJobType DEF Job, NoJob
      <3> QED BY <3>1 DEF StartCheck, Enter, Label
    <2>3. RunManualCleanup(p) => Started("sweep", NoJob)
      BY NoJobType DEF RunManualCleanup, Enter, Label, NoJob
    <2>4. RunExclusive(p) => Started("exclusive", NoJob)
      BY NoJobType DEF RunExclusive, Enter, Label, NoJob
    <2>5. ReserveForControlPlane(p) => Started("remote", job[p])
      <3>1. job[p] \in Job /\ job[p].svc = "none" /\ job = [job EXCEPT ![p] = job[p]]
        BY <1>1 DEF Inv, Typed, TypeOK, CallerTypes
      <3> QED BY <3>1 DEF ReserveForControlPlane, SetJob, Label
    <2> HIDE DEF Started
    <2> QED BY <2>1, <2>2, <2>3, <2>4, <2>5 DEF Call
  <1>4. Holders = {} /\ Holders' = {p}
    BY <1>1, <1>3 DEF Holders, Goto, Inv, Typed, TypeOK, CallerTypes
  <1>5. Target' = [Target EXCEPT ![p] = new.svc]
    BY <1>3 DEF Target, SetJob, Inv, Typed, TypeOK, CallerTypes
  <1> QED BY <1>2, <1>3, <1>4, <1>5 DEF Maintenance!Begin, Holders, Target

\* A caller that leaves finishes it.
LEMMA FinishRefines ==
  ASSUME Inv, NEW p \in Callers, pc[p] # "idle", Goto(p, "idle"),
         SetJob(p, NoJob) \/ (job' = job /\ job[p].svc = "none"),
         running' = running, deployed' = deployed
  PROVE  Maintenance!Finish(p)
  <1>1. p \in Holders /\ Holders' = Holders \ {p}
    BY DEF Holders, Goto, Inv, Typed, TypeOK, CallerTypes
  <1>2. Target' = [Target EXCEPT ![p] = "none"]
    <2>1. job \in [Callers -> Job]
      BY DEF Inv, Typed, TypeOK, CallerTypes
    <2>2. CASE SetJob(p, NoJob)
      <3>1. job' = [job EXCEPT ![p] = NoJob] /\ NoJob.svc = "none"
        BY <2>2 DEF SetJob, NoJob
      <3>2. \A q \in Callers : job'[q].svc = IF q = p THEN "none" ELSE job[q].svc
        BY <2>1, <3>1
      <3> QED BY <3>2 DEF Target
    <2>3. CASE job' = job /\ job[p].svc = "none"
      BY <2>3 DEF Target
    <2> QED BY <2>2, <2>3
  <1> QED BY <1>1, <1>2 DEF Maintenance!Finish, Holders, Target

\* Every step is a step of ServiceMaintenance or a stutter.
LEMMA StepRefines == Inv /\ [Next]_vars => [Maintenance!Next]_(Maintenance!vars)
  <1> SUFFICES ASSUME Inv, [Next]_vars PROVE Maintenance!Next \/ UNCHANGED Maintenance!vars
    OBVIOUS
  <1>1. ASSUME NEW p \in Callers, Call(p) PROVE Maintenance!Next
    BY <1>1, BeginRefines DEF Maintenance!Next
  <1>2. ASSUME NEW p \in Callers, Work(p) PROVE Maintenance!Next \/ UNCHANGED Maintenance!vars
    <2>1. CASE InnerStep(p)
      BY <2>1, InnerRefines DEF Maintenance!Next
    <2>2. ASSUME NEW newState, NEW newHistory, pc[p] # "idle", Leave(p, newState, newHistory)
          PROVE  Maintenance!Finish(p)
      BY <2>2, FinishRefines DEF Leave, containers, ghosts
    <2>3. CASE Finish(p) \/ Fail(p) \/ CheckDone(p) \/ CleanupDone(p) \/ ExclusiveDone(p)
      BY <2>2, <2>3 DEF Finish, Fail, CheckDone, CleanupDone, ExclusiveDone, At, Maintenance!Next
    <2>4. CASE Release(p)
      <3>1. pc[p] = "remote" /\ Goto(p, "idle") /\ job' = job /\ running' = running /\ deployed' = deployed
        BY <2>4 DEF Release, At, containers, ghosts
      <3>2. job[p].svc = "none"
        BY <3>1 DEF Inv, JobTrust, Quiet
      <3> QED BY <3>1, <3>2, FinishRefines DEF Maintenance!Next
    <2> QED BY <1>2, <2>1, <2>3, <2>4 DEF Work, UpdateStep, OtherStep, InnerStep
  <1>3. ASSUME UNCHANGED <<pc, job, running, deployed>> PROVE UNCHANGED Maintenance!vars
    BY <1>3 DEF Maintenance!vars
  <1>4. CASE StatusSynced
    BY <1>3, <1>4 DEF StatusSynced, containers, ghosts
  <1>5. CASE \E n \in MinRetention .. MaxRetention : SetBackupRetention(n)
    BY <1>3, <1>5 DEF SetBackupRetention, containers, ghosts
  <1>6. ASSUME NEW s \in Services, NEW new \in Images, RecreateElsewhere(s, new)
        PROVE  Maintenance!Next
    <2>1. /\ running' = [running EXCEPT ![s] = new]
          /\ deployed' = [deployed EXCEPT ![s] = @ \cup {new}]
          /\ pc' = pc
      BY <1>6 DEF RecreateElsewhere
    <2>2. \A p \in Callers : job'[p].svc = job[p].svc
      <3>1. \A p \in Callers : job'[p] = job[p] \/ job'[p] = [job[p] EXCEPT !.spoiled = TRUE]
        BY <1>6 DEF RecreateElsewhere
      <3> QED BY <3>1 DEF Inv, Typed, TypeOK, CallerTypes, Job
    <2>3. Holders' = Holders /\ Target' = Target
      BY <2>1, <2>2 DEF Holders, Target
    <2>4. Maintenance!Deploy(s, new)
      BY <2>1, <2>3 DEF Maintenance!Deploy, Holders, Target
    <2> QED BY <2>4 DEF Maintenance!Next
  <1>7. CASE Restart
    <2>1. Holders' = {} /\ Target' = [p \in Callers |-> "none"]
      BY <1>7 DEF Restart, Holders, Target, NoJob
    <2>2. Maintenance!Crash
      BY <1>7, <2>1 DEF Restart, containers, ghosts, Maintenance!Crash, Holders, Target
    <2> QED BY <2>2 DEF Maintenance!Next
  <1>8. CASE UNCHANGED vars
    BY <1>3, <1>8 DEF vars, containers, ghosts
  <1> QED BY <1>1, <1>2, <1>4, <1>5, <1>6, <1>7, <1>8 DEF Next

\* The Manager implements ServiceMaintenance: one operation at a time, each
\* replacing the container of its own service alone, by trusted images only.
THEOREM Refinement == Spec => ImplementsMaintenance
  <1> QED
    BY InvInit, InvNext, MaintenanceInit, StepRefines, PTL
    DEF Spec, ImplementsMaintenance, Maintenance!Spec
=============================================================================
