------------------------ MODULE UpdateRecoveryProofs ------------------------
(***************************************************************************)
(* What an update can be undone by, for every set of services, images and  *)
(* callers and every bound: the files say what the process knows, compose  *)
(* sees the selection, the restore point outlives retention, a success is  *)
(* real, a failure leaves the service as it was found, a restart reports   *)
(* what it interrupted, a cleanup spares the previous image and an update  *)
(* ends with no more restore points than are to be kept.                   *)
(*                                                                         *)
(* Doing(p) says how far the update of caller p is and what it has changed *)
(* so far; together with UpdateManagerProofs' Inv it is inductive.         *)
(* Retained adds what is known of the restore points on the way to the     *)
(* verdict.                                                                *)
(***************************************************************************)
EXTENDS UpdateManagerProofs, FiniteSetTheorems, WellFoundedInduction

-----------------------------------------------------------------------------
(* Durability *)

\* What a step may do to the status and its file.
Unwritten == UNCHANGED <<state, history, selected, cached, persistError, disk>>
Written ==
  \/ Unwritten
  \/ \E outcome \in WriteOutcome : Persist(outcome)
  \/ \E s, image : \E first, second \in WriteOutcome : SelectImage(s, image, first, second)

\* A step that writes what it changes, or reports that it could not.
LEMMA DurableStep == ASSUME DurableUnlessFlagged, Written PROVE DurableUnlessFlagged'
  <1>1. CASE Unwritten
    BY <1>1 DEF Unwritten, DurableUnlessFlagged
  <1>2. ASSUME NEW outcome \in WriteOutcome, Persist(outcome) PROVE DurableUnlessFlagged'
    BY <1>2 DEF Persist, DiskAfter, DurableUnlessFlagged
  <1>3. ASSUME NEW s, NEW image, NEW first \in WriteOutcome, NEW second \in WriteOutcome,
               SelectImage(s, image, first, second)
        PROVE  DurableUnlessFlagged'
    <2>1. CASE first = "ok"
      BY <1>2, <1>3, <2>1 DEF SelectImage, WriteOutcome
    <2>2. CASE first # "ok"
      BY <1>3, <2>2 DEF SelectImage, DiskAfter, DurableUnlessFlagged
    <2> QED BY <2>1, <2>2
  <1> QED BY <1>1, <1>2, <1>3 DEF Written

\* Every step inside an operation is one.
LEMMA InnerWrites == ASSUME NEW p \in Callers, InnerStep(p) PROVE Written
  <1>1. NotPersisting \/ (\E outcome \in WriteOutcome : Progress(outcome)) => Written
    BY DEF NotPersisting, Progress, Written, Unwritten
  <1>2. CASE Inspect(p) \/ ComposeUp(p) \/ Verify(p) \/ ComposeUpOld(p) \/ RestoreData(p)
             \/ VerifyRollback(p) \/ CleanupAfterSuccess(p) \/ EnforceBackupRetention(p) \/ Sweep(p)
    BY <1>1, <1>2 DEF Inspect, ComposeUp, Verify, ComposeUpOld, RestoreData, VerifyRollback,
                      CleanupAfterSuccess, EnforceBackupRetention, Sweep
  <1>3. CASE BackupData(p) \/ Pull(p) \/ Attest(p) \/ Migrate(p) \/ RestoreOwnership(p)
    BY <1>1, <1>3 DEF BackupData, Pull, Attest, Migrate, RestoreOwnership
  <1>4. CASE RecordHistory(p) \/ AttachCleanup(p) \/ SetServiceResult(p)
    BY <1>4 DEF RecordHistory, AttachCleanup, SetServiceResult, Written
  <1>5. CASE \E s \in Services : CheckService(p, s)
    <2>1. \E outcome \in WriteOutcome : Persist(outcome)
      BY <1>5, Zenon DEF CheckService
    <2> QED BY <2>1 DEF Written
  <1>6. CASE Select(p) \/ SelectOld(p)
    <2>1. \E s, image : \E first, second \in WriteOutcome : SelectImage(s, image, first, second)
      BY <1>6 DEF Select, SelectOld
    <2> QED BY <2>1 DEF Written
  <1> QED BY <1>2, <1>3, <1>4, <1>5, <1>6 DEF InnerStep

\* So is every other step, but a restart, which goes by what it reads.
LEMMA DurableNext == ASSUME Typed, DurableUnlessFlagged, [Next]_vars PROVE DurableUnlessFlagged'
  <1>1. ASSUME NEW p \in Callers, Call(p) PROVE Written
    <2>1. CASE ReserveForControlPlane(p)
      BY <2>1 DEF ReserveForControlPlane, files, Written, Unwritten
    <2>2. CASE ~ReserveForControlPlane(p)
      BY <1>1, <2>2 DEF Call, StartUpdate, StartCheck, RunManualCleanup, RunExclusive, Enter, Written
    <2> QED BY <2>1, <2>2
  <1>2. ASSUME NEW p \in Callers, Work(p) PROVE Written
    <2>1. ASSUME NEW newState, NEW newHistory, Leave(p, newState, newHistory) PROVE Written
      BY <2>1 DEF Leave, Written
    <2>2. CASE Finish(p) \/ Fail(p) \/ CheckDone(p) \/ CleanupDone(p) \/ ExclusiveDone(p)
      BY <2>1, <2>2 DEF Finish, Fail, CheckDone, CleanupDone, ExclusiveDone
    <2>3. CASE Release(p)
      BY <2>3 DEF Release, files, Written, Unwritten
    <2> QED BY <1>2, <2>2, <2>3, InnerWrites DEF Work, UpdateStep, OtherStep, InnerStep
  <1>3. CASE StatusSynced
    BY <1>3, DurableStep DEF StatusSynced, Written
  <1>4. CASE \E n \in MinRetention .. MaxRetention : SetBackupRetention(n)
    BY <1>4, DurableStep DEF SetBackupRetention, NotPersisting, Written, Unwritten
  <1>5. CASE \E s \in Services, new \in Images : RecreateElsewhere(s, new)
    BY <1>5, DurableStep DEF RecreateElsewhere, NotPersisting, Written, Unwritten
  <1>6. CASE Restart
    <2>1. CASE Interrupted(disk.state)
      BY <1>6, <2>1, DurableStep DEF Restart, Written
    <2>2. CASE ~Interrupted(disk.state)
      <3>1. disk = [state |-> disk.state, history |-> disk.history, selected |-> disk.selected,
                    cached |-> disk.cached]
        BY DEF Typed, TypeOK, StatusTypes, Snapshot
      <3> QED BY <1>6, <2>2, <3>1 DEF Restart, DurableUnlessFlagged
    <2> QED BY <2>1, <2>2
  <1>7. CASE UNCHANGED vars
    BY <1>7, DurableStep DEF vars, memory, files, Written, Unwritten
  <1> QED BY <1>1, <1>2, <1>3, <1>4, <1>5, <1>6, <1>7, DurableStep DEF Next

\* persistLocked: as long as PersistError is empty, state.json is what the
\* process knows, through every write that fails and every restart.
THEOREM Durability == Spec => []DurableUnlessFlagged
  <1>1. Init => DurableUnlessFlagged
    BY DEF Init, DurableUnlessFlagged
  <1> QED BY <1>1, TypedInit, TypedNext, DurableNext, PTL DEF Spec

-----------------------------------------------------------------------------
(* What an update has done so far *)

\* The program counters between the backup and the failure, those that come
\* before a verdict, and those with a candidate that is not yet running.
AfterBackup   == UpdateLabel \ {"inspect", "backup", "fail"}
NoVerdictYet  == {"inspect", "backup", "pull", "attest", "migrate", "select", "up", "verify",
                  "rbOwner", "rbSelect", "rbUp", "rbData", "rbVerify"}
Untouched     == {"backup", "pull", "attest", "migrate"}
Owned         == {"select", "up", "verify", "rbOwner"}
RolledBack    == {"rbUp", "rbData", "rbVerify"}

\* The restore point of the update in flight is the newest of its service.
Point(p) ==
  /\ pc[p] \in {"inspect", "backup"} => job[p].at = 0
  /\ pc[p] \in AfterBackup => job[p].at = used.ops
  /\ job[p].at > 0 => job[p].at = used.ops /\ \E b \in backups[job[p].svc] : b.at = job[p].at
  /\ ~job[p].spoiled =>
       \A b \in backups[job[p].svc] :
         b.at = used.ops => pc[p] # "inspect" /\ b.data = job[p].base.data

\* state.json names what compose is about to start.
Saved(p) ==
  /\ pc[p] = "up" => disk.selected[job[p].svc] = job[p].cand
  /\ pc[p] = "rbUp" => disk.selected[job[p].svc] = job[p].old

\* The image, the volume's owner and its data, step by step.
Found(p) ==
  /\ running[job[p].svc] = job[p].base.image
  /\ owner[job[p].svc] = job[p].base.owner
  /\ data[job[p].svc] = job[p].base.data
GivenUp(p) ==
  /\ running[job[p].svc] = job[p].base.image
  /\ OwnerRestored(job[p].base.owner, owner[job[p].svc])
  /\ data[job[p].svc] = job[p].base.data
Forward(p) ==
  /\ pc[p] \in Untouched => Found(p)
  /\ pc[p] \in {"select", "up"} =>
       running[job[p].svc] = job[p].base.image /\ data[job[p].svc] = job[p].base.data
  /\ pc[p] \in Owned =>
       /\ IF job[p].changed THEN job[p].prev = job[p].base.owner.top
                            ELSE owner[job[p].svc] = job[p].base.owner
       /\ job[p].svc \in Migrated => OwnerTaken(job[p].base.owner, owner[job[p].svc])
  /\ pc[p] \in CandidateLabel => job[p].cand \in local[job[p].svc]
  /\ pc[p] \in {"up", "verify"} => selected[job[p].svc] = job[p].cand
  /\ pc[p] = "verify" => Attested(job[p].svc, job[p].cand)
Backward(p) ==
  /\ pc[p] \in NoVerdictYet \ {"inspect"} => job[p].old = job[p].base.image
  /\ pc[p] \in RolledBack \cup {"rbSelect"} => OwnerRestored(job[p].base.owner, owner[job[p].svc])
  /\ pc[p] \in RolledBack => selected[job[p].svc] = job[p].old
  /\ pc[p] \in {"rbData", "rbVerify"} => QuirkyCompose \/ running[job[p].svc] = job[p].old
  /\ pc[p] = "rbVerify" => data[job[p].svc] = job[p].base.data

\* What a verdict says.
Real(p) ==
  /\ running[job[p].svc] = job[p].cand /\ selected[job[p].svc] = job[p].cand
  /\ job[p].cand \in local[job[p].svc] /\ job[p].cand \in verified[job[p].svc]
  /\ Attested(job[p].svc, job[p].cand)
  /\ job[p].svc \in Migrated => OwnerTaken(job[p].base.owner, owner[job[p].svc])
Judged(p) ==
  /\ pc[p] \in NoVerdictYet => job[p].verdict = "none"
  /\ job[p].verdict = "aborted" => pc[p] \in {"prune", "fail"} /\ GivenUp(p)
  /\ job[p].verdict = "rolled_back" =>
       /\ pc[p] \in {"record", "prune", "fail"}
       /\ QuirkyCompose \/ (GivenUp(p) /\ selected[job[p].svc] = running[job[p].svc])
  /\ job[p].verdict = "success" =>
       pc[p] \in {"record", "cleanup", "attach", "prune", "result", "end"} /\ Real(p)

\* Somebody else's deployment in the middle of an update (spoiled) takes the
\* foundation from the last three, and from nothing else.
Doing(p) ==
  /\ pc[p] \in UpdateLabel =>
       Point(p) /\ Saved(p) /\ (~job[p].spoiled => Forward(p) /\ Backward(p) /\ Judged(p))
  /\ pc[p] \notin UpdateLabel => job[p].at = 0 /\ job[p].verdict = "none"

\* No restore point is from the future.
Past == \A s \in Services : \A b \in backups[s] : b.at <= used.ops

Recoverable == Inv /\ Past /\ \A p \in Callers : Doing(p)

-----------------------------------------------------------------------------
(* How a step rewrites its job *)

Facts(j) == <<j.svc, j.old, j.cand, j.at, j.base, j.changed, j.prev>>

\* Only the verdict changes, and whether somebody else interfered.
Becomes(p, verdict, spoiled) ==
  /\ Facts(job'[p]) = Facts(job[p])
  /\ job'[p].verdict = verdict /\ job'[p].spoiled = spoiled

\* The assignments that do no more than that.
LEMMA VerdictSet ==
  ASSUME job \in [Callers -> Job], NEW p \in Callers
  PROVE  /\ UNCHANGED job => Becomes(p, job[p].verdict, job[p].spoiled)
         /\ \A v : SetJob(p, [job[p] EXCEPT !.verdict = v]) => Becomes(p, v, job[p].spoiled)
         /\ \A v : SetJob(p, [job[p] EXCEPT !.verdict = v, !.spoiled = TRUE]) => Becomes(p, v, TRUE)
         /\ \A r : SetJob(p, [job[p] EXCEPT !.removed = r]) =>
                    Becomes(p, job[p].verdict, job[p].spoiled)
  <1>1. \A new : SetJob(p, new) => job'[p] = new
    BY DEF SetJob
  <1>2. job[p] \in Job
    OBVIOUS
  <1>3. /\ \A v : LET k == [job[p] EXCEPT !.verdict = v]
                  IN  Facts(k) = Facts(job[p]) /\ k.verdict = v /\ k.spoiled = job[p].spoiled
        /\ \A v : LET k == [job[p] EXCEPT !.verdict = v, !.spoiled = TRUE]
                  IN  Facts(k) = Facts(job[p]) /\ k.verdict = v /\ k.spoiled = TRUE
        /\ \A r : LET k == [job[p] EXCEPT !.removed = r]
                  IN  Facts(k) = Facts(job[p]) /\ k.verdict = job[p].verdict /\ k.spoiled = job[p].spoiled
    BY <1>2 DEF Job, Facts
  <1>4. ASSUME NEW v, NEW sp, NEW k, SetJob(p, k), Facts(k) = Facts(job[p]), k.verdict = v, k.spoiled = sp
        PROVE  Becomes(p, v, sp)
    BY <1>1, <1>4 DEF Becomes
  <1>5. UNCHANGED job => Becomes(p, job[p].verdict, job[p].spoiled)
    BY DEF Becomes
  <1> QED BY <1>3, <1>4, <1>5

\* What is spent on faults is not an operation.
LEMMA SameOps ==
  ASSUME used \in Budget, UNCHANGED used \/ \E n : Spend(n) PROVE used'.ops = used.ops
  BY DEF Spend, Budget

\* Every step inside an operation is of the same operation.
LEMMA InnerOps == ASSUME Inv, NEW p \in Callers, InnerStep(p) PROVE used'.ops = used.ops
  <1> USE SameOps DEF Inv, Typed, TypeOK, GhostTypes
  <1>1. CASE Inspect(p) \/ BackupData(p) \/ Pull(p) \/ Attest(p) \/ Migrate(p) \/ Select(p)
    BY <1>1 DEF Inspect, BackupData, Pull, Attest, Migrate, Select
  <1>2. CASE ComposeUp(p) \/ Verify(p) \/ RestoreOwnership(p) \/ SelectOld(p) \/ ComposeUpOld(p)
             \/ RestoreData(p) \/ VerifyRollback(p)
    BY <1>2 DEF ComposeUp, Verify, RestoreOwnership, SelectOld, ComposeUpOld, RestoreData, VerifyRollback
  <1>3. CASE RecordHistory(p) \/ CleanupAfterSuccess(p) \/ AttachCleanup(p) \/ EnforceBackupRetention(p)
             \/ SetServiceResult(p) \/ Sweep(p)
    BY <1>3 DEF RecordHistory, CleanupAfterSuccess, AttachCleanup, EnforceBackupRetention,
                SetServiceResult, Sweep
  <1>4. CASE \E s \in Services : CheckService(p, s)
    BY <1>4 DEF CheckService
  <1> QED BY <1>1, <1>2, <1>3, <1>4 DEF InnerStep

-----------------------------------------------------------------------------
(* The steps of an update *)

\* What a volume is after it was left alone, given back or taken.
LEMMA Ownership ==
  ASSUME NEW found \in Owner
  PROVE  /\ OwnerRestored(found, found) /\ OwnerRestored(found, Whole(found.top))
         /\ OwnerTaken(found, Whole("target"))
         /\ found.top = "target" => OwnerTaken(found, found)
         /\ Whole(found.top) \in Owner
  BY DEF OwnerRestored, OwnerTaken, Owner, Whole

\* Who is at work and what it works with.
LEMMA AtWork ==
  ASSUME Recoverable, NEW p \in Callers, pc[p] \in UpdateLabel
  PROVE  /\ pc \in [Callers -> Label] /\ job \in [Callers -> Job]
         /\ job[p] \in Job /\ job[p].svc \in Services
         /\ running \in [Services -> MaybeImage] /\ owner \in [Services -> Owner]
         /\ data \in [Services -> Images] /\ local \in [Services -> SUBSET Images]
         /\ selected \in [Services -> MaybeImage] /\ verified \in [Services -> SUBSET Images]
         /\ backups \in [Services -> SUBSET Backup] /\ used \in Budget
         /\ Point(p) /\ Saved(p) /\ (~job[p].spoiled => Forward(p) /\ Backward(p) /\ Judged(p))
  BY DEF Recoverable, Doing, Inv, Typed, TypeOK, JobOK, CallerTypes, ContainerTypes, StatusTypes,
         BackupTypes, GhostTypes

\* The restore point stays what it is when nobody touches the restore points.
LEMMA PointKept ==
  ASSUME NEW p, Point(p), NEW verdict, NEW spoiled, Becomes(p, verdict, spoiled),
         job[p].spoiled => spoiled, backups' = backups, used'.ops = used.ops,
         pc'[p] \notin {"inspect", "backup"}, pc[p] # "inspect",
         pc'[p] \in AfterBackup => pc[p] \in AfterBackup
  PROVE  Point(p)'
  BY DEF Point, Becomes, Facts

\* An update finds an image, an owner and data, and remembers them.
LEMMA InspectRecoverable ==
  ASSUME Recoverable, NEW p \in Callers, Inspect(p) PROVE Doing(p)'
  <1>1. pc[p] = "inspect" /\ pc[p] \in UpdateLabel
    BY DEF Inspect, At, UpdateLabel
  <1>2. used'.ops = used.ops
    BY InnerOps DEF InnerStep, Recoverable
  <1> DEFINE s == job[p].svc
  <1>3. UNCHANGED <<running, owner, data, local, selected, verified, backups, disk>>
    BY DEF Inspect, NotPersisting, containers, ghosts
  <1>4. CASE Goto(p, "fail") /\ UNCHANGED job
    <2>1. pc'[p] = "fail"
      BY <1>1, <1>4, AtWork DEF Goto
    <2> QED
      BY <1>1, <1>2, <1>3, <1>4, <2>1, AtWork
      DEF Doing, Point, Saved, Forward, Backward, Judged, UpdateLabel, AfterBackup, NoVerdictYet,
          Untouched, Owned, RolledBack, CandidateLabel
  <1>5. CASE ~(Goto(p, "fail") /\ UNCHANGED job)
    <2> DEFINE base == [image |-> running[s], owner |-> owner[s], data |-> data[s]]
    <2> DEFINE new == [job[p] EXCEPT !.old = running[s], !.base = base]
    <2>1. pc'[p] = "backup" /\ job'[p] = new
      <3>1. SetJob(p, new) /\ Goto(p, "backup")
        BY <1>5 DEF Inspect
      <3> QED BY <1>1, <3>1, AtWork DEF Goto, SetJob
    <2>2. /\ new.svc = s /\ new.old = running[s] /\ new.base = base /\ new.at = job[p].at
          /\ new.verdict = job[p].verdict /\ new.spoiled = job[p].spoiled
      BY <1>1, AtWork DEF Job
    <2> HIDE DEF new
    <2> QED
      BY <1>1, <1>2, <1>3, <2>1, <2>2, AtWork
      DEF Doing, Point, Saved, Forward, Found, GivenUp, OwnerRestored, Backward, Judged, UpdateLabel, AfterBackup, NoVerdictYet,
          Untouched, Owned, RolledBack, CandidateLabel
  <1> QED BY <1>4, <1>5 DEF Inspect

\* The new restore point is the only one of this operation.
LEMMA BackupRecoverable ==
  ASSUME Recoverable, NEW p \in Callers, BackupData(p) PROVE Doing(p)'
  <1>1. pc[p] = "backup" /\ pc[p] \in UpdateLabel
    BY DEF BackupData, At, UpdateLabel
  <1>2. used'.ops = used.ops
    BY InnerOps DEF InnerStep, Recoverable
  <1> DEFINE s == job[p].svc
  <1>3. UNCHANGED <<running, owner, data, local, selected, verified>>
    BY DEF BackupData, Progress, containers, ghosts
  <1>4. CASE Goto(p, "fail") /\ UNCHANGED <<backups, job>>
    <2>1. pc'[p] = "fail"
      BY <1>1, <1>4, AtWork DEF Goto
    <2> QED
      BY <1>1, <1>2, <1>3, <1>4, <2>1, AtWork
      DEF Doing, Point, Saved, Forward, Backward, Judged, UpdateLabel, AfterBackup, NoVerdictYet,
          Untouched, Owned, RolledBack, CandidateLabel
  <1>5. CASE ~(Goto(p, "fail") /\ UNCHANGED <<backups, job>>)
    <2> DEFINE new == [job[p] EXCEPT !.at = used.ops]
    <2> DEFINE point == [at |-> used.ops, data |-> data[s]]
    <2>1. pc'[p] = "pull" /\ job'[p] = new /\ backups'[s] = backups[s] \cup {point}
      <3>1. SetJob(p, new) /\ Goto(p, "pull") /\ backups' = [backups EXCEPT ![s] = @ \cup {point}]
        BY <1>5 DEF BackupData
      <3> QED BY <1>1, <1>5, <3>1, AtWork DEF Goto, SetJob
    <2>2. /\ new.svc = s /\ new.old = job[p].old /\ new.base = job[p].base /\ new.at = used.ops
          /\ new.verdict = job[p].verdict /\ new.spoiled = job[p].spoiled
      BY <1>1, AtWork DEF Job
    <2> HIDE DEF new
    <2>3. Point(p)'
      <3>1. ~job[p].spoiled => data[s] = job[p].base.data
        BY <1>1, AtWork DEF Forward, Untouched, Found
      <3>2. point \in backups'[s] /\ point.at = used.ops /\ point.data = data[s]
        BY <2>1
      <3>3. ~job[p].spoiled =>
              \A b \in backups[s] : b.at = used.ops => b.data = job[p].base.data
        BY <1>1, AtWork DEF Point
      <3> HIDE DEF point
      <3> QED BY <1>2, <2>1, <2>2, <3>1, <3>2, <3>3 DEF Point, AfterBackup, UpdateLabel
    <2>4. ~job[p].spoiled => (Forward(p) /\ Backward(p) /\ Judged(p))'
      BY <1>1, <1>3, <2>1, <2>2, AtWork
      DEF Forward, Found, GivenUp, OwnerRestored, Backward, Judged, NoVerdictYet, Untouched, Owned, RolledBack, CandidateLabel
    <2> QED BY <2>1, <2>2, <2>3, <2>4 DEF Doing, Saved, UpdateLabel
  <1> QED BY <1>4, <1>5 DEF BackupData

\* A candidate is there before it is attested.
LEMMA PullRecoverable ==
  ASSUME Recoverable, NEW p \in Callers, Pull(p) PROVE Doing(p)'
  <1>1. pc[p] = "pull" /\ pc[p] \in UpdateLabel
    BY DEF Pull, At, UpdateLabel
  <1>2. used'.ops = used.ops
    BY InnerOps DEF InnerStep, Recoverable
  <1> DEFINE s == job[p].svc
  <1>3. UNCHANGED <<running, owner, data, selected, verified, backups>>
    BY DEF Pull, Progress, ghosts
  <1>4. CASE SetJob(p, [job[p] EXCEPT !.verdict = "aborted"]) /\ Goto(p, "prune")
    <2>1. pc'[p] = "prune" /\ Becomes(p, "aborted", job[p].spoiled)
      BY <1>1, <1>4, AtWork, VerdictSet DEF Goto
    <2>2. Point(p)'
      BY <1>1, <1>2, <1>3, <2>1, AtWork, PointKept DEF AfterBackup, UpdateLabel
    <2>3. ~job[p].spoiled => (Forward(p) /\ Backward(p) /\ Judged(p))'
      BY <1>1, <1>3, <2>1, AtWork
      DEF Becomes, Facts, Forward, Found, GivenUp, OwnerRestored, Backward, Judged, NoVerdictYet, Untouched, Owned, RolledBack,
          CandidateLabel
    <2> QED BY <2>1, <2>2, <2>3 DEF Becomes, Doing, Saved, UpdateLabel
  <1>5. ASSUME NEW image \in Images, NEW verdict, NEW label \in {"record", "attest"}, NEW new,
               new.svc = s, new.cand = image, new.old = job[p].old, new.base = job[p].base,
               new.at = job[p].at, new.spoiled = job[p].spoiled, new.verdict = verdict,
               verdict = IF label = "attest" THEN job[p].verdict ELSE "no_change",
               SetJob(p, new), Goto(p, label), local' = [local EXCEPT ![s] = @ \cup {image}]
        PROVE  Doing(p)'
    <2>1. pc'[p] = label /\ job'[p] = new /\ image \in local'[s]
      BY <1>1, <1>5, AtWork DEF Goto, SetJob
    <2>2. Point(p)'
      BY <1>1, <1>2, <1>3, <1>5, <2>1, AtWork DEF Point, AfterBackup, UpdateLabel
    <2>3. ~job[p].spoiled => (Forward(p) /\ Backward(p) /\ Judged(p))'
      BY <1>1, <1>3, <1>5, <2>1, AtWork
      DEF Forward, Found, GivenUp, OwnerRestored, Backward, Judged, NoVerdictYet, Untouched, Owned, RolledBack, CandidateLabel
    <2> QED BY <1>5, <2>1, <2>2, <2>3 DEF Doing, Saved, UpdateLabel
  <1>6. ASSUME NEW image \in Images
        PROVE  /\ LET k == [job[p] EXCEPT !.cand = image]
                  IN  /\ k.svc = s /\ k.cand = image /\ k.old = job[p].old /\ k.base = job[p].base
                      /\ k.at = job[p].at /\ k.spoiled = job[p].spoiled /\ k.verdict = job[p].verdict
               /\ LET k == [job[p] EXCEPT !.cand = image, !.verdict = "no_change"]
                  IN  /\ k.svc = s /\ k.cand = image /\ k.old = job[p].old /\ k.base = job[p].base
                      /\ k.at = job[p].at /\ k.spoiled = job[p].spoiled /\ k.verdict = "no_change"
    BY <1>1, AtWork DEF Job
  <1>7. CASE ~(SetJob(p, [job[p] EXCEPT !.verdict = "aborted"]) /\ Goto(p, "prune"))
    <2>1. PICK image \in Images :
            /\ local' = [local EXCEPT ![s] = @ \cup {image}]
            /\ \/ SetJob(p, [job[p] EXCEPT !.cand = image, !.verdict = "no_change"]) /\ Goto(p, "record")
               \/ SetJob(p, [job[p] EXCEPT !.cand = image]) /\ Goto(p, "attest")
      BY <1>7 DEF Pull
    <2> QED BY <1>5, <1>6, <2>1
  <1> QED BY <1>4, <1>7

\* The other steps only change the job's verdict, and leave the restore points
\* alone.
LEMMA Moved ==
  ASSUME Recoverable, NEW p \in Callers, InnerStep(p), pc[p] \in AfterBackup,
         NEW label \in UpdateLabel \ {"inspect", "backup"}, Goto(p, label),
         NEW verdict, NEW spoiled, Becomes(p, verdict, spoiled), job[p].spoiled => spoiled,
         backups' = backups, Saved(p)', ~spoiled => (Forward(p) /\ Backward(p) /\ Judged(p))'
  PROVE  Doing(p)'
  <1>1. pc[p] \in UpdateLabel /\ pc[p] # "inspect"
    BY DEF AfterBackup
  <1>2. pc'[p] = label /\ used'.ops = used.ops
    BY <1>1, AtWork, InnerOps DEF Goto, Recoverable
  <1>3. Point(p)'
    BY <1>1, <1>2, AtWork, PointKept
  <1> QED BY <1>2, <1>3 DEF Doing, Becomes

\* The gate lets an attested candidate pass, and changes nothing.
LEMMA AttestRecoverable ==
  ASSUME Recoverable, NEW p \in Callers, Attest(p) PROVE Doing(p)'
  <1>1. pc[p] = "attest" /\ pc[p] \in AfterBackup /\ pc[p] \in UpdateLabel /\ InnerStep(p)
    BY DEF Attest, At, AfterBackup, UpdateLabel, InnerStep
  <1>2. UNCHANGED <<running, owner, data, local, selected, verified, backups>>
    BY DEF Attest, Progress, containers, ghosts
  <1>3. PICK label \in {"migrate", "prune"} :
          /\ Goto(p, label) /\ pc'[p] = label
          /\ Becomes(p, IF label = "prune" THEN "aborted" ELSE job[p].verdict, job[p].spoiled)
    BY <1>1, AtWork, VerdictSet DEF Attest, Goto
  <1>4. Saved(p)' /\ (~job[p].spoiled => (Forward(p) /\ Backward(p) /\ Judged(p))')
    BY <1>1, <1>2, <1>3, AtWork
    DEF Becomes, Facts, Saved, Forward, Found, GivenUp, OwnerRestored, Backward, Judged, NoVerdictYet, Untouched, Owned,
        RolledBack, CandidateLabel
  <1> QED BY <1>1, <1>2, <1>3, <1>4, Moved DEF UpdateLabel

\* From here on the update knows whether it changed the volume's owner.
LEMMA MigrateRecoverable ==
  ASSUME Recoverable, NEW p \in Callers, Migrate(p) PROVE Doing(p)'
  <1>1. pc[p] = "migrate" /\ pc[p] \in AfterBackup /\ pc[p] \in UpdateLabel /\ InnerStep(p)
    BY DEF Migrate, At, AfterBackup, UpdateLabel, InnerStep
  <1>2. UNCHANGED <<running, data, local, selected, verified, backups>> /\ used'.ops = used.ops
    BY <1>1, InnerOps DEF Migrate, Progress, ghosts, Recoverable
  <1> DEFINE s == job[p].svc
  <1> DEFINE differs == s \in Migrated /\ owner[s].top # "target"
  <1> DEFINE new == [job[p] EXCEPT !.changed = differs,
                                   !.prev = owner[s].top]
  <1> DEFINE Migrates == /\ SetJob(p, new) /\ Goto(p, "select")
                         /\ owner' = [owner EXCEPT ![s] = IF differs THEN Whole("target") ELSE @]
  <1>3. CASE Migrates
    <2>1. pc'[p] = "select" /\ job'[p] = new
      BY <1>1, <1>3, AtWork DEF Goto, SetJob
    <2>2. /\ new.svc = s /\ new.old = job[p].old /\ new.cand = job[p].cand /\ new.at = job[p].at
          /\ new.base = job[p].base /\ new.spoiled = job[p].spoiled /\ new.verdict = job[p].verdict
          /\ new.changed = differs /\ new.prev = owner[s].top
      BY <1>1, AtWork DEF Job
    <2> HIDE DEF new
    <2>3. owner'[s] = IF differs THEN Whole("target") ELSE owner[s]
      BY <1>1, <1>3, AtWork
    <2>4. Point(p)'
      BY <1>1, <1>2, <2>1, <2>2, AtWork DEF Point, AfterBackup, UpdateLabel
    <2>5. Saved(p)'
      BY <2>1 DEF Saved
    <2>6. ASSUME ~job[p].spoiled PROVE Forward(p)' /\ Backward(p)' /\ Judged(p)'
      <3>1. /\ Found(p) /\ job[p].cand \in local[s] /\ job[p].old = job[p].base.image
            /\ job[p].verdict = "none"
        BY <1>1, <2>6, AtWork DEF Forward, Backward, Judged, Untouched, CandidateLabel, NoVerdictYet
      <3>2. Forward(p)'
        <4>1. owner[s] = job[p].base.owner /\ owner[s] \in Owner
          BY <1>1, <3>1, AtWork DEF Found
        <4>2. s \in Migrated => OwnerTaken(owner[s], owner'[s])
          BY <2>3, <4>1, Ownership
        <4> QED BY <1>2, <2>1, <2>2, <2>3, <3>1, <4>1, <4>2 DEF Forward, Found, Untouched, Owned, CandidateLabel
      <3>3. Backward(p)' /\ Judged(p)'
        BY <2>1, <2>2, <3>1 DEF Backward, Judged, NoVerdictYet, RolledBack
      <3> QED BY <3>2, <3>3
    <2> QED BY <2>1, <2>2, <2>4, <2>5, <2>6 DEF Doing, UpdateLabel
  <1>4. CASE ~Migrates
    <2>1. PICK spoiled \in BOOLEAN :
            /\ Goto(p, "prune") /\ pc'[p] = "prune" /\ Becomes(p, "aborted", spoiled)
            /\ job[p].spoiled => spoiled
            /\ ~spoiled => owner'[s] = owner[s] \/ owner'[s] = Whole(owner[s].top)
      <3>1. Goto(p, "prune") /\ pc'[p] = "prune"
        BY <1>1, <1>4, AtWork DEF Migrate, Goto
      <3>2. CASE /\ SetJob(p, [job[p] EXCEPT !.verdict = "aborted"])
                 /\ owner' = owner \/ owner' = [owner EXCEPT ![s] = Whole(@.top)]
        BY <1>1, <3>1, <3>2, AtWork, VerdictSet DEF Job
      <3>3. CASE SetJob(p, [job[p] EXCEPT !.verdict = "aborted", !.spoiled = TRUE])
        BY <1>1, <3>1, <3>3, AtWork, VerdictSet
      <3> QED BY <1>4, <3>2, <3>3 DEF Migrate
    <2>2. ~spoiled => OwnerRestored(owner[s], owner'[s])
      BY <1>1, <2>1, AtWork, Ownership
    <2>3. Saved(p)' /\ (~spoiled => (Forward(p) /\ Backward(p) /\ Judged(p))')
      BY <1>1, <1>2, <2>1, <2>2, AtWork
      DEF Becomes, Facts, Saved, Forward, Found, GivenUp, Backward, Judged, NoVerdictYet, Untouched, Owned,
          RolledBack, CandidateLabel
    <2> QED BY <1>1, <1>2, <2>1, <2>3, Moved DEF UpdateLabel
  <1> QED BY <1>3, <1>4 DEF Migrate

\* What a selection that succeeds leaves in memory and on disk.
LEMMA Selected ==
  ASSUME Recoverable, NEW s \in Services, NEW image, NEW second, SelectImage(s, image, "ok", second)
  PROVE  selected'[s] = image /\ disk'.selected[s] = image
  <1>1. selected' = [selected EXCEPT ![s] = image] /\ disk'.selected = selected'
    BY DEF SelectImage, Persist, DiskAfter
  <1> QED BY <1>1 DEF Recoverable, Inv, Typed, TypeOK, StatusTypes

\* What the migration changed, given back, is what was found.
LEMMA GaveBack ==
  ASSUME Recoverable, NEW p \in Callers, pc[p] \in Owned, pc[p] \in UpdateLabel, ~job[p].spoiled
  PROVE  OwnerRestored(job[p].base.owner, GivenBack(p))
  <1>1. job[p].base.owner \in Owner
    BY AtWork DEF Job, Base
  <1>2. IF job[p].changed THEN job[p].prev = job[p].base.owner.top
                          ELSE owner[job[p].svc] = job[p].base.owner
    BY AtWork DEF Forward
  <1> QED BY <1>1, <1>2, Ownership DEF GivenBack

\* The candidate is selected, or the owner is what it was.
LEMMA SelectRecoverable ==
  ASSUME Recoverable, NEW p \in Callers, Select(p) PROVE Doing(p)'
  <1>1. /\ pc[p] = "select" /\ pc[p] \in AfterBackup /\ pc[p] \in UpdateLabel /\ InnerStep(p)
        /\ job[p].svc \in Services
    BY AtWork DEF Select, At, AfterBackup, UpdateLabel, InnerStep
  <1>2. UNCHANGED <<running, data, local, verified, backups>>
    BY DEF Select, ghosts
  <1> DEFINE s == job[p].svc
  <1>3. CASE /\ \E second : SelectImage(s, job[p].cand, "ok", second)
             /\ Goto(p, "up") /\ UNCHANGED <<job, owner>>
    <2>1. selected'[s] = job[p].cand /\ disk'.selected[s] = job[p].cand
      BY <1>1, <1>3, Selected
    <2>2. pc'[p] = "up" /\ Becomes(p, job[p].verdict, job[p].spoiled)
      BY <1>1, <1>3, AtWork, VerdictSet DEF Goto
    <2>3. Saved(p)' /\ (~job[p].spoiled => (Forward(p) /\ Backward(p) /\ Judged(p))')
      BY <1>1, <1>2, <1>3, <2>1, <2>2, AtWork
      DEF Saved, Forward, Found, GivenUp, OwnerRestored, Backward, Judged, NoVerdictYet, Untouched, Owned, RolledBack,
          CandidateLabel
    <2> QED BY <1>1, <1>2, <1>3, <2>2, <2>3, Moved DEF UpdateLabel
  <1>4. CASE Goto(p, "prune")
    <2>1. PICK spoiled \in BOOLEAN :
            /\ pc'[p] = "prune" /\ Becomes(p, "aborted", spoiled)
            /\ job[p].spoiled => spoiled
            /\ ~spoiled => owner'[s] = GivenBack(p)
      <3>1. pc'[p] = "prune"
        BY <1>1, <1>4, AtWork DEF Goto
      <3>2. CASE /\ owner' = [owner EXCEPT ![s] = GivenBack(p)]
                 /\ SetJob(p, [job[p] EXCEPT !.verdict = "aborted"])
        BY <1>1, <3>1, <3>2, AtWork, VerdictSet DEF Job
      <3>3. CASE SetJob(p, [job[p] EXCEPT !.verdict = "aborted", !.spoiled = TRUE])
        BY <1>1, <3>1, <3>3, AtWork, VerdictSet
      <3>4. Goto(p, "up") => pc'[p] = "up"
        BY <1>1, AtWork DEF Goto
      <3> QED BY <3>1, <3>2, <3>3, <3>4 DEF Select
    <2>2. ASSUME ~spoiled PROVE OwnerRestored(job[p].base.owner, owner'[s])
      BY <1>1, <2>1, <2>2, GaveBack DEF Owned
    <2>3. Saved(p)' /\ (~spoiled => (Forward(p) /\ Backward(p) /\ Judged(p))')
      BY <1>1, <1>2, <2>1, <2>2, AtWork
      DEF Becomes, Facts, Saved, Forward, Found, GivenUp, Backward, Judged, NoVerdictYet, Untouched, Owned,
          RolledBack, CandidateLabel
    <2> QED BY <1>1, <1>2, <1>4, <2>1, <2>3, Moved DEF UpdateLabel
  <1> QED BY <1>3, <1>4 DEF Select

\* Once compose has run, nothing is said of image and data.
LEMMA ComposeUpRecoverable ==
  ASSUME Recoverable, NEW p \in Callers, ComposeUp(p) PROVE Doing(p)'
  <1>1. pc[p] = "up" /\ pc[p] \in AfterBackup /\ pc[p] \in UpdateLabel /\ InnerStep(p)
    BY DEF ComposeUp, At, AfterBackup, UpdateLabel, InnerStep
  <1>2. UNCHANGED <<owner, local, selected, verified, backups, job>>
    BY DEF ComposeUp, NotPersisting, ghosts
  <1>3. PICK label \in {"verify", "rbOwner"} : Goto(p, label) /\ pc'[p] = label
    BY <1>1, AtWork DEF ComposeUp, Goto
  <1>4. Becomes(p, job[p].verdict, job[p].spoiled)
    BY <1>1, <1>2, AtWork, VerdictSet
  <1>5. Attested(job[p].svc, job[p].cand)
    BY <1>1 DEF Recoverable, Inv, JobTrust, VettedLabel
  <1>6. Saved(p)' /\ (~job[p].spoiled => (Forward(p) /\ Backward(p) /\ Judged(p))')
    BY <1>1, <1>2, <1>3, <1>5, AtWork
    DEF Saved, Forward, Found, GivenUp, OwnerRestored, Backward, Judged, NoVerdictYet, Untouched, Owned, RolledBack,
        CandidateLabel
  <1> QED BY <1>1, <1>2, <1>3, <1>4, <1>6, Moved DEF UpdateLabel

\* A success is only said of the candidate that runs.
LEMMA VerifyRecoverable ==
  ASSUME Recoverable, NEW p \in Callers, Verify(p) PROVE Doing(p)'
  <1>1. pc[p] = "verify" /\ pc[p] \in AfterBackup /\ pc[p] \in UpdateLabel /\ InnerStep(p)
    BY DEF Verify, At, AfterBackup, UpdateLabel, InnerStep
  <1>2. UNCHANGED <<running, owner, data, local, selected, backups>>
    BY DEF Verify, NotPersisting, containers
  <1>3. CASE /\ running[job[p].svc] = job[p].cand
             /\ verified' = [verified EXCEPT ![job[p].svc] = @ \cup {job[p].cand}]
             /\ SetJob(p, [job[p] EXCEPT !.verdict = "success"]) /\ Goto(p, "record")
    <2>1. pc'[p] = "record" /\ Becomes(p, "success", job[p].spoiled)
      BY <1>1, <1>3, AtWork, VerdictSet DEF Goto
    <2>2. job[p].cand \in verified'[job[p].svc]
      BY <1>1, <1>3, AtWork
    <2>3. Saved(p)' /\ (~job[p].spoiled => (Forward(p) /\ Backward(p) /\ Judged(p))')
      BY <1>1, <1>2, <1>3, <2>1, <2>2, AtWork
      DEF Becomes, Facts, Saved, Forward, Backward, Judged, Real, NoVerdictYet, Untouched, Owned,
          RolledBack, CandidateLabel
    <2> QED BY <1>1, <1>2, <1>3, <2>1, <2>3, Moved DEF UpdateLabel
  <1>4. CASE Goto(p, "rbOwner") /\ UNCHANGED <<job, verified>>
    <2>1. pc'[p] = "rbOwner" /\ Becomes(p, job[p].verdict, job[p].spoiled)
      BY <1>1, <1>4, AtWork, VerdictSet DEF Goto
    <2>2. Saved(p)' /\ (~job[p].spoiled => (Forward(p) /\ Backward(p) /\ Judged(p))')
      BY <1>1, <1>2, <1>4, <2>1, AtWork
      DEF Saved, Forward, Backward, Judged, NoVerdictYet, Untouched, Owned, RolledBack, CandidateLabel
    <2> QED BY <1>1, <1>2, <1>4, <2>1, <2>2, Moved DEF UpdateLabel
  <1> QED BY <1>3, <1>4 DEF Verify

-----------------------------------------------------------------------------
(* The steps of a rollback *)

\* A rollback that fails says so, and promises nothing.
LEMMA FailsRecoverable ==
  ASSUME Recoverable, NEW p \in Callers, InnerStep(p), pc[p] \in AfterBackup, RollbackFails(p),
         backups' = backups
  PROVE  Doing(p)'
  <1>1. pc[p] \in UpdateLabel
    BY DEF AfterBackup
  <1>2. Goto(p, "record") /\ pc'[p] = "record" /\ Becomes(p, "failed", job[p].spoiled)
    BY <1>1, AtWork, VerdictSet DEF RollbackFails, Goto
  <1>3. Saved(p)' /\ (Forward(p) /\ Backward(p) /\ Judged(p))'
    BY <1>2
    DEF Becomes, Saved, Forward, Backward, Judged, NoVerdictYet, Untouched, Owned, RolledBack,
        CandidateLabel
  <1> QED BY <1>2, <1>3, Moved DEF UpdateLabel

\* The volume goes back to the owner it was found with.
LEMMA RestoreOwnershipRecoverable ==
  ASSUME Recoverable, NEW p \in Callers, RestoreOwnership(p) PROVE Doing(p)'
  <1>1. pc[p] = "rbOwner" /\ pc[p] \in AfterBackup /\ pc[p] \in UpdateLabel /\ InnerStep(p)
    BY DEF RestoreOwnership, At, AfterBackup, UpdateLabel, InnerStep
  <1>2. UNCHANGED <<running, data, local, selected, verified, backups>>
    BY DEF RestoreOwnership, Progress, ghosts
  <1> DEFINE s == job[p].svc
  <1>3. CASE /\ owner' = [owner EXCEPT ![s] = GivenBack(p)]
             /\ Goto(p, "rbSelect") /\ UNCHANGED job
    <2>1. pc'[p] = "rbSelect" /\ Becomes(p, job[p].verdict, job[p].spoiled)
      BY <1>1, <1>3, AtWork, VerdictSet DEF Goto
    <2>2. ~job[p].spoiled => OwnerRestored(job[p].base.owner, owner'[s])
      BY <1>1, <1>3, AtWork, GaveBack DEF Owned
    <2>3. Saved(p)' /\ (~job[p].spoiled => (Forward(p) /\ Backward(p) /\ Judged(p))')
      BY <1>1, <1>2, <1>3, <2>1, <2>2, AtWork
      DEF Saved, Forward, Backward, Judged, NoVerdictYet, Untouched, Owned, RolledBack, CandidateLabel
    <2> QED BY <1>1, <1>2, <1>3, <2>1, <2>3, Moved DEF UpdateLabel
  <1>4. CASE RollbackFails(p)
    BY <1>1, <1>2, <1>4, FailsRecoverable
  <1> QED BY <1>3, <1>4 DEF RestoreOwnership

\* The image it was found with is selected again.
LEMMA SelectOldRecoverable ==
  ASSUME Recoverable, NEW p \in Callers, SelectOld(p) PROVE Doing(p)'
  <1>1. /\ pc[p] = "rbSelect" /\ pc[p] \in AfterBackup /\ pc[p] \in UpdateLabel /\ InnerStep(p)
        /\ job[p].svc \in Services
    BY AtWork DEF SelectOld, At, AfterBackup, UpdateLabel, InnerStep
  <1>2. UNCHANGED <<running, owner, data, local, verified, backups>>
    BY DEF SelectOld, containers, ghosts
  <1> DEFINE s == job[p].svc
  <1>3. CASE (\E second : SelectImage(s, job[p].old, "ok", second)) /\ Goto(p, "rbUp") /\ UNCHANGED job
    <2>1. selected'[s] = job[p].old /\ disk'.selected[s] = job[p].old
      BY <1>1, <1>3, Selected
    <2>2. pc'[p] = "rbUp" /\ Becomes(p, job[p].verdict, job[p].spoiled)
      BY <1>1, <1>3, AtWork, VerdictSet DEF Goto
    <2>3. Saved(p)' /\ (~job[p].spoiled => (Forward(p) /\ Backward(p) /\ Judged(p))')
      BY <1>1, <1>2, <1>3, <2>1, <2>2, AtWork
      DEF Saved, Forward, Backward, Judged, NoVerdictYet, Untouched, Owned, RolledBack, CandidateLabel
    <2> QED BY <1>1, <1>2, <1>3, <2>2, <2>3, Moved DEF UpdateLabel
  <1>4. CASE RollbackFails(p)
    BY <1>1, <1>2, <1>4, FailsRecoverable
  <1> QED BY <1>3, <1>4 DEF SelectOld

\* A compose that really recreates the container starts it.
LEMMA ComposeUpOldRecoverable ==
  ASSUME Recoverable, NEW p \in Callers, ComposeUpOld(p) PROVE Doing(p)'
  <1>1. /\ pc[p] = "rbUp" /\ pc[p] \in AfterBackup /\ pc[p] \in UpdateLabel /\ InnerStep(p)
        /\ job[p].svc \in Services
    BY AtWork DEF ComposeUpOld, At, AfterBackup, UpdateLabel, InnerStep
  <1>2. UNCHANGED <<owner, local, selected, verified, backups>>
    BY DEF ComposeUpOld, NotPersisting, ghosts
  <1> DEFINE s == job[p].svc
  <1>3. CASE ComposeSucceeds(s) /\ Goto(p, "rbData") /\ UNCHANGED job
    <2>1. QuirkyCompose \/ running'[s] = job[p].old
      <3>1. override[s] = job[p].old
        BY <1>1 DEF Recoverable, Inv, JobTrust
      <3>2. QuirkyCompose \/ running' = [running EXCEPT ![s] = override[s]]
        BY <1>3 DEF ComposeSucceeds
      <3> QED BY <1>1, <3>1, <3>2, AtWork
    <2>2. pc'[p] = "rbData" /\ Becomes(p, job[p].verdict, job[p].spoiled)
      BY <1>1, <1>3, AtWork, VerdictSet DEF Goto
    <2>3. Saved(p)' /\ (~job[p].spoiled => (Forward(p) /\ Backward(p) /\ Judged(p))')
      BY <1>1, <1>2, <1>3, <2>1, <2>2, AtWork
      DEF Saved, Forward, Backward, Judged, NoVerdictYet, Untouched, Owned, RolledBack, CandidateLabel
    <2> QED BY <1>1, <1>2, <1>3, <2>2, <2>3, Moved DEF UpdateLabel
  <1>4. CASE RollbackFails(p)
    BY <1>1, <1>2, <1>4, FailsRecoverable
  <1> QED BY <1>3, <1>4 DEF ComposeUpOld

\* The restore point of this update has the data it found.
LEMMA RestoreDataRecoverable ==
  ASSUME Recoverable, NEW p \in Callers, RestoreData(p) PROVE Doing(p)'
  <1>1. /\ pc[p] = "rbData" /\ pc[p] \in AfterBackup /\ pc[p] \in UpdateLabel /\ InnerStep(p)
        /\ job[p].svc \in Services
    BY AtWork DEF RestoreData, At, AfterBackup, UpdateLabel, InnerStep
  <1>2. UNCHANGED <<running, owner, local, selected, verified, backups>>
    BY DEF RestoreData, NotPersisting, ghosts
  <1> DEFINE s == job[p].svc
  <1>3. CASE /\ \E b \in {c \in backups[s] : c.at = job[p].at} : data' = [data EXCEPT ![s] = b.data]
             /\ Goto(p, "rbVerify") /\ UNCHANGED job
    <2>1. ~job[p].spoiled => data'[s] = job[p].base.data
      <3>1. PICK b \in backups[s] : b.at = job[p].at /\ data' = [data EXCEPT ![s] = b.data]
        BY <1>3
      <3>2. ~job[p].spoiled => b.data = job[p].base.data
        BY <1>1, <3>1, AtWork DEF Point
      <3> QED BY <1>1, <3>1, <3>2, AtWork
    <2>2. pc'[p] = "rbVerify" /\ Becomes(p, job[p].verdict, job[p].spoiled)
      BY <1>1, <1>3, AtWork, VerdictSet DEF Goto
    <2>3. Saved(p)' /\ (~job[p].spoiled => (Forward(p) /\ Backward(p) /\ Judged(p))')
      BY <1>1, <1>2, <1>3, <2>1, <2>2, AtWork
      DEF Saved, Forward, Backward, Judged, NoVerdictYet, Untouched, Owned, RolledBack, CandidateLabel
    <2> QED BY <1>1, <1>2, <1>3, <2>2, <2>3, Moved DEF UpdateLabel
  <1>4. CASE RollbackFails(p)
    BY <1>1, <1>2, <1>4, FailsRecoverable
  <1> QED BY <1>3, <1>4 DEF RestoreData

\* Then everything is as it was found.
LEMMA VerifyRollbackRecoverable ==
  ASSUME Recoverable, NEW p \in Callers, VerifyRollback(p) PROVE Doing(p)'
  <1>1. pc[p] = "rbVerify" /\ pc[p] \in AfterBackup /\ pc[p] \in UpdateLabel /\ InnerStep(p)
    BY DEF VerifyRollback, At, AfterBackup, UpdateLabel, InnerStep
  <1>2. UNCHANGED <<running, owner, data, local, selected, verified, backups>>
    BY DEF VerifyRollback, NotPersisting, containers, ghosts
  <1>3. CASE SetJob(p, [job[p] EXCEPT !.verdict = "rolled_back"]) /\ Goto(p, "record")
    <2>1. pc'[p] = "record" /\ Becomes(p, "rolled_back", job[p].spoiled)
      BY <1>1, <1>3, AtWork, VerdictSet DEF Goto
    <2>2. Saved(p)' /\ (~job[p].spoiled => (Forward(p) /\ Backward(p) /\ Judged(p))')
      BY <1>1, <1>2, <1>3, <2>1, AtWork
      DEF Becomes, Facts, Saved, Forward, Found, GivenUp, OwnerRestored, Backward, Judged, NoVerdictYet, Untouched, Owned,
          RolledBack, CandidateLabel
    <2> QED BY <1>1, <1>2, <1>3, <2>1, <2>2, Moved DEF UpdateLabel
  <1>4. CASE RollbackFails(p)
    BY <1>1, <1>2, <1>4, FailsRecoverable
  <1> QED BY <1>3, <1>4 DEF VerifyRollback

-----------------------------------------------------------------------------
(* The steps at the end *)

\* The verdict is recorded as it is.
LEMMA RecordRecoverable ==
  ASSUME Recoverable, NEW p \in Callers,
         RecordHistory(p) \/ CleanupAfterSuccess(p) \/ AttachCleanup(p) \/ SetServiceResult(p)
  PROVE  Doing(p)'
  <1>1. /\ pc[p] \in {"record", "cleanup", "attach", "result"} /\ pc[p] \in AfterBackup
        /\ pc[p] \in UpdateLabel /\ InnerStep(p) /\ job[p].svc \in Services
    BY AtWork
    DEF RecordHistory, CleanupAfterSuccess, AttachCleanup, SetServiceResult, At, AfterBackup,
        UpdateLabel, InnerStep
  <1>2. UNCHANGED <<running, owner, data, selected, verified, backups>>
    BY DEF RecordHistory, CleanupAfterSuccess, AttachCleanup, SetServiceResult, NotPersisting,
           containers, ghosts
  <1>3. Becomes(p, job[p].verdict, job[p].spoiled)
    BY <1>1, AtWork, VerdictSet
    DEF RecordHistory, CleanupAfterSuccess, AttachCleanup, SetServiceResult, RemoveImages
  <1>4. PICK label \in {"cleanup", "attach", "prune", "end"} :
          /\ Goto(p, label) /\ pc'[p] = label
          /\ label = "attach" => pc[p] = "cleanup"
          /\ label = "prune" => pc[p] \in {"record", "attach"}
          /\ label = "cleanup" => job[p].verdict = "success"
          /\ label = "end" => pc[p] = "result"
    BY <1>1, AtWork
    DEF RecordHistory, CleanupAfterSuccess, AttachCleanup, SetServiceResult, Goto, At
  <1>5. /\ local' \in [Services -> SUBSET Images]
        /\ \A image \in local[job[p].svc] :
             running[job[p].svc] = image => image \in local'[job[p].svc]
    <2>1. CASE UNCHANGED local
      BY <1>1, <2>1, AtWork
    <2>2. CASE CleanupAfterSuccess(p)
      <3>1. PICK gone :
              /\ gone \in SUBSET {pair \in {job[p].svc} \X Images : pair[2] \in Removable(pair[1])}
              /\ local' = [s \in Services |-> {image \in local[s] : <<s, image>> \notin gone}]
        BY <2>2 DEF CleanupAfterSuccess, RemoveImages
      <3>2. \A image : <<job[p].svc, image>> \in gone => running[job[p].svc] # image
        BY <3>1 DEF Removable
      <3> QED BY <1>1, <3>1, <3>2, AtWork
    <2> QED BY <2>1, <2>2 DEF RecordHistory, AttachCleanup, SetServiceResult, containers
  <1>6. Saved(p)' /\ (~job[p].spoiled => (Forward(p) /\ Backward(p))')
    BY <1>4 DEF Saved, Forward, Backward, NoVerdictYet, Untouched, Owned, RolledBack, CandidateLabel
  <1>7. ~job[p].spoiled => Judged(p)'
    <2>1. ASSUME ~job[p].spoiled, job[p].verdict = "success" PROVE Real(p)'
      BY <1>1, <1>2, <1>3, <1>5, <2>1, AtWork DEF Judged, Real, Becomes, Facts
    <2>2. ASSUME ~job[p].spoiled PROVE job[p].verdict # "aborted"
      BY <1>1, <2>2, AtWork DEF Judged
    <2>3. ASSUME ~job[p].spoiled, job[p].verdict = "rolled_back"
          PROVE  /\ pc'[p] = "prune"
                 /\ QuirkyCompose \/ (GivenUp(p)' /\ (selected[job[p].svc] = running[job[p].svc])')
      BY <1>1, <1>2, <1>3, <1>4, <2>3, AtWork DEF Judged, GivenUp, Becomes, Facts
    <2> QED BY <1>3, <1>4, <2>1, <2>2, <2>3 DEF Judged, Becomes, NoVerdictYet
  <1> QED BY <1>1, <1>2, <1>3, <1>4, <1>6, <1>7, Moved DEF UpdateLabel

\* Retention keeps the newest restore point.
LEMMA NewestKept ==
  ASSUME NEW s \in Services, backups \in [Services -> SUBSET Backup], used \in Budget,
         retention' \in MinRetention .. MaxRetention, Past,
         NEW b \in backups[s], b.at = used.ops,
         backups' = Pruned(retention') \/ PrunedPartly
  PROVE  b \in backups'[s]
  <1>1. {c \in backups[s] : c.at > b.at} = {}
    <2>1. ASSUME NEW c \in backups[s], c.at > b.at PROVE FALSE
      <3>1. c.at <= used.ops /\ c.at \in Nat /\ used.ops \in Nat
        BY DEF Past, Backup, Budget
      <3> QED BY <2>1, <3>1
    <2> QED BY <2>1
  <1>2. Cardinality({c \in backups[s] : c.at > b.at}) = 0
    BY <1>1, FS_EmptySet
  <1>3. retention' > 0
    BY ConstantsAssumption DEF ConstantsAssumption
  <1>4. b \in Newest(backups[s], retention')
    BY <1>2, <1>3 DEF Newest
  <1>5. CASE backups' = Pruned(retention')
    BY <1>4, <1>5 DEF Pruned
  <1>6. CASE PrunedPartly
    <2>1. PICK gone :
            /\ \A pair \in gone : pair[2] \in backups[pair[1]] \ Newest(backups[pair[1]], retention')
            /\ backups' = [t \in Services |-> {c \in backups[t] : <<t, c>> \notin gone}]
      BY <1>6 DEF PrunedPartly
    <2>2. <<s, b>> \notin gone
      BY <1>4, <2>1
    <2> QED BY <2>1, <2>2
  <1> QED BY <1>5, <1>6

\* Pruning adds no restore point.
LEMMA PrunedSubset ==
  ASSUME NEW keep, backups' = Pruned(keep) \/ PrunedPartly, NEW s \in Services
  PROVE  backups'[s] \subseteq backups[s]
  BY DEF Pruned, PrunedPartly, Newest

\* The restore point of the update stays, and so does what it says.
LEMMA PruneRecoverable ==
  ASSUME Recoverable, NEW p \in Callers, EnforceBackupRetention(p) PROVE Doing(p)'
  <1>1. /\ pc[p] = "prune" /\ pc[p] \in AfterBackup /\ pc[p] \in UpdateLabel /\ InnerStep(p)
        /\ job[p].svc \in Services
    BY AtWork DEF EnforceBackupRetention, At, AfterBackup, UpdateLabel, InnerStep
  <1>2. UNCHANGED <<running, owner, data, local, selected, verified, job>> /\ used'.ops = used.ops
    BY <1>1, InnerOps DEF EnforceBackupRetention, NotPersisting, containers, ghosts, Recoverable
  <1>3. PICK label \in {"result", "fail"} :
          pc'[p] = label /\ (label = "result" <=> job[p].verdict \in {"success", "no_change"})
    BY <1>1, AtWork DEF EnforceBackupRetention, Goto
  <1>4. /\ backups'[job[p].svc] \subseteq backups[job[p].svc]
        /\ \A b \in backups[job[p].svc] : b.at = used.ops => b \in backups'[job[p].svc]
    <2>1. backups' = Pruned(retention') \/ PrunedPartly
      BY DEF EnforceBackupRetention
    <2>2. retention' \in MinRetention .. MaxRetention
      BY DEF EnforceBackupRetention, Recoverable, Inv, Typed, TypeOK, BackupTypes
    <2> QED BY <1>1, <2>1, <2>2, AtWork, NewestKept, PrunedSubset DEF Recoverable
  <1>5. Point(p)'
    BY <1>1, <1>2, <1>3, <1>4, AtWork DEF Point, AfterBackup, UpdateLabel
  <1>6. Saved(p)' /\ (~job[p].spoiled => (Forward(p) /\ Backward(p) /\ Judged(p))')
    BY <1>1, <1>2, <1>3, AtWork
    DEF Saved, Forward, Found, GivenUp, OwnerRestored, Backward, Judged, Real, NoVerdictYet, Untouched, Owned, RolledBack,
        CandidateLabel
  <1>7. pc'[p] \in UpdateLabel /\ job'[p] = job[p]
    BY <1>2, <1>3 DEF UpdateLabel
  <1> QED BY <1>5, <1>6, <1>7 DEF Doing

-----------------------------------------------------------------------------
(* Every step *)

\* A check and a cleanup update nothing.
LEMMA OtherRecoverable ==
  ASSUME Recoverable, NEW p \in Callers, Sweep(p) \/ \E s \in Services : CheckService(p, s)
  PROVE  Doing(p)'
  <1>1. pc[p] \in {"check", "sweep"} /\ pc'[p] \in {"check", "swept"}
    BY DEF Sweep, CheckService, At, Goto, Recoverable, Inv, Typed, TypeOK, CallerTypes
  <1>2. job[p] \in Job /\ job \in [Callers -> Job] /\ job[p].at = 0 /\ job[p].verdict = "none"
    BY <1>1 DEF Recoverable, Doing, UpdateLabel, Inv, Typed, TypeOK, CallerTypes
  <1>3. job'[p].at = job[p].at /\ job'[p].verdict = job[p].verdict
    <2>1. PICK todo, gone : \/ SetJob(p, [job[p] EXCEPT !.todo = todo])
                            \/ SetJob(p, [job[p] EXCEPT !.removed = gone])
                            \/ SetJob(p, [job[p] EXCEPT !.ok = FALSE])
      BY DEF Sweep, CheckService, RemoveImages
    <2>2. \A k : SetJob(p, k) => job'[p] = k
      BY <1>2 DEF SetJob
    <2>3. \/ job'[p] = [job[p] EXCEPT !.todo = todo]
          \/ job'[p] = [job[p] EXCEPT !.removed = gone]
          \/ job'[p] = [job[p] EXCEPT !.ok = FALSE]
      BY <2>1, <2>2
    <2> QED BY <1>2, <2>3 DEF Job
  <1> QED BY <1>1, <1>2, <1>3 DEF Doing, UpdateLabel

\* No step inside an operation takes a restore point from the future.
LEMMA InnerPast == ASSUME Recoverable, NEW p \in Callers, InnerStep(p) PROVE Past'
  <1>1. used'.ops = used.ops /\ used.ops \in Nat /\ backups \in [Services -> SUBSET Backup] /\ Past
    BY InnerOps DEF Recoverable, Inv, Typed, TypeOK, GhostTypes, BackupTypes, Budget
  <1>2. CASE UNCHANGED backups
    BY <1>1, <1>2 DEF Past
  <1>3. CASE EnforceBackupRetention(p)
    <2>1. \A s \in Services : backups'[s] \subseteq backups[s]
      BY <1>3, PrunedSubset DEF EnforceBackupRetention
    <2> QED BY <1>1, <2>1 DEF Past
  <1>4. CASE BackupData(p) /\ ~UNCHANGED backups
    <2> DEFINE point == [at |-> used.ops, data |-> data[job[p].svc]]
    <2>1. backups' = [backups EXCEPT ![job[p].svc] = @ \cup {point}]
      BY <1>4 DEF BackupData
    <2>2. \A s \in Services : \A b \in backups'[s] : b \in backups[s] \/ b = point
      BY <1>1, <2>1
    <2>3. point.at <= used.ops
      BY <1>1
    <2> QED BY <1>1, <2>2, <2>3 DEF Past
  <1> QED
    BY <1>2, <1>3, <1>4
    DEF InnerStep, Inspect, Pull, Attest, Migrate, Select, ComposeUp, Verify, RestoreOwnership, SelectOld,
        ComposeUpOld, RestoreData, VerifyRollback, RecordHistory, CleanupAfterSuccess, AttachCleanup,
        SetServiceResult, Sweep, CheckService

\* Every step inside an operation.
LEMMA InnerRecoverable ==
  ASSUME Recoverable, Inv', NEW p \in Callers, InnerStep(p) PROVE Recoverable'
  <1>1. Doing(p)'
    BY InspectRecoverable, BackupRecoverable, PullRecoverable, AttestRecoverable, MigrateRecoverable,
       SelectRecoverable, ComposeUpRecoverable, VerifyRecoverable, RestoreOwnershipRecoverable,
       SelectOldRecoverable, ComposeUpOldRecoverable, RestoreDataRecoverable, VerifyRollbackRecoverable,
       RecordRecoverable, PruneRecoverable, OtherRecoverable
    DEF InnerStep
  <1>2. ASSUME NEW q \in Callers \ {p} PROVE Doing(q)'
    <2>1. pc[q] = "idle" /\ pc'[q] = "idle" /\ job'[q] = job[q]
      BY OthersStayIdle DEF Recoverable, OthersIdle
    <2> QED BY <2>1 DEF Recoverable, Doing, UpdateLabel
  <1> QED BY <1>1, <1>2, InnerPast DEF Recoverable

\* A caller without an update, before and after a step.
LEMMA QuietRecoverable ==
  ASSUME NEW p, pc[p] \notin UpdateLabel, job[p].at = 0, job[p].verdict = "none" PROVE Doing(p)
  BY DEF Doing

\* A job begins with nothing done, and a restart begins anew.
LEMMA NoJobFields ==
  /\ NoJob.at = 0 /\ NoJob.verdict = "none"
  /\ \A s : [NoJob EXCEPT !.svc = s].at = 0 /\ [NoJob EXCEPT !.svc = s].verdict = "none"
  /\ \A t : [NoJob EXCEPT !.todo = t].at = 0 /\ [NoJob EXCEPT !.todo = t].verdict = "none"
  BY DEF NoJob

\* An operation that is let in is newer than every restore point.
LEMMA CallRecoverable ==
  ASSUME Recoverable, Inv', NEW p \in Callers, Call(p) PROVE Recoverable'
  <1>1. \A q \in Callers : pc[q] = "idle" /\ job[q].at = 0 /\ job[q].verdict = "none"
    <2>1. \A q \in Callers : pc[q] = "idle"
      BY DEF Call, StartUpdate, StartCheck, RunManualCleanup, RunExclusive, Enter,
             ReserveForControlPlane, Busy, Recoverable, Inv, ExclusiveOperation, At
    <2> QED BY <2>1 DEF Recoverable, Doing, UpdateLabel
  <1>2. UNCHANGED backups /\ used'.ops = used.ops + 1
    BY DEF Call, StartUpdate, StartCheck, RunManualCleanup, RunExclusive, Enter,
           ReserveForControlPlane, files, Recoverable, Inv, Typed, TypeOK, GhostTypes, Budget
  <1>3. /\ used.ops \in Nat /\ backups \in [Services -> SUBSET Backup]
        /\ \A s \in Services : \A b \in backups[s] : b.at \in Nat /\ b.at <= used.ops
    BY DEF Recoverable, Past, Inv, Typed, TypeOK, GhostTypes, BackupTypes, Budget, Backup
  <1>4. Past' /\ \A s \in Services : \A b \in backups'[s] : b.at # used'.ops
    <2>1. ASSUME NEW s \in Services, NEW b \in backups'[s] PROVE b.at <= used'.ops /\ b.at # used'.ops
      BY <1>2, <1>3
    <2> QED BY <2>1 DEF Past
  <1> DEFINE Begins ==
        \E label, new :
          /\ label \in {"inspect", "check", "sweep", "exclusive", "remote"} /\ Goto(p, label)
          /\ job' = job \/ (SetJob(p, new) /\ new.at = 0 /\ new.verdict = "none")
  <1>8. ASSUME NEW newState, NEW label \in {"inspect", "check", "sweep", "exclusive"}, NEW new, NEW outcome,
               Enter(p, newState, label, new, outcome), new.at = 0, new.verdict = "none"
        PROVE  Begins
    <2>1. Goto(p, label) /\ SetJob(p, new)
      BY <1>8 DEF Enter
    <2> QED BY <1>8, <2>1
  <1>9. Begins
    <2> HIDE DEF Begins
    <2>1. ASSUME NEW s \in Services, StartUpdate(p, s) PROVE Begins
      BY <1>8, <2>1, NoJobFields DEF StartUpdate
    <2>2. CASE StartCheck(p)
      BY <1>8, <2>2, NoJobFields DEF StartCheck
    <2>3. CASE RunManualCleanup(p)
      BY <1>8, <2>3, NoJobFields DEF RunManualCleanup
    <2>4. CASE RunExclusive(p)
      BY <1>8, <2>4, NoJobFields DEF RunExclusive
    <2>5. CASE ReserveForControlPlane(p)
      <3>1. Goto(p, "remote") /\ job' = job
        BY <2>5 DEF ReserveForControlPlane
      <3> QED BY <3>1 DEF Begins
    <2> QED BY <2>1, <2>2, <2>3, <2>4, <2>5 DEF Call
  <1>5. PICK label, new :
          /\ label \in {"inspect", "check", "sweep", "exclusive", "remote"} /\ Goto(p, label)
          /\ job' = job \/ (SetJob(p, new) /\ new.at = 0 /\ new.verdict = "none")
    BY <1>9
  <1>6. /\ \A q \in Callers \ {p} : pc'[q] = "idle" /\ job'[q].at = 0 /\ job'[q].verdict = "none"
        /\ pc'[p] = label /\ job'[p].at = 0 /\ job'[p].verdict = "none"
    <2>1. pc \in [Callers -> Label] /\ job \in [Callers -> Job]
      BY DEF Recoverable, Inv, Typed, TypeOK, CallerTypes
    <2>2. pc'[p] = label /\ \A q \in Callers \ {p} : pc'[q] = pc[q] /\ job'[q] = job[q]
      BY <1>5, <2>1 DEF Goto, SetJob
    <2>3. job'[p] = job[p] \/ (job'[p] = new /\ new.at = 0 /\ new.verdict = "none")
      BY <1>5, <2>1 DEF SetJob
    <2> QED BY <1>1, <2>2, <2>3
  <1>7. ASSUME NEW q \in Callers PROVE Doing(q)'
    <2>1. CASE q # p \/ label # "inspect"
      BY <1>5, <1>6, <2>1 DEF Doing, UpdateLabel
    <2>2. CASE q = p /\ label = "inspect"
      <3>1. job'[p].svc \in Services
        BY <1>6, <2>2 DEF Inv, Typed, JobOK, UpdateLabel
      <3>2. Point(p)'
        BY <1>4, <1>6, <2>2, <3>1 DEF Point, AfterBackup
      <3>3. Saved(p)' /\ Forward(p)' /\ Backward(p)' /\ Judged(p)'
        BY <1>6, <2>2
        DEF Saved, Forward, Backward, Judged, NoVerdictYet, Untouched, Owned, RolledBack, CandidateLabel
      <3> QED BY <1>6, <2>2, <3>2, <3>3 DEF Doing, UpdateLabel
    <2> QED BY <2>1, <2>2
  <1> QED BY <1>4, <1>7 DEF Recoverable

\* An operation that ends leaves its restore points.
LEMMA LeaveRecoverable ==
  ASSUME Recoverable, Inv', NEW p \in Callers, pc[p] # "idle", Goto(p, "idle"),
         SetJob(p, NoJob) \/ (job' = job /\ pc[p] = "remote"),
         UNCHANGED backups, used'.ops = used.ops
  PROVE  Recoverable'
  <1>1. pc \in [Callers -> Label] /\ job \in [Callers -> Job]
    BY DEF Recoverable, Inv, Typed, TypeOK, CallerTypes
  <1>2. \A q \in Callers \ {p} : pc[q] = "idle"
    BY DEF Recoverable, Inv, ExclusiveOperation, At
  <1>3. Past'
    BY DEF Recoverable, Past
  <1>4. ASSUME NEW q \in Callers PROVE Doing(q)'
    <2>1. pc'[q] = "idle"
      BY <1>1, <1>2 DEF Goto
    <2>2. job'[q].at = 0 /\ job'[q].verdict = "none"
      <3>1. CASE q = p /\ SetJob(p, NoJob)
        BY <1>1, <3>1, NoJobFields DEF SetJob
      <3>2. CASE job'[q] = job[q] /\ pc[q] \in Quiet
        BY <3>2 DEF Recoverable, Doing, UpdateLabel, Quiet
      <3> QED BY <1>1, <1>2, <3>1, <3>2 DEF SetJob, Quiet
    <2> QED BY <2>1, <2>2 DEF Doing, UpdateLabel
  <1> QED BY <1>3, <1>4 DEF Recoverable

\* While nobody works there is nothing to undo.
LEMMA IdleRecoverable ==
  ASSUME Recoverable, Inv', ~Busy, UNCHANGED <<pc, job>>, used'.ops = used.ops,
         \A s \in Services : backups'[s] \subseteq backups[s]
  PROVE  Recoverable'
  <1>1. \A q \in Callers : pc[q] = "idle"
    BY DEF Busy, Recoverable, Inv, ExclusiveOperation, At
  <1>2. \A q \in Callers : Doing(q)'
    BY <1>1 DEF Recoverable, Doing, UpdateLabel
  <1>3. Past'
    BY DEF Recoverable, Past
  <1> QED BY <1>2, <1>3 DEF Recoverable

\* A container recreated elsewhere spoils the update of its service alone.
LEMMA RecreateRecoverable ==
  ASSUME Recoverable, Inv', NEW s \in Services, NEW image \in Images, RecreateElsewhere(s, image)
  PROVE  Recoverable'
  <1>1. /\ UNCHANGED <<pc, backups, owner, selected, verified, disk>> /\ used'.ops = used.ops
        /\ \A t \in Services \ {s} : running'[t] = running[t] /\ data'[t] = data[t] /\ local'[t] = local[t]
    BY DEF RecreateElsewhere, NotPersisting, Recoverable, Inv, Typed, TypeOK, GhostTypes, Budget,
           ContainerTypes
  <1>2. Past'
    BY <1>1 DEF Recoverable, Past
  <1>3. ASSUME NEW q \in Callers PROVE Doing(q)'
    <2>1. job[q] \in Job /\ Doing(q) /\ (pc[q] \in UpdateLabel => job[q].svc \in Services)
      BY DEF Recoverable, Inv, Typed, TypeOK, CallerTypes, JobOK
    <2>2. job'[q] = IF job[q].svc = s THEN [job[q] EXCEPT !.spoiled = TRUE] ELSE job[q]
      BY DEF RecreateElsewhere
    <2>3. CASE job[q].svc = s
      <3>1. /\ Facts(job'[q]) = Facts(job[q]) /\ job'[q].verdict = job[q].verdict
            /\ job'[q].spoiled = TRUE
        BY <2>1, <2>2, <2>3 DEF Job, Facts
      <3> QED BY <1>1, <2>1, <3>1 DEF Facts, Doing, Point, Saved
    <2>4. CASE job[q].svc # s
      <3>1. job'[q] = job[q]
        BY <2>2, <2>4
      <3>2. CASE pc[q] \in UpdateLabel
        <4>1. /\ running'[job[q].svc] = running[job[q].svc] /\ data'[job[q].svc] = data[job[q].svc]
              /\ local'[job[q].svc] = local[job[q].svc]
          BY <1>1, <2>1, <2>4, <3>2
        <4>2. Point(q)' /\ Saved(q)'
          BY <1>1, <2>1, <3>1, <3>2 DEF Doing, Point, Saved
        <4>3. ~job[q].spoiled => Forward(q)' /\ Backward(q)' /\ Judged(q)'
          BY <1>1, <2>1, <3>1, <3>2, <4>1 DEF Doing, Forward, Found, GivenUp, OwnerRestored, Backward, Judged, Real
        <4> QED BY <1>1, <3>1, <3>2, <4>2, <4>3 DEF Doing
      <3> QED BY <1>1, <2>1, <3>1, <3>2 DEF Doing
    <2> QED BY <2>3, <2>4
  <1> QED BY <1>2, <1>3 DEF Recoverable

\* Recoverable is inductive.
LEMMA RecoverableNext == Recoverable /\ [Next]_vars => Recoverable'
  <1> SUFFICES ASSUME Recoverable, [Next]_vars PROVE Recoverable'
    OBVIOUS
  <1>0. Inv' /\ used \in Budget
    BY InvNext DEF Recoverable, Inv, Typed, TypeOK, GhostTypes
  <1>1. ASSUME NEW p \in Callers, Call(p) PROVE Recoverable'
    BY <1>0, <1>1, CallRecoverable
  <1>2. ASSUME NEW p \in Callers, Work(p) PROVE Recoverable'
    <2>1. ASSUME NEW newState, NEW newHistory, pc[p] # "idle", Leave(p, newState, newHistory)
          PROVE  Recoverable'
      <3>1. UNCHANGED backups /\ used'.ops = used.ops
        BY <1>0, <2>1, SameOps DEF Leave
      <3>2. Goto(p, "idle")
        BY <2>1 DEF Leave
      <3>3. SetJob(p, NoJob) \/ (job' = job /\ pc[p] = "remote")
        BY <2>1 DEF Leave
      <3>4. pc[p] # "idle"
        BY <2>1
      <3> QED BY <1>0, <3>1, <3>2, <3>3, <3>4, LeaveRecoverable
    <2>2. CASE Finish(p) \/ Fail(p) \/ CheckDone(p) \/ CleanupDone(p) \/ ExclusiveDone(p)
      BY <2>1, <2>2 DEF Finish, Fail, CheckDone, CleanupDone, ExclusiveDone, At
    <2>3. CASE Release(p)
      BY <1>0, <2>3, LeaveRecoverable DEF Release, At, files
    <2>4. CASE InnerStep(p)
      BY <1>0, <2>4, InnerRecoverable
    <2> QED BY <1>2, <2>2, <2>3, <2>4 DEF Work, UpdateStep, OtherStep, InnerStep
  <1>3. CASE StatusSynced
    BY <1>0, <1>3, SameOps, IdleRecoverable DEF StatusSynced
  <1>4. ASSUME NEW n \in MinRetention .. MaxRetention, SetBackupRetention(n) PROVE Recoverable'
    <2>1. \A s \in Services : backups'[s] \subseteq backups[s]
      BY <1>4, PrunedSubset DEF SetBackupRetention
    <2> QED BY <1>0, <1>4, <2>1, SameOps, IdleRecoverable DEF SetBackupRetention
  <1>5. ASSUME NEW s \in Services, NEW image \in Images, RecreateElsewhere(s, image) PROVE Recoverable'
    BY <1>0, <1>5, RecreateRecoverable
  <1>6. CASE Restart
    <2>1. UNCHANGED backups /\ used'.ops = used.ops
      BY <1>0, <1>6 DEF Restart, Budget
    <2>2. Past'
      BY <2>1 DEF Recoverable, Past
    <2>3. \A q \in Callers : Doing(q)'
      BY <1>6, NoJobFields DEF Restart, Doing, UpdateLabel
    <2> QED BY <1>0, <2>2, <2>3 DEF Recoverable
  <1>7. CASE UNCHANGED vars
    <2>1. UNCHANGED <<pc, job, backups, running, owner, data, local, selected, verified, disk, used>>
      BY <1>7 DEF vars, memory, files, containers, ghosts
    <2>2. Past'
      BY <2>1 DEF Recoverable, Past
    <2>3. \A q \in Callers : Doing(q)'
      BY <2>1 DEF Recoverable, Doing, Point, Saved, Forward, Found, GivenUp, OwnerRestored, Backward, Judged, Real
    <2> QED BY <1>0, <2>2, <2>3 DEF Recoverable
  <1> QED BY <1>1, <1>2, <1>3, <1>4, <1>5, <1>6, <1>7 DEF Next

\* At first nothing is to be undone.
LEMMA RecoverableInit == Init => Recoverable
  BY InvInit, NoJobFields DEF Init, Recoverable, Past, Doing, UpdateLabel

\* Recoverable holds in every reachable state.
THEOREM Recoverability == Spec => []Recoverable
  BY RecoverableInit, RecoverableNext, PTL DEF Spec

-----------------------------------------------------------------------------
(* The theorems *)

\* selectImage before activate: docker compose only starts what updates.yaml
\* names, and what a crash would keep.
THEOREM SelectionSeen == Spec => []ComposeSeesSelection
  <1>1. Recoverable => ComposeSeesSelection
    BY DEF Recoverable, Doing, Saved, UpdateLabel, Inv, JobTrust, ComposeSeesSelection, At
  <1> QED BY <1>1, Recoverability, PTL

\* pruneBackupsLocked never deletes the restore point the update in flight may
\* still need, whatever the retention, and nobody else's data is in it.
THEOREM SnapshotOutlives == Spec => []SnapshotKept
  <1>1. ASSUME Recoverable, NEW p \in Callers, job[p].at > 0
        PROVE  \E b \in backups[job[p].svc] :
                 b.at = job[p].at /\ (job[p].spoiled \/ b.data = job[p].base.data)
    <2>1. pc[p] \in UpdateLabel
      BY <1>1 DEF Recoverable, Doing
    <2> QED BY <1>1, <2>1 DEF Recoverable, Doing, Point
  <1>2. Recoverable => SnapshotKept
    BY <1>1 DEF SnapshotKept
  <1> QED BY <1>2, Recoverability, PTL

\* A success that the history shows is one: the container runs the attested
\* candidate, which is selected, present and owns its volume.
THEOREM SuccessesAreReal == Spec => []SuccessIsReal
  <1>1. ASSUME Recoverable, NEW p \in Callers, job[p].verdict = "success", ~job[p].spoiled
        PROVE  Real(p)
    BY <1>1 DEF Recoverable, Doing, Judged
  <1>2. Recoverable => SuccessIsReal
    BY <1>1 DEF SuccessIsReal, Real
  <1> QED BY <1>2, Recoverability, PTL

\* rollback(), and every exit before the container is touched: what the update
\* reports as unchanged or rolled back is as it was found, provided compose
\* recreates a container when it says so.
THEOREM FailuresRestore ==
  ASSUME ~QuirkyCompose PROVE Spec => []FailureRestores
  <1>1. ASSUME Recoverable, NEW p \in Callers, job[p].verdict \in {"aborted", "rolled_back"},
               ~job[p].spoiled
        PROVE  GivenUp(p) /\ (job[p].verdict = "rolled_back" => selected[job[p].svc] = running[job[p].svc])
    BY <1>1 DEF Recoverable, Doing, Judged
  <1>2. Recoverable => FailureRestores
    BY <1>1 DEF FailureRestores, GivenUp
  <1> QED BY <1>2, Recoverability, PTL

-----------------------------------------------------------------------------
(* Restarts *)

\* What the other steps spend is not a crash.
LEMMA NoCrash ==
  ASSUME used \in Budget
  PROVE  /\ UNCHANGED used => ~Crash
         /\ \A n : Spend(n) => ~Crash
         /\ used' = [used EXCEPT !.ops = @ + 1] => ~Crash
         /\ \A n : used' = [used EXCEPT !.ops = @ + 1, !.faults = @ + n] => ~Crash
         /\ used' = [used EXCEPT !.foreign = @ + 1] => ~Crash
  <1>1. /\ \A a : [used EXCEPT !.ops = a].crashes = used.crashes
        /\ \A a : [used EXCEPT !.faults = a].crashes = used.crashes
        /\ \A a : [used EXCEPT !.foreign = a].crashes = used.crashes
        /\ \A a, b : [used EXCEPT !.ops = a, !.faults = b].crashes = used.crashes
    BY DEF Budget
  <1>2. used.crashes # used.crashes + 1
    BY DEF Budget
  <1>3. used'.crashes = used.crashes => ~Crash
    BY <1>2 DEF Crash
  <1>4. ASSUME NEW n PROVE used' = [used EXCEPT !.ops = @ + 1, !.faults = @ + n] => ~Crash
    BY <1>1, <1>3
  <1>5. ASSUME NEW n PROVE Spend(n) => ~Crash
    BY <1>1, <1>3 DEF Spend
  <1>6. used' = [used EXCEPT !.ops = @ + 1] => ~Crash
    BY <1>1, <1>3, Zenon
  <1>7. used' = [used EXCEPT !.foreign = @ + 1] => ~Crash
    BY <1>1, <1>3, Zenon
  <1> QED BY <1>3, <1>4, <1>5, <1>6, <1>7, Zenon

\* A step inside an operation spends at most faults.
LEMMA InnerNoCrash == ASSUME used \in Budget, NEW p \in Callers, InnerStep(p) PROVE ~Crash
  <1>1. UNCHANGED used \/ \E n : Spend(n)
    <2>1. CASE Inspect(p) \/ BackupData(p) \/ Pull(p) \/ Attest(p) \/ Migrate(p) \/ Select(p)
      BY <2>1 DEF Inspect, BackupData, Pull, Attest, Migrate, Select
    <2>2. CASE ComposeUp(p) \/ Verify(p) \/ RestoreOwnership(p) \/ SelectOld(p) \/ ComposeUpOld(p)
               \/ RestoreData(p) \/ VerifyRollback(p)
      BY <2>2 DEF ComposeUp, Verify, RestoreOwnership, SelectOld, ComposeUpOld, RestoreData, VerifyRollback
    <2>3. CASE RecordHistory(p) \/ CleanupAfterSuccess(p) \/ AttachCleanup(p) \/ EnforceBackupRetention(p)
               \/ SetServiceResult(p) \/ Sweep(p)
      BY <2>3 DEF RecordHistory, CleanupAfterSuccess, AttachCleanup, EnforceBackupRetention,
                  SetServiceResult, Sweep
    <2>4. CASE \E s \in Services : CheckService(p, s)
      BY <2>4 DEF CheckService
    <2> QED BY <2>1, <2>2, <2>3, <2>4 DEF InnerStep
  <1> QED BY <1>1, NoCrash

\* Only a restart counts as a crash.
LEMMA CrashRestarts == ASSUME Typed, [Next]_vars, Crash PROVE Restart
  <1>0. used \in Budget
    BY DEF Typed, TypeOK, GhostTypes
  <1>1. ASSUME NEW p \in Callers, Call(p) PROVE ~Crash
    <2>1. CASE ReserveForControlPlane(p)
      BY <1>0, <2>1, NoCrash DEF ReserveForControlPlane
    <2>2. CASE ~ReserveForControlPlane(p)
      <3>1. \E n : used' = [used EXCEPT !.ops = @ + 1, !.faults = @ + n]
        BY <1>1, <2>2 DEF Call, StartUpdate, StartCheck, RunManualCleanup, RunExclusive, Enter
      <3> QED BY <1>0, <3>1, NoCrash
    <2> QED BY <2>1, <2>2
  <1>2. ASSUME NEW p \in Callers, Work(p) PROVE ~Crash
    <2>1. ASSUME NEW newState, NEW newHistory, Leave(p, newState, newHistory) PROVE ~Crash
      BY <1>0, <2>1, NoCrash DEF Leave
    <2>2. CASE Finish(p) \/ Fail(p) \/ CheckDone(p) \/ CleanupDone(p) \/ ExclusiveDone(p)
      BY <2>1, <2>2 DEF Finish, Fail, CheckDone, CleanupDone, ExclusiveDone
    <2>3. CASE Release(p)
      BY <1>0, <2>3, NoCrash DEF Release
    <2> QED BY <1>0, <1>2, <2>2, <2>3, InnerNoCrash DEF Work, UpdateStep, OtherStep, InnerStep
  <1>3. ASSUME StatusSynced \/ \E n \in MinRetention .. MaxRetention : SetBackupRetention(n) PROVE ~Crash
    BY <1>0, <1>3, NoCrash DEF StatusSynced, SetBackupRetention
  <1>4. ASSUME \E s \in Services, new \in Images : RecreateElsewhere(s, new) PROVE ~Crash
    BY <1>0, <1>4, NoCrash DEF RecreateElsewhere
  <1>5. ASSUME UNCHANGED vars PROVE ~Crash
    BY <1>0, <1>5, NoCrash DEF vars
  <1> QED BY <1>1, <1>2, <1>3, <1>4, <1>5 DEF Next

\* load() and the persist after it: a restart leaves nobody at work and a
\* Manager that is free, and says of what it interrupted that it failed.
THEOREM InterruptionSeen == Spec => InterruptionReported
  <1>1. Typed /\ DurableUnlessFlagged /\ [Next]_vars =>
          [Crash => /\ ~Busy'
                    /\ state \in {"checking", "updating"} /\ ~persistError => state' = "failed"]_vars
    <2> SUFFICES ASSUME Typed, DurableUnlessFlagged, Next, Crash
                 PROVE  /\ ~Busy'
                        /\ state \in {"checking", "updating"} /\ ~persistError => state' = "failed"
      OBVIOUS
    <2>1. Restart
      BY CrashRestarts
    <2>2. ~persistError => disk.state = state
      BY DEF DurableUnlessFlagged
    <2> QED BY <2>1, <2>2 DEF Restart, Interrupted, Busy
  <1>2. Init => DurableUnlessFlagged
    BY DEF Init, DurableUnlessFlagged
  <1> QED BY <1>1, <1>2, TypedInit, TypedNext, DurableNext, PTL DEF Spec, InterruptionReported

-----------------------------------------------------------------------------
(* What a cleanup spares *)

\* A set of natural numbers has a smallest member.
LEMMA Smallest == ASSUME NEW S, S \subseteq Nat, S # {} PROVE \E x \in S : \A y \in S : x <= y
  <1> DEFINE less == {ss \in Nat \X Nat : ss[1] < ss[2]}
  <1>1. IsWellFoundedOn(less, Nat)
    BY NatLessThanWellFounded DEF OpToRel
  <1>2. \E x \in S : \A y \in S : <<y, x>> \notin less
    BY <1>1, WFMin
  <1>3. PICK x \in S : \A y \in S : ~(y < x)
    BY <1>2
  <1>4. \A y \in S : x <= y
    BY <1>3
  <1> QED BY <1>4

\* The largest one of a bounded set.
LEMMA Largest ==
  ASSUME NEW n \in Nat, NEW S, S \subseteq 1 .. n, S # {} PROVE \E x \in S : \A y \in S : y <= x
  <1> DEFINE T == {d \in Nat : \E x \in S : d + x = n}
  <1>1. ASSUME NEW x \in S PROVE n - x \in T
    BY <1>1
  <1>2. PICK t \in T : \A u \in T : t <= u
    BY <1>1, Smallest
  <1>3. PICK x \in S : t + x = n
    BY <1>2
  <1>4. \A y \in S : t <= n - y
    BY <1>1, <1>2
  <1>5. \A y \in S : y <= x
    BY <1>3, <1>4
  <1> QED BY <1>5

\* The first place an image is seen at is the highest entry that names it.
LEMMA Seen ==
  ASSUME history \in Seq(Entry), NEW s, NEW image \in KnownImages(history, s)
  PROVE  /\ FirstSeen(history, s, image) \in Successes(history, s)
         /\ image \in ImagesOf(history[FirstSeen(history, s, image)])
         /\ \A j \in Successes(history, s) :
              image \in ImagesOf(history[j]) => j <= FirstSeen(history, s, image)
  <1> DEFINE S == {i \in Successes(history, s) : image \in ImagesOf(history[i])}
  <1>1. S # {} /\ S \subseteq 1 .. Len(history) /\ Len(history) \in Nat
    BY DEF KnownImages, Successes
  <1>2. \E x \in S : \A y \in S : y <= x
    BY <1>1, Largest
  <1>3. \E i \in Successes(history, s) :
          /\ image \in ImagesOf(history[i])
          /\ \A j \in Successes(history, s) : image \in ImagesOf(history[j]) => j <= i
    BY <1>2
  <1> QED BY <1>3 DEF FirstSeen

\* The newest success is the entry with the smallest index.
LEMMA NewestSuccess ==
  ASSUME history \in Seq(Entry), NEW s, Successes(history, s) # {}
  PROVE  /\ LastSuccess(s) \in Successes(history, s) /\ Successes(history, s) \subseteq Nat
         /\ \A j \in Successes(history, s) : LastSuccess(s) <= j
  <1>1. Successes(history, s) \subseteq Nat
    BY DEF Successes
  <1>2. \E i \in Successes(history, s) : \A j \in Successes(history, s) : i <= j
    BY <1>1, Smallest
  <1> QED BY <1>1, <1>2 DEF LastSuccess

\* Of a service that went forward only the image its newest success installed
\* is seen after the one it ran before.
LEMMA PreviousSpared ==
  ASSUME history \in Seq(Entry), NEW s, Successes(history, s) # {}, WentForward(s)
  PROVE  history[LastSuccess(s)].from \notin Candidates(history, s)
  <1> DEFINE last  == LastSuccess(s)
             image == history[last].from
             after == {other \in KnownImages(history, s) : SeenLater(history, s, image, other)}
  <1> SUFFICES ASSUME image \in KnownImages(history, s) PROVE ~(Cardinality(after) >= KeptImages)
    BY DEF Candidates
  <1>1. last \in Successes(history, s) /\ Successes(history, s) \subseteq Nat
        /\ \A j \in Successes(history, s) : last <= j
    BY NewestSuccess
  <1> DEFINE first == FirstSeen(history, s, image)
  <1>2. first \in Successes(history, s) /\ image \in ImagesOf(history[first])
    BY Seen
  <1>3. first = last \/ (history[first].to = image /\ \A j \in Successes(history, s) : j > last => first <= j)
    BY DEF WentForward
  <1>4. ASSUME NEW other \in after PROVE other = history[last].to
    <2> DEFINE seen == FirstSeen(history, s, other)
    <2>1. /\ seen \in Successes(history, s) /\ other \in ImagesOf(history[seen])
          /\ seen < first \/ (seen = first /\ image # other /\ history[first].from = image)
      BY Seen DEF SeenLater
    <2> HIDE DEF seen, first, image, last
    <2>2. seen = last
      <3>1. seen \in Nat /\ first \in Nat /\ last \in Nat /\ last <= seen
        BY <1>1, <1>2, <2>1
      <3>2. CASE first = last
        BY <2>1, <3>1, <3>2
      <3>3. CASE history[first].to = image /\ \A j \in Successes(history, s) : j > last => first <= j
        <4>1. CASE seen < first
          BY <2>1, <3>1, <3>3, <4>1
        <4>2. CASE seen = first /\ image # other /\ history[first].from = image
          BY <2>1, <3>3, <4>2 DEF ImagesOf
        <4> QED BY <2>1, <4>1, <4>2
      <3> QED BY <1>3, <3>2, <3>3
    <2>3. other # image
      <3>1. other = image => seen = first
        BY DEF seen, first
      <3>2. ~(first < first)
        BY <1>1, <1>2
      <3> QED BY <2>1, <3>1, <3>2
    <2> QED BY <2>1, <2>2, <2>3 DEF ImagesOf, image
  <1>5. IsFiniteSet({history[last].to}) /\ Cardinality({history[last].to}) = 1 /\ after \subseteq {history[last].to}
    BY <1>4, FS_Singleton
  <1> HIDE DEF after
  <1>6. Cardinality(after) <= 1 /\ Cardinality(after) \in Nat
    BY <1>5, FS_Subset, FS_CardinalityType
  <1> QED BY <1>6 DEF KeptImages

\* A cleanup removes candidates that no container runs.
LEMMA Removes ==
  ASSUME Typed, NEW p \in Callers, NEW S, RemoveImages(p, S),
         NEW s \in Services, NEW image \in local[s] \ local'[s]
  PROVE  image \in Removable(s)
  BY DEF RemoveImages, Typed, TypeOK, ContainerTypes

\* cleanupPreviewLocked: what a cleanup deletes is neither what a service runs
\* nor, where it only moved on to new images, what it ran before.
THEOREM PreviousStays == Spec => CleanupSparesPrevious
  <1> DEFINE Spares == \A s \in Services : \A image \in local[s] \ local'[s] : image \in Removable(s)
  <1>1. Typed /\ [Next]_vars => [Spares]_vars
    <2> SUFFICES ASSUME Typed, Next PROVE Spares
      OBVIOUS
    <2>0. local \in [Services -> SUBSET Images]
      BY DEF Typed, TypeOK, ContainerTypes
    <2>1. ASSUME \A s \in Services : local[s] \subseteq local'[s] PROVE Spares
      BY <2>1
    <2>2. ASSUME UNCHANGED local PROVE Spares
      BY <2>2
    <2>3. ASSUME NEW p \in Callers, CleanupAfterSuccess(p) \/ Sweep(p) PROVE Spares
      <3>1. UNCHANGED local \/ \E S : RemoveImages(p, S)
        BY <2>3 DEF CleanupAfterSuccess, Sweep
      <3> QED BY <2>2, <3>1, Removes
    <2> HIDE DEF Spares
    <2>4. ASSUME NEW p \in Callers, Call(p) PROVE Spares
      BY <2>2, <2>4 DEF Call, StartUpdate, StartCheck, RunManualCleanup, RunExclusive, Enter,
                        ReserveForControlPlane, containers
    <2>5. ASSUME NEW p \in Callers, Pull(p) \/ \E s \in Services : CheckService(p, s) PROVE Spares
      <3>1. UNCHANGED local \/ \E s, image : local' = [local EXCEPT ![s] = @ \cup {image}]
        BY <2>5 DEF Pull, CheckService
      <3> QED BY <2>0, <2>1, <2>2, <3>1
    <2>6. ASSUME NEW p \in Callers, Work(p), ~CleanupAfterSuccess(p), ~Sweep(p), ~Pull(p),
                 ~\E s \in Services : CheckService(p, s)
          PROVE  Spares
      <3>1. ASSUME NEW newState, NEW newHistory, Leave(p, newState, newHistory) PROVE UNCHANGED local
        BY <3>1 DEF Leave, containers
      <3>2. CASE Finish(p) \/ Fail(p) \/ CheckDone(p) \/ CleanupDone(p) \/ ExclusiveDone(p) \/ Release(p)
        BY <2>2, <3>1, <3>2 DEF Finish, Fail, CheckDone, CleanupDone, ExclusiveDone, Release, containers
      <3>3. CASE Inspect(p) \/ BackupData(p) \/ Attest(p) \/ Migrate(p) \/ Select(p) \/ ComposeUp(p) \/ Verify(p)
        BY <2>2, <3>3 DEF Inspect, BackupData, Attest, Migrate, Select, ComposeUp, Verify, containers
      <3>4. CASE RestoreOwnership(p) \/ SelectOld(p) \/ ComposeUpOld(p) \/ RestoreData(p) \/ VerifyRollback(p)
        BY <2>2, <3>4 DEF RestoreOwnership, SelectOld, ComposeUpOld, RestoreData, VerifyRollback, containers
      <3>5. CASE RecordHistory(p) \/ AttachCleanup(p) \/ EnforceBackupRetention(p) \/ SetServiceResult(p)
        BY <2>2, <3>5 DEF RecordHistory, AttachCleanup, EnforceBackupRetention, SetServiceResult, containers
      <3> QED BY <2>6, <3>2, <3>3, <3>4, <3>5 DEF Work, UpdateStep, OtherStep
    <2>7. ASSUME NEW s \in Services, NEW image \in Images, RecreateElsewhere(s, image) PROVE Spares
      BY <2>0, <2>1, <2>7 DEF RecreateElsewhere
    <2>8. CASE StatusSynced \/ Restart \/ \E n \in MinRetention .. MaxRetention : SetBackupRetention(n)
      BY <2>2, <2>8 DEF StatusSynced, Restart, SetBackupRetention, containers
    <2> QED BY <2>3, <2>4, <2>5, <2>6, <2>7, <2>8 DEF Next
  <1>2. Typed /\ [Spares]_vars =>
          [\A s \in Services : \A image \in local[s] \ local'[s] :
             /\ image # running[s]
             /\ Successes(history, s) # {} /\ WentForward(s) =>
                  image # history[LastSuccess(s)].from]_vars
    <2> SUFFICES ASSUME Typed, Spares, NEW s \in Services, NEW image \in local[s] \ local'[s]
                 PROVE  /\ image # running[s]
                        /\ Successes(history, s) # {} /\ WentForward(s) =>
                             image # history[LastSuccess(s)].from
      OBVIOUS
    <2>1. image \in Candidates(history, s) /\ image # running[s]
      BY DEF Removable
    <2>2. history \in Seq(Entry)
      BY DEF Typed, TypeOK, StatusTypes
    <2> QED BY <2>1, <2>2, PreviousSpared
  <1> HIDE DEF Spares
  <1> QED BY <1>1, <1>2, TypedInit, TypedNext, PTL DEF Spec, CleanupSparesPrevious

-----------------------------------------------------------------------------
(* What retention leaves *)

\* A set of restore points taken at different times has as many of its newest
\* ones as are asked for, at most.
LEMMA NewestCount ==
  ASSUME NEW points, IsFiniteSet(points), \A b \in points : b.at \in Nat,
         \A b, c \in points : b.at = c.at => b = c, NEW n \in Nat
  PROVE  IsFiniteSet(Newest(points, n)) /\ Cardinality(Newest(points, n)) <= n
  <1> DEFINE Later(b) == {c \in points : c.at > b.at}
             rank == [b \in Newest(points, n) |-> Cardinality(Later(b))]
  <1>1. \A b \in points : IsFiniteSet(Later(b)) /\ Cardinality(Later(b)) \in Nat
    BY FS_Subset, FS_CardinalityType
  <1>2. Newest(points, n) \subseteq points /\ \A b \in Newest(points, n) : Cardinality(Later(b)) < n
    BY DEF Newest
  <1>3. ASSUME NEW b \in points, NEW c \in points, b.at > c.at PROVE Cardinality(Later(b)) < Cardinality(Later(c))
    <2>1. Later(b) \subseteq Later(c)
      <3>1. ASSUME NEW d \in points, d.at > b.at PROVE d.at > c.at
        BY <1>3, <3>1
      <3> QED BY <3>1
    <2>2. b \in Later(c) /\ b \notin Later(b)
      BY <1>3
    <2> HIDE DEF Later
    <2>3. Cardinality(Later(b)) <= Cardinality(Later(c)) /\ Cardinality(Later(b)) # Cardinality(Later(c))
      BY <1>1, <2>1, <2>2, FS_Subset
    <2> QED BY <1>1, <2>3
  <1> HIDE DEF Later
  <1>4. rank \in [Newest(points, n) -> 0 .. n - 1]
    BY <1>1, <1>2
  <1>5. ASSUME NEW b \in Newest(points, n), NEW c \in Newest(points, n), rank[b] = rank[c] PROVE b = c
    <2>1. Cardinality(Later(b)) = Cardinality(Later(c)) /\ Cardinality(Later(b)) \in Nat
      BY <1>1, <1>2, <1>5
    <2>2. ~(b.at > c.at) /\ ~(c.at > b.at)
      BY <1>2, <1>3, <2>1
    <2>3. b.at = c.at
      BY <1>2, <2>2
    <2> QED BY <1>2, <2>3
  <1>6. rank \in Injection(Newest(points, n), 0 .. n - 1)
    BY <1>4, <1>5 DEF Injection, IsInjective
  <1>7. IsFiniteSet(0 .. n - 1) /\ Cardinality(0 .. n - 1) = n
    BY FS_Interval
  <1> HIDE DEF rank
  <1> QED BY <1>6, <1>7, FS_Injection

\* The labels at which an update may have a verdict.
Ending == {"record", "cleanup", "attach", "prune", "result", "end", "fail"}

\* Restore points are taken one at a time, and once an update with a verdict is
\* past its pruning there are not too many.
Points == \A s \in Services : IsFiniteSet(backups[s]) /\ \A b, c \in backups[s] : b.at = c.at => b = c
Within == backupError \/ \A s \in Services : Cardinality(backups[s]) <= retention
Timely(p) ==
  /\ pc[p] \in {"inspect", "backup"} => \A s \in Services : \A b \in backups[s] : b.at < used.ops
  /\ job[p].verdict # "none" => pc[p] \in Ending
  /\ job[p].verdict # "none" /\ pc[p] \in {"result", "end", "fail"} => Within
Retained == Points /\ \A p \in Callers : Timely(p)

\* At first there is no restore point and no verdict.
LEMMA RetainedInit == Init => Retained
  BY FS_EmptySet, NoJobFields DEF Init, Retained, Points, Timely

\* An update without a verdict, or one that has yet to prune, owes nothing.
LEMMA TimelyMove ==
  ASSUME NEW p, \/ pc'[p] \in {"record", "cleanup", "attach", "prune"}
                \/ job'[p].verdict = "none" /\ pc'[p] \notin {"inspect", "backup"}
  PROVE  (Timely(p))'
  BY DEF Timely, Ending

\* The steps of an update up to its verdict, from the pull on.
LEMMA TimelyForward ==
  ASSUME Recoverable, NEW p \in Callers, Timely(p),
         Pull(p) \/ Attest(p) \/ Migrate(p) \/ Select(p) \/ ComposeUp(p) \/ Verify(p)
  PROVE  (Timely(p))'
  <1>1. /\ pc \in [Callers -> Label] /\ job \in [Callers -> Job] /\ job[p] \in Job
        /\ pc[p] \in {"pull", "attest", "migrate", "select", "up", "verify"}
    BY DEF Recoverable, Inv, Typed, TypeOK, CallerTypes, Pull, Attest, Migrate, Select, ComposeUp, Verify, At
  <1>2. job[p].verdict = "none"
    BY <1>1 DEF Timely, Ending
  <1>3. CASE Goto(p, "record") \/ Goto(p, "prune")
    BY <1>1, <1>3, TimelyMove DEF Goto
  <1>4. CASE UNCHANGED job /\ \E label \in {"migrate", "up", "verify", "rbOwner"} : Goto(p, label)
    BY <1>1, <1>2, <1>4, TimelyMove DEF Goto
  <1>5. CASE Goto(p, "attest") /\ \E image : SetJob(p, [job[p] EXCEPT !.cand = image])
    <2>1. \A image : [job[p] EXCEPT !.cand = image].verdict = "none"
      BY <1>1, <1>2 DEF Job
    <2>2. pc'[p] = "attest" /\ job'[p].verdict = "none"
      BY <1>1, <1>5, <2>1 DEF Goto, SetJob
    <2> QED BY <2>2, TimelyMove
  <1>6. CASE Goto(p, "select") /\ \E changed, prev : SetJob(p, [job[p] EXCEPT !.changed = changed, !.prev = prev])
    <2>1. \A changed, prev : [job[p] EXCEPT !.changed = changed, !.prev = prev].verdict = "none"
      BY <1>1, <1>2 DEF Job
    <2>2. pc'[p] = "select" /\ job'[p].verdict = "none"
      BY <1>1, <1>6, <2>1 DEF Goto, SetJob
    <2> QED BY <2>2, TimelyMove
  <1>7. CASE Pull(p)
    BY <1>3, <1>5, <1>7 DEF Pull
  <1>8. CASE Migrate(p)
    BY <1>3, <1>6, <1>8 DEF Migrate
  <1> QED BY <1>3, <1>4, <1>7, <1>8 DEF Attest, Select, ComposeUp, Verify

\* ... of a rollback, and from the verdict to the pruning.
LEMMA TimelyBack ==
  ASSUME Recoverable, NEW p \in Callers, Timely(p),
         \/ RestoreOwnership(p) \/ SelectOld(p) \/ ComposeUpOld(p) \/ RestoreData(p) \/ VerifyRollback(p)
         \/ RecordHistory(p) \/ CleanupAfterSuccess(p) \/ AttachCleanup(p)
  PROVE  (Timely(p))'
  <1>1. pc \in [Callers -> Label] /\ job \in [Callers -> Job]
    BY DEF Recoverable, Inv, Typed, TypeOK, CallerTypes
  <1>2. CASE \E label \in {"record", "cleanup", "attach", "prune"} : Goto(p, label)
    BY <1>1, <1>2, TimelyMove DEF Goto
  <1>3. CASE /\ pc[p] \in {"rbOwner", "rbSelect", "rbUp", "rbData", "rbVerify"}
             /\ UNCHANGED job /\ \E label \in {"rbSelect", "rbUp", "rbData", "rbVerify"} : Goto(p, label)
    <2>1. job[p].verdict = "none"
      BY <1>3 DEF Timely, Ending
    <2> QED BY <1>1, <1>3, <2>1, TimelyMove DEF Goto
  <1> QED BY <1>2, <1>3 DEF RestoreOwnership, SelectOld, ComposeUpOld, RestoreData, VerifyRollback, RollbackFails,
                            RecordHistory, CleanupAfterSuccess, AttachCleanup, At

\* The other callers of a step inside an operation are idle.
LEMMA TimelyOthers ==
  ASSUME Recoverable, Recoverable', NEW q \in Callers, pc'[q] \notin UpdateLabel PROVE (Timely(q))'
  <1>1. job'[q].verdict = "none"
    BY DEF Recoverable, Doing
  <1> QED BY <1>1 DEF Timely, UpdateLabel

\* Steps that leave the restore points alone.
LEMMA PointsKept == ASSUME Points, UNCHANGED backups PROVE Points'
  BY DEF Points

\* Steps that only remove restore points.
LEMMA PointsPruned ==
  ASSUME Points, \A s \in Services : backups'[s] \subseteq backups[s] PROVE Points'
  <1>1. ASSUME NEW s \in Services PROVE IsFiniteSet(backups'[s])
    BY FS_Subset DEF Points
  <1> QED BY <1>1 DEF Points

\* The first steps of an update: it has found the service and has no restore
\* point yet, then it has one.
LEMMA RetainedInspect ==
  ASSUME Recoverable, Retained, NEW p \in Callers, Inspect(p) PROVE (Timely(p))' /\ Points'
  <1>1. pc \in [Callers -> Label]
    BY DEF Recoverable, Inv, Typed, TypeOK, CallerTypes
  <1>2. job \in [Callers -> Job]
    BY DEF Recoverable, Inv, Typed, TypeOK, CallerTypes
  <1>3. /\ pc \in [Callers -> Label] /\ job \in [Callers -> Job] /\ job[p] \in Job
        /\ pc[p] = "inspect"
    BY DEF Recoverable, Inv, Typed, TypeOK, CallerTypes, Inspect, At
  <1>4. job[p].verdict = "none"
    BY <1>3 DEF Retained, Timely, Ending
  <1>5. UNCHANGED backups /\ \A s \in Services : \A b \in backups'[s] : b.at < used'.ops
    <2>1. UNCHANGED backups /\ used'.ops = used.ops
      BY InnerOps DEF Recoverable, Inspect, InnerStep
    <2>2. \A s \in Services : \A b \in backups[s] : b.at < used.ops
      BY <1>3 DEF Retained, Timely
    <2> QED BY <2>1, <2>2
  <1>6. Points'
    BY <1>5, PointsKept DEF Retained
  <1>7. CASE Goto(p, "fail") /\ UNCHANGED job
    <2>1. pc'[p] = "fail"
      BY <1>1, <1>7 DEF Goto
    <2>2. job'[p].verdict = "none"
      BY <1>4, <1>7
    <2> QED BY <1>6, <1>5, <2>1, <2>2, TimelyMove
  <1>8. CASE Goto(p, "backup") /\ \E old, base : SetJob(p, [job[p] EXCEPT !.old = old, !.base = base])
    <2>1. \A old, base : [job[p] EXCEPT !.old = old, !.base = base].verdict = "none"
      BY <1>3, <1>4 DEF Job
    <2>2. pc'[p] = "backup"
      BY <1>1, <1>8 DEF Goto
    <2>3. PICK old, base : SetJob(p, [job[p] EXCEPT !.old = old, !.base = base])
      BY <1>8
    <2>4. job'[p] = [job[p] EXCEPT !.old = old, !.base = base]
      BY <1>2, <2>3 DEF SetJob
    <2>5. job'[p].verdict = "none"
      BY <2>1, <2>4
    <2> QED BY <1>6, <1>5, <2>2, <2>5 DEF Timely
  <1> QED BY <1>7, <1>8, <1>6 DEF Inspect

\* A restore point is stamped with the operation it belongs to, so no other one
\* of the service has its time.
LEMMA RetainedBackup ==
  ASSUME Recoverable, Retained, NEW p \in Callers, BackupData(p) PROVE (Timely(p))' /\ Points'
  <1>1. /\ pc \in [Callers -> Label] /\ job \in [Callers -> Job] /\ job[p] \in Job
        /\ backups \in [Services -> SUBSET Backup] /\ pc[p] = "backup"
    BY DEF Recoverable, Inv, Typed, TypeOK, CallerTypes, BackupTypes, BackupData, At
  <1>2. job[p].verdict = "none" /\ \A s \in Services : \A b \in backups[s] : b.at < used.ops
    BY <1>1 DEF Retained, Timely, Ending
  <1>3. CASE Goto(p, "fail") /\ UNCHANGED <<backups, job>>
    BY <1>1, <1>2, <1>3, TimelyMove, PointsKept DEF Goto, Retained
  <1>4. CASE ~(Goto(p, "fail") /\ UNCHANGED <<backups, job>>)
    <2> DEFINE s == job[p].svc
               point == [at |-> used.ops, data |-> data[s]]
    <2>1. /\ Goto(p, "pull") /\ SetJob(p, [job[p] EXCEPT !.at = used.ops])
          /\ backups' = [backups EXCEPT ![s] = @ \cup {point}]
      BY <1>4 DEF BackupData
    <2>2. pc'[p] = "pull" /\ job'[p].verdict = "none"
      <3>1. \A at : [job[p] EXCEPT !.at = at].verdict = "none"
        BY <1>1, <1>2 DEF Job
      <3> QED BY <1>1, <2>1, <3>1 DEF Goto, SetJob
    <2>3. point.at = used.ops
      OBVIOUS
    <2> HIDE DEF point, s
    <2>4. used.ops \in Nat /\ \A t \in Services : \A b \in backups[t] : b.at \in Nat /\ b.at # used.ops
      <3>1. used.ops \in Nat /\ \A t \in Services : \A b \in backups[t] : b.at \in Nat
        BY <1>1 DEF Backup, Recoverable, Inv, Typed, TypeOK, GhostTypes, Budget
      <3> QED BY <1>2, <3>1
    <2>5. ASSUME NEW t \in Services
          PROVE  IsFiniteSet(backups'[t]) /\ \A b, c \in backups'[t] : b.at = c.at => b = c
      <3>1. IsFiniteSet(backups[t]) /\ \A b, c \in backups[t] : b.at = c.at => b = c
        BY DEF Retained, Points
      <3>2. CASE t = s
        <4>1. backups'[t] = backups[t] \cup {point}
          BY <1>1, <2>1, <3>2
        <4>2. IsFiniteSet(backups'[t])
          BY <3>1, <4>1, FS_AddElement
        <4>3. ASSUME NEW b \in backups'[t], NEW c \in backups'[t], b.at = c.at PROVE b = c
          BY <2>3, <2>4, <3>1, <4>1, <4>3
        <4> QED BY <4>2, <4>3
      <3>3. CASE t # s
        <4>1. backups'[t] = backups[t]
          BY <1>1, <2>1, <3>3
        <4> QED BY <3>1, <4>1
      <3> QED BY <3>2, <3>3
    <2> QED BY <2>2, <2>5, TimelyMove DEF Points
  <1> QED BY <1>3, <1>4

\* enforceBackupRetention, and the result after it.
LEMMA RetainedPrune ==
  ASSUME Recoverable, Retained, NEW p \in Callers, EnforceBackupRetention(p) PROVE (Timely(p))' /\ Points'
  <1>1. /\ pc \in [Callers -> Label] /\ backups \in [Services -> SUBSET Backup] /\ retention \in Nat
        /\ UNCHANGED <<job, retention>>
    BY ConstantsAssumption
    DEF ConstantsAssumption, Recoverable, Inv, Typed, TypeOK, CallerTypes, BackupTypes, EnforceBackupRetention
  <1>2. pc'[p] \in {"result", "fail"}
    BY <1>1 DEF EnforceBackupRetention, Goto
  <1>3. Points'
    BY PointsPruned, PrunedSubset DEF EnforceBackupRetention, Retained
  <1>4. Within'
    <2>1. CASE backups' = Pruned(retention)
      <3>1. ASSUME NEW s \in Services PROVE Cardinality(backups'[s]) <= retention'
        <4>1. \A b \in backups[s] : b.at \in Nat
          BY <1>1 DEF Backup
        <4>2. backups'[s] = Newest(backups[s], retention)
          BY <2>1 DEF Pruned
        <4> QED BY <1>1, <4>1, <4>2, NewestCount DEF Retained, Points
      <3> QED BY <3>1 DEF Within
    <2>2. CASE backupError'
      BY <2>2 DEF Within
    <2> QED BY <2>1, <2>2 DEF EnforceBackupRetention
  <1> QED BY <1>2, <1>3, <1>4 DEF Timely, Ending

\* The verdict of an update was reached with as many restore points as are kept.
LEMMA RetainedResult ==
  ASSUME Recoverable, Retained, NEW p \in Callers, SetServiceResult(p) PROVE (Timely(p))' /\ Points'
  <1>1. /\ pc[p] = "result" /\ pc'[p] = "end" /\ UNCHANGED <<job, backups, retention, backupError>>
    BY DEF SetServiceResult, At, Goto, KeepRetention, Recoverable, Inv, Typed, TypeOK, CallerTypes
  <1>2. Points'
    BY <1>1, PointsKept DEF Retained
  <1>3. (Timely(p))'
    BY <1>1 DEF Retained, Timely, Within, Ending
  <1> QED BY <1>2, <1>3

\* Every step inside an operation.
LEMMA RetainedInner ==
  ASSUME Recoverable, Recoverable', Retained, NEW p \in Callers, InnerStep(p) PROVE Retained'
  <1>1. ASSUME NEW q \in Callers \ {p} PROVE (Timely(q))'
    <2>1. pc'[q] = "idle"
      BY OthersStayIdle DEF Recoverable, OthersIdle
    <2> QED BY <2>1, TimelyOthers DEF UpdateLabel
  <1>2. (Timely(p))'
    <2>1. CASE Sweep(p) \/ \E s \in Services : CheckService(p, s)
      <3>1. pc'[p] \in {"swept", "check"}
        BY <2>1 DEF Sweep, CheckService, Goto, At, Recoverable, Inv, Typed, TypeOK, CallerTypes
      <3> QED BY <3>1, TimelyOthers DEF UpdateLabel
    <2> QED BY <2>1, TimelyForward, TimelyBack, RetainedInspect, RetainedBackup, RetainedPrune, RetainedResult
            DEF InnerStep, Retained
  <1>3. Points'
    <2>1. CASE UNCHANGED backups
      BY <2>1, PointsKept DEF Retained
    <2> QED BY <2>1, RetainedBackup, RetainedPrune
            DEF InnerStep, Inspect, Pull, Attest, Migrate, Select, ComposeUp, Verify, RestoreOwnership, SelectOld,
                ComposeUpOld, RestoreData, VerifyRollback, RecordHistory, CleanupAfterSuccess, AttachCleanup,
                SetServiceResult, Sweep, CheckService
  <1> QED BY <1>1, <1>2, <1>3 DEF Retained

\* A call that is let in finds only restore points of operations before it.
LEMMA RetainedCall ==
  ASSUME Recoverable, Recoverable', Retained, NEW p \in Callers, Call(p) PROVE Retained'
  <1>1. UNCHANGED backups /\ used'.ops = used.ops + 1
    BY DEF Call, StartUpdate, StartCheck, RunManualCleanup, RunExclusive, Enter,
           ReserveForControlPlane, files, Recoverable, Inv, Typed, TypeOK, GhostTypes, Budget
  <1>2. \A s \in Services : \A b \in backups'[s] : b.at < used'.ops
    <2>1. /\ used.ops \in Nat /\ backups \in [Services -> SUBSET Backup]
          /\ \A s \in Services : \A b \in backups[s] : b.at \in Nat /\ b.at <= used.ops
      BY DEF Recoverable, Past, Inv, Typed, TypeOK, GhostTypes, BackupTypes, Budget, Backup
    <2> QED BY <1>1, <2>1
  <1>3. pc \in [Callers -> Label] /\ job \in [Callers -> Job] /\ \A q \in Callers : pc[q] = "idle"
    BY DEF Call, StartUpdate, StartCheck, RunManualCleanup, RunExclusive, Enter,
           ReserveForControlPlane, Busy, Recoverable, Inv, Typed, TypeOK, CallerTypes, ExclusiveOperation, At
  <1>4. ASSUME NEW q \in Callers PROVE (Timely(q))'
    <2>1. CASE pc'[q] \notin UpdateLabel
      BY <2>1, TimelyOthers
    <2>2. CASE \E s \in Services : StartUpdate(p, s)
      <3>1. PICK s \in Services : Goto(p, "inspect") /\ SetJob(p, [NoJob EXCEPT !.svc = s])
        BY <2>2 DEF StartUpdate, Enter
      <3>2. CASE q = p
        <4>1. job'[q].verdict = "none" /\ pc'[q] = "inspect"
          BY <1>3, <3>1, <3>2, NoJobFields DEF SetJob, Goto
        <4> QED BY <1>2, <4>1 DEF Timely
      <3>3. CASE q # p
        <4>1. pc'[q] = "idle"
          BY <1>3, <3>1, <3>3 DEF Goto
        <4> QED BY <4>1, TimelyOthers DEF UpdateLabel
      <3> QED BY <3>2, <3>3
    <2>3. CASE \E label \in {"check", "sweep", "exclusive", "remote"} : Goto(p, label)
      <3>1. pc'[q] \in {"idle", "check", "sweep", "exclusive", "remote"}
        BY <1>3, <2>3 DEF Goto
      <3> QED BY <3>1, TimelyOthers DEF UpdateLabel
    <2> QED BY <2>2, <2>3 DEF Call, StartCheck, RunManualCleanup, RunExclusive, Enter, ReserveForControlPlane
  <1> QED BY <1>1, <1>3, <1>4, PointsKept DEF Retained

\* With nobody updating anything it is enough that no restore point is added.
LEMMA RetainedQuiet ==
  ASSUME Recoverable, Recoverable', Retained, \A q \in Callers : pc'[q] \notin UpdateLabel,
         \A s \in Services : backups'[s] \subseteq backups[s]
  PROVE  Retained'
  BY PointsPruned, TimelyOthers DEF Retained

\* A container recreated from outside changes neither verdicts nor restore points.
LEMMA RetainedRecreate ==
  ASSUME Recoverable, Retained, NEW s \in Services, NEW image \in Images, RecreateElsewhere(s, image)
  PROVE  Retained'
  <1>1. UNCHANGED <<pc, backups, retention, backupError>> /\ used'.ops = used.ops
    BY DEF RecreateElsewhere, KeepRetention, Recoverable, Inv, Typed, TypeOK, GhostTypes, Budget
  <1>2. ASSUME NEW q \in Callers PROVE (Timely(q))'
    <2>1. job'[q].verdict = job[q].verdict
      <3>1. job'[q] \in {[job[q] EXCEPT !.spoiled = TRUE], job[q]} /\ job[q] \in Job
        BY DEF RecreateElsewhere, Recoverable, Inv, Typed, TypeOK, CallerTypes
      <3> QED BY <3>1 DEF Job
    <2> QED BY <1>1, <2>1 DEF Retained, Timely, Within
  <1> QED BY <1>1, <1>2, PointsKept DEF Retained

\* Retained is inductive.
LEMMA RetainedNext == Recoverable /\ Retained /\ [Next]_vars => Retained'
  <1> SUFFICES ASSUME Recoverable, Retained, [Next]_vars PROVE Retained'
    OBVIOUS
  <1>0. Recoverable'
    BY RecoverableNext
  <1>1. ASSUME NEW p \in Callers, Call(p) PROVE Retained'
    BY <1>0, <1>1, RetainedCall
  <1>2. ASSUME NEW p \in Callers, Work(p) PROVE Retained'
    <2>1. ASSUME Goto(p, "idle"), UNCHANGED backups, pc[p] # "idle" PROVE Retained'
      <3>1. \A q \in Callers : pc'[q] = "idle"
        BY <2>1 DEF Goto, Recoverable, Inv, Typed, TypeOK, CallerTypes, ExclusiveOperation, At
      <3> QED BY <1>0, <2>1, <3>1, RetainedQuiet DEF UpdateLabel
    <2>2. ASSUME NEW newState, NEW newHistory, pc[p] # "idle", Leave(p, newState, newHistory) PROVE Retained'
      BY <2>1, <2>2 DEF Leave
    <2>3. CASE Finish(p) \/ Fail(p) \/ CheckDone(p) \/ CleanupDone(p) \/ ExclusiveDone(p)
      BY <2>2, <2>3 DEF Finish, Fail, CheckDone, CleanupDone, ExclusiveDone, At
    <2>4. CASE Release(p)
      BY <2>1, <2>4 DEF Release, At, files
    <2> QED BY <1>0, <1>2, <2>3, <2>4, RetainedInner DEF Work, UpdateStep, OtherStep, InnerStep
  <1>3. CASE StatusSynced \/ \E n \in MinRetention .. MaxRetention : SetBackupRetention(n)
    <2>1. \A q \in Callers : pc'[q] = "idle"
      BY <1>3 DEF StatusSynced, SetBackupRetention, Busy, Recoverable, Inv, ExclusiveOperation, At
    <2>2. \A s \in Services : backups'[s] \subseteq backups[s]
      BY <1>3, PrunedSubset DEF StatusSynced, SetBackupRetention
    <2> QED BY <1>0, <2>1, <2>2, RetainedQuiet DEF UpdateLabel
  <1>4. ASSUME NEW s \in Services, NEW image \in Images, RecreateElsewhere(s, image) PROVE Retained'
    BY <1>4, RetainedRecreate
  <1>5. CASE Restart
    <2>1. (\A q \in Callers : pc'[q] = "idle") /\ UNCHANGED backups
      BY <1>5 DEF Restart
    <2> QED BY <1>0, <2>1, RetainedQuiet DEF UpdateLabel
  <1>6. CASE UNCHANGED vars
    BY <1>6 DEF vars, memory, files, Retained, Points, Timely, Within
  <1> QED BY <1>1, <1>2, <1>3, <1>4, <1>5, <1>6 DEF Next

\* enforceBackupRetention before finish and fail: nobody sees the end of an
\* update with more restore points than are to be kept, unless pruning failed
\* and backupError says so.
THEOREM PrunedInTime == Spec => RetentionBeforeTerminal
  <1> DEFINE Step ==
        \A p \in Callers :
          job[p].verdict # "none" /\ ~At(p, "idle") /\ At(p, "idle")' /\ ~Crash =>
            backupError' \/ \A s \in Services : Cardinality(backups'[s]) <= retention'
  <1>1. Recoverable /\ Retained /\ [Next]_vars => [Step]_vars
    <2> SUFFICES ASSUME Recoverable, Retained, Next,
                        NEW p \in Callers, job[p].verdict # "none", pc[p] # "idle", pc'[p] = "idle", ~Crash
                 PROVE  Within'
      BY DEF At, Within
    <2>1. pc[p] \in Ending /\ (pc[p] \in {"result", "end", "fail"} => Within)
      BY DEF Retained, Timely
    <2>2. \A q \in Callers \ {p} : pc[q] = "idle"
      BY DEF Recoverable, Inv, ExclusiveOperation, At
    <2>3. Busy
      BY <2>1 DEF Recoverable, Inv, ExclusiveOperation, Busy, At, Ending
    <2>4. ASSUME NEW q \in Callers, Work(q) PROVE Within'
      <3>1. CASE InnerStep(q)
        BY <3>1, <2>2, InnerFrame DEF Quiet, Recoverable, Inv, Typed, TypeOK, CallerTypes
      <3>2. CASE Finish(q) \/ Fail(q)
        <4>1. q = p
          BY <2>2, <3>2 DEF Finish, Fail, At
        <4> QED BY <2>1, <3>2, <4>1 DEF Finish, Fail, At, Leave, KeepRetention, Within
      <3>3. CASE CheckDone(q) \/ CleanupDone(q) \/ ExclusiveDone(q) \/ Release(q)
        <4>1. q = p
          BY <2>2, <3>3 DEF CheckDone, CleanupDone, ExclusiveDone, Release, At
        <4> QED BY <2>1, <3>3, <4>1 DEF CheckDone, CleanupDone, ExclusiveDone, Release, At, Ending
      <3> QED BY <2>4, <3>1, <3>2, <3>3 DEF Work, UpdateStep, OtherStep, InnerStep
    <2>5. ASSUME NEW q \in Callers, Call(q) PROVE FALSE
      BY <2>3, <2>5 DEF Call, StartUpdate, StartCheck, RunManualCleanup, RunExclusive, Enter, ReserveForControlPlane
    <2>6. ASSUME UNCHANGED pc PROVE FALSE
      BY <2>6
    <2>7. ASSUME Restart PROVE FALSE
      <3>1. used \in Budget
        BY DEF Recoverable, Inv, Typed, TypeOK, GhostTypes
      <3>2. \A n, m : /\ [used EXCEPT !.crashes = n].crashes = n
                      /\ [used EXCEPT !.crashes = n, !.faults = m].crashes = n
        BY <3>1 DEF Budget
      <3>3. used'.crashes = used.crashes + 1
        <4>1. \/ used' = [used EXCEPT !.crashes = @ + 1]
              \/ \E n : used' = [used EXCEPT !.crashes = @ + 1, !.faults = @ + n]
          BY <2>7 DEF Restart
        <4> QED BY <3>2, <4>1, Zenon
      <3> QED BY <3>3 DEF Crash
    <2> QED BY <2>4, <2>5, <2>6, <2>7 DEF Next, StatusSynced, SetBackupRetention, RecreateElsewhere
  <1>2. [Step]_vars =>
          [\A p \in Callers :
             /\ job[p].verdict # "none"
             /\ ~At(p, "idle") /\ At(p, "idle")'
             /\ ~Crash
             => backupError' \/ \A s \in Services : Cardinality(backups'[s]) <= retention']_vars
    OBVIOUS
  <1> HIDE DEF Step
  <1> QED BY <1>1, <1>2, RecoverableInit, RecoverableNext, RetainedInit, RetainedNext, PTL
          DEF Spec, RetentionBeforeTerminal

=============================================================================
