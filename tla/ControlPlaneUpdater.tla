------------------------ MODULE ControlPlaneUpdater ------------------------
(***************************************************************************)
(* The rootguard-updater process (rootguard-updater/manager.go): it        *)
(* replaces Core and WebApp as a pair, because neither can replace itself. *)
(*                                                                         *)
(* One goroutine at a time works for the manager, so it has one program    *)
(* counter.  A step is a Docker command with the critical section next to  *)
(* it.  The whole update, its rollback included, runs under one 20 minute  *)
(* deadline, after which no Docker command starts any more (Expire).       *)
(*                                                                         *)
(* As in UpdateManager an image stands for its reference and its ID.  The  *)
(* history is cleaned up by the same rules as Core's, ImageRetention's.    *)
(* Nobody else recreates Core or WebApp while the model runs.              *)
(***************************************************************************)
EXTENDS Naturals, Sequences, FiniteSets, ImageRetention

CONSTANTS
  Order,           \* the specs in their order: Core, then WebApp
  Images, FirstImage,
  Signed,          \* images whose release attestation verifies
  Version,         \* release version of an image, 0 if it has none
  QuirkyCompose,   \* may "compose up" exit 0 without recreating a container?
  MaxHistory,      \* history entries kept (50 in the code)
  MaxOps,          \* bound of the model: operations started
  MaxFaults        \* and what goes wrong: failures, deadlines, crashes

Members == {Order[i] : i \in DOMAIN Order}

ASSUME ConstantsAssumption ==
  /\ Order \in Seq(Members) /\ Order # <<>> /\ Len(Order) = Cardinality(Members)
  /\ FirstImage \in Images /\ NoImage \notin Images
  /\ Version \in [Images -> Nat]
  /\ QuirkyCompose \in BOOLEAN
  /\ MaxHistory \in Nat \ {0}
  /\ MaxOps \in Nat /\ MaxFaults \in Nat

VARIABLES
  state, history, known,  \* status: State, History and the services' IDs
  disk,                   \* status.json
  override,               \* control-plane-images.yaml, NoImage before the first
  running, local,         \* each member's container, and its images on the host
  pc, job,                \* the goroutine
  used                    \* how much of each bound is spent

status     == <<state, history, known>>
containers == <<running, local>>
vars       == <<status, disk, override, containers, pc, job, used>>

MaybeImage == Images \cup {NoImage}
Pair       == [Members -> MaybeImage]
State      == {"idle", "checking", "updating", "failed"}
Verdict    == {"none", "no_change", "success", "rolled_back", "failed"}
Label      == {"idle", "check", "inspect", "pull", "attest", "compare", "override",
               "up", "verify", "rbOverride", "rbUp", "rbVerify", "record",
               "cleanup", "attach", "end", "fail"}
Identity   == [cur : MaybeImage, cand : MaybeImage]
Entry      == [outcome : Verdict \ {"none"}, from : Pair, to : Pair,
               removed : SUBSET (Members \X Images)]
Snapshot   == [state : State, history : Seq(Entry), known : [Members -> Identity]]
Job        == [next : Nat, old : Pair, cand : Pair, seen : [Members -> Identity],
               verdict : Verdict, removed : SUBSET (Members \X Images),
               expired : BOOLEAN, blind : BOOLEAN]

TypeOK ==
  /\ state \in State /\ history \in Seq(Entry) /\ known \in [Members -> Identity]
  /\ disk \in Snapshot
  /\ override \in Pair /\ running \in Pair
  /\ local \in [Members -> SUBSET Images]
  /\ pc \in Label /\ job \in Job
  /\ used \in [ops : Nat, faults : Nat]

-----------------------------------------------------------------------------
(* Shared operators *)

Absent  == [m \in Members |-> NoImage]
Unknown == [m \in Members |-> [cur |-> NoImage, cand |-> NoImage]]
NoJob   == [next |-> 1, old |-> Absent, cand |-> Absent, seen |-> Unknown,
            verdict |-> "none", removed |-> {}, expired |-> FALSE, blind |-> FALSE]

\* busyLocked
Busy == state \in {"checking", "updating"}

Spend(n) ==
  /\ used.faults + n <= MaxFaults
  /\ used' = [used EXCEPT !.faults = @ + n]

\* persistLocked with f failures: its error is dropped and nothing records it.
Persist(f) ==
  disk' = IF f = 0 THEN [state |-> state', history |-> history', known |-> known'] ELSE disk

\* A Docker command under the update's context: it fails when it fails, and
\* always once the deadline has passed.
Fails == IF job.expired THEN UNCHANGED used ELSE Spend(1)

Goto(label) == pc' = label
Keep == UNCHANGED <<status, disk>>

\* isOlderReleaseVersion, false when either version is not comparable.
Older(image, than) ==
  Version[image] # 0 /\ Version[than] # 0 /\ Version[image] < Version[than]

Recorded(entry) ==
  LET longer == <<entry>> \o history
  IN  IF Len(longer) > MaxHistory THEN SubSeq(longer, 1, MaxHistory) ELSE longer

\* The history as one member's, for ImageRetention.
HistoryOf(m) ==
  [i \in DOMAIN history |->
     [service |-> m, outcome |-> history[i].outcome, from |-> history[i].from[m],
      to |-> history[i].to[m], removed |-> history[i].removed]]

Removable(m) ==
  {image \in Candidates(HistoryOf(m), m) \cap local[m] : running[m] # image}

-----------------------------------------------------------------------------
Init ==
  /\ state = "idle" /\ history = <<>> /\ known = Unknown
  /\ disk = [state |-> "idle", history |-> <<>>, known |-> Unknown]
  /\ override = Absent
  /\ running = [m \in Members |-> FirstImage]
  /\ local = [m \in Members |-> {FirstImage}]
  /\ pc = "idle" /\ job = NoJob
  /\ used = [ops |-> 0, faults |-> 0]

\* start(): refused with errBusy, otherwise one goroutine. Which image a run
\* will be given, an override of the request or the static pin, is up to Pull.
Start(newState, label) ==
  /\ ~Busy
  /\ used.ops < MaxOps
  /\ state' = newState
  /\ UNCHANGED <<history, known>>
  /\ \E f \in {0, 1} :
       /\ Persist(f)
       /\ used.faults + f <= MaxFaults
       /\ used' = [used EXCEPT !.ops = @ + 1, !.faults = @ + f]
  /\ Goto(label)
  /\ job' = NoJob
  /\ UNCHANGED <<override, containers>>

StartCheck  == Start("checking", "check")
StartUpdate == Start("updating", "inspect")

\* The deadline of the operation's context passes.
Expire ==
  /\ pc # "idle" /\ ~job.expired
  /\ Spend(1)
  /\ job' = [job EXCEPT !.expired = TRUE]
  /\ Keep
  /\ UNCHANGED <<override, containers, pc>>

-----------------------------------------------------------------------------
(* update(): each member is resolved completely before the next one *)

Inspect ==
  LET m == Order[job.next] IN
  /\ pc = "inspect"
  /\ \/ /\ running[m] # NoImage /\ ~job.expired
        /\ job' = [job EXCEPT !.old[m] = running[m]]
        /\ Goto("pull")
        /\ UNCHANGED used
     \/ /\ \/ running[m] = NoImage /\ UNCHANGED used
           \/ Fails
        /\ Goto("fail")
        /\ UNCHANGED job
  /\ Keep
  /\ UNCHANGED <<override, containers>>

Pull_AnyVersion ==
  LET m == Order[job.next] IN
  /\ pc = "pull"
  /\ UNCHANGED status
  /\ \E f \in {0, 1} :
       /\ Persist(f)
       /\ ~job.expired /\ Spend(f)
       /\ \E image \in Images :
            /\ local' = [local EXCEPT ![m] = @ \cup {image}]
            /\ job' = [job EXCEPT !.cand[m] = image]
       /\ Goto("attest")
  /\ UNCHANGED <<override, running>>

\* progress, pull, inspectImage, and the refusal of an older release, which is
\* skipped in silence when one of the two versions cannot be read.
Pull ==
  LET m == Order[job.next] IN
  /\ pc = "pull"
  /\ UNCHANGED status
  /\ \E f \in {0, 1} :
       /\ Persist(f)
       /\ \/ /\ ~job.expired /\ Spend(f)
             /\ \E image \in Images :
                  /\ local' = [local EXCEPT ![m] = @ \cup {image}]
                  /\ job' = [job EXCEPT !.cand[m] = image]
                  /\ Goto(IF Older(image, job.old[m]) THEN "fail" ELSE "attest")
          \/ /\ ~job.expired /\ Spend(f + 1)
             /\ \E image \in Images :
                  /\ local' = [local EXCEPT ![m] = @ \cup {image}]
                  /\ job' = [job EXCEPT !.cand[m] = image, !.blind = TRUE]
             /\ Goto("attest")
          \/ /\ IF job.expired THEN Spend(f) ELSE Spend(f + 1)
             /\ Goto("fail")
             /\ UNCHANGED <<local, job>>
  /\ UNCHANGED <<override, running>>

Attest_NotGating ==
  /\ pc = "attest"
  /\ UNCHANGED status
  /\ \E f \in {0, 1} : Persist(f) /\ Spend(f)
  /\ job' = [job EXCEPT !.next = @ + 1]
  /\ Goto(IF job.next = Len(Order) THEN "compare" ELSE "inspect")
  /\ UNCHANGED <<override, containers>>

Attest ==
  LET m == Order[job.next] IN
  /\ pc = "attest"
  /\ UNCHANGED status
  /\ \E f \in {0, 1} :
       /\ Persist(f)
       /\ \/ /\ ~job.expired /\ job.cand[m] \in Signed
             /\ Spend(f)
             /\ job' = [job EXCEPT !.next = @ + 1]
             /\ Goto(IF job.next = Len(Order) THEN "compare" ELSE "inspect")
          \/ /\ IF job.expired \/ job.cand[m] \notin Signed THEN Spend(f) ELSE Spend(f + 1)
             /\ Goto("fail")
             /\ UNCHANGED job
  /\ UNCHANGED <<override, containers>>

\* Nothing to do only if neither member changes.
Compare ==
  /\ pc = "compare"
  /\ IF job.cand = job.old
       THEN Goto("record") /\ job' = [job EXCEPT !.verdict = "no_change"]
       ELSE Goto("override") /\ UNCHANGED job
  /\ Keep
  /\ UNCHANGED <<override, containers, used>>

\* progress and writeOverride, which may fail before or after its rename.
WriteOverride(pair, otherwise, next) ==
  /\ UNCHANGED status
  /\ \E f \in {0, 1} :
       /\ Persist(f)
       /\ \/ override' = pair /\ Goto(next) /\ UNCHANGED job /\ Spend(f)
          \/ override' \in {override, pair} /\ otherwise /\ Spend(f + 1)
  /\ UNCHANGED containers

Abort == Goto("fail") /\ UNCHANGED job

Override == pc = "override" /\ WriteOverride(job.cand, Abort, "up")

\* Pairs half of which may be one, half the other.
Between(a, b) == {pair \in Pair : \A m \in Members : pair[m] \in {a[m], b[m]}}

\* "compose up -d --no-deps core webapp". A run that fails, or that the
\* deadline stops, may have replaced one member and not the other. Once the
\* deadline has passed it is not even started.
Compose(otherwise, next) ==
  \/ /\ ~job.expired
     /\ \A m \in Members : override[m] \in local[m]
     /\ \/ running' = override
        \/ QuirkyCompose /\ running' \in Between(running, override)
     /\ Goto(next)
     /\ UNCHANGED <<job, used>>
  \/ /\ ~job.expired
     /\ Spend(1)
     /\ running' \in Between(running, override) \cup Between(Absent, override)
                      \cup Between(running, Absent)
     /\ otherwise
  \/ /\ job.expired
     /\ otherwise
     /\ UNCHANGED <<running, used>>

GiveUp == Goto("rbOverride") /\ UNCHANGED job

ComposeUp ==
  /\ pc = "up"
  /\ Compose(GiveUp, "verify")
  /\ Keep
  /\ UNCHANGED <<override, local>>

Verified_HealthOnly(expected) == \A m \in Members : running[m] # NoImage

\* verify: both members run what is expected, and answer.
Verified(expected) == ~job.expired /\ running = expected

\* A candidate may be unhealthy: that is the image's own affair.
Verify ==
  /\ pc = "verify"
  /\ \/ /\ Verified(job.cand)
        /\ job' = [job EXCEPT !.verdict = "success"]
        /\ Goto("record")
     \/ GiveUp
  /\ Keep
  /\ UNCHANGED <<override, containers, used>>

-----------------------------------------------------------------------------
(* rollback(), under what is left of the same deadline *)

RollbackFails ==
  /\ Goto("record")
  /\ job' = [job EXCEPT !.verdict = "failed"]

RollbackOverride == pc = "rbOverride" /\ WriteOverride(job.old, RollbackFails, "rbUp")

RollbackUp ==
  /\ pc = "rbUp"
  /\ Compose(RollbackFails, "rbVerify")
  /\ Keep
  /\ UNCHANGED <<override, local>>

RollbackVerify ==
  /\ pc = "rbVerify"
  /\ \/ /\ Verified(job.old)
        /\ job' = [job EXCEPT !.verdict = "rolled_back"]
        /\ Goto("record")
        /\ UNCHANGED used
     \/ /\ RollbackFails
        /\ IF Verified(job.old) THEN Spend(1) ELSE UNCHANGED used
  /\ Keep
  /\ UNCHANGED <<override, containers>>

-----------------------------------------------------------------------------
(* The end of an update *)

RecordHistory ==
  /\ pc = "record"
  /\ history' = Recorded([outcome |-> job.verdict, from |-> job.old, to |-> job.cand,
                          removed |-> {}])
  /\ Goto(CASE job.verdict = "success"   -> "cleanup"
            [] job.verdict = "no_change" -> "end"
            [] OTHER                     -> "fail")
  /\ UNCHANGED <<state, known, override, containers, job>>
  /\ \E f \in {0, 1} : Persist(f) /\ Spend(f)

\* A removal that fails is skipped, and all of them fail after the deadline.
CleanupAfterSuccess ==
  /\ pc = "cleanup"
  /\ \E gone \in SUBSET {pair \in Members \X Images : pair[2] \in Removable(pair[1])} :
       /\ job.expired => gone = {}
       /\ local' = [m \in Members |-> {image \in local[m] : <<m, image>> \notin gone}]
       /\ job' = [job EXCEPT !.removed = gone]
  /\ Goto("attach")
  /\ Keep
  /\ UNCHANGED <<override, running, used>>

AttachCleanup ==
  /\ pc = "attach"
  /\ history' = IF history = <<>> THEN history ELSE [history EXCEPT ![1].removed = job.removed]
  /\ Goto("end")
  /\ UNCHANGED <<state, known, override, containers, job>>
  /\ \E f \in {0, 1} : Persist(f) /\ Spend(f)

\* finish: without a change the candidate's reference is not the current one.
Finish ==
  /\ pc = "end"
  /\ state' = "idle"
  /\ known' = [m \in Members |->
                 [cur |-> IF job.verdict = "success" THEN job.cand[m] ELSE known[m].cur,
                  cand |-> job.cand[m]]]
  /\ Goto("idle") /\ job' = NoJob
  /\ UNCHANGED <<history, override, containers>>
  /\ \E f \in {0, 1} : Persist(f) /\ Spend(f)

Fail ==
  /\ pc = "fail"
  /\ state' = "failed"
  /\ Goto("idle") /\ job' = NoJob
  /\ UNCHANGED <<history, known, override, containers>>
  /\ \E f \in {0, 1} : Persist(f) /\ Spend(f)

-----------------------------------------------------------------------------
(* check(), StatusSynced, and what happens to the process *)

\* One member: an inspect that fails leaves no identity, a pull or an image
\* inspect that fails only the current one.
CheckMember ==
  LET m == Order[job.next] IN
  /\ pc = "check" /\ job.next <= Len(Order)
  /\ UNCHANGED status
  /\ \E f \in {0, 1} :
       /\ Persist(f)
       /\ \/ /\ IF running[m] = NoImage \/ job.expired THEN Spend(f) ELSE Spend(f + 1)
             /\ job' = [job EXCEPT !.next = @ + 1]
             /\ UNCHANGED local
          \/ /\ running[m] # NoImage /\ ~job.expired
             /\ Spend(f + 1)
             /\ job' = [job EXCEPT !.next = @ + 1, !.seen[m].cur = running[m]]
             /\ UNCHANGED local
          \/ /\ running[m] # NoImage /\ ~job.expired
             /\ Spend(f)
             /\ \E image \in Images :
                  /\ local' = [local EXCEPT ![m] = @ \cup {image}]
                  /\ job' = [job EXCEPT !.next = @ + 1,
                                        !.seen[m] = [cur |-> running[m], cand |-> image]]
  /\ UNCHANGED <<override, running, pc>>

CheckDone ==
  /\ pc = "check" /\ job.next > Len(Order)
  /\ state' = "idle"
  /\ known' = job.seen
  /\ Goto("idle") /\ job' = NoJob
  /\ UNCHANGED <<history, override, containers>>
  /\ \E f \in {0, 1} : Persist(f) /\ Spend(f)

\* A member that cannot be inspected keeps the identity it has.
StatusSynced ==
  LET present == {m \in Members : running[m] # NoImage} IN
  /\ ~Busy
  /\ \E seen \in SUBSET present, f \in {0, 1} :
       /\ known' = [m \in Members |->
                      IF m \in seen THEN [known[m] EXCEPT !.cur = running[m]] ELSE known[m]]
       /\ known' # known
       /\ Spend(IF seen = present THEN f ELSE f + 1)
       /\ UNCHANGED <<state, history>>
       /\ Persist(f)
  /\ UNCHANGED <<override, containers, pc, job>>

Interrupted_UpdatesOnly(saved) == saved = "updating"

Interrupted(saved) == saved \in {"checking", "updating"}

\* The process ends (which counts as n faults) and newManager runs: load, and
\* what was in progress has failed, which is persisted.
Reload(n) ==
  /\ history' = disk.history /\ known' = disk.known
  /\ pc' = "idle" /\ job' = NoJob
  /\ \E f \in {0, 1} :
       /\ IF Interrupted(disk.state)
            THEN state' = "failed" /\ Persist(f)
            ELSE state' = disk.state /\ f = 0 /\ UNCHANGED disk
       /\ Spend(n + f)
  /\ UNCHANGED <<override, containers>>

Restart == Reload(1)

-----------------------------------------------------------------------------
UpdateStep ==
  \/ Inspect \/ Pull \/ Attest \/ Compare \/ Override \/ ComposeUp \/ Verify
  \/ RollbackOverride \/ RollbackUp \/ RollbackVerify
  \/ RecordHistory \/ CleanupAfterSuccess \/ AttachCleanup \/ Finish \/ Fail

Work == UpdateStep \/ CheckMember \/ CheckDone

Next ==
  \/ Work \/ StartCheck \/ StartUpdate
  \/ Expire \/ StatusSynced \/ Restart

Spec == Init /\ [][Next]_vars

-----------------------------------------------------------------------------
(* Properties *)

\* What the history will say is what the pair runs, and what the override file
\* names: both members on their attested candidates, neither of them an older
\* release, or both back on the images the update found. A verdict for half a
\* pair is never given.
PairVerdict ==
  /\ job.verdict = "success" =>
       /\ running = job.cand /\ override = job.cand
       /\ \A m \in Members : job.cand[m] \in Signed
       /\ job.blind \/ \A m \in Members : ~Older(job.cand[m], job.old[m])
  /\ job.verdict = "rolled_back" => running = job.old /\ override = job.old
  /\ job.verdict = "no_change" => running = job.old

\* Whatever fails and whenever the process dies, a member runs an attested
\* image or the one RootGuard was installed with.
TrustedPair ==
  \A m \in Members : running[m] = NoImage \/ running[m] \in Signed \cup {FirstImage}

\* No step of the updater but a rollback replaces a release by an older one,
\* across updates, crashes and restarts, as long as it could read the versions.
NoDowngrade ==
  [][\A m \in Members :
       /\ running[m] # NoImage /\ running'[m] # NoImage
       /\ Older(running'[m], running[m])
       => pc = "rbUp" \/ job.blind]_vars

=============================================================================
