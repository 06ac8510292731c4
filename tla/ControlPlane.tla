---------------------------- MODULE ControlPlane ----------------------------
(***************************************************************************)
(* Core and the updater as one system.  The updater replaces Core and      *)
(* WebApp (ControlPlaneUpdater); Core's self-update manager replaces the   *)
(* updater and the attestation proxy.  Each kills the other's process when *)
(* it replaces its container, and both drive the same Compose project.     *)
(*                                                                         *)
(* Core's manager appears here only as what it promises, the module        *)
(* ServiceMaintenance, which UpdateManager is proved to implement: one     *)
(* caller holds it at a time, and a holder may replace the container of    *)
(* its own target.  Its callers are Core's HTTP handlers                   *)
(* (rootguard-core/internal/api/routes.go), each talking to the updater    *)
(* through the client of rootguard-core/internal/controlplane.             *)
(***************************************************************************)
EXTENDS ControlPlaneUpdater

CONSTANTS
  Handlers,    \* HTTP requests being handled by Core
  CoreMember,  \* the member whose container Core runs in
  Updater, AttestationProxy, NoHelper,  \* the self-update manager's services
  MaxSwaps     \* bound of the model: container replacements by self-updates

ASSUME CompositionAssumption ==
  /\ CoreMember \in Members
  /\ Updater # AttestationProxy /\ NoHelper \notin {Updater, AttestationProxy}
  /\ MaxSwaps \in Nat

VARIABLES
  hpc,      \* where each handler is
  wire,     \* the request of each handler the updater has not seen yet
  holders,  \* who holds the self-update manager: a reservation or a self-update
  target,   \* the service the holder may replace
  helper,   \* the image of the updater's and the proxy's container
  placed,   \* observation: the images each of them was installed with
  swaps     \* how much of its bound is spent

Helpers  == {Updater, AttestationProxy}
coreVars == <<hpc, wire, holders, target, helper, placed, swaps>>
allVars  == <<vars, coreVars>>

SelfUpdates == INSTANCE ServiceMaintenance WITH
  Callers <- Handlers, Services <- Helpers, NoService <- NoHelper,
  Vetted <- [s \in Helpers |-> Signed],
  image <- helper, deployed <- placed

CoreUp    == running[CoreMember] # NoImage
UpdaterUp == helper[Updater] # NoImage

CompositionInit ==
  /\ Init
  /\ SelfUpdates!Init
  /\ helper = [s \in Helpers |-> FirstImage]
  /\ hpc = [h \in Handlers |-> "idle"] /\ wire = [h \in Handlers |-> "none"]
  /\ swaps = 0

At(h, label)   == hpc[h] = label
Move(h, label) == hpc' = [hpc EXCEPT ![h] = label]

-----------------------------------------------------------------------------
(* Core's handlers *)

ReserveAndSend_CheckThenAct(h) ==
  /\ CoreUp
  /\ At(h, "idle")
  /\ holders = {}
  /\ UNCHANGED <<holders, target, helper, placed>>
  /\ Move(h, "reserved")
  /\ wire' = [wire EXCEPT ![h] = "update"]
  /\ UNCHANGED <<vars, swaps>>

\* controlPlaneUpdateHandler: ReserveForControlPlane, then client.Update.
ReserveAndSend(h) ==
  /\ CoreUp
  /\ At(h, "idle")
  /\ SelfUpdates!Begin(h) /\ target'[h] = NoHelper
  /\ Move(h, "reserved")
  /\ wire' = [wire EXCEPT ![h] = "update"]
  /\ UNCHANGED <<vars, swaps>>

\* controlPlaneCheckHandler reserves nothing.
SendCheck(h) ==
  /\ CoreUp
  /\ At(h, "idle") /\ wire[h] = "none"
  /\ Move(h, "checking")
  /\ wire' = [wire EXCEPT ![h] = "check"]
  /\ UNCHANGED <<vars, holders, target, helper, placed, swaps>>

\* handleControlPlaneAction: the updater accepts the request or answers 409.
Receive(h) ==
  /\ UpdaterUp
  /\ wire[h] # "none"
  /\ \/ wire[h] = "update" /\ StartUpdate
     \/ wire[h] = "check" /\ StartCheck
     \/ Busy /\ UNCHANGED vars
  /\ wire' = [wire EXCEPT ![h] = "none"]
  /\ hpc' = [hpc EXCEPT ![h] = IF @ = "reserved" THEN "answered" ELSE @]
  /\ UNCHANGED <<holders, target, helper, placed, swaps>>

\* The answer, a connection error or the client's 20 second timeout; after a
\* timeout the updater may still see the request. The reservation is released.
Return(h) ==
  /\ hpc[h] \in {"checking", "reserved", "answered"}
  /\ Move(h, "idle")
  /\ IF h \in holders THEN SelfUpdates!Finish(h)
                      ELSE UNCHANGED <<holders, target, helper, placed>>
  /\ UNCHANGED <<vars, wire, swaps>>

\* selfUpdateInstallHandler asks the updater for its status, and goes on when
\* it is not busy or when the question fails ...
PreCheck(h) ==
  /\ CoreUp
  /\ At(h, "idle")
  /\ \/ UpdaterUp /\ ~Busy /\ UNCHANGED used
     \/ ~UpdaterUp /\ UNCHANGED used
     \/ Spend(1)
  /\ Move(h, "mayUpdate")
  /\ UNCHANGED <<status, disk, override, containers, pc, job,
                 wire, holders, target, helper, placed, swaps>>

\* ... to StartUpdate of the named service, which is refused while held.
StartSelfUpdate(h) ==
  /\ At(h, "mayUpdate")
  /\ \/ /\ SelfUpdates!Begin(h) /\ target'[h] # NoHelper
        /\ Move(h, "update")
     \/ /\ holders # {}
        /\ Move(h, "idle")
        /\ UNCHANGED <<holders, target, helper, placed>>
  /\ UNCHANGED <<vars, wire, swaps>>

\* The self-update, or its rollback, replaces the container: the updater's
\* process ends, with its operation and every request it has not seen.
SelfSwap(h) ==
  /\ At(h, "update")
  /\ swaps < MaxSwaps /\ swaps' = swaps + 1
  /\ SelfUpdates!Replace(h) /\ helper' # helper
  /\ IF target[h] = Updater
       THEN Reload(0) /\ wire' = [g \in Handlers |-> "none"]
       ELSE UNCHANGED <<vars, wire>>
  /\ UNCHANGED hpc

SelfUpdateDone(h) ==
  /\ At(h, "update")
  /\ SelfUpdates!Finish(h)
  /\ Move(h, "idle")
  /\ UNCHANGED <<vars, wire, swaps>>

-----------------------------------------------------------------------------
(* The two processes together *)

\* Core's process ends with every handler; its managers start anew.
CoreEnds ==
  /\ SelfUpdates!Crash
  /\ hpc' = [h \in Handlers |-> "idle"]
  /\ UNCHANGED <<wire, swaps>>

\* A step that recreates Core's container ends its process.
EndsCoreIfRecreated ==
  IF running'[CoreMember] # running[CoreMember] THEN CoreEnds ELSE UNCHANGED coreVars

UpdaterWork == UpdaterUp /\ Work /\ EndsCoreIfRecreated

Environment ==
  \/ /\ UpdaterUp
     /\ Expire \/ StatusSynced \/ Restart
     /\ UNCHANGED coreVars
  \/ /\ CoreUp
     /\ Spend(1)
     /\ CoreEnds
     /\ UNCHANGED <<status, disk, override, containers, pc, job>>

Handle(h) ==
  \/ Receive(h) \/ Return(h) \/ StartSelfUpdate(h) \/ SelfSwap(h) \/ SelfUpdateDone(h)

Arrive(h) == ReserveAndSend(h) \/ SendCheck(h) \/ PreCheck(h)

CompositionNext ==
  \/ \E h \in Handlers : Arrive(h) \/ Handle(h)
  \/ UpdaterWork
  \/ Environment

CompositionSpec == CompositionInit /\ [][CompositionNext]_allVars

\* The updater's commands and requests and the client's calls have deadlines,
\* and so has a self-update: a process that runs gets on with its work.
FairCompositionSpec ==
  /\ CompositionSpec
  /\ WF_allVars(UpdaterWork)
  /\ \A h \in Handlers :
       WF_allVars(Return(h) \/ StartSelfUpdate(h) \/ SelfUpdateDone(h))

-----------------------------------------------------------------------------
(* Properties *)

\* rootguard#546: a self-update never replaces the updater while a handler
\* waits for the answer to the update request it has sent there.
RequestNotCutOff ==
  [][\A h \in Handlers :
       At(h, "reserved") => helper'[Updater] = helper[Updater]]_allVars

\* A restart of the updater, its own or by a self-update, leaves it available,
\* and an operation that was persisted as begun is reported as failed.
InterruptionReported ==
  [][/\ pc \notin {"idle", "end", "fail"}
     /\ pc = "check" => job.next <= Len(Order)
     /\ pc' = "idle"
     => ~Busy' /\ (disk.state \in {"checking", "updating"} => state' = "failed")]_allVars

\* Both directions end: the updater becomes available again (or its container
\* is gone), and so does the self-update manager, whichever kills the other.
BothBecomeAvailable ==
  /\ Busy ~> (~Busy \/ ~UpdaterUp)
  /\ holders # {} ~> holders = {}

-----------------------------------------------------------------------------
(* Stated of the program by its comments and documents, and not so *)

\* "pins both previous image IDs if either health check fails": an update whose
\* candidate did not pass verification leaves both members on the images it
\* found, if nothing but that went wrong.
UnhealthyPairRestored ==
  pc = "fail" /\ used.faults <= (IF job.expired THEN 1 ELSE 0) /\ job.verdict \in {"rolled_back", "failed"} =>
    running = job.old

=============================================================================
