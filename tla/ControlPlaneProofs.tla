------------------------- MODULE ControlPlaneProofs -------------------------
(***************************************************************************)
(* Core and the updater together, for any handlers, members, images and    *)
(* bounds. What the updater promises alone, ControlPlaneUpdaterProofs, it  *)
(* also promises when Core kills it in the middle of an operation; and a   *)
(* reservation of Core's self-update manager protects the request it was   *)
(* made for.                                                               *)
(***************************************************************************)
EXTENDS ControlPlane, ControlPlaneUpdaterProofs

\* The self-update manager has one holder, whose handler knows what it holds:
\* a reservation for the updater's sake names no service.
Reserved == {"reserved", "answered"}
Holding ==
  /\ hpc \in [Handlers -> {"idle", "checking", "reserved", "answered", "mayUpdate", "update"}]
  /\ target \in [Handlers -> Helpers \cup {NoHelper}]
  /\ \A g, h \in holders : g = h
  /\ \A h \in Handlers : hpc[h] \in Reserved => h \in holders /\ target[h] = NoHelper

-----------------------------------------------------------------------------
(* The steps of the self-update manager *)

\* ReserveForControlPlane and StartUpdate find nobody and hold it themselves.
LEMMA BeginHolding ==
  ASSUME Holding, NEW h \in Handlers, SelfUpdates!Begin(h), NEW label,
         label \in {"reserved", "update"}, Move(h, label),
         label = "reserved" => target'[h] = NoHelper
  PROVE  Holding'
  <1>1. holders = {} /\ holders' = {h}
    BY DEF SelfUpdates!Begin
  <1>2. PICK s \in Helpers \cup {NoHelper} : target' = [target EXCEPT ![h] = s]
    BY DEF SelfUpdates!Begin
  <1> QED BY <1>1, <1>2 DEF Holding, Move, Reserved

\* A handler that lets go is idle.
LEMMA FinishHolding ==
  ASSUME Holding, NEW h \in Handlers, SelfUpdates!Finish(h), Move(h, "idle")
  PROVE  Holding'
  <1>1. holders' = holders \ {h} /\ target' = [target EXCEPT ![h] = NoHelper]
    BY DEF SelfUpdates!Finish
  <1> QED BY <1>1 DEF Holding, Move, Reserved

\* Every handler that moves elsewhere keeps what it holds.
LEMMA MoveHolding ==
  ASSUME Holding, NEW h \in Handlers, UNCHANGED <<holders, target>>, NEW label,
         label \in {"idle", "checking", "mayUpdate", "answered"}, Move(h, label),
         label = "answered" => At(h, "reserved")
  PROVE  Holding'
  BY DEF Holding, Move, At, Reserved

\* The end of Core's process frees the manager.
LEMMA CoreEndsHolding ==
  ASSUME Holding, CoreEnds PROVE Holding'
  BY DEF CoreEnds, SelfUpdates!Crash, Holding, Reserved

\* A handler's step.
LEMMA HandlerHolding ==
  ASSUME Holding, NEW h \in Handlers, Arrive(h) \/ Handle(h) PROVE Holding'
  <1>1. CASE ReserveAndSend(h)
    BY <1>1, BeginHolding DEF ReserveAndSend
  <1>2. CASE SendCheck(h) \/ PreCheck(h)
    BY <1>2, MoveHolding DEF SendCheck, PreCheck
  <1>3. CASE Receive(h)
    <2>1. UNCHANGED <<holders, target>>
      BY <1>3 DEF Receive
    <2>2. hpc' = [hpc EXCEPT ![h] = IF @ = "reserved" THEN "answered" ELSE @]
      BY <1>3 DEF Receive
    <2> QED BY <2>1, <2>2 DEF Holding, Reserved
  <1>4. CASE Return(h)
    <2>1. CASE h \in holders
      BY <1>4, <2>1, FinishHolding DEF Return
    <2>2. CASE h \notin holders
      BY <1>4, <2>2, MoveHolding DEF Return
    <2> QED BY <2>1, <2>2
  <1>5. CASE StartSelfUpdate(h)
    <2>1. CASE SelfUpdates!Begin(h) /\ Move(h, "update")
      BY <2>1, BeginHolding
    <2>2. CASE Move(h, "idle") /\ UNCHANGED <<holders, target>>
      BY <2>2, MoveHolding
    <2> QED BY <1>5, <2>1, <2>2 DEF StartSelfUpdate
  <1>6. CASE SelfSwap(h)
    BY <1>6 DEF SelfSwap, SelfUpdates!Replace, Holding, Reserved
  <1>7. CASE SelfUpdateDone(h)
    BY <1>7, FinishHolding DEF SelfUpdateDone
  <1> QED BY <1>1, <1>2, <1>3, <1>4, <1>5, <1>6, <1>7 DEF Arrive, Handle

\* Every step of the two processes keeps who holds what.
LEMMA HoldingNext == Holding /\ [CompositionNext]_allVars => Holding'
  <1> SUFFICES ASSUME Holding, [CompositionNext]_allVars PROVE Holding'
    OBVIOUS
  <1>1. CASE UNCHANGED coreVars
    BY <1>1 DEF coreVars, Holding, Reserved
  <1>2. CASE CoreEnds
    BY <1>2, CoreEndsHolding
  <1>3. CASE \E h \in Handlers : Arrive(h) \/ Handle(h)
    BY <1>3, HandlerHolding
  <1>4. UpdaterWork \/ Environment => UNCHANGED coreVars \/ CoreEnds
    BY DEF UpdaterWork, Environment, EndsCoreIfRecreated
  <1>5. UNCHANGED allVars => UNCHANGED coreVars
    BY DEF allVars
  <1> QED BY <1>1, <1>2, <1>3, <1>4, <1>5 DEF CompositionNext

\* At first nobody holds the manager.
LEMMA HoldingInit == CompositionInit => Holding
  BY DEF CompositionInit, SelfUpdates!Init, Holding, Reserved

-----------------------------------------------------------------------------
(* The steps of the updater *)

\* Something goes wrong in Core, which the bound counts.
Elsewhere == UNCHANGED <<status, disk, override, containers, pc, job>> /\ Spend(1)

\* What the composition does to the updater: a step of its own, the end of its
\* process with its container, or nothing.
LEMMA UpdaterSteps ==
  [CompositionNext]_allVars => [Next]_vars \/ Reload(0) \/ Elsewhere
  <1> SUFFICES ASSUME [CompositionNext]_allVars PROVE [Next]_vars \/ Reload(0) \/ Elsewhere
    OBVIOUS
  <1>1. ASSUME NEW h \in Handlers, Arrive(h) \/ Handle(h)
        PROVE  UNCHANGED vars \/ StartUpdate \/ StartCheck \/ Reload(0) \/ Elsewhere
    <2>1. CASE ReserveAndSend(h) \/ SendCheck(h) \/ Return(h) \/ StartSelfUpdate(h) \/ SelfUpdateDone(h)
      BY <2>1 DEF ReserveAndSend, SendCheck, Return, StartSelfUpdate, SelfUpdateDone
    <2>2. CASE Receive(h) \/ SelfSwap(h)
      BY <2>2 DEF Receive, SelfSwap
    <2>3. CASE PreCheck(h)
      BY <2>3 DEF PreCheck, Elsewhere, vars
    <2> QED BY <1>1, <2>1, <2>2, <2>3 DEF Arrive, Handle
  <1>2. UpdaterWork => Work
    BY DEF UpdaterWork
  <1>3. Environment => Expire \/ StatusSynced \/ Restart \/ Elsewhere
    BY DEF Environment, Elsewhere
  <1>4. UNCHANGED allVars => UNCHANGED vars
    BY DEF allVars
  <1> QED BY <1>1, <1>2, <1>3, <1>4 DEF CompositionNext, Next

\* Trouble in Core leaves the updater's invariant alone.
LEMMA ElsewhereStep ==
  ASSUME Inv, Elsewhere PROVE Inv'
  <1>1. /\ UNCHANGED <<state, history, known, disk, override, containers, pc, job>>
        /\ used' \in [ops : Nat, faults : Nat]
    BY SpendTypes DEF Elsewhere, status, Inv, Typed, TypeOK
  <1>2. StatusTypes' /\ pc' \in Label /\ override' \in Pair
    BY <1>1 DEF Inv, Typed, TypeOK, StatusTypes
  <1> QED BY <1>1, <1>2, SameJob

\* The updater's invariant holds of the two processes together.
LEMMA UpdaterNext == Inv /\ [CompositionNext]_allVars => Inv'
  <1>1. 0 \in Nat
    OBVIOUS
  <1> QED BY <1>1, UpdaterSteps, InvNext, ReloadStep, ElsewhereStep

\* Both invariants hold in every state.
LEMMA CompositionInvariance == CompositionSpec => [](Inv /\ Holding)
  <1>1. CompositionInit => Inv /\ Holding
    BY InvInit, HoldingInit DEF CompositionInit
  <1>2. (Inv /\ Holding) /\ [CompositionNext]_allVars => (Inv /\ Holding)'
    BY UpdaterNext, HoldingNext
  <1> QED BY <1>1, <1>2, PTL DEF CompositionSpec

-----------------------------------------------------------------------------
(* The theorems *)

\* controlPlaneUpdateHandler holds the self-update manager while it waits for
\* the updater's answer, so that no self-update replaces the updater meanwhile.
THEOREM RequestsComplete == CompositionSpec => RequestNotCutOff
  <1>1. ASSUME Holding, [CompositionNext]_allVars, NEW h \in Handlers, At(h, "reserved")
        PROVE  helper'[Updater] = helper[Updater]
    <2>1. h \in holders /\ target[h] = NoHelper
      BY <1>1 DEF Holding, At, Reserved
    <2>2. ASSUME NEW g \in Handlers, SelfSwap(g) PROVE FALSE
      <3>1. g \in holders /\ target[g] \in Helpers
        BY <2>2 DEF SelfSwap, SelfUpdates!Replace
      <3>2. g = h
        BY <1>1, <2>1, <3>1 DEF Holding
      <3> QED BY <2>1, <3>1, <3>2, CompositionAssumption DEF CompositionAssumption, Helpers
    <2>3. ASSUME NEW g \in Handlers, Arrive(g) \/ Handle(g) PROVE UNCHANGED helper
      BY <2>2, <2>3
      DEF Arrive, Handle, ReserveAndSend, SendCheck, PreCheck, Receive, Return, StartSelfUpdate,
          SelfUpdateDone, SelfUpdates!Begin, SelfUpdates!Finish
    <2>4. UpdaterWork \/ Environment \/ UNCHANGED allVars => UNCHANGED helper
      BY DEF UpdaterWork, Environment, EndsCoreIfRecreated, CoreEnds, SelfUpdates!Crash, allVars, coreVars
    <2> QED BY <1>1, <2>3, <2>4 DEF CompositionNext
  <1>2. Holding /\ [CompositionNext]_allVars =>
          [\A h \in Handlers : At(h, "reserved") => helper'[Updater] = helper[Updater]]_allVars
    BY <1>1
  <1> QED BY <1>2, CompositionInvariance, PTL DEF CompositionSpec, RequestNotCutOff

\* Also when Core's self-update ends the updater's process in the middle of an
\* update, Core and WebApp run attested images or the installed one, and what
\* the history says of an update is true of both of them.
THEOREM PairTogether == CompositionSpec => [](TrustedPair /\ PairVerdict)
  <1>1. Inv => TrustedPair /\ PairVerdict
    BY DEF Inv
  <1> QED BY <1>1, CompositionInvariance, PTL

\* newManager() after any end of the updater's process: the updater is free, and
\* an operation that status.json had as begun is reported as failed.
THEOREM NoSilentInterruption == CompositionSpec => InterruptionReported
  <1>1. ASSUME Inv, [CompositionNext]_allVars, pc \notin {"idle", "end", "fail"},
               pc = "check" => job.next <= Len(Order), pc' = "idle"
        PROVE  ~Busy' /\ (disk.state \in {"checking", "updating"} => state' = "failed")
    <2>1. CASE Reload(0) \/ Reload(1)
      BY <2>1 DEF Reload, Interrupted, Busy
    <2>2. CASE Elsewhere \/ UNCHANGED vars
      BY <1>1, <2>2 DEF Elsewhere, vars
    <2>3. CASE Work
      <3>1. CASE CheckMember \/ CheckDone
        <4>1. CASE CheckMember
          BY <1>1, <4>1 DEF CheckMember
        <4>2. CASE CheckDone
          <5>1. job.next \in Nat /\ Len(Order) \in Nat
            BY <1>1, SomeMember DEF Inv, Typed, TypeOK, Job
          <5> QED BY <1>1, <4>2, <5>1 DEF CheckDone
        <4> QED BY <3>1, <4>1, <4>2
      <3>2. CASE UpdateStep
        BY <1>1, <3>2
        DEF UpdateStep, Inspect, Pull, Attest, Compare, Override, WriteOverride, Abort, ComposeUp,
            Compose, GiveUp, Verify, RollbackOverride, RollbackUp, RollbackVerify, RollbackFails,
            RecordHistory, CleanupAfterSuccess, AttachCleanup, Finish, Fail, Goto
      <3> QED BY <2>3, <3>1, <3>2 DEF Work
    <2>4. CASE StartCheck \/ StartUpdate \/ Expire \/ StatusSynced
      BY <1>1, <2>4 DEF StartCheck, StartUpdate, Start, Expire, StatusSynced, Goto
    <2> QED BY <1>1, <2>1, <2>2, <2>3, <2>4, UpdaterSteps DEF Next, Restart
  <1>2. Inv /\ [CompositionNext]_allVars =>
          [/\ pc \notin {"idle", "end", "fail"}
           /\ pc = "check" => job.next <= Len(Order)
           /\ pc' = "idle"
           => ~Busy' /\ (disk.state \in {"checking", "updating"} => state' = "failed")]_allVars
    BY <1>1
  <1> QED BY <1>2, CompositionInvariance, PTL DEF CompositionSpec, InterruptionReported

=============================================================================
