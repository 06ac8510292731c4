--------------------- MODULE ControlPlaneUpdaterProofs ---------------------
(***************************************************************************)
(* Theorems about ControlPlaneUpdater, for any number of members, images,  *)
(* versions, operations and faults: its state is well typed, only trusted  *)
(* images run, every verdict is true of the whole pair, and no step but a  *)
(* rollback goes back to an older release.                                 *)
(*                                                                         *)
(* None of them is inductive, because compose starts whatever the override *)
(* file names. JobTrust says what the goroutine has established for which  *)
(* member when it is at which step, and carries it to that step.           *)
(***************************************************************************)
EXTENDS ControlPlaneUpdater, SequenceTheorems, TLAPS

Loop == {"inspect", "pull", "attest"}
InUpdate == Loop \cup {"compare", "override", "up", "verify", "rbOverride", "rbUp", "rbVerify"}

\* Where the goroutine is among the members, and that a verdict is given once,
\* at the end.
Positions ==
  /\ job.next # 0
  /\ pc \in Loop => job.next <= Len(Order)
  /\ pc \in InUpdate => job.verdict = "none"
  /\ pc = "record" => job.verdict # "none"

\* What update() has found out about a member.
Found(m)  == job.old[m] = running[m] /\ running[m] \in Images
Chosen(m) == job.cand[m] \in Images /\ (job.blind \/ ~Older(job.cand[m], job.old[m]))
Vetted(m) == Chosen(m) /\ job.cand[m] \in Signed
Trusted   == Signed \cup {FirstImage}

\* The members the loop is done with; one it meets again is not.
Earlier == {Order[i] : i \in 1 .. job.next - 1}
DoneWith(m) == m \in Earlier /\ (pc = "inspect" \/ m # Order[job.next])

JobTrust ==
  /\ pc \in Loop => \A m \in Members : DoneWith(m) => Found(m) /\ Vetted(m)
  /\ pc \in {"pull", "attest"} => Found(Order[job.next])
  /\ pc = "attest" => Chosen(Order[job.next])
  /\ pc \in {"compare", "override", "up"} => \A m \in Members : Found(m) /\ Vetted(m)
  /\ pc \in {"verify", "rbOverride", "rbUp", "rbVerify"} =>
       \A m \in Members : Vetted(m) /\ job.old[m] \in Trusted
  /\ pc \in {"up", "verify"} => override = job.cand
  /\ pc \in {"rbUp", "rbVerify"} => override = job.old

StatusTypes ==
  /\ state \in State /\ history \in Seq(Entry) /\ known \in [Members -> Identity]
  /\ disk \in Snapshot

Typed == TypeOK /\ Positions
Inv == Typed /\ JobTrust /\ TrustedPair /\ PairVerdict

-----------------------------------------------------------------------------
(* The operators *)

\* A bounded history is a history.
LEMMA RecordedType ==
  ASSUME NEW entry \in Entry, history \in Seq(Entry) PROVE Recorded(entry) \in Seq(Entry)
  <1> DEFINE longer == <<entry>> \o history
  <1>1. longer \in Seq(Entry)
    OBVIOUS
  <1>2. CASE Len(longer) > MaxHistory
    <2>1. SubSeq(longer, 1, MaxHistory) \in Seq(Entry)
      BY <1>1, <1>2, SubSeqProperties, ConstantsAssumption DEF ConstantsAssumption
    <2> QED BY <1>2, <2>1 DEF Recorded
  <1>3. CASE ~(Len(longer) > MaxHistory)
    BY <1>1, <1>3 DEF Recorded
  <1> QED BY <1>2, <1>3

\* persistLocked writes a well-typed status.json, or none.
LEMMA PersistTypes ==
  ASSUME StatusTypes, NEW f, Persist(f),
         state' \in State, history' \in Seq(Entry), known' \in [Members -> Identity]
  PROVE  StatusTypes'
  BY DEF StatusTypes, Persist, Snapshot

\* Faults are counted.
LEMMA SpendTypes ==
  ASSUME NEW n \in Nat, used \in [ops : Nat, faults : Nat], Spend(n)
  PROVE  used' \in [ops : Nat, faults : Nat]
  BY DEF Spend

\* The loop is at a member.
LEMMA AtMember ==
  ASSUME Typed, pc \in Loop \/ (pc = "check" /\ job.next <= Len(Order))
  PROVE  /\ job.next \in 1 .. Len(Order) /\ Order[job.next] \in Members
         /\ Len(Order) \in Nat
  <1>1. Len(Order) \in Nat /\ DOMAIN Order = 1 .. Len(Order)
    BY LenProperties, ConstantsAssumption DEF ConstantsAssumption
  <1>2. job.next \in Nat /\ job.next # 0 /\ job.next <= Len(Order)
    BY DEF Typed, TypeOK, Positions, Job
  <1> QED BY <1>1, <1>2 DEF Members

\* After its last member the loop has been through all of them.
LEMMA AllMembers ==
  ASSUME Len(Order) \in Nat
  PROVE  Members = {Order[i] : i \in 1 .. Len(Order)}
  <1>1. DOMAIN Order = 1 .. Len(Order)
    BY LenProperties, ConstantsAssumption DEF ConstantsAssumption
  <1> QED BY <1>1 DEF Members

\* A new goroutine knows nothing.
LEMMA NoJobType == NoJob \in Job /\ NoJob.verdict = "none" /\ NoJob.next = 1
  BY DEF NoJob, Job, Absent, Unknown, Pair, MaybeImage, Identity, Verdict

\* A pair half of which is trusted and half is trusted, too, is trusted.
LEMMA BetweenTrusted ==
  ASSUME TrustedPair, TypeOK, \A m \in Members : override[m] \in Trusted,
         running' \in Between(running, override) \cup Between(Absent, override)
                        \cup Between(running, Absent) \/ running' = override
  PROVE  TrustedPair' /\ running' \in Pair
  BY DEF TrustedPair, Trusted, Between, Absent, TypeOK

-----------------------------------------------------------------------------
(* The invariant is inductive *)

\* At first both members run the installed image.
LEMMA InvInit == Init => Inv
  <1> SUFFICES ASSUME Init PROVE Inv
    OBVIOUS
  <1>1. TypeOK
    <2>1. FirstImage \in Images
      BY ConstantsAssumption DEF ConstantsAssumption
    <2>2. <<>> \in Seq(Entry)
      BY EmptySeq
    <2> QED BY <2>1, <2>2, NoJobType
        DEF Init, TypeOK, State, Snapshot, Pair, MaybeImage, Absent, Unknown, Identity, Label
  <1>2. Positions /\ JobTrust
    BY NoJobType DEF Init, Positions, JobTrust, Loop, InUpdate
  <1>3. TrustedPair /\ PairVerdict
    BY NoJobType DEF Init, TrustedPair, PairVerdict
  <1> QED BY <1>1, <1>2, <1>3 DEF Inv, Typed

\* There is a member to begin with.
LEMMA SomeMember == Len(Order) \in Nat /\ 1 <= Len(Order)
  BY LenProperties, EmptySeq, ConstantsAssumption DEF ConstantsAssumption

\* A step that only ends or starts the goroutine.
LEMMA NewJob ==
  ASSUME Inv, job' = NoJob, pc' \in {"idle", "check", "inspect"},
         StatusTypes', used' \in [ops : Nat, faults : Nat],
         UNCHANGED <<override, containers>>
  PROVE  Inv'
  <1>1. TypeOK'
    BY NoJobType DEF Inv, Typed, TypeOK, StatusTypes, containers, Label
  <1>2. Positions'
    BY SomeMember, NoJobType DEF Positions, Loop, InUpdate
  <1>3. JobTrust'
    <2>1. Earlier' = {}
      BY NoJobType DEF Earlier
    <2> QED BY <2>1 DEF JobTrust, Loop, DoneWith
  <1>4. TrustedPair' /\ PairVerdict'
    BY NoJobType DEF Inv, TrustedPair, PairVerdict, containers
  <1> QED BY <1>1, <1>2, <1>3, <1>4 DEF Inv, Typed

\* The operations that start one.
LEMMA StartStep ==
  ASSUME Inv, NEW newState \in State, NEW label \in {"check", "inspect"}, Start(newState, label)
  PROVE  Inv'
  <1>1. PICK f \in {0, 1} :
          Persist(f) /\ used' = [used EXCEPT !.ops = @ + 1, !.faults = @ + f]
    BY DEF Start
  <1>2. state' \in State /\ UNCHANGED <<history, known>>
    BY DEF Start
  <1>3. StatusTypes'
    BY <1>1, <1>2, PersistTypes DEF Inv, Typed, TypeOK, StatusTypes
  <1>4. used' \in [ops : Nat, faults : Nat]
    <2>1. used \in [ops : Nat, faults : Nat] /\ f \in Nat
      BY DEF Inv, Typed, TypeOK
    <2>2. used.ops + 1 \in Nat /\ used.faults + f \in Nat
      BY <2>1
    <2> QED BY <1>1, <2>1, <2>2
  <1> QED BY <1>3, <1>4, NewJob DEF Start, Goto

\* finish() ends one that went through.
LEMMA FinishStep ==
  ASSUME Inv, Finish PROVE Inv'
  <1>1. PICK f \in {0, 1} : Persist(f) /\ Spend(f)
    BY DEF Finish
  <1>2. known' \in [Members -> Identity]
    BY DEF Finish, Inv, Typed, TypeOK, Job, Pair, MaybeImage, Identity
  <1>3. StatusTypes'
    BY <1>1, <1>2, PersistTypes DEF Finish, Inv, Typed, TypeOK, StatusTypes, State
  <1>4. used' \in [ops : Nat, faults : Nat]
    BY <1>1, SpendTypes DEF Inv, Typed, TypeOK
  <1> QED BY <1>3, <1>4, NewJob DEF Finish, Goto

\* fail() ends one that did not.
LEMMA FailStep ==
  ASSUME Inv, Fail PROVE Inv'
  <1>1. PICK f \in {0, 1} : Persist(f) /\ Spend(f)
    BY DEF Fail
  <1>2. StatusTypes'
    BY <1>1, PersistTypes DEF Fail, Inv, Typed, TypeOK, StatusTypes, State
  <1>3. used' \in [ops : Nat, faults : Nat]
    BY <1>1, SpendTypes DEF Inv, Typed, TypeOK
  <1> QED BY <1>2, <1>3, NewJob DEF Fail, Goto

\* A check publishes what it has seen.
LEMMA CheckDoneStep ==
  ASSUME Inv, CheckDone PROVE Inv'
  <1>1. PICK f \in {0, 1} : Persist(f) /\ Spend(f)
    BY DEF CheckDone
  <1>2. StatusTypes'
    BY <1>1, PersistTypes DEF CheckDone, Inv, Typed, TypeOK, StatusTypes, State, Job
  <1>3. used' \in [ops : Nat, faults : Nat]
    BY <1>1, SpendTypes DEF Inv, Typed, TypeOK
  <1> QED BY <1>2, <1>3, NewJob DEF CheckDone, Goto

\* newManager() drops the goroutine and marks what was interrupted.
LEMMA ReloadStep ==
  ASSUME Inv, NEW n \in Nat, Reload(n) PROVE Inv'
  <1>1. PICK f \in {0, 1} :
          /\ IF Interrupted(disk.state) THEN state' = "failed" /\ Persist(f)
             ELSE state' = disk.state /\ f = 0 /\ UNCHANGED disk
          /\ Spend(n + f)
    BY DEF Reload
  <1>2. history' \in Seq(Entry) /\ known' \in [Members -> Identity] /\ disk.state \in State
    BY DEF Reload, Inv, Typed, TypeOK, Snapshot
  <1>3. StatusTypes'
    <2>1. StatusTypes
      BY DEF Inv, Typed, TypeOK, StatusTypes
    <2>2. CASE Interrupted(disk.state)
      BY <1>1, <1>2, <2>1, <2>2, PersistTypes DEF State
    <2>3. CASE ~Interrupted(disk.state)
      BY <1>1, <1>2, <2>1, <2>3 DEF StatusTypes
    <2> QED BY <2>2, <2>3
  <1>4. used' \in [ops : Nat, faults : Nat]
    <2>1. n + f \in Nat
      OBVIOUS
    <2> QED BY <1>1, <2>1, SpendTypes DEF Inv, Typed, TypeOK
  <1> QED BY <1>3, <1>4, NewJob DEF Reload

\* A step that moves on with the same job and the same containers.
LEMMA SameJob ==
  ASSUME Inv, StatusTypes', used' \in [ops : Nat, faults : Nat], pc' \in Label,
         UNCHANGED <<containers, job>>, override' \in Pair,
         pc' \in InUpdate \cup {"record"} => pc' = pc /\ UNCHANGED override,
         UNCHANGED override \/ job.verdict = "none"
  PROVE  Inv'
  <1>1. TypeOK'
    BY DEF Inv, Typed, TypeOK, StatusTypes, containers
  <1>2. Positions'
    BY DEF Inv, Typed, Positions, InUpdate, Loop
  <1>3. JobTrust'
    BY DEF Inv, JobTrust, InUpdate, Loop, DoneWith, Earlier, Found, Vetted, Chosen, Older, containers
  <1>4. TrustedPair' /\ PairVerdict'
    BY DEF Inv, TrustedPair, PairVerdict, Older, containers
  <1> QED BY <1>1, <1>2, <1>3, <1>4 DEF Inv, Typed

\* The deadline passes: only that is remembered of it.
LEMMA ExpireStep ==
  ASSUME Inv, Expire PROVE Inv'
  <1>1. /\ job' = [job EXCEPT !.expired = TRUE] /\ job \in Job
        /\ UNCHANGED <<state, history, known, disk, override, running, local, pc>>
    BY DEF Expire, Keep, status, containers, Inv, Typed, TypeOK
  <1>2. /\ job' \in Job
        /\ job'.next = job.next /\ job'.old = job.old /\ job'.cand = job.cand
        /\ job'.verdict = job.verdict /\ job'.blind = job.blind
    BY <1>1 DEF Job
  <1>3. used' \in [ops : Nat, faults : Nat]
    BY SpendTypes DEF Expire, Inv, Typed, TypeOK
  <1> HIDE DEF Inv
  <1>4. Typed'
    BY <1>1, <1>2, <1>3 DEF Inv, Typed, TypeOK, Positions
  <1>5. JobTrust'
    BY <1>1, <1>2 DEF Inv, JobTrust, DoneWith, Earlier, Found, Vetted, Chosen, Older
  <1>6. TrustedPair' /\ PairVerdict'
    BY <1>1, <1>2 DEF Inv, TrustedPair, PairVerdict, Older
  <1> QED BY <1>4, <1>5, <1>6 DEF Inv

\* Inspecting a member finds the image to return to.
LEMMA InspectStep ==
  ASSUME Inv, Inspect PROVE Inv'
  <1> DEFINE m == Order[job.next]
  <1>1. pc = "inspect" /\ UNCHANGED <<state, history, known, disk, override, running, local>>
    BY DEF Inspect, Keep, status, containers
  <1>2. m \in Members
    BY <1>1, AtMember DEF Inv, Loop
  <1>3. used' \in [ops : Nat, faults : Nat]
    BY SpendTypes DEF Inspect, Fails, Inv, Typed, TypeOK
  <1>4. StatusTypes'
    BY <1>1 DEF StatusTypes, Inv, Typed, TypeOK
  <1>5. CASE pc' = "fail"
    <2>1. UNCHANGED job
      BY <1>5 DEF Inspect, Goto
    <2> QED BY <1>1, <1>3, <1>4, <1>5, <2>1, SameJob
        DEF Inv, Typed, TypeOK, Label, InUpdate, Loop, containers
  <1>6. CASE pc' = "pull"
    <2>1. running[m] # NoImage /\ job' = [job EXCEPT !.old[m] = running[m]]
      BY <1>6 DEF Inspect, Goto
    <2>2. running[m] \in Images /\ job \in Job
      BY <1>2, <2>1 DEF Inv, Typed, TypeOK, Pair, MaybeImage
    <2> HIDE DEF m
    <2>3. /\ job' \in Job
          /\ job'.next = job.next /\ job'.cand = job.cand
          /\ job'.verdict = job.verdict /\ job'.blind = job.blind
          /\ job'.old[m] = running[m]
          /\ \A n \in Members : n # m => job'.old[n] = job.old[n]
      BY <1>2, <2>1, <2>2 DEF Job, Pair, MaybeImage
    <2>4. Typed'
      BY <1>1, <1>3, <1>6, <2>3 DEF Inv, Typed, TypeOK, Positions, Loop, InUpdate, Label
    <2>5. \A n \in Members : DoneWith(n)' => DoneWith(n) /\ n # m
      BY <1>1, <1>6, <2>3 DEF DoneWith, Earlier, m
    <2>6. JobTrust'
      BY <1>1, <1>2, <1>6, <2>2, <2>3, <2>5
      DEF Inv, JobTrust, Loop, Found, Vetted, Chosen, Older, m
    <2>7. job.verdict = "none"
      BY <1>1 DEF Inv, Typed, Positions, InUpdate, Loop
    <2>8. TrustedPair' /\ PairVerdict'
      BY <1>1, <2>3, <2>7 DEF Inv, TrustedPair, PairVerdict
    <2> QED BY <2>4, <2>6, <2>8 DEF Inv
  <1> QED BY <1>5, <1>6 DEF Inspect, Goto

\* A pulled candidate is not older, unless a version could not be read.
LEMMA PullStep ==
  ASSUME Inv, Pull PROVE Inv'
  <1>1. pc = "pull" /\ UNCHANGED <<state, history, known, override, running>>
    BY DEF Pull, status
  <1>2. PICK m \in Members : m = Order[job.next]
    BY <1>1, AtMember DEF Inv, Loop
  <1>3. PICK f \in {0, 1} :
          /\ Persist(f)
          /\ \/ /\ ~job.expired /\ Spend(f)
                /\ \E image \in Images :
                     /\ local' = [local EXCEPT ![m] = @ \cup {image}]
                     /\ job' = [job EXCEPT !.cand[m] = image]
                     /\ Goto(IF Older(image, job.old[m]) THEN "fail" ELSE "attest")
             \/ /\ ~job.expired /\ Spend(f + 1)
                /\ \E image \in Images :
                     /\ local' = [local EXCEPT ![m] = @ \cup {image}]
                     /\ job' = [job EXCEPT !.cand[m] = image, !.blind = TRUE]
                /\ Goto("attest")
             \/ /\ IF job.expired THEN Spend(f) ELSE Spend(f + 1)
                /\ Goto("fail")
                /\ UNCHANGED <<local, job>>
    BY <1>2 DEF Pull
  <1>4. StatusTypes'
    BY <1>1, <1>3, PersistTypes DEF Inv, Typed, TypeOK, StatusTypes
  <1>5. used' \in [ops : Nat, faults : Nat]
    <2>1. f \in Nat /\ f + 1 \in Nat /\ used \in [ops : Nat, faults : Nat]
      BY DEF Inv, Typed, TypeOK
    <2>2. Spend(f) \/ Spend(f + 1)
      BY <1>3
    <2> QED BY <2>1, <2>2, SpendTypes
  <1>6. job.verdict = "none" /\ job \in Job /\ local \in [Members -> SUBSET Images]
    BY <1>1 DEF Inv, Typed, TypeOK, Positions, InUpdate, Loop
  <1>7. CASE UNCHANGED <<local, job>> /\ pc' = "fail"
    BY <1>1, <1>4, <1>5, <1>7, SameJob
    DEF Inv, Typed, TypeOK, Label, InUpdate, Loop, containers
  <1>8. ASSUME NEW image \in Images, NEW blind \in BOOLEAN,
               local' = [local EXCEPT ![m] = @ \cup {image}],
               job' = [job EXCEPT !.cand[m] = image, !.blind = blind],
               job.blind => blind,
               \/ pc' = "fail"
               \/ pc' = "attest" /\ (blind \/ ~Older(image, job.old[m]))
        PROVE  Inv'
    <2>1. /\ job' \in Job
          /\ job'.next = job.next /\ job'.old = job.old
          /\ job'.verdict = job.verdict /\ job'.blind = blind
          /\ job'.cand[m] = image
          /\ \A n \in Members : n # m => job'.cand[n] = job.cand[n]
      BY <1>2, <1>6, <1>8 DEF Job, Pair, MaybeImage
    <2>2. local' \in [Members -> SUBSET Images]
      BY <1>2, <1>6, <1>8
    <2>3. Typed'
      BY <1>1, <1>4, <1>5, <1>8, <2>1, <2>2
      DEF Inv, Typed, TypeOK, StatusTypes, Positions, Loop, InUpdate, Label
    <2>4. \A n \in Members : DoneWith(n)' /\ pc' = "attest" => DoneWith(n) /\ n # m
      BY <1>2, <1>1, <1>8, <2>1 DEF DoneWith, Earlier
    <2>5. JobTrust'
      <3>1. CASE pc' = "fail"
        BY <3>1 DEF JobTrust, Loop
      <3>2. CASE pc' = "attest"
        <4>1. Found(m) /\ \A n \in Members : DoneWith(n) => Found(n) /\ Vetted(n)
          BY <1>2, <1>1 DEF Inv, JobTrust, Loop
        <4>2. Found(m)' /\ Chosen(m)'
          BY <1>1, <1>8, <2>1, <3>2, <4>1 DEF Found, Chosen, Older
        <4>3. \A n \in Members : DoneWith(n)' => Found(n)' /\ Vetted(n)'
          BY <1>1, <1>8, <2>1, <2>4, <3>2, <4>1 DEF Found, Vetted, Chosen, Older
        <4>4. Order[job'.next] = m
          BY <1>2, <2>1
        <4> QED BY <3>2, <4>2, <4>3, <4>4 DEF JobTrust, Loop, Found, Chosen
      <3> QED BY <1>8, <3>1, <3>2
    <2>6. TrustedPair' /\ PairVerdict'
      BY <1>1, <1>6, <2>1 DEF Inv, TrustedPair, PairVerdict
    <2> QED BY <2>3, <2>5, <2>6 DEF Inv
  <1>9. CASE \E image \in Images :
               /\ local' = [local EXCEPT ![m] = @ \cup {image}]
               /\ job' = [job EXCEPT !.cand[m] = image]
               /\ Goto(IF Older(image, job.old[m]) THEN "fail" ELSE "attest")
    <2>1. PICK image \in Images :
               /\ local' = [local EXCEPT ![m] = @ \cup {image}]
               /\ job' = [job EXCEPT !.cand[m] = image]
               /\ Goto(IF Older(image, job.old[m]) THEN "fail" ELSE "attest")
      BY <1>9
    <2>2. job' = [job EXCEPT !.cand[m] = image, !.blind = job.blind] /\ job.blind \in BOOLEAN
      BY <1>6, <2>1 DEF Job
    <2> QED BY <1>8, <2>1, <2>2 DEF Goto
  <1>10. CASE \E image \in Images :
                /\ local' = [local EXCEPT ![m] = @ \cup {image}]
                /\ job' = [job EXCEPT !.cand[m] = image, !.blind = TRUE]
                /\ pc' = "attest"
    BY <1>8, <1>10
  <1> QED BY <1>3, <1>7, <1>9, <1>10 DEF Goto

\* An attested candidate completes its member.
LEMMA AttestStep ==
  ASSUME Inv, Attest PROVE Inv'
  <1>1. pc = "attest" /\ UNCHANGED <<state, history, known, override, running, local>>
    BY DEF Attest, status, containers
  <1>2. PICK m \in Members : m = Order[job.next] /\ job.next \in 1 .. Len(Order) /\ Len(Order) \in Nat
    BY <1>1, AtMember DEF Inv, Loop
  <1>3. PICK f \in {0, 1} :
          /\ Persist(f)
          /\ \/ /\ ~job.expired /\ job.cand[m] \in Signed
                /\ Spend(f)
                /\ job' = [job EXCEPT !.next = @ + 1]
                /\ Goto(IF job.next = Len(Order) THEN "compare" ELSE "inspect")
             \/ /\ IF job.expired \/ job.cand[m] \notin Signed THEN Spend(f) ELSE Spend(f + 1)
                /\ Goto("fail")
                /\ UNCHANGED job
    BY <1>2 DEF Attest
  <1>4. StatusTypes'
    BY <1>1, <1>3, PersistTypes DEF Inv, Typed, TypeOK, StatusTypes
  <1>5. used' \in [ops : Nat, faults : Nat]
    <2>1. f \in Nat /\ f + 1 \in Nat /\ used \in [ops : Nat, faults : Nat]
      BY DEF Inv, Typed, TypeOK
    <2>2. Spend(f) \/ Spend(f + 1)
      BY <1>3
    <2> QED BY <2>1, <2>2, SpendTypes
  <1>6. job.verdict = "none" /\ job \in Job
    BY <1>1 DEF Inv, Typed, TypeOK, Positions, InUpdate, Loop
  <1>7. CASE pc' = "fail" /\ UNCHANGED job
    BY <1>1, <1>4, <1>5, <1>7, SameJob
    DEF Inv, Typed, TypeOK, Label, InUpdate, Loop, containers
  <1>8. CASE /\ job.cand[m] \in Signed
             /\ job' = [job EXCEPT !.next = @ + 1]
             /\ pc' = IF job.next = Len(Order) THEN "compare" ELSE "inspect"
    <2>1. /\ job' \in Job
          /\ job'.next = job.next + 1 /\ job'.old = job.old /\ job'.cand = job.cand
          /\ job'.verdict = job.verdict /\ job'.blind = job.blind
      BY <1>6, <1>8 DEF Job
    <2>2. Typed'
      BY <1>1, <1>2, <1>4, <1>5, <1>6, <1>8, <2>1
      DEF Inv, Typed, TypeOK, StatusTypes, Positions, Loop, InUpdate, Label
    <2>3. Earlier' = Earlier \cup {m}
      <3>1. 1 .. job'.next - 1 = (1 .. job.next - 1) \cup {job.next}
        BY <1>2, <2>1
      <3> QED BY <1>2, <3>1 DEF Earlier
    <2>4. \A n \in Earlier' : n \in Members => Found(n)' /\ Vetted(n)'
      <3>1. Found(m) /\ Chosen(m) /\ \A n \in Members : DoneWith(n) => Found(n) /\ Vetted(n)
        BY <1>2, <1>1 DEF Inv, JobTrust, Loop
      <3>2. \A n \in Earlier' : n \in Members => Found(n) /\ Vetted(n)
        BY <1>2, <1>8, <2>3, <3>1 DEF DoneWith, Vetted
      <3> QED BY <1>1, <2>1, <3>2 DEF Found, Vetted, Chosen, Older
    <2>5. JobTrust'
      <3>1. CASE pc' = "inspect"
        BY <2>4, <3>1 DEF JobTrust, Loop, DoneWith
      <3>2. CASE pc' = "compare"
        <4>1. job'.next - 1 = Len(Order)
          BY <1>2, <1>8, <2>1, <3>2
        <4>2. Earlier' = Members
          BY <1>2, <4>1, AllMembers DEF Earlier
        <4> QED BY <2>4, <3>2, <4>2 DEF JobTrust, Loop
      <3> QED BY <1>8, <3>1, <3>2
    <2>6. TrustedPair' /\ PairVerdict'
      BY <1>1, <1>6, <2>1 DEF Inv, TrustedPair, PairVerdict
    <2> QED BY <2>2, <2>5, <2>6 DEF Inv
  <1> QED BY <1>3, <1>7, <1>8 DEF Goto

\* A step that gives a verdict or drops out keeps the rest of its job.
LEMMA VerdictType ==
  ASSUME job \in Job, NEW verdict \in Verdict, job' = [job EXCEPT !.verdict = verdict]
  PROVE  /\ job' \in Job /\ job'.verdict = verdict
         /\ job'.next = job.next /\ job'.old = job.old /\ job'.cand = job.cand
         /\ job'.blind = job.blind
  BY DEF Job

\* Nothing to do is true of both members.
LEMMA CompareStep ==
  ASSUME Inv, Compare PROVE Inv'
  <1>1. pc = "compare" /\ UNCHANGED <<state, history, known, disk, override, running, local, used>>
    BY DEF Compare, Keep, status, containers
  <1>2. /\ job.verdict = "none" /\ job \in Job
        /\ \A m \in Members : Found(m) /\ Vetted(m)
    BY <1>1 DEF Inv, Typed, TypeOK, Positions, InUpdate, JobTrust
  <1>3. CASE pc' = "record" /\ job.cand = job.old /\ job' = [job EXCEPT !.verdict = "no_change"]
    <2>1. /\ job' \in Job /\ job'.verdict = "no_change"
          /\ job'.next = job.next /\ job'.old = job.old /\ job'.cand = job.cand
          /\ job'.blind = job.blind
      BY <1>2, <1>3, VerdictType DEF Verdict
    <2>2. Typed'
      BY <1>1, <1>3, <2>1 DEF Inv, Typed, TypeOK, Positions, Loop, InUpdate, Label
    <2>3. JobTrust'
      BY <1>3 DEF JobTrust, Loop
    <2>4. running = job.old
      BY <1>2 DEF Found, Inv, Typed, TypeOK, Job, Pair
    <2>5. TrustedPair' /\ PairVerdict'
      BY <1>1, <2>1, <2>4 DEF Inv, TrustedPair, PairVerdict
    <2> QED BY <2>2, <2>3, <2>5 DEF Inv
  <1>4. CASE pc' = "override" /\ UNCHANGED job
    <2>1. Typed'
      BY <1>1, <1>4 DEF Inv, Typed, TypeOK, Positions, Loop, InUpdate, Label
    <2>2. JobTrust'
      BY <1>1, <1>2, <1>4 DEF JobTrust, Loop, Found, Vetted, Chosen, Older
    <2>3. TrustedPair' /\ PairVerdict'
      BY <1>1, <1>2, <1>4 DEF Inv, TrustedPair, PairVerdict
    <2> QED BY <2>1, <2>2, <2>3 DEF Inv
  <1> QED BY <1>3, <1>4 DEF Compare, Goto

\* The override file names the candidates, or the update has failed.
LEMMA OverrideStep ==
  ASSUME Inv, Override PROVE Inv'
  <1>1. pc = "override" /\ UNCHANGED <<state, history, known, running, local, job>>
    BY DEF Override, WriteOverride, Abort, status, containers
  <1>2. /\ job.verdict = "none" /\ job \in Job /\ job.cand \in Pair /\ override \in Pair
        /\ \A m \in Members : Found(m) /\ Vetted(m)
    BY <1>1 DEF Inv, Typed, TypeOK, Positions, InUpdate, JobTrust, Job
  <1>3. PICK f \in {0, 1} :
          /\ Persist(f)
          /\ \/ override' = job.cand /\ pc' = "up" /\ Spend(f)
             \/ override' \in {override, job.cand} /\ pc' = "fail" /\ Spend(f + 1)
    BY DEF Override, WriteOverride, Abort, Goto
  <1>4. StatusTypes'
    BY <1>1, <1>3, PersistTypes DEF Inv, Typed, TypeOK, StatusTypes
  <1>5. used' \in [ops : Nat, faults : Nat]
    <2>1. f \in Nat /\ f + 1 \in Nat /\ used \in [ops : Nat, faults : Nat]
      BY DEF Inv, Typed, TypeOK
    <2>2. Spend(f) \/ Spend(f + 1)
      BY <1>3
    <2> QED BY <2>1, <2>2, SpendTypes
  <1>6. Typed'
    BY <1>1, <1>2, <1>3, <1>4, <1>5
    DEF Inv, Typed, TypeOK, StatusTypes, Positions, Loop, InUpdate, Label
  <1>7. JobTrust'
    BY <1>1, <1>2, <1>3 DEF JobTrust, Loop, Found, Vetted, Chosen, Older
  <1>8. TrustedPair' /\ PairVerdict'
    BY <1>1, <1>2 DEF Inv, TrustedPair, PairVerdict
  <1> QED BY <1>6, <1>7, <1>8 DEF Inv

\* Compose over trusted images leaves trusted images, and goes on to verify or
\* to what follows an error.
LEMMA ComposeResult ==
  ASSUME TypeOK, TrustedPair, NEW next, NEW otherwise \in BOOLEAN,
         Compose(otherwise, next), \A m \in Members : override[m] \in Trusted
  PROVE  /\ running' \in Pair /\ TrustedPair'
         /\ used' \in [ops : Nat, faults : Nat]
         /\ \A m \in Members : running'[m] \in {running[m], override[m], NoImage}
         /\ (pc' = next /\ UNCHANGED job) \/ otherwise
  <1>1. CASE /\ \/ running' = override
                \/ QuirkyCompose /\ running' \in Between(running, override)
             /\ Goto(next)
             /\ UNCHANGED <<job, used>>
    BY <1>1, BetweenTrusted DEF TypeOK, Goto, Between
  <1>2. CASE /\ Spend(1)
             /\ running' \in Between(running, override) \cup Between(Absent, override)
                              \cup Between(running, Absent)
             /\ otherwise
    <2>1. used' \in [ops : Nat, faults : Nat]
      BY <1>2, SpendTypes DEF TypeOK
    <2>2. \A m \in Members : running'[m] \in {running[m], override[m], NoImage}
      BY <1>2 DEF Between, Absent
    <2> QED BY <1>2, <2>1, <2>2, BetweenTrusted
  <1>3. CASE otherwise /\ UNCHANGED <<running, used>>
    BY <1>3 DEF TypeOK, TrustedPair
  <1> QED BY <1>1, <1>2, <1>3 DEF Compose

\* Both members are replaced, or some of them.
LEMMA ComposeUpStep ==
  ASSUME Inv, ComposeUp
  PROVE  Inv' /\ \A m \in Members :
                   /\ running'[m] \in {running[m], job.cand[m], NoImage}
                   /\ running[m] \in Images /\ running[m] = job.old[m]
                   /\ job.blind \/ ~Older(job.cand[m], job.old[m])
  <1>1. /\ pc = "up" /\ UNCHANGED <<state, history, known, disk, override, local, job>>
        /\ pc' \in {"verify", "rbOverride"}
    BY DEF ComposeUp, Compose, GiveUp, Keep, status, Goto
  <1>2. /\ job.verdict = "none" /\ override = job.cand
        /\ \A m \in Members : Found(m) /\ Vetted(m)
    BY <1>1 DEF Inv, Typed, Positions, InUpdate, JobTrust
  <1>3. \A m \in Members : override[m] \in Trusted /\ job.old[m] \in Trusted
    BY <1>2, ConstantsAssumption DEF Found, Vetted, Trusted, Inv, TrustedPair, ConstantsAssumption
  <1>4. /\ running' \in Pair /\ TrustedPair'
        /\ used' \in [ops : Nat, faults : Nat]
        /\ \A m \in Members : running'[m] \in {running[m], override[m], NoImage}
    <2>1. Compose(GiveUp, "verify")
      BY DEF ComposeUp
    <2>2. CASE Compose(TRUE, "verify")
      BY <1>3, <2>2, ComposeResult DEF Inv, Typed
    <2> QED BY <2>1, <2>2 DEF Compose
  <1>5. Typed'
    BY <1>1, <1>2, <1>4 DEF Inv, Typed, TypeOK, Positions, Loop, InUpdate, Label
  <1>6. JobTrust'
    BY <1>1, <1>2, <1>3 DEF JobTrust, Loop, Vetted, Chosen, Older
  <1>7. PairVerdict'
    BY <1>1, <1>2 DEF PairVerdict
  <1> QED BY <1>2, <1>4, <1>5, <1>6, <1>7 DEF Inv, Found, Vetted, Chosen

\* A success is true of both members.
LEMMA VerifyStep ==
  ASSUME Inv, Verify PROVE Inv'
  <1>1. pc = "verify" /\ UNCHANGED <<state, history, known, disk, override, running, local, used>>
    BY DEF Verify, Keep, status, containers
  <1>2. /\ job.verdict = "none" /\ job \in Job /\ override = job.cand
        /\ \A m \in Members : Vetted(m) /\ job.old[m] \in Trusted
    BY <1>1 DEF Inv, Typed, TypeOK, Positions, InUpdate, JobTrust
  <1>3. CASE /\ running = job.cand /\ pc' = "record"
             /\ job' = [job EXCEPT !.verdict = "success"]
    <2>1. /\ job' \in Job /\ job'.verdict = "success"
          /\ job'.next = job.next /\ job'.old = job.old /\ job'.cand = job.cand
          /\ job'.blind = job.blind
      BY <1>2, <1>3, VerdictType DEF Verdict
    <2>2. Typed'
      BY <1>1, <1>3, <2>1 DEF Inv, Typed, TypeOK, Positions, Loop, InUpdate, Label
    <2>3. JobTrust'
      BY <1>3 DEF JobTrust, Loop
    <2>4. TrustedPair' /\ PairVerdict'
      BY <1>1, <1>2, <1>3, <2>1 DEF Inv, TrustedPair, PairVerdict, Vetted, Chosen, Older
    <2> QED BY <2>2, <2>3, <2>4 DEF Inv
  <1>4. CASE pc' = "rbOverride" /\ UNCHANGED job
    <2>1. Typed'
      BY <1>1, <1>4 DEF Inv, Typed, TypeOK, Positions, Loop, InUpdate, Label
    <2>2. JobTrust'
      BY <1>1, <1>2, <1>4 DEF JobTrust, Loop, Vetted, Chosen, Older
    <2>3. TrustedPair' /\ PairVerdict'
      BY <1>1, <1>2, <1>4 DEF Inv, TrustedPair, PairVerdict
    <2> QED BY <2>1, <2>2, <2>3 DEF Inv
  <1> QED BY <1>3, <1>4 DEF Verify, Verified, GiveUp, Goto

\* The override file names the images to go back to, or the rollback has failed.
LEMMA RollbackOverrideStep ==
  ASSUME Inv, RollbackOverride PROVE Inv'
  <1>1. pc = "rbOverride" /\ UNCHANGED <<state, history, known, running, local>>
    BY DEF RollbackOverride, WriteOverride, status, containers
  <1>2. /\ job.verdict = "none" /\ job \in Job /\ job.old \in Pair /\ override \in Pair
        /\ \A m \in Members : Vetted(m) /\ job.old[m] \in Trusted
    BY <1>1 DEF Inv, Typed, TypeOK, Positions, InUpdate, JobTrust, Job
  <1>3. PICK f \in {0, 1} :
          /\ Persist(f)
          /\ \/ override' = job.old /\ pc' = "rbUp" /\ UNCHANGED job /\ Spend(f)
             \/ /\ override' \in {override, job.old} /\ pc' = "record"
                /\ job' = [job EXCEPT !.verdict = "failed"] /\ Spend(f + 1)
    BY DEF RollbackOverride, WriteOverride, RollbackFails, Goto
  <1>4. StatusTypes'
    BY <1>1, <1>3, PersistTypes DEF Inv, Typed, TypeOK, StatusTypes
  <1>5. used' \in [ops : Nat, faults : Nat]
    <2>1. f \in Nat /\ f + 1 \in Nat /\ used \in [ops : Nat, faults : Nat]
      BY DEF Inv, Typed, TypeOK
    <2>2. Spend(f) \/ Spend(f + 1)
      BY <1>3
    <2> QED BY <2>1, <2>2, SpendTypes
  <1>6. CASE pc' = "rbUp"
    <2>1. override' = job.old /\ UNCHANGED job
      BY <1>3, <1>6
    <2>2. Typed'
      BY <1>1, <1>2, <1>4, <1>5, <1>6, <2>1
      DEF Inv, Typed, TypeOK, StatusTypes, Positions, Loop, InUpdate, Label
    <2>3. JobTrust'
      BY <1>1, <1>2, <1>6, <2>1 DEF JobTrust, Loop, Vetted, Chosen, Older
    <2>4. TrustedPair' /\ PairVerdict'
      BY <1>1, <1>2, <2>1 DEF Inv, TrustedPair, PairVerdict
    <2> QED BY <2>2, <2>3, <2>4 DEF Inv
  <1>7. CASE pc' = "record"
    <2>1. /\ override' \in Pair /\ job' = [job EXCEPT !.verdict = "failed"]
      BY <1>2, <1>3, <1>7
    <2>2. job' \in Job /\ job'.verdict = "failed" /\ job'.next = job.next
      BY <1>2, <2>1, VerdictType DEF Verdict
    <2>3. Typed'
      BY <1>1, <1>4, <1>5, <1>7, <2>1, <2>2
      DEF Inv, Typed, TypeOK, StatusTypes, Positions, Loop, InUpdate, Label
    <2>4. JobTrust'
      BY <1>7 DEF JobTrust, Loop
    <2>5. TrustedPair' /\ PairVerdict'
      BY <1>1, <2>2 DEF Inv, TrustedPair, PairVerdict
    <2> QED BY <2>3, <2>4, <2>5 DEF Inv
  <1> QED BY <1>3, <1>6, <1>7

\* The images to go back to are started.
LEMMA RollbackUpStep ==
  ASSUME Inv, RollbackUp PROVE Inv'
  <1>1. pc = "rbUp" /\ UNCHANGED <<state, history, known, disk, override, local>>
    BY DEF RollbackUp, Keep, status
  <1>2. /\ job.verdict = "none" /\ job \in Job /\ override = job.old
        /\ \A m \in Members : Vetted(m) /\ override[m] \in Trusted
    BY <1>1 DEF Inv, Typed, TypeOK, Positions, InUpdate, JobTrust
  <1>3. /\ running' \in Pair /\ TrustedPair'
        /\ used' \in [ops : Nat, faults : Nat]
    <2>1. Compose(RollbackFails, "rbVerify")
      BY DEF RollbackUp
    <2>2. CASE Compose(TRUE, "rbVerify")
      BY <1>2, <2>2, ComposeResult DEF Inv, Typed
    <2> QED BY <2>1, <2>2 DEF Compose
  <1>4. CASE pc' = "rbVerify" /\ UNCHANGED job
    <2>1. Typed'
      BY <1>1, <1>2, <1>3, <1>4 DEF Inv, Typed, TypeOK, Positions, Loop, InUpdate, Label
    <2>2. JobTrust'
      BY <1>1, <1>2, <1>4 DEF JobTrust, Loop, Vetted, Chosen, Older
    <2>3. PairVerdict'
      BY <1>2, <1>4 DEF PairVerdict
    <2> QED BY <1>3, <2>1, <2>2, <2>3 DEF Inv
  <1>5. CASE pc' = "record" /\ job' = [job EXCEPT !.verdict = "failed"]
    <2>1. job' \in Job /\ job'.verdict = "failed" /\ job'.next = job.next
      BY <1>2, <1>5, VerdictType DEF Verdict
    <2>2. Typed'
      BY <1>1, <1>3, <1>5, <2>1 DEF Inv, Typed, TypeOK, Positions, Loop, InUpdate, Label
    <2>3. JobTrust'
      BY <1>5 DEF JobTrust, Loop
    <2>4. PairVerdict'
      BY <2>1 DEF PairVerdict
    <2> QED BY <1>3, <2>2, <2>3, <2>4 DEF Inv
  <1> QED BY <1>4, <1>5 DEF RollbackUp, Compose, RollbackFails, Goto

\* A rollback is true of both members.
LEMMA RollbackVerifyStep ==
  ASSUME Inv, RollbackVerify PROVE Inv'
  <1>1. pc = "rbVerify" /\ UNCHANGED <<state, history, known, disk, override, running, local>>
    BY DEF RollbackVerify, Keep, status, containers
  <1>2. job.verdict = "none" /\ job \in Job /\ override = job.old
    BY <1>1 DEF Inv, Typed, TypeOK, Positions, InUpdate, JobTrust
  <1>3. used' \in [ops : Nat, faults : Nat]
    BY SpendTypes DEF RollbackVerify, Inv, Typed, TypeOK
  <1>4. PICK verdict \in {"rolled_back", "failed"} :
          /\ pc' = "record" /\ job' = [job EXCEPT !.verdict = verdict]
          /\ verdict = "rolled_back" => running = job.old
    BY DEF RollbackVerify, RollbackFails, Verified, Goto
  <1>5. /\ job' \in Job /\ job'.verdict = verdict
        /\ job'.next = job.next /\ job'.old = job.old
    BY <1>2, <1>4, VerdictType DEF Verdict
  <1>6. Typed'
    BY <1>1, <1>3, <1>4, <1>5 DEF Inv, Typed, TypeOK, Positions, Loop, InUpdate, Label
  <1>7. JobTrust'
    BY <1>4 DEF JobTrust, Loop
  <1>8. TrustedPair' /\ PairVerdict'
    BY <1>1, <1>2, <1>4, <1>5 DEF Inv, TrustedPair, PairVerdict
  <1> QED BY <1>6, <1>7, <1>8 DEF Inv

\* The record of an update.
LEMMA RecordHistoryStep ==
  ASSUME Inv, RecordHistory PROVE Inv'
  <1>1. PICK f \in {0, 1} : Persist(f) /\ Spend(f)
    BY DEF RecordHistory
  <1>2. /\ pc = "record" /\ pc' \in {"cleanup", "end", "fail"}
        /\ UNCHANGED <<state, known, override, containers, job>>
    BY DEF RecordHistory, Goto
  <1>3. history' \in Seq(Entry)
    <2> DEFINE entry == [outcome |-> job.verdict, from |-> job.old, to |-> job.cand, removed |-> {}]
    <2>1. entry \in Entry
      BY <1>2 DEF Inv, Typed, TypeOK, Positions, Job, Entry
    <2> HIDE DEF entry
    <2>2. Recorded(entry) \in Seq(Entry)
      BY <2>1, RecordedType DEF Inv, Typed, TypeOK
    <2> QED BY <2>2 DEF RecordHistory, entry
  <1>4. StatusTypes'
    BY <1>1, <1>2, <1>3, PersistTypes DEF Inv, Typed, TypeOK, StatusTypes
  <1>5. used' \in [ops : Nat, faults : Nat]
    BY <1>1, SpendTypes DEF Inv, Typed, TypeOK
  <1> QED BY <1>2, <1>4, <1>5, SameJob DEF Inv, Typed, TypeOK, Label, InUpdate, Loop

\* The cleanup after a success removes images, not containers.
LEMMA CleanupStep ==
  ASSUME Inv, CleanupAfterSuccess PROVE Inv'
  <1>1. /\ pc = "cleanup" /\ pc' = "attach"
        /\ UNCHANGED <<state, history, known, disk, override, running, used>>
    BY DEF CleanupAfterSuccess, Keep, status, Goto
  <1>2. PICK gone \in SUBSET {pair \in Members \X Images : pair[2] \in Removable(pair[1])} :
          /\ local' = [m \in Members |-> {image \in local[m] : <<m, image>> \notin gone}]
          /\ job' = [job EXCEPT !.removed = gone]
    BY DEF CleanupAfterSuccess
  <1>3. /\ job' \in Job /\ job'.verdict = job.verdict
        /\ job'.next = job.next /\ job'.old = job.old /\ job'.cand = job.cand
        /\ job'.blind = job.blind
    BY <1>2 DEF Inv, Typed, TypeOK, Job
  <1>4. local' \in [Members -> SUBSET Images]
    BY <1>2 DEF Inv, Typed, TypeOK
  <1>5. Typed'
    BY <1>1, <1>3, <1>4 DEF Inv, Typed, TypeOK, Positions, Loop, InUpdate, Label
  <1>6. JobTrust'
    BY <1>1 DEF JobTrust, Loop
  <1>7. TrustedPair' /\ PairVerdict'
    BY <1>1, <1>3 DEF Inv, TrustedPair, PairVerdict, Older
  <1> QED BY <1>5, <1>6, <1>7 DEF Inv

\* What it removed is added to the record.
LEMMA AttachCleanupStep ==
  ASSUME Inv, AttachCleanup PROVE Inv'
  <1>1. PICK f \in {0, 1} : Persist(f) /\ Spend(f)
    BY DEF AttachCleanup
  <1>2. pc' = "end" /\ UNCHANGED <<state, known, override, containers, job>>
    BY DEF AttachCleanup, Goto
  <1>3. history' \in Seq(Entry)
    <2>1. CASE history = <<>>
      BY <2>1 DEF AttachCleanup, Inv, Typed, TypeOK
    <2>2. CASE history # <<>>
      <3>1. history' = [history EXCEPT ![1].removed = job.removed]
        BY <2>2 DEF AttachCleanup
      <3>2. history \in Seq(Entry) /\ job.removed \in SUBSET (Members \X Images)
        BY DEF Inv, Typed, TypeOK, Job
      <3>3. 1 \in 1 .. Len(history)
        <4>1. Len(history) \in Nat /\ Len(history) # 0
          BY <2>2, <3>2, LenProperties, EmptySeq
        <4> QED BY <4>1
      <3> DEFINE updated == [history[1] EXCEPT !.removed = job.removed]
      <3>4. history[1] \in Entry
        BY <3>2, <3>3, ElementOfSeq
      <3>5. updated \in Entry
        BY <3>2, <3>4 DEF Entry
      <3>6. history' = [history EXCEPT ![1] = updated]
        BY <3>1
      <3> HIDE DEF updated
      <3> QED BY <3>2, <3>3, <3>5, <3>6, ExceptSeq
    <2> QED BY <2>1, <2>2
  <1>4. StatusTypes'
    BY <1>1, <1>2, <1>3, PersistTypes DEF Inv, Typed, TypeOK, StatusTypes
  <1>5. used' \in [ops : Nat, faults : Nat]
    BY <1>1, SpendTypes DEF Inv, Typed, TypeOK
  <1> QED BY <1>2, <1>4, <1>5, SameJob DEF Inv, Typed, TypeOK, Label, InUpdate, Loop

\* A check of one member finds identities and pulls images.
LEMMA CheckMemberStep ==
  ASSUME Inv, CheckMember PROVE Inv'
  <1>1. /\ pc = "check" /\ job.next <= Len(Order)
        /\ UNCHANGED <<state, history, known, override, running, pc>>
    BY DEF CheckMember, status
  <1>2. PICK m \in Members : m = Order[job.next]
    BY <1>1, AtMember DEF Inv
  <1>3. PICK f \in {0, 1} : Persist(f) /\ (Spend(f) \/ Spend(f + 1))
    BY DEF CheckMember
  <1>4. StatusTypes'
    BY <1>1, <1>3, PersistTypes DEF Inv, Typed, TypeOK, StatusTypes
  <1>5. used' \in [ops : Nat, faults : Nat]
    <2>1. f \in Nat /\ f + 1 \in Nat /\ used \in [ops : Nat, faults : Nat]
      BY DEF Inv, Typed, TypeOK
    <2> QED BY <1>3, <2>1, SpendTypes
  <1>6. /\ job \in Job /\ local \in [Members -> SUBSET Images]
        /\ running[m] \in MaybeImage /\ job.next \in Nat
    BY <1>2 DEF Inv, Typed, TypeOK, Pair, Job
  <1>7. /\ job' \in Job /\ job'.next = job.next + 1
        /\ job'.old = job.old /\ job'.cand = job.cand
        /\ job'.verdict = job.verdict /\ job'.blind = job.blind
        /\ local' \in [Members -> SUBSET Images]
    <2>1. CASE job' = [job EXCEPT !.next = @ + 1] /\ UNCHANGED local
      BY <1>6, <2>1 DEF Job
    <2>2. CASE job' = [job EXCEPT !.next = @ + 1, !.seen[m].cur = running[m]] /\ UNCHANGED local
      <3>0. PICK seen : seen = [job.seen EXCEPT ![m].cur = running[m]]
        OBVIOUS
      <3>1. seen \in [Members -> Identity]
        <4>1. job.seen \in [Members -> Identity] /\ job.seen[m] \in Identity
          BY <1>2, <1>6 DEF Job
        <4>2. [job.seen[m] EXCEPT !.cur = running[m]] \in Identity
          BY <1>6, <4>1 DEF Identity
        <4> QED BY <1>2, <3>0, <4>1, <4>2
      <3>2. job' = [job EXCEPT !.next = job.next + 1, !.seen = seen]
        BY <2>2, <3>0
      <3>3. job.next + 1 \in Nat /\ local' \in [Members -> SUBSET Images]
        BY <1>6, <2>2
      <3> DEFINE k == [job EXCEPT !.next = job.next + 1, !.seen = seen]
      <3>4. /\ k \in Job /\ k.next = job.next + 1
            /\ k.old = job.old /\ k.cand = job.cand
            /\ k.verdict = job.verdict /\ k.blind = job.blind
        <4>1. job \in Job
          BY <1>6
        <4>2. job.next + 1 \in Nat
          BY <3>3
        <4> QED BY <4>1, <4>2, <3>1 DEF Job
      <3>5. job' = k
        BY <3>2
      <3> HIDE DEF k
      <3> QED BY <3>3, <3>4, <3>5
    <2>3. CASE \E image \in Images :
                 /\ local' = [local EXCEPT ![m] = @ \cup {image}]
                 /\ job' = [job EXCEPT !.next = @ + 1,
                                       !.seen[m] = [cur |-> running[m], cand |-> image]]
      <3>1. PICK image \in Images :
              /\ local' = [local EXCEPT ![m] = @ \cup {image}]
              /\ job' = [job EXCEPT !.next = @ + 1,
                                    !.seen[m] = [cur |-> running[m], cand |-> image]]
        BY <2>3
      <3>2. local' \in [Members -> SUBSET Images]
        BY <1>2, <1>6, <3>1
      <3>0. PICK seen : seen = [job.seen EXCEPT ![m] = [cur |-> running[m], cand |-> image]]
        OBVIOUS
      <3>3. seen \in [Members -> Identity]
        <4>1. job.seen \in [Members -> Identity]
          BY <1>6 DEF Job
        <4>2. [cur |-> running[m], cand |-> image] \in Identity
          BY <1>6 DEF Identity, MaybeImage
        <4> QED BY <1>2, <3>0, <4>1, <4>2
      <3>4. job' = [job EXCEPT !.next = job.next + 1, !.seen = seen]
        BY <3>0, <3>1
      <3>5. job.next + 1 \in Nat
        BY <1>6
      <3> DEFINE k == [job EXCEPT !.next = job.next + 1, !.seen = seen]
      <3>6. /\ k \in Job /\ k.next = job.next + 1
            /\ k.old = job.old /\ k.cand = job.cand
            /\ k.verdict = job.verdict /\ k.blind = job.blind
        <4>1. job \in Job
          BY <1>6
        <4>2. job.next + 1 \in Nat
          BY <3>5
        <4> QED BY <4>1, <4>2, <3>3 DEF Job
      <3>7. job' = k
        BY <3>4
      <3> HIDE DEF k
      <3> QED BY <3>2, <3>6, <3>7
    <2> QED BY <1>2, <2>1, <2>2, <2>3 DEF CheckMember
  <1>8. Typed'
    BY <1>1, <1>4, <1>5, <1>6, <1>7 DEF Inv, Typed, TypeOK, StatusTypes, Positions, Loop, InUpdate
  <1>9. JobTrust'
    BY <1>1 DEF JobTrust, Loop
  <1>10. TrustedPair' /\ PairVerdict'
    BY <1>1, <1>7 DEF Inv, TrustedPair, PairVerdict, Older
  <1> QED BY <1>8, <1>9, <1>10 DEF Inv

\* Looking at the containers changes what is known of them.
LEMMA StatusSyncedStep ==
  ASSUME Inv, StatusSynced PROVE Inv'
  <1>1. UNCHANGED <<state, history, override, containers, pc, job>>
    BY DEF StatusSynced
  <1>2. PICK seen \in SUBSET {m \in Members : running[m] # NoImage}, f \in {0, 1} :
          /\ known' = [m \in Members |->
                         IF m \in seen THEN [known[m] EXCEPT !.cur = running[m]] ELSE known[m]]
          /\ Spend(f) \/ Spend(f + 1)
          /\ Persist(f)
    BY DEF StatusSynced
  <1>3. known' \in [Members -> Identity]
    BY <1>2 DEF Inv, Typed, TypeOK, Pair, Identity
  <1>4. StatusTypes'
    BY <1>1, <1>2, <1>3, PersistTypes DEF Inv, Typed, TypeOK, StatusTypes
  <1>5. used' \in [ops : Nat, faults : Nat]
    <2>1. f \in Nat /\ f + 1 \in Nat /\ used \in [ops : Nat, faults : Nat]
      BY DEF Inv, Typed, TypeOK
    <2> QED BY <1>2, <2>1, SpendTypes
  <1> QED BY <1>1, <1>4, <1>5, SameJob DEF Inv, Typed, TypeOK

\* Every step keeps the invariant.
LEMMA InvNext == Inv /\ [Next]_vars => Inv'
  <1> SUFFICES ASSUME Inv, [Next]_vars PROVE Inv'
    OBVIOUS
  <1>1. CASE UpdateStep
    BY <1>1, InspectStep, PullStep, AttestStep, CompareStep, OverrideStep, ComposeUpStep,
       VerifyStep, RollbackOverrideStep, RollbackUpStep, RollbackVerifyStep, RecordHistoryStep,
       CleanupStep, AttachCleanupStep, FinishStep, FailStep
    DEF UpdateStep
  <1>2. CASE CheckMember \/ CheckDone
    BY <1>2, CheckMemberStep, CheckDoneStep
  <1>3. CASE StartCheck \/ StartUpdate
    BY <1>3, StartStep DEF StartCheck, StartUpdate, State
  <1>4. CASE Expire \/ StatusSynced \/ Restart
    BY <1>4, ExpireStep, StatusSyncedStep, ReloadStep DEF Restart
  <1>5. CASE UNCHANGED vars
    BY <1>5, SameJob DEF vars, status, containers, Inv, Typed, TypeOK, StatusTypes
  <1> QED BY <1>1, <1>2, <1>3, <1>4, <1>5 DEF Next, Work

-----------------------------------------------------------------------------
(* The theorems *)

\* Inv holds in every state.
THEOREM Invariance == Spec => []Inv
  BY InvInit, InvNext, PTL DEF Spec

\* The updater's state, files, containers and goroutine keep their types.
THEOREM TypeCorrectness == Spec => []TypeOK
  <1>1. Inv => TypeOK
    BY DEF Inv, Typed
  <1> QED BY <1>1, Invariance, PTL

\* update()'s attestation gate: whatever fails and whenever the process dies,
\* Core and WebApp run an attested image or the installed one.
THEOREM TrustedImagesRun == Spec => []TrustedPair
  <1>1. Inv => TrustedPair
    BY DEF Inv
  <1> QED BY <1>1, Invariance, PTL

\* verify() and rollback(): what the history will say is true of both members.
THEOREM VerdictsAreTrue == Spec => []PairVerdict
  <1>1. Inv => PairVerdict
    BY DEF Inv
  <1> QED BY <1>1, Invariance, PTL

\* The refusal of an older release in update(): only a rollback, or an update
\* that could not read a version, replaces a release by an older one.
THEOREM NeverDowngrades == Spec => NoDowngrade
  <1>1. ASSUME Inv, [Next]_vars, NEW m \in Members,
               running[m] # NoImage, running'[m] # NoImage, Older(running'[m], running[m])
        PROVE  pc = "rbUp" \/ job.blind
    <2>1. CASE running' = running
      BY <1>1, <2>1, ConstantsAssumption
      DEF Older, Inv, Typed, TypeOK, Pair, MaybeImage, ConstantsAssumption
    <2>2. CASE ComposeUp
      <3>1. /\ running'[m] \in {running[m], job.cand[m], NoImage}
            /\ running[m] \in Images /\ running[m] = job.old[m]
            /\ job.blind \/ ~Older(job.cand[m], job.old[m])
        BY <1>1, <2>2, ComposeUpStep
      <3>2. CASE running'[m] = running[m]
        BY <1>1, <3>1, <3>2, ConstantsAssumption DEF Older, ConstantsAssumption
      <3> QED BY <1>1, <3>1, <3>2
    <2>3. CASE RollbackUp
      BY <2>3 DEF RollbackUp
    <2>4. \/ running' = running \/ ComposeUp \/ RollbackUp
      BY <1>1
      DEF Next, Work, UpdateStep, Inspect, Pull, Attest, Compare, Override, WriteOverride, Verify,
          RollbackOverride, RollbackVerify, RecordHistory, CleanupAfterSuccess, AttachCleanup,
          Finish, Fail, CheckMember, CheckDone, StartCheck, StartUpdate, Start, Expire,
          StatusSynced, Restart, Reload, vars, containers
    <2> QED BY <2>1, <2>2, <2>3, <2>4
  <1>2. Inv /\ [Next]_vars =>
          [\A m \in Members :
             /\ running[m] # NoImage /\ running'[m] # NoImage
             /\ Older(running'[m], running[m])
             => pc = "rbUp" \/ job.blind]_vars
    BY <1>1
  <1> QED BY <1>2, Invariance, PTL DEF Spec, NoDowngrade

=============================================================================
