------------------------ MODULE UnboundConfigProofs ------------------------
(***************************************************************************)
(* For any requests, settings and bounds, whatever fails and whoever       *)
(* restarts the container in the middle of an apply: between applies the   *)
(* three files belong together and the container runs them; an apply       *)
(* changes what it was asked for, or nothing; what it has replaced is in   *)
(* the history; and an import loses nothing of the file it reads.          *)
(***************************************************************************)
EXTENDS UnboundConfig, FiniteSetTheorems, WellFoundedInduction, TLAPS

Idle == {"idle", "waiting"}

\* What the records of the model consist of.
IsRecord(f) == DOMAIN f = {"conf", "settings", "custom"}
Shaped ==
  /\ IsRecord(files) /\ DOMAIN running = {"up", "conf", "custom"} /\ running.up \in BOOLEAN
  /\ DOMAIN request = Requests
  /\ \A r \in Requests :
       /\ DOMAIN request[r] = {"at", "kind", "want", "old", "source"}
       /\ request[r].at \in Stage /\ request[r].kind \in Kind
       /\ IsRecord(request[r].old) /\ IsRecord(request[r].want)

\* The two guided files of what somebody asks for or had say the same.
Pure(f) == f.conf = f.settings
\* Files at rest: they agree, and a container that is up runs them.
Sound(f) == Pure(f) /\ (running.up => running = Container(f))

\* How far an apply is. Until its first write its files are those it replaces;
\* while it puts them back they have to be good ones.
Progress(r) ==
  /\ request[r].at # "idle" => Pure(request[r].want)
  /\ request[r].at = "conf" => files = request[r].old /\ (~torn => Sound(files))
  /\ request[r].at \notin Idle /\ ~torn => Pure(request[r].old)
  /\ request[r].at \in {"settings", "custom", "check", "restart", "ready", "undo"} =>
       files.conf = request[r].want.conf
  /\ request[r].at \in {"custom", "check", "restart", "ready", "undo"} =>
       files.settings = request[r].want.settings
  /\ request[r].at = "ready" => (running.up => running = Container(files))
  /\ request[r].at = "restartBack" /\ ~torn => files = request[r].old

\* One apply at a time, and with none the files are at rest.
OneApply == \A r, s \in Requests : request[r].at \notin Idle /\ request[s].at \notin Idle => r = s
AtRest   == ~Locked /\ ~torn => Sound(files)

Inv == Shaped /\ OneApply /\ AtRest /\ \A r \in Requests : Progress(r)

-----------------------------------------------------------------------------
(* The operators *)

\* A step of the apply in progress, at a stage where it stays in progress.
LEMMA ApplyGoesOn ==
  ASSUME Inv, NEW r \in Requests, request[r].at \notin Idle,
         NEW stage \in Stage \ Idle, Goto(r, stage),
         IsRecord(files'), DOMAIN running' = {"up", "conf", "custom"}, running'.up \in BOOLEAN,
         (Progress(r))'
  PROVE  Inv'
  <1>1. /\ DOMAIN request' = Requests
        /\ request'[r] = [request[r] EXCEPT !.at = stage]
        /\ \A s \in Requests \ {r} : request'[s] = request[s]
    BY DEF Goto, Inv, Shaped
  <1>2. Shaped'
    BY <1>1 DEF Inv, Shaped
  <1>3. request'[r].at = stage
    BY <1>1 DEF Inv, Shaped
  <1>4. \A s \in Requests \ {r} : request[s].at \in Idle
    BY DEF Inv, OneApply
  <1>5. OneApply'
    BY <1>1, <1>4 DEF OneApply
  <1>6. AtRest'
    BY <1>3 DEF AtRest, Locked, Idle
  <1>7. ASSUME NEW s \in Requests \ {r} PROVE (Progress(s))'
    BY <1>1, <1>4 DEF Inv, Progress, Idle
  <1> QED BY <1>2, <1>5, <1>6, <1>7 DEF Inv

\* The end of an apply, which leaves the files at rest or says that it did not.
LEMMA ApplyEnds ==
  ASSUME Inv, NEW r \in Requests, End(r), \A s \in Requests \ {r} : request[s].at \in Idle,
         IsRecord(files'), DOMAIN running' = {"up", "conf", "custom"}, running'.up \in BOOLEAN,
         ~torn' => (Sound(files))'
  PROVE  Inv'
  <1>1. /\ DOMAIN request' = Requests /\ request'[r] = NoRequest
        /\ \A s \in Requests \ {r} : request'[s] = request[s]
    BY DEF End, Inv, Shaped
  <1>2. Shaped'
    BY <1>1 DEF Inv, Shaped, NoRequest, FirstFiles, IsRecord, Stage, Kind
  <1>3. NoRequest.at = "idle"
    BY DEF NoRequest
  <1>4. OneApply' /\ AtRest'
    BY <1>1, <1>3 DEF OneApply, AtRest, Idle
  <1>5. ASSUME NEW s \in Requests PROVE (Progress(s))'
    BY <1>1, <1>3 DEF Inv, Progress, Idle
  <1> QED BY <1>2, <1>4, <1>5 DEF Inv

\* What a waiting request will install has guided files that agree.
LEMMA WantedPure ==
  ASSUME Inv, NEW r \in Requests, At(r, "waiting")
  PROVE  IsRecord(Wanted(r)) /\ Pure(Wanted(r))
  <1>1. IsRecord(request[r].want) /\ Pure(request[r].want) /\ request[r].kind \in Kind
    BY DEF Inv, Shaped, Progress, At
  <1>2. CASE request[r].kind = "settings"
    BY <1>1, <1>2 DEF Wanted, IsRecord, Pure
  <1>3. CASE request[r].kind = "custom"
    BY <1>1, <1>3 DEF Wanted, IsRecord, Pure
  <1>4. CASE request[r].kind = "restore"
    BY <1>1, <1>4 DEF Wanted
  <1>5. CASE request[r].kind = "import"
    <2> DEFINE result == ImportUnboundConf(request[r].want.settings, request[r].source)
    <2>1. Wanted(r) = [conf |-> result.settings, settings |-> result.settings, custom |-> result.custom]
      BY <1>5 DEF Wanted
    <2> HIDE DEF result
    <2> QED BY <2>1 DEF IsRecord, Pure
  <1> QED BY <1>1, <1>2, <1>3, <1>4, <1>5 DEF Kind

\* The other requests of an apply in progress have none.
LEMMA Alone ==
  ASSUME Inv, NEW r \in Requests, request[r].at \notin Idle
  PROVE  \A s \in Requests \ {r} : request[s].at \in Idle
  BY DEF Inv, OneApply

-----------------------------------------------------------------------------
(* The steps of an apply *)

\* At first nobody applies anything and the files are the first ones.
LEMMA InvInit == Init => Inv
  BY DEF Init, Inv, Shaped, IsRecord, FirstFiles, NoRequest, Stage, Kind, OneApply, AtRest, Sound,
         Pure, Container, Progress, Idle

\* A request arrives with guided files that agree.
LEMMA ArriveStep ==
  ASSUME Inv, NEW r \in Requests, Arrive(r) PROVE Inv'
  <1>1. UNCHANGED <<files, running, torn>> /\ request[r].at = "idle"
    BY DEF Arrive, At
  <1>2. PICK kind, settings, custom, source :
          kind \in Kind /\ Arrives(r, kind, settings, custom, source)
    BY DEF Arrive, Kind
  <1> DEFINE new == [at |-> "waiting", kind |-> kind, old |-> FirstFiles, source |-> source,
                     want |-> [conf |-> settings, settings |-> settings, custom |-> custom]]
  <1>3. /\ DOMAIN new = {"at", "kind", "want", "old", "source"} /\ new.at = "waiting" /\ new.kind \in Kind
        /\ IsRecord(new.old) /\ IsRecord(new.want) /\ Pure(new.want)
    BY <1>2 DEF IsRecord, FirstFiles, Pure
  <1>4. request' = [request EXCEPT ![r] = new]
    BY <1>2 DEF Arrives
  <1> HIDE DEF new
  <1>5. /\ DOMAIN request' = Requests /\ request'[r] = new
        /\ \A s \in Requests \ {r} : request'[s] = request[s]
    BY <1>4 DEF Inv, Shaped
  <1>6. Shaped'
    BY <1>1, <1>3, <1>5 DEF Inv, Shaped, Stage
  <1>7. OneApply'
    BY <1>3, <1>5 DEF Inv, OneApply, Idle
  <1>8. AtRest'
    BY <1>1, <1>3, <1>5 DEF Inv, AtRest, Locked, Idle, Sound, Pure, Container
  <1>9. ASSUME NEW s \in Requests PROVE (Progress(s))'
    BY <1>1, <1>3, <1>5 DEF Inv, Progress, Idle, Sound, Pure, Container
  <1> QED BY <1>6, <1>7, <1>8, <1>9 DEF Inv

\* applyStateLocked up to the first write.
LEMMA BeginStep ==
  ASSUME Inv, NEW r \in Requests, Begin(r) PROVE Inv'
  <1>1. /\ At(r, "waiting") /\ UNCHANGED <<files, running, torn>>
        /\ \A s \in Requests : request[s].at \in Idle
        /\ ~torn => Sound(files)
    BY DEF Begin, Locked, Idle, Inv, AtRest
  <1>2. CASE End(r)
    <2>1. ~torn' => (Sound(files))'
      BY <1>1 DEF Sound, Pure, Container
    <2>2. IsRecord(files') /\ DOMAIN running' = {"up", "conf", "custom"} /\ running'.up \in BOOLEAN
      BY <1>1 DEF Inv, Shaped
    <2> QED BY <1>1, <1>2, <2>1, <2>2, ApplyEnds
  <1>3. CASE request' = [request EXCEPT ![r] =
               [@ EXCEPT !.at = "conf", !.want = Wanted(r), !.old = files, !.source = NoFile]]
    <2>1. /\ DOMAIN request' = Requests /\ request'[r].at = "conf"
          /\ request'[r].want = Wanted(r) /\ request'[r].old = files
          /\ request'[r].kind = request[r].kind
          /\ DOMAIN request'[r] = {"at", "kind", "want", "old", "source"}
          /\ \A s \in Requests \ {r} : request'[s] = request[s]
      BY <1>3 DEF Inv, Shaped
    <2>2. IsRecord(Wanted(r)) /\ Pure(Wanted(r))
      BY <1>1, WantedPure
    <2>3. Shaped'
      BY <1>1, <2>1, <2>2 DEF Inv, Shaped, Stage, IsRecord
    <2>4. OneApply' /\ AtRest'
      BY <1>1, <2>1 DEF OneApply, AtRest, Locked, Idle
    <2>5. (Progress(r))'
      BY <1>1, <2>1, <2>2 DEF Progress, Idle, Sound, Pure, Container
    <2>6. ASSUME NEW s \in Requests \ {r} PROVE (Progress(s))'
      BY <1>1, <2>1 DEF Inv, Progress, Idle, Pure
    <2> QED BY <2>3, <2>4, <2>5, <2>6 DEF Inv
  <1> QED BY <1>2, <1>3 DEF Begin

\* Moving on changes the stage.
LEMMA GotoFields ==
  ASSUME Inv, NEW r \in Requests, NEW stage, Goto(r, stage)
  PROVE  request'[r].at = stage /\ request'[r].want = request[r].want /\ request'[r].old = request[r].old
  BY DEF Goto, Inv, Shaped

\* The first file. When its write fails nothing is put back.
LEMMA WriteConfStep ==
  ASSUME Inv, NEW r \in Requests, WriteConf(r) PROVE Inv'
  <1>1. request[r].at = "conf" /\ request[r].at \notin Idle /\ UNCHANGED running
    BY DEF WriteConf, At, Idle
  <1>2. /\ Pure(request[r].want) /\ files = request[r].old /\ (~torn => Sound(files))
        /\ IsRecord(files) /\ DOMAIN running = {"up", "conf", "custom"} /\ running.up \in BOOLEAN
    BY <1>1 DEF Inv, Progress, Shaped
  <1>3. CASE Goto(r, "settings") /\ files' = [files EXCEPT !.conf = request[r].want.conf] /\ UNCHANGED torn
    <2>1. IsRecord(files') /\ files'.conf = request[r].want.conf
      BY <1>2, <1>3 DEF IsRecord
    <2>2. (Progress(r))'
      BY <1>1, <1>2, <1>3, <2>1, GotoFields DEF Progress, Idle, Pure, Sound
    <2>3. "settings" \in Stage \ Idle
      BY DEF Stage, Idle
    <2> QED BY <1>1, <1>2, <1>3, <2>1, <2>2, <2>3, ApplyGoesOn
  <1>4. CASE End(r)
    <2>1. IsRecord(files') /\ (~torn' => (Sound(files))')
      <3>1. CASE UNCHANGED <<files, torn>>
        BY <1>1, <1>2, <3>1 DEF Sound, Pure, Container
      <3>2. CASE files' = [files EXCEPT !.conf = request[r].want.conf] /\ torn' = TRUE
        BY <1>2, <3>2 DEF IsRecord
      <3>3. ~Goto(r, "settings")
        BY <1>4 DEF Goto, End, Inv, Shaped, NoRequest
      <3> QED BY <3>1, <3>2, <3>3 DEF WriteConf
    <2> QED BY <1>1, <1>2, <1>4, <2>1, Alone, ApplyEnds
  <1> QED BY <1>3, <1>4 DEF WriteConf

\* Files that are put back are good ones, and when nobody has restarted the
\* container in between it still runs them.
LEMMA PutBack ==
  ASSUME Inv, NEW r \in Requests, request[r].at \notin Idle,
         files' = request[r].old, torn' = (torn \/ Strayed(r)), UNCHANGED running
  PROVE  IsRecord(files') /\ (~torn' => (Sound(files))')
  BY DEF Inv, Shaped, Progress, Strayed, Sound, Pure, Container

\* The second file, and with it the one before.
LEMMA WriteSettingsStep ==
  ASSUME Inv, NEW r \in Requests, WriteSettings(r) PROVE Inv'
  <1>1. request[r].at = "settings" /\ request[r].at \notin Idle /\ UNCHANGED running
    BY DEF WriteSettings, At, Idle
  <1>2. /\ files.conf = request[r].want.conf /\ Pure(request[r].want)
        /\ (~torn => Pure(request[r].old)) /\ IsRecord(request[r].old)
        /\ IsRecord(files) /\ DOMAIN running = {"up", "conf", "custom"} /\ running.up \in BOOLEAN
    BY <1>1 DEF Inv, Progress, Shaped
  <1>3. CASE /\ Goto(r, "custom") /\ UNCHANGED torn
             /\ files' = [files EXCEPT !.settings = request[r].want.settings]
    <2>1. /\ IsRecord(files') /\ files'.conf = request[r].want.conf
          /\ files'.settings = request[r].want.settings
      BY <1>2, <1>3 DEF IsRecord
    <2>2. (Progress(r))'
      BY <1>1, <1>2, <1>3, <2>1, GotoFields DEF Progress, Idle, Pure
    <2>3. "custom" \in Stage \ Idle
      BY DEF Stage, Idle
    <2> QED BY <1>1, <1>2, <1>3, <2>1, <2>2, <2>3, ApplyGoesOn
  <1>4. CASE End(r) /\ files' = request[r].old /\ torn' = (torn \/ Strayed(r))
    BY <1>1, <1>2, <1>4, PutBack, Alone, ApplyEnds
  <1>5. CASE /\ End(r) /\ torn' = TRUE
             /\ \/ files' = [request[r].old EXCEPT !.settings = request[r].want.settings]
                \/ UNCHANGED files
    <2>1. IsRecord(files')
      BY <1>2, <1>5 DEF IsRecord
    <2> QED BY <1>1, <1>2, <1>5, <2>1, Alone, ApplyEnds
  <1> QED BY <1>3, <1>4, <1>5 DEF WriteSettings

\* The third file, and with it the two before.
LEMMA WriteCustomStep ==
  ASSUME Inv, NEW r \in Requests, WriteCustom(r) PROVE Inv'
  <1>1. request[r].at = "custom" /\ request[r].at \notin Idle /\ UNCHANGED running
    BY DEF WriteCustom, At, Idle
  <1>2. /\ files.conf = request[r].want.conf /\ files.settings = request[r].want.settings
        /\ Pure(request[r].want)
        /\ (~torn => Pure(request[r].old)) /\ IsRecord(request[r].old)
        /\ IsRecord(files) /\ DOMAIN running = {"up", "conf", "custom"} /\ running.up \in BOOLEAN
    BY <1>1 DEF Inv, Progress, Shaped
  <1>3. CASE /\ Goto(r, "check") /\ UNCHANGED torn
             /\ files' = [files EXCEPT !.custom = request[r].want.custom]
    <2>1. /\ IsRecord(files') /\ files'.conf = request[r].want.conf
          /\ files'.settings = request[r].want.settings
      BY <1>2, <1>3 DEF IsRecord
    <2>2. (Progress(r))'
      BY <1>1, <1>2, <1>3, <2>1, GotoFields DEF Progress, Idle, Pure
    <2>3. "check" \in Stage \ Idle
      BY DEF Stage, Idle
    <2> QED BY <1>1, <1>2, <1>3, <2>1, <2>2, <2>3, ApplyGoesOn
  <1>4. CASE End(r) /\ files' = request[r].old /\ torn' = (torn \/ Strayed(r))
    BY <1>1, <1>2, <1>4, PutBack, Alone, ApplyEnds
  <1>5. CASE /\ End(r) /\ torn' = TRUE
             /\ \/ files' = [request[r].old EXCEPT !.custom = request[r].want.custom]
                \/ UNCHANGED files
    <2>1. IsRecord(files')
      BY <1>2, <1>5 DEF IsRecord
    <2> QED BY <1>1, <1>2, <1>5, <2>1, Alone, ApplyEnds
  <1> QED BY <1>3, <1>4, <1>5 DEF WriteCustom

\* The files as they are now are checked, or put back.
LEMMA CheckEffectiveStep ==
  ASSUME Inv, NEW r \in Requests, CheckEffective(r) PROVE Inv'
  <1>1. request[r].at = "check" /\ request[r].at \notin Idle /\ UNCHANGED running
    BY DEF CheckEffective, At, Idle
  <1>2. /\ files.conf = request[r].want.conf /\ files.settings = request[r].want.settings
        /\ Pure(request[r].want) /\ (~torn => Pure(request[r].old))
        /\ IsRecord(files) /\ DOMAIN running = {"up", "conf", "custom"} /\ running.up \in BOOLEAN
    BY <1>1 DEF Inv, Progress, Shaped
  <1>3. CASE Goto(r, "restart") /\ UNCHANGED <<files, torn>>
    <2>1. (Progress(r))'
      BY <1>1, <1>2, <1>3, GotoFields DEF Progress, Idle, Pure
    <2>2. "restart" \in Stage \ Idle
      BY DEF Stage, Idle
    <2> QED BY <1>1, <1>2, <1>3, <2>1, <2>2, ApplyGoesOn
  <1>4. CASE End(r) /\ files' = request[r].old /\ torn' = (torn \/ Strayed(r))
    BY <1>1, <1>2, <1>4, PutBack, Alone, ApplyEnds
  <1> QED BY <1>3, <1>4 DEF CheckEffective, Restored

\* What a start or a stop of the container leaves it with.
LEMMA StartsStops ==
  ASSUME Inv, Runs \/ Starts(files) \/ Stops
  PROVE  /\ DOMAIN running' = {"up", "conf", "custom"} /\ running'.up \in BOOLEAN
         /\ UNCHANGED running \/ (running'.up => running' = Container(files))
         /\ Starts(files) => running' = Container(files)
  <1>1. DOMAIN running = {"up", "conf", "custom"} /\ running.up \in BOOLEAN
    BY DEF Inv, Shaped
  <1>2. CASE Runs
    BY <1>1, <1>2 DEF Runs, Starts
  <1>3. CASE Starts(files)
    <2>1. running' = Container(files)
      BY <1>3 DEF Starts
    <2>2. DOMAIN Container(files) = {"up", "conf", "custom"} /\ Container(files).up = TRUE
      BY DEF Container
    <2> QED BY <1>3, <2>1, <2>2
  <1>4. CASE Stops
    <2>1. running' = [running EXCEPT !.up = FALSE]
      BY <1>4 DEF Stops
    <2>2. DOMAIN running' = {"up", "conf", "custom"} /\ running'.up = FALSE
      BY <1>1, <2>1
    <2> QED BY <1>4, <2>2 DEF Starts
  <1> QED BY <1>2, <1>3, <1>4

\* The container is restarted on the new files.
LEMMA RestartStep ==
  ASSUME Inv, NEW r \in Requests, Restart(r) PROVE Inv'
  <1>1. request[r].at = "restart" /\ request[r].at \notin Idle /\ UNCHANGED <<files, torn>>
    BY DEF Restart, At, Idle
  <1>2. /\ files.conf = request[r].want.conf /\ files.settings = request[r].want.settings
        /\ Pure(request[r].want) /\ (~torn => Pure(request[r].old)) /\ IsRecord(files)
    BY <1>1 DEF Inv, Progress, Shaped
  <1>3. {"ready", "undo"} \subseteq Stage \ Idle
    BY DEF Stage, Idle
  <1>4. CASE Goto(r, "ready") /\ Starts(files)
    <2>1. (Progress(r))'
      BY <1>1, <1>2, <1>4, GotoFields, StartsStops DEF Progress, Idle, Pure, Container
    <2> QED BY <1>1, <1>2, <1>3, <1>4, <2>1, StartsStops, ApplyGoesOn
  <1>5. CASE Goto(r, "undo") /\ (Runs \/ Starts(files) \/ Stops)
    <2>1. (Progress(r))'
      BY <1>1, <1>2, <1>5, GotoFields DEF Progress, Idle, Pure
    <2> QED BY <1>1, <1>2, <1>3, <1>5, <2>1, StartsStops, ApplyGoesOn
  <1> QED BY <1>4, <1>5 DEF Restart

\* An apply that came up in time has ended, whatever an earlier one left.
LEMMA WaitReadyStep ==
  ASSUME Inv, NEW r \in Requests, WaitReady(r) PROVE Inv'
  <1>1. request[r].at = "ready" /\ request[r].at \notin Idle /\ UNCHANGED <<files, running>>
    BY DEF WaitReady, At, Idle
  <1>2. /\ files.conf = request[r].want.conf /\ files.settings = request[r].want.settings
        /\ Pure(request[r].want) /\ (~torn => Pure(request[r].old)) /\ IsRecord(files)
        /\ DOMAIN running = {"up", "conf", "custom"} /\ running.up \in BOOLEAN
        /\ running.up => running = Container(files)
    BY <1>1 DEF Inv, Progress, Shaped
  <1>3. CASE End(r)
    <2>1. (Sound(files))'
      BY <1>1, <1>2 DEF Sound, Pure, Container
    <2> QED BY <1>1, <1>2, <1>3, <2>1, Alone, ApplyEnds
  <1>4. CASE Goto(r, "undo") /\ UNCHANGED torn
    <2>1. (Progress(r))'
      BY <1>1, <1>2, <1>4, GotoFields DEF Progress, Idle, Pure
    <2>2. "undo" \in Stage \ Idle
      BY DEF Stage, Idle
    <2> QED BY <1>1, <1>2, <1>4, <2>1, <2>2, ApplyGoesOn
  <1> QED BY <1>3, <1>4 DEF WaitReady

\* rollbackFailedApply puts the files back, all three or it says so.
LEMMA UndoStep ==
  ASSUME Inv, NEW r \in Requests, Undo(r) PROVE Inv'
  <1>1. /\ request[r].at = "undo" /\ request[r].at \notin Idle /\ UNCHANGED running
        /\ Goto(r, "restartBack") /\ RestoreState(r)
    BY DEF Undo, At, Idle
  <1>2. /\ Pure(request[r].want) /\ (~torn => Pure(request[r].old))
        /\ IsRecord(files) /\ IsRecord(request[r].old)
        /\ DOMAIN running = {"up", "conf", "custom"} /\ running.up \in BOOLEAN
    BY <1>1 DEF Inv, Progress, Shaped
  <1>3. IsRecord(files') /\ (~torn' => files' = request[r].old /\ ~torn)
    BY <1>1, <1>2 DEF RestoreState, Restored, IsRecord
  <1>4. (Progress(r))'
    BY <1>1, <1>2, <1>3, GotoFields DEF Progress, Idle, Pure
  <1>5. "restartBack" \in Stage \ Idle
    BY DEF Stage, Idle
  <1> QED BY <1>1, <1>2, <1>3, <1>4, <1>5, ApplyGoesOn

\* ... and restarts the container on them.
LEMMA RestartBackStep ==
  ASSUME Inv, NEW r \in Requests, RestartBack(r) PROVE Inv'
  <1>1. /\ request[r].at = "restartBack" /\ request[r].at \notin Idle /\ End(r) /\ UNCHANGED files
        /\ \/ Starts(files) /\ UNCHANGED torn
           \/ (Runs \/ Starts(files) \/ Stops) /\ torn' = TRUE
    BY DEF RestartBack, At, Idle
  <1>2. (~torn => Pure(request[r].old) /\ files = request[r].old) /\ IsRecord(files)
    BY <1>1 DEF Inv, Progress, Shaped
  <1>3. ~torn' => (Sound(files))'
    BY <1>1, <1>2, StartsStops DEF Sound, Pure, Container
  <1> QED BY <1>1, <1>2, <1>3, StartsStops, Alone, ApplyEnds

-----------------------------------------------------------------------------
(* The steps around them *)

\* Diagnostic logging changes neither files nor what the container runs.
LEMMA SameFiles ==
  ASSUME Inv, UNCHANGED <<files, request, running, torn>> PROVE Inv'
  <1>1. Shaped' /\ OneApply'
    BY DEF Inv, Shaped, OneApply
  <1>2. AtRest'
    BY DEF Inv, AtRest, Locked, Sound, Pure, Container
  <1>3. ASSUME NEW r \in Requests PROVE (Progress(r))'
    BY DEF Inv, Progress, Sound, Pure, Container
  <1> QED BY <1>1, <1>2, <1>3 DEF Inv

\* Somebody starts or stops the container, on the files as they are just now.
LEMMA RestartByOthersStep ==
  ASSUME Inv, RestartByOthers PROVE Inv'
  <1>1. UNCHANGED <<files, request, torn>> /\ (Starts(files) \/ Stops)
    BY DEF RestartByOthers
  <1>2. /\ DOMAIN running' = {"up", "conf", "custom"} /\ running'.up \in BOOLEAN
        /\ running'.up => running' = Container(files)
    <2>1. DOMAIN running = {"up", "conf", "custom"}
      BY DEF Inv, Shaped
    <2>2. CASE Starts(files)
      BY <1>1, <2>2, StartsStops DEF Starts
    <2>3. CASE Stops
      <3>1. running' = [running EXCEPT !.up = FALSE]
        BY <2>3 DEF Stops
      <3>2. DOMAIN running' = {"up", "conf", "custom"} /\ running'.up = FALSE
        BY <2>1, <3>1
      <3> QED BY <3>2
    <2> QED BY <1>1, <2>2, <2>3
  <1>3. Shaped' /\ OneApply'
    BY <1>1, <1>2 DEF Inv, Shaped, OneApply
  <1>4. Sound(files) => (Sound(files))'
    BY <1>1, <1>2 DEF Sound, Pure, Container
  <1>5. AtRest'
    BY <1>1, <1>4 DEF Inv, AtRest, Locked
  <1>6. ASSUME NEW r \in Requests PROVE (Progress(r))'
    BY <1>1, <1>2, <1>4 DEF Inv, Progress, Pure, Container
  <1> QED BY <1>3, <1>5, <1>6 DEF Inv

\* A crash before the first write leaves files at rest, one after it is torn.
LEMMA CrashStep ==
  ASSUME Inv, Crash PROVE Inv'
  <1>1. /\ request' = [r \in Requests |-> NoRequest] /\ UNCHANGED <<files, running>>
        /\ torn' = (torn \/ \E r \in Requests : request[r].at \notin {"idle", "waiting", "conf"})
    BY DEF Crash
  <1>2. ~torn' => Sound(files)
    <2>1. CASE Locked
      BY <1>1, <2>1 DEF Locked, Inv, Progress
    <2>2. CASE ~Locked
      BY <1>1, <2>2 DEF Inv, AtRest
    <2> QED BY <2>1, <2>2
  <1>3. /\ NoRequest.at = "idle" /\ NoRequest.kind \in Kind /\ "idle" \in Stage
        /\ DOMAIN NoRequest = {"at", "kind", "want", "old", "source"}
        /\ IsRecord(NoRequest.old) /\ IsRecord(NoRequest.want)
    BY DEF NoRequest, FirstFiles, IsRecord, Kind, Stage
  <1> HIDE DEF NoRequest
  <1>4. Shaped' /\ OneApply'
    BY <1>1, <1>3 DEF Inv, Shaped, OneApply, Idle
  <1>5. AtRest'
    BY <1>1, <1>2 DEF AtRest, Sound, Pure, Container
  <1>6. ASSUME NEW r \in Requests PROVE (Progress(r))'
    BY <1>1, <1>3 DEF Progress, Idle
  <1> QED BY <1>4, <1>5, <1>6 DEF Inv

\* Every step keeps the invariant.
LEMMA InvNext == Inv /\ [Next]_vars => Inv'
  <1> SUFFICES ASSUME Inv, [Next]_vars PROVE Inv'
    OBVIOUS
  <1>1. ASSUME NEW r \in Requests, Arrive(r) \/ Apply(r) PROVE Inv'
    BY <1>1, ArriveStep, BeginStep, WriteConfStep, WriteSettingsStep, WriteCustomStep,
       CheckEffectiveStep, RestartStep, WaitReadyStep, UndoStep, RestartBackStep
    DEF Apply
  <1>2. ASSUME NEW d, StartLogging(d) \/ StopLogging(d) \/ Log(d) PROVE Inv'
    BY <1>2, SameFiles DEF StartLogging, StopLogging, Log, Raise, SetTimer, Lower, Ended
  <1>3. CASE Expire \/ UNCHANGED vars
    BY <1>2, <1>3, SameFiles DEF Expire, vars
  <1>4. CASE RestartByOthers \/ Crash
    BY <1>4, RestartByOthersStep, CrashStep
  <1> QED BY <1>1, <1>2, <1>3, <1>4 DEF Next

-----------------------------------------------------------------------------
(* The theorems *)

\* Inv holds in every state.
THEOREM Invariance == Spec => []Inv
  BY InvInit, InvNext, PTL DEF Spec

\* applyStateLocked with its rollbacks: whenever no apply is under way the
\* three files belong together and the container, if it is up, runs them, as
\* long as nothing has happened that the code does not undo.
THEOREM FilesBelongTogether == Spec => []AppliedTogether
  <1>1. Inv => AppliedTogether
    BY DEF Inv, AtRest, Sound, Pure, AppliedTogether
  <1> QED BY <1>1, Invariance, PTL

-----------------------------------------------------------------------------
(* What an apply remembers of what it replaces *)

\* Files compare as the three they are, and the history is a sequence.
IsFile(f)   == f = [conf |-> f.conf, settings |-> f.settings, custom |-> f.custom]
IsSequence(entries) == \E S : entries \in Seq(S)

\* The newest snapshot is of what an apply under way replaces. The half of the
\* configuration it was not asked for is the one it found, and once it is
\* checked all three files are those it was asked for.
Remembers(r) ==
  request[r].at \notin Idle =>
    /\ history # <<>> /\ Head(history) = request[r].old
    /\ request[r].kind = "settings" => request[r].want.custom = request[r].old.custom
    /\ request[r].kind = "custom" => request[r].want.settings = request[r].old.settings
    /\ request[r].at \in {"check", "restart", "ready", "undo"} => files.custom = request[r].want.custom

Memory ==
  /\ IsFile(files) /\ IsSequence(history)
  /\ \A r \in Requests : IsFile(request[r].want) /\ IsFile(request[r].old) /\ Remembers(r)

\* A snapshot goes in front of the history and is not pruned, nor is the one
\* that was in front before.
LEMMA Recording ==
  ASSUME NEW f, IsSequence(history), NEW new, new \in {Recorded(f), history, <<f>> \o history}
  PROVE  /\ IsSequence(new)
         /\ new = Recorded(f) => new # <<>> /\ Head(new) = f
         /\ history # <<>> => \E i \in DOMAIN new : new[i] = Head(history)
  <1>1. PICK S : history \in Seq(S)
    BY DEF IsSequence
  <1> DEFINE T == S \cup {f}
             long == <<f>> \o history
  <1>2. history \in Seq(T)
    BY <1>1
  <1>3. /\ long \in Seq(T) /\ Len(long) = Len(history) + 1 /\ long[1] = f
        /\ history # <<>> => long[2] = Head(history) /\ Len(history) >= 1
    BY <1>2
  <1>4. Prune(long) \in Seq(T) /\ Len(Prune(long)) >= 1 /\ Prune(long)[1] = f
        /\ (history # <<>> => Len(Prune(long)) >= 2 /\ Prune(long)[2] = Head(history))
    BY <1>2, <1>3, UnboundAssumption DEF Prune, UnboundAssumption
  <1> HIDE DEF T, long
  <1>5. CASE new = history
    <2>1. history # <<>> => 1 \in DOMAIN history /\ history[1] = Head(history)
      BY <1>1
    <2>2. new = Recorded(f) => new # <<>> /\ Head(new) = f
      <3>1. Prune(long) # <<>> /\ Head(Prune(long)) = f
        BY <1>4
      <3> QED BY <1>5, <3>1 DEF Recorded, long
    <2> QED BY <1>1, <1>5, <2>1, <2>2 DEF IsSequence
  <1>6. CASE new = long
    <2>1. 2 \in DOMAIN long \/ history = <<>>
      BY <1>3
    <2>2. long # <<>> /\ Head(long) = f
      BY <1>3
    <2> QED BY <1>3, <1>6, <2>1, <2>2 DEF IsSequence
  <1>7. CASE new = Prune(long)
    <2>1. 2 \in DOMAIN Prune(long) \/ history = <<>>
      BY <1>4
    <2>2. Prune(long) # <<>> /\ Head(Prune(long)) = f
      BY <1>4
    <2> QED BY <1>4, <1>7, <2>1, <2>2 DEF IsSequence
  <1> QED BY <1>5, <1>6, <1>7 DEF Recorded, long

\* At first no apply is under way.
LEMMA MemoryInit == Init => Memory
  <1> SUFFICES ASSUME Init PROVE Memory
    OBVIOUS
  <1>1. IsFile(FirstFiles) /\ NoRequest.want = FirstFiles /\ NoRequest.old = FirstFiles /\ NoRequest.at = "idle"
    BY DEF IsFile, FirstFiles, NoRequest
  <1>2. IsSequence(history)
    BY DEF Init, IsSequence
  <1>3. \A r \in Requests : request[r] = NoRequest
    BY DEF Init
  <1> QED BY <1>1, <1>2, <1>3 DEF Init, Memory, Remembers, Idle

\* An apply under way goes on; its snapshot and what it was asked for stay.
LEMMA MemoryGoesOn ==
  ASSUME Inv, Memory, NEW r \in Requests, request[r].at \notin Idle, NEW stage, Goto(r, stage),
         UNCHANGED history, IsFile(files'),
         stage \in {"check", "restart", "ready", "undo"} => files'.custom = request[r].want.custom
  PROVE  Memory'
  <1>1. /\ request'[r].at = stage /\ request'[r].want = request[r].want /\ request'[r].old = request[r].old
        /\ request'[r].kind = request[r].kind
        /\ \A s \in Requests \ {r} : request'[s] = request[s]
    BY DEF Goto, Inv, Shaped
  <1>2. ASSUME NEW s \in Requests \ {r} PROVE (Remembers(s))'
    BY <1>1, Alone DEF Remembers
  <1>3. (Remembers(r))'
    BY <1>1 DEF Memory, Remembers
  <1>4. (IsSequence(history))'
    BY DEF Memory, IsSequence
  <1>5. ASSUME NEW s \in Requests PROVE (IsFile(request[s].want))' /\ (IsFile(request[s].old))'
    BY <1>1 DEF Memory, IsFile
  <1> QED BY <1>2, <1>3, <1>4, <1>5 DEF Memory

\* An apply that ends remembers nothing.
LEMMA MemoryEnds ==
  ASSUME Inv, Memory, NEW r \in Requests, End(r), \A s \in Requests \ {r} : request[s].at \in Idle,
         IsFile(files'), IsSequence(history')
  PROVE  Memory'
  <1>1. request'[r] = NoRequest /\ \A s \in Requests \ {r} : request'[s] = request[s]
    BY DEF End, Inv, Shaped
  <1>2. /\ IsFile(NoRequest.want) /\ IsFile(NoRequest.old) /\ NoRequest.at \in Idle
    BY DEF NoRequest, FirstFiles, IsFile, Idle
  <1>3. ASSUME NEW s \in Requests PROVE (Remembers(s))'
    BY <1>1, <1>2 DEF Remembers
  <1>4. ASSUME NEW s \in Requests PROVE (IsFile(request[s].want))' /\ (IsFile(request[s].old))'
    BY <1>1, <1>2 DEF Memory, IsFile
  <1>5. (IsSequence(history))'
    BY DEF IsSequence
  <1> QED BY <1>3, <1>4, <1>5 DEF Memory

\* Diagnostic logging and restarts by others concern none of it.
LEMMA MemorySame ==
  ASSUME Memory, UNCHANGED <<files, history, request>> PROVE Memory'
  BY DEF Memory, Remembers, IsFile, IsSequence

\* A request arrives.
LEMMA MemoryArrive ==
  ASSUME Inv, Memory, NEW r \in Requests, Arrive(r) PROVE Memory'
  <1>1. UNCHANGED <<files, history>>
    BY DEF Arrive
  <1>2. PICK kind, settings, custom, source : Arrives(r, kind, settings, custom, source)
    BY DEF Arrive
  <1> DEFINE new == [at |-> "waiting", kind |-> kind, old |-> FirstFiles, source |-> source,
                     want |-> [conf |-> settings, settings |-> settings, custom |-> custom]]
  <1>3. new.at \in Idle /\ IsFile(new.want) /\ IsFile(new.old)
    BY DEF Idle, IsFile, FirstFiles
  <1>4. request' = [request EXCEPT ![r] = new]
    BY <1>2 DEF Arrives
  <1> HIDE DEF new
  <1>5. request'[r] = new /\ \A s \in Requests \ {r} : request'[s] = request[s]
    BY <1>4 DEF Inv, Shaped
  <1>6. ASSUME NEW s \in Requests PROVE (Remembers(s))'
    BY <1>1, <1>3, <1>5 DEF Memory, Remembers
  <1>7. ASSUME NEW s \in Requests PROVE (IsFile(request[s].want))' /\ (IsFile(request[s].old))'
    BY <1>3, <1>5 DEF Memory, IsFile
  <1>8. (IsSequence(history))' /\ (IsFile(files))'
    BY <1>1 DEF Memory, IsSequence, IsFile
  <1> QED BY <1>6, <1>7, <1>8 DEF Memory

\* What is there is recorded, and of what is asked for the other half taken over.
LEMMA WantedHalf ==
  ASSUME Inv, Memory, NEW r \in Requests, At(r, "waiting")
  PROVE  /\ IsFile(Wanted(r))
         /\ request[r].kind = "settings" => Wanted(r).custom = files.custom
         /\ request[r].kind = "custom" => Wanted(r).settings = files.settings
  <1>1. IsFile(request[r].want) /\ request[r].kind \in Kind
    BY DEF Inv, Shaped, Memory
  <1>2. CASE request[r].kind \in {"settings", "custom"}
    BY <1>1, <1>2 DEF Wanted, IsFile
  <1>3. CASE request[r].kind = "restore"
    BY <1>1, <1>3 DEF Wanted
  <1>4. CASE request[r].kind = "import"
    <2> DEFINE result == ImportUnboundConf(request[r].want.settings, request[r].source)
    <2>1. Wanted(r) = [conf |-> result.settings, settings |-> result.settings, custom |-> result.custom]
      BY <1>4 DEF Wanted
    <2> HIDE DEF result
    <2> QED BY <1>4, <2>1 DEF IsFile
  <1> QED BY <1>1, <1>2, <1>3, <1>4 DEF Kind

\* applyStateLocked up to the first write.
LEMMA MemoryBegin ==
  ASSUME Inv, Memory, NEW r \in Requests, Begin(r) PROVE Memory'
  <1>1. /\ At(r, "waiting") /\ UNCHANGED files /\ IsFile(files') /\ IsSequence(history)
        /\ \A s \in Requests : request[s].at \in Idle
    BY DEF Begin, Locked, Idle, Memory, IsFile
  <1>2. history' \in {Recorded(files), history, <<files>> \o history}
    BY DEF Begin, SnapshotCurrent, RecordFails
  <1>3. IsSequence(history')
    BY <1>1, <1>2, Recording
  <1>4. CASE End(r)
    BY <1>1, <1>3, <1>4, MemoryEnds
  <1>5. CASE /\ SnapshotCurrent
             /\ request' = [request EXCEPT ![r] =
                  [@ EXCEPT !.at = "conf", !.want = Wanted(r), !.old = files, !.source = NoFile]]
    <2>1. /\ request'[r].at = "conf" /\ request'[r].kind = request[r].kind
          /\ request'[r].want = Wanted(r) /\ request'[r].old = files
          /\ \A s \in Requests \ {r} : request'[s] = request[s]
      BY <1>5 DEF Inv, Shaped
    <2>2. history' # <<>> /\ Head(history') = files
      BY <1>1, <1>5, Recording DEF SnapshotCurrent
    <2>3. (Remembers(r))'
      BY <1>1, <2>1, <2>2, WantedHalf DEF Remembers
    <2>4. ASSUME NEW s \in Requests \ {r} PROVE (Remembers(s))'
      BY <1>1, <2>1 DEF Remembers
    <2>5. ASSUME NEW s \in Requests PROVE (IsFile(request[s].want))' /\ (IsFile(request[s].old))'
      <3>1. IsFile(Wanted(r)) /\ IsFile(files)
        BY <1>1, WantedHalf DEF Memory
      <3>2. CASE s = r
        BY <2>1, <3>1, <3>2 DEF IsFile
      <3>3. CASE s # r
        BY <2>1, <3>3 DEF Memory, IsFile
      <3> QED BY <3>2, <3>3
    <2>6. (IsSequence(history))'
      BY <1>3 DEF IsSequence
    <2>7. (IsFile(files))'
      BY <1>1 DEF IsFile
    <2> QED BY <2>3, <2>4, <2>5, <2>6, <2>7 DEF Memory
  <1> QED BY <1>4, <1>5 DEF Begin

\* The files after a write, or put back.
LEMMA WrittenFiles ==
  ASSUME Memory, NEW r \in Requests,
         \/ files' \in {files, request[r].old}
         \/ files' = [files EXCEPT !.conf = request[r].want.conf]
         \/ files' = [files EXCEPT !.settings = request[r].want.settings]
         \/ files' = [files EXCEPT !.custom = request[r].want.custom]
         \/ files' = [request[r].old EXCEPT !.settings = request[r].want.settings]
         \/ files' = [request[r].old EXCEPT !.custom = request[r].want.custom]
  PROVE  IsFile(files')
  BY DEF Memory, IsFile

\* The three files.
LEMMA MemoryWrites ==
  ASSUME Inv, Memory, NEW r \in Requests, WriteConf(r) \/ WriteSettings(r) \/ WriteCustom(r) PROVE Memory'
  <1>1. /\ request[r].at \notin Idle /\ UNCHANGED history /\ IsSequence(history')
        /\ \A s \in Requests \ {r} : request[s].at \in Idle
    <2>1. request[r].at \notin Idle /\ UNCHANGED history
      BY DEF WriteConf, WriteSettings, WriteCustom, At, Idle
    <2> QED BY <2>1, Alone DEF Memory, IsSequence
  <1>2. IsFile(files')
    BY WrittenFiles DEF WriteConf, WriteSettings, WriteCustom
  <1>3. CASE End(r)
    BY <1>1, <1>2, <1>3, MemoryEnds
  <1>4. CASE Goto(r, "settings") \/ Goto(r, "custom")
    BY <1>1, <1>2, <1>4, MemoryGoesOn
  <1>5. CASE Goto(r, "check") /\ files' = [files EXCEPT !.custom = request[r].want.custom]
    <2>1. files'.custom = request[r].want.custom
      BY <1>5 DEF Memory, IsFile
    <2> QED BY <1>1, <1>2, <1>5, <2>1, MemoryGoesOn
  <1> QED BY <1>3, <1>4, <1>5 DEF WriteConf, WriteSettings, WriteCustom

\* The check, and the restart.
LEMMA MemoryChecks ==
  ASSUME Inv, Memory, NEW r \in Requests, CheckEffective(r) \/ Restart(r) PROVE Memory'
  <1>1. /\ request[r].at \in {"check", "restart"} /\ request[r].at \notin Idle
        /\ UNCHANGED history /\ IsSequence(history')
        /\ \A s \in Requests \ {r} : request[s].at \in Idle
    <2>1. request[r].at \in {"check", "restart"} /\ request[r].at \notin Idle /\ UNCHANGED history
      BY DEF CheckEffective, Restart, At, Idle
    <2> QED BY <2>1, Alone DEF Memory, IsSequence
  <1>2. files.custom = request[r].want.custom
    BY <1>1 DEF Memory, Remembers
  <1>3. IsFile(files')
    BY WrittenFiles DEF CheckEffective, Restored, Restart
  <1>4. CASE End(r)
    BY <1>1, <1>3, <1>4, MemoryEnds
  <1>5. CASE UNCHANGED files /\ \E stage \in {"restart", "ready", "undo"} : Goto(r, stage)
    BY <1>1, <1>2, <1>3, <1>5, MemoryGoesOn
  <1> QED BY <1>4, <1>5 DEF CheckEffective, Restart

\* The end of an apply that came up, and its snapshot.
LEMMA MemoryReady ==
  ASSUME Inv, Memory, NEW r \in Requests, WaitReady(r) PROVE Memory'
  <1>1. request[r].at = "ready" /\ request[r].at \notin Idle /\ UNCHANGED files
    BY DEF WaitReady, At, Idle
  <1>2. /\ \A s \in Requests \ {r} : request[s].at \in Idle
        /\ IsFile(files') /\ files.custom = request[r].want.custom
    BY <1>1, Alone DEF Memory, Remembers, IsFile
  <1>3. CASE End(r)
    <2>1. history' \in {Recorded(request[r].want), history, <<request[r].want>> \o history}
      BY <1>3 DEF WaitReady, RecordFails
    <2>2. IsSequence(history')
      BY <2>1, Recording DEF Memory
    <2> QED BY <1>2, <1>3, <2>2, MemoryEnds
  <1>4. CASE Goto(r, "undo") /\ UNCHANGED history
    BY <1>1, <1>2, <1>4, MemoryGoesOn
  <1> QED BY <1>3, <1>4 DEF WaitReady

\* The rollback, whichever files it manages.
LEMMA MemoryUndo ==
  ASSUME Inv, Memory, NEW r \in Requests, Undo(r) \/ RestartBack(r) PROVE Memory'
  <1>1. /\ request[r].at \notin Idle /\ UNCHANGED history /\ IsSequence(history')
        /\ \A s \in Requests \ {r} : request[s].at \in Idle
    <2>1. request[r].at \notin Idle /\ UNCHANGED history
      BY DEF Undo, RestartBack, At, Idle
    <2> QED BY <2>1, Alone DEF Memory, IsSequence
  <1>2. CASE Undo(r)
    <2>1. IsFile(files')
      <3>1. IsFile(files) /\ IsFile(request[r].old)
        BY DEF Memory
      <3>2. CASE files' = request[r].old
        BY <3>1, <3>2 DEF IsFile
      <3>3. CASE \E kept \in SUBSET {"conf", "settings", "custom"} :
                   files' = [f \in DOMAIN files |-> IF f \in kept THEN files[f] ELSE request[r].old[f]]
        <4>1. DOMAIN files = {"conf", "settings", "custom"}
          BY DEF Inv, Shaped, IsRecord
        <4>2. PICK value : files' = [f \in {"conf", "settings", "custom"} |-> value[f]]
          <5>1. PICK kept \in SUBSET {"conf", "settings", "custom"} :
                   files' = [f \in DOMAIN files |-> IF f \in kept THEN files[f] ELSE request[r].old[f]]
            BY <3>3
          <5> WITNESS [f \in {"conf", "settings", "custom"} |-> IF f \in kept THEN files[f] ELSE request[r].old[f]]
          <5> QED BY <4>1, <5>1
        <4> QED BY <4>2 DEF IsFile
      <3> QED BY <1>2, <3>2, <3>3 DEF Undo, RestoreState, Restored
    <2> QED BY <1>1, <1>2, <2>1, MemoryGoesOn DEF Undo
  <1>3. CASE RestartBack(r)
    <2>1. IsFile(files') /\ End(r)
      BY <1>3 DEF RestartBack, Memory, IsFile
    <2> QED BY <1>1, <2>1, MemoryEnds
  <1> QED BY <1>2, <1>3

\* After a crash no apply is under way.
LEMMA MemoryCrash ==
  ASSUME Inv, Memory, Crash PROVE Memory'
  <1>1. UNCHANGED <<files, history>> /\ \A r \in Requests : request'[r] = NoRequest
    BY DEF Crash
  <1>2. /\ IsFile(NoRequest.want) /\ IsFile(NoRequest.old) /\ NoRequest.at \in Idle
    BY DEF NoRequest, FirstFiles, IsFile, Idle
  <1> HIDE DEF NoRequest
  <1>3. ASSUME NEW s \in Requests PROVE (Remembers(s))' /\ (IsFile(request[s].want))' /\ (IsFile(request[s].old))'
    BY <1>1, <1>2 DEF Remembers, IsFile
  <1>4. (IsSequence(history))' /\ (IsFile(files))'
    BY <1>1 DEF Memory, IsSequence, IsFile
  <1> QED BY <1>3, <1>4 DEF Memory

\* Every step keeps Memory.
LEMMA MemoryNext == Inv /\ Memory /\ [Next]_vars => Memory'
  <1> SUFFICES ASSUME Inv, Memory, [Next]_vars PROVE Memory'
    OBVIOUS
  <1>1. ASSUME NEW r \in Requests, Arrive(r) \/ Apply(r) PROVE Memory'
    BY <1>1, MemoryArrive, MemoryBegin, MemoryWrites, MemoryChecks, MemoryReady, MemoryUndo DEF Apply
  <1>2. ASSUME NEW d, StartLogging(d) \/ StopLogging(d) \/ Log(d) PROVE Memory'
    BY <1>2, MemorySame DEF StartLogging, StopLogging, Log, Raise, SetTimer, Lower, Ended
  <1>3. CASE Expire \/ RestartByOthers \/ UNCHANGED vars
    BY <1>2, <1>3, MemorySame DEF Expire, RestartByOthers, vars
  <1>4. CASE Crash
    BY <1>4, MemoryCrash
  <1> QED BY <1>1, <1>2, <1>3, <1>4 DEF Next

\* Inv and Memory hold in every state.
THEOREM MemoryInvariance == Spec => [](Inv /\ Memory)
  BY MemoryInit, MemoryNext, InvInit, InvNext, PTL DEF Spec

-----------------------------------------------------------------------------
(* How an apply ends *)

\* An apply that ends has replaced the files by those it was asked for, the
\* other half as it was, or has put back what was there.
AsAsked(r) ==
  /\ files' = request[r].want
  /\ request[r].kind = "settings" => files'.custom = request[r].old.custom
  /\ request[r].kind = "custom" => files'.settings = request[r].old.settings
WholeEnd(r) ==
  ~torn' /\ request[r].at \notin Idle /\ request'[r].at = "idle" => files' = request[r].old \/ AsAsked(r)

\* One that has come up leaves a snapshot of what it has replaced.
SnapshotEnd(r) ==
  request[r].at = "ready" /\ request'[r].at = "idle" /\ ~torn' =>
    \E i \in DOMAIN history' : history'[i] = request[r].old

EndsWell == \A r \in Requests : WholeEnd(r) /\ SnapshotEnd(r)

\* Nobody's apply ends.
LEMMA NobodyEnds ==
  ASSUME \A r \in Requests : request[r].at \in Idle \/ request'[r].at # "idle" PROVE EndsWell
  BY DEF EndsWell, WholeEnd, SnapshotEnd, Idle

\* Only this one may.
LEMMA OneEnds ==
  ASSUME Inv, NEW r \in Requests, request[r].at \notin Idle, WholeEnd(r), SnapshotEnd(r) PROVE EndsWell
  BY Alone DEF EndsWell, WholeEnd, SnapshotEnd, Idle

\* An apply that goes on does not end.
LEMMA GoingOn ==
  ASSUME Inv, NEW r \in Requests, request[r].at \notin Idle, NEW stage, stage # "idle", Goto(r, stage)
  PROVE  EndsWell
  BY GotoFields, OneEnds DEF WholeEnd, SnapshotEnd

\* A write or a check that fails puts back what was there, or says it has not.
LEMMA EarlyEnds ==
  ASSUME Inv, NEW r \in Requests, WriteConf(r) \/ WriteSettings(r) \/ WriteCustom(r) \/ CheckEffective(r)
  PROVE  EndsWell
  <1>1. request[r].at \in {"conf", "settings", "custom", "check"} /\ request[r].at \notin Idle
    BY DEF WriteConf, WriteSettings, WriteCustom, CheckEffective, At, Idle
  <1>2. CASE \E stage \in {"settings", "custom", "check", "restart"} : Goto(r, stage)
    BY <1>1, <1>2, GoingOn
  <1>3. CASE torn' \/ files' = request[r].old
    BY <1>1, <1>3, OneEnds DEF WholeEnd, SnapshotEnd
  <1>4. CASE UNCHANGED files /\ WriteConf(r)
    BY <1>3, <1>4 DEF WriteConf, At, Inv, Progress
  <1> QED BY <1>2, <1>3, <1>4 DEF WriteConf, WriteSettings, WriteCustom, CheckEffective, Restored

\* The apply has come up with all three files written.
LEMMA ReadyEnds ==
  ASSUME Inv, Memory, NEW r \in Requests, WaitReady(r) PROVE EndsWell
  <1>1. request[r].at = "ready" /\ request[r].at \notin Idle /\ UNCHANGED files
    BY DEF WaitReady, At, Idle
  <1>2. CASE Goto(r, "undo")
    BY <1>1, <1>2, GoingOn
  <1>3. CASE history' \in {Recorded(request[r].want), history, <<request[r].want>> \o history}
    <2>1. files = request[r].want
      <3>1. /\ files.conf = request[r].want.conf /\ files.settings = request[r].want.settings
            /\ files.custom = request[r].want.custom
        BY <1>1 DEF Inv, Progress, Memory, Remembers
      <3> QED BY <3>1 DEF Memory, IsFile
    <2>2. WholeEnd(r)
      BY <1>1, <2>1 DEF WholeEnd, AsAsked, Memory, Remembers
    <2>3. history # <<>> /\ Head(history) = request[r].old /\ IsSequence(history)
      BY <1>1 DEF Memory, Remembers
    <2>4. \E i \in DOMAIN history' : history'[i] = request[r].old
      BY <1>3, <2>3, Recording
    <2> QED BY <1>1, <2>2, <2>4, OneEnds DEF SnapshotEnd
  <1> QED BY <1>2, <1>3 DEF WaitReady, RecordFails

\* One that has not is rolled back.
LEMMA LateEnds ==
  ASSUME Inv, NEW r \in Requests, Restart(r) \/ Undo(r) \/ RestartBack(r) PROVE EndsWell
  <1>1. request[r].at \in {"restart", "undo", "restartBack"} /\ request[r].at \notin Idle
    BY DEF Restart, Undo, RestartBack, At, Idle
  <1>2. CASE \E stage \in {"ready", "undo", "restartBack"} : Goto(r, stage)
    BY <1>1, <1>2, GoingOn
  <1>3. CASE RestartBack(r)
    <2>1. request[r].at = "restartBack" /\ UNCHANGED files /\ (torn' \/ torn' = torn)
      BY <1>3 DEF RestartBack, At
    <2>2. torn' \/ files' = request[r].old
      BY <2>1 DEF Inv, Progress
    <2> QED BY <1>1, <2>1, <2>2, OneEnds DEF WholeEnd, SnapshotEnd
  <1> QED BY <1>2, <1>3 DEF Restart, Undo

\* A crash has changed no file before the first write.
LEMMA CrashEnds ==
  ASSUME Inv, Crash PROVE EndsWell
  <1>1. UNCHANGED files /\ (~torn' => \A r \in Requests : request[r].at \in {"idle", "waiting", "conf"})
    BY DEF Crash
  <1>2. ASSUME NEW r \in Requests PROVE WholeEnd(r) /\ SnapshotEnd(r)
    BY <1>1 DEF WholeEnd, SnapshotEnd, Idle, Inv, Progress
  <1> QED BY <1>2 DEF EndsWell

\* Until it begins it has nothing to end.
LEMMA OthersEnd ==
  ASSUME Inv, NEW r \in Requests, Arrive(r) \/ Begin(r) PROVE EndsWell
  <1>1. request[r].at \in Idle
    BY DEF Arrive, Begin, At, Idle
  <1>2. ASSUME NEW s \in Requests \ {r} PROVE request'[s] = request[s]
    BY DEF Arrive, Arrives, Begin, End, Inv, Shaped
  <1>3. ASSUME NEW s \in Requests PROVE request[s].at \in Idle \/ request'[s].at # "idle"
    BY <1>1, <1>2 DEF Idle
  <1> QED BY <1>3, NobodyEnds

\* Whichever step it is.
LEMMA EveryEnd == Inv /\ Memory /\ [Next]_vars => [EndsWell]_vars
  <1> SUFFICES ASSUME Inv, Memory, Next PROVE EndsWell
    OBVIOUS
  <1>1. ASSUME NEW r \in Requests, Arrive(r) \/ Apply(r) PROVE EndsWell
    BY <1>1, OthersEnd, EarlyEnds, ReadyEnds, LateEnds DEF Apply
  <1>2. ASSUME UNCHANGED request PROVE EndsWell
    BY <1>2, NobodyEnds DEF Idle
  <1>3. ASSUME NEW d, StartLogging(d) \/ StopLogging(d) \/ Log(d) PROVE EndsWell
    BY <1>2, <1>3 DEF StartLogging, StopLogging, Log, Raise, SetTimer, Lower, Ended
  <1>4. CASE Expire \/ RestartByOthers
    BY <1>2, <1>3, <1>4 DEF Expire, RestartByOthers
  <1> QED BY <1>1, <1>3, <1>4, CrashEnds DEF Next

\* applyStateLocked with its rollbacks: an apply changes what it was asked for,
\* or nothing, and never takes back the other half, which another request may
\* have changed while it waited.
THEOREM ApplyWholeOrNot == Spec => ApplyAllOrNothing
  <1>1. [EndsWell]_vars =>
          [\A r \in Requests :
             ~torn' /\ request[r].at \notin {"idle", "waiting"} /\ At(r, "idle")' =>
               \/ files' = request[r].old
               \/ /\ files' = request[r].want
                  /\ request[r].kind = "settings" => files'.custom = request[r].old.custom
                  /\ request[r].kind = "custom" => files'.settings = request[r].old.settings]_vars
    BY DEF EndsWell, WholeEnd, AsAsked, Idle, At
  <1> QED BY <1>1, EveryEnd, MemoryInvariance, PTL DEF Spec, ApplyAllOrNothing

\* What a successful apply has replaced is in the history, also when its own
\* snapshot failed and however full the history was.
THEOREM ReplacedIsKept == Spec => PreviousRestorable
  <1>1. [EndsWell]_vars =>
          [\A r \in Requests :
             At(r, "ready") /\ At(r, "idle")' /\ ~torn' =>
               \E i \in DOMAIN history' : history'[i] = request[r].old]_vars
    BY DEF EndsWell, SnapshotEnd, At
  <1> QED BY <1>1, EveryEnd, MemoryInvariance, PTL DEF Spec, PreviousRestorable

-----------------------------------------------------------------------------
(* Sequences that are folded, listed and picked from *)

\* What is said of a sequence whatever it is of.
IsSeq(s) == s \in Seq(ToSet(s))

\* Induction up to a number, for a set of the places that have what is proved.
LEMMA UpTo ==
  ASSUME NEW n \in Nat, NEW P, 0 \in P, \A i \in 1 .. n : i - 1 \in P => i \in P
  PROVE  0 .. n \subseteq P
  <1> DEFINE less == {ss \in Nat \X Nat : ss[1] < ss[2]}
             S    == {i \in 0 .. n : i \notin P}
  <1> SUFFICES ASSUME S # {} PROVE FALSE
    OBVIOUS
  <1>1. IsWellFoundedOn(less, Nat)
    BY NatLessThanWellFounded DEF OpToRel
  <1>2. S \subseteq Nat
    OBVIOUS
  <1>3. \E x \in S : \A y \in S : <<y, x>> \notin less
    BY <1>1, <1>2, WFMin
  <1>4. PICK x \in S : \A y \in S : ~(y < x)
    BY <1>2, <1>3
  <1>5. CASE x = 0
    BY <1>5
  <1>6. CASE x # 0
    <2>1. x \in 1 .. n /\ x - 1 \in 0 .. n /\ x - 1 < x
      BY <1>6
    <2>2. x - 1 \in P
      BY <1>4, <2>1
    <2> QED BY <2>1, <2>2
  <1> QED BY <1>5, <1>6

\* The values of a function that is defined by its first value and the one before.
NextValue(n, X) == [1 .. n -> [X -> X]]
Iterates(g, n, first, next) == g[0] = first /\ \A i \in 1 .. n : g[i] = next[i][g[i - 1]]

\* There is such a function of the numbers up to n.
LEMMA Iteration ==
  ASSUME NEW n \in Nat, NEW X, NEW first \in X, NEW next \in NextValue(n, X)
  PROVE  \E g \in [0 .. n -> X] : Iterates(g, n, first, next)
  <1> USE DEF NextValue, Iterates
  <1> DEFINE Defined(g, k) == g[0] = first /\ \A i \in 1 .. k : g[i] = next[i][g[i - 1]]
             P == {k \in 0 .. n : \E g \in [0 .. k -> X] : Defined(g, k)}
  <1>1. 0 \in P
    <2> DEFINE g == [i \in 0 .. 0 |-> first]
    <2>1. g \in [0 .. 0 -> X] /\ Defined(g, 0)
      OBVIOUS
    <2> HIDE DEF g, Defined
    <2> QED BY <2>1
  <1>2. ASSUME NEW k \in 1 .. n, k - 1 \in P PROVE k \in P
    <2>1. PICK g \in [0 .. k - 1 -> X] : Defined(g, k - 1)
      BY <1>2
    <2> DEFINE h == [i \in 0 .. k |-> IF i = k THEN next[k][g[k - 1]] ELSE g[i]]
    <2>2. g[k - 1] \in X /\ next[k][g[k - 1]] \in X
      BY <1>2
    <2>3. h \in [0 .. k -> X]
      BY <2>2
    <2>4. h[0] = first
      BY <2>1
    <2>5. ASSUME NEW i \in 1 .. k PROVE h[i] = next[i][h[i - 1]]
      <3>1. CASE i = k
        <4>1. h[i - 1] = g[k - 1]
          BY <3>1
        <4> QED BY <3>1, <4>1
      <3>2. CASE i # k
        <4>1. i \in 1 .. k - 1 /\ i - 1 \in 0 .. k - 1
          BY <3>2
        <4>2. h[i] = g[i] /\ h[i - 1] = g[i - 1]
          BY <3>2, <4>1
        <4> QED BY <2>1, <4>1, <4>2
      <3> QED BY <3>1, <3>2
    <2>6. Defined(h, k)
      BY <2>4, <2>5
    <2> HIDE DEF h, Defined
    <2> QED BY <1>2, <2>3, <2>6
  <1> HIDE DEF P
  <1>3. n \in P
    <2>1. 0 .. n \subseteq P
      BY <1>1, <1>2, UpTo
    <2> QED BY <2>1
  <1> QED BY <1>3 DEF P

\* The elements of two sequences, one behind the other.
LEMMA Joined ==
  ASSUME NEW S, NEW a \in Seq(S), NEW b \in Seq(S)
  PROVE  a \o b \in Seq(S) /\ ToSet(a \o b) = ToSet(a) \cup ToSet(b)
  <1>1. /\ a \o b \in Seq(S) /\ Len(a \o b) = Len(a) + Len(b) /\ Len(a) \in Nat /\ Len(b) \in Nat
        /\ \A i \in 1 .. Len(a) : (a \o b)[i] = a[i]
        /\ \A i \in 1 .. Len(b) : (a \o b)[Len(a) + i] = b[i]
    OBVIOUS
  <1> DEFINE ab == a \o b
  <1>2. DOMAIN a = 1 .. Len(a) /\ DOMAIN b = 1 .. Len(b) /\ DOMAIN ab = 1 .. Len(a) + Len(b)
    BY <1>1
  <1> HIDE DEF ab
  <1>3. ASSUME NEW i \in DOMAIN ab PROVE ab[i] \in ToSet(a) \cup ToSet(b)
    <2>1. CASE i <= Len(a)
      BY <1>1, <1>2, <2>1 DEF ToSet, ab
    <2>2. CASE ~(i <= Len(a))
      <3>1. i - Len(a) \in 1 .. Len(b) /\ i = Len(a) + (i - Len(a))
        BY <1>1, <1>2, <2>2
      <3>2. ab[i] = b[i - Len(a)]
        BY <1>1, <3>1 DEF ab
      <3> QED BY <1>2, <3>1, <3>2 DEF ToSet
    <2> QED BY <2>1, <2>2
  <1>4. ASSUME NEW i \in DOMAIN a PROVE a[i] \in ToSet(ab)
    <2>1. i \in DOMAIN ab /\ ab[i] = a[i]
      BY <1>1, <1>2 DEF ab
    <2> QED BY <2>1 DEF ToSet
  <1>5. ASSUME NEW i \in DOMAIN b PROVE b[i] \in ToSet(ab)
    <2>1. Len(a) + i \in DOMAIN ab /\ ab[Len(a) + i] = b[i]
      BY <1>1, <1>2 DEF ab
    <2> QED BY <2>1 DEF ToSet
  <1>6. ToSet(ab) = ToSet(a) \cup ToSet(b)
    BY <1>3, <1>4, <1>5 DEF ToSet
  <1> QED BY <1>1, <1>6 DEF ab

\* A finite set as a sequence has all its members and nothing else.
LEMMA Listed ==
  ASSUME NEW S, IsFiniteSet(S)
  PROVE  SetToSeq(S) \in Seq(S) /\ ToSet(SetToSeq(S)) = S
  <1> DEFINE n == Cardinality(S)
             f == SetToSeq(S)
  <1>1. n \in Nat /\ \E g : g \in Bijection(1 .. n, S)
    BY FS_CardinalityType, FS_CountingElements DEF ExistsBijection
  <1>2. PICK g : g \in Bijection(1 .. n, S)
    BY <1>1
  <1>3. g \in [1 .. n -> S] /\ IsInjective(g)
    BY <1>2 DEF Bijection, Injection, IsInjective
  <1>4. f \in [1 .. n -> S] /\ IsInjective(f)
    BY <1>3 DEF SetToSeq
  <1>5. f \in Injection(1 .. n, S)
    BY <1>4 DEF Injection, IsInjective
  <1>6. IsFiniteSet(1 .. n) /\ Cardinality(1 .. n) = n
    BY <1>1, FS_Interval
  <1> HIDE DEF f
  <1>7. f \in Surjection(1 .. n, S)
    BY <1>5, <1>6, FS_Injection
  <1>8. \A x \in S : \E i \in 1 .. n : f[i] = x
    BY <1>7 DEF Surjection
  <1>9. f \in Seq(S) /\ DOMAIN f = 1 .. n
    BY <1>1, <1>4
  <1>10. ToSet(f) = S
    BY <1>4, <1>8, <1>9 DEF ToSet
  <1> QED BY <1>9, <1>10 DEF f

\* One element more.
LEMMA Appended ==
  ASSUME NEW S, NEW a \in Seq(S), NEW e \in S
  PROVE  Append(a, e) \in Seq(S) /\ ToSet(Append(a, e)) = ToSet(a) \cup {e}
  <1> DEFINE b == <<e>>
  <1>1. Append(a, e) = a \o b /\ b \in Seq(S) /\ ToSet(b) = {e}
    BY DEF ToSet
  <1> HIDE DEF b
  <1> QED BY <1>1, Joined

\* The elements at some places of a sequence are all taken.
LEMMA Picking ==
  ASSUME NEW S, NEW s \in Seq(S), NEW places
  PROVE  /\ Picked(s, places) \in Seq(S)
         /\ ToSet(Picked(s, places)) = {s[i] : i \in places \cap DOMAIN s}
  <1> DEFINE n == Len(s)
             Step(f) == [i \in 0 .. n |->
               IF i = 0 THEN <<>> ELSE IF i \in places THEN Append(f[i - 1], s[i]) ELSE f[i - 1]]
             picked == CHOOSE f : f = Step(f)
             next == [i \in 1 .. n |-> [t \in Seq(S) |-> IF i \in places THEN Append(t, s[i]) ELSE t]]
  <1>1. n \in Nat /\ DOMAIN s = 1 .. n /\ \A i \in 1 .. n : s[i] \in S
    OBVIOUS
  <1>2. ASSUME NEW i \in 1 .. n, NEW t \in Seq(S)
        PROVE  next[i][t] = (IF i \in places THEN Append(t, s[i]) ELSE t) /\ next[i][t] \in Seq(S)
    BY <1>1
  <1>3. next \in [1 .. n -> [Seq(S) -> Seq(S)]]
    BY <1>1
  <1> HIDE DEF next
  <1>4. <<>> \in Seq(S)
    OBVIOUS
  <1>5. PICK g \in [0 .. n -> Seq(S)] : g[0] = <<>> /\ \A i \in 1 .. n : g[i] = next[i][g[i - 1]]
    <2> DEFINE X == Seq(S)
               first == <<>>
    <2> HIDE DEF n
    <2>1. n \in Nat /\ first \in X /\ next \in NextValue(n, X)
      BY <1>1, <1>3, <1>4 DEF NextValue
    <2> HIDE DEF X, first
    <2>2. \E g \in [0 .. n -> X] : Iterates(g, n, first, next)
      BY <2>1, Iteration
    <2> QED BY <2>2 DEF X, first, Iterates
  <1>6. g = Step(g)
    <2>1. ASSUME NEW i \in 0 .. n PROVE g[i] = Step(g)[i]
      <3>1. CASE i = 0
        BY <1>5, <3>1
      <3>2. CASE i # 0
        <4>1. i \in 1 .. n /\ g[i - 1] \in Seq(S)
          BY <1>1, <3>2
        <4>2. g[i] = IF i \in places THEN Append(g[i - 1], s[i]) ELSE g[i - 1]
          BY <1>2, <1>5, <4>1
        <4> QED BY <3>2, <4>2
      <3> QED BY <3>1, <3>2
    <2>2. DOMAIN g = 0 .. n /\ DOMAIN Step(g) = 0 .. n
      OBVIOUS
    <2>3. g = [i \in 0 .. n |-> g[i]]
      OBVIOUS
    <2> HIDE DEF Step
    <2>4. Step(g) = [i \in 0 .. n |-> Step(g)[i]]
      BY DEF Step
    <2> QED BY <2>1, <2>3, <2>4
  <1>7. picked = Step(picked)
    BY <1>6
  <1> HIDE DEF picked
  <1>8. ASSUME NEW i \in 0 .. n
        PROVE  /\ i = 0 => picked[i] = <<>>
               /\ i # 0 => picked[i] = IF i \in places THEN Append(picked[i - 1], s[i]) ELSE picked[i - 1]
    BY <1>7
  <1> DEFINE Right(k) == /\ picked[k] \in Seq(S)
                         /\ ToSet(picked[k]) = {s[i] : i \in places \cap (1 .. k)}
             P == {k \in 0 .. n : Right(k)}
  <1>9. Right(0)
    <2>1. picked[0] = <<>> /\ 1 .. 0 = {}
      BY <1>1, <1>8
    <2> QED BY <1>4, <2>1 DEF ToSet
  <1>10. ASSUME NEW k \in 1 .. n, Right(k - 1) PROVE Right(k)
    <2>1. k \in 0 .. n /\ k # 0 /\ s[k] \in S /\ 1 .. k = (1 .. k - 1) \cup {k}
      BY <1>1
    <2>2. CASE k \in places
      <3>1. picked[k] = Append(picked[k - 1], s[k])
        BY <1>8, <2>1, <2>2
      <3>2. picked[k - 1] \in Seq(S)
        BY <1>10
      <3>3. picked[k] \in Seq(S) /\ ToSet(picked[k]) = ToSet(picked[k - 1]) \cup {s[k]}
        BY <2>1, <3>1, <3>2, Appended
      <3> QED BY <1>10, <2>1, <2>2, <3>3
    <2>3. CASE k \notin places
      <3>1. picked[k] = picked[k - 1]
        BY <1>8, <2>1, <2>3
      <3>2. places \cap (1 .. k) = places \cap (1 .. k - 1)
        BY <2>1, <2>3
      <3> QED BY <1>10, <3>1, <3>2
    <2> QED BY <2>2, <2>3
  <1> HIDE DEF Right
  <1>11. n \in P
    <2>1. 0 \in P /\ \A k \in 1 .. n : k - 1 \in P => k \in P
      BY <1>1, <1>9, <1>10
    <2> HIDE DEF P
    <2>2. 0 .. n \subseteq P
      BY <1>1, <2>1, UpTo
    <2> QED BY <1>1, <2>2
  <1>12. Right(n)
    BY <1>11
  <1>13. Picked(s, places) = picked[n]
    BY DEF Picked, picked, Step
  <1> QED BY <1>1, <1>12, <1>13 DEF Right

ListsOf(S) == Seq(Seq(S))

\* Joining a sequence of sequences leaves the elements of all of them.
LEMMA Flattened ==
  ASSUME NEW S, NEW seqs \in ListsOf(S)
  PROVE  /\ FlattenSeq(seqs) \in Seq(S)
         /\ ToSet(FlattenSeq(seqs)) = UNION {ToSet(seqs[i]) : i \in DOMAIN seqs}
  <1> DEFINE n == Len(seqs)
             Step(f) == [i \in 1 .. n |-> IF i = 1 THEN seqs[i] ELSE f[i - 1] \o seqs[i]]
             flat == CHOOSE f : f = Step(f)
             next == [i \in 1 .. n |-> [t \in Seq(S) |-> t \o seqs[i]]]
  <1>1. n \in Nat /\ DOMAIN seqs = 1 .. n /\ \A i \in 1 .. n : seqs[i] \in Seq(S)
    BY DEF ListsOf
  <1>2. ASSUME NEW i \in 1 .. n, NEW t \in Seq(S)
        PROVE  next[i][t] = t \o seqs[i] /\ next[i][t] \in Seq(S)
    BY <1>1
  <1>3. next \in [1 .. n -> [Seq(S) -> Seq(S)]]
    BY <1>1
  <1> HIDE DEF next
  <1>4. <<>> \in Seq(S)
    OBVIOUS
  <1>5. PICK g \in [0 .. n -> Seq(S)] : g[0] = <<>> /\ \A i \in 1 .. n : g[i] = next[i][g[i - 1]]
    <2> DEFINE X == Seq(S)
               first == <<>>
    <2> HIDE DEF n
    <2>1. n \in Nat /\ first \in X /\ next \in NextValue(n, X)
      BY <1>1, <1>3, <1>4 DEF NextValue
    <2> HIDE DEF X, first
    <2>2. \E g \in [0 .. n -> X] : Iterates(g, n, first, next)
      BY <2>1, Iteration
    <2> QED BY <2>2 DEF X, first, Iterates
  <1> DEFINE h == [i \in 1 .. n |-> g[i]]
  <1>6. h = Step(h)
    <2>1. ASSUME NEW i \in 1 .. n PROVE h[i] = Step(h)[i]
      <3>1. CASE i = 1
        <4>1. seqs[1] \in Seq(S) /\ 1 \in 1 .. n /\ g[1] = next[1][g[0]] /\ g[0] = <<>>
          BY <1>1, <1>5, <3>1
        <4>3. g[1] = <<>> \o seqs[1]
          BY <1>2, <1>4, <4>1
        <4>2. g[1] = seqs[1]
          BY <4>1, <4>3
        <4> QED BY <3>1, <4>2
      <3>2. CASE i # 1
        <4>1. i - 1 \in 1 .. n /\ i - 1 \in 0 .. n
          BY <1>1, <2>1, <3>2
        <4>3. g[i - 1] \in Seq(S)
          BY <4>1
        <4>2. g[i] = g[i - 1] \o seqs[i]
          BY <1>2, <1>5, <4>3
        <4> QED BY <3>2, <4>1, <4>2
      <3> QED BY <3>1, <3>2
    <2> HIDE DEF Step, h
    <2>2. Step(h) = [i \in 1 .. n |-> Step(h)[i]]
      BY DEF Step
    <2>3. h = [i \in 1 .. n |-> h[i]]
      BY DEF h
    <2> QED BY <2>1, <2>2, <2>3
  <1> HIDE DEF h
  <1>7. flat = Step(flat)
    BY <1>6
  <1> HIDE DEF flat
  <1>8. ASSUME NEW i \in 1 .. n
        PROVE  /\ i = 1 => flat[i] = seqs[i]
               /\ i # 1 => flat[i] = flat[i - 1] \o seqs[i]
    BY <1>7
  <1> DEFINE Right(k) == k # 0 => /\ flat[k] \in Seq(S)
                                  /\ ToSet(flat[k]) = UNION {ToSet(seqs[i]) : i \in 1 .. k}
             P == {k \in 0 .. n : Right(k)}
  <1>9. Right(0)
    OBVIOUS
  <1>10. ASSUME NEW k \in 1 .. n, Right(k - 1) PROVE Right(k)
    <2>1. CASE k = 1
      <3>1. flat[k] = seqs[k] /\ 1 .. k = {k}
        BY <1>1, <1>8, <1>10, <2>1
      <3> QED BY <1>1, <3>1
    <2>2. CASE k # 1
      <3>5. k \in 1 .. n /\ k \in Nat /\ k - 1 # 0 /\ 1 .. k = (1 .. k - 1) \cup {k}
        BY <1>1, <1>10, <2>2
      <3>1. flat[k] = flat[k - 1] \o seqs[k] /\ 1 .. k = (1 .. k - 1) \cup {k} /\ seqs[k] \in Seq(S) /\ k - 1 # 0
        BY <1>1, <1>8, <2>2, <3>5
      <3>2. flat[k - 1] \in Seq(S) /\ ToSet(flat[k - 1]) = UNION {ToSet(seqs[i]) : i \in 1 .. k - 1}
        BY <1>10, <3>1
      <3>3. flat[k] \in Seq(S) /\ ToSet(flat[k]) = ToSet(flat[k - 1]) \cup ToSet(seqs[k])
        BY <3>1, <3>2, Joined
      <3>4. UNION {ToSet(seqs[i]) : i \in 1 .. k} = (UNION {ToSet(seqs[i]) : i \in 1 .. k - 1}) \cup ToSet(seqs[k])
        BY <3>1
      <3> QED BY <3>2, <3>3, <3>4
    <2> QED BY <2>1, <2>2
  <1> HIDE DEF Right
  <1>11. n \in P
    <2>1. 0 \in P /\ \A k \in 1 .. n : k - 1 \in P => k \in P
      BY <1>1, <1>9, <1>10
    <2> HIDE DEF P
    <2>2. 0 .. n \subseteq P
      BY <1>1, <2>1, UpTo
    <2> QED BY <1>1, <2>2
  <1>12. Right(n)
    BY <1>11
  <1>13. n = 0 => FlattenSeq(seqs) = <<>> /\ seqs = <<>>
    BY <1>1 DEF FlattenSeq, ListsOf
  <1>14. n # 0 => FlattenSeq(seqs) = flat[n]
    BY DEF FlattenSeq, flat, Step
  <1>15. CASE n = 0
    BY <1>4, <1>13, <1>15 DEF ToSet
  <1>16. CASE n # 0
    BY <1>1, <1>12, <1>14, <1>16 DEF Right
  <1> QED BY <1>15, <1>16

\* The image of a finite set is finite.
LEMMA FiniteImage ==
  ASSUME NEW S, IsFiniteSet(S), NEW f
  PROVE  IsFiniteSet({f[x] : x \in S})
  <1> DEFINE g == [x \in S |-> f[x]]
             T == {f[x] : x \in S}
  <1>1. g \in Surjection(S, T)
    BY DEF Surjection
  <1> HIDE DEF g, T
  <1>2. IsFiniteSet(T)
    BY <1>1, FS_Surjection
  <1> QED BY <1>2 DEF T

\* Sequences of whatever, joined.
LEMMA JoinedSeqs ==
  ASSUME NEW a, NEW b, IsSeq(a), IsSeq(b)
  PROVE  IsSeq(a \o b) /\ ToSet(a \o b) = ToSet(a) \cup ToSet(b)
  <1> DEFINE U == ToSet(a) \cup ToSet(b)
  <1>1. a \in Seq(U) /\ b \in Seq(U)
    BY DEF IsSeq
  <1> HIDE DEF U
  <1>2. a \o b \in Seq(U) /\ ToSet(a \o b) = ToSet(a) \cup ToSet(b)
    BY <1>1, Joined
  <1> QED BY <1>2 DEF IsSeq, U

\* A finite set as a sequence.
LEMMA ListedSeq ==
  ASSUME NEW S, IsFiniteSet(S)
  PROVE  IsSeq(SetToSeq(S)) /\ ToSet(SetToSeq(S)) = S /\ DOMAIN SetToSeq(S) = 1 .. Len(SetToSeq(S))
         /\ Len(SetToSeq(S)) \in Nat
  BY Listed DEF IsSeq

\* A sequence for each member of a finite set, one after the other.
LEMMA ListedAll ==
  ASSUME NEW T, IsFiniteSet(T), NEW f, \A x \in T : IsSeq(f[x]),
         NEW names, names = SetToSeq(T),
         NEW seqs, seqs = [i \in DOMAIN names |-> f[names[i]]]
  PROVE  IsSeq(FlattenSeq(seqs)) /\ ToSet(FlattenSeq(seqs)) = UNION {ToSet(f[x]) : x \in T}
  <1> DEFINE n == Len(names)
             U == UNION {ToSet(f[x]) : x \in T}
  <1>1. n \in Nat /\ DOMAIN names = 1 .. n /\ ToSet(names) = T
    BY ListedSeq
  <1>2. ASSUME NEW i \in 1 .. n PROVE names[i] \in T /\ seqs[i] = f[names[i]] /\ seqs[i] \in Seq(U)
    <2>1. names[i] \in T /\ seqs[i] = f[names[i]]
      BY <1>1 DEF ToSet
    <2>2. f[names[i]] \in Seq(ToSet(f[names[i]])) /\ ToSet(f[names[i]]) \subseteq U
      BY <2>1 DEF IsSeq
    <2> QED BY <2>1, <2>2
  <1> HIDE DEF U
  <1>3. seqs \in Seq(Seq(U)) /\ DOMAIN seqs = 1 .. n
    BY <1>1, <1>2
  <1>6. seqs \in ListsOf(U)
    BY <1>3 DEF ListsOf
  <1>4. FlattenSeq(seqs) \in Seq(U) /\ ToSet(FlattenSeq(seqs)) = UNION {ToSet(seqs[i]) : i \in DOMAIN seqs}
    BY <1>6, Flattened
  <1>5. UNION {ToSet(seqs[i]) : i \in DOMAIN seqs} = U
    <2>1. ASSUME NEW x \in T PROVE \E i \in 1 .. n : seqs[i] = f[x]
      <3>1. PICK i \in DOMAIN names : names[i] = x
        BY <1>1 DEF ToSet
      <3> QED BY <1>1, <1>2, <3>1
    <2>2. ASSUME NEW d \in U PROVE \E i \in 1 .. n : d \in ToSet(seqs[i])
      <3>1. PICK x \in T : d \in ToSet(f[x])
        BY DEF U
      <3>2. PICK i \in 1 .. n : seqs[i] = f[x]
        BY <2>1
      <3> QED BY <3>1, <3>2
    <2>3. ASSUME NEW i \in 1 .. n PROVE ToSet(seqs[i]) \subseteq U
      BY <1>2 DEF U
    <2> QED BY <1>3, <2>2, <2>3
  <1> QED BY <1>4, <1>5 DEF IsSeq, U

\* A bounded set of places has a last one.
LEMMA HasLast ==
  ASSUME NEW n \in Nat, NEW S, S \subseteq 1 .. n, S # {}
  PROVE  \E x \in S : \A y \in S : y <= x
  <1> DEFINE less == {ss \in Nat \X Nat : ss[1] < ss[2]}
             T == {d \in Nat : \E x \in S : d + x = n}
  <1>1. IsWellFoundedOn(less, Nat)
    BY NatLessThanWellFounded DEF OpToRel
  <1>2. ASSUME NEW x \in S PROVE n - x \in T
    BY <1>2
  <1>3. T \subseteq Nat /\ T # {}
    BY <1>2
  <1>4. \E t \in T : \A u \in T : <<u, t>> \notin less
    BY <1>1, <1>3, WFMin
  <1>5. PICK t \in T : \A u \in T : ~(u < t)
    BY <1>3, <1>4
  <1>6. PICK x \in S : t + x = n
    BY <1>5
  <1>7. ASSUME NEW y \in S PROVE y <= x
    <2>1. ~(n - y < t) /\ y \in 1 .. n /\ x \in 1 .. n
      BY <1>2, <1>5, <1>6
    <2> QED BY <1>6, <2>1
  <1> QED BY <1>7

\* That is the one the model takes.
LEMMA Latest ==
  ASSUME NEW n \in Nat, NEW S, S \subseteq 1 .. n, S # {}
  PROVE  Max(S) \in S /\ \A y \in S : y <= Max(S)
  <1>1. \E x \in S : \A y \in S : x >= y
    <2>1. PICK x \in S : \A y \in S : y <= x
      BY HasLast
    <2>2. \A y \in S : x >= y
      BY <2>1
    <2> QED BY <2>2
  <1>2. Max(S) \in S /\ \A y \in S : Max(S) >= y
    BY <1>1 DEF Max
  <1> QED BY <1>2

-----------------------------------------------------------------------------
(* What Render writes *)

\* The lines of a host, of a local zone, and of all the settings.
AddressLines(key, zone, h, ips) == {HostLine(key, zone, h, a) : a \in ips}
HostLines(zone, h, host) ==
  AddressLines("local-data", zone, h, host.ip)
  \cup (IF host.ptr THEN AddressLines("local-data-ptr", zone, h, host.ip) ELSE {})
GroupLines(zone, hosts) ==
  {LocalZoneLine(zone, "static")} \cup UNION {HostLines(zone, h, hosts[h]) : h \in DOMAIN hosts}
OptInLines(forward) ==
  {Named("domain-insecure", z) : z \in {z \in DOMAIN forward : forward[z].unsigned}}
  \cup {Named("private-domain", z) : z \in {z \in DOMAIN forward : forward[z].private}}
ReverseSet(reverse) == UNION {{LocalZoneLine(z, reverse[n]) : z \in ReverseNames[n]} : n \in DOMAIN reverse}
ServerLines(s) ==
  {Directive("verbosity", s.level)} \cup ToSet(ProfileLines(s.profile)) \cup ToSet(NetworkLines(s.network))
  \cup {Named("private-domain", d) : d \in s.private} \cup OptInLines(s.forward) \cup ReverseSet(s.reverse)
  \cup UNION {GroupLines(z, s.local[z]) : z \in DOMAIN s.local}

\* One line is a sequence of it.
LEMMA OneLine == ASSUME NEW d PROVE IsSeq(<<d>>) /\ ToSet(<<d>>) = {d}
  BY DEF IsSeq, ToSet

\* The lines of a host's addresses.
LEMMA AddressSeq ==
  ASSUME NEW key, NEW zone, NEW h, NEW ips, IsFiniteSet(ips)
  PROVE  /\ IsSeq(SetToSeq(AddressLines(key, zone, h, ips)))
         /\ ToSet(SetToSeq(AddressLines(key, zone, h, ips))) = AddressLines(key, zone, h, ips)
  <1> DEFINE f == [a \in ips |-> HostLine(key, zone, h, a)]
  <1>1. AddressLines(key, zone, h, ips) = {f[a] : a \in ips}
    BY DEF AddressLines
  <1> HIDE DEF f
  <1>2. IsFiniteSet(AddressLines(key, zone, h, ips))
    BY <1>1, FiniteImage
  <1> QED BY <1>2, ListedSeq

\* The lines of a local zone.
LEMMA GroupSeq ==
  ASSUME NEW zone, NEW hosts, IsFiniteSet(DOMAIN hosts), \A h \in DOMAIN hosts : IsFiniteSet(hosts[h].ip)
  PROVE  IsSeq(LocalZoneGroup(zone, hosts)) /\ ToSet(LocalZoneGroup(zone, hosts)) = GroupLines(zone, hosts)
  <1> DEFINE Lines(h, key) == SetToSeq(AddressLines(key, zone, h, hosts[h].ip))
             PerHost(h)    == Lines(h, "local-data") \o (IF hosts[h].ptr THEN Lines(h, "local-data-ptr") ELSE <<>>)
             names         == SetToSeq(DOMAIN hosts)
             f             == [h \in DOMAIN hosts |-> PerHost(h)]
             seqs          == [i \in DOMAIN names |-> f[names[i]]]
  <1>1. ASSUME NEW h \in DOMAIN hosts PROVE IsSeq(f[h]) /\ ToSet(f[h]) = HostLines(zone, h, hosts[h])
    <2> DEFINE a == Lines(h, "local-data")
               b == IF hosts[h].ptr THEN Lines(h, "local-data-ptr") ELSE <<>>
    <2>1. IsSeq(a) /\ ToSet(a) = AddressLines("local-data", zone, h, hosts[h].ip)
      BY AddressSeq
    <2>2. CASE hosts[h].ptr
      <3>1. IsSeq(b) /\ ToSet(b) = AddressLines("local-data-ptr", zone, h, hosts[h].ip)
        BY <2>2, AddressSeq
      <3>2. f[h] = a \o b
        OBVIOUS
      <3> HIDE DEF a, b, f
      <3> QED BY <2>1, <2>2, <3>1, <3>2, JoinedSeqs DEF HostLines
    <2>3. CASE ~hosts[h].ptr
      <3>1. IsSeq(b) /\ ToSet(b) = {}
        BY <2>3 DEF IsSeq, ToSet
      <3>2. f[h] = a \o b
        OBVIOUS
      <3> HIDE DEF a, b, f
      <3> QED BY <2>1, <2>3, <3>1, <3>2, JoinedSeqs DEF HostLines
    <2> QED BY <2>2, <2>3
  <1>2. LocalZoneGroup(zone, hosts) = <<LocalZoneLine(zone, "static")>> \o FlattenSeq(seqs)
    <2>1. ASSUME NEW i \in DOMAIN names PROVE names[i] \in DOMAIN hosts
      BY ListedSeq DEF ToSet
    <2>2. seqs = [i \in DOMAIN names |-> PerHost(names[i])]
      BY <2>1
    <2> HIDE DEF seqs
    <2> QED BY <2>2 DEF LocalZoneGroup, AddressLines
  <1> HIDE DEF f
  <1>3. /\ IsSeq(FlattenSeq(seqs))
        /\ ToSet(FlattenSeq(seqs)) = UNION {ToSet(f[h]) : h \in DOMAIN hosts}
    BY <1>1, ListedAll
  <1>4. UNION {ToSet(f[h]) : h \in DOMAIN hosts} = UNION {HostLines(zone, h, hosts[h]) : h \in DOMAIN hosts}
    BY <1>1
  <1> DEFINE a == <<LocalZoneLine(zone, "static")>>
             b == FlattenSeq(seqs)
  <1>5. IsSeq(a) /\ ToSet(a) = {LocalZoneLine(zone, "static")}
    BY OneLine
  <1> HIDE DEF seqs, a, b
  <1>6. IsSeq(a \o b) /\ ToSet(a \o b) = ToSet(a) \cup ToSet(b)
    BY <1>3, <1>5, JoinedSeqs DEF b
  <1>7. LocalZoneGroup(zone, hosts) = a \o b
    BY <1>2 DEF a, b
  <1>8. ToSet(a) \cup ToSet(b) = GroupLines(zone, hosts)
    BY <1>3, <1>4, <1>5 DEF b, GroupLines
  <1> QED BY <1>6, <1>7, <1>8

\* The lines of the settings with finitely many members.
LEMMA OptInsFinite == ASSUME NEW s, IsSettings(s) PROVE IsFiniteSet(OptInLines(s.forward))
  <1> DEFINE U == {z \in DOMAIN s.forward : s.forward[z].unsigned}
             V == {z \in DOMAIN s.forward : s.forward[z].private}
             f == [z \in DOMAIN s.forward |-> Named("domain-insecure", z)]
             g == [z \in DOMAIN s.forward |-> Named("private-domain", z)]
  <1>1. IsFiniteSet(U) /\ IsFiniteSet(V)
    BY FS_Subset DEF IsSettings
  <1>2. IsFiniteSet({f[z] : z \in U}) /\ IsFiniteSet({g[z] : z \in V})
    BY <1>1, FiniteImage
  <1>3. OptInLines(s.forward) = {f[z] : z \in U} \cup {g[z] : z \in V}
    BY DEF OptInLines
  <1> QED BY <1>2, <1>3, FS_Union

\* Neither are the reverse zones without number.
LEMMA ReverseFinite == ASSUME NEW s, IsSettings(s) PROVE IsFiniteSet(ReverseSet(s.reverse))
  <1> DEFINE f == [n \in DOMAIN s.reverse |-> {LocalZoneLine(z, s.reverse[n]) : z \in ReverseNames[n]}]
  <1>0. DOMAIN s.reverse \subseteq DOMAIN ReverseNames /\ IsFiniteSet(DOMAIN s.reverse)
    BY ImportAssumption, FS_Subset DEF ImportAssumption, IsSettings
  <1>1. ASSUME NEW n \in DOMAIN s.reverse PROVE IsFiniteSet(f[n])
    <2>0. n \in DOMAIN ReverseNames
      BY <1>0, <1>1
    <2> DEFINE g == [z \in ReverseNames[n] |-> LocalZoneLine(z, s.reverse[n])]
    <2>1. f[n] = {g[z] : z \in ReverseNames[n]}
      OBVIOUS
    <2> HIDE DEF f, g
    <2> QED BY <2>0, <2>1, ImportAssumption, FiniteImage DEF ImportAssumption
  <1>2. ReverseSet(s.reverse) = UNION {f[n] : n \in DOMAIN s.reverse}
    BY DEF ReverseSet
  <1> HIDE DEF f
  <1>3. IsFiniteSet({f[n] : n \in DOMAIN s.reverse})
    BY <1>0, FiniteImage
  <1> QED BY <1>1, <1>2, <1>3, FS_UNION

\* The lines and clauses of any settings.
LEMMA Rendered ==
  ASSUME NEW s, IsSettings(s)
  PROVE  /\ IsSeq(Render(s).server) /\ ToSet(Render(s).server) = ServerLines(s)
         /\ IsSeq(Render(s).clauses)
         /\ ToSet(Render(s).clauses) =
              {[section |-> "forward-zone", name |-> z, servers |-> s.forward[z].servers, clean |-> TRUE]
                 : z \in DOMAIN s.forward}
  <1> DEFINE level   == <<Directive("verbosity", s.level)>>
             profile == ProfileLines(s.profile)
             network == NetworkLines(s.network)
             private == SetToSeq({Named("private-domain", d) : d \in s.private})
             optIns  == SetToSeq(OptInLines(s.forward))
             reverse == SetToSeq(ReverseSet(s.reverse))
             names   == SetToSeq(DOMAIN s.local)
             group   == [z \in DOMAIN s.local |-> LocalZoneGroup(z, s.local[z])]
             seqs    == [i \in DOMAIN names |-> group[names[i]]]
             local   == FlattenSeq(seqs)
             zones   == SetToSeq(DOMAIN s.forward)
             clause(z) == [section |-> "forward-zone", name |-> z, servers |-> s.forward[z].servers, clean |-> TRUE]
             clauses == [i \in DOMAIN zones |-> clause(zones[i])]
  <1>1. Render(s).server = level \o profile \o network \o private \o optIns \o reverse \o local
    <2>1. ASSUME NEW i \in DOMAIN names PROVE names[i] \in DOMAIN s.local
      BY ListedSeq DEF ToSet, IsSettings
    <2>2. seqs = [i \in DOMAIN names |-> LocalZoneGroup(names[i], s.local[names[i]])]
      BY <2>1
    <2> HIDE DEF seqs
    <2> QED BY <2>2 DEF Render, OptInLines, ReverseSet
  <1>2. Render(s).clauses = clauses
    BY DEF Render
  <1>3. IsSeq(level) /\ ToSet(level) = {Directive("verbosity", s.level)}
    BY OneLine
  <1>4. IsSeq(profile) /\ ToSet(profile) = ToSet(ProfileLines(s.profile))
    BY DEF ProfileLines, IsSeq, ToSet
  <1>5. IsSeq(network) /\ ToSet(network) = ToSet(NetworkLines(s.network))
    BY DEF NetworkLines, IsSeq, ToSet
  <1>6. IsSeq(private) /\ ToSet(private) = {Named("private-domain", d) : d \in s.private}
    <2> DEFINE f == [d \in s.private |-> Named("private-domain", d)]
               P == {Named("private-domain", d) : d \in s.private}
    <2>1. P = {f[d] : d \in s.private}
      OBVIOUS
    <2> HIDE DEF f, P
    <2>2. IsFiniteSet(P)
      BY <2>1, FiniteImage DEF IsSettings
    <2>3. IsSeq(SetToSeq(P)) /\ ToSet(SetToSeq(P)) = P
      BY <2>2, ListedSeq
    <2> QED BY <2>3 DEF P
  <1>7. IsSeq(optIns) /\ ToSet(optIns) = OptInLines(s.forward)
    BY OptInsFinite, ListedSeq
  <1>8. IsSeq(reverse) /\ ToSet(reverse) = ReverseSet(s.reverse)
    BY ReverseFinite, ListedSeq
  <1>9. IsSeq(local) /\ ToSet(local) = UNION {GroupLines(z, s.local[z]) : z \in DOMAIN s.local}
    <2>1. ASSUME NEW z \in DOMAIN s.local PROVE IsSeq(group[z]) /\ ToSet(group[z]) = GroupLines(z, s.local[z])
      BY GroupSeq DEF IsSettings
    <2> HIDE DEF group
    <2>2. IsFiniteSet(DOMAIN s.local) /\ \A z \in DOMAIN s.local : IsSeq(group[z])
      BY <2>1 DEF IsSettings
    <2>3. IsSeq(local) /\ ToSet(local) = UNION {ToSet(group[z]) : z \in DOMAIN s.local}
      BY <2>2, ListedAll
    <2>4. UNION {ToSet(group[z]) : z \in DOMAIN s.local} = UNION {GroupLines(z, s.local[z]) : z \in DOMAIN s.local}
      BY <2>1
    <2> QED BY <2>3, <2>4
  <1> HIDE DEF level, profile, network, private, optIns, reverse, local
  <1>10. /\ IsSeq(level \o profile \o network) 
         /\ ToSet(level \o profile \o network) = ToSet(level) \cup ToSet(profile) \cup ToSet(network)
    <2>1. IsSeq(level \o profile) /\ ToSet(level \o profile) = ToSet(level) \cup ToSet(profile)
      BY <1>3, <1>4, JoinedSeqs
    <2> QED BY <2>1, <1>5, JoinedSeqs
  <1>11. /\ IsSeq(level \o profile \o network \o private \o optIns) 
         /\ ToSet(level \o profile \o network \o private \o optIns) =
              ToSet(level) \cup ToSet(profile) \cup ToSet(network) \cup ToSet(private) \cup ToSet(optIns)
    <2>1. /\ IsSeq(level \o profile \o network \o private)
          /\ ToSet(level \o profile \o network \o private) = ToSet(level) \cup ToSet(profile) \cup ToSet(network) \cup ToSet(private)
      BY <1>6, <1>10, JoinedSeqs
    <2> QED BY <2>1, <1>7, JoinedSeqs
  <1>12. /\ IsSeq(level \o profile \o network \o private \o optIns \o reverse \o local) 
         /\ ToSet(level \o profile \o network \o private \o optIns \o reverse \o local) =
              ToSet(level) \cup ToSet(profile) \cup ToSet(network) \cup ToSet(private) \cup ToSet(optIns)
              \cup ToSet(reverse) \cup ToSet(local)
    <2>1. /\ IsSeq(level \o profile \o network \o private \o optIns \o reverse)
          /\ ToSet(level \o profile \o network \o private \o optIns \o reverse) =
               ToSet(level) \cup ToSet(profile) \cup ToSet(network) \cup ToSet(private) \cup ToSet(optIns) \cup ToSet(reverse)
      BY <1>8, <1>11, JoinedSeqs
    <2> QED BY <2>1, <1>9, JoinedSeqs
  <1>13. ToSet(Render(s).server) = ServerLines(s)
    BY <1>1, <1>3, <1>4, <1>5, <1>6, <1>7, <1>8, <1>9, <1>12 DEF ServerLines
  <1>14. IsSeq(clauses) /\ ToSet(clauses) = {clause(z) : z \in DOMAIN s.forward}
    <2>1. IsFiniteSet(DOMAIN s.forward)
      BY DEF IsSettings
    <2>2. ToSet(zones) = DOMAIN s.forward /\ DOMAIN zones = 1 .. Len(zones) /\ Len(zones) \in Nat
      BY <2>1, ListedSeq
    <2> HIDE DEF zones, clause
    <2>3. clauses = [i \in 1 .. Len(zones) |-> clause(zones[i])]
      BY <2>2
    <2>4. ToSet(clauses) = {clause(z) : z \in DOMAIN s.forward}
      BY <2>2, <2>3 DEF ToSet
    <2>5. clauses \in Seq(ToSet(clauses))
      BY <2>2, <2>3 DEF ToSet
    <2> QED BY <2>4, <2>5 DEF IsSeq
  <1> HIDE DEF clauses
  <1> QED BY <1>1, <1>2, <1>12, <1>13, <1>14

-----------------------------------------------------------------------------
(* What an import makes of a file *)

\* The lines that stay as they are written, and the clauses.
Kept(file) ==
  {i \in DOMAIN file.server :
     /\ i \notin Consumed(file.server) /\ ~NotAdopted(file.server[i])
     /\ file.server[i].key \notin {"verbosity", "private-domain"}
     /\ ~(file.server[i].key = "domain-insecure" /\ file.server[i].name \in DOMAIN ForwardZones(file))}
CleanZone(c) == c.section = "forward-zone" /\ c.clean
KeptClauses(file) ==
  {i \in DOMAIN file.clauses : file.clauses[i].section \in Clauses /\ ~CleanZone(file.clauses[i])}
Domains(file) ==
  {file.server[i].name : i \in {i \in DOMAIN file.server : file.server[i].key = "private-domain"}} \ DOMAIN ForwardZones(file)

\* The parts of the result that a line or a clause can go to.
ImportedDomains(file, forward) == {d \in Domains(file) : d \notin DOMAIN forward \/ ~forward[d].private}
PoliciesOver(reverse, policies) == [n \in DOMAIN reverse |-> IF n \in DOMAIN policies THEN policies[n] ELSE reverse[n]]
Headers(clauses) == [i \in DOMAIN clauses |-> Named(clauses[i].section, clauses[i].name)]
\* What ImportUnboundConf returns, part by part.
LEMMA ImportParts ==
  ASSUME NEW current, NEW file
  PROVE  LET result == ImportUnboundConf(current, file)
         IN /\ result.settings.level = LastSaid(file.server, "verbosity", current.level)
            /\ result.settings.forward = MergeZonesByName(current.forward, ForwardZones(file))
            /\ result.settings.private =
                 current.private \cup ImportedDomains(file, MergeZonesByName(current.forward, ForwardZones(file)))
            /\ result.settings.local = MergeZonesByName(current.local, LocalZones(file.server))
            /\ result.settings.reverse = PoliciesOver(current.reverse, ReverseZonePolicies(file.server))
            /\ result.custom = Picked(file.server, Kept(file)) \o Headers(Picked(file.clauses, KeptClauses(file)))
  BY DEF ImportUnboundConf, Kept, KeptClauses, CleanZone, Domains, ImportedDomains, PoliciesOver, Headers

\* The places of a text.
LEMMA Places ==
  ASSUME NEW file, IsText(file)
  PROVE  /\ Len(file.server) \in Nat /\ DOMAIN file.server = 1 .. Len(file.server)
         /\ Len(file.clauses) \in Nat /\ DOMAIN file.clauses = 1 .. Len(file.clauses)
         /\ IsFiniteSet(DOMAIN file.server) /\ IsFiniteSet(DOMAIN file.clauses)
         /\ \A i \in DOMAIN file.server : file.server[i] \in ToSet(file.server) /\ IsLine(file.server[i])
         /\ \A i \in DOMAIN file.clauses : file.clauses[i] \in ToSet(file.clauses) /\ IsClause(file.clauses[i])
         /\ IsSeq(file.server) /\ IsSeq(file.clauses)
  <1>1. IsSeq(file.server) /\ IsSeq(file.clauses)
    BY DEF IsText, IsSeq
  <1>2. /\ Len(file.server) \in Nat /\ DOMAIN file.server = 1 .. Len(file.server)
        /\ Len(file.clauses) \in Nat /\ DOMAIN file.clauses = 1 .. Len(file.clauses)
    BY <1>1 DEF IsSeq
  <1>3. IsFiniteSet(DOMAIN file.server) /\ IsFiniteSet(DOMAIN file.clauses)
    BY <1>2, FS_Interval
  <1> QED BY <1>1, <1>2, <1>3 DEF IsText, ToSet

\* The names at some of finitely many places.
LEMMA NamesFinite ==
  ASSUME NEW D, IsFiniteSet(D), NEW E, E \subseteq D, NEW s
  PROVE  IsFiniteSet({s[i].name : i \in E})
  <1> DEFINE f == [i \in E |-> s[i].name]
  <1>1. IsFiniteSet(E)
    BY FS_Subset
  <1>2. IsFiniteSet({f[i] : i \in E})
    BY <1>1, FiniteImage
  <1> QED BY <1>2

\* The zones that a text names are finitely many, and so is what is in them.
LEMMA TextFinite ==
  ASSUME NEW file, IsText(file)
  PROVE  /\ IsFiniteSet(DOMAIN ForwardZones(file)) /\ IsFiniteSet(Domains(file))
         /\ IsFiniteSet(DOMAIN LocalZones(file.server))
         /\ \A z \in DOMAIN LocalZones(file.server) :
              /\ IsFiniteSet(DOMAIN LocalZones(file.server)[z])
              /\ \A h \in DOMAIN LocalZones(file.server)[z] : IsFiniteSet(LocalZones(file.server)[z][h].ip)
  <1> DEFINE lines == file.server
  <1>1. IsFiniteSet(DOMAIN lines) /\ IsFiniteSet(DOMAIN file.clauses) /\ DOMAIN lines = 1 .. Len(lines) /\ Len(lines) \in Nat
    BY Places
  <1>2. IsFiniteSet(DOMAIN ForwardZones(file))
    <2> DEFINE clean == {i \in DOMAIN file.clauses : file.clauses[i].section = "forward-zone" /\ file.clauses[i].clean}
    <2>1. DOMAIN ForwardZones(file) = {file.clauses[i].name : i \in clean}
      BY DEF ForwardZones
    <2>2. clean \subseteq DOMAIN file.clauses
      OBVIOUS
    <2> HIDE DEF clean
    <2>3. IsFiniteSet({file.clauses[i].name : i \in clean})
      BY <1>1, <2>2, NamesFinite
    <2> QED BY <2>1, <2>3
  <1>3. IsFiniteSet(Domains(file))
    <2> DEFINE E == {i \in DOMAIN lines : lines[i].key = "private-domain"}
    <2>1. IsFiniteSet({lines[i].name : i \in E})
      BY <1>1, NamesFinite
    <2>2. Domains(file) \subseteq {lines[i].name : i \in E}
      BY DEF Domains
    <2> QED BY <2>1, <2>2, FS_Subset
  <1> HIDE DEF lines
  <1>4. DOMAIN LocalZones(lines) = {lines[i].name : i \in CleanGroups(lines)} /\ CleanGroups(lines) \subseteq DOMAIN lines
    BY DEF LocalZones, CleanGroups
  <1>5. IsFiniteSet(DOMAIN LocalZones(lines))
    BY <1>1, <1>4, NamesFinite
  <1>6. ASSUME NEW g \in DOMAIN lines
        PROVE  IsFiniteSet(DOMAIN Hosts(lines, g)) /\ \A h \in DOMAIN Hosts(lines, g) : IsFiniteSet(Hosts(lines, g)[h].ip)
    <2>1. GroupData(lines, g) \subseteq DOMAIN lines
      BY <1>1 DEF GroupData
    <2>2. IsFiniteSet(GroupData(lines, g))
      BY <1>1, <2>1, FS_Subset
    <2>3. IsFiniteSet(DOMAIN Hosts(lines, g))
      <3> DEFINE f == [j \in GroupData(lines, g) |-> lines[j].host]
      <3>1. DOMAIN Hosts(lines, g) = {f[j] : j \in GroupData(lines, g)}
        BY DEF Hosts
      <3> HIDE DEF f
      <3> QED BY <2>2, <3>1, FiniteImage
    <2>4. ASSUME NEW h \in DOMAIN Hosts(lines, g) PROVE IsFiniteSet(Hosts(lines, g)[h].ip)
      <3> DEFINE E == {j \in GroupData(lines, g) : lines[j].key = "local-data" /\ lines[j].host = h}
                 f == [j \in E |-> lines[j].value]
      <3>1. IsFiniteSet(E)
        BY <2>2, FS_Subset
      <3>2. Hosts(lines, g)[h].ip = {f[j] : j \in E}
        BY DEF Hosts
      <3> HIDE DEF E, f
      <3> QED BY <3>1, <3>2, FiniteImage
    <2> QED BY <2>3, <2>4
  <1>7. ASSUME NEW z \in DOMAIN LocalZones(lines) PROVE \E g \in DOMAIN lines : LocalZones(lines)[z] = Hosts(lines, g)
    <2> DEFINE G == {i \in CleanGroups(lines) : lines[i].name = z}
    <2>1. G \subseteq 1 .. Len(lines) /\ G # {}
      BY <1>1, <1>4, <1>7
    <2>2. Max(G) \in DOMAIN lines
      BY <1>1, <2>1, Latest
    <2>3. LocalZones(lines)[z] = Hosts(lines, Max(G))
      BY <1>4 DEF LocalZones
    <2> QED BY <2>2, <2>3
  <1>8. ASSUME NEW z \in DOMAIN LocalZones(lines)
        PROVE  /\ IsFiniteSet(DOMAIN LocalZones(lines)[z])
               /\ \A h \in DOMAIN LocalZones(lines)[z] : IsFiniteSet(LocalZones(lines)[z][h].ip)
    BY <1>6, <1>7
  <1> QED BY <1>2, <1>3, <1>5, <1>8 DEF lines

\* Settings that come out of an import can be written down.
LEMMA ImportedSettings ==
  ASSUME NEW current, IsSettings(current), NEW file, IsText(file)
  PROVE  IsSettings(ImportUnboundConf(current, file).settings)
  <1> DEFINE s        == ImportUnboundConf(current, file).settings
             incoming == ForwardZones(file)
             before   == current.forward
             forward  == MergeZonesByName(before, incoming)
             policies == ReverseZonePolicies(file.server)
             zones    == LocalZones(file.server)
             local    == current.local
             D        == ImportedDomains(file, forward)
  <1>1. /\ s.forward = forward /\ s.private = current.private \cup D
        /\ s.local = MergeZonesByName(local, zones) /\ s.reverse = PoliciesOver(current.reverse, policies)
    BY ImportParts
  <1> HIDE DEF s, policies
  <1>2. DOMAIN s.reverse = DOMAIN current.reverse
    BY <1>1 DEF PoliciesOver
  <1>3. IsFiniteSet(DOMAIN incoming) /\ IsFiniteSet(Domains(file)) /\ IsFiniteSet(DOMAIN zones)
    BY TextFinite
  <1>4. \A z \in DOMAIN zones : IsFiniteSet(DOMAIN zones[z]) /\ \A h \in DOMAIN zones[z] : IsFiniteSet(zones[z][h].ip)
    BY TextFinite
  <1>5. IsFiniteSet(DOMAIN before) /\ IsFiniteSet(current.private) /\ IsFiniteSet(DOMAIN local)
    BY DEF IsSettings
  <1>6. \A z \in DOMAIN local : IsFiniteSet(DOMAIN local[z]) /\ \A h \in DOMAIN local[z] : IsFiniteSet(local[z][h].ip)
    BY DEF IsSettings
  <1> HIDE DEF incoming, zones, before, local
  <1>7. IsFiniteSet(DOMAIN before \cup DOMAIN incoming) /\ IsFiniteSet(DOMAIN local \cup DOMAIN zones)
    BY <1>3, <1>5, FS_Union
  <1>8. IsFiniteSet(DOMAIN s.forward)
    BY <1>1, <1>7 DEF MergeZonesByName
  <1>9. IsFiniteSet(s.private)
    <2>1. IsFiniteSet(D)
      BY <1>3, FS_Subset DEF ImportedDomains
    <2> HIDE DEF D
    <2>2. IsFiniteSet(current.private \cup D)
      BY <1>5, <2>1, FS_Union
    <2> QED BY <1>1, <2>2
  <1> HIDE DEF forward, D
  <1>10. /\ DOMAIN s.local = DOMAIN local \cup DOMAIN zones
         /\ \A z \in DOMAIN zones : s.local[z] = zones[z]
         /\ \A z \in DOMAIN local \ DOMAIN zones : s.local[z] = local[z]
    BY <1>1 DEF MergeZonesByName
  <1>11. ASSUME NEW z \in DOMAIN s.local
         PROVE IsFiniteSet(DOMAIN s.local[z]) /\ \A h \in DOMAIN s.local[z] : IsFiniteSet(s.local[z][h].ip)
    <2>1. CASE z \in DOMAIN zones
      BY <1>4, <1>10, <2>1
    <2>2. CASE z \notin DOMAIN zones
      BY <1>6, <1>10, <2>2
    <2> QED BY <2>1, <2>2
  <1>12. DOMAIN s.reverse \subseteq DOMAIN ReverseNames
    BY <1>2 DEF IsSettings
  <1>13. IsFiniteSet(DOMAIN s.local)
    BY <1>7, <1>10
  <1>14. IsSettings(s)
    BY <1>8, <1>9, <1>11, <1>12, <1>13 DEF IsSettings
  <1> QED BY <1>14 DEF s

\* What Render writes is a text.
LEMMA RenderedText ==
  ASSUME NEW s, IsSettings(s) PROVE IsText(Render(s))
  <1>1. ASSUME NEW key, NEW value, key \notin {"private-domain", "domain-insecure", "local-zone"}
        PROVE  IsLine(Directive(key, value))
    BY <1>1 DEF IsLine, Directive, HostLine
  <1>2. ASSUME NEW key, NEW name, key \in {"private-domain", "domain-insecure"} PROVE IsLine(Named(key, name))
    BY <1>2 DEF IsLine, Named, HostLine
  <1>3. ASSUME NEW zone, NEW type PROVE IsLine(LocalZoneLine(zone, type))
    <2>1. LocalZoneLine(zone, type) = HostLine("local-zone", zone, "", type)
      BY DEF LocalZoneLine, HostLine
    <2>2. LET d == HostLine("local-zone", zone, "", type) IN d.key = "local-zone" /\ d.name = zone /\ d.host = "" /\ d.value = type
      BY DEF HostLine
    <2> QED BY <2>1, <2>2 DEF IsLine
  <1>4. ASSUME NEW key, key \in {"local-data", "local-data-ptr"}, NEW zone, NEW h, NEW a
        PROVE  IsLine(HostLine(key, zone, h, a))
    BY <1>4 DEF IsLine, HostLine
  <1>5. \A d \in ToSet(ProfileLines(s.profile)) \cup ToSet(NetworkLines(s.network)) : IsLine(d)
    <2>1. \A d \in ToSet(ProfileLines(s.profile)) :
            \E key \in {"rrset-cache-size", "msg-cache-size"} : \E value : d = Directive(key, value)
      BY DEF ProfileLines, ToSet
    <2>2. \A d \in ToSet(NetworkLines(s.network)) :
            \E key \in {"do-ip4", "do-ip6", "prefer-ip6"} : \E value : d = Directive(key, value)
      BY DEF NetworkLines, ToSet
    <2> QED BY <1>1, <2>1, <2>2
  <1>6. \A d \in OptInLines(s.forward) \cup {Named("private-domain", z) : z \in s.private} : IsLine(d)
    BY <1>2 DEF OptInLines
  <1>7. \A d \in ReverseSet(s.reverse) : IsLine(d)
    BY <1>3 DEF ReverseSet
  <1>8. \A z \in DOMAIN s.local : \A d \in GroupLines(z, s.local[z]) : IsLine(d)
    BY <1>3, <1>4 DEF GroupLines, HostLines, AddressLines
  <1>9. IsLine(Directive("verbosity", s.level))
    BY <1>1
  <1>10. \A d \in ServerLines(s) : IsLine(d)
    BY <1>5, <1>6, <1>7, <1>8, <1>9 DEF ServerLines
  <1>11. ASSUME NEW c \in ToSet(Render(s).clauses) PROVE IsClause(c)
    <2>1. PICK z \in DOMAIN s.forward :
            c = [section |-> "forward-zone", name |-> z, servers |-> s.forward[z].servers, clean |-> TRUE]
      BY Rendered
    <2>2. /\ c.section = "forward-zone" /\ c.name = z /\ c.servers = s.forward[z].servers /\ c.clean = TRUE
      BY <2>1
    <2> QED BY <2>1, <2>2 DEF IsClause
  <1>12. /\ Render(s).server \in Seq(ToSet(Render(s).server)) /\ ToSet(Render(s).server) = ServerLines(s)
         /\ Render(s).clauses \in Seq(ToSet(Render(s).clauses))
    BY Rendered DEF IsSeq
  <1> QED BY <1>10, <1>11, <1>12 DEF IsText

\* What goes to the expert file.
LEMMA CustomLines ==
  ASSUME NEW current, NEW file, IsText(file)
  PROVE  ToSet(ImportUnboundConf(current, file).custom) =
           {file.server[i] : i \in Kept(file)}
           \cup {Named(file.clauses[i].section, file.clauses[i].name) : i \in KeptClauses(file)}
  <1> DEFINE kept    == Picked(file.server, Kept(file))
             clauses == Picked(file.clauses, KeptClauses(file))
             headers == Headers(clauses)
  <1>1. Kept(file) \subseteq DOMAIN file.server /\ KeptClauses(file) \subseteq DOMAIN file.clauses
    BY DEF Kept, KeptClauses
  <1>2. file.server \in Seq(ToSet(file.server)) /\ file.clauses \in Seq(ToSet(file.clauses))
    BY DEF IsText
  <1>3. kept \in Seq(ToSet(file.server)) /\ ToSet(kept) = {file.server[i] : i \in Kept(file)}
    <2>1. /\ kept \in Seq(ToSet(file.server))
          /\ ToSet(kept) = {file.server[i] : i \in Kept(file) \cap DOMAIN file.server}
      BY <1>2, Picking
    <2>2. Kept(file) \cap DOMAIN file.server = Kept(file)
      BY <1>1
    <2> QED BY <2>1, <2>2
  <1>4. clauses \in Seq(ToSet(file.clauses)) /\ ToSet(clauses) = {file.clauses[i] : i \in KeptClauses(file)}
    <2>1. /\ clauses \in Seq(ToSet(file.clauses))
          /\ ToSet(clauses) = {file.clauses[i] : i \in KeptClauses(file) \cap DOMAIN file.clauses}
      BY <1>2, Picking
    <2>2. KeptClauses(file) \cap DOMAIN file.clauses = KeptClauses(file)
      BY <1>1
    <2> QED BY <2>1, <2>2
  <1> HIDE DEF kept, clauses
  <1>5. /\ IsSeq(headers)
        /\ ToSet(headers) = {Named(file.clauses[i].section, file.clauses[i].name) : i \in KeptClauses(file)}
    <2>1. Len(clauses) \in Nat /\ DOMAIN clauses = 1 .. Len(clauses)
      BY <1>4
    <2>2. headers = [i \in 1 .. Len(clauses) |-> Named(clauses[i].section, clauses[i].name)]
      BY <2>1 DEF Headers
    <2>3. ToSet(headers) = {Named(c.section, c.name) : c \in ToSet(clauses)}
      BY <2>1, <2>2 DEF ToSet
    <2>4. headers \in Seq(ToSet(headers))
      BY <2>1, <2>2 DEF ToSet
    <2> QED BY <1>4, <2>3, <2>4 DEF IsSeq
  <1>6. IsSeq(kept)
    BY <1>3 DEF IsSeq, ToSet
  <1> HIDE DEF headers
  <1>7. ToSet(kept \o headers) = ToSet(kept) \cup ToSet(headers)
    BY <1>5, <1>6, JoinedSeqs
  <1>8. ImportUnboundConf(current, file).custom = kept \o headers
    BY ImportParts DEF kept, headers, clauses
  <1> QED BY <1>3, <1>5, <1>7, <1>8

\* The verbosity of a file is the last one in it.
LEMMA VerbosityKept ==
  ASSUME NEW current, NEW file, IsText(file), NEW i \in DOMAIN file.server, file.server[i].key = "verbosity"
  PROVE  \/ file.server[i] = Directive("verbosity", ImportUnboundConf(current, file).settings.level)
         \/ Overruled(file.server, i)
  <1> DEFINE lines == file.server
             said  == {j \in DOMAIN lines : lines[j].key = "verbosity"}
  <1>1. Len(lines) \in Nat /\ DOMAIN lines = 1 .. Len(lines) /\ IsLine(lines[i])
    BY Places
  <1>2. said # {} /\ said \subseteq 1 .. Len(lines) /\ i \in said
    BY <1>1
  <1>3. Max(said) \in said /\ i <= Max(said)
    BY <1>1, <1>2, Latest
  <1>4. LastSaid(lines, "verbosity", current.level) = lines[Max(said)].value
    BY <1>2 DEF LastSaid
  <1>5. CASE i = Max(said)
    <2>1. lines[i] = Directive("verbosity", lines[i].value)
      BY <1>1 DEF IsLine
    <2> HIDE DEF said
    <2> QED BY <1>4, <1>5, <2>1, ImportParts
  <1>6. CASE i # Max(said)
    <2>1. Max(said) \in i + 1 .. Len(lines) /\ lines[Max(said)].key = "verbosity"
      BY <1>1, <1>2, <1>3, <1>6
    <2> QED BY <2>1 DEF Overruled
  <1> QED BY <1>5, <1>6

\* Where a zone of the result comes from.
LEMMA MergedZone ==
  ASSUME NEW existing, NEW incoming, NEW z
  PROVE  /\ z \in DOMAIN incoming => /\ z \in DOMAIN MergeZonesByName(existing, incoming)
                                     /\ MergeZonesByName(existing, incoming)[z] = incoming[z]
         /\ z \in DOMAIN existing \ DOMAIN incoming => /\ z \in DOMAIN MergeZonesByName(existing, incoming)
                                                       /\ MergeZonesByName(existing, incoming)[z] = existing[z]
  BY DEF MergeZonesByName

\* A line about a forwarding zone of the file becomes its exception, another
\* private domain a setting of its own.
LEMMA DomainKept ==
  ASSUME NEW current, NEW file, IsText(file), NEW i \in DOMAIN file.server,
         \/ file.server[i].key = "private-domain"
         \/ file.server[i].key = "domain-insecure" /\ file.server[i].name \in DOMAIN ForwardZones(file)
  PROVE  file.server[i] \in ServerLines(ImportUnboundConf(current, file).settings)
  <1> DEFINE d == file.server[i]
             s == ImportUnboundConf(current, file).settings
             zones   == ForwardZones(file)
             forward == MergeZonesByName(current.forward, zones)
  <1>1. d \in ToSet(file.server) /\ d = Named(d.key, d.name)
    BY Places DEF IsLine
  <1>2. s.forward = forward /\ s.private = current.private \cup ImportedDomains(file, forward)
    BY ImportParts
  <1>3. CASE d.name \in DOMAIN zones
    <2>1. d.name \in DOMAIN forward /\ forward[d.name] = zones[d.name]
      BY <1>3, MergedZone
    <2>2. CASE d.key = "private-domain"
      <3>1. zones[d.name].private
        BY <1>1, <1>3, <2>2 DEF ForwardZones
      <3>2. d \in OptInLines(forward)
        BY <1>1, <2>1, <2>2, <3>1 DEF OptInLines
      <3> QED BY <1>2, <3>2 DEF ServerLines
    <2>3. CASE d.key = "domain-insecure"
      <3>1. zones[d.name].unsigned
        BY <1>1, <1>3, <2>3 DEF ForwardZones
      <3>2. d \in OptInLines(forward)
        BY <1>1, <2>1, <2>3, <3>1 DEF OptInLines
      <3> QED BY <1>2, <3>2 DEF ServerLines
    <2> QED BY <2>2, <2>3
  <1>4. CASE d.name \notin DOMAIN zones
    <2>1. d.key = "private-domain" /\ d.name \in Domains(file)
      BY <1>4 DEF Domains
    <2> HIDE DEF s, forward
    <2>2. CASE d.name \in DOMAIN forward /\ forward[d.name].private
      <3>1. d \in OptInLines(forward)
        BY <1>1, <2>1, <2>2 DEF OptInLines
      <3> QED BY <1>2, <3>1 DEF ServerLines, s
    <2>3. CASE ~(d.name \in DOMAIN forward /\ forward[d.name].private)
      <3>1. d.name \in s.private
        BY <1>2, <2>1, <2>3 DEF ImportedDomains
      <3>2. d \in {Named("private-domain", z) : z \in s.private}
        BY <1>1, <2>1, <3>1
      <3> QED BY <3>2 DEF ServerLines, s
    <2> QED BY <2>2, <2>3
  <1> QED BY <1>3, <1>4

\* The lines of a clean group are those of the zone that is made of it.
LEMMA GroupIsZone ==
  ASSUME NEW file, IsText(file), NEW g \in CleanGroups(file.server),
         NEW i \in {g} \cup GroupData(file.server, g)
  PROVE  file.server[i] \in GroupLines(file.server[g].name, Hosts(file.server, g))
  <1> DEFINE lines == file.server
             zone  == lines[g].name
             hosts == Hosts(lines, g)
             data  == GroupData(lines, g)
  <1>1. /\ Len(lines) \in Nat /\ DOMAIN lines = 1 .. Len(lines)
        /\ \A j \in DOMAIN lines : IsLine(lines[j])
    BY Places
  <1>2. g \in DOMAIN lines /\ CleanGroup(lines, g) /\ data \subseteq DOMAIN lines
    BY <1>1 DEF CleanGroups, GroupData
  <1>3. CASE i = g
    <2>1. lines[g] = LocalZoneLine(zone, "static")
      BY <1>1, <1>2 DEF IsLine, CleanGroup
    <2> QED BY <1>3, <2>1 DEF GroupLines
  <1>4. CASE i \in data
    <2> DEFINE h == lines[i].host
               a == lines[i].value
    <2>1. lines[i].key \in {"local-data", "local-data-ptr"}
      BY <1>1, <1>2, <1>4 DEF GroupData
    <2>2. lines[i].name = zone
      BY <1>2, <1>4 DEF CleanGroup
    <2>3. lines[i] = HostLine(lines[i].key, zone, h, a)
      BY <1>1, <1>2, <1>4, <2>2 DEF IsLine
    <2>4. h \in DOMAIN hosts
      BY <1>4 DEF Hosts
    <2>5. CASE lines[i].key = "local-data"
      <3>1. a \in hosts[h].ip
        BY <1>4, <2>4, <2>5 DEF Hosts
      <3>2. lines[i] \in AddressLines("local-data", zone, h, hosts[h].ip)
        BY <2>3, <2>5, <3>1 DEF AddressLines
      <3> QED BY <2>4, <3>2 DEF GroupLines, HostLines
    <2>6. CASE lines[i].key = "local-data-ptr"
      <3>1. \E k \in data : lines[k].key = "local-data" /\ lines[k].host = h /\ lines[k].value = a
        BY <1>2, <1>4, <2>6 DEF CleanGroup
      <3>2. a \in hosts[h].ip
        BY <2>4, <3>1 DEF Hosts
      <3>3. hosts[h].ptr
        BY <1>4, <2>4, <2>6 DEF Hosts
      <3>4. lines[i] \in AddressLines("local-data-ptr", zone, h, hosts[h].ip)
        BY <2>3, <2>6, <3>2 DEF AddressLines
      <3>5. lines[i] \in HostLines(zone, h, hosts[h])
        BY <3>3, <3>4 DEF HostLines
      <3> QED BY <2>4, <3>5 DEF GroupLines
    <2> QED BY <2>1, <2>5, <2>6
  <1> QED BY <1>3, <1>4

\* A group becomes a zone, unless a later one is about the same zone.
LEMMA GroupKept ==
  ASSUME NEW current, NEW file, IsText(file), NEW g \in CleanGroups(file.server),
         NEW i \in {g} \cup GroupData(file.server, g)
  PROVE  \/ file.server[i] \in ServerLines(ImportUnboundConf(current, file).settings)
         \/ Overruled(file.server, i)
  <1> DEFINE lines == file.server
             zone  == lines[g].name
             G     == {j \in CleanGroups(lines) : lines[j].name = zone}
             s     == ImportUnboundConf(current, file).settings
             zones == LocalZones(lines)
  <1>1. Len(lines) \in Nat /\ DOMAIN lines = 1 .. Len(lines)
    BY Places
  <1>2. G # {} /\ G \subseteq 1 .. Len(lines) /\ g \in G
    BY <1>1 DEF CleanGroups
  <1>3. Max(G) \in G /\ g <= Max(G) /\ Max(G) \in 1 .. Len(lines) /\ g \in 1 .. Len(lines)
    BY <1>1, <1>2, Latest
  <1>4. CASE g = Max(G)
    <2>1. zone \in DOMAIN zones /\ zones[zone] = Hosts(lines, Max(G))
      BY DEF LocalZones
    <2>2. s.local = MergeZonesByName(current.local, zones)
      BY ImportParts
    <2> HIDE DEF zones, s, G
    <2>3. zone \in DOMAIN s.local /\ s.local[zone] = Hosts(lines, g)
      BY <1>4, <2>1, <2>2, MergedZone
    <2>4. lines[i] \in GroupLines(zone, s.local[zone])
      BY <2>3, GroupIsZone
    <2>5. lines[i] \in ServerLines(s)
      BY <2>3, <2>4 DEF ServerLines
    <2> QED BY <2>5 DEF s
  <1>5. CASE g # Max(G)
    <2>1. g < Max(G) /\ Max(G) \in CleanGroups(lines) /\ lines[g].name = lines[Max(G)].name
      BY <1>3, <1>5
    <2> HIDE DEF G
    <2> QED BY <2>1 DEF Overruled
  <1> QED BY <1>4, <1>5

\* A reverse zone that the file states completely becomes the policy of a network
\* that has one.
LEMMA ReverseKept ==
  ASSUME NEW current, NEW file, NEW d,
         NEW n \in DOMAIN ReverseZonePolicies(file.server), n \in DOMAIN current.reverse,
         d \in ReverseLines(n, ReverseZonePolicies(file.server)[n])
  PROVE  d \in ServerLines(ImportUnboundConf(current, file).settings)
  <1> DEFINE policies == ReverseZonePolicies(file.server)
             s == ImportUnboundConf(current, file).settings
  <1>2. s.reverse = PoliciesOver(current.reverse, policies)
    BY ImportParts
  <1> HIDE DEF policies, s
  <1>3. n \in DOMAIN s.reverse /\ s.reverse[n] = policies[n]
    BY <1>2 DEF PoliciesOver, policies
  <1>4. d \in ReverseSet(s.reverse)
    BY <1>3 DEF ReverseSet, ReverseLines, policies
  <1> QED BY <1>4 DEF ServerLines, s

\* The lines of a policy for a network that has none in these settings.
PolicyGone(reverse, lines, d) ==
  \E n \in DOMAIN ReverseZonePolicies(lines) \ DOMAIN reverse : d \in ReverseLines(n, ReverseZonePolicies(lines)[n])

\* Every line of a file is in the result, reported or overruled, or states a
\* policy for a network that has none.
LEMMA LineKept ==
  ASSUME NEW current, IsSettings(current), NEW file, IsText(file), NEW i \in DOMAIN file.server
  PROVE  LET result == ImportUnboundConf(current, file)
         IN \/ file.server[i] \in ToSet(Render(result.settings).server) \cup ToSet(result.custom)
            \/ NotAdopted(file.server[i]) \/ Overruled(file.server, i)
            \/ PolicyGone(current.reverse, file.server, file.server[i])
  <1> DEFINE result == ImportUnboundConf(current, file)
             d == file.server[i]
  <1>1. ToSet(Render(result.settings).server) = ServerLines(result.settings)
    BY ImportedSettings, Rendered
  <1>2. CASE i \in Kept(file)
    BY <1>2, CustomLines
  <1>3. CASE d.key = "verbosity"
    BY <1>1, <1>3, VerbosityKept DEF ServerLines
  <1>4. CASE d.key = "private-domain" \/ (d.key = "domain-insecure" /\ d.name \in DOMAIN ForwardZones(file))
    BY <1>1, <1>4, DomainKept
  <1>5. CASE i \in Consumed(file.server)
    <2>1. \/ \E g \in CleanGroups(file.server) : i \in {g} \cup GroupData(file.server, g)
          \/ \E n \in DOMAIN ReverseZonePolicies(file.server) : d \in ReverseLines(n, ReverseZonePolicies(file.server)[n])
      BY <1>5 DEF Consumed
    <2>2. ASSUME NEW n \in DOMAIN ReverseZonePolicies(file.server), d \in ReverseLines(n, ReverseZonePolicies(file.server)[n])
          PROVE  d \in ServerLines(result.settings) \/ PolicyGone(current.reverse, file.server, d)
      BY <2>2, ReverseKept DEF PolicyGone
    <2> QED BY <1>1, <2>1, <2>2, GroupKept
  <1> HIDE DEF result
  <1>6. i \in Kept(file) \/ i \in Consumed(file.server) \/ NotAdopted(d) \/ d.key = "verbosity" \/ d.key = "private-domain"
        \/ (d.key = "domain-insecure" /\ d.name \in DOMAIN ForwardZones(file))
    BY DEF Kept
  <1> QED BY <1>2, <1>3, <1>4, <1>5, <1>6 DEF result

\* Every clause that may be taken over is a zone of the result or in the expert
\* file, or a later one is about the same zone.
LEMMA ClauseKept ==
  ASSUME NEW current, IsSettings(current), NEW file, IsText(file), NEW i \in DOMAIN file.clauses
  PROVE  LET result == ImportUnboundConf(current, file)
             c      == file.clauses[i]
         IN \/ Named(c.section, c.name) \in ToSet(result.custom) \/ c.section \notin Clauses
            \/ CleanZone(c) /\ (c \in ToSet(Render(result.settings).clauses) \/ OverruledClause(file.clauses, i))
  <1> DEFINE result  == ImportUnboundConf(current, file)
             clauses == file.clauses
             c       == clauses[i]
             clean   == {j \in DOMAIN clauses : clauses[j].section = "forward-zone" /\ clauses[j].clean}
             same    == {j \in clean : clauses[j].name = c.name}
             zones   == ForwardZones(file)
             s       == result.settings
  <1>1. /\ Len(clauses) \in Nat /\ DOMAIN clauses = 1 .. Len(clauses)
        /\ \A j \in DOMAIN clauses : IsClause(clauses[j])
    BY Places
  <1>2. CASE i \in KeptClauses(file)
    BY <1>2, CustomLines
  <1>3. CASE CleanZone(c)
    <2>1. same # {} /\ same \subseteq 1 .. Len(clauses) /\ i \in same
      BY <1>1, <1>3 DEF CleanZone
    <2>2. Max(same) \in same /\ i <= Max(same)
      BY <1>1, <2>1, Latest
    <2>3. CASE i = Max(same)
      <3>1. c.name \in DOMAIN zones /\ zones[c.name].servers = clauses[Max(same)].servers
        BY <2>1 DEF ForwardZones
      <3>2. s.forward = MergeZonesByName(current.forward, zones)
        BY ImportParts
      <3>3. ToSet(Render(s).clauses) =
              {[section |-> "forward-zone", name |-> z, servers |-> s.forward[z].servers, clean |-> TRUE]
                 : z \in DOMAIN s.forward}
        BY ImportedSettings, Rendered
      <3>4. c = [section |-> "forward-zone", name |-> c.name, servers |-> c.servers, clean |-> TRUE]
        BY <1>1, <1>3 DEF IsClause, CleanZone
      <3> HIDE DEF zones, s, same
      <3>5. c.name \in DOMAIN s.forward /\ s.forward[c.name].servers = c.servers
        BY <2>3, <3>1, <3>2, MergedZone
      <3>6. c \in ToSet(Render(s).clauses)
        BY <3>3, <3>4, <3>5
      <3> QED BY <1>3, <3>6 DEF s
    <2>4. CASE i # Max(same)
      <3> DEFINE m == Max(same)
      <3>1. clauses[m].section = "forward-zone" /\ clauses[m].clean /\ clauses[m].name = c.name
        BY <2>2
      <3>2. m \in 1 .. Len(clauses) /\ i \in 1 .. Len(clauses) /\ i <= m /\ i # m
        BY <2>1, <2>2, <2>4
      <3> HIDE DEF m, same
      <3>3. m \in i + 1 .. Len(clauses)
        BY <1>1, <3>2
      <3> QED BY <1>3, <3>1, <3>3 DEF OverruledClause
    <2> QED BY <2>3, <2>4
  <1>4. i \in KeptClauses(file) \/ CleanZone(c) \/ c.section \notin Clauses
    BY DEF KeptClauses
  <1> HIDE DEF result
  <1> QED BY <1>2, <1>3, <1>4 DEF result

\* A forwarding zone that no clause is about stays.
LEMMA OtherZonesStay ==
  ASSUME NEW current, NEW file, IsText(file), NEW z \in DOMAIN current.forward,
         \A c \in ToSet(file.clauses) : c.name # z
  PROVE  ImportUnboundConf(current, file).settings.forward[z] = current.forward[z]
  <1>1. z \notin DOMAIN ForwardZones(file)
    BY Places DEF ForwardZones
  <1> QED BY <1>1, ImportParts, MergedZone

-----------------------------------------------------------------------------
(* All settings there are can be written down *)

\* What the import relies on: settings are finite, and what a request to import
\* carries is a parsed file.
Writable ==
  /\ IsSettings(files.settings) /\ \A i \in DOMAIN history : IsSettings(history[i].settings)
  /\ \A r \in Requests :
       /\ IsSettings(request[r].want.settings) /\ IsSettings(request[r].old.settings)
       /\ request[r].at = "waiting" /\ request[r].kind = "import" => IsText(request[r].source)

\* The settings everything starts with.
LEMMA FirstSettings == IsSettings(DefaultSettings)
  <1>1. /\ DefaultSettings.forward = <<>> /\ DefaultSettings.private = {} /\ DefaultSettings.local = <<>>
        /\ DOMAIN DefaultSettings.reverse = DOMAIN ReverseNames
    BY DEF DefaultSettings
  <1>2. DOMAIN <<>> = {}
    OBVIOUS
  <1> QED BY <1>1, <1>2, FS_EmptySet DEF IsSettings

\* Writable holds at the start.
LEMMA WritableInit == Init => Writable
  <1> SUFFICES ASSUME Init PROVE Writable
    OBVIOUS
  <1>1. FirstFiles.settings = DefaultSettings /\ NoRequest.want = FirstFiles /\ NoRequest.old = FirstFiles
        /\ NoRequest.at = "idle"
    BY DEF FirstFiles, NoRequest
  <1>2. files = FirstFiles /\ DOMAIN history = {} /\ \A r \in Requests : request[r] = NoRequest
    BY DEF Init
  <1> QED BY <1>1, <1>2, FirstSettings DEF Writable

\* The entries of a history with a snapshot in front, pruned or not.
LEMMA RecordedEntries ==
  ASSUME IsSequence(history), \A i \in DOMAIN history : IsSettings(history[i].settings),
         NEW f, IsSettings(f.settings), NEW new, new \in {Recorded(f), history, <<f>> \o history}
  PROVE  \A i \in DOMAIN new : IsSettings(new[i].settings)
  <1>1. PICK S : history \in Seq(S)
    BY DEF IsSequence
  <1> DEFINE T == S \cup {f}
             long == <<f>> \o history
  <1>2. history \in Seq(T)
    BY <1>1
  <1>3. /\ long \in Seq(T) /\ Len(long) = Len(history) + 1 /\ long[1] = f /\ DOMAIN long = 1 .. Len(history) + 1
        /\ Len(history) \in Nat /\ DOMAIN history = 1 .. Len(history)
        /\ \A i \in 1 .. Len(history) : long[i + 1] = history[i]
    BY <1>2
  <1> HIDE DEF T, long
  <1>4. ASSUME NEW i \in DOMAIN long PROVE IsSettings(long[i].settings)
    <2>1. CASE i = 1
      BY <1>3, <2>1
    <2>2. CASE i # 1
      <3>1. i - 1 \in 1 .. Len(history) /\ i = (i - 1) + 1
        BY <1>3, <2>2
      <3>2. long[i] = history[i - 1]
        BY <1>3, <3>1
      <3> QED BY <1>3, <3>1, <3>2
    <2> QED BY <2>1, <2>2
  <1>5. ASSUME NEW i \in DOMAIN Prune(long) PROVE i \in DOMAIN long /\ Prune(long)[i] = long[i]
    BY <1>2, <1>3, UnboundAssumption DEF Prune, UnboundAssumption
  <1>6. new = history \/ new = long \/ new = Prune(long)
    BY DEF Recorded, long
  <1> QED BY <1>4, <1>5, <1>6

\* Settings that go into the files, and entries of the history.
WritableThere == IsSettings(files'.settings) /\ \A i \in DOMAIN history' : IsSettings(history'[i].settings)

\* An apply that goes on, or ends, changes no settings of any request.
LEMMA WritableGoesOn ==
  ASSUME Inv, Writable, NEW r \in Requests, NEW stage, stage # "waiting", Goto(r, stage), WritableThere
  PROVE  Writable'
  <1>1. /\ request'[r].at = stage /\ request'[r].want = request[r].want /\ request'[r].old = request[r].old
        /\ \A s \in Requests \ {r} : request'[s] = request[s]
    BY DEF Goto, Inv, Shaped
  <1>2. ASSUME NEW s \in Requests
        PROVE  /\ IsSettings(request'[s].want.settings) /\ IsSettings(request'[s].old.settings)
               /\ request'[s].at = "waiting" /\ request'[s].kind = "import" => IsText(request'[s].source)
    BY <1>1 DEF Writable
  <1> QED BY <1>2 DEF Writable, WritableThere

\* An apply that ends leaves no request behind.
LEMMA WritableEnds ==
  ASSUME Inv, Writable, NEW r \in Requests, End(r), WritableThere
  PROVE  Writable'
  <1>1. request'[r] = NoRequest /\ \A s \in Requests \ {r} : request'[s] = request[s]
    BY DEF End, Inv, Shaped
  <1>2. IsSettings(NoRequest.want.settings) /\ IsSettings(NoRequest.old.settings) /\ NoRequest.at = "idle"
    BY FirstSettings DEF NoRequest, FirstFiles
  <1>3. ASSUME NEW s \in Requests
        PROVE  /\ IsSettings(request'[s].want.settings) /\ IsSettings(request'[s].old.settings)
               /\ request'[s].at = "waiting" /\ request'[s].kind = "import" => IsText(request'[s].source)
    BY <1>1, <1>2 DEF Writable
  <1> QED BY <1>3 DEF Writable, WritableThere

\* Diagnostic logging and restarts by others concern none of it.
LEMMA WritableSame ==
  ASSUME Writable, UNCHANGED <<files, history, request>> PROVE Writable'
  BY DEF Writable

\* A request arrives with settings from the panel, the history or the files.
LEMMA WritableArrive ==
  ASSUME Inv, Writable, NEW r \in Requests, Arrive(r) PROVE Writable'
  <1>1. UNCHANGED <<files, history>>
    BY DEF Arrive
  <1>2. PICK kind, settings, custom, source :
          /\ Arrives(r, kind, settings, custom, source) /\ IsSettings(settings)
          /\ kind = "import" => IsText(source)
    <2>1. \A s \in Guided : IsSettings(s)
      BY UnboundAssumption DEF UnboundAssumption
    <2>2. \A f \in Range(history) : IsSettings(f.settings)
      BY DEF Writable, Range
    <2>3. \A f \in ImportFiles \cup {Render(files.settings)} : IsText(f)
      BY UnboundAssumption, RenderedText DEF UnboundAssumption, Writable
    <2>4. IsSettings(DefaultSettings) /\ IsSettings(files.settings)
      BY FirstSettings DEF Writable
    <2> QED BY <2>1, <2>2, <2>3, <2>4 DEF Arrive
  <1> DEFINE new == [at |-> "waiting", kind |-> kind, old |-> FirstFiles, source |-> source,
                     want |-> [conf |-> settings, settings |-> settings, custom |-> custom]]
  <1>3. request' = [request EXCEPT ![r] = new]
    BY <1>2 DEF Arrives
  <1>4. /\ IsSettings(new.want.settings) /\ IsSettings(new.old.settings)
        /\ new.kind = "import" => IsText(new.source)
    BY <1>2, FirstSettings DEF FirstFiles
  <1> HIDE DEF new
  <1>5. request'[r] = new /\ \A s \in Requests \ {r} : request'[s] = request[s]
    BY <1>3 DEF Inv, Shaped
  <1>6. ASSUME NEW s \in Requests
        PROVE  /\ IsSettings(request'[s].want.settings) /\ IsSettings(request'[s].old.settings)
               /\ request'[s].at = "waiting" /\ request'[s].kind = "import" => IsText(request'[s].source)
    BY <1>4, <1>5 DEF Writable
  <1> QED BY <1>1, <1>6 DEF Writable

\* What is asked for has settings that can be written down, an import too.
LEMMA WantedWritable ==
  ASSUME Inv, Writable, NEW r \in Requests, At(r, "waiting") PROVE IsSettings(Wanted(r).settings)
  <1>1. IsSettings(request[r].want.settings) /\ IsSettings(files.settings) /\ request[r].kind \in Kind
    BY DEF Writable, Inv, Shaped
  <1>2. CASE request[r].kind = "settings"
    BY <1>1, <1>2 DEF Wanted, Inv, Shaped, IsRecord
  <1>3. CASE request[r].kind = "custom"
    <2>1. Wanted(r) = [request[r].want EXCEPT !.conf = files.settings, !.settings = files.settings]
      BY <1>3 DEF Wanted
    <2> QED BY <1>1, <2>1 DEF Inv, Shaped, IsRecord
  <1>4. CASE request[r].kind = "restore"
    BY <1>1, <1>4 DEF Wanted
  <1>5. CASE request[r].kind = "import"
    <2> DEFINE result == ImportUnboundConf(request[r].want.settings, request[r].source)
    <2>1. Wanted(r) = [conf |-> result.settings, settings |-> result.settings, custom |-> result.custom]
      BY <1>5 DEF Wanted
    <2>2. IsText(request[r].source)
      BY <1>5 DEF Writable, At
    <2>3. IsSettings(result.settings)
      BY <1>1, <2>2, ImportedSettings
    <2> HIDE DEF result
    <2> QED BY <2>1, <2>3
  <1> QED BY <1>1, <1>2, <1>3, <1>4, <1>5 DEF Kind

\* applyStateLocked up to the first write.
LEMMA WritableBegin ==
  ASSUME Inv, Memory, Writable, NEW r \in Requests, Begin(r) PROVE Writable'
  <1>1. At(r, "waiting") /\ UNCHANGED files /\ IsSettings(Wanted(r).settings) /\ IsSettings(files.settings)
    BY WantedWritable DEF Begin, Writable
  <1>2. history' \in {Recorded(files), history, <<files>> \o history}
    BY DEF Begin, SnapshotCurrent, RecordFails
  <1>3. \A i \in DOMAIN history' : IsSettings(history'[i].settings)
    BY <1>1, <1>2, RecordedEntries DEF Memory, Writable
  <1>4. WritableThere
    BY <1>1, <1>3 DEF WritableThere
  <1>5. CASE End(r)
    BY <1>4, <1>5, WritableEnds
  <1>6. CASE request' = [request EXCEPT ![r] =
               [@ EXCEPT !.at = "conf", !.want = Wanted(r), !.old = files, !.source = NoFile]]
    <2>1. /\ request'[r].at = "conf" /\ request'[r].want = Wanted(r) /\ request'[r].old = files
          /\ \A s \in Requests \ {r} : request'[s] = request[s]
      BY <1>6 DEF Inv, Shaped
    <2>2. ASSUME NEW s \in Requests
          PROVE  /\ IsSettings(request'[s].want.settings) /\ IsSettings(request'[s].old.settings)
                 /\ request'[s].at = "waiting" /\ request'[s].kind = "import" => IsText(request'[s].source)
      BY <1>1, <2>1 DEF Writable
    <2> QED BY <1>4, <2>2 DEF Writable, WritableThere
  <1> QED BY <1>5, <1>6 DEF Begin

\* The settings in the files after a write or when they are put back.
LEMMA WrittenSettings ==
  ASSUME Inv, Writable, NEW r \in Requests,
         \/ files' \in {files, request[r].old}
         \/ files' = [files EXCEPT !.conf = request[r].want.conf]
         \/ files' = [files EXCEPT !.settings = request[r].want.settings]
         \/ files' = [files EXCEPT !.custom = request[r].want.custom]
         \/ files' = [request[r].old EXCEPT !.settings = request[r].want.settings]
         \/ files' = [request[r].old EXCEPT !.custom = request[r].want.custom]
         \/ \E kept \in SUBSET {"conf", "settings", "custom"} :
              files' = [f \in DOMAIN files |-> IF f \in kept THEN files[f] ELSE request[r].old[f]]
  PROVE  IsSettings(files'.settings)
  <1>1. /\ IsSettings(files.settings) /\ IsSettings(request[r].old.settings) /\ IsSettings(request[r].want.settings)
        /\ DOMAIN files = {"conf", "settings", "custom"} /\ DOMAIN request[r].old = {"conf", "settings", "custom"}
    BY DEF Inv, Shaped, IsRecord, Writable
  <1>2. files'.settings \in {files.settings, request[r].old.settings, request[r].want.settings}
    BY <1>1
  <1> QED BY <1>1, <1>2

\* From the first write to the end.
LEMMA WritableWrites ==
  ASSUME Inv, Memory, Writable, NEW r \in Requests,
         WriteConf(r) \/ WriteSettings(r) \/ WriteCustom(r) \/ CheckEffective(r) \/ Undo(r)
  PROVE  Writable'
  <1>1. UNCHANGED history
    BY DEF WriteConf, WriteSettings, WriteCustom, CheckEffective, Undo
  <1>2. IsSettings(files'.settings)
    BY WrittenSettings DEF WriteConf, WriteSettings, WriteCustom, CheckEffective, Undo, RestoreState, Restored
  <1>3. WritableThere
    BY <1>1, <1>2 DEF WritableThere, Writable
  <1>4. \/ End(r)
        \/ \E stage \in {"settings", "custom", "check", "restart", "restartBack"} : Goto(r, stage)
    BY DEF WriteConf, WriteSettings, WriteCustom, CheckEffective, Undo
  <1> QED BY <1>3, <1>4, WritableGoesOn, WritableEnds

\* The restart and its end: the history may get what was asked for.
LEMMA WritableReady ==
  ASSUME Inv, Memory, Writable, NEW r \in Requests, Restart(r) \/ WaitReady(r) \/ RestartBack(r) PROVE Writable'
  <1>1. UNCHANGED files /\ IsSettings(request[r].want.settings)
    BY DEF Restart, WaitReady, RestartBack, Writable
  <1>2. history' \in {Recorded(request[r].want), history, <<request[r].want>> \o history}
    BY DEF Restart, WaitReady, RestartBack, RecordFails
  <1>3. \A i \in DOMAIN history' : IsSettings(history'[i].settings)
    BY <1>1, <1>2, RecordedEntries DEF Memory, Writable
  <1>4. WritableThere
    BY <1>1, <1>3 DEF WritableThere, Writable
  <1>5. End(r) \/ \E stage \in {"ready", "undo"} : Goto(r, stage)
    BY DEF Restart, WaitReady, RestartBack
  <1> QED BY <1>4, <1>5, WritableGoesOn, WritableEnds

\* After a crash there are no requests.
LEMMA WritableCrash ==
  ASSUME Writable, Crash PROVE Writable'
  <1>1. UNCHANGED <<files, history>> /\ \A r \in Requests : request'[r] = NoRequest
    BY DEF Crash
  <1>2. IsSettings(NoRequest.want.settings) /\ IsSettings(NoRequest.old.settings) /\ NoRequest.at = "idle"
    BY FirstSettings DEF NoRequest, FirstFiles
  <1> HIDE DEF NoRequest
  <1> QED BY <1>1, <1>2 DEF Writable

\* Every step keeps Writable.
LEMMA WritableNext == Inv /\ Memory /\ Writable /\ [Next]_vars => Writable'
  <1> SUFFICES ASSUME Inv, Memory, Writable, [Next]_vars PROVE Writable'
    OBVIOUS
  <1>1. ASSUME NEW r \in Requests, Arrive(r) \/ Apply(r) PROVE Writable'
    BY <1>1, WritableArrive, WritableBegin, WritableWrites, WritableReady DEF Apply
  <1>2. ASSUME NEW d, StartLogging(d) \/ StopLogging(d) \/ Log(d) PROVE Writable'
    BY <1>2, WritableSame DEF StartLogging, StopLogging, Log, Raise, SetTimer, Lower, Ended
  <1>3. CASE Expire \/ RestartByOthers \/ UNCHANGED vars
    BY <1>2, <1>3, WritableSame DEF Expire, RestartByOthers, vars
  <1>4. CASE Crash
    BY <1>4, WritableCrash
  <1> QED BY <1>1, <1>2, <1>3, <1>4 DEF Next

\* An import in a reachable state loses nothing.
LEMMA ImportKeeps ==
  ASSUME Writable, NEW r \in Requests, At(r, "waiting"), request[r].kind = "import"
  PROVE  LET file    == request[r].source
             want    == Wanted(r)
             before  == request[r].want.settings.forward
         IN /\ DOMAIN file.server \subseteq Accounted(r) \cup Unplaced(r)
            /\ \A i \in DOMAIN file.clauses :
                 LET c == file.clauses[i]
                 IN \/ Named(c.section, c.name) \in ToSet(want.custom) \/ c.section \notin Clauses
                    \/ /\ c.section = "forward-zone" /\ c.clean
                       /\ c \in ToSet(Render(want.settings).clauses) \/ OverruledClause(file.clauses, i)
            /\ \A z \in DOMAIN before : (\A c \in ToSet(file.clauses) : c.name # z) => want.settings.forward[z] = before[z]
  <1> DEFINE current == request[r].want.settings
             file    == request[r].source
             result  == ImportUnboundConf(current, file)
  <1>1. IsSettings(current) /\ IsText(file)
    BY DEF Writable, At
  <1>2. Wanted(r) = [conf |-> result.settings, settings |-> result.settings, custom |-> result.custom]
    BY DEF Wanted
  <1>3. Wanted(r).settings = result.settings /\ Wanted(r).custom = result.custom
    BY <1>2
  <1> HIDE DEF current, file
  <1>4. ASSUME NEW i \in DOMAIN file.server
        PROVE  i \in Accounted(r) \cup Unplaced(r)
    <2>1. \/ file.server[i] \in ToSet(Render(result.settings).server) \cup ToSet(result.custom)
          \/ NotAdopted(file.server[i]) \/ Overruled(file.server, i)
          \/ PolicyGone(current.reverse, file.server, file.server[i])
      BY <1>1, LineKept
    <2> HIDE DEF result
    <2>2. CASE PolicyGone(current.reverse, file.server, file.server[i])
      BY <2>2 DEF PolicyGone, Unplaced, current, file
    <2>3. CASE ~PolicyGone(current.reverse, file.server, file.server[i])
      BY <1>3, <2>1, <2>3 DEF Accounted, file
    <2> QED BY <2>2, <2>3
  <1>5. ASSUME NEW i \in DOMAIN file.clauses
        PROVE  \/ Named(file.clauses[i].section, file.clauses[i].name) \in ToSet(result.custom)
               \/ file.clauses[i].section \notin Clauses
               \/ /\ file.clauses[i].section = "forward-zone" /\ file.clauses[i].clean
                  /\ file.clauses[i] \in ToSet(Render(result.settings).clauses) \/ OverruledClause(file.clauses, i)
    BY <1>1, ClauseKept DEF CleanZone
  <1>6. ASSUME NEW z \in DOMAIN current.forward, \A c \in ToSet(file.clauses) : c.name # z
        PROVE  result.settings.forward[z] = current.forward[z]
    BY <1>1, <1>6, OtherZonesStay
  <1> HIDE DEF result
  <1>7. DOMAIN file.server \subseteq Accounted(r) \cup Unplaced(r)
    BY <1>4
  <1> QED BY <1>3, <1>5, <1>6, <1>7 DEF current, file

\* ImportUnboundConf with Render: whatever the settings before and the file, an
\* import leaves every line and clause of the file in the guided files or in
\* the expert file, or reports it as not adopted, but for a policy of a network
\* that has none; where the file says twice what there is one of, the last
\* counts. Zones the file does not name stay.
THEOREM NothingLost == Spec => ImportLosesNothing
  <1>1. Writable /\ [Next]_vars =>
       [\A r \in Requests : Imports(r) =>
       LET file    == request[r].source
           want    == Wanted(r)
           before  == request[r].want.settings.forward
       IN /\ DOMAIN file.server \subseteq Accounted(r) \cup Unplaced(r)
          /\ \A i \in DOMAIN file.clauses :
               LET c == file.clauses[i]
               IN \/ Named(c.section, c.name) \in ToSet(want.custom) \/ c.section \notin Clauses
                  \/ /\ c.section = "forward-zone" /\ c.clean
                     /\ c \in ToSet(Render(want.settings).clauses) \/ OverruledClause(file.clauses, i)
          /\ \A z \in DOMAIN before : (\A c \in ToSet(file.clauses) : c.name # z) => want.settings.forward[z] = before[z]]_vars
    BY ImportKeeps DEF Imports
  <1> QED BY <1>1, WritableInit, WritableNext, MemoryInit, MemoryNext, InvInit, InvNext, PTL DEF Spec, ImportLosesNothing

=============================================================================
