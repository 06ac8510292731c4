--------------------------- MODULE UnboundConfig ---------------------------
(***************************************************************************)
(* Core's management of the running Unbound: the guided settings and the   *)
(* operator's own directives become three files, an apply replaces them    *)
(* one after the other, restarts the container and puts everything back    *)
(* when it does not come up. A history of snapshots can be restored. Beside *)
(* it, diagnostic logging raises the verbosity of the running process for  *)
(* ten minutes.                                                            *)
(*                                                                         *)
(* The rendered configuration stands for the settings it was made from;     *)
(* UnboundImport has what settings are, and how a file is read into them.  *)
(* The clock never goes back, so that the newest snapshot is the one       *)
(* recorded last.                                                          *)
(***************************************************************************)
EXTENDS UnboundImport

CONSTANTS
  Requests,      \* requests that may be under way at the same time
  Operators,     \* those that switch diagnostic logging
  Guided,        \* settings that a request may carry
  Expert,        \* contents of the operator's own file that it may carry
  ImportFiles,   \* files from elsewhere that it may have been made from
  HistoryLimit,
  MaxCalls,      \* bound: requests to apply something, to start or to stop diagnostic logging
  MaxTroubles    \* bound: failing calls, restarts of Core, and of the container by others

ASSUME UnboundAssumption ==
  /\ \A s \in Guided : Valid(s) /\ IsSettings(s)
  /\ \A f \in ImportFiles : IsText(f)
  /\ HistoryLimit \in Nat /\ HistoryLimit >= 2
  /\ {MaxCalls, MaxTroubles} \subseteq Nat

Expiry == "expiry"
Loggers == Operators \cup {Expiry}
Diagnostic == "diagnostic"

VARIABLES
  files,      \* 50-rootguard.conf, settings.json and 90-rootguard-custom.conf
  history,    \* the snapshots, newest first
  request,    \* each request: progress, what it asks for and was read from, the files it replaces
  running,    \* the configuration the container runs, and whether it runs
  verbosity,  \* the running process's own log verbosity
  timers,     \* pending ends of diagnostic logging, one of them Manager's own
  logging,    \* each logger: progress, and the level it has read
  torn,       \* an apply stopped in a way that its code does not undo
  unattended, \* diagnostic logging was left on, with nobody to end it
  spent       \* bounds used

logVars == <<timers, logging, unattended>>
vars == <<files, history, request, running, verbosity, logVars, torn, spent>>

Kind  == {"settings", "custom", "restore", "import"}
Stage == {"idle", "waiting", "conf", "settings", "custom", "check", "restart", "ready", "undo", "restartBack"}

\* A request that has not begun may carry settings that will be refused.
IsFiles(f) == f.conf.level \in Levels /\ Valid(f.settings) /\ f.custom \in Seq(Range(f.custom))
TypeOK ==
  /\ IsFiles(files) /\ \A i \in DOMAIN history : IsFiles(history[i])
  /\ \A r \in Requests : request[r].at \in Stage /\ request[r].kind \in Kind /\ IsFiles(request[r].old)
  /\ running.up \in BOOLEAN /\ Valid(running.conf)
  /\ verbosity \in Levels \cup {Diagnostic}
  /\ timers \subseteq {"own", "stray"}
  /\ logging \in [Loggers -> [at : {"idle", "raising", "raised", "lowering", "lowered"}, level : Levels]]
  /\ torn \in BOOLEAN /\ unattended \in BOOLEAN
  /\ spent \in [calls : 0 .. MaxCalls, troubles : 0 .. MaxTroubles]

FirstFiles == [conf |-> DefaultSettings, settings |-> DefaultSettings, custom |-> <<>>]
NoFile     == [server |-> <<>>, clauses |-> <<>>]
NoRequest  == [at |-> "idle", kind |-> "restore", want |-> FirstFiles, old |-> FirstFiles, source |-> NoFile]
NotLogging == [at |-> "idle", level |-> DefaultSettings.level]
Init ==
  /\ files = FirstFiles /\ history = <<>>
  /\ request = [r \in Requests |-> NoRequest]
  /\ running = [up |-> TRUE, conf |-> DefaultSettings, custom |-> <<>>]
  /\ verbosity = DefaultSettings.level
  /\ timers = {} /\ logging = [d \in Loggers |-> NotLogging]
  /\ torn = FALSE /\ unattended = FALSE
  /\ spent = [calls |-> 0, troubles |-> 0]

Fault   == spent.troubles < MaxTroubles /\ spent' = [spent EXCEPT !.troubles = @ + 1]
NoFault == UNCHANGED spent
Called  == spent.calls < MaxCalls /\ spent' = [spent EXCEPT !.calls = @ + 1]
At(r, stage)   == request[r].at = stage
Goto(r, stage) == request' = [request EXCEPT ![r].at = stage]
End(r)         == request' = [request EXCEPT ![r] = NoRequest]
Locked == \E r \in Requests : request[r].at \notin {"idle", "waiting"}

Container(f) == [up |-> TRUE, conf |-> f.conf, custom |-> f.custom]
\* The container starts on what the files hold; with it goes any verbosity
\* that was set in the process before.
Starts(f) ==
  /\ running' = Container(f)
  /\ verbosity' = f.conf.level /\ unattended' = FALSE
Stops == running' = [running EXCEPT !.up = FALSE] /\ verbosity' = running.conf.level /\ unattended' = FALSE
Runs  == UNCHANGED <<running, verbosity, unattended>>

\* Somebody has restarted the container on files that are about to be put back.
Strayed(r) == running # Container(request[r].old)

-----------------------------------------------------------------------------
(* History *)

Prune(entries) == SubSeq(entries, 1, IF Len(entries) <= HistoryLimit THEN Len(entries) ELSE HistoryLimit)

\* Only the newest snapshot is looked at for a duplicate.
Recorded(f) == IF history # <<>> /\ Head(history) = f THEN history ELSE Prune(<<f>> \o history)
SnapshotCurrent_LeftToLastApply == UNCHANGED history
\* What is there now was recorded by the apply that put it there, unless that
\* one failed to or there was none.
SnapshotCurrent == history' = Recorded(files)
\* A snapshot that fails may be missing, or there with nothing pruned.
RecordFails(f) == history' \in {history, <<f>> \o history}

-----------------------------------------------------------------------------
(* Requests to apply something *)

\* PUT settings, custom directives, or both of them: a version of the history,
\* which is not looked for again later, or a file that was classified against
\* what is configured now: one from elsewhere, or RootGuard's own.
Arrives(r, kind, settings, custom, source) ==
  request' = [request EXCEPT ![r] =
    [at |-> "waiting", kind |-> kind, old |-> FirstFiles, source |-> source,
     want |-> [conf |-> settings, settings |-> settings, custom |-> custom]]]

Arrive(r) ==
  /\ At(r, "idle")
  /\ Called
  /\ \/ \E s \in Guided : Arrives(r, "settings", s, <<>>, NoFile)
     \/ \E c \in Expert : Arrives(r, "custom", DefaultSettings, c, NoFile)
     \/ \E f \in Range(history) : Arrives(r, "restore", f.settings, f.custom, NoFile)
     \/ \E f \in ImportFiles \cup {Render(files.settings)} : Arrives(r, "import", files.settings, <<>>, f)
  /\ UNCHANGED <<files, history, running, verbosity, logVars, torn>>

\* What is to be installed: the other half is read under the lock, and what was
\* classified is what it was then.
Wanted(r) ==
  LET want == request[r].want IN
  CASE request[r].kind = "settings" -> [want EXCEPT !.custom = files.custom]
    [] request[r].kind = "custom"   -> [want EXCEPT !.conf = files.settings, !.settings = files.settings]
    [] request[r].kind = "restore"  -> want
    [] request[r].kind = "import"   ->
         LET result == ImportUnboundConf(want.settings, request[r].source)
         IN [conf |-> result.settings, settings |-> result.settings, custom |-> result.custom]

\* applyStateLocked up to the first write: validated alone and together, and
\* what is there now recorded, without which nothing is changed.
Begin(r) ==
  /\ At(r, "waiting") /\ ~Locked
  /\ LET want == Wanted(r)
         accepted == running.up /\ Acceptable(want.settings, want.custom)
     IN \/ /\ accepted /\ NoFault /\ SnapshotCurrent
           /\ request' = [request EXCEPT ![r] = [@ EXCEPT !.at = "conf", !.want = want, !.old = files, !.source = NoFile]]
        \/ ~accepted /\ NoFault /\ End(r) /\ UNCHANGED history
        \/ Fault /\ End(r) /\ RecordFails(files)
  /\ UNCHANGED <<files, running, verbosity, logVars, torn>>

\* A file is renamed into place and its directory synced: the write that fails
\* at the second has replaced the file. Nothing is put back for the first file.
WriteConf(r) ==
  /\ At(r, "conf")
  /\ \/ NoFault /\ Goto(r, "settings") /\ files' = [files EXCEPT !.conf = request[r].want.conf] /\ UNCHANGED torn
     \/ /\ Fault /\ End(r)
        /\ \/ UNCHANGED <<files, torn>>
           \/ files' = [files EXCEPT !.conf = request[r].want.conf] /\ torn' = TRUE
  /\ UNCHANGED <<history, running, verbosity, logVars>>

WriteSettings_LeavesConf(r) ==
  /\ At(r, "settings")
  /\ \/ NoFault /\ Goto(r, "custom") /\ files' = [files EXCEPT !.settings = request[r].want.settings]
     \/ Fault /\ End(r) /\ UNCHANGED files
  /\ UNCHANGED <<history, running, verbosity, logVars, torn>>

\* The files written before are put back, not the one that failed.
WriteSettings(r) ==
  /\ At(r, "settings")
  /\ \/ /\ NoFault /\ Goto(r, "custom") /\ UNCHANGED torn
        /\ files' = [files EXCEPT !.settings = request[r].want.settings]
     \/ /\ Fault /\ End(r)
        /\ \/ files' = request[r].old /\ torn' = (torn \/ Strayed(r))
           \/ files' = [request[r].old EXCEPT !.settings = request[r].want.settings] /\ torn' = TRUE
           \/ UNCHANGED files /\ torn' = TRUE
  /\ UNCHANGED <<history, running, verbosity, logVars>>

WriteCustom(r) ==
  /\ At(r, "custom")
  /\ \/ /\ NoFault /\ Goto(r, "check") /\ UNCHANGED torn
        /\ files' = [files EXCEPT !.custom = request[r].want.custom]
     \/ /\ Fault /\ End(r)
        /\ \/ files' = request[r].old /\ torn' = (torn \/ Strayed(r))
           \/ files' = [request[r].old EXCEPT !.custom = request[r].want.custom] /\ torn' = TRUE
           \/ UNCHANGED files /\ torn' = TRUE
  /\ UNCHANGED <<history, running, verbosity, logVars>>

Restored_WithoutCustom(r) == [request[r].old EXCEPT !.custom = files.custom]
Restored(r) == request[r].old
\* restoreState: all three files are tried, and any of them may fail.
RestoreState(r) ==
  \/ NoFault /\ files' = Restored(r) /\ UNCHANGED torn
  \/ /\ Fault /\ torn' = TRUE
     /\ \E kept \in SUBSET {"conf", "settings", "custom"} :
          files' = [f \in DOMAIN files |-> IF f \in kept THEN files[f] ELSE request[r].old[f]]

\* checkconf on the files in place; when it refuses them they are put back, and
\* as after a failed write the container is not restarted.
CheckEffective(r) ==
  /\ At(r, "check")
  /\ \/ NoFault /\ running.up /\ Goto(r, "restart") /\ UNCHANGED <<files, torn>>
     \/ /\ Fault \/ (~running.up /\ NoFault)
        /\ End(r) /\ files' = Restored(r)
        /\ torn' = (torn \/ Strayed(r))
  /\ UNCHANGED <<history, running, verbosity, logVars>>

\* docker restart, which may have happened, or half happened, when it fails.
Restart(r) ==
  /\ At(r, "restart")
  /\ \/ NoFault /\ Goto(r, "ready") /\ Starts(files)
     \/ Fault /\ Goto(r, "undo") /\ (Runs \/ Starts(files) \/ Stops)
  /\ UNCHANGED <<files, history, timers, logging, torn>>

\* Taking the timer away while the process logs at the diagnostic level leaves
\* it there.
ClearTimer ==
  /\ timers' = timers \ {"own"}
  /\ unattended' = (unattended \/ (verbosity = Diagnostic /\ "stray" \notin timers))

\* Up in time: the timer of diagnostic logging is moot, the snapshot of what
\* runs now is not worth failing for. Otherwise everything is rolled back.
WaitReady(r) ==
  /\ At(r, "ready")
  /\ \/ /\ running.up /\ End(r) /\ ClearTimer /\ torn' = FALSE
        /\ \/ NoFault /\ history' = Recorded(request[r].want)
           \/ Fault /\ RecordFails(request[r].want)
     \/ /\ Fault \/ (~running.up /\ NoFault)
        /\ Goto(r, "undo") /\ UNCHANGED <<history, timers, unattended, torn>>
  /\ UNCHANGED <<files, running, verbosity, logging>>

\* rollbackFailedApply, on a context of its own.
Undo(r) ==
  /\ At(r, "undo") /\ Goto(r, "restartBack") /\ RestoreState(r)
  /\ UNCHANGED <<history, running, verbosity, logVars>>

RestartBack(r) ==
  /\ At(r, "restartBack") /\ End(r)
  /\ \/ NoFault /\ Starts(files) /\ UNCHANGED torn
     \/ Fault /\ (Runs \/ Starts(files) \/ Stops) /\ torn' = TRUE
  /\ UNCHANGED <<files, history, timers, logging>>

Apply(r) ==
  \/ Begin(r) \/ WriteConf(r) \/ WriteSettings(r) \/ WriteCustom(r) \/ CheckEffective(r)
  \/ Restart(r) \/ WaitReady(r) \/ Undo(r) \/ RestartBack(r)

-----------------------------------------------------------------------------
(* Diagnostic logging *)

Is(d, stage) == logging[d].at = stage
Rest(d) == logging' = [logging EXCEPT ![d] = NotLogging]
Move(d, stage) == logging' = [logging EXCEPT ![d].at = stage]
\* unbound-control verbosity. A call that fails may have had its effect, and a
\* level raised by one that is reported as failed gets no timer.
SetVerbosity(level) ==
  /\ running.up /\ NoFault
  /\ verbosity' = level /\ unattended' = (unattended /\ level = Diagnostic)
SettingFails(level) ==
  /\ (~running.up /\ NoFault) \/ Fault
  /\ \/ UNCHANGED <<verbosity, unattended>>
     \/ /\ running.up /\ verbosity' = level
        /\ unattended' = (level = Diagnostic /\ (unattended \/ timers = {}))

StartLogging(d) ==
  /\ d # Expiry /\ Is(d, "idle")
  /\ Called
  /\ Move(d, "raising")
  /\ UNCHANGED <<files, history, request, running, verbosity, timers, unattended, torn>>

Raise(d) ==
  /\ Is(d, "raising")
  /\ \/ SetVerbosity(Diagnostic) /\ Move(d, "raised")
     \/ SettingFails(Diagnostic) /\ Rest(d)
  /\ UNCHANGED <<files, history, request, running, timers, torn>>

\* The mutex is taken only now; an earlier timer is replaced.
SetTimer(d) ==
  /\ Is(d, "raised") /\ Rest(d)
  /\ timers' = timers \cup {"own"} /\ unattended' = FALSE
  /\ UNCHANGED <<files, history, request, running, verbosity, torn, spent>>

\* The level is read from the settings before the call, and may be old by then.
StopLogging(d) ==
  /\ Is(d, "idle")
  /\ \/ d # Expiry /\ Called /\ UNCHANGED timers
     \/ d = Expiry /\ NoFault /\ \E t \in timers : timers' = timers \ {t}
  /\ logging' = [logging EXCEPT ![d] = [at |-> "lowering", level |-> files.settings.level]]
  /\ UNCHANGED <<files, history, request, running, verbosity, unattended, torn>>

Retry_Never(d) == UNCHANGED timers
\* expireDiagnosticLogging tries again in a minute. The timer it replaces is not
\* stopped and goes off as well.
Retry(d) ==
  timers' = IF d # Expiry THEN timers
            ELSE {"own"} \cup (IF "own" \in timers THEN {"stray"} ELSE timers)

Lower(d) ==
  /\ Is(d, "lowering")
  /\ \/ SetVerbosity(logging[d].level) /\ Move(d, "lowered") /\ UNCHANGED timers
     \/ SettingFails(logging[d].level) /\ Rest(d) /\ Retry(d)
  /\ UNCHANGED <<files, history, request, running, torn>>

\* The mutex is taken only now: the timer of a start in between goes as well.
Ended(d) ==
  /\ Is(d, "lowered") /\ Rest(d) /\ ClearTimer
  /\ UNCHANGED <<files, history, request, running, verbosity, torn, spent>>

Log(d) == Raise(d) \/ SetTimer(d) \/ Lower(d) \/ Ended(d)
Expire == StopLogging(Expiry)

-----------------------------------------------------------------------------
(* Around them *)

\* The container is restarted or stopped by its update, the stack's controls or
\* Docker.
RestartByOthers ==
  /\ Fault /\ (Starts(files) \/ Stops)
  /\ UNCHANGED <<files, history, request, timers, logging, torn>>

\* Core's process ends and starts again; nothing is repaired, no timer kept.
Crash ==
  /\ Fault
  /\ request' = [r \in Requests |-> NoRequest]
  /\ torn' = (torn \/ \E r \in Requests : request[r].at \notin {"idle", "waiting", "conf"})
  /\ timers' = {} /\ logging' = [d \in Loggers |-> NotLogging]
  /\ unattended' = (verbosity = Diagnostic)
  /\ UNCHANGED <<files, history, running, verbosity>>

Next ==
  \/ \E r \in Requests : Arrive(r) \/ Apply(r)
  \/ \E d \in Operators : StartLogging(d) \/ StopLogging(d)
  \/ \E d \in Loggers : Log(d)
  \/ Expire \/ RestartByOthers \/ Crash

\* Calls of docker have timeouts and a timer goes off in the end.
Spec == Init /\ [][Next]_vars /\ WF_vars(Expire) /\ \A d \in Loggers : WF_vars(Log(d))

-----------------------------------------------------------------------------
(* Properties *)

\* Between applies the three files belong together and the container runs what
\* they say, however an apply before ended and whoever restarted the container
\* meanwhile. What the code does not undo is in torn: a write that has replaced
\* its file before it fails, a rollback that fails, a crash, and a refused check
\* after a restart by others.
AppliedTogether ==
  ~Locked /\ ~torn /\ running.up
    => files.conf = files.settings /\ running = Container(files)

\* An apply changes what it was asked for, or nothing: of two requests for the
\* two halves of the configuration neither takes back what the other has done.
ApplyAllOrNothing ==
  [][\A r \in Requests :
       ~torn' /\ request[r].at \notin {"idle", "waiting"} /\ At(r, "idle")' =>
         \/ files' = request[r].old
         \/ /\ files' = request[r].want
            /\ request[r].kind = "settings" => files'.custom = request[r].old.custom
            /\ request[r].kind = "custom" => files'.settings = request[r].old.settings]_vars

\* What a successful apply has replaced can be restored from the history, which
\* holds a limited number of versions.
PreviousRestorable ==
  [][\A r \in Requests :
       At(r, "ready") /\ At(r, "idle")' /\ ~torn' =>
         \E i \in DOMAIN history' : history'[i] = request[r].old]_vars

\* Where a file says twice what there is one of, a verbosity or a guided zone,
\* the last counts.
Overruled(lines, i) ==
  \/ lines[i].key = "verbosity" /\ \E j \in i + 1 .. Len(lines) : lines[j].key = "verbosity"
  \/ \E g, h \in CleanGroups(lines) :
       g < h /\ lines[g].name = lines[h].name /\ i \in {g} \cup GroupData(lines, g)
OverruledClause(clauses, i) ==
  \E j \in i + 1 .. Len(clauses) : clauses[j].section = "forward-zone" /\ clauses[j].clean /\ clauses[j].name = clauses[i].name

Imports(r) == At(r, "waiting") /\ request[r].kind = "import" /\ ~At(r, "waiting")'
\* The lines that are in the settings or the expert file that come out, or are
\* reported as not adopted.
Accounted(r) ==
  LET lines == request[r].source.server
      want  == Wanted(r)
      kept  == ToSet(Render(want.settings).server) \cup ToSet(want.custom)
  IN {i \in DOMAIN lines : lines[i] \in kept \/ NotAdopted(lines[i]) \/ Overruled(lines, i)}
\* The lines of a private network that has no policy in the settings, where the
\* file states one: the code reports them as applied, and they are nowhere.
Unplaced(r) ==
  LET lines    == request[r].source.server
      policies == ReverseZonePolicies(lines)
      without  == DOMAIN policies \ DOMAIN request[r].want.settings.reverse
  IN {i \in DOMAIN lines : \E n \in without : lines[i] \in ReverseLines(n, policies[n])}

\* Nothing in a file is lost when it is imported, whatever is configured: each
\* of its lines is Accounted for or, the only exception, Unplaced; each of its
\* clauses is a guided zone, in the expert file or one that is not allowed; and
\* zones that it does not name stay.
ImportLosesNothing ==
  [][\A r \in Requests : Imports(r) =>
       LET file    == request[r].source
           want    == Wanted(r)
           before  == request[r].want.settings.forward
       IN /\ DOMAIN file.server \subseteq Accounted(r) \cup Unplaced(r)
          /\ \A i \in DOMAIN file.clauses :
               LET c == file.clauses[i]
               IN \/ Named(c.section, c.name) \in ToSet(want.custom) \/ c.section \notin Clauses
                  \/ /\ c.section = "forward-zone" /\ c.clean
                     /\ c \in ToSet(Render(want.settings).clauses) \/ OverruledClause(file.clauses, i)
          /\ \A z \in DOMAIN before : (\A c \in ToSet(file.clauses) : c.name # z) => want.settings.forward[z] = before[z]]_vars

\* The managed configuration of one RootGuard, imported on top of the settings
\* of any: its scalars, its zones and the policies of networks that have one
\* here become the settings', other zones and policies stay, and nothing ends up
\* in the expert file. Two names would be taken for something else: a private
\* domain that is a forwarding zone too comes back as that zone's exception,
\* and a local zone named like a private network's is not a guided one.
ExportReadBack ==
  [][\A r \in Requests : \A exported \in Guided \cup {DefaultSettings, request[r].want.settings} :
       LET before == request[r].want.settings
           after  == Wanted(r).settings
           Merged(zones, old, new) ==
             /\ DOMAIN zones = DOMAIN old \cup DOMAIN new
             /\ \A z \in DOMAIN zones : zones[z] = IF z \in DOMAIN new THEN new[z] ELSE old[z]
       IN
       /\ Imports(r) /\ request[r].source = Render(exported)
       /\ exported.private \cap DOMAIN exported.forward = {} /\ DOMAIN exported.local \cap Reserved = {}
       => /\ <<after.level, after.profile, after.network>> = <<exported.level, exported.profile, exported.network>>
          /\ Merged(after.forward, before.forward, exported.forward) /\ Merged(after.local, before.local, exported.local)
          /\ after.private \subseteq before.private \cup exported.private /\ before.private \subseteq after.private
          /\ \A d \in exported.private : d \in after.private \/ after.forward[d].private
          /\ DOMAIN after.reverse = DOMAIN before.reverse
          /\ \A n \in DOMAIN after.reverse :
               after.reverse[n] = IF n \in DOMAIN exported.reverse THEN exported.reverse[n] ELSE before.reverse[n]
          /\ Wanted(r).custom = <<>>]_vars

\* Diagnostic logging ends, also when the call that ends it fails at first. It
\* stays on (unattended) after a restart of Core, after a start reported as
\* failed, and when the start and an end of another cross.
DiagnosticLoggingEnds == verbosity = Diagnostic ~> (verbosity # Diagnostic \/ unattended)

=============================================================================
