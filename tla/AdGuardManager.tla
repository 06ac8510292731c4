--------------------------- MODULE AdGuardManager ---------------------------
(***************************************************************************)
(* Core's first contact with a fresh AdGuard Home: choose a password, tell *)
(* it, keep it in a file nobody else has, point AdGuard at Unbound and     *)
(* hand the block page a token. The deployment of the stack and every      *)
(* request to the bootstrap endpoint do this, with no lock between them.   *)
(*                                                                         *)
(* Passwords are numbers, 0 where there is none. The switches an operator  *)
(* may set afterwards and the statistics Core reads are left out.          *)
(***************************************************************************)
EXTENDS Naturals, FiniteSets

CONSTANTS
  Callers,        \* who may bootstrap AdGuard at the same time
  Archived,       \* the password in the backup archive
  MaxPasswords,   \* bound: passwords ever generated
  MaxFaults,      \* bound: failing calls
  Blockpage       \* whether the installation has a block page

ASSUME AdGuardAssumption ==
  /\ Archived = 1 /\ MaxPasswords \in Nat /\ MaxPasswords >= Archived
  /\ MaxFaults \in Nat /\ Blockpage \in BOOLEAN

VARIABLES
  stored, staged,  \* credentials.json and .credentials.json.tmp
  adguard,         \* the container: running, its own password, its upstream
  late,            \* passwords whose configure request timed out unanswered
  tokenServed,     \* no nginx in the block page holds another token than the file's
  boot,            \* each caller's progress through Bootstrap
  made, faults,    \* passwords generated, faults spent
  raced,           \* two writers of the credentials met in the same file
  pageBroken       \* the token was replaced under nginx and no reload is owed

Proxy == INSTANCE DockerProxy

agVars == <<stored, staged, adguard, late, tokenServed, boot, made, faults, raced, pageBroken>>

Password == 0 .. MaxPasswords
BootStage == {"idle", "install", "configure", "activate", "ready", "upstream", "filtering",
              "publish", "confirm", "done"}
AdGuardTypeOK ==
  /\ stored \in Password /\ staged \in Password /\ late \subseteq Password
  /\ adguard \in [up : BOOLEAN, password : Password, upstream : BOOLEAN]
  /\ boot \in [Callers -> [at : BootStage, pass : Password]]
  /\ tokenServed \in BOOLEAN /\ raced \in BOOLEAN /\ pageBroken \in BOOLEAN
  /\ made \in Archived .. MaxPasswords /\ faults \in 0 .. MaxFaults

NoBoot  == [at |-> "idle", pass |-> 0]
Removed == [up |-> FALSE, password |-> 0, upstream |-> FALSE]
AdGuardInit ==
  /\ stored = 0 /\ staged = 0 /\ late = {}
  /\ adguard = Removed
  /\ tokenServed = TRUE
  /\ boot = [c \in Callers |-> NoBoot]
  /\ made = Archived /\ faults = 0
  /\ raced = FALSE /\ pageBroken = FALSE

Stage(c, at) == boot[c].at = at
MoveTo(c, at) == boot' = [boot EXCEPT ![c].at = at]
\* Bootstrap returns an error.
GiveUp(c) == boot' = [boot EXCEPT ![c] = NoBoot]
Fault == faults < MaxFaults /\ faults' = faults + 1
NoFault == UNCHANGED faults
\* The wizard answers until somebody has configured AdGuard.
Wizard == adguard.up /\ adguard.password = 0
LogsIn(pass) == adguard.up /\ pass # 0 /\ adguard.password = pass

-----------------------------------------------------------------------------
(* Bootstrap *)

\* Credentials in the file mean that AdGuard is installed already.
StartBootstrap(c) ==
  /\ Stage(c, "idle")
  /\ boot' = [boot EXCEPT ![c] = [at |-> IF stored = 0 THEN "install" ELSE "ready", pass |-> stored]]
  /\ UNCHANGED <<stored, staged, adguard, late, tokenServed, made, faults, raced, pageBroken>>

\* Writing the temporary file meets another attempt's password there: one whose
\* request AdGuard may still carry out, or one not moved into place yet.
Overlaps(c) == staged \in late \/ \E d \in Callers \ {c} : boot[d].at \in {"configure", "activate"}

\* waitUntilInstallerReady gives up when nothing answers like the wizard. A
\* write that fails may have emptied the temporary file.
StageCredentials(c) ==
  /\ Stage(c, "install")
  /\ \/ /\ Wizard /\ made < MaxPasswords
        /\ made' = made + 1
        /\ staged' = made'
        /\ boot' = [boot EXCEPT ![c] = [at |-> "configure", pass |-> made']]
        /\ raced' = (raced \/ Overlaps(c))
        /\ NoFault
     \/ /\ GiveUp(c) /\ UNCHANGED <<staged, made, raced>>
        /\ ((~Wizard \/ made = MaxPasswords) /\ NoFault) \/ Fault
     \/ /\ Wizard /\ Fault /\ GiveUp(c) /\ UNCHANGED made
        /\ staged' = 0 /\ raced' = (raced \/ Overlaps(c))
  /\ UNCHANGED <<stored, adguard, late, tokenServed, pageBroken>>

Configure_AlwaysDiscards(c) ==
  /\ Stage(c, "configure")
  /\ \/ /\ Wizard /\ NoFault
        /\ adguard' = [adguard EXCEPT !.password = boot[c].pass]
        /\ MoveTo(c, "activate")
        /\ UNCHANGED <<staged, late>>
     \/ /\ Wizard /\ Fault /\ GiveUp(c)
        /\ \E applied \in BOOLEAN :
             /\ adguard' = [adguard EXCEPT !.password = IF applied THEN boot[c].pass ELSE @]
             /\ late' = IF applied THEN late ELSE late \cup {boot[c].pass}
        /\ staged' = 0
     \/ /\ ~Wizard /\ NoFault /\ GiveUp(c) /\ UNCHANGED <<staged, adguard, late>>
  /\ UNCHANGED <<stored, tokenServed, made, raced, pageBroken>>

\* The wizard's last page. An answer that refuses it discards the staged
\* password; without an answer nobody knows, and the file stays.
Configure(c) ==
  /\ Stage(c, "configure")
  /\ \/ /\ Wizard /\ NoFault
        /\ adguard' = [adguard EXCEPT !.password = boot[c].pass]
        /\ MoveTo(c, "activate")
        /\ UNCHANGED <<staged, late>>
     \/ /\ Wizard /\ Fault /\ GiveUp(c)
        /\ \/ staged' = 0 /\ UNCHANGED <<adguard, late>>
           \/ /\ \E applied \in BOOLEAN :
                   /\ adguard' = [adguard EXCEPT !.password = IF applied THEN boot[c].pass ELSE @]
                   /\ late' = IF applied THEN late ELSE late \cup {boot[c].pass}
              /\ UNCHANGED staged
     \/ /\ ~Wizard /\ NoFault /\ GiveUp(c) /\ UNCHANGED <<staged, adguard, late>>
  /\ UNCHANGED <<stored, tokenServed, made, raced, pageBroken>>

\* AdGuard carries out a request whose client has given up.
ApplyLate ==
  /\ Wizard
  /\ \E pass \in late :
       /\ adguard' = [adguard EXCEPT !.password = pass]
       /\ late' = late \ {pass}
  /\ UNCHANGED <<stored, staged, tokenServed, boot, made, faults, raced, pageBroken>>

\* The rename moves whatever the temporary file holds by now.
ActivateCredentials(c) ==
  /\ Stage(c, "activate")
  /\ \/ /\ staged # 0 /\ NoFault
        /\ stored' = staged /\ staged' = 0
        /\ MoveTo(c, "ready")
     \/ GiveUp(c) /\ ((staged = 0 /\ NoFault) \/ Fault) /\ UNCHANGED <<stored, staged>>
  /\ UNCHANGED <<adguard, late, tokenServed, made, raced, pageBroken>>

WaitUntilReady(c) ==
  /\ Stage(c, "ready")
  /\ \/ LogsIn(boot[c].pass) /\ NoFault /\ MoveTo(c, "upstream")
     \/ GiveUp(c) /\ ((~LogsIn(boot[c].pass) /\ NoFault) \/ Fault)
  /\ UNCHANGED <<stored, staged, adguard, late, tokenServed, made, raced, pageBroken>>

\* configureUpstream posts the resolver settings, then the filtering settings.
ConfigureUpstream(c) ==
  /\ Stage(c, "upstream")
  /\ \/ /\ LogsIn(boot[c].pass)
        /\ adguard' = [adguard EXCEPT !.upstream = TRUE]
        /\ (MoveTo(c, "filtering") /\ NoFault) \/ (GiveUp(c) /\ Fault)
     \/ GiveUp(c) /\ ((~LogsIn(boot[c].pass) /\ NoFault) \/ Fault) /\ UNCHANGED adguard
  /\ UNCHANGED <<stored, staged, late, tokenServed, made, raced, pageBroken>>

EnableFiltering(c) ==
  /\ Stage(c, "filtering")
  /\ \/ /\ LogsIn(boot[c].pass) /\ NoFault
        /\ MoveTo(c, IF Blockpage THEN "publish" ELSE "confirm")
     \/ GiveUp(c) /\ ((~LogsIn(boot[c].pass) /\ NoFault) \/ Fault)
  /\ UNCHANGED <<stored, staged, adguard, late, tokenServed, made, raced, pageBroken>>

\* A new token replaces the one nginx holds, also in some of the writes that
\* return an error.
PublishToken(c) ==
  /\ Stage(c, "publish")
  /\ \/ tokenServed' = FALSE /\ NoFault /\ MoveTo(c, "confirm") /\ UNCHANGED pageBroken
     \/ GiveUp(c) /\ Fault /\ UNCHANGED <<tokenServed, pageBroken>>
     \/ GiveUp(c) /\ Fault /\ tokenServed' = FALSE /\ pageBroken' = TRUE
  /\ UNCHANGED <<stored, staged, adguard, late, made, raced>>

\* Bootstrap ends with a status that must show the upstream. Its failure is
\* the caller's, who then does not reload the block page.
ConfirmStatus(c) ==
  /\ Stage(c, "confirm")
  /\ LET healthy == LogsIn(boot[c].pass) /\ adguard.upstream
     IN \/ healthy /\ NoFault /\ MoveTo(c, "done") /\ UNCHANGED pageBroken
        \/ /\ GiveUp(c) /\ ((~healthy /\ NoFault) \/ Fault)
           /\ pageBroken' = (pageBroken \/ Blockpage)
  /\ UNCHANGED <<stored, staged, adguard, late, tokenServed, made, raced>>

BootstrapStep(c) ==
  \/ StageCredentials(c) \/ Configure(c) \/ ActivateCredentials(c) \/ WaitUntilReady(c)
  \/ ConfigureUpstream(c) \/ EnableFiltering(c) \/ PublishToken(c) \/ ConfirmStatus(c)

-----------------------------------------------------------------------------
(* ReloadBlockpageConfig, after a bootstrap that succeeded *)

Reload_Forgotten(c) ==
  /\ Stage(c, "done")
  /\ GiveUp(c) /\ NoFault
  /\ UNCHANGED <<stored, staged, adguard, late, tokenServed, made, raced, pageBroken>>

Reloads == adguard.up /\ Proxy!Forwarded(Proxy!ReloadCommands)

\* The container renders its configuration from the file and nginx reloads.
Reload(c) ==
  /\ Stage(c, "done") /\ GiveUp(c)
  /\ \/ ~Blockpage /\ NoFault /\ UNCHANGED <<tokenServed, pageBroken>>
     \/ Blockpage /\ Reloads /\ NoFault /\ tokenServed' = TRUE /\ pageBroken' = FALSE
     \/ /\ Blockpage /\ ((~Reloads /\ NoFault) \/ Fault)
        /\ pageBroken' = TRUE /\ UNCHANGED tokenServed
  /\ UNCHANGED <<stored, staged, adguard, late, made, raced>>

=============================================================================
