---------------------------- MODULE SessionAuth ----------------------------
(***************************************************************************)
(* The login sessions of the WebApp and the account they belong to: two    *)
(* values in memory under one mutex, each with a file of its own, changed  *)
(* by concurrent requests.                                                 *)
(*                                                                         *)
(* A request that verifies a password reads the account under the mutex,   *)
(* hashes outside it and commits under it again; that gap is the interval  *)
(* between a Start action and its commit. The commits of an account change *)
(* and of a recovery write two files in turn while holding the mutex: each *)
(* write is a step, because the process may die between them.              *)
(*                                                                         *)
(* A password is a number, fresh whenever one is set: its salt and hash.   *)
(* Requests that present a wrong password, an unknown cookie or a wrong    *)
(* recovery token change nothing here; what they count is AttemptLimiter's.*)
(***************************************************************************)
EXTENDS Naturals, FiniteSets

CONSTANTS
  Requests,       \* concurrent requests that verify a password or reset it
  Tokens,         \* session tokens; one is drawn at most once
  Users,          \* user names the account may have
  FirstUser,      \* the one configured in the environment
  None,           \* no token, no user name, no request
  MaxPasswords,   \* bound: passwords ever set
  MaxFaults,      \* bound: failing writes
  MaxRestarts     \* bound: restarts

ASSUME AuthAssumption ==
  /\ FirstUser \in Users
  /\ None \notin Tokens \cup Users \cup Requests
  /\ MaxPasswords \in Nat /\ MaxFaults \in Nat /\ MaxRestarts \in Nat

VARIABLES
  sessions,       \* memory: the user name stored with each live token
  account,        \* memory: user name and password in force
  sessionsFile,   \* sessions.json
  accountFile,    \* credentials.json; absent is the configured account
  lock,           \* the request that holds the mutex between two writes
  pc, req,        \* each request's progress and local variables
  expired,        \* tokens whose time is over
  drawn,          \* tokens put into the map
  origin,         \* the password that opened each session a client was given
  made,           \* passwords set so far
  granted,        \* sessions given to a client that no request has ended since
  ended,          \* tokens whose end was confirmed by the request that removed them
  told,           \* tokens the file had when a later logout confirmed them as gone
  retired,        \* passwords a confirmed recovery replaced
  reset,          \* the last password written by a recovery, and the tokens the last wipe found
  stale,          \* files whose last failed write left them unlike memory
  used            \* faults and restarts spent

memory == <<sessions, account, lock>>
files  == <<sessionsFile, accountFile>>
ghosts == <<drawn, origin, made, granted, ended, told, retired, reset, stale>>
vars   == <<memory, files, pc, req, expired, ghosts, used>>

Account == [user : Users, pass : 0 .. MaxPasswords]
Store   == UNION {[live -> Users] : live \in SUBSET Tokens}
Request == [token : Tokens \cup {None}, user : Users \cup {None}, renew : BOOLEAN,
            seen : 0 .. MaxPasswords, old : Account]
NoRequest == [token |-> None, user |-> None, renew |-> FALSE, seen |-> 0,
              old |-> [user |-> FirstUser, pass |-> 0]]
Stage == {"idle", "login", "account", "accountSessions", "accountUndo", "recovery", "recoveryPassword"}

\* What writeAtomicFile can leave behind: the new file, the old one with an
\* error, or the new one with an error, when the directory cannot be synced.
WriteOutcome == {"ok", "failed", "unsynced"}
Written(outcome, old, new) == IF outcome = "failed" THEN old ELSE new
Spend(outcome) ==
  /\ outcome = "ok" \/ used.faults < MaxFaults
  /\ used' = [used EXCEPT !.faults = @ + (IF outcome = "ok" THEN 0 ELSE 1)]

Without(store, gone) == [t \in DOMAIN store \ gone |-> store[t]]
With(store, t, value) == [x \in DOMAIN store \cup {t} |-> IF x = t THEN value ELSE store[x]]
Live(store) == Without(store, expired)

At(r, stage) == pc[r] = stage
Goto(r, stage) == pc' = [pc EXCEPT ![r] = stage]
\* The request is answered and forgets its local variables.
Answer(r) == Goto(r, "idle") /\ req' = [req EXCEPT ![r] = NoRequest]
Unlocked == lock = None
\* authenticatedUser: the cookie names a session whose time is not over.
Authenticated(t) == t \in DOMAIN sessions \ expired

\* A request confirmed the end of these sessions.
Ended(tokens) == granted' = granted \ tokens /\ ended' = ended \cup tokens

\* persistLocked: new is written, kept is what memory then holds. Memory and
\* file part when memory keeps what was not renamed, or takes back what was.
PersistSessions(new, kept, outcome) ==
  /\ Spend(outcome)
  /\ sessions' = kept
  /\ sessionsFile' = Written(outcome, sessionsFile, new)
  /\ stale' = CASE outcome = "ok" -> stale \ {"sessions"}
                [] outcome = "failed" /\ kept # new -> stale
                [] OTHER -> stale \cup {"sessions"}

\* persistCredentialsLocked. Its callers take the change back on every error,
\* so that only a rename that could not be synced makes the two differ.
PersistAccount(new, kept, outcome) ==
  /\ Spend(outcome)
  /\ account' = kept
  /\ accountFile' = Written(outcome, accountFile, new)
  /\ stale' = CASE outcome = "ok" -> stale \ {"account"}
                [] outcome = "failed" -> stale
                [] outcome = "unsynced" -> stale \cup {"account"}

-----------------------------------------------------------------------------
(* NewSessionAuth *)

Init ==
  /\ sessions = [t \in {} |-> FirstUser]
  /\ account = [user |-> FirstUser, pass |-> 0]
  /\ sessionsFile = sessions /\ accountFile = account
  /\ lock = None
  /\ pc = [r \in Requests |-> "idle"]
  /\ req = [r \in Requests |-> NoRequest]
  /\ expired = {} /\ drawn = {} /\ origin = [t \in {} |-> 0]
  /\ made = 0 /\ granted = {} /\ ended = {} /\ told = {} /\ retired = {}
  /\ reset = [pass |-> 0, found |-> {}]
  /\ stale = {}
  /\ used = [faults |-> 0, restarts |-> 0]

\* The process ends at any point and starts again: both files are read, and
\* sessions whose time is over are dropped.
Restart ==
  /\ used.restarts < MaxRestarts
  /\ used' = [used EXCEPT !.restarts = @ + 1]
  /\ sessions' = Live(sessionsFile)
  /\ account' = accountFile
  /\ lock' = None
  /\ pc' = [r \in Requests |-> "idle"]
  /\ req' = [r \in Requests |-> NoRequest]
  /\ stale' = {}
  /\ granted' = IF "sessions" \in stale THEN granted \cap DOMAIN sessionsFile ELSE granted
  /\ UNCHANGED <<files, expired, drawn, origin, made, ended, told, retired, reset>>

-----------------------------------------------------------------------------
(* handleLogin *)

\* The account is copied under the mutex and the password hashed outside it.
StartLogin(r) ==
  /\ At(r, "idle") /\ Unlocked
  /\ drawn # Tokens
  /\ Goto(r, "login")
  /\ req' = [req EXCEPT ![r] = [NoRequest EXCEPT !.user = account.user, !.seen = account.pass]]
  /\ UNCHANGED <<memory, files, expired, ghosts, used>>

\* The right password for the copy opens a session, whatever the account has
\* become meanwhile; one that cannot be written is taken out again.
Login(r) ==
  /\ At(r, "login") /\ Unlocked
  /\ \E t \in Tokens \ drawn, outcome \in WriteOutcome :
       LET opened == With(Live(sessions), t, req[r].user) IN
       /\ PersistSessions(opened, IF outcome = "ok" THEN opened ELSE Live(sessions), outcome)
       /\ drawn' = drawn \cup {t}
       /\ IF outcome = "ok"
            THEN origin' = With(origin, t, req[r].seen) /\ granted' = granted \cup {t}
            ELSE UNCHANGED <<origin, granted>>
  /\ Answer(r)
  /\ UNCHANGED <<account, lock, accountFile, expired, made, ended, told, retired, reset>>

-----------------------------------------------------------------------------
(* handleAccount *)

\* A live session and the current password are checked, the latter on a copy.
StartAccount(r) ==
  /\ At(r, "idle") /\ Unlocked
  /\ \E t \in Tokens, user \in Users \cup {None}, renew \in BOOLEAN :
       /\ Authenticated(t)
       /\ user # None \/ renew
       /\ renew => made < MaxPasswords
       /\ req' = [req EXCEPT ![r] = [NoRequest EXCEPT !.token = t, !.user = user,
                                                      !.renew = renew, !.seen = account.pass]]
  /\ Goto(r, "account")
  /\ UNCHANGED <<memory, files, expired, ghosts, used>>

\* The account the request leaves: without a new password the one it copied.
Changed(r, pass) ==
  [user |-> IF req[r].user = None THEN account.user ELSE req[r].user,
   pass |-> IF req[r].renew THEN pass ELSE req[r].seen]

\* The account is written first; an error leaves memory as it was.
SaveAccount(r) ==
  /\ At(r, "account") /\ Unlocked
  /\ req[r].renew => made < MaxPasswords
  /\ made' = IF req[r].renew THEN made + 1 ELSE made
  /\ \E outcome \in WriteOutcome :
       /\ PersistAccount(Changed(r, made + 1),
                         IF outcome = "ok" THEN Changed(r, made + 1) ELSE account, outcome)
       /\ IF outcome = "ok"
            THEN /\ lock' = r /\ Goto(r, "accountSessions")
                 /\ req' = [req EXCEPT ![r].old = account]
            ELSE /\ Answer(r) /\ UNCHANGED lock
  /\ UNCHANGED <<sessions, sessionsFile, expired, drawn, origin, granted, ended, told, retired, reset>>

\* Only the caller's session remains, with the new name, if it still exists.
Remaining(r) == [t \in DOMAIN sessions \cap {req[r].token} |-> account.user]

SaveRemaining_NotPutBack(r) ==
  /\ At(r, "accountSessions")
  /\ \E outcome \in WriteOutcome :
       /\ PersistSessions(Remaining(r), Remaining(r), outcome)
       /\ IF outcome = "ok"
            THEN /\ Ended(DOMAIN sessions \ {req[r].token})
                 /\ lock' = None /\ Answer(r)
            ELSE Goto(r, "accountUndo") /\ UNCHANGED <<granted, ended, lock, req>>
  /\ UNCHANGED <<account, accountFile, expired, drawn, origin, made, told, retired, reset>>

\* Then the sessions; an error puts them back and leads to the undo.
SaveRemaining(r) ==
  /\ At(r, "accountSessions")
  /\ \E outcome \in WriteOutcome :
       /\ PersistSessions(Remaining(r), IF outcome = "ok" THEN Remaining(r) ELSE sessions, outcome)
       /\ IF outcome = "ok"
            THEN /\ Ended(DOMAIN sessions \ {req[r].token})
                 /\ lock' = None /\ Answer(r)
            ELSE Goto(r, "accountUndo") /\ UNCHANGED <<granted, ended, lock, req>>
  /\ UNCHANGED <<account, accountFile, expired, drawn, origin, made, told, retired, reset>>

UndoAccount_InMemoryOnly(r) ==
  /\ At(r, "accountUndo")
  /\ account' = req[r].old
  /\ lock' = None /\ Answer(r)
  /\ UNCHANGED <<sessions, files, expired, drawn, origin, made, granted, ended, told, retired, reset, stale, used>>

\* The old account is written back; if that fails too the new one stays in
\* force and the answer says "partial_update".
UndoAccount(r) ==
  /\ At(r, "accountUndo")
  /\ \E outcome \in WriteOutcome :
       PersistAccount(req[r].old, IF outcome = "ok" THEN req[r].old ELSE account, outcome)
  /\ lock' = None /\ Answer(r)
  /\ UNCHANGED <<sessions, sessionsFile, expired, drawn, origin, made, granted, ended, told, retired, reset>>

-----------------------------------------------------------------------------
(* handleRecovery *)

\* The token is checked and the new password hashed; nothing is read here that
\* is used later.
StartRecovery(r) ==
  /\ At(r, "idle") /\ made < MaxPasswords
  /\ Goto(r, "recovery")
  /\ UNCHANGED <<memory, files, req, expired, ghosts, used>>

WipeSessions_ErrorIgnored(r) ==
  /\ At(r, "recovery") /\ Unlocked /\ made < MaxPasswords
  /\ \E outcome \in WriteOutcome :
       PersistSessions(Without(sessions, Tokens), Without(sessions, Tokens), outcome)
  /\ lock' = r /\ Goto(r, "recoveryPassword")
  /\ reset' = [reset EXCEPT !.found = drawn]
  /\ UNCHANGED <<account, accountFile, req, expired, drawn, origin, made, granted, ended, told, retired>>

\* The sessions go first: an error puts them back and ends the request. They
\* are gone from here on, but only the second write confirms their end.
WipeSessions(r) ==
  /\ At(r, "recovery") /\ Unlocked /\ made < MaxPasswords
  /\ \E outcome \in WriteOutcome :
       LET none == Without(sessions, Tokens) IN
       /\ PersistSessions(none, IF outcome = "ok" THEN none ELSE sessions, outcome)
       /\ IF outcome = "ok"
            THEN /\ lock' = r /\ Goto(r, "recoveryPassword")
                 /\ reset' = [reset EXCEPT !.found = drawn]
                 /\ UNCHANGED req
            ELSE Answer(r) /\ UNCHANGED <<lock, reset>>
  /\ UNCHANGED <<account, accountFile, expired, drawn, origin, made, granted, ended, told, retired>>

\* Then the password; an error leaves memory with the old one, and nobody
\* signed in all the same.
SaveReset(r) ==
  /\ At(r, "recoveryPassword")
  /\ made' = made + 1
  /\ \E outcome \in WriteOutcome :
       LET new == [account EXCEPT !.pass = made + 1] IN
       /\ PersistAccount(new, IF outcome = "ok" THEN new ELSE account, outcome)
       /\ reset' = [reset EXCEPT !.pass = made + 1]
       /\ IF outcome = "ok"
            THEN retired' = retired \cup {account.pass} /\ Ended(reset.found)
            ELSE UNCHANGED <<retired, granted, ended>>
  /\ lock' = None /\ Answer(r)
  /\ UNCHANGED <<sessions, sessionsFile, expired, drawn, origin, told>>

-----------------------------------------------------------------------------
(* Single steps under the mutex *)

Logout_NotWritten(t) ==
  /\ Unlocked /\ t \in DOMAIN sessions
  /\ sessions' = Without(sessions, {t})
  /\ Ended({t})
  /\ UNCHANGED <<account, lock, files, pc, req, expired, drawn, origin, made, told, retired, reset, stale, used>>

\* handleLogout. A cookie that names a session, expired or not, removes it,
\* from memory also when the write fails. One that names none any more, which
\* a second tab or a request sent again presents, writes nothing and gets the
\* same answer as a success.
Logout(t) ==
  /\ Unlocked
  /\ \/ /\ t \in DOMAIN sessions
        /\ \E outcome \in WriteOutcome :
             /\ PersistSessions(Without(sessions, {t}), Without(sessions, {t}), outcome)
             /\ granted' = granted \ {t}
             /\ ended' = IF outcome = "ok" THEN ended \cup {t} ELSE ended
        /\ UNCHANGED told
     \/ /\ t \in DOMAIN origin \ DOMAIN sessions
        /\ granted' = granted \ {t}
        /\ told' = told \cup ({t} \cap DOMAIN sessionsFile)
        /\ UNCHANGED <<sessions, sessionsFile, ended, stale, used>>
  /\ UNCHANGED <<account, lock, accountFile, pc, req, expired, drawn, origin, made, retired, reset>>

\* handleRevokeSession, asked by whoever holds a live session. The write is
\* tried three times: an outcome here is that of the three together, and a
\* fault one that outlasts them.
RevokeSession(t) ==
  /\ Unlocked /\ t \in DOMAIN sessions
  /\ \E caller \in Tokens : Authenticated(caller)
  /\ \E outcome \in WriteOutcome :
       /\ PersistSessions(Without(sessions, {t}), Without(sessions, {t}), outcome)
       /\ granted' = granted \ {t}
       /\ ended' = IF outcome = "ok" THEN ended \cup {t} ELSE ended
  /\ UNCHANGED <<account, lock, accountFile, pc, req, expired, drawn, origin, made, told, retired, reset>>

\* authenticatedUser meets a session whose time is over and drops it; the
\* error of the write is dropped too.
DropExpired(t) ==
  /\ Unlocked /\ t \in DOMAIN sessions \cap expired
  /\ \E outcome \in WriteOutcome :
       PersistSessions(Without(sessions, {t}), Without(sessions, {t}), outcome)
  /\ UNCHANGED <<account, lock, accountFile, pc, req, expired, drawn, origin, made, granted, ended, told, retired, reset>>

\* handleSessions drops all of them from memory and writes nothing.
ListSessions ==
  /\ Unlocked
  /\ \E caller \in Tokens : Authenticated(caller)
  /\ DOMAIN sessions \cap expired # {}
  /\ sessions' = Live(sessions)
  /\ UNCHANGED <<account, lock, files, pc, req, expired, ghosts, used>>

\* The time of a session that memory or the file still has is over.
Expire(t) ==
  /\ t \in (DOMAIN sessions \cup DOMAIN sessionsFile) \ expired
  /\ expired' = expired \cup {t}
  /\ UNCHANGED <<memory, files, pc, req, ghosts, used>>

-----------------------------------------------------------------------------

Verifying(r) == StartLogin(r) \/ Login(r) \/ StartAccount(r) \/ SaveAccount(r)
Committing(r) ==
  SaveRemaining(r) \/ UndoAccount(r) \/ StartRecovery(r) \/ WipeSessions(r) \/ SaveReset(r)
OnSession(t) == Logout(t) \/ RevokeSession(t) \/ DropExpired(t) \/ Expire(t)

Next ==
  \/ \E r \in Requests : Verifying(r) \/ Committing(r)
  \/ \E t \in Tokens : OnSession(t)
  \/ ListSessions
  \/ Restart

Spec == Init /\ [][Next]_vars

-----------------------------------------------------------------------------
(* Properties *)

TypeOK ==
  /\ sessions \in Store /\ sessionsFile \in Store
  /\ account \in Account /\ accountFile \in Account
  /\ lock \in Requests \cup {None}
  /\ pc \in [Requests -> Stage] /\ req \in [Requests -> Request]
  /\ drawn \in SUBSET Tokens /\ expired \in SUBSET drawn
  /\ DOMAIN origin \subseteq drawn /\ granted \in SUBSET DOMAIN origin
  /\ ended \in SUBSET drawn /\ told \in SUBSET DOMAIN origin
  /\ origin \in [DOMAIN origin -> 0 .. MaxPasswords] /\ made \in 0 .. MaxPasswords
  /\ retired \in SUBSET (0 .. MaxPasswords)
  /\ reset \in [pass : 0 .. MaxPasswords, found : SUBSET Tokens]
  /\ stale \in SUBSET {"sessions", "account"}
  /\ used \in [faults : 0 .. MaxFaults, restarts : 0 .. MaxRestarts]

\* Whatever write fails at which point of a commit, and however commits follow
\* one another: what the next start will read is what the process goes by,
\* except after an error that the comments of handleAccount and persistLocked
\* cannot help, a rename that was not synced or a removal that was not written.
DiskAgrees ==
  /\ "account" \notin stale => accountFile = account
  /\ "sessions" \notin stale => Live(sessionsFile) = Live(sessions)

\* A session whose end was confirmed by the request that removed it, a logout,
\* a revocation, a recovery or an account change, is never live again: no
\* rollback of a later request and no restart brings it back. A logout that
\* found no session removes none: of that one LoggedOutStaysOut speaks.
EndedStaysEnded == ended \cap (DOMAIN sessions \cup DOMAIN sessionsFile) = {}

\* handleLogout's comment: a revocation that may not survive a restart is worth
\* "surfacing as an error rather than silently reporting success on a
\* revocation that isn't durable yet". A cookie whose logout was answered with
\* a success, the first or a later one, opens nothing again.
LoggedOutStaysOut == (ended \cup told) \cap DOMAIN sessions = {}

\* handleRecovery's order: the file never holds the new password together with
\* a session that existed before the sessions were wiped, whatever failed and
\* whenever the process died.
ResetAfterWipe ==
  reset.pass # 0 /\ accountFile.pass = reset.pass => DOMAIN sessionsFile \cap reset.found = {}

\* A session given to a client lives, through restarts and whatever other
\* requests fail half way, until its time is over, its holder logs out, someone
\* revokes it, an account change that succeeds ends it, or a recovery wipes
\* them all. An account change that is taken back, a recovery that cannot wipe
\* and another client's failing login or logout sign nobody out. A logout or a
\* revocation takes effect in memory even when its write fails, and a recovery
\* has signed everybody out also when it fails at the password, as
\* handleRecovery's comment says ("sessions get needlessly cleared"): these are
\* the sessions in reset.found. A restart after a write that failed or was not
\* synced goes by what the file has.
GrantedLives == granted \ (expired \cup reset.found) \subseteq DOMAIN sessions

\* docs/disaster-recovery.md: "A successful reset invalidates every existing
\* session". The password it replaced opens nothing afterwards: it is not in
\* force again and no session it opened is live.
ResetIsFinal ==
  account.pass \notin retired /\ \A t \in DOMAIN origin : Authenticated(t) => origin[t] \notin retired

=============================================================================
