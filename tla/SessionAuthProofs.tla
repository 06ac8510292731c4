------------------------- MODULE SessionAuthProofs -------------------------
(***************************************************************************)
(* Theorems about SessionAuth, for any number of requests, tokens, names,  *)
(* passwords, failing writes and restarts: its four safety invariants.     *)
(*                                                                         *)
(* Each depends on the others at a restart, where memory becomes what the  *)
(* files hold, so they are proved as one. Known strengthens them: a token  *)
(* is drawn before it is anywhere, and a token that was wiped by a recovery*)
(* is in neither map again, whatever the passwords are.                    *)
(***************************************************************************)
EXTENDS SessionAuth, TLAPS

\* Tokens are drawn before they are stored, granted, ended or found, and those
\* a recovery has found are gone.
Known ==
  /\ DOMAIN sessions \cup DOMAIN sessionsFile \cup granted \cup ended \subseteq drawn
  /\ reset \in [pass : Nat, found : SUBSET drawn]
  /\ made \in Nat
  /\ drawn \subseteq Tokens
  /\ reset.found \cap (DOMAIN sessions \cup DOMAIN sessionsFile) = {}

Inv == Known /\ DiskAgrees /\ EndedStaysEnded /\ GrantedLives

-----------------------------------------------------------------------------
(* The operators *)

\* Without and With change which tokens a store has.
LEMMA StoreDomains ==
  ASSUME NEW store, NEW gone, NEW t, NEW user
  PROVE  /\ DOMAIN Without(store, gone) = DOMAIN store \ gone
         /\ DOMAIN With(store, t, user) = DOMAIN store \cup {t}
         /\ DOMAIN Live(store) = DOMAIN store \ expired
  BY DEF Without, With, Live

\* Expired sessions are left out once.
LEMMA LiveTwice ==
  ASSUME NEW store
  PROVE  Live(Live(store)) = Live(store)
  BY DEF Live, Without

\* Stores that agree go on agreeing when more sessions have expired.
LEMMA WithoutMore ==
  ASSUME NEW a, NEW b, NEW gone, NEW more, gone \subseteq more,
         Without(a, gone) = Without(b, gone)
  PROVE  Without(a, more) = Without(b, more)
  <1>1. DOMAIN a \ gone = DOMAIN b \ gone
    BY DEF Without
  <1>2. \A t \in DOMAIN a \ gone : a[t] = b[t]
    <2> TAKE t \in DOMAIN a \ gone
    <2>1. Without(a, gone)[t] = a[t] /\ Without(b, gone)[t] = b[t]
      BY <1>1 DEF Without
    <2> QED BY <2>1
  <1>3. DOMAIN a \ more = DOMAIN b \ more
    BY <1>1
  <1> QED BY <1>2, <1>3 DEF Without

\* What persistLocked leaves: the file is the old one or the new one, and
\* agrees with memory when memory keeps what it should.
LEMMA PersistedSessions ==
  ASSUME NEW new, NEW kept, NEW outcome \in WriteOutcome,
         PersistSessions(new, kept, outcome),
         outcome = "ok" => kept = new,
         outcome = "failed" => kept = new \/ Live(kept) = Live(sessions),
         "sessions" \notin stale => Live(sessionsFile) = Live(sessions),
         UNCHANGED expired
  PROVE  /\ sessions' = kept
         /\ sessionsFile' = new \/ (outcome = "failed" /\ sessionsFile' = sessionsFile)
         /\ "sessions" \notin stale' => Live(sessionsFile)' = Live(sessions)'
         /\ "account" \notin stale' <=> "account" \notin stale
  <1>1. CASE outcome = "ok"
    BY <1>1 DEF PersistSessions, Written, Live
  <1>2. CASE outcome = "unsynced"
    BY <1>2 DEF PersistSessions, Written, Live
  <1>3. CASE outcome = "failed"
    BY <1>3 DEF PersistSessions, Written, Live
  <1> QED BY <1>1, <1>2, <1>3 DEF WriteOutcome

\* What persistCredentialsLocked leaves, when an error takes the change back.
LEMMA PersistedAccount ==
  ASSUME NEW new, NEW kept, NEW outcome \in WriteOutcome,
         PersistAccount(new, kept, outcome),
         kept = IF outcome = "ok" THEN new ELSE account,
         "account" \notin stale => accountFile = account
  PROVE  /\ "account" \notin stale' => accountFile' = account'
         /\ "sessions" \notin stale' <=> "sessions" \notin stale
  <1>1. CASE outcome = "ok"
    BY <1>1 DEF PersistAccount, Written
  <1>2. CASE outcome = "unsynced"
    BY <1>2 DEF PersistAccount, Written
  <1>3. CASE outcome = "failed"
    BY <1>3 DEF PersistAccount, Written
  <1> QED BY <1>1, <1>2, <1>3 DEF WriteOutcome

-----------------------------------------------------------------------------
(* The invariant is inductive *)

\* At first there are no sessions.
LEMMA InvInit == Init => Inv
  BY DEF Init, Inv, Known, DiskAgrees, EndedStaysEnded, GrantedLives, Live, Without

\* A request that copies or checks something changes none of it.
LEMMA Reading ==
  ASSUME Inv, UNCHANGED <<memory, files, expired, ghosts>>
  PROVE  Inv'
  BY DEF Inv, Known, DiskAgrees, EndedStaysEnded, GrantedLives, Live, Without, memory, files, ghosts

\* A login adds a token that was never drawn before.
LEMMA LoginStep ==
  ASSUME Inv, NEW r \in Requests, Login(r)
  PROVE  Inv'
  <1> DEFINE opened(t) == With(Live(sessions), t, req[r].user)
  <1>1. PICK t \in Tokens \ drawn, outcome \in WriteOutcome :
          /\ PersistSessions(opened(t), IF outcome = "ok" THEN opened(t) ELSE Live(sessions), outcome)
          /\ drawn' = drawn \cup {t}
          /\ IF outcome = "ok" THEN granted' = granted \cup {t} ELSE granted' = granted
    BY DEF Login
  <1> DEFINE kept == IF outcome = "ok" THEN opened(t) ELSE Live(sessions)
  <1>2. UNCHANGED <<account, accountFile, expired, made, ended, reset>>
    BY DEF Login
  <1>3. /\ sessions' = kept
        /\ sessionsFile' = opened(t) \/ sessionsFile' = sessionsFile
        /\ "sessions" \notin stale' => Live(sessionsFile)' = Live(sessions)'
        /\ "account" \notin stale' <=> "account" \notin stale
    <2>1. Live(Live(sessions)) = Live(sessions)
      BY LiveTwice
    <2> HIDE DEF opened
    <2> QED BY <1>1, <1>2, <2>1, PersistedSessions DEF Inv, DiskAgrees
  <1>4. /\ DOMAIN opened(t) = (DOMAIN sessions \ expired) \cup {t}
        /\ DOMAIN Live(sessions) = DOMAIN sessions \ expired
    <2>1. DOMAIN Live(sessions) = DOMAIN sessions \ expired
      BY StoreDomains
    <2>2. DOMAIN opened(t) = DOMAIN Live(sessions) \cup {t}
      BY StoreDomains
    <2> QED BY <2>1, <2>2
  <1> HIDE DEF opened
  <1>5. Known'
    BY <1>1, <1>2, <1>3, <1>4 DEF Inv, Known
  <1>6. DiskAgrees'
    BY <1>2, <1>3 DEF Inv, DiskAgrees
  <1>7. EndedStaysEnded'
    BY <1>1, <1>2, <1>3, <1>4 DEF Inv, Known, EndedStaysEnded
  <1>8. GrantedLives'
    BY <1>1, <1>2, <1>3, <1>4 DEF Inv, Known, GrantedLives
  <1> QED BY <1>5, <1>6, <1>7, <1>8 DEF Inv

\* A write of the account leaves sessions and tokens alone; a recovery's then
\* confirms the end of those it has wiped.
LEMMA AccountStep ==
  ASSUME Inv, NEW new, NEW outcome \in WriteOutcome,
         PersistAccount(new, IF outcome = "ok" THEN new ELSE account, outcome),
         UNCHANGED <<sessions, sessionsFile, expired, drawn>>,
         granted' \subseteq granted, ended' = ended \/ ended' = ended \cup reset.found,
         made' \in Nat, reset' \in [pass : Nat, found : SUBSET drawn], reset'.found = reset.found
  PROVE  Inv'
  <1>1. /\ "account" \notin stale' => accountFile' = account'
        /\ "sessions" \notin stale' <=> "sessions" \notin stale
    BY PersistedAccount DEF Inv, DiskAgrees
  <1>2. Known'
    BY DEF Inv, Known
  <1>3. DiskAgrees'
    BY <1>1 DEF Inv, DiskAgrees, Live
  <1>4. EndedStaysEnded' /\ GrantedLives'
    BY DEF Inv, Known, EndedStaysEnded, GrantedLives
  <1> QED BY <1>2, <1>3, <1>4 DEF Inv

\* The first write of an account change.
LEMMA SaveAccountStep ==
  ASSUME Inv, NEW r \in Requests, SaveAccount(r)
  PROVE  Inv'
  <1>1. PICK outcome \in WriteOutcome :
          PersistAccount(Changed(r, made + 1),
                         IF outcome = "ok" THEN Changed(r, made + 1) ELSE account, outcome)
    BY DEF SaveAccount
  <1>2. made' \in Nat /\ UNCHANGED <<sessions, sessionsFile, expired, drawn, granted, ended, reset>>
    BY DEF SaveAccount, Inv, Known
  <1> QED BY <1>1, <1>2, AccountStep DEF Inv, Known

\* The write that takes it back.
LEMMA UndoAccountStep ==
  ASSUME Inv, NEW r \in Requests, UndoAccount(r)
  PROVE  Inv'
  <1>1. PICK outcome \in WriteOutcome :
          PersistAccount(req[r].old, IF outcome = "ok" THEN req[r].old ELSE account, outcome)
    BY DEF UndoAccount
  <1>2. UNCHANGED <<sessions, sessionsFile, expired, drawn, made, granted, ended, reset>>
    BY DEF UndoAccount
  <1> QED BY <1>1, <1>2, AccountStep DEF Inv, Known

\* The password of a recovery.
LEMMA SaveResetStep ==
  ASSUME Inv, NEW r \in Requests, SaveReset(r)
  PROVE  Inv'
  <1> DEFINE new == [account EXCEPT !.pass = made + 1]
  <1>1. PICK outcome \in WriteOutcome :
          /\ PersistAccount(new, IF outcome = "ok" THEN new ELSE account, outcome)
          /\ reset' = [reset EXCEPT !.pass = made + 1]
          /\ IF outcome = "ok" THEN Ended(reset.found) ELSE UNCHANGED <<granted, ended>>
    BY DEF SaveReset
  <1>2. /\ made' = made + 1
        /\ UNCHANGED <<sessions, sessionsFile, expired, drawn>>
    BY DEF SaveReset
  <1>3. made' \in Nat /\ reset' \in [pass : Nat, found : SUBSET drawn] /\ reset'.found = reset.found
    BY <1>1, <1>2 DEF Inv, Known
  <1>4. granted' \subseteq granted /\ (ended' = ended \/ ended' = ended \cup reset.found)
    BY <1>1 DEF Ended
  <1> HIDE DEF new
  <1> QED BY <1>1, <1>2, <1>3, <1>4, AccountStep

\* A write that only takes tokens away: memory keeps at least what is granted
\* to clients, and what is ended or wiped has been taken from both.
LEMMA RemovalStep ==
  ASSUME Inv, NEW new, NEW kept, NEW outcome \in WriteOutcome,
         PersistSessions(new, kept, outcome),
         outcome = "ok" => kept = new,
         outcome = "failed" => kept = new \/ Live(kept) = Live(sessions),
         DOMAIN new \subseteq DOMAIN sessions, DOMAIN kept \subseteq DOMAIN sessions,
         UNCHANGED <<account, accountFile, expired, drawn, made>>,
         granted' \subseteq granted,
         granted' \ (expired \cup reset'.found) \subseteq DOMAIN kept,
         ended \subseteq ended',
         ended' = ended \/ (/\ outcome = "ok" /\ ended' \subseteq ended \cup DOMAIN sessions
                            /\ ended' \cap DOMAIN new \subseteq ended),
         reset' = reset \/ (/\ outcome = "ok" /\ DOMAIN new = {}
                            /\ reset' \in [pass : Nat, found : SUBSET drawn])
  PROVE  Inv'
  <1>1. /\ sessions' = kept
        /\ sessionsFile' = new \/ (outcome = "failed" /\ sessionsFile' = sessionsFile)
        /\ "sessions" \notin stale' => Live(sessionsFile)' = Live(sessions)'
        /\ "account" \notin stale' <=> "account" \notin stale
    BY PersistedSessions DEF Inv, DiskAgrees
  <1>2. Known'
    BY <1>1 DEF Inv, Known
  <1>3. DiskAgrees'
    BY <1>1 DEF Inv, DiskAgrees
  <1>4. EndedStaysEnded'
    BY <1>1 DEF Inv, EndedStaysEnded
  <1>5. GrantedLives'
    BY <1>1 DEF Inv, GrantedLives
  <1> QED BY <1>2, <1>3, <1>4, <1>5 DEF Inv

\* The second write of an account change leaves the caller's session.
LEMMA SaveRemainingStep ==
  ASSUME Inv, NEW r \in Requests, SaveRemaining(r)
  PROVE  Inv'
  <1> DEFINE rest == Remaining(r)
  <1>1. PICK outcome \in WriteOutcome :
          /\ PersistSessions(rest, IF outcome = "ok" THEN rest ELSE sessions, outcome)
          /\ IF outcome = "ok" THEN Ended(DOMAIN sessions \ {req[r].token})
             ELSE UNCHANGED <<granted, ended>>
    BY DEF SaveRemaining
  <1>2. DOMAIN rest = DOMAIN sessions \cap {req[r].token}
    BY DEF Remaining
  <1>3. UNCHANGED <<account, accountFile, expired, drawn, made, reset>>
    BY DEF SaveRemaining
  <1> HIDE DEF rest
  <1> DEFINE kept == IF outcome = "ok" THEN rest ELSE sessions
  <1>4. /\ granted' \subseteq granted /\ granted' \ (expired \cup reset.found) \subseteq DOMAIN kept
        /\ ended' = ended \/ (/\ outcome = "ok" /\ ended' \subseteq ended \cup DOMAIN sessions
                              /\ ended' \cap DOMAIN rest \subseteq ended)
        /\ ended \subseteq ended'
    BY <1>1, <1>2 DEF Inv, GrantedLives, Ended
  <1>5. PersistSessions(rest, kept, outcome) /\ DOMAIN kept \subseteq DOMAIN sessions
    BY <1>1, <1>2
  <1>6. outcome = "ok" => kept = rest
    OBVIOUS
  <1>7. outcome = "failed" => kept = rest \/ Live(kept) = Live(sessions)
    OBVIOUS
  <1> HIDE DEF kept
  <1> QED BY <1>2, <1>3, <1>4, <1>5, <1>6, <1>7, RemovalStep

\* A recovery wipes all sessions, or none.
LEMMA WipeSessionsStep ==
  ASSUME Inv, NEW r \in Requests, WipeSessions(r)
  PROVE  Inv'
  <1> DEFINE none == Without(sessions, Tokens)
  <1>1. PICK outcome \in WriteOutcome :
          /\ PersistSessions(none, IF outcome = "ok" THEN none ELSE sessions, outcome)
          /\ IF outcome = "ok" THEN reset' = [reset EXCEPT !.found = drawn] ELSE reset' = reset
    BY DEF WipeSessions
  <1>2. DOMAIN none = {}
    <2>1. DOMAIN none = DOMAIN sessions \ Tokens
      BY StoreDomains
    <2> QED BY <2>1 DEF Inv, Known
  <1>3. UNCHANGED <<account, accountFile, expired, drawn, made, granted, ended>>
    BY DEF WipeSessions
  <1> HIDE DEF none
  <1> DEFINE kept == IF outcome = "ok" THEN none ELSE sessions
  <1>4. /\ granted' \subseteq granted /\ granted' \ (expired \cup reset'.found) \subseteq DOMAIN kept
        /\ ended' = ended
    BY <1>1, <1>2, <1>3 DEF Inv, Known, GrantedLives
  <1>5. reset' = reset \/ (outcome = "ok" /\ reset' \in [pass : Nat, found : SUBSET drawn])
    BY <1>1 DEF Inv, Known
  <1>6. PersistSessions(none, kept, outcome) /\ DOMAIN kept \subseteq DOMAIN sessions
    BY <1>1, <1>2
  <1>7. outcome = "ok" => kept = none
    OBVIOUS
  <1>8. outcome = "failed" => kept = none \/ Live(kept) = Live(sessions)
    OBVIOUS
  <1> HIDE DEF kept
  <1> QED BY <1>2, <1>3, <1>4, <1>5, <1>6, <1>7, <1>8, RemovalStep

\* A logout, a revocation and the end of a session's time remove one token,
\* from memory also when the write fails.
LEMMA OneRemovedStep ==
  ASSUME Inv, NEW t, NEW outcome \in WriteOutcome,
         PersistSessions(Without(sessions, {t}), Without(sessions, {t}), outcome),
         UNCHANGED <<account, accountFile, expired, drawn, made, reset>>,
         \/ granted' = granted \ {t} /\ ended' = IF outcome = "ok" THEN ended \cup {t} ELSE ended
         \/ t \in expired /\ UNCHANGED <<granted, ended>>,
         t \in DOMAIN sessions \/ ended' = ended
  PROVE  Inv'
  <1> DEFINE new == Without(sessions, {t})
  <1>1. DOMAIN new = DOMAIN sessions \ {t}
    BY StoreDomains
  <1>2. granted' \subseteq granted /\ granted' \ (expired \cup reset.found) \subseteq DOMAIN new
    BY <1>1 DEF Inv, GrantedLives
  <1>3. /\ ended \subseteq ended'
        /\ ended' = ended \/ (/\ outcome = "ok" /\ ended' \subseteq ended \cup DOMAIN sessions
                              /\ ended' \cap DOMAIN new \subseteq ended)
    BY <1>1
  <1> HIDE DEF new
  <1> QED BY <1>1, <1>2, <1>3, RemovalStep DEF new

\* handleLogout and handleRevokeSession; a logout that finds no session leaves
\* memory and file as they are.
LEMMA LogoutStep ==
  ASSUME Inv, NEW t \in Tokens, Logout(t) \/ RevokeSession(t)
  PROVE  Inv'
  <1>1. UNCHANGED <<account, accountFile, expired, drawn, made, reset>>
    BY DEF Logout, RevokeSession
  <1>2. CASE /\ t \in DOMAIN sessions
             /\ \E outcome \in WriteOutcome :
                  /\ PersistSessions(Without(sessions, {t}), Without(sessions, {t}), outcome)
                  /\ granted' = granted \ {t}
                  /\ ended' = IF outcome = "ok" THEN ended \cup {t} ELSE ended
    BY <1>1, <1>2, OneRemovedStep
  <1>3. CASE granted' = granted \ {t} /\ UNCHANGED <<sessions, sessionsFile, ended, stale>>
    <2>1. Known' /\ DiskAgrees'
      BY <1>1, <1>3 DEF Inv, Known, DiskAgrees, Live
    <2>2. EndedStaysEnded' /\ GrantedLives'
      BY <1>1, <1>3 DEF Inv, EndedStaysEnded, GrantedLives
    <2> QED BY <2>1, <2>2 DEF Inv
  <1> QED BY <1>2, <1>3 DEF Logout, RevokeSession

\* The time of a session a request presents is over.
LEMMA DropExpiredStep ==
  ASSUME Inv, NEW t \in Tokens, DropExpired(t)
  PROVE  Inv'
  <1>1. PICK outcome \in WriteOutcome :
          PersistSessions(Without(sessions, {t}), Without(sessions, {t}), outcome)
    BY DEF DropExpired
  <1>2. /\ UNCHANGED <<account, accountFile, expired, drawn, made, reset, granted, ended>>
        /\ t \in expired
    BY DEF DropExpired
  <1> QED BY <1>1, <1>2, OneRemovedStep

\* Listing drops expired sessions from memory only: the file still agrees.
LEMMA ListSessionsStep ==
  ASSUME Inv, ListSessions
  PROVE  Inv'
  <1>1. /\ sessions' = Live(sessions)
        /\ UNCHANGED <<account, sessionsFile, accountFile, expired, drawn, made, granted, ended, reset, stale>>
    BY DEF ListSessions, files, ghosts
  <1>2. DOMAIN sessions' = DOMAIN sessions \ expired
    BY <1>1, StoreDomains
  <1>3. Live(sessions)' = Live(sessions) /\ Live(sessionsFile)' = Live(sessionsFile)
    BY <1>1, LiveTwice DEF Live
  <1>4. Known'
    BY <1>1, <1>2 DEF Inv, Known
  <1>5. DiskAgrees'
    BY <1>1, <1>3 DEF Inv, DiskAgrees
  <1>6. EndedStaysEnded' /\ GrantedLives'
    BY <1>1, <1>2 DEF Inv, EndedStaysEnded, GrantedLives
  <1> QED BY <1>4, <1>5, <1>6 DEF Inv

\* A session's time passes for memory and file alike.
LEMMA ExpireStep ==
  ASSUME Inv, NEW t \in Tokens, Expire(t)
  PROVE  Inv'
  <1>1. /\ expired' = expired \cup {t}
        /\ UNCHANGED <<sessions, account, sessionsFile, accountFile, drawn, made, granted, ended, reset, stale>>
    BY DEF Expire, memory, files, ghosts
  <1>2. DiskAgrees'
    <2>1. expired \subseteq expired'
      BY <1>1
    <2>2. "sessions" \notin stale => Without(sessionsFile, expired) = Without(sessions, expired)
      BY DEF Inv, DiskAgrees, Live
    <2>3. "sessions" \notin stale => Without(sessionsFile, expired') = Without(sessions, expired')
      BY <2>1, <2>2, WithoutMore
    <2> QED BY <1>1, <2>3 DEF Inv, DiskAgrees, Live
  <1>3. Known' /\ EndedStaysEnded' /\ GrantedLives'
    BY <1>1 DEF Inv, Known, EndedStaysEnded, GrantedLives
  <1> QED BY <1>2, <1>3 DEF Inv

\* A start reads both files; what was live and agreed with its file still is.
LEMMA RestartStep ==
  ASSUME Inv, Restart
  PROVE  Inv'
  <1>1. /\ sessions' = Live(sessionsFile) /\ account' = accountFile /\ stale' = {}
        /\ granted' = IF "sessions" \in stale THEN granted \cap DOMAIN sessionsFile ELSE granted
        /\ UNCHANGED <<sessionsFile, accountFile, expired, drawn, made, ended, reset>>
    BY DEF Restart, files
  <1>2. DOMAIN sessions' = DOMAIN sessionsFile \ expired
    BY <1>1, StoreDomains
  <1>3. Known'
    BY <1>1, <1>2 DEF Inv, Known
  <1>4. DiskAgrees'
    <2>1. Live(sessions)' = Live(sessionsFile) /\ Live(sessionsFile)' = Live(sessionsFile)
      BY <1>1, LiveTwice DEF Live
    <2> QED BY <1>1, <2>1 DEF DiskAgrees
  <1>5. EndedStaysEnded'
    BY <1>1, <1>2 DEF Inv, EndedStaysEnded
  <1>6. GrantedLives'
    <2>1. CASE "sessions" \in stale
      BY <1>1, <1>2, <2>1 DEF GrantedLives
    <2>2. CASE "sessions" \notin stale
      <3>1. DOMAIN Live(sessionsFile) = DOMAIN Live(sessions)
        BY <2>2 DEF Inv, DiskAgrees
      <3>2. DOMAIN sessionsFile \ expired = DOMAIN sessions \ expired
        BY <3>1, StoreDomains
      <3> QED BY <1>1, <1>2, <2>2, <3>2 DEF Inv, GrantedLives
    <2> QED BY <2>1, <2>2
  <1> QED BY <1>3, <1>4, <1>5, <1>6 DEF Inv

\* Every step keeps the invariant.
LEMMA InvNext == Inv /\ [Next]_vars => Inv'
  <1> SUFFICES ASSUME Inv, [Next]_vars PROVE Inv'
    OBVIOUS
  <1>1. ASSUME NEW r \in Requests, Verifying(r) PROVE Inv'
    <2>1. CASE StartLogin(r)
      BY <2>1, Reading DEF StartLogin
    <2>2. CASE Login(r)
      BY <2>2, LoginStep
    <2>3. CASE StartAccount(r)
      BY <2>3, Reading DEF StartAccount
    <2>4. CASE SaveAccount(r)
      BY <2>4, SaveAccountStep
    <2> QED BY <1>1, <2>1, <2>2, <2>3, <2>4 DEF Verifying
  <1>2. ASSUME NEW r \in Requests, Committing(r) PROVE Inv'
    <2>1. CASE SaveRemaining(r)
      BY <2>1, SaveRemainingStep
    <2>2. CASE UndoAccount(r)
      BY <2>2, UndoAccountStep
    <2>3. CASE StartRecovery(r)
      BY <2>3, Reading DEF StartRecovery
    <2>4. CASE WipeSessions(r)
      BY <2>4, WipeSessionsStep
    <2>5. CASE SaveReset(r)
      BY <2>5, SaveResetStep
    <2> QED BY <1>2, <2>1, <2>2, <2>3, <2>4, <2>5 DEF Committing
  <1>3. ASSUME NEW t \in Tokens, OnSession(t) PROVE Inv'
    <2>1. CASE Logout(t) \/ RevokeSession(t)
      BY <2>1, LogoutStep
    <2>2. CASE DropExpired(t)
      BY <2>2, DropExpiredStep
    <2>3. CASE Expire(t)
      BY <2>3, ExpireStep
    <2> QED BY <1>3, <2>1, <2>2, <2>3 DEF OnSession
  <1>4. CASE ListSessions
    BY <1>4, ListSessionsStep
  <1>5. CASE Restart
    BY <1>5, RestartStep
  <1>6. CASE UNCHANGED vars
    BY <1>6, Reading DEF vars
  <1> QED BY <1>1, <1>2, <1>3, <1>4, <1>5, <1>6 DEF Next

-----------------------------------------------------------------------------
(* The theorems *)

\* Inv holds in every state.
THEOREM Invariance == Spec => []Inv
  BY InvInit, InvNext, PTL DEF Spec

\* Memory and the two files agree after every write that did not fail in a way
\* the code cannot help: persistLocked and persistCredentialsLocked, with what
\* their callers take back.
THEOREM FilesAgree == Spec => []DiskAgrees
  <1>1. Inv => DiskAgrees
    BY DEF Inv
  <1> QED BY <1>1, Invariance, PTL

\* A session whose end was confirmed by the very request that removed it, a
\* handleLogout, handleRevokeSession, handleRecovery or handleAccount, is never
\* live again. A logout that found nothing to remove promises nothing here.
THEOREM EndIsFinal == Spec => []EndedStaysEnded
  <1>1. Inv => EndedStaysEnded
    BY DEF Inv
  <1> QED BY <1>1, Invariance, PTL

\* handleRecovery never leaves its new password on disk next to a session that
\* existed before it wiped them.
THEOREM WipedBeforeReset == Spec => []ResetAfterWipe
  <1>1. Inv => ResetAfterWipe
    BY DEF Inv, Known, ResetAfterWipe
  <1> QED BY <1>1, Invariance, PTL

\* A session given to a client lives until its time is over, it is logged out or
\* revoked, an account change that succeeds ends it or a recovery wipes them
\* all. The wipe counts from the moment it is written, whether or not the
\* recovery then writes its password; an account change taken back and a wipe
\* taken back end nothing.
THEOREM GrantedUntilEnded == Spec => []GrantedLives
  <1>1. Inv => GrantedLives
    BY DEF Inv
  <1> QED BY <1>1, Invariance, PTL

=============================================================================
