--------------------------- MODULE AttemptLimiter ---------------------------
(***************************************************************************)
(* One key of WebApp's rate limiter                                        *)
(* (rootguard-webapp/backend/internal/httpapi/ratelimit.go) with the       *)
(* requests that use it.  Login, account change and recovery count wrong   *)
(* credentials, destructive actions count every request, and restore       *)
(* uploads only bound how many run at once: Outcomes says which of it.     *)
(*                                                                         *)
(* A recorded failure is its age, in ticks, oldest first; time.Now is read *)
(* inside the lock and is monotonic.  Ages stop at Window, past which they *)
(* make no difference.  Keys do not influence each other.                  *)
(***************************************************************************)
EXTENDS Naturals, Sequences, FiniteSets

CONSTANTS
  Requests,    \* requests for the key that may be handled at once
  Window, MaxFailure,
  Outcomes,    \* how a request may end: "failed", "released", "succeeded"
  MaxAttempts  \* bound of the model: requests that arrive

ASSUME LimiterAssumption ==
  /\ IsFiniteSet(Requests)
  /\ Window \in Nat \ {0} /\ MaxFailure \in Nat \ {0} /\ MaxAttempts \in Nat
  /\ Outcomes \subseteq {"failed", "released", "succeeded"}

VARIABLES
  failures,  \* rl.failures[key]
  inFlight,  \* rl.inFlight[key]
  pc,        \* where each request is
  arrived,   \* how much of its bound is spent
  recent     \* observation: the failures within the window since the last reset

vars == <<failures, inFlight, pc, arrived, recent>>

Age   == 0 .. Window
Label == {"idle", "admitted", "ended", "reset"}

\* The requests that have begun an attempt and not ended it.
Holding == {r \in Requests : pc[r] \in {"admitted", "reset"}}

\* Well typed, and a slot is taken for exactly the requests that are between
\* beginAttempt and endAttempt: none leaks, whatever way a handler returns.
TypeOK ==
  /\ failures \in Seq(Age) /\ inFlight \in Nat
  /\ inFlight = Cardinality(Holding)
  /\ pc \in [Requests -> Label]
  /\ arrived \in Nat

Init ==
  /\ failures = <<>> /\ inFlight = 0
  /\ pc = [r \in Requests |-> "idle"]
  /\ arrived = 0
  /\ recent = <<>>

-----------------------------------------------------------------------------
Pruned_WindowEnd(ages) ==
  LET expired == {i \in DOMAIN ages : ages[i] >= Window - 1}
  IN  SubSeq(ages, Cardinality(expired) + 1, Len(ages))

Pruned_Never(ages) == ages

\* pruneLocked: after(now - window). Times are appended in their order, so what
\* is kept is a suffix.
Pruned(ages) ==
  LET expired == {i \in DOMAIN ages : ages[i] >= Window}
  IN  SubSeq(ages, Cardinality(expired) + 1, Len(ages))

Move(r, label) == pc' = [pc EXCEPT ![r] = label]

BeginAttempt_FailuresOnly(r) ==
  /\ pc[r] = "idle" /\ arrived < MaxAttempts
  /\ arrived' = arrived + 1
  /\ failures' = Pruned(failures)
  /\ IF Len(failures') >= MaxFailure
       THEN UNCHANGED <<inFlight, pc>>
       ELSE inFlight' = inFlight + 1 /\ Move(r, "admitted")
  /\ UNCHANGED recent

\* beginAttempt: an attempt in flight counts like a failure.
BeginAttempt(r) ==
  /\ pc[r] = "idle" /\ arrived < MaxAttempts
  /\ arrived' = arrived + 1
  /\ failures' = Pruned(failures)
  /\ IF Len(failures') + inFlight >= MaxFailure
       THEN UNCHANGED <<inFlight, pc>>
       ELSE inFlight' = inFlight + 1 /\ Move(r, "admitted")
  /\ UNCHANGED recent

\* endAttempt: the slot is given back; a failure is remembered from now on.
EndAttempt(failed) ==
  /\ inFlight' = IF inFlight > 0 THEN inFlight - 1 ELSE 0
  /\ IF failed THEN failures' = Append(Pruned(failures), 0) /\ recent' = Append(recent, 0)
               ELSE UNCHANGED <<failures, recent>>

Reset == failures' = <<>> /\ recent' = <<>>

\* Wrong credentials, or a destructive action whatever came of it.
EndFailed(r) ==
  /\ pc[r] = "admitted" /\ "failed" \in Outcomes
  /\ EndAttempt(TRUE)
  /\ Move(r, "idle")
  /\ UNCHANGED arrived

\* A request that is rejected before its credentials are looked at, or a
\* restore upload.
EndReleased_Leaks(r) ==
  /\ pc[r] = "admitted" /\ "released" \in Outcomes
  /\ Move(r, "idle")
  /\ UNCHANGED <<failures, inFlight, arrived, recent>>

EndReleased(r) ==
  /\ pc[r] = "admitted" /\ "released" \in Outcomes
  /\ EndAttempt(FALSE)
  /\ Move(r, "idle")
  /\ UNCHANGED arrived

\* Right credentials. handleLogin ends the attempt and then resets the key.
EndBeforeReset(r) ==
  /\ pc[r] = "admitted" /\ "succeeded" \in Outcomes
  /\ EndAttempt(FALSE)
  /\ Move(r, "ended")
  /\ UNCHANGED arrived

ResetAfterEnd(r) ==
  /\ pc[r] = "ended"
  /\ Reset
  /\ Move(r, "idle")
  /\ UNCHANGED <<inFlight, arrived>>

\* handleAccount and handleRecovery reset the key and end the attempt when they
\* return; handleRecovery's failure after the token check is EndReleased.
ResetBeforeEnd(r) ==
  /\ pc[r] = "admitted" /\ "succeeded" \in Outcomes
  /\ Reset
  /\ Move(r, "reset")
  /\ UNCHANGED <<inFlight, arrived>>

EndAfterReset(r) ==
  /\ pc[r] = "reset"
  /\ EndAttempt(FALSE)
  /\ Move(r, "idle")
  /\ UNCHANGED arrived

\* The background goroutine, every five minutes.
Sweep ==
  /\ failures' = Pruned(failures)
  /\ UNCHANGED <<inFlight, pc, arrived, recent>>

Older(ages) == [i \in DOMAIN ages |-> IF ages[i] < Window THEN ages[i] + 1 ELSE Window]

\* The ages within the window, in their order.
Young(ages) ==
  LET young[i \in 0 .. Len(ages)] ==
        IF i = 0 THEN <<>> ELSE IF ages[i] < Window THEN Append(young[i - 1], ages[i]) ELSE young[i - 1]
  IN  young[Len(ages)]

\* Time passes.
Tick ==
  /\ failures' = Older(failures)
  /\ recent' = Young(Older(recent))
  /\ UNCHANGED <<inFlight, pc, arrived>>

End(r) ==
  \/ EndFailed(r) \/ EndReleased(r)
  \/ EndBeforeReset(r) \/ ResetAfterEnd(r) \/ ResetBeforeEnd(r) \/ EndAfterReset(r)

Next == (\E r \in Requests : BeginAttempt(r) \/ End(r)) \/ Sweep \/ Tick

Spec == Init /\ [][Next]_vars

\* A handler that was admitted comes to its end, time passes, and the sweep
\* runs on its ticker.
FairSpec ==
  /\ Spec /\ WF_vars(Tick) /\ WF_vars(Sweep)
  /\ \A r \in Requests : WF_vars(End(r))

-----------------------------------------------------------------------------
(* Properties *)

\* No more guesses than MaxFailure are remembered or being verified, however
\* many requests arrive at once and in whatever order they end.
WithinLimit == Len(failures) + Cardinality(Holding) <= MaxFailure

\* Pruning neither forgets a failure before its window has passed nor counts it
\* any longer: what a request is judged by are the failures of the last Window
\* since the last success, for every handler's order of reset and endAttempt.
WindowExact == Pruned(failures) = recent

\* A key nobody uses any more is forgotten, whatever happened to its requests:
\* neither map grows with the number of clients ever seen.
UnusedKeyForgotten == <>[](failures = <<>> /\ inFlight = 0)

=============================================================================
