--------------------------- MODULE MCSessionAuth ---------------------------
(***************************************************************************)
(* Constants for model checking SessionAuth.                               *)
(***************************************************************************)
EXTENDS SessionAuth, TLC

CONSTANTS r1, r2, t1, t2, root, admin

\* Requests and tokens are interchangeable.
AuthSymmetry == Permutations(Requests) \cup Permutations(Tokens)

\* States that differ only in histories which no guard and no property of the
\* run reads (which password opened a session, which one was replaced, who was
\* told of a logout) count as one.
SafetyView == <<memory, files, pc, req, expired, drawn, DOMAIN origin, made, granted, ended, reset, stale, used>>

=============================================================================
