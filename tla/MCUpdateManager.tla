-------------------------- MODULE MCUpdateManager --------------------------
(***************************************************************************)
(* Constants for model checking UpdateManager.                             *)
(***************************************************************************)
EXTENDS UpdateManager, TLC

CONSTANTS unbound, adguard, imgA, imgB, imgC, imgD, c1, c2

\* Each service is pinned to the image the installation came with.
PinnedToFirst == [s \in Services |-> FirstImage]

\* The callers are interchangeable.
CallerSymmetry == Permutations(Callers)

=============================================================================
