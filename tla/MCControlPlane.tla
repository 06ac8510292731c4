--------------------------- MODULE MCControlPlane ---------------------------
(***************************************************************************)
(* Constants for model checking ControlPlane.                              *)
(***************************************************************************)
EXTENDS ControlPlane, TLC

CONSTANTS core, webapp, imgOld, imgNow, imgNew, imgDev, h1, h2

CoreThenWebApp == <<core, webapp>>

\* Releases in their order; a development build has no comparable version.
ReleaseVersion == [image \in Images |-> CASE image = imgOld -> 1
                                          [] image = imgNow -> 2
                                          [] image = imgNew -> 3
                                          [] OTHER -> 0]

HandlerSymmetry == Permutations(Handlers)

=============================================================================
