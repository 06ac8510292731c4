------------------------ MODULE MCControlPlaneUpdater ------------------------
(***************************************************************************)
(* Constants for model checking ControlPlaneUpdater.                       *)
(***************************************************************************)
EXTENDS ControlPlaneUpdater, TLC

CONSTANTS core, webapp, imgOld, imgNow, imgNew, imgDev

CoreThenWebApp == <<core, webapp>>

\* Releases in their order; a development build has no comparable version.
ReleaseVersion == [image \in Images |-> CASE image = imgOld -> 1
                                          [] image = imgNow -> 2
                                          [] image = imgNew -> 3
                                          [] OTHER -> 0]

=============================================================================
