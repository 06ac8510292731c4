---------------------------- MODULE MCInstaller ----------------------------
(***************************************************************************)
(* Installer on a small instance: the worker and one request to bootstrap  *)
(* AdGuard, a tag that moves between an attested image and another one,    *)
(* two attempts to deploy or restore.                                      *)
(***************************************************************************)
EXTENDS Installer

CONSTANTS deployer, request, attested, other

=============================================================================
