-------------------------- MODULE ServiceMaintenance --------------------------
(***************************************************************************)
(* What Core's update Manager promises about the containers it maintains,  *)
(* without saying how: one operation is in progress at a time, it replaces *)
(* the container of the one service it was started for and of no other,    *)
(* and the replacement runs an image that is vetted (it passed             *)
(* attestation) or that somebody else deployed on that service before.     *)
(* UpdateManager implements this specification.                            *)
(***************************************************************************)
EXTENDS FiniteSets

CONSTANTS
  Callers, Services, Images, NoImage,
  NoService,  \* the target of an operation that may replace no container
  Vetted      \* per service, the images that pass attestation

VARIABLES
  holders,    \* the callers whose operation is in progress
  target,     \* the service each of them may touch
  image,      \* what each service's container runs, NoImage if there is none
  deployed    \* per service, the images somebody else put there

vars == <<holders, target, image, deployed>>

Trusted(s) == Vetted[s] \cup deployed[s] \cup {NoImage}

Init ==
  /\ holders = {}
  /\ target = [p \in Callers |-> NoService]
  /\ \E first \in Images : /\ image = [s \in Services |-> first]
                           /\ deployed = [s \in Services |-> {first}]

Begin(p) ==
  /\ holders = {}
  /\ holders' = {p}
  /\ \E s \in Services \cup {NoService} : target' = [target EXCEPT ![p] = s]
  /\ UNCHANGED <<image, deployed>>

Replace(p) ==
  /\ p \in holders
  /\ target[p] \in Services
  /\ \E new \in Trusted(target[p]) : image' = [image EXCEPT ![target[p]] = new]
  /\ UNCHANGED <<holders, target, deployed>>

Finish(p) ==
  /\ p \in holders
  /\ holders' = holders \ {p}
  /\ target' = [target EXCEPT ![p] = NoService]
  /\ UNCHANGED <<image, deployed>>

\* The maintainer dies: nobody is in progress any more, and every container
\* stays as it is.
Crash ==
  /\ holders' = {}
  /\ target' = [p \in Callers |-> NoService]
  /\ UNCHANGED <<image, deployed>>

\* Somebody else deploys an image.
Deploy(s, new) ==
  /\ image' = [image EXCEPT ![s] = new]
  /\ deployed' = [deployed EXCEPT ![s] = @ \cup {new}]
  /\ UNCHANGED <<holders, target>>

Next ==
  \/ \E p \in Callers : Begin(p) \/ Replace(p) \/ Finish(p)
  \/ Crash
  \/ \E s \in Services, new \in Images : Deploy(s, new)

Spec == Init /\ [][Next]_vars

=============================================================================
