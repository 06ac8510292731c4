---------------------------- MODULE DockerProxy ----------------------------
(***************************************************************************)
(* rootguard-docker-proxy: the one process that holds Docker's socket. It  *)
(* keeps no state; it forwards a request that has a rule, and whose body   *)
(* its rule's validator accepts, and answers 403 to any other.             *)
(*                                                                         *)
(* A request is what is asked of which kind of resource by which name, and *)
(* in spec what the validators read of its body. A command of the docker   *)
(* CLI is the set of requests it sends; those of the DNS stack's           *)
(* installation are listed here, so that Installer can ask what becomes of *)
(* them. Requests nobody in the project sends are not enumerated.          *)
(***************************************************************************)
EXTENDS FiniteSets

Request(verb, kind, name, spec) == [verb |-> verb, kind |-> kind, name |-> name, spec |-> spec]
Plain(verb, kind, name) == Request(verb, kind, name, {})

-----------------------------------------------------------------------------
(* The allowlist *)

Rules_WithoutRename ==
  ({"read"} \X {"daemon", "image", "container", "network", "volume"})
    \cup {<<"pull", "image">>, <<"delete", "image">>}
    \cup ({"create", "start", "wait", "stop", "restart", "attach", "exec", "copy", "delete"} \X {"container"})
    \cup {<<"create", "network">>, <<"connect", "network">>, <<"disconnect", "network">>}
    \cup {<<"create", "volume">>, <<"delete", "volume">>}

\* Method and path, the version of the API apart. Networks are created and
\* never deleted; compose renames a container it recreates out of the way.
Rules == Rules_WithoutRename \cup {<<"rename", "container">>}

KnownImages   == {"core", "webapp", "unbound", "blockpage", "updater", "attestation-proxy", "adguard"}
KnownVolumes  == {"rootguard-data", "rootguard-sessions", "unbound-config", "adguard-auth",
                  "rootguard-unbound-config", "rootguard-unbound-state", "rootguard-adguard-work",
                  "rootguard-adguard-config", "rootguard-adguard-auth"}
KnownNetworks == {"default", "rootguard_control", "rootguard_edge", "rootguard_egress", "rootguard-dns"}

\* A process of its own is one of two: the port probe's and the chown helper's.
ValidateContainerProcess(spec)    == spec.process \in {"image", "true", "chown"}
ValidateContainerNetworking(spec) == spec.networks \subseteq KnownNetworks
ValidateMounts(spec)              == spec.mounts \subseteq KnownVolumes

ValidateContainerCreate(r) ==
  /\ r.spec.image \in KnownImages
  /\ ValidateContainerProcess(r.spec)
  /\ ValidateContainerNetworking(r.spec)
  /\ r.spec.capabilities \subseteq {"CHOWN", "SETUID", "SETGID"}
  /\ ValidateMounts(r.spec)

ValidateBlockpageExec(r) == r.spec \in {"render", "reload"}
ValidateUnboundExec(r)   == r.spec \in {"checkconf", "cat", "status", "verbosity", "dig"}
ValidateExecCreate(r) ==
  \/ r.name = "rootguard-blockpage" /\ ValidateBlockpageExec(r)
  \/ r.name = "rootguard-unbound" /\ ValidateUnboundExec(r)

ValidateNetworkConnect(r) == r.name = "rootguard-dns" /\ r.spec = "rootguard-core"
ValidateVolumeCreate(r)   == r.name \in KnownVolumes
\* Only a volume that none of the stacks declares may be removed.
ValidateVolumeDelete(r)   == r.name \notin KnownVolumes

\* matchRule, then the body validator of the rule.
Admits(r) ==
  /\ <<r.verb, r.kind>> \in Rules
  /\ r.verb = "pull" => r.name \in KnownImages
  /\ r.verb = "create" /\ r.kind = "container" => ValidateContainerCreate(r)
  /\ r.verb = "exec" => ValidateExecCreate(r)
  /\ r.verb = "connect" => ValidateNetworkConnect(r)
  /\ r.verb = "create" /\ r.kind = "volume" => ValidateVolumeCreate(r)
  /\ r.verb = "delete" /\ r.kind = "volume" => ValidateVolumeDelete(r)

\* A command succeeds only when none of its requests is refused.
Forwarded(command) == \A r \in command : Admits(r)

-----------------------------------------------------------------------------
(* The stack and the commands that install it *)

StackVolumes == {"rootguard-unbound-state", "rootguard-adguard-work", "rootguard-adguard-config"}
Container(image, mounts, capabilities) ==
  Request("create", "container", image,
          [image |-> image, process |-> "image", mounts |-> mounts, networks |-> {"rootguard-dns"},
           capabilities |-> capabilities])
Services == {Container("unbound", {"rootguard-unbound-config", "rootguard-unbound-state"}, {}),
             Container("adguard", {"rootguard-adguard-work", "rootguard-adguard-config"}, {}),
             Container("blockpage", {"rootguard-adguard-auth"}, {"CHOWN", "SETUID", "SETGID"})}

ComposePull   == {Plain("pull", "image", s.name) : s \in Services}
ComposeCreate ==
  {Plain("create", "network", "rootguard-dns")}
    \cup {Plain("create", "volume", v) : v \in StackVolumes} \cup Services
\* A recreated container is renamed, replaced and deleted.
ComposeUp(recreate) ==
  ComposeCreate
    \cup {Plain(verb, "container", s.name) : s \in Services,
            verb \in {"start"} \cup (IF recreate THEN {"stop", "rename", "delete"} ELSE {})}
\* compose down --volumes: the containers, then the network and the volumes.
RemoveContainers == {Plain(verb, "container", s.name) : verb \in {"stop", "delete"}, s \in Services}
RemoveResources  ==
  {Plain("delete", "network", "rootguard-dns")} \cup {Plain("delete", "volume", v) : v \in StackVolumes}
\* The chown helper on both of Unbound's volumes, after docker cp in a restore.
OwnershipCommands ==
  {Request("create", "container", "chown",
           [image |-> "unbound", process |-> "chown", mounts |-> {v}, networks |-> {},
            capabilities |-> {"CHOWN"}]) : v \in {"rootguard-unbound-config", "rootguard-unbound-state"}}
RestoreCommands == {Plain("copy", "container", s.name) : s \in Services} \cup OwnershipCommands
NetworkConnect == {Request("connect", "network", "rootguard-dns", "rootguard-core")}
ReloadCommands == {Request("exec", "container", "rootguard-blockpage", what) : what \in {"render", "reload"}}

=============================================================================
