--------------------------- MODULE UnboundImport ---------------------------
(***************************************************************************)
(* The text of an Unbound configuration and RootGuard's guided settings:   *)
(* what settings are accepted, how they are rendered, and how a file from  *)
(* elsewhere is read back into them. Directives without a guided           *)
(* counterpart go to the operator's own (expert) file.                     *)
(*                                                                         *)
(* A directive is a record, and so is a clause other than server: with the *)
(* lines in it. Zones are functions of their names. Scalar settings behave *)
(* like the verbosity. Syntax, canonical spelling, ranges of numbers and   *)
(* the limits on how many zones and hosts there may be are left out.       *)
(***************************************************************************)
EXTENDS SequencesExt

CONSTANTS
  ReverseNames,  \* private networks, and the reverse zones each consists of
  IPv4, IPv6     \* addresses

ASSUME ImportAssumption ==
  IsFiniteSet(DOMAIN ReverseNames) /\ \A n \in DOMAIN ReverseNames : IsFiniteSet(ReverseNames[n])

Levels    == {"errors", "operational"}
Named(key, name)    == [key |-> key, name |-> name, host |-> "", value |-> ""]
Directive(key, val) == [key |-> key, name |-> "", host |-> "", value |-> val]
LocalZoneLine(name, type) == [key |-> "local-zone", name |-> name, host |-> "", value |-> type]
HostLine(key, zone, host, address) == [key |-> key, name |-> zone, host |-> host, value |-> address]
Clauses == {"server", "forward-zone", "stub-zone"}
Reserved == UNION {ReverseNames[n] : n \in DOMAIN ReverseNames}

\* Settings that can be written down: zones, hosts and addresses are finitely many.
IsSettings(s) ==
  /\ IsFiniteSet(DOMAIN s.forward) /\ IsFiniteSet(s.private) /\ IsFiniteSet(DOMAIN s.local)
  /\ \A z \in DOMAIN s.local :
       IsFiniteSet(DOMAIN s.local[z]) /\ \A h \in DOMAIN s.local[z] : IsFiniteSet(s.local[z][h].ip)
  /\ DOMAIN s.reverse \subseteq DOMAIN ReverseNames

\* A file that has been parsed: what a directive has besides its key depends on it.
IsLine(d) ==
  /\ d = HostLine(d.key, d.name, d.host, d.value)
  /\ d.key = "verbosity" => d = Directive(d.key, d.value)
  /\ d.key \in {"private-domain", "domain-insecure"} => d = Named(d.key, d.name)
  /\ d.key = "local-zone" => d = LocalZoneLine(d.name, d.value)
IsClause(c) == c.clean \in BOOLEAN /\ c = [section |-> c.section, name |-> c.name, servers |-> c.servers, clean |-> c.clean]
IsText(file) ==
  /\ file.server \in Seq(ToSet(file.server)) /\ \A d \in ToSet(file.server) : IsLine(d)
  /\ file.clauses \in Seq(ToSet(file.clauses)) /\ \A c \in ToSet(file.clauses) : IsClause(c)

DefaultSettings ==
  [level |-> "operational", profile |-> "medium", network |-> "ipv4",
   forward |-> <<>>, private |-> {}, local |-> <<>>,
   reverse |-> [n \in DOMAIN ReverseNames |-> "static"]]

-----------------------------------------------------------------------------
(* What is accepted *)

\* A private domain must not also be a forwarding zone with its own exception.
PrivateDomainsValid(s) == \A z \in DOMAIN s.forward : s.forward[z].private => z \notin s.private

\* Host names and the addresses of reverse entries are unique in all zones.
LocalZonesValid(zones) ==
  LET hosts == UNION {{<<z, h>> : h \in DOMAIN zones[z]} : z \in DOMAIN zones}
      IP(x)  == zones[x[1]][x[2]].ip
      PTR(x) == zones[x[1]][x[2]].ptr
  IN /\ \A z \in DOMAIN zones : DOMAIN zones[z] # {}
     /\ \A x \in hosts : IP(x) # {}
     /\ \A x, y \in hosts : x # y => x[2] # y[2] /\ (PTR(x) /\ PTR(y) => IP(x) \cap IP(y) = {})

\* Any of the private networks may have a policy, also none.
ReverseZonesValid(reverse) ==
  DOMAIN reverse \subseteq DOMAIN ReverseNames /\ \A n \in DOMAIN reverse : reverse[n] \in {"static", "transparent"}

Valid(s) ==
  s.level \in Levels /\ PrivateDomainsValid(s) /\ ReverseZonesValid(s.reverse) /\ LocalZonesValid(s.local)

\* Directives of the expert file that a guided setting is responsible for.
GuidedConflict(s, custom) ==
  \E d \in ToSet(custom) :
    \/ d.key = "forward-zone" /\ DOMAIN s.forward # {}
    \/ d.key = "private-domain" /\ (s.private # {} \/ \E z \in DOMAIN s.forward : s.forward[z].private)
    \/ /\ d.key = "local-zone"
       /\ d.name \in DOMAIN s.local \cup UNION {ReverseNames[n] : n \in DOMAIN s.reverse}

\* Unbound reads the expert file after the managed one, as one text: a server
\* directive in it belongs to the clause that was opened last.
Misplaced(s, custom) ==
  \E i \in DOMAIN custom :
    LET opened == {j \in 1 .. i : custom[j].key \in Clauses}
    IN /\ custom[i].key \notin Clauses
       /\ IF opened = {} THEN DOMAIN s.forward # {} ELSE custom[Max(opened)].key # "server"

\* Directives that the expert file must not have: some guided setting, the image
\* or the protection of DNSSEC stands in the way.
GuidedDirectives  == {"do-ip4", "do-ip6", "prefer-ip6", "rrset-cache-size", "msg-cache-size"}
BlockedDirectives == GuidedDirectives \cup {"verbosity", "domain-insecure", "chroot"}
NormalizeCustom(custom) == \A d \in ToSet(custom) : d.key \notin BlockedDirectives

Acceptable(s, custom) ==
  Valid(s) /\ NormalizeCustom(custom) /\ ~GuidedConflict(s, custom) /\ ~Misplaced(s, custom)

-----------------------------------------------------------------------------
(* Rendering *)

ProfileSizes == [small |-> <<"32m", "16m">>, medium |-> <<"64m", "32m">>, large |-> <<"128m", "64m">>]
ProfileLines(profile) ==
  <<Directive("rrset-cache-size", ProfileSizes[profile][1]), Directive("msg-cache-size", ProfileSizes[profile][2])>>

YesNo(b) == IF b THEN "yes" ELSE "no"
NetworkLines(mode) ==
  <<Directive("do-ip4", YesNo(mode # "ipv6")), Directive("do-ip6", YesNo(mode # "ipv4")),
    Directive("prefer-ip6", YesNo(mode = "ipv6"))>>

LocalZoneGroup(zone, hosts) ==
  LET Lines(h, key) == SetToSeq({HostLine(key, zone, h, a) : a \in hosts[h].ip})
      PerHost(h)    == Lines(h, "local-data") \o (IF hosts[h].ptr THEN Lines(h, "local-data-ptr") ELSE <<>>)
      names         == SetToSeq(DOMAIN hosts)
  IN <<LocalZoneLine(zone, "static")>> \o FlattenSeq([i \in DOMAIN names |-> PerHost(names[i])])

\* The lines of the server clause, in the order Render writes them, and the
\* forward-zone clauses.
Render(s) ==
  LET optIns == {Named("domain-insecure", z) : z \in {z \in DOMAIN s.forward : s.forward[z].unsigned}}
                \cup {Named("private-domain", z) : z \in {z \in DOMAIN s.forward : s.forward[z].private}}
      reverse == UNION {{LocalZoneLine(z, s.reverse[n]) : z \in ReverseNames[n]} : n \in DOMAIN s.reverse}
      local   == SetToSeq(DOMAIN s.local)
      zones   == SetToSeq(DOMAIN s.forward)
  IN [server |-> <<Directive("verbosity", s.level)>> \o ProfileLines(s.profile) \o NetworkLines(s.network)
                 \o SetToSeq({Named("private-domain", d) : d \in s.private}) \o SetToSeq(optIns)
                 \o SetToSeq(reverse)
                 \o FlattenSeq([i \in DOMAIN local |-> LocalZoneGroup(local[i], s.local[local[i]])]),
      clauses |-> [i \in DOMAIN zones |->
                     [section |-> "forward-zone", name |-> zones[i],
                      servers |-> s.forward[zones[i]].servers, clean |-> TRUE]]]

-----------------------------------------------------------------------------
(* Reading a file back *)

\* Zones of the file replace the configured ones of the same name.
MergeZonesByName_KeepsOld(existing, incoming) ==
  [z \in DOMAIN existing \cup DOMAIN incoming |-> IF z \in DOMAIN existing THEN existing[z] ELSE incoming[z]]
MergeZonesByName(existing, incoming) ==
  [z \in DOMAIN existing \cup DOMAIN incoming |-> IF z \in DOMAIN incoming THEN incoming[z] ELSE existing[z]]

\* The zones of the clauses that say nothing but what a guided zone says.
ForwardZones(file) ==
  LET clean == {i \in DOMAIN file.clauses : file.clauses[i].section = "forward-zone" /\ file.clauses[i].clean}
      OptIn(key, z) == Named(key, z) \in ToSet(file.server)
  IN [z \in {file.clauses[i].name : i \in clean} |->
        [servers  |-> file.clauses[Max({i \in clean : file.clauses[i].name = z})].servers,
         unsigned |-> OptIn("domain-insecure", z), private |-> OptIn("private-domain", z)]]

\* A local-zone line and the data that directly follows it.
GroupData(lines, i) ==
  {j \in i + 1 .. Len(lines) : \A k \in i + 1 .. j : lines[k].key \in {"local-data", "local-data-ptr"}}

SameFamily(a, b) == a \in IPv4 <=> b \in IPv4
\* All of a group, or nothing of it, becomes a guided zone of hosts: addresses
\* of the zone's own names, one of each family, and reverse entries for them.
CleanGroup(lines, i) ==
  LET group == GroupData(lines, i)
      data  == {j \in group : lines[j].key = "local-data"}
  IN /\ lines[i].key = "local-zone" /\ lines[i].value = "static" /\ lines[i].name \notin Reserved
     /\ data # {}
     /\ \A j \in group : lines[j].name = lines[i].name
     /\ \A j \in data : /\ lines[j].value \in IPv4 \cup IPv6
                        /\ \A k \in data \ {j} : lines[j].host = lines[k].host => ~SameFamily(lines[j].value, lines[k].value)
     /\ \A j \in group \ data : \E k \in data :
          k < j /\ lines[k].host = lines[j].host /\ lines[k].value = lines[j].value

Hosts(lines, i) ==
  LET Of(key, h) == {lines[j].value : j \in {j \in GroupData(lines, i) : lines[j].key = key /\ lines[j].host = h}}
  IN [h \in {lines[j].host : j \in GroupData(lines, i)} |-> [ip |-> Of("local-data", h), ptr |-> Of("local-data-ptr", h) # {}]]

CleanGroups(lines) == {i \in DOMAIN lines : CleanGroup(lines, i)}
LocalZones(lines) ==
  LET groups == CleanGroups(lines)
  IN [z \in {lines[i].name : i \in groups} |-> Hosts(lines, Max({i \in groups : lines[i].name = z}))]

\* All of these lines are there, and each of their directives only once.
Stated(lines, wanted) ==
  \A d \in wanted : Cardinality({i \in DOMAIN lines : lines[i].key = d.key /\ lines[i].name = d.name}) = 1
                    /\ d \in ToSet(lines)

ReverseLines(n, type) == {LocalZoneLine(z, type) : z \in ReverseNames[n]}
ReverseZonePolicies(lines) ==
  LET Types(n) == {type \in {"static", "transparent"} : Stated(lines, ReverseLines(n, type))}
  IN [n \in {n \in DOMAIN ReverseNames : Types(n) # {}} |-> CHOOSE type \in Types(n) : TRUE]

\* The one choice that the lines state, or what is configured.
Extracted(lines, written, configured) ==
  LET stated == {c \in DOMAIN written : Stated(lines, ToSet(written[c]))}
  IN IF stated = {} THEN configured ELSE CHOOSE c \in stated : TRUE

Consumed_WithoutReverse(lines) == UNION {{i} \cup GroupData(lines, i) : i \in CleanGroups(lines)}
\* Directives the importer has taken as part of a group.
Consumed(lines) ==
  LET policies == ReverseZonePolicies(lines)
      reverse  == UNION {ReverseLines(n, policies[n]) : n \in DOMAIN policies}
  IN (UNION {{i} \cup GroupData(lines, i) : i \in CleanGroups(lines)}) \cup {i \in DOMAIN lines : lines[i] \in reverse}

\* Fixed by the image, not allowed, or part of a guided choice that is not
\* stated completely: reported, and not taken over.
FixedBase     == {"hide-identity"}
NotAdopted(d) == d.key \in FixedBase \cup (BlockedDirectives \ {"verbosity", "domain-insecure"})

LastSaid(lines, key, configured) ==
  LET said == {i \in DOMAIN lines : lines[i].key = key} IN IF said = {} THEN configured ELSE lines[Max(said)].value

\* The elements of a sequence at some of its places, in their order.
Picked(s, places) ==
  LET picked[i \in 0 .. Len(s)] ==
        IF i = 0 THEN <<>> ELSE IF i \in places THEN Append(picked[i - 1], s[i]) ELSE picked[i - 1]
  IN  picked[Len(s)]

\* A private network without a policy gets none, also when its lines were taken.
ImportUnboundConf(current, file) ==
  LET lines   == file.server
      zones   == ForwardZones(file)
      forward == MergeZonesByName(current.forward, zones)
      \* Anything else stays as it is written, a server clause without its header.
      consumed  == Consumed(lines)
      Custom(i) == /\ i \notin consumed /\ ~NotAdopted(lines[i])
                   /\ lines[i].key \notin {"verbosity", "private-domain"}
                   /\ ~(lines[i].key = "domain-insecure" /\ lines[i].name \in DOMAIN zones)
      domains == {lines[i].name : i \in {i \in DOMAIN lines : lines[i].key = "private-domain"}} \ DOMAIN zones
      Adopted(c) == c.section \in Clauses /\ ~(c.section = "forward-zone" /\ c.clean)
      adopted    == Picked(file.clauses, {i \in DOMAIN file.clauses : Adopted(file.clauses[i])})
  IN [settings |->
        [level   |-> LastSaid(lines, "verbosity", current.level),
         profile |-> Extracted(lines, [p \in DOMAIN ProfileSizes |-> ProfileLines(p)], current.profile),
         network |-> Extracted(lines, [m \in {"ipv4", "dual", "ipv6"} |-> NetworkLines(m)], current.network),
         forward |-> forward,
         private |-> current.private \cup {d \in domains : d \notin DOMAIN forward \/ ~forward[d].private},
         local   |-> MergeZonesByName(current.local, LocalZones(lines)),
         reverse |-> LET policies == ReverseZonePolicies(lines)
                     IN [n \in DOMAIN current.reverse |-> IF n \in DOMAIN policies THEN policies[n] ELSE current.reverse[n]]],
      custom |-> Picked(lines, {i \in DOMAIN lines : Custom(i)})
                 \o [i \in DOMAIN adopted |-> Named(adopted[i].section, adopted[i].name)]]

=============================================================================
