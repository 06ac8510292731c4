-------------------------- MODULE MCUnboundConfig --------------------------
(***************************************************************************)
(* UnboundConfig on a small instance: two requests and one operator,       *)
(* settings with a policy for one private network only, a content of the   *)
(* expert file that cannot be combined with them, two files from elsewhere *)
(* and the managed configurations of two RootGuards.                       *)
(***************************************************************************)
EXTENDS UnboundConfig

CONSTANTS r1, r2, operator, corp, lan, home, nas, a4, a6, server

MCReverseNames == "10" :> {"10.arpa"} @@ "172" :> {"16.arpa", "17.arpa"}

Quiet ==
  [level |-> "errors", profile |-> "small", network |-> "ipv6", private |-> {lan},
   forward |-> corp :> [servers |-> {server}, unsigned |-> TRUE, private |-> FALSE],
   local |-> home :> (nas :> [ip |-> {a4, a6}, ptr |-> TRUE]),
   reverse |-> "172" :> "transparent"]
MCGuided == {Quiet}
MCExpert == {<<Directive("server", ""), Directive("minimal-responses", "yes"), Named("forward-zone", corp)>>}

Corp(clean) == [section |-> "forward-zone", name |-> corp, servers |-> {server}, clean |-> clean]

\* Becomes guided settings as a whole, together with a directive in its middle;
\* what it says twice the second time.
Complete ==
  [clauses |-> <<[Corp(TRUE) EXCEPT !.servers = {server, a6}], Corp(TRUE)>>,
   server  |-> NetworkLines("dual")
     \o <<LocalZoneLine(home, "static"), HostLine("local-data", home, nas, a6), Directive("verbosity", "operational"),
          LocalZoneLine(home, "static"), HostLine("local-data", home, nas, a4), Directive("verbosity", "errors"),
          Named("private-domain", corp), Named("private-domain", lan), LocalZoneLine("10.arpa", "transparent")>>]
\* Fits the guided settings nowhere: unclean clauses, half of a choice, a group
\* with what no host has. It can be adopted all the same, but for what is fixed.
Foreign ==
  [clauses |-> <<Corp(FALSE), [section |-> "remote-control", name |-> "", servers |-> {}, clean |-> FALSE]>>,
   server  |-> <<Directive("minimal-responses", "yes"), Directive("hide-identity", "yes"), Named("private-domain", corp),
                 Directive("do-ip6", "yes"), LocalZoneLine(home, "static"), HostLine("local-data", home, nas, "CNAME"),
                 LocalZoneLine("16.arpa", "static"), HostLine("local-data-ptr", home, nas, a4), Directive("chroot", "/")>>]
MCImportFiles == {Complete, Foreign, Render(DefaultSettings), Render(Quiet)}

=============================================================================
