------------------------------ MODULE Ruleset ------------------------------
(***************************************************************************)
(* The rules that an isolation loads (isolation.py): the text given to       *)
(* iptables-restore for one family of addresses, and what it does to a       *)
(* packet.  Every rule before the last accepts and the last one of a chain   *)
(* drops, so that the accepting rules of a chain are a set.                  *)
(*                                                                         *)
(* An address is its family and a name.  A port has its name: "channel" is   *)
(* the port of the API, "client" and "server" are those of DHCP.             *)
(***************************************************************************)
EXTENDS Integers

CONSTANT Names          \* the names of the addresses, in either family

Versions == {4, 6}
Host(version, name) == [version |-> version, name |-> name]
Ports == {"channel", "dns", "client", "server", "ssh"}
Chains == {"in", "out", "forward"}

(* resolvers: the first file with a server that is not a local stub.         *)
Resolvers(files) ==
    LET upstream(i) == {host \in files[i] : host.name # "loopback"}
        useful == {i \in DOMAIN files : upstream(i) # {}}
    IN  IF useful = {} THEN {} ELSE upstream(CHOOSE i \in useful : \A j \in useful : i <= j)

(* isolate refuses to begin without a channel and a resolver.               *)
Isolable(api, files) == api # {} /\ Resolvers(files) # {}

-----------------------------------------------------------------------------
(* A rule names the values it asks of the fields of a packet.                *)
Rule(chain, match) == [chain |-> chain, match |-> match]

LocalRules == {Rule("in", [lo |-> {TRUE}]), Rule("out", [lo |-> {TRUE}])}

PreserveRules(hosts) ==
    {Rule("in", [src |-> hosts]), Rule("out", [dst |-> hosts]),
     Rule("forward", [src |-> hosts]), Rule("forward", [dst |-> hosts])}

\* Mutant: the port and the state of an answer are not looked at.
ServiceRulesAnyState(hosts, port, protos) ==
    {Rule("out", [dst |-> hosts, proto |-> protos, dport |-> {port}]),
     Rule("in", [src |-> hosts, proto |-> protos])}
\* A service is reached from here, and only answers.
ServiceRules(hosts, port, protos) ==
    {Rule("out", [dst |-> hosts, proto |-> protos, dport |-> {port}]),
     Rule("in", [src |-> hosts, proto |-> protos, sport |-> {port}, state |-> {"established"}])}

DhcpRules ==
    {Rule("out", [proto |-> {"udp"}, sport |-> {"client"}, dport |-> {"server"}]),
     Rule("in", [proto |-> {"udp"}, sport |-> {"server"}, dport |-> {"client"}])}

MetadataRules(hosts) ==
    {Rule("out", [dst |-> hosts]), Rule("in", [src |-> hosts, state |-> {"established"}])}

NeighbourRules == {Rule("in", [proto |-> {"neighbour"}]), Rule("out", [proto |-> {"neighbour"}])}

RelatedRules == {Rule("in", [proto |-> {"icmp"}, state |-> {"related"}])}

\* build_ruleset for a family; nets are sets of hosts of one family.
BuildRuleset(version, nets, api, dns) ==
    LET family(hosts) == {host \in hosts : host.version = version} IN
    LocalRules \cup DhcpRules \cup RelatedRules
    \cup (UNION {PreserveRules(net) : net \in {n \in nets : family(n) # {}}})
    \cup ServiceRules(family(api), "channel", {"tcp"})
    \cup ServiceRules(family(dns), "dns", {"udp", "tcp"})
    \cup (IF version = 4 THEN MetadataRules({Host(4, "metadata")}) ELSE NeighbourRules)

Matches(rule, packet) ==
    rule.chain = packet.chain
    /\ \A field \in DOMAIN rule.match : packet[field] \in rule.match[field]
Passes(rules, packet) == \E rule \in rules : Matches(rule, packet)

=============================================================================
