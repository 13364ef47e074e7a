------------------------------- MODULE Inputs -------------------------------
(***************************************************************************)
(* The parts of the agent that decide from one input alone: the controls of  *)
(* an order (Orders), the rules of an isolation (Ruleset), the parsers of     *)
(* lines (Parsers) and the inventory of ports (PortInventory).  A behaviour  *)
(* is one input and what becomes of it.                                     *)
(***************************************************************************)
EXTENDS Integers, FiniteSets, Orders, Ruleset, Parsers, PortInventory

CONSTANTS
    Lengths,        \* of a justification
    Rates, Bursts,  \* of a limit
    Counts,         \* of the networks that an isolation preserves
    PreservedNets,  \* sets of addresses
    ApiHosts,       \* what the name of the API may resolve to
    ResolvConfs,    \* sequences of files, the servers of each
    MaxRows         \* rows of a listing of ports

VARIABLES
    kind,       \* what the input is
    input,
    stage,      \* what has been done with it
    result

vars == <<kind, input, stage, result>>

-----------------------------------------------------------------------------
(* Orders: every action, with the parameters of the controls.                *)
Order(actions, targets, params) ==
    [action : actions, target : targets, params : params, sig : Signatures]

InitOrder ==
    /\ kind = "order"
    /\ \/ input \in Order({"ban_ip", "block_at_reverse_proxy", "reboot"}, Addresses, {NoParams})
       \/ input \in Order({"ban_ip"}, Addresses, [burst : Bursts])
       \/ input \in Order({"rate_limit_ip"}, Addresses,
                          [rate_per_minute : Rates, burst : Bursts])
       \/ input \in Order({"rate_limit_ip"}, Addresses, [rate_per_minute : Rates])
       \/ input \in Order({"block_ip_range"}, Networks, [justification : Lengths])
       \/ input \in Order({"geo_block_country"}, Keys, [justification : Lengths])
       \/ input \in Order({"temporary_waf_rule"}, Keys, [rule : WafRules \cup {"other"}, value : Values])
       \/ input \in Order({"isolate_host"}, Keys,
              [justification : Lengths,
               preserve : [count : Counts, valid : BOOLEAN, prefixes : SUBSET Prefixes]])

Judge ==
    /\ kind = "order" /\ stage = "received"
    /\ stage' = IF Accepts(input) THEN "accepted" ELSE "refused"
    /\ UNCHANGED <<kind, input, result>>
CarryOut ==
    /\ kind = "order" /\ stage = "accepted"
    /\ \E session \in BOOLEAN :
           /\ stage' = IF Applicable(input, session) THEN "applied" ELSE "not applicable"
           /\ result' = IF session THEN "session" ELSE "no session"
    /\ UNCHANGED <<kind, input>>
Lift ==
    /\ kind = "order" /\ stage = "applied"
    /\ \E sig \in {"v1", "v2"} :
           stage' = IF Accepts(LiftOf(input, sig)) THEN "lifted" ELSE "lift refused"
    /\ UNCHANGED <<kind, input, result>>

-----------------------------------------------------------------------------
(* Isolations: preserved networks, addresses of the API, resolv.conf files.  *)
InitIsolation ==
    /\ kind = "isolation"
    /\ input \in [nets : SUBSET PreservedNets, api : SUBSET ApiHosts, files : ResolvConfs]

BuildRules ==
    /\ kind = "isolation" /\ stage = "received"
    /\ IF Isolable(input.api, input.files)
       THEN /\ stage' = "loaded"
            /\ result' = [v \in Versions |->
                              BuildRuleset(v, input.nets, input.api, Resolvers(input.files))]
       ELSE stage' = "refused" /\ UNCHANGED result
    /\ UNCHANGED <<kind, input>>

-----------------------------------------------------------------------------
InitLine ==
    \/ kind = "web" /\ input \in WebLines
    \/ kind = "iis" /\ input \in IisLines
    \/ kind = "error log" /\ input \in ErrorLines
    \/ kind = "syslog" /\ input \in SUBSET SyslogMarks
    \/ kind = "firewall" /\ input \in SUBSET FirewallMarks
    \/ kind = "windows" /\ input \in XmlLines

\* parser.line_to_event: one parser for each type of source.
ParseLine ==
    /\ stage = "received"
    /\ stage' = "parsed"
    /\ \/ kind = "web" /\ result' \in {Nginx(input), Apache(input)}
       \/ kind = "iis" /\ result' = Iis(input)
       \/ kind = "error log" /\ result' = NginxError(input)
       \/ kind = "syslog" /\ result' = Syslog(input)
       \/ kind = "firewall" /\ result' = Firewall(input)
       \/ kind = "windows" /\ result' = Windows(input)
    /\ UNCHANGED <<kind, input>>

InitPorts ==
    kind = "ports" /\ \E listing \in [1 .. MaxRows -> Rows] : input = {listing[i] : i \in 1 .. MaxRows}

CollectPorts ==
    /\ kind = "ports" /\ stage = "received"
    /\ \E listing \in Listings(input) : \E kept \in Deduplicated(Parsed(listing)) :
           /\ result' = Inventory(kept)
           /\ stage' = IF listing = input THEN "listed" ELSE "not listed"
    /\ UNCHANGED <<kind, input>>

Init ==
    /\ stage = "received" /\ result = "none"
    /\ InitOrder \/ InitIsolation \/ InitLine \/ InitPorts

Next == Judge \/ CarryOut \/ Lift \/ BuildRules \/ ParseLine \/ CollectPorts

Spec == Init /\ [][Next]_vars

-----------------------------------------------------------------------------
\* The controls of an order's target and parameters, written in three places,
\* agree (proxy_rules.py:3-6, "une regle n'atteint jamais nginx si un seul de
\* ces controles echoue"): one that the guard lets through is turned down by
\* the one that carries it out only because it would lock an administrator out
\* (remediation.py:527-536), and what it did can always be undone by the order
\* that lifts it, even signed in the old way (order_guard.py:150, 304). The
\* ttl_seconds of an isolation, which only isolation.py:340-342 bounds, and what
\* depends on the host (tools that are absent, the numbers of entries that are
\* already there), are apart.
AcceptedCanBeDoneAndUndone ==
    kind = "order" =>
        /\ stage # "lift refused"
        /\ stage = "not applicable" => input.action \in AgainstLockout /\ result = "session"

-----------------------------------------------------------------------------
(* What an isolation leaves (isolation.py:8-16).                             *)
Here(v) == Host(v, "here")
HostsOf(v) == {Host(v, name) : name \in Names \ {"loopback", "here"}}
Ends(v, chain) ==
    CASE chain = "in" -> HostsOf(v) \X {Here(v)}
      [] chain = "out" -> {Here(v)} \X HostsOf(v)
      [] chain = "forward" -> HostsOf(v) \X HostsOf(v)
Contents ==
    [proto : {"udp", "tcp"}, sport : Ports, dport : Ports, state : {"new", "established", "related"}]
    \cup [proto : {"icmp", "neighbour"}, sport : {"none"}, dport : {"none"},
          state : {"new", "established", "related"}]
Packet(chain, ends, c) ==
    [chain |-> chain, lo |-> FALSE, src |-> ends[1], dst |-> ends[2], proto |-> c.proto,
     sport |-> c.sport, dport |-> c.dport, state |-> c.state]
Reply(packet) ==
    [packet EXCEPT !.chain = "in", !.src = packet.dst, !.dst = packet.src,
                   !.sport = packet.dport, !.dport = packet.sport, !.state = "established"]

Preserved == UNION input.nets
\* A preserved network may hold the server itself.
Peers(v, ends) == {ends[1], ends[2]} \ {Here(v)}
Known == Preserved \cup input.api \cup Resolvers(input.files) \cup {Host(4, "metadata")}
\* What the network itself needs: DHCP, neighbours, errors about a packet.
Plumbing(c) ==
    \/ c.proto = "neighbour" \/ (c.proto = "icmp" /\ c.state = "related")
    \/ c.proto = "udp" /\ {c.sport, c.dport} = {"client", "server"}

\* No other host reaches the server, is reached by it, or goes through it, not
\* even by a connection that was open before; only a preserved host begins a
\* conversation.
StrangersCut(rules, v) ==
    \A chain \in Chains : \A ends \in Ends(v, chain), c \in Contents :
        Passes(rules, Packet(chain, ends, c)) =>
            \/ chain # "forward" /\ Plumbing(c)
            \/ Peers(v, ends) \cap Preserved # {}
            \/ chain = "out" /\ ends[2] \in Known
            \/ chain = "in" /\ ends[1] \in Known /\ c.state = "established"
\* Administration goes on; what the server may ask it may also hear; the
\* channel is open to each address of the API.
WhatIsKeptWorks(rules, v) ==
    /\ \A chain \in Chains : \A ends \in Ends(v, chain), c \in Contents :
           Peers(v, ends) \cap Preserved # {} => Passes(rules, Packet(chain, ends, c))
    /\ \A ends \in Ends(v, "out"), c \in Contents :
           LET packet == Packet("out", ends, c)
           IN  Passes(rules, packet) => Passes(rules, Reply(packet))
    /\ \A host \in {h \in input.api : h.version = v} :
           Passes(rules, Packet("out", <<Here(v), host>>,
               [proto |-> "tcp", sport |-> "ssh", dport |-> "channel", state |-> "new"]))
\* "ISOLATE_HOST n'est PAS un DROP ALL" and "Tout le reste est rejete, y
\* compris les connexions deja etablies" (isolation.py:8-16), packet by packet.
IsolationLeavesWhatItMust ==
    stage = "loaded" =>
        \A v \in Versions : StrangersCut(result[v], v) /\ WhatIsKeptWorks(result[v], v)

-----------------------------------------------------------------------------
\* The tables of the documentation (nginx.py:16-28).
DocumentedStatus(status) ==
    CASE status \in {401, 403, 444} \cup 500 .. 599 -> "high"
      [] status = 404 -> "low"
      [] status \in 400 .. 499 \ {401, 403, 404, 444} -> "medium"
      [] OTHER -> "info"
DocumentedLevel(level) ==
    CASE level \in {"debug", "info", "notice"} -> "info"
      [] level = "warn" -> "low"
      [] level \in {"crit", "alert", "emerg"} -> "high"
      [] OTHER -> "medium"

\* What a line of syslog says of an authentication that failed, in the words
\* the parser looks for (linux.py:39-60). sshd says "Failed publickey" too: the
\* parser has no mark of it, and such a line is "info".
AuthenticationFailed(marks) ==
    \/ {"failed password", "authentication failure", "invalid user"} \cap marks # {}
    \/ {"pam_unix(sshd:auth)", "user unknown"} \subseteq marks /\ "[preauth]" \notin marks
\* What a firewall writes of a packet it stops, by any of the three tools.
Stopped == {"UFW BLOCK", "DROP", "DENY", "REJECT", "iptables denied", "nft drop or reject"}

RequestsRated ==
    /\ kind = "web" => result.severity =
          IF input.cut \/ "parse_failed" \in result.fields THEN "info"
          ELSE DocumentedStatus(input.status)
    /\ kind = "web" /\ "parse_failed" \in result.fields =>
          input.cut \/ (input.format = "common" /\ ~input.request)
    /\ kind = "iis" => result.severity =
          IF "status" \in result.fields THEN DocumentedStatus(input.status) ELSE "info"
ErrorsRated ==
    kind = "error log" => result.severity =
        IF input.matches THEN DocumentedLevel(input.level) ELSE "info"
SyslogRated ==
    /\ kind = "syslog" /\ AuthenticationFailed(input) => result.severity = "high"
    /\ kind = "syslog" /\ {"[preauth]", "connection closed"} \subseteq input =>
          result.severity \in {"medium", "high"}
FirewallRated ==
    kind = "firewall" /\ Stopped \cap input # {} =>
        result.severity = "low" /\ {"event_kind", "action", "src_ip"} \subseteq result.fields
WindowsRated ==
    /\ kind = "windows" /\ ~input.valid => result.severity = "info"
    /\ kind = "windows" /\ input.valid /\ input.id = 4625 => result.severity = "high"

\* Whatever the server and the format, a request or an error that can be read
\* has the severity the documentation gives its status or its level; a line
\* that cannot be read, in any log, raises no alert. Whatever else the line
\* holds, the failures the parsers know by name are high: those of syslog, and
\* the failed logon of Windows (4625), of whatever level and channel; a
\* disconnection before authentication is not below medium, a packet that was
\* stopped is reported as one.
SeverityAsDocumented ==
    stage = "parsed" =>
        /\ result.severity \in Severities
        /\ "parse_failed" \in result.fields => result.severity = "info"
        /\ RequestsRated /\ ErrorsRated /\ SyslogRated /\ FirewallRated /\ WindowsRated

\* "Exposee si elle ecoute sur toutes les interfaces ou sur une adresse qui
\* n'est pas purement loopback" (port_inventory.py:50): a sensitive port that
\* can be reached is in the event whatever other socket has the same port, and
\* the event warns of nothing else.
SensitivePortsReported ==
    stage = "listed" =>
        LET reachable == {r \in input : /\ r.listening /\ r.legible /\ r.port \in SensitivePorts
                                        /\ r.address \notin LocalOnly}
        IN  /\ result.sensitive_exposed = {r.port : r \in reachable}
            /\ (result.severity = "warning") = (reachable # {})

=============================================================================
