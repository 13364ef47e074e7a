---------------------------- MODULE InputsProofs ----------------------------
(* What the controls, the rules of an isolation, the parsers and the           *)
(* inventory decide, for any numbers, addresses, columns and listings.        *)
EXTENDS Inputs, WellFoundedInduction, TLAPS

(* Kind of input is set once.                                              *)
LEMMA KindsApart ==
  ASSUME [Next]_vars
  PROVE  kind' = kind /\ input' = input
BY DEF Next, vars, Judge, CarryOut, Lift, BuildRules, ParseLine, CollectPorts

LEMMA InitKinds ==
  ASSUME Init
  PROVE  /\ kind = "order" => InitOrder
         /\ kind = "isolation" => InitIsolation
         /\ kind = "ports" => InitPorts
         /\ kind \notin {"order", "isolation", "ports"} => InitLine
BY DEF Init, InitOrder, InitIsolation, InitPorts, InitLine

-----------------------------------------------------------------------------
(* Orders.                                                                 *)
OrderInv ==
    kind = "order" =>
        /\ input.action \in Blocks \cup {"reboot"}
        /\ \/ stage \in {"received", "refused", "accepted", "applied", "lifted"}
           \/ stage = "not applicable" /\ input.action \in AgainstLockout /\ result = "session"
        /\ stage \in {"accepted", "applied"} => Accepts(input)

(* The control that carries an order out asks nothing that the guard has    *)
(* not asked, but that no session comes from the target.                   *)
LEMMA AcceptedIsApplicable ==
  ASSUME NEW order, order.action \in Blocks, Accepts(order), NEW session \in BOOLEAN
  PROVE  Applicable(order, session) \/ (session /\ order.action \in AgainstLockout)
<1>1. CheckIp(order) /\ CheckParams(order)
  BY DEF Accepts
<1>2. CASE order.action = "block_at_reverse_proxy"
  BY <1>1, <1>2 DEF CheckIp, Applicable, AgainstLockout, DenyApplicable, Hosts, Ranges, Waf, Countries,
     ForbiddenKinds
<1>3. CASE order.action = "temporary_waf_rule"
  BY <1>1, <1>3 DEF CheckIp, CheckProxyTarget, Applicable, AgainstLockout, WafApplicable, Hosts, Ranges, Waf,
     Countries
<1>4. CASE order.action = "geo_block_country"
  BY <1>1, <1>4 DEF CheckIp, CheckProxyTarget, Applicable, AgainstLockout, GeoApplicable, Hosts, Ranges, Waf,
     Countries
<1>5. CASE order.action = "isolate_host"
  <2>1. ValueAccepted("preserve", order.params["preserve"])
    BY <1>1, <1>5 DEF CheckParams, ParamSpecs
  <2> QED
    BY <1>5, <2>1 DEF ValueAccepted, CidrsAccepted, Applicable, AgainstLockout, PreserveApplicable
<1> QED
  BY <1>2, <1>3, <1>4, <1>5 DEF Applicable, AgainstLockout

(* A lift has the target of its order and no parameter to be refused for.   *)
LEMMA AcceptedCanBeLifted ==
  ASSUME NEW order, order.action \in Blocks, Accepts(order), NEW sig \in {"v1", "v2"}
  PROVE  Accepts(LiftOf(order, sig))
<1> DEFINE lift == LiftOf(order, sig)
<1>1. /\ lift.action = Lifts[order.action] /\ lift.target = order.target
      /\ lift.params = NoParams /\ lift.sig = sig
  BY DEF LiftOf
<1>2. lift.action \in Allowed
  BY <1>1 DEF Allowed
<1>3. ParamSpecs(lift.action) = {}
  BY <1>1 DEF ParamSpecs, Blocks, Lifts
<1>4. CheckParams(lift)
  BY <1>1, <1>3 DEF CheckParams, NoParams
<1>5. CheckIp(order)
  BY DEF Accepts
<1>6. CheckIp(lift)
  BY <1>1, <1>5 DEF CheckIp, CheckRange, CheckProxyTarget, CheckHostTarget, Hosts, Ranges,
     Waf, Countries, Blocks, Lifts
<1> QED
  BY <1>1, <1>2, <1>4, <1>6 DEF Accepts

LEMMA OrderStep ==
  ASSUME OrderInv, [Next]_vars
  PROVE  OrderInv'
<1> SUFFICES ASSUME kind' = "order"
             PROVE  /\ input'.action \in Blocks \cup {"reboot"}
                    /\ \/ stage' \in {"received", "refused", "accepted", "applied", "lifted"}
                       \/ /\ stage' = "not applicable" /\ result' = "session"
                          /\ input'.action \in AgainstLockout
                    /\ stage' \in {"accepted", "applied"} => Accepts(input')
  BY DEF OrderInv
<1>1. kind = "order" /\ input' = input
  BY KindsApart
<1>2. input.action \in Blocks \/ ~Accepts(input)
  <2>1. input.action \in Blocks \cup {"reboot"}
    BY <1>1 DEF OrderInv
  <2>2. "reboot" \notin Allowed
    BY DEF Allowed, Blocks, Lifts
  <2> QED
    BY <2>1, <2>2 DEF Accepts
<1>3. CASE Judge
  BY <1>1, <1>3 DEF OrderInv, Judge
<1>4. CASE CarryOut
  <2>1. PICK session \in BOOLEAN :
            /\ stage' = IF Applicable(input, session) THEN "applied" ELSE "not applicable"
            /\ result' = IF session THEN "session" ELSE "no session"
    BY <1>4 DEF CarryOut
  <2>2. stage = "accepted" /\ input.action \in Blocks /\ Accepts(input)
    BY <1>1, <1>2, <1>4 DEF OrderInv, CarryOut
  <2>3. Applicable(input, session) \/ (session /\ input.action \in AgainstLockout)
    BY <2>2, AcceptedIsApplicable
  <2> QED
    BY <1>1, <2>1, <2>2, <2>3
<1>5. CASE Lift
  BY <1>1, <1>2, <1>5, AcceptedCanBeLifted DEF OrderInv, Lift
<1>6. CASE ParseLine \/ BuildRules \/ CollectPorts \/ UNCHANGED vars
  BY <1>1, <1>6 DEF OrderInv, ParseLine, BuildRules, CollectPorts, vars
<1> QED
  BY <1>3, <1>4, <1>5, <1>6 DEF Next

(* What the guard accepts is turned down only by the control against         *)
(* lockout, and can be lifted (proxy_rules.py lines 3-6, remediation.py       *)
(* lines 527-536), whatever the numbers, prefixes and texts of the order.    *)
THEOREM AcceptedCanBeDoneAndUndoneHolds == Spec => []AcceptedCanBeDoneAndUndone
<1>1. Init => OrderInv
  <2> SUFFICES ASSUME Init, kind = "order" PROVE input.action \in Blocks \cup {"reboot"}
    BY DEF OrderInv, Init
  <2> QED
    BY InitKinds DEF InitOrder, Order, Blocks, Lifts
<1>2. OrderInv => AcceptedCanBeDoneAndUndone
  BY DEF OrderInv, AcceptedCanBeDoneAndUndone
<1> QED
  BY <1>1, <1>2, OrderStep, PTL DEF Spec

-----------------------------------------------------------------------------
(* The inventory of ports.                                                 *)
Reachable(rows) ==
    {r \in rows : /\ r.listening /\ r.legible /\ r.port \in SensitivePorts
                  /\ r.address \notin LocalOnly}

PortsInv ==
    stage = "listed" => \E kept \in Deduplicated(Parsed(input)) : result = Inventory(kept)

LEMMA EntryFields ==
  ASSUME NEW row
  PROVE  /\ Entry(row).port = row.port /\ Entry(row).address = row.address
         /\ Entry(row).exposed <=> row.address \notin LocalOnly
         /\ Entry(row).sensitive <=> row.port \in SensitivePorts
<1>1. IsExposed(row.address) <=> row.address \notin LocalOnly
  BY PortInventoryAssumption DEF IsExposed
<1> QED
  BY <1>1 DEF Entry

(* Of the sockets of one port and address, any one that is kept is exposed   *)
(* and sensitive like the others.                                          *)
LEMMA ReachableIsKept ==
  ASSUME NEW rows, NEW kept \in Deduplicated(Parsed(rows))
  PROVE  {e.port : e \in {k \in kept : k.exposed /\ k.sensitive}} = {r.port : r \in Reachable(rows)}
<1> DEFINE sensitive == {k \in kept : k.exposed /\ k.sensitive}
<1>1. /\ kept \subseteq Parsed(rows)
      /\ \A e \in Parsed(rows) : \E k \in kept : k.port = e.port /\ k.address = e.address
  BY DEF Deduplicated
<1>2. ASSUME NEW e \in sensitive PROVE \E r \in Reachable(rows) : r.port = e.port
  <2>1. PICK r \in rows : r.listening /\ r.legible /\ e = Entry(r)
    BY <1>1 DEF Parsed
  <2> QED
    BY <2>1, EntryFields DEF Reachable
<1>3. ASSUME NEW r \in Reachable(rows) PROVE \E e \in sensitive : e.port = r.port
  <2>1. Entry(r) \in Parsed(rows)
    BY DEF Parsed, Reachable
  <2>2. PICK k \in kept : k.port = Entry(r).port /\ k.address = Entry(r).address
    BY <1>1, <2>1
  <2>3. PICK s \in rows : k = Entry(s)
    BY <1>1 DEF Parsed
  <2> QED
    BY <2>2, <2>3, EntryFields DEF Reachable
<1> QED
  BY <1>2, <1>3

LEMMA PortsStep ==
  ASSUME PortsInv, [Next]_vars
  PROVE  PortsInv'
<1>1. CASE CollectPorts
  <2> SUFFICES ASSUME stage' = "listed"
               PROVE  \E kept \in Deduplicated(Parsed(input')) : result' = Inventory(kept)
    BY DEF PortsInv
  <2>1. PICK listing \in Listings(input) :
          \E kept \in Deduplicated(Parsed(listing)) :
              /\ result' = Inventory(kept)
              /\ stage' = IF listing = input THEN "listed" ELSE "not listed"
    BY <1>1 DEF CollectPorts
  <2> QED
    BY <2>1, KindsApart
<1>2. CASE Judge \/ CarryOut \/ Lift \/ BuildRules \/ ParseLine \/ UNCHANGED vars
  BY <1>2 DEF PortsInv, Judge, CarryOut, Lift, BuildRules, ParseLine, vars
<1> QED
  BY <1>1, <1>2 DEF Next

(* A sensitive port that can be reached is in the event, and nothing else is *)
(* (port_inventory.py:50), for any addresses, ports and number of rows,      *)
(* whichever row of a port and address is kept.                            *)
THEOREM SensitivePortsReportedHolds == Spec => []SensitivePortsReported
<1>1. Init => PortsInv
  BY DEF Init, PortsInv
<1>2. PortsInv => SensitivePortsReported
  <2> SUFFICES ASSUME PortsInv, stage = "listed"
               PROVE  /\ result.sensitive_exposed = {r.port : r \in Reachable(input)}
                      /\ (result.severity = "warning") = (Reachable(input) # {})
    BY DEF SensitivePortsReported, Reachable
  <2>1. PICK kept \in Deduplicated(Parsed(input)) : result = Inventory(kept)
    BY DEF PortsInv
  <2> DEFINE sensitive == {k \in kept : k.exposed /\ k.sensitive}
  <2>2. {e \in {k \in kept : k.exposed} : e.sensitive} = sensitive
    OBVIOUS
  <2>3. /\ result.sensitive_exposed = {e.port : e \in sensitive}
        /\ result.severity = IF sensitive = {} THEN "info" ELSE "warning"
    BY <2>1, <2>2 DEF Inventory
  <2>4. {e.port : e \in sensitive} = {r.port : r \in Reachable(input)}
    BY ReachableIsKept
  <2>5. Reachable(input) = {} <=> sensitive = {}
    <3>1. {e.port : e \in sensitive} = {} <=> sensitive = {}
      OBVIOUS
    <3>2. {r.port : r \in Reachable(input)} = {} <=> Reachable(input) = {}
      OBVIOUS
    <3> QED
      BY <2>4, <3>1, <3>2
  <2>6. (result.severity = "warning") <=> Reachable(input) # {}
    BY <2>3, <2>5
  <2> QED
    BY <2>3, <2>4, <2>6
<1> QED
  BY <1>1, <1>2, PortsStep, PTL DEF Spec

-----------------------------------------------------------------------------
(* The rules of an isolation: what each group of them lets through.         *)
Served(hosts, port, protos, p) ==
    /\ p.proto \in protos
    /\ \/ p.chain = "out" /\ p.dst \in hosts /\ p.dport = port
       \/ p.chain = "in" /\ p.src \in hosts /\ p.sport = port /\ p.state = "established"
Dhcp(p) ==
    /\ p.proto = "udp"
    /\ \/ p.chain = "out" /\ p.sport = "client" /\ p.dport = "server"
       \/ p.chain = "in" /\ p.sport = "server" /\ p.dport = "client"
Kept(net, p) ==
    \/ p.chain \in {"in", "forward"} /\ p.src \in net
    \/ p.chain \in {"out", "forward"} /\ p.dst \in net
FamilyOf(v, hosts) == {host \in hosts : host.version = v}
Metadata(p) ==
    \/ p.chain = "out" /\ p.dst = Host(4, "metadata")
    \/ p.chain = "in" /\ p.src = Host(4, "metadata") /\ p.state = "established"

LEMMA LocalPasses ==
  ASSUME NEW p, p.lo = FALSE
  PROVE  ~Passes(LocalRules, p)
<1>1. ASSUME NEW c, Matches(Rule(c, [lo |-> {TRUE}]), p) PROVE FALSE
  <2>1. "lo" \in DOMAIN [lo |-> {TRUE}]
    OBVIOUS
  <2>2. Rule(c, [lo |-> {TRUE}]).match = [lo |-> {TRUE}]
    BY DEF Rule
  <2>3. p["lo"] \in [lo |-> {TRUE}]["lo"]
    BY <1>1, <2>1, <2>2 DEF Matches
  <2>4. [lo |-> {TRUE}]["lo"] = {TRUE}
    OBVIOUS
  <2>5. p["lo"] = TRUE
    BY <2>3, <2>4
  <2> QED
    BY <2>5
<1> QED
  BY <1>1 DEF Passes, LocalRules

LEMMA PreservePasses ==
  ASSUME NEW p, NEW net
  PROVE  Passes(PreserveRules(net), p) <=> Kept(net, p)
<1>1. \A c : /\ Matches(Rule(c, [src |-> net]), p) <=> c = p.chain /\ p.src \in net
             /\ Matches(Rule(c, [dst |-> net]), p) <=> c = p.chain /\ p.dst \in net
  BY DEF Matches, Rule
<1> QED
  BY <1>1 DEF Passes, PreserveRules, Kept

LEMMA ServicePasses ==
  ASSUME NEW p, NEW hosts, NEW port, NEW protos
  PROVE  Passes(ServiceRules(hosts, port, protos), p) <=> Served(hosts, port, protos, p)
<1> DEFINE ask == Rule("out", [dst |-> hosts, proto |-> protos, dport |-> {port}])
           answer == Rule("in", [src |-> hosts, proto |-> protos, sport |-> {port},
                                 state |-> {"established"}])
<1>1. Matches(ask, p) <=> p.chain = "out" /\ p.dst \in hosts /\ p.proto \in protos /\ p.dport = port
  BY DEF Matches, Rule
<1>2. Matches(answer, p) <=> /\ p.chain = "in" /\ p.src \in hosts /\ p.proto \in protos
                             /\ p.sport = port /\ p.state = "established"
  BY DEF Matches, Rule
<1>3. ServiceRules(hosts, port, protos) = {ask, answer}
  BY DEF ServiceRules
<1> HIDE DEF ask, answer
<1> QED
  BY <1>1, <1>2, <1>3 DEF Passes, Served

LEMMA DhcpPasses ==
  ASSUME NEW p
  PROVE  Passes(DhcpRules, p) <=> Dhcp(p)
<1> DEFINE ask == Rule("out", [proto |-> {"udp"}, sport |-> {"client"}, dport |-> {"server"}])
           answer == Rule("in", [proto |-> {"udp"}, sport |-> {"server"}, dport |-> {"client"}])
<1>1. Matches(ask, p) <=> /\ p.chain = "out" /\ p.proto = "udp"
                          /\ p.sport = "client" /\ p.dport = "server"
  BY DEF Matches, Rule
<1>2. Matches(answer, p) <=> /\ p.chain = "in" /\ p.proto = "udp"
                             /\ p.sport = "server" /\ p.dport = "client"
  BY DEF Matches, Rule
<1>3. DhcpRules = {ask, answer}
  BY DEF DhcpRules
<1> HIDE DEF ask, answer
<1> QED
  BY <1>1, <1>2, <1>3 DEF Passes, Dhcp

LEMMA MetadataPasses ==
  ASSUME NEW p
  PROVE  Passes(MetadataRules({Host(4, "metadata")}), p) <=> Metadata(p)
<1> DEFINE hosts == {Host(4, "metadata")}
           ask == Rule("out", [dst |-> hosts])
           answer == Rule("in", [src |-> hosts, state |-> {"established"}])
<1>1. Matches(ask, p) <=> p.chain = "out" /\ p.dst \in hosts
  BY DEF Matches, Rule
<1>2. Matches(answer, p) <=> p.chain = "in" /\ p.src \in hosts /\ p.state = "established"
  BY DEF Matches, Rule
<1>3. MetadataRules(hosts) = {ask, answer}
  BY DEF MetadataRules
<1> HIDE DEF ask, answer
<1> QED
  BY <1>1, <1>2, <1>3 DEF Passes, Metadata

LEMMA NeighbourPasses ==
  ASSUME NEW p
  PROVE  Passes(NeighbourRules, p) <=> p.chain \in {"in", "out"} /\ p.proto = "neighbour"
BY DEF Passes, NeighbourRules, Matches, Rule

LEMMA RelatedPasses ==
  ASSUME NEW p
  PROVE  Passes(RelatedRules, p) <=> p.chain = "in" /\ p.proto = "icmp" /\ p.state = "related"
BY DEF Passes, RelatedRules, Matches, Rule

(* The whole set, for a packet that is not local.                          *)
LetThrough(v, nets, api, dns, p) ==
    \/ Dhcp(p)
    \/ p.chain = "in" /\ p.proto = "icmp" /\ p.state = "related"
    \/ \E net \in nets : FamilyOf(v, net) # {} /\ Kept(net, p)
    \/ Served(FamilyOf(v, api), "channel", {"tcp"}, p)
    \/ Served(FamilyOf(v, dns), "dns", {"udp", "tcp"}, p)
    \/ v = 4 /\ Metadata(p)
    \/ v # 4 /\ p.chain \in {"in", "out"} /\ p.proto = "neighbour"

LEMMA RulesetPasses ==
  ASSUME NEW v, NEW nets, NEW api, NEW dns, NEW p, p.lo = FALSE
  PROVE  Passes(BuildRuleset(v, nets, api, dns), p) <=> LetThrough(v, nets, api, dns, p)
<1> DEFINE nets_v == {n \in nets : FamilyOf(v, n) # {}}
           preserve == UNION {PreserveRules(net) : net \in nets_v}
           channel == ServiceRules(FamilyOf(v, api), "channel", {"tcp"})
           names == ServiceRules(FamilyOf(v, dns), "dns", {"udp", "tcp"})
           family == IF v = 4 THEN MetadataRules({Host(4, "metadata")}) ELSE NeighbourRules
<1>1. BuildRuleset(v, nets, api, dns) =
        LocalRules \cup DhcpRules \cup RelatedRules \cup preserve
        \cup channel \cup names \cup family
  BY DEF BuildRuleset, FamilyOf
<1>2. Passes(preserve, p) <=> \E net \in nets : FamilyOf(v, net) # {} /\ Kept(net, p)
  <2>1. Passes(preserve, p) <=> \E net \in nets_v : Passes(PreserveRules(net), p)
    BY DEF Passes
  <2> QED
    BY <2>1, PreservePasses
<1>3. Passes(family, p) <=> \/ v = 4 /\ Metadata(p)
                            \/ v # 4 /\ p.chain \in {"in", "out"} /\ p.proto = "neighbour"
  BY MetadataPasses, NeighbourPasses
<1>4. /\ Passes(channel, p) <=> Served(FamilyOf(v, api), "channel", {"tcp"}, p)
      /\ Passes(names, p) <=> Served(FamilyOf(v, dns), "dns", {"udp", "tcp"}, p)
  BY ServicePasses
<1> HIDE DEF preserve, channel, names, family
<1>5. Passes(BuildRuleset(v, nets, api, dns), p) <=>
        \/ Passes(LocalRules, p) \/ Passes(DhcpRules, p) \/ Passes(RelatedRules, p)
        \/ Passes(preserve, p) \/ Passes(channel, p) \/ Passes(names, p) \/ Passes(family, p)
  BY <1>1 DEF Passes
<1> QED
  BY <1>2, <1>3, <1>4, <1>5, LocalPasses, DhcpPasses, RelatedPasses DEF LetThrough

RulesOf(v) == BuildRuleset(v, input.nets, input.api, Resolvers(input.files))
IsolationInv == stage = "loaded" => result = [v \in Versions |-> RulesOf(v)]

(* Where a packet comes from and goes to.                                  *)
LEMMA EndsAre ==
  ASSUME NEW v, NEW chain \in Chains, NEW ends \in Ends(v, chain)
  PROVE  /\ chain \in {"in", "forward"} => ends[1] \in HostsOf(v)
         /\ chain \in {"out", "forward"} => ends[2] \in HostsOf(v)
         /\ chain = "in" => ends[2] = Here(v)
         /\ chain = "out" => ends[1] = Here(v)
BY DEF Chains, Ends

LEMMA HostsAre ==
  ASSUME NEW v, NEW host \in HostsOf(v)
  PROVE  host.version = v /\ host # Here(v)
BY DEF HostsOf, Here, Host

LEMMA StrangersAreCut ==
  ASSUME NEW v \in Versions
  PROVE  StrangersCut(RulesOf(v), v)
<1> SUFFICES ASSUME NEW chain \in Chains, NEW ends \in Ends(v, chain), NEW c \in Contents,
                    Passes(RulesOf(v), Packet(chain, ends, c))
             PROVE  \/ chain # "forward" /\ Plumbing(c)
                    \/ Peers(v, ends) \cap Preserved # {}
                    \/ chain = "out" /\ ends[2] \in Known
                    \/ chain = "in" /\ ends[1] \in Known /\ c.state = "established"
  BY DEF StrangersCut
<1> DEFINE p == Packet(chain, ends, c)
           dns == Resolvers(input.files)
<1>1. /\ p.chain = chain /\ p.lo = FALSE /\ p.src = ends[1] /\ p.dst = ends[2]
      /\ p.proto = c.proto /\ p.sport = c.sport /\ p.dport = c.dport /\ p.state = c.state
  BY DEF Packet
<1> HIDE DEF p, dns
<1>2. CASE \/ Dhcp(p)
           \/ p.chain = "in" /\ p.proto = "icmp" /\ p.state = "related"
           \/ p.chain \in {"in", "out"} /\ p.proto = "neighbour"
  BY <1>1, <1>2 DEF Dhcp, Plumbing
<1>3. CASE \E net \in input.nets : FamilyOf(v, net) # {} /\ Kept(net, p)
  <2>1. PICK net \in input.nets : Kept(net, p)
    BY <1>3
  <2>2. PICK host : /\ host \in net /\ host \in HostsOf(v)
                    /\ host = ends[1] \/ host = ends[2]
    BY <2>1, <1>1, EndsAre DEF Kept, Chains
  <2> QED
    BY <2>1, <2>2, HostsAre DEF Peers, Preserved
<1>4. CASE \/ Served(FamilyOf(v, input.api), "channel", {"tcp"}, p)
           \/ Served(FamilyOf(v, dns), "dns", {"udp", "tcp"}, p)
           \/ Metadata(p)
  BY <1>1, <1>4 DEF Served, Metadata, FamilyOf, Known, dns
<1>5. Passes(BuildRuleset(v, input.nets, input.api, dns), p)
  BY DEF RulesOf, p, dns
<1>6. LetThrough(v, input.nets, input.api, dns, p)
  BY <1>1, <1>5, RulesetPasses
<1>7. \/ \/ Dhcp(p)
         \/ p.chain = "in" /\ p.proto = "icmp" /\ p.state = "related"
         \/ p.chain \in {"in", "out"} /\ p.proto = "neighbour"
      \/ \E net \in input.nets : FamilyOf(v, net) # {} /\ Kept(net, p)
      \/ \/ Served(FamilyOf(v, input.api), "channel", {"tcp"}, p)
         \/ Served(FamilyOf(v, dns), "dns", {"udp", "tcp"}, p)
         \/ Metadata(p)
  BY <1>6 DEF LetThrough
<1> QED
  BY <1>2, <1>3, <1>4, <1>7

(* A preserved peer passes by the rule of its network, in its direction.    *)
LEMMA PreservedPasses ==
  ASSUME NEW v \in Versions, NEW chain \in Chains, NEW ends \in Ends(v, chain),
         NEW c \in Contents, Peers(v, ends) \cap Preserved # {}
  PROVE  Passes(RulesOf(v), Packet(chain, ends, c))
<1> DEFINE p == Packet(chain, ends, c)
<1>1. p.chain = chain /\ p.lo = FALSE /\ p.src = ends[1] /\ p.dst = ends[2]
  BY DEF Packet
<1> HIDE DEF p
<1>2. PICK host : /\ host \in Preserved /\ host # Here(v)
                  /\ host = ends[1] \/ host = ends[2]
  BY DEF Peers
<1>3. PICK net \in input.nets : host \in net
  BY <1>2 DEF Preserved
<1>4. host.version = v /\ Kept(net, p)
  BY <1>1, <1>2, <1>3, EndsAre, HostsAre DEF Kept, Chains
<1>5. FamilyOf(v, net) # {}
  BY <1>3, <1>4 DEF FamilyOf
<1>6. LetThrough(v, input.nets, input.api, Resolvers(input.files), p)
  BY <1>3, <1>4, <1>5 DEF LetThrough
<1> QED
  BY <1>1, <1>6, RulesetPasses DEF RulesOf, p

(* What may go out may be answered.                                        *)
LEMMA RepliesPass ==
  ASSUME NEW v \in Versions, NEW ends \in Ends(v, "out"), NEW c \in Contents,
         Passes(RulesOf(v), Packet("out", ends, c))
  PROVE  Passes(RulesOf(v), Reply(Packet("out", ends, c)))
<1> DEFINE p == Packet("out", ends, c)
           r == Reply(p)
           dns == Resolvers(input.files)
<1>1. /\ p.chain = "out" /\ p.lo = FALSE /\ p.src = ends[1] /\ p.dst = ends[2]
      /\ p.proto = c.proto /\ p.sport = c.sport /\ p.dport = c.dport /\ p.state = c.state
      /\ r.chain = "in" /\ r.lo = FALSE /\ r.src = ends[2] /\ r.dst = ends[1]
      /\ r.proto = c.proto /\ r.sport = c.dport /\ r.dport = c.sport
      /\ r.state = "established"
  BY DEF Packet, Reply
<1>2. Passes(BuildRuleset(v, input.nets, input.api, dns), p)
  BY DEF RulesOf
<1> HIDE DEF p, r, dns
<1>3. /\ Dhcp(p) => Dhcp(r)
      /\ \A net : Kept(net, p) => Kept(net, r)
      /\ \A hosts, port, protos : Served(hosts, port, protos, p) => Served(hosts, port, protos, r)
      /\ Metadata(p) => Metadata(r)
  BY <1>1 DEF Dhcp, Kept, Served, Metadata
<1>4. LetThrough(v, input.nets, input.api, dns, p)
  BY <1>1, <1>2, RulesetPasses
<1>5. LetThrough(v, input.nets, input.api, dns, r)
  BY <1>1, <1>3, <1>4 DEF LetThrough
<1>6. Passes(BuildRuleset(v, input.nets, input.api, dns), r)
  BY <1>1, <1>5, RulesetPasses
<1> QED
  BY <1>6 DEF RulesOf, r, p, dns

LEMMA ChannelPasses ==
  ASSUME NEW v \in Versions, NEW host \in input.api, host.version = v
  PROVE  Passes(RulesOf(v), Packet("out", <<Here(v), host>>,
             [proto |-> "tcp", sport |-> "ssh", dport |-> "channel", state |-> "new"]))
<1> DEFINE c == [proto |-> "tcp", sport |-> "ssh", dport |-> "channel", state |-> "new"]
           p == Packet("out", <<Here(v), host>>, c)
<1>1. p.chain = "out" /\ p.lo = FALSE /\ p.dst = host /\ p.proto = "tcp" /\ p.dport = "channel"
  BY DEF Packet
<1> HIDE DEF p
<1>2. Served(FamilyOf(v, input.api), "channel", {"tcp"}, p)
  BY <1>1 DEF Served, FamilyOf
<1>3. LetThrough(v, input.nets, input.api, Resolvers(input.files), p)
  BY <1>2 DEF LetThrough
<1> QED
  BY <1>1, <1>3, RulesetPasses DEF RulesOf, p

LEMMA IsolationStep ==
  ASSUME IsolationInv, [Next]_vars
  PROVE  IsolationInv'
<1>1. CASE BuildRules
  <2>1. stage' = "loaded" => result' = [v \in Versions |-> RulesOf(v)]
    BY <1>1 DEF BuildRules, RulesOf
  <2>2. input' = input
    BY <1>1 DEF BuildRules
  <2> QED
    BY <2>1, <2>2 DEF IsolationInv, RulesOf
<1>2. CASE Judge \/ CarryOut \/ Lift \/ CollectPorts \/ ParseLine
  BY <1>2 DEF IsolationInv, Judge, CarryOut, Lift, CollectPorts, ParseLine
<1>3. CASE UNCHANGED vars
  BY <1>3 DEF IsolationInv, RulesOf, vars
<1> QED
  BY <1>1, <1>2, <1>3 DEF Next

(* An isolation cuts what it must and leaves what it must (isolation.py      *)
(* lines 8-16), packet by packet, for any preserved networks, addresses of    *)
(* the API, resolvers and names, in each family.                            *)
THEOREM IsolationLeavesWhatItMustHolds == Spec => []IsolationLeavesWhatItMust
<1>1. Init => IsolationInv
  BY DEF Init, IsolationInv
<1>2. IsolationInv => IsolationLeavesWhatItMust
  <2> SUFFICES ASSUME IsolationInv, stage = "loaded", NEW v \in Versions
               PROVE  StrangersCut(result[v], v) /\ WhatIsKeptWorks(result[v], v)
    BY DEF IsolationLeavesWhatItMust
  <2>1. result[v] = RulesOf(v)
    BY DEF IsolationInv
  <2>2. WhatIsKeptWorks(RulesOf(v), v)
    BY PreservedPasses, RepliesPass, ChannelPasses DEF WhatIsKeptWorks
  <2> QED
    BY <2>1, <2>2, StrangersAreCut
<1> QED
  BY <1>1, <1>2, IsolationStep, PTL DEF Spec

-----------------------------------------------------------------------------
(* The parsers.  FirstOf gives the value of the first condition that holds.  *)
LEMMA LeastOf ==
  ASSUME NEW S \in SUBSET Nat, S # {}
  PROVE  \E n \in S : \A m \in S : n <= m
<1>1. PICK n \in S : \A m \in S : ~ (<<m, n>> \in OpToRel(<, Nat))
  BY NatLessThanWellFounded, WFMin
<1>2. \A m \in S : ~ (m < n)
  BY <1>1 DEF OpToRel
<1> QED
  BY <1>2

LEMMA FirstOfIs ==
  ASSUME NEW list, NEW default, NEW n \in Nat, DOMAIN list = 1 .. n
  PROVE  \/ FirstOf(list, default) = default /\ \A i \in 1 .. n : ~list[i][1]
         \/ \E i \in 1 .. n : /\ list[i][1] /\ FirstOf(list, default) = list[i][2]
                              /\ \A j \in 1 .. n : list[j][1] => i <= j
<1> DEFINE held == {i \in DOMAIN list : list[i][1]}
           first == CHOOSE i \in held : \A j \in held : i <= j
<1>1. CASE held = {}
  BY <1>1 DEF FirstOf
<1>2. CASE held # {}
  <2>1. \E i \in held : \A j \in held : i <= j
    <3>1. held \in SUBSET Nat
      OBVIOUS
    <3> HIDE DEF held
    <3> QED
      BY <1>2, <3>1, LeastOf
  <2>2. first \in held /\ \A j \in held : first <= j
    BY <2>1
  <2>3. FirstOf(list, default) = list[first][2]
    BY <1>2 DEF FirstOf
  <2> HIDE DEF first
  <2> QED
    BY <2>2, <2>3
<1> QED
  BY <1>1, <1>2

LEMMA FirstOfTwo ==
  ASSUME NEW c1 \in BOOLEAN, NEW c2 \in BOOLEAN,
         NEW v1, NEW v2, NEW default
  PROVE  FirstOf(<<<<c1, v1>>, <<c2, v2>>>>, default) =
            IF c1 THEN v1 ELSE IF c2 THEN v2 ELSE default
<1> DEFINE l == <<<<c1, v1>>, <<c2, v2>>>>
<1>1. DOMAIN l = 1 .. 2 /\ 2 \in Nat
  OBVIOUS
<1>2. (l[1][1] <=> c1) /\ (l[2][1] <=> c2)
  OBVIOUS
<1>3. l[1][2] = v1 /\ l[2][2] = v2
  OBVIOUS
<1> HIDE DEF l
<1>4. \A i \in 1 .. 2 : i = 1 \/ i = 2
  OBVIOUS
<1>5. \/ FirstOf(l, default) = default /\ \A i \in 1 .. 2 : ~l[i][1]
      \/ \E i \in 1 .. 2 : /\ l[i][1] /\ FirstOf(l, default) = l[i][2]
                           /\ \A j \in 1 .. 2 : l[j][1] => i <= j
  BY <1>1, FirstOfIs
<1>6. FirstOf(l, default) =
        IF c1 THEN v1 ELSE IF c2 THEN v2 ELSE default
  BY <1>2, <1>3, <1>4, <1>5
<1> QED
  BY <1>6 DEF l

LEMMA FirstOfThree ==
  ASSUME NEW c1 \in BOOLEAN, NEW c2 \in BOOLEAN, NEW c3 \in BOOLEAN,
         NEW v1, NEW v2, NEW v3, NEW default
  PROVE  FirstOf(<<<<c1, v1>>, <<c2, v2>>, <<c3, v3>>>>, default) =
            IF c1 THEN v1 ELSE IF c2 THEN v2 ELSE IF c3 THEN v3 ELSE default
<1> DEFINE l == <<<<c1, v1>>, <<c2, v2>>, <<c3, v3>>>>
<1>1. DOMAIN l = 1 .. 3 /\ 3 \in Nat
  OBVIOUS
<1>2. (l[1][1] <=> c1) /\ (l[2][1] <=> c2) /\ (l[3][1] <=> c3)
  OBVIOUS
<1>3. l[1][2] = v1 /\ l[2][2] = v2 /\ l[3][2] = v3
  OBVIOUS
<1> HIDE DEF l
<1>4. \A i \in 1 .. 3 : i = 1 \/ i = 2 \/ i = 3
  OBVIOUS
<1>5. \/ FirstOf(l, default) = default /\ \A i \in 1 .. 3 : ~l[i][1]
      \/ \E i \in 1 .. 3 : /\ l[i][1] /\ FirstOf(l, default) = l[i][2]
                           /\ \A j \in 1 .. 3 : l[j][1] => i <= j
  BY <1>1, FirstOfIs
<1>6. FirstOf(l, default) =
        IF c1 THEN v1 ELSE IF c2 THEN v2 ELSE IF c3 THEN v3 ELSE default
  BY <1>2, <1>3, <1>4, <1>5
<1> QED
  BY <1>6 DEF l

LEMMA FirstOfFive ==
  ASSUME NEW c1 \in BOOLEAN, NEW c2 \in BOOLEAN, NEW c3 \in BOOLEAN,
         NEW c4 \in BOOLEAN, NEW c5 \in BOOLEAN,
         NEW v1, NEW v2, NEW v3, NEW v4, NEW v5, NEW default
  PROVE  FirstOf(<<<<c1, v1>>, <<c2, v2>>, <<c3, v3>>, <<c4, v4>>, <<c5, v5>>>>, default) =
            IF c1 THEN v1 ELSE IF c2 THEN v2 ELSE IF c3 THEN v3
            ELSE IF c4 THEN v4 ELSE IF c5 THEN v5 ELSE default
<1> DEFINE l == <<<<c1, v1>>, <<c2, v2>>, <<c3, v3>>, <<c4, v4>>, <<c5, v5>>>>
<1>1. DOMAIN l = 1 .. 5 /\ 5 \in Nat
  OBVIOUS
<1>2. /\ (l[1][1] <=> c1) /\ (l[2][1] <=> c2) /\ (l[3][1] <=> c3)
      /\ (l[4][1] <=> c4) /\ (l[5][1] <=> c5)
  OBVIOUS
<1>3. l[1][2] = v1 /\ l[2][2] = v2 /\ l[3][2] = v3 /\ l[4][2] = v4 /\ l[5][2] = v5
  OBVIOUS
<1> HIDE DEF l
<1>4. \A i \in 1 .. 5 : i = 1 \/ i = 2 \/ i = 3 \/ i = 4 \/ i = 5
  OBVIOUS
<1>5. \/ FirstOf(l, default) = default /\ \A i \in 1 .. 5 : ~l[i][1]
      \/ \E i \in 1 .. 5 : /\ l[i][1] /\ FirstOf(l, default) = l[i][2]
                           /\ \A j \in 1 .. 5 : l[j][1] => i <= j
  BY <1>1, FirstOfIs
<1>6. FirstOf(l, default) =
        IF c1 THEN v1 ELSE IF c2 THEN v2 ELSE IF c3 THEN v3
            ELSE IF c4 THEN v4 ELSE IF c5 THEN v5 ELSE default
  BY <1>2, <1>3, <1>4, <1>5
<1> QED
  BY <1>6 DEF l

-----------------------------------------------------------------------------
(* The severity of a request.                                              *)
LEMMA AccessSeverity ==
  ASSUME NEW status \in Int
  PROVE  Access(status)[1] = DocumentedStatus(status)
<1> DEFINE c1 == status \in {401, 403}
           c2 == status = 404
           c3 == status = 444
           c4 == status \in 500 .. 599
           c5 == status \in 400 .. 499
           v1 == <<"high", "access_denied">>
           v2 == <<"low", "404">>
           v3 == <<"high", "conn_closed">>
           v4 == <<"high", "5xx">>
           v5 == <<"medium", "4xx">>
           other == <<"info", "access">>
<1>1. /\ c1 \in BOOLEAN /\ c2 \in BOOLEAN /\ c3 \in BOOLEAN
      /\ c4 \in BOOLEAN /\ c5 \in BOOLEAN
  OBVIOUS
<1>2. Access(status) =
        FirstOf(<<<<c1, v1>>, <<c2, v2>>, <<c3, v3>>, <<c4, v4>>, <<c5, v5>>>>, other)
  BY DEF Access
<1> HIDE DEF c1, c2, c3, c4, c5, v1, v2, v3, v4, v5, other
<1>3. Access(status) =
        IF c1 THEN v1 ELSE IF c2 THEN v2 ELSE IF c3 THEN v3 ELSE IF c4 THEN v4
        ELSE IF c5 THEN v5 ELSE other
  BY <1>1, <1>2, FirstOfFive
<1>4. /\ v1[1] = "high" /\ v2[1] = "low" /\ v3[1] = "high" /\ v4[1] = "high"
      /\ v5[1] = "medium" /\ other[1] = "info"
  BY DEF v1, v2, v3, v4, v5, other
<1> QED
  BY <1>3, <1>4 DEF c1, c2, c3, c4, c5, DocumentedStatus

LEMMA WebEventIs ==
  ASSUME NEW fields, NEW status \in Int
  PROVE  /\ WebEvent(fields, status).fields = fields
         /\ WebEvent(fields, status).severity =
               IF "parse_failed" \in fields \/ "status" \notin fields THEN "info"
               ELSE DocumentedStatus(status)
<1>1. DocumentedStatus(0) = "info"
  BY DEF DocumentedStatus
<1>2. CASE "parse_failed" \in fields
  BY <1>2 DEF WebEvent, Event
<1>3. CASE "parse_failed" \notin fields
  <2> DEFINE access == Access(IF "status" \in fields THEN status ELSE 0)
  <2>1. WebEvent(fields, status) = Event(access[1], access[2], fields)
    BY <1>3 DEF WebEvent
  <2>2. access[1] = IF "status" \in fields THEN DocumentedStatus(status) ELSE "info"
    BY <1>1, AccessSeverity
  <2> HIDE DEF access
  <2> QED
    BY <1>3, <2>1, <2>2 DEF Event
<1> QED
  BY <1>2, <1>3

(* The marks of a set of fields that the properties look at.                *)
Marks(fields, failed, status) ==
    ("parse_failed" \in fields <=> failed) /\ ("status" \in fields <=> status)

LEMMA LayoutMarks ==
  ASSUME NEW line
  PROVE  /\ Marks(CombinedFields(line), FALSE, TRUE) /\ Marks(CommonFields(line), FALSE, TRUE)
         /\ Marks(LooseFields, FALSE, TRUE) /\ Marks(Failed, TRUE, FALSE)
BY DEF Marks, CombinedFields, CommonFields, LooseFields, Failed, Base

LEMMA NginxFieldsAre ==
  ASSUME NEW line \in WebLines
  PROVE  Marks(NginxFields(line), line.cut, ~line.cut)
<1> DEFINE c1 == IsCombined(line)
           c2 == IsLoose(line)
<1>1. c1 \in BOOLEAN /\ c2 \in BOOLEAN
  BY DEF IsCombined, IsLoose
<1>2. NginxFields(line) =
        FirstOf(<<<<c1, CombinedFields(line)>>, <<c2, LooseFields>>>>, Failed)
  BY DEF NginxFields
<1>3. (c1 \/ c2) <=> ~line.cut
  BY DEF IsCombined, IsLoose
<1> HIDE DEF c1, c2
<1>4. NginxFields(line) = IF c1 THEN CombinedFields(line) ELSE IF c2 THEN LooseFields ELSE Failed
  BY <1>1, <1>2, FirstOfTwo
<1> QED
  BY <1>3, <1>4, LayoutMarks DEF Marks

LEMMA ApacheFieldsAre ==
  ASSUME NEW line \in WebLines
  PROVE  LET failed == line.cut \/ (line.format = "common" /\ ~line.request)
         IN  Marks(ApacheFields(line), failed, ~failed)
<1> DEFINE c1 == IsCombined(line)
           c2 == IsCommon(line)
           c3 == IsLoose(line)
<1>1. c1 \in BOOLEAN /\ c2 \in BOOLEAN /\ c3 \in BOOLEAN
  BY DEF IsCombined, IsCommon, IsLoose
<1>2. ApacheFields(line) =
        IF line.format = "common"
        THEN FirstOf(<<<<c2, CommonFields(line)>>, <<c1, CombinedFields(line)>>>>, Failed)
        ELSE FirstOf(<<<<c1, CombinedFields(line)>>, <<c2, CommonFields(line)>>,
                       <<c3, LooseFields>>>>, Failed)
  BY DEF ApacheFields
<1>3. /\ (c1 \/ c2) <=> ~line.cut /\ line.request
      /\ (c1 \/ c2 \/ c3) <=> ~line.cut
  BY DEF IsCombined, IsCommon, IsLoose, WebLines
<1> HIDE DEF c1, c2, c3
<1>4. CASE line.format = "common"
  <2>1. ApacheFields(line) =
          IF c2 THEN CommonFields(line) ELSE IF c1 THEN CombinedFields(line) ELSE Failed
    BY <1>1, <1>2, <1>4, FirstOfTwo
  <2> QED
    BY <1>3, <1>4, <2>1, LayoutMarks DEF Marks
<1>5. CASE line.format # "common"
  <2>1. ApacheFields(line) =
          IF c1 THEN CombinedFields(line) ELSE IF c2 THEN CommonFields(line)
          ELSE IF c3 THEN LooseFields ELSE Failed
    BY <1>1, <1>2, <1>5, FirstOfThree
  <2> QED
    BY <1>3, <1>5, <2>1, LayoutMarks DEF Marks
<1> QED
  BY <1>4, <1>5

LEMMA IisIs ==
  ASSUME NEW line \in IisLines
  PROVE  /\ Iis(line).severity = IF "status" \in Iis(line).fields
                                 THEN DocumentedStatus(line.status) ELSE "info"
         /\ "parse_failed" \in Iis(line).fields => Iis(line).severity = "info"
<1>1. line.status \in Int
  BY ParsersAssumption DEF IisLines
<1>2. CASE line.comment
  BY <1>2 DEF Iis, Event
<1>3. CASE ~line.comment
  <2>1. Iis(line) = WebEvent(IisFields(line), line.status)
    BY <1>3 DEF Iis
  <2>2. "parse_failed" \in IisFields(line) => "status" \notin IisFields(line)
    BY DEF IisFields, Failed
  <2> QED
    BY <1>1, <2>1, <2>2, WebEventIs
<1> QED
  BY <1>2, <1>3

LEMMA WebIs ==
  ASSUME NEW line \in WebLines, NEW event \in {Nginx(line), Apache(line)}
  PROVE  /\ event.severity = IF line.cut \/ "parse_failed" \in event.fields THEN "info"
                             ELSE DocumentedStatus(line.status)
         /\ "parse_failed" \in event.fields =>
               line.cut \/ (line.format = "common" /\ ~line.request)
<1>1. line.status \in Int
  BY ParsersAssumption DEF WebLines
<1>2. CASE event = Nginx(line)
  <2>1. event = WebEvent(NginxFields(line), line.status)
    BY <1>2 DEF Nginx
  <2> QED
    BY <1>1, <2>1, WebEventIs, NginxFieldsAre DEF Marks
<1>3. CASE event = Apache(line)
  <2>1. event = WebEvent(ApacheFields(line), line.status)
    BY <1>3 DEF Apache
  <2> QED
    BY <1>1, <2>1, WebEventIs, ApacheFieldsAre DEF Marks
<1> QED
  BY <1>2, <1>3

LEMMA DocumentedIsSeverity ==
  ASSUME NEW status
  PROVE  DocumentedStatus(status) \in Severities
BY DEF DocumentedStatus, Severities

-----------------------------------------------------------------------------
(* The other logs.                                                         *)
LEMMA FirstOfSeverity ==
  ASSUME NEW list, NEW default, NEW n \in Nat, DOMAIN list = 1 .. n,
         \A i \in 1 .. n : list[i][2][1] \in Severities, default[1] \in Severities
  PROVE  FirstOf(list, default)[1] \in Severities
BY FirstOfIs

LEMMA ErrorIs ==
  ASSUME NEW line
  PROVE  /\ NginxError(line).severity \in Severities
         /\ "parse_failed" \in NginxError(line).fields => NginxError(line).severity = "info"
         /\ NginxError(line).severity =
               IF line.matches THEN DocumentedLevel(line.level) ELSE "info"
<1>1. /\ ErrorSeverity(line.level) \in Severities
      /\ ErrorSeverity(line.level) = DocumentedLevel(line.level)
  BY DEF ErrorSeverity, DocumentedLevel, Severities
<1>2. CASE ~line.matches
  BY <1>2 DEF NginxError, Event, Failed, Severities
<1>3. CASE line.matches
  BY <1>1, <1>3 DEF NginxError, Event
<1> QED
  BY <1>2, <1>3

LEMMA FirewallIs ==
  ASSUME NEW marks
  PROVE  /\ Firewall(marks).severity \in Severities
         /\ "parse_failed" \notin Firewall(marks).fields
         /\ Stopped \cap marks # {} =>
               /\ Firewall(marks).severity = "low"
               /\ {"event_kind", "action", "src_ip"} \subseteq Firewall(marks).fields
<1>1. /\ Firewall(marks).severity \in Severities
      /\ "parse_failed" \notin Firewall(marks).fields
  BY DEF Firewall, Event, Severities
<1>2. ASSUME Stopped \cap marks # {}
      PROVE  FirewallAction(marks) # "none"
  <2> DEFINE list == <<
           <<"UFW BLOCK" \in marks, "BLOCK">>, <<"UFW AUDIT" \in marks, "AUDIT">>,
           <<"DROP" \in marks, "DROP">>, <<"DENY" \in marks, "DENY">>,
           <<"REJECT" \in marks, "REJECT">>, <<"iptables denied" \in marks, "DROP">>,
           <<"nft drop or reject" \in marks, "DROP">>,
           <<{"SRC=", "DPT="} \subseteq marks, "BLOCK">>>>
  <2>1. FirewallAction(marks) = FirstOf(list, "none")
    BY DEF FirewallAction
  <2>2. DOMAIN list = 1 .. 8 /\ 8 \in Nat
    OBVIOUS
  <2>3. /\ list[1][1] <=> "UFW BLOCK" \in marks
        /\ list[3][1] <=> "DROP" \in marks
        /\ list[4][1] <=> "DENY" \in marks
        /\ list[5][1] <=> "REJECT" \in marks
        /\ list[6][1] <=> "iptables denied" \in marks
        /\ list[7][1] <=> "nft drop or reject" \in marks
    OBVIOUS
  <2>4. /\ list[1][2] = "BLOCK" /\ list[2][2] = "AUDIT" /\ list[3][2] = "DROP"
        /\ list[4][2] = "DENY" /\ list[5][2] = "REJECT" /\ list[6][2] = "DROP"
        /\ list[7][2] = "DROP" /\ list[8][2] = "BLOCK"
    OBVIOUS
  <2> HIDE DEF list
  <2>5. \E i \in 1 .. 8 : list[i][1]
    <3>1. \/ list[1][1] \/ list[3][1] \/ list[4][1] \/ list[5][1] \/ list[6][1]
          \/ list[7][1]
      BY <1>2, <2>3, Zenon DEF Stopped
    <3>2. {1, 3, 4, 5, 6, 7} \subseteq 1 .. 8
      OBVIOUS
    <3> QED
      BY <3>1, <3>2
  <2>6. \E i \in 1 .. 8 : FirstOf(list, "none") = list[i][2]
    BY <2>2, <2>5, FirstOfIs
  <2>7. \A i \in 1 .. 8 : list[i][2] # "none"
    BY <2>4
  <2> QED
    BY <2>1, <2>6, <2>7
<1>3. ASSUME Stopped \cap marks # {}
      PROVE  /\ Firewall(marks).severity = "low"
             /\ {"event_kind", "action", "src_ip"} \subseteq Firewall(marks).fields
  BY <1>2, <1>3 DEF Firewall, Event
<1> QED
  BY <1>1, <1>3

LEMMA SyslogIs ==
  ASSUME NEW marks
  PROVE  /\ Syslog(marks).severity \in Severities /\ Syslog(marks).fields = {}
         /\ AuthenticationFailed(marks) => Syslog(marks).severity = "high"
         /\ {"[preauth]", "connection closed"} \subseteq marks =>
               Syslog(marks).severity \in {"medium", "high"}
<1> DEFINE list == <<
             <<{"failed password"} \subseteq marks, <<"high", "ssh_failed_login">>>>,
             <<{"authentication failure"} \subseteq marks, <<"high", "auth_failure">>>>,
             <<{"invalid user"} \subseteq marks, <<"high", "invalid_user">>>>,
             <<{"[preauth]", "connection closed"} \subseteq marks,
               <<"medium", "ssh_preauth_disconnect">>>>,
             <<{"pam_unix(sshd:auth)", "user unknown"} \subseteq marks, <<"high", "invalid_user">>>>,
             <<{"accepted"} \subseteq marks, <<"medium", "ssh_login_success">>>>,
             <<{"sudo:", "command="} \subseteq marks, <<"medium", "sudo_command">>>>,
             <<{"session opened"} \subseteq marks, <<"info", "session_opened">>>>,
             <<{"session closed"} \subseteq marks, <<"info", "session_closed">>>>,
             <<{"error"} \subseteq marks \/ {"critical"} \subseteq marks,
               <<"medium", "system_error">>>> >>
           other == <<"info", "">>
<1>1. DOMAIN list = 1 .. 10 /\ 10 \in Nat
  OBVIOUS
<1>2. /\ list[1][1] <=> {"failed password"} \subseteq marks
      /\ list[2][1] <=> {"authentication failure"} \subseteq marks
      /\ list[3][1] <=> {"invalid user"} \subseteq marks
      /\ list[4][1] <=> {"[preauth]", "connection closed"} \subseteq marks
      /\ list[5][1] <=> {"pam_unix(sshd:auth)", "user unknown"} \subseteq marks
  OBVIOUS
<1>3. /\ list[1][2][1] = "high" /\ list[2][2][1] = "high" /\ list[3][2][1] = "high"
      /\ list[4][2][1] = "medium" /\ list[5][2][1] = "high"
  OBVIOUS
<1>4. other[1] \in Severities /\ \A i \in 1 .. 10 : list[i][2][1] \in Severities
  <2>1. /\ list[6][2][1] = "medium" /\ list[7][2][1] = "medium" /\ list[8][2][1] = "info"
        /\ list[9][2][1] = "info" /\ list[10][2][1] = "medium" /\ other[1] = "info"
    OBVIOUS
  <2> HIDE DEF list, other
  <2> QED
    BY <1>3, <2>1 DEF Severities
<1>5. Syslog(marks) = Event(FirstOf(list, other)[1], FirstOf(list, other)[2], {})
  BY DEF Syslog
<1> HIDE DEF list, other
<1>6. FirstOf(list, other)[1] \in Severities
  BY <1>1, <1>4, FirstOfSeverity
<1>7. \/ FirstOf(list, other) = other /\ \A i \in 1 .. 10 : ~list[i][1]
      \/ \E i \in 1 .. 10 : /\ list[i][1] /\ FirstOf(list, other) = list[i][2]
                            /\ \A j \in 1 .. 10 : list[j][1] => i <= j
  BY <1>1, FirstOfIs
<1>8. ASSUME AuthenticationFailed(marks) PROVE FirstOf(list, other)[1] = "high"
  <2>1. CASE list[1][1] \/ list[2][1] \/ list[3][1]
    <3>1. \A i \in 1 .. 10 : i <= 3 => i = 1 \/ i = 2 \/ i = 3
      OBVIOUS
    <3> QED
      BY <1>3, <1>7, <2>1, <3>1
  <2>2. CASE ~list[1][1] /\ ~list[2][1] /\ ~list[3][1]
    <3>1. list[5][1] /\ ~list[4][1]
      BY <1>2, <1>8, <2>2 DEF AuthenticationFailed
    <3>2. \A i \in 1 .. 10 : i <= 5 => i = 1 \/ i = 2 \/ i = 3 \/ i = 4 \/ i = 5
      OBVIOUS
    <3> QED
      BY <1>3, <1>7, <2>2, <3>1, <3>2
  <2> QED
    BY <2>1, <2>2
<1>9. ASSUME {"[preauth]", "connection closed"} \subseteq marks
      PROVE  FirstOf(list, other)[1] \in {"medium", "high"}
  <2>1. list[4][1]
    BY <1>2, <1>9
  <2>2. \A i \in 1 .. 10 : i <= 4 => i = 1 \/ i = 2 \/ i = 3 \/ i = 4
    OBVIOUS
  <2> QED
    BY <1>3, <1>7, <2>1, <2>2
<1>10. /\ Syslog(marks).severity = FirstOf(list, other)[1]
       /\ Syslog(marks).fields = {}
  BY <1>5 DEF Event
<1> QED
  BY <1>6, <1>8, <1>9, <1>10

LEMMA WindowsTypeIs ==
  ASSUME NEW id \in Int, NEW level
  PROVE  /\ WindowsType(id, level)[1] \in Severities
         /\ id = 0 /\ level = "Information" => WindowsType(id, level)[1] = "info"
         /\ id = 4625 => WindowsType(id, level)[1] = "high"
<1> DEFINE c1 == id = 4624
           c2 == id = 4625
           c3 == id = 4634
           c4 == id = 4732
           c5 == id = 1102
           c6 == id = 1006
           c7 == level = "Critical"
           c8 == level = "Error"
           c9 == level = "Warning"
           list == <<<<c1, <<"medium", "windows_logon_success">>>>,
                     <<c2, <<"high", "windows_logon_failed">>>>,
                     <<c3, <<"info", "windows_logoff">>>>,
                     <<c4, <<"high", "windows_user_added_to_local">>>>,
                     <<c5, <<"critical", "windows_audit_log_cleared">>>>,
                     <<c6, <<"critical", "windows_malware_detected">>>>,
                     <<c7, <<"critical", "windows_unknown">>>>,
                     <<c8, <<"high", "windows_unknown">>>>,
                     <<c9, <<"medium", "windows_unknown">>>>>>
           other == <<"info", "windows_unknown">>
<1>1. WindowsType(id, level) = FirstOf(list, other)
  BY DEF WindowsType
<1>2. id = 0 /\ level = "Information" =>
        ~(c1 \/ c2 \/ c3 \/ c4 \/ c5 \/ c6 \/ c7 \/ c8 \/ c9)
  OBVIOUS
<1>9. id = 4625 => c2 /\ ~c1
  OBVIOUS
<1>3. /\ c1 \in BOOLEAN /\ c2 \in BOOLEAN /\ c3 \in BOOLEAN
      /\ c4 \in BOOLEAN /\ c5 \in BOOLEAN /\ c6 \in BOOLEAN
      /\ c7 \in BOOLEAN /\ c8 \in BOOLEAN /\ c9 \in BOOLEAN
  OBVIOUS
<1> HIDE DEF c1, c2, c3, c4, c5, c6, c7, c8, c9
<1>4. DOMAIN list = 1 .. 9 /\ 9 \in Nat
  OBVIOUS
<1>5. /\ (list[1][1] <=> c1) /\ (list[2][1] <=> c2) /\ (list[3][1] <=> c3)
      /\ (list[4][1] <=> c4) /\ (list[5][1] <=> c5) /\ (list[6][1] <=> c6)
      /\ (list[7][1] <=> c7) /\ (list[8][1] <=> c8) /\ (list[9][1] <=> c9)
  BY <1>3
<1>6. /\ list[1][2][1] = "medium" /\ list[2][2][1] = "high" /\ list[3][2][1] = "info"
      /\ list[4][2][1] = "high" /\ list[5][2][1] = "critical" /\ list[6][2][1] = "critical"
      /\ list[7][2][1] = "critical" /\ list[8][2][1] = "high" /\ list[9][2][1] = "medium"
      /\ other[1] = "info"
  OBVIOUS
<1> HIDE DEF list, other
<1>7. other[1] \in Severities /\ \A i \in 1 .. 9 : list[i][2][1] \in Severities
  BY <1>6 DEF Severities
<1>8. ASSUME id = 0, level = "Information" PROVE FirstOf(list, other) = other
  <2>1. \A i \in 1 .. 9 : ~list[i][1]
    BY <1>2, <1>5, <1>8
  <2> QED
    BY <1>4, <2>1, FirstOfIs
<1>10. ASSUME id = 4625 PROVE FirstOf(list, other) = list[2][2]
  <2>1. list[2][1] /\ ~list[1][1]
    BY <1>5, <1>9, <1>10
  <2>2. \A i \in 1 .. 9 : i <= 2 => i = 1 \/ i = 2
    OBVIOUS
  <2>3. 2 \in 1 .. 9
    OBVIOUS
  <2>4. \/ FirstOf(list, other) = other /\ \A i \in 1 .. 9 : ~list[i][1]
        \/ \E i \in 1 .. 9 : /\ list[i][1] /\ FirstOf(list, other) = list[i][2]
                             /\ \A j \in 1 .. 9 : list[j][1] => i <= j
    BY <1>4, FirstOfIs
  <2> QED
    BY <2>1, <2>2, <2>3, <2>4
<1>11. WindowsType(id, level)[1] \in Severities
  BY <1>1, <1>4, <1>7, FirstOfSeverity
<1>12. id = 0 /\ level = "Information" => WindowsType(id, level)[1] = "info"
  BY <1>1, <1>6, <1>8
<1>13. id = 4625 => WindowsType(id, level)[1] = "high"
  BY <1>1, <1>6, <1>10
<1> QED
  BY <1>11, <1>12, <1>13

LEMMA WindowsIs ==
  ASSUME NEW xml \in XmlLines
  PROVE  /\ Windows(xml).severity \in Severities /\ "parse_failed" \notin Windows(xml).fields
         /\ ~xml.valid => Windows(xml).severity = "info"
         /\ xml.valid /\ xml.id = 4625 => Windows(xml).severity = "high"
<1> DEFINE json == Json(xml)
<1>1. "parse_failed" \notin json.data /\ json.id \in Int
  <2>1. xml.data \in SUBSET EventData /\ xml.id \in EventIds
    BY DEF XmlLines
  <2>2. xml.id \in Int
    BY <2>1, ParsersAssumption
  <2>3. "parse_failed" \notin xml.data
    BY <2>1 DEF EventData
  <2>4. CASE xml.valid
    <3>1. json.data = xml.data /\ json.id = xml.id
      BY <2>4 DEF Json
    <3> QED
      BY <2>2, <2>3, <3>1
  <2>5. CASE ~xml.valid
    BY <2>5 DEF Json
  <2> QED
    BY <2>4, <2>5
<1>2. /\ ~xml.valid => json.id = 0 /\ json.level = "Information"
      /\ xml.valid => json.id = xml.id
  BY DEF Json
<1>3. /\ Windows(xml).severity = WindowsType(json.id, json.level)[1]
      /\ Windows(xml).fields = WindowsFields(json)
  BY DEF Windows, Event
<1> HIDE DEF json
<1>4. "parse_failed" \notin WindowsFields(json)
  BY <1>1 DEF WindowsFields
<1> QED
  BY <1>1, <1>2, <1>3, <1>4, WindowsTypeIs

-----------------------------------------------------------------------------
LinesInv ==
    /\ kind = "web" => input \in WebLines
    /\ kind = "iis" => input \in IisLines
    /\ kind = "windows" => input \in XmlLines
ReadInv ==
    stage = "parsed" =>
        \/ kind = "web" /\ result \in {Nginx(input), Apache(input)}
        \/ kind = "iis" /\ result = Iis(input)
        \/ kind = "error log" /\ result = NginxError(input)
        \/ kind = "syslog" /\ result = Syslog(input)
        \/ kind = "firewall" /\ result = Firewall(input)
        \/ kind = "windows" /\ result = Windows(input)

LEMMA ReadStep ==
  ASSUME LinesInv, ReadInv, [Next]_vars
  PROVE  LinesInv' /\ ReadInv'
<1>1. LinesInv'
  BY KindsApart DEF LinesInv
<1>2. CASE ParseLine
  <2>1. kind' = kind /\ input' = input
    BY KindsApart
  <2> QED
    BY <1>1, <1>2, <2>1 DEF ReadInv, ParseLine
<1>3. CASE Judge \/ CarryOut \/ Lift \/ CollectPorts \/ BuildRules
  BY <1>1, <1>3 DEF ReadInv, Judge, CarryOut, Lift, CollectPorts, BuildRules
<1>4. CASE UNCHANGED vars
  BY <1>1, <1>4 DEF ReadInv, vars
<1> QED
  BY <1>2, <1>3, <1>4 DEF Next

(* A request or an error that can be read has the severity of its status or   *)
(* its level (nginx.py lines 16-28), a line that cannot raises no alert, and   *)
(* the failures that syslog (linux.py lines 39-60) and Windows (4625) name are  *)
(* high, for any statuses, event IDs, declared columns and lengths of lines.  *)
THEOREM SeverityAsDocumentedHolds == Spec => []SeverityAsDocumented
<1>1. Init => LinesInv /\ ReadInv
  <2> SUFFICES ASSUME Init PROVE LinesInv /\ ReadInv
    OBVIOUS
  <2>1. stage = "received"
    BY DEF Init
  <2>2. kind \in {"web", "iis", "windows"} => InitLine
    BY InitKinds
  <2> QED
    BY <2>1, <2>2 DEF InitLine, LinesInv, ReadInv
<1>2. LinesInv /\ ReadInv => SeverityAsDocumented
  <2>1. stage # "parsed" => SeverityAsDocumented
    BY Zenon DEF SeverityAsDocumented
  <2> SUFFICES ASSUME LinesInv, ReadInv, stage = "parsed"
               PROVE  /\ result.severity \in Severities
                      /\ "parse_failed" \in result.fields => result.severity = "info"
                      /\ RequestsRated /\ ErrorsRated /\ SyslogRated /\ FirewallRated
                      /\ WindowsRated
    BY <2>1 DEF SeverityAsDocumented
  <2>2. /\ kind = "web" => input \in WebLines /\ result \in {Nginx(input), Apache(input)}
        /\ kind = "iis" => input \in IisLines /\ result = Iis(input)
        /\ kind = "error log" => result = NginxError(input)
        /\ kind = "syslog" => result = Syslog(input)
        /\ kind = "firewall" => result = Firewall(input)
        /\ kind = "windows" => input \in XmlLines /\ result = Windows(input)
    BY DEF LinesInv, ReadInv
  <2>3. kind \in {"web", "iis", "error log", "syslog", "firewall", "windows"}
    BY DEF ReadInv
  <2>4. RequestsRated
    BY <2>2, WebIs, IisIs DEF RequestsRated
  <2>5. ErrorsRated
    BY <2>2, ErrorIs DEF ErrorsRated
  <2>6. SyslogRated
    BY <2>2, SyslogIs DEF SyslogRated
  <2>7. FirewallRated
    BY <2>2, FirewallIs DEF FirewallRated
  <2>8. WindowsRated
    <3>1. kind = "windows" /\ ~input.valid => result.severity = "info"
      BY <2>2, WindowsIs
    <3>2. kind = "windows" /\ input.valid /\ input.id = 4625 => result.severity = "high"
      BY <2>2, WindowsIs
    <3> QED
      BY <3>1, <3>2 DEF WindowsRated
  <2>9. "info" \in Severities
    BY DEF Severities
  <2>10. /\ result.severity \in Severities
         /\ "parse_failed" \in result.fields => result.severity = "info"
    <3>1. CASE kind = "web"
      BY <2>2, <2>9, <3>1, WebIs, DocumentedIsSeverity
    <3>2. CASE kind = "iis"
      BY <2>2, <2>9, <3>2, IisIs, DocumentedIsSeverity
    <3>3. CASE kind = "error log"
      BY <2>2, <3>3, ErrorIs
    <3>4. CASE kind = "syslog"
      BY <2>2, <3>4, SyslogIs
    <3>5. CASE kind = "firewall"
      BY <2>2, <3>5, FirewallIs
    <3>6. CASE kind = "windows"
      BY <2>2, <3>6, WindowsIs
    <3> QED
      BY <2>3, <3>1, <3>2, <3>3, <3>4, <3>5, <3>6
  <2> QED
    BY <2>4, <2>5, <2>6, <2>7, <2>8, <2>10
<1> QED
  BY <1>1, <1>2, ReadStep, PTL DEF Spec

=============================================================================
