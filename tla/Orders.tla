------------------------------- MODULE Orders -------------------------------
(***************************************************************************)
(* The controls that an order meets one after the other: the order guard    *)
(* (order_guard.py), then the component that carries it out and checks its   *)
(* entries again: the root unit of the reverse proxy (proxy_apply.py, with   *)
(* proxy_rules.py) or the isolation (isolation.py).                         *)
(*                                                                         *)
(* A text is the set of facts the controls ask of it; a number, a length or  *)
(* a prefix is one of those on each side of a bound.                        *)
(***************************************************************************)
EXTENDS Integers, FiniteSets

CONSTANT Prefixes       \* the lengths of the prefixes of networks

Lifts == [ban_ip |-> "unban_ip", rate_limit_ip |-> "remove_rate_limit",
          block_ip_range |-> "unblock_ip_range",
          block_at_reverse_proxy |-> "unblock_at_reverse_proxy",
          temporary_waf_rule |-> "remove_waf_rule",
          geo_block_country |-> "geo_unblock_country", isolate_host |-> "restore_network"]
Blocks == DOMAIN Lifts
Ranges == {"block_ip_range", "unblock_ip_range"}
Countries == {"geo_block_country", "geo_unblock_country"}
Waf == {"temporary_waf_rule", "remove_waf_rule"}
Hosts == {"isolate_host", "restore_network"}
Allowed == Blocks \cup {Lifts[action] : action \in Blocks}

Signatures == {"v1", "v2", "invalid"}
NoParams == [name \in {} |-> "none"]
MaxPreserved == 64

\* The kinds of an address are those of the address and of the IPv4 address
\* that it maps.
ForbiddenKinds == {"loopback", "multicast", "unspecified", "link_local", "reserved"}
Addresses == [text : {"address"}, kinds : SUBSET (ForbiddenKinds \cup {"private"})]
             \cup [text : {"garbage", "network"}, kinds : {{}}]
MinPrefix(version) == IF version = 4 THEN 24 ELSE 48
Networks == [version : {4, 6}, prefix : Prefixes, hostbits : BOOLEAN,
             internal : BOOLEAN]
\* A rule of the reverse proxy, and whether the key is the digest of both.
WafRules == {"block_path", "block_user_agent", "block_method"}
Values == SUBSET {"path", "agent", "letter", "four letters", "browser", "method", "control"}
Keys == {"own", "other", "garbage"}

-----------------------------------------------------------------------------
(* proxy_rules.py, common to the guard and to the root unit.                *)
WafSafe(rule, value) ==
    \/ rule = "block_path" /\ {"path", "letter"} \subseteq value
    \/ rule = "block_user_agent" /\ {"agent", "four letters"} \subseteq value /\ "browser" \notin value
    \/ rule = "block_method" /\ "method" \in value

-----------------------------------------------------------------------------
(* The order guard.                                                        *)
ParamSpecs(action) ==
    CASE action = "rate_limit_ip" -> {"rate_per_minute", "burst"}
      [] action \in {"block_ip_range", "geo_block_country"} -> {"justification"}
      [] action = "temporary_waf_rule" -> {"rule", "value"}
      [] action = "isolate_host" -> {"justification", "preserve"}
      [] OTHER -> {}

\* _check_cidrs: a list of at most 64 networks, none of them everything.
CidrsAccepted(list) ==
    /\ list.count <= MaxPreserved
    /\ list.valid
    /\ 0 \notin list.prefixes

ValueAccepted(name, value) ==
    CASE name = "rate_per_minute" -> value \in 1 .. 600
      [] name = "burst" -> value \in 1 .. 100
      [] name = "justification" -> value \in 10 .. 500
      [] name = "preserve" -> CidrsAccepted(value)
      [] name = "rule" -> TRUE
      [] name = "value" -> "control" \notin value

\* Mutant: a lift is held to the parameters of the action it lifts.
CheckParamsOfLifts(order) ==
    LET action == IF order.action = "remove_waf_rule" THEN "temporary_waf_rule" ELSE order.action
        names == ParamSpecs(action)
    IN  \/ order.action = "restore_network"
        \/ /\ order.sig = "v2" \/ (DOMAIN order.params = {} /\ names = {})
           /\ DOMAIN order.params = names
           /\ \A name \in names : ValueAccepted(name, order.params[name])
\* check_params: a closed list of signed parameters; a restoration is never
\* refused for its parameters.
CheckParams(order) ==
    LET names == ParamSpecs(order.action) IN
    \/ order.action = "restore_network"
    \/ /\ order.sig = "v2" \/ (DOMAIN order.params = {} /\ names = {})
       /\ DOMAIN order.params = names
       /\ \A name \in names : ValueAccepted(name, order.params[name])

CheckRange(order) ==
    /\ ~order.target.hostbits
    /\ order.target.prefix >= MinPrefix(order.target.version)
    /\ order.action = "unblock_ip_range" \/ ~order.target.internal

CheckProxyTarget(order) ==
    IF order.action \in Countries THEN order.target = "own"
    ELSE /\ order.target \in {"own", "other"}
         /\ order.action = "temporary_waf_rule" =>
                WafSafe(order.params.rule, order.params.value) /\ order.target = "own"

CheckHostTarget(order) == order.target = "own"

CheckIp(order) ==
    CASE order.action \in Hosts -> CheckHostTarget(order)
      [] order.action \in Ranges -> CheckRange(order)
      [] order.action \in Waf \cup Countries -> CheckProxyTarget(order)
      [] OTHER -> order.target.text = "address" /\ order.target.kinds \cap ForbiddenKinds = {}

\* guard_order, but for the expiry and the nonce, which are in Remediation.
Accepts(order) ==
    /\ order.sig \in {"v1", "v2"}
    /\ order.action \in Allowed
    /\ CheckParams(order)
    /\ CheckIp(order)

-----------------------------------------------------------------------------
(* Those that carry the order out.  A signed text has no length of its own   *)
(* there: the lists and the keys are checked again.                         *)

\* validate: an address alone, that may be blocked.
DenyApplicable(target) ==
    target.text = "address"
    /\ target.kinds \cap {"loopback", "unspecified", "multicast", "link_local"} = {}

\* validate_rules: a rule under its own key, a country code.
WafApplicable(key, params) == key = "own" /\ WafSafe(params.rule, params.value)
GeoApplicable(code) == code = "own"

\* parse_preserve: the destinations that an isolation keeps.
PreserveApplicable(list) == list.count <= MaxPreserved /\ list.valid /\ 0 \notin list.prefixes

\* _process_order: a block of an address, or of a range, that an open session
\* comes from is refused; the nonce of the order is spent by then.
\* session: `who` shows a session that comes from the target.
AgainstLockout == {"ban_ip", "rate_limit_ip", "block_ip_range"}

Applicable(order, session) ==
    CASE order.action \in AgainstLockout -> ~session
      [] order.action = "block_at_reverse_proxy" -> DenyApplicable(order.target)
      [] order.action = "temporary_waf_rule" -> WafApplicable(order.target, order.params)
      [] order.action = "geo_block_country" -> GeoApplicable(order.target)
      [] order.action = "isolate_host" -> PreserveApplicable(order.params.preserve)
      [] OTHER -> TRUE

\* The order that ends it, sent at the deadline or by an operator.
LiftOf(order, sig) ==
    [action |-> Lifts[order.action], target |-> order.target, params |-> NoParams, sig |-> sig]

=============================================================================
