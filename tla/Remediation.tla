---------------------------- MODULE Remediation ----------------------------
(***************************************************************************)
(* The remediation service (remediation.py): it polls the server for       *)
(* orders, lets each one through the order guard and its journal of nonces *)
(* (order_guard.py), runs the iptables commands of the action, and reports.*)
(*                                                                         *)
(* The orders of one address are considered: a ban, a rate limit and a     *)
(* blocked range, whose rules are counted.  The isolation of the server is *)
(* in Isolation.  The server delivers an order until it has its result.    *)
(***************************************************************************)
EXTENDS Naturals, Sequences

CONSTANTS
    Actions,     \* the actions the server orders
    Lifetime,    \* expires_at - issued_at
    Tolerance,   \* CLOCK_TOLERANCE_SECONDS
    MaxClock,    \* bound: last instant considered
    MaxOrders,   \* bound: orders issued
    MaxFaults    \* bound: faults of all kinds, those counted below

ASSUME RemediationAssumption ==
    {Lifetime, Tolerance, MaxClock, MaxOrders, MaxFaults} \subseteq Nat

(* What each action adds or removes.                                       *)
Additions == {"ban_ip", "rate_limit_ip", "block_ip_range"}
Removals == {"unban_ip", "remove_rate_limit", "unblock_ip_range"}
ASSUME ActionsAssumption == Actions \subseteq Additions \cup Removals

Ids == 1..MaxOrders

Rules == {"drop", "limit", "range"}
RuleOf(action) ==
    CASE action \in {"ban_ip", "unban_ip"} -> "drop"
      [] action \in {"rate_limit_ip", "remove_rate_limit"} -> "limit"
      [] action \in {"block_ip_range", "unblock_ip_range"} -> "range"

VARIABLES
    clock,    \* wall clock of the machine
    orders,   \* orders issued; the id of an order is its place, and its nonce
    answered, \* orders whose result the server has received
    mode,     \* of the journal: "file", or "memory" if it cannot be written
    seen,     \* nonces in memory
    journal,  \* nonces in the file
    inbox,    \* orders of the last answer still to process
    current,  \* order in progress, 0 if none
    pc,       \* where the service stands
    left,     \* rules listed and still to delete
    outcome,  \* of the order in progress
    rules,    \* number of rules of each sort in the chain INPUT
    executed, \* times each order was executed                     (history)
    blind,    \* listings that failed                              (history)
    \* Faults so far: the wall clock stepped back, reports that did not reach
    \* the server, commands that failed, reads and writes of the journal that
    \* failed, deaths of the service.
    skews, losses, failures, disk, crashes

memory  == <<mode, seen>>
work    == <<inbox, current, pc, left, outcome>>
history == <<executed, blind>>
budget  == <<skews, losses, failures, disk, crashes>>
vars == <<clock, orders, answered, memory, journal, work, rules, history, budget>>

Init ==
    /\ clock = 0
    /\ orders = <<>> /\ answered = {}
    /\ mode = "file" /\ seen = {} /\ journal = {}
    /\ inbox = {} /\ current = 0 /\ pc = "idle" /\ left = 0 /\ outcome = "none"
    /\ rules = [r \in Rules |-> 0]
    /\ executed = [id \in Ids |-> 0] /\ blind = 0
    /\ skews = 0 /\ losses = 0 /\ failures = 0 /\ disk = 0 /\ crashes = 0

Issued == DOMAIN orders
Action == orders[current].action
Rule == RuleOf(Action)

-----------------------------------------------------------------------------
(* Each fault takes one unit of the budget.                                *)
Faults == skews + losses + failures + disk + crashes
CommandFails ==
    /\ Faults < MaxFaults /\ failures' = failures + 1
    /\ UNCHANGED <<skews, losses, disk, crashes>>
DiskFails ==
    /\ Faults < MaxFaults /\ disk' = disk + 1
    /\ UNCHANGED <<skews, losses, failures, crashes>>

(* The server issues an order.                                             *)
Issue(action) ==
    /\ Len(orders) < MaxOrders
    /\ orders' = Append(orders, [action |-> action, expires |-> clock + Lifetime])
    /\ UNCHANGED <<clock, answered, memory, journal, work, rules, history, budget>>

(* A poll brings every order that has no result yet.                       *)
Poll ==
    /\ pc = "idle" /\ inbox = {}
    /\ Issued \ answered # {}
    /\ inbox' = Issued \ answered
    /\ UNCHANGED <<clock, orders, answered, memory, journal, current, pc, left,
                   outcome, rules, history, budget>>

-----------------------------------------------------------------------------
(* The order guard.                                                        *)

(* The orders of an answer are processed in their order.                   *)
NextOrder(id) ==
    /\ pc = "idle"
    /\ id \in inbox
    /\ \A other \in inbox : id <= other
    /\ inbox' = inbox \ {id}
    /\ current' = id

Live(id) == clock <= orders[id].expires + Tolerance

(* Mutant: the nonces are purged before the guard stops accepting them.    *)
KeptNoTolerance == {id \in seen : clock <= orders[id].expires}

(* The nonces that consume() keeps: those whose order has not expired.     *)
Kept == {id \in seen : clock <= orders[id].expires + Tolerance}

(* Mutant: a refused order is only logged.                                 *)
RefuseSilently(id) ==
    /\ pc = "idle"
    /\ id \in inbox
    /\ inbox' = inbox \ {id}
    /\ ~Live(id) \/ id \in Kept
    /\ UNCHANGED <<clock, orders, answered, memory, journal, current, pc, left,
                   outcome, rules, history, budget>>

Refuse(id) ==
    /\ NextOrder(id)
    /\ \/ ~Live(id) /\ UNCHANGED seen
       \/ Live(id) /\ id \in Kept /\ seen' = Kept
    /\ pc' = "report" /\ outcome' = "failed"
    /\ UNCHANGED <<clock, orders, answered, mode, journal, left, rules, history,
                   budget>>

(* The nonce is consumed before the execution.  A failure to write the     *)
(* journal is logged, and the nonce is kept in memory only.                *)
Accept(id) ==
    /\ NextOrder(id)
    /\ Live(id) /\ id \notin Kept
    /\ seen' = Kept \cup {id}
    /\ \/ mode = "file" /\ journal' = seen' /\ UNCHANGED budget
       \/ mode = "file" /\ UNCHANGED journal /\ DiskFails
       \/ mode = "memory" /\ UNCHANGED <<journal, budget>>
    /\ pc' = "check"
    /\ UNCHANGED <<clock, orders, answered, mode, left, outcome, rules, history>>

-----------------------------------------------------------------------------
(* The action.                                                             *)

Finish(result) == pc' = "report" /\ outcome' = result

(* The address of an active SSH session is not blocked: whether there is   *)
(* one is left free.                                                       *)
AntiLockout ==
    /\ pc = "check"
    /\ Action \in Additions
    /\ Finish("failed")
    /\ UNCHANGED <<clock, orders, answered, memory, journal, inbox, current, left,
                   rules, history, budget>>

Begin ==
    /\ pc = "check"
    /\ pc' = IF Rule = "drop" THEN "command" ELSE "list"
    /\ executed' = [executed EXCEPT ![current] = @ + 1]
    /\ UNCHANGED <<clock, orders, answered, memory, journal, inbox, current, left,
                   outcome, rules, blind, budget>>

(* One iptables command that inserts or deletes a rule: iptables refuses   *)
(* to delete a rule that is not there.                                     *)
Ban ==
    /\ rules' = [rules EXCEPT !["drop"] = @ + 1]
    /\ Finish("ok")

(* Mutant: the deletion of a missing rule is taken for done.               *)
UnbanUnchecked ==
    /\ rules' = [rules EXCEPT !["drop"] = @ - 1]
    /\ Finish("ok")

Unban ==
    /\ rules["drop"] > 0
    /\ rules' = [rules EXCEPT !["drop"] = @ - 1]
    /\ Finish("ok")

BanCommand ==
    /\ pc = "command"
    /\ \/ Action = "ban_ip" /\ Ban /\ UNCHANGED budget
       \/ Action = "unban_ip" /\ Unban /\ UNCHANGED budget
       \/ /\ Action = "unban_ip" /\ rules["drop"] = 0
          /\ Finish("failed")
          /\ UNCHANGED <<rules, budget>>
       \/ CommandFails /\ Finish("failed") /\ UNCHANGED rules
    /\ UNCHANGED <<clock, orders, answered, memory, journal, inbox, current, left,
                   history>>

(* Mutant: the rules in place are not removed first.                       *)
ListNothing ==
    /\ pc = "list"
    /\ left' = 0
    /\ pc' = "delete"
    /\ UNCHANGED <<clock, orders, answered, memory, journal, inbox, current,
                   outcome, rules, history, budget>>

(* A limit or a range is first removed, rule by rule, from a listing; when *)
(* the listing fails it is taken for an empty one.                         *)
ListRules ==
    /\ pc = "list"
    /\ \/ left' = rules[Rule] /\ UNCHANGED <<blind, budget>>
       \/ left' = 0 /\ CommandFails /\ blind' = blind + 1
    /\ pc' = "delete"
    /\ UNCHANGED <<clock, orders, answered, memory, journal, inbox, current,
                   outcome, rules, executed>>

(* Mutant: a deletion that fails is passed over.                           *)
DeleteRuleAnyway ==
    /\ pc = "delete"
    /\ left > 0
    /\ left' = left - 1
    /\ \/ rules' = [rules EXCEPT ![Rule] = @ - 1] /\ UNCHANGED budget
       \/ CommandFails /\ UNCHANGED rules
    /\ UNCHANGED <<clock, orders, answered, memory, journal, inbox, current, pc,
                   outcome, history>>

DeleteRule ==
    /\ pc = "delete"
    /\ left > 0
    /\ \/ /\ rules' = [rules EXCEPT ![Rule] = @ - 1]
          /\ left' = left - 1
          /\ UNCHANGED <<pc, outcome, budget>>
       \/ /\ CommandFails
          /\ left' = 0
          /\ Finish("failed")
          /\ UNCHANGED rules
    /\ UNCHANGED <<clock, orders, answered, memory, journal, inbox, current, history>>

InsertRule ==
    /\ pc = "delete"
    /\ left = 0
    /\ \/ /\ Action \in Additions
          /\ rules' = [rules EXCEPT ![Rule] = @ + 1]
          /\ Finish("ok")
          /\ UNCHANGED budget
       \/ /\ Action \in Additions
          /\ CommandFails
          /\ Finish("failed")
          /\ UNCHANGED rules
       \/ /\ Action \in Removals
          /\ Finish("ok")
          /\ UNCHANGED <<rules, budget>>
    /\ UNCHANGED <<clock, orders, answered, memory, journal, inbox, current, left,
                   history>>

(* The result is posted once; a failure to post it is logged.              *)
Report ==
    /\ pc = "report"
    /\ \/ answered' = answered \cup {current} /\ UNCHANGED budget
       \/ /\ Faults < MaxFaults /\ losses' = losses + 1
          /\ UNCHANGED <<answered, skews, failures, disk, crashes>>
    /\ pc' = "idle" /\ current' = 0 /\ outcome' = "none"
    /\ UNCHANGED <<clock, orders, memory, journal, inbox, left, rules, history>>

-----------------------------------------------------------------------------
(* The process and its machine.                                            *)

(* The journal is opened, and rewritten at once; without a file that can   *)
(* be read and written, it is kept in memory.                              *)
Start ==
    /\ pc = "down"
    /\ \/ mode' = "file" /\ seen' = journal /\ UNCHANGED budget
       \/ mode' = "memory" /\ seen' \in {journal, {}} /\ DiskFails
    /\ pc' = "idle"
    /\ UNCHANGED <<clock, orders, answered, journal, inbox, current, left, outcome,
                   rules, history>>

Die ==
    /\ pc # "down"
    /\ Faults < MaxFaults /\ crashes' = crashes + 1
    /\ pc' = "down"
    /\ seen' = {}
    /\ inbox' = {} /\ current' = 0 /\ left' = 0 /\ outcome' = "none"
    /\ UNCHANGED <<clock, orders, answered, mode, executed, blind, skews, losses,
                   failures>>

Kill == Die /\ UNCHANGED <<rules, journal, disk>>

(* The rules do not survive a reboot.  The journal is not synced to disk:  *)
(* after a power loss it may be unreadable, and is then started anew.      *)
Reboot ==
    /\ Die
    /\ rules' = [r \in Rules |-> 0]
    /\ \/ UNCHANGED <<journal, disk>>
       \/ journal' = {} /\ Faults + 1 < MaxFaults /\ disk' = disk + 1

Tick ==
    /\ clock < MaxClock
    /\ clock' = clock + 1
    /\ UNCHANGED <<orders, answered, memory, journal, work, rules, history, budget>>

StepBack ==
    /\ Faults < MaxFaults /\ skews' = skews + 1
    /\ clock > 0
    /\ clock' \in 0..(clock - 1)
    /\ UNCHANGED <<orders, answered, memory, journal, work, rules, history, losses,
                   failures, disk, crashes>>

Guard == \E id \in Ids : Refuse(id) \/ Accept(id)
Execute == AntiLockout \/ Begin \/ BanCommand \/ ListRules \/ DeleteRule \/ InsertRule

ServiceStep == Poll \/ Guard \/ Execute \/ Report \/ Start
Environment ==
    \/ \E action \in Actions : Issue(action)
    \/ Kill \/ Reboot \/ Tick \/ StepBack

Next == ServiceStep \/ Environment

(* The service polls for ever and systemd restarts it; every command and   *)
(* every request has a timeout.                                            *)
Spec == Init /\ [][Next]_vars
FairSpec == Spec /\ WF_vars(ServiceStep)

-----------------------------------------------------------------------------
(* Properties.                                                             *)

Stages == {"down", "idle", "check", "command", "list", "delete", "report"}

TypeOK ==
    /\ clock \in Nat
    /\ orders \in Seq([action : Actions, expires : Nat])
    /\ Len(orders) <= MaxOrders
    /\ answered \subseteq Issued
    /\ mode \in {"file", "memory"}
    /\ seen \subseteq Issued /\ journal \subseteq Issued
    /\ inbox \subseteq Issued
    /\ current \in Issued \cup {0}
    /\ pc \in Stages
    /\ left \in Nat
    /\ outcome \in {"none", "ok", "failed"}
    /\ rules \in [Rules -> Nat]
    /\ executed \in [Ids -> Nat]
    /\ blind \in Nat
    /\ {skews, losses, failures, disk, crashes} \subseteq Nat
    /\ Faults <= MaxFaults

(* "nonce a usage unique" (order_guard.py:9): no order is executed twice.  *)
AtMostOnce == \A id \in Ids : executed[id] <= 1

(* An order is executed twice only if the clock was stepped back, or if the *)
(* journal could not be read or written and the service died: never just   *)
(* because its report was lost and the server delivered it again.          *)
ReplayNeedsLoss == skews = 0 /\ (disk = 0 \/ crashes = 0) => AtMostOnce

(* Each failed listing leaves at most one rule too many, whatever commands *)
(* fail and wherever the service is killed.                                *)
ExtraRulesBounded == rules["limit"] <= 1 + blind /\ rules["range"] <= 1 + blind

(* The removal of a limit or of a range is reported as done only if no     *)
(* such rule is left, unless a listing failed.                             *)
RemovalIsTrue ==
    pc = "report" /\ outcome = "ok" /\ Action \in Removals \ {"unban_ip"}
        => rules[Rule] = 0 \/ blind > 0

(* Every order gets a result, although it is executed at most once: one    *)
(* that is delivered again because its report was lost, or because the     *)
(* service died, is refused and reported.                                  *)
EveryOrderAnswered ==
    \A id \in Ids : id \in Issued ~> id \in answered
=============================================================================
