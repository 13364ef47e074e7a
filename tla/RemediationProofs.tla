------------------------- MODULE RemediationProofs -------------------------
(* What the remediation service keeps true for every set of actions, every *)
(* duration and every number of orders and faults.                         *)
EXTENDS Remediation, SequenceTheorems, TLAPS

LEMMA NaturalConstants ==
  /\ Lifetime \in Nat /\ Tolerance \in Nat /\ MaxClock \in Nat
  /\ MaxOrders \in Nat /\ MaxFaults \in Nat
BY RemediationAssumption

Orders == [action : Actions, expires : Nat]

LEMMA RuleOfAction ==
  ASSUME NEW action \in Actions
  PROVE  RuleOf(action) \in Rules
BY ActionsAssumption DEF Additions, Removals, RuleOf, Rules

LEMMA Appended ==
  ASSUME NEW s \in Seq(Orders), NEW order \in Orders
  PROVE  /\ Append(s, order) \in Seq(Orders)
         /\ Len(Append(s, order)) = Len(s) + 1
         /\ DOMAIN s \subseteq DOMAIN Append(s, order)
         /\ \A id \in DOMAIN s : Append(s, order)[id] = s[id]
BY AppendProperties, LenProperties

(* The faults are counted, and taken one by one.                           *)
BudgetOK ==
    /\ skews \in Nat /\ losses \in Nat /\ failures \in Nat /\ disk \in Nat
    /\ crashes \in Nat
    /\ Faults <= MaxFaults

LEMMA BudgetKept ==
  ASSUME BudgetOK, CommandFails \/ DiskFails \/ UNCHANGED budget
  PROVE  BudgetOK'
BY NaturalConstants DEF BudgetOK, Faults, CommandFails, DiskFails, budget

-----------------------------------------------------------------------------
(* Where the service stands tells which order it works on and which sort   *)
(* of rule; what it has listed is still there, since nobody else deletes.  *)
AtWork == {"check", "command", "list", "delete", "report"}
StageInv ==
    /\ pc \in AtWork => current \in Issued
    /\ pc = "command" => Rule = "drop"
    /\ pc \in {"list", "delete"} => Rule \in {"limit", "range"}
    /\ pc = "delete" => left <= rules[Rule]

(* The variables that only the service changes, and what it needs of them. *)
WorkOK ==
    /\ answered \subseteq Issued
    /\ mode \in {"file", "memory"}
    /\ seen \subseteq Issued /\ journal \subseteq Issued
    /\ inbox \subseteq Issued
    /\ current \in Issued \cup {0}
    /\ pc \in Stages
    /\ left \in Nat
    /\ outcome \in {"none", "ok", "failed"}
    /\ rules \in [Rules -> Nat]
    /\ executed \in [Ids -> Nat]
    /\ blind \in Nat
OrdersOK ==
    /\ clock \in Nat
    /\ orders \in Seq(Orders) /\ Len(orders) <= MaxOrders

LEMMA TypeParts == TypeOK <=> OrdersOK /\ WorkOK /\ BudgetOK
BY DEF TypeOK, OrdersOK, WorkOK, BudgetOK, Orders

LEMMA TypePartsPrime == TypeOK' <=> OrdersOK' /\ WorkOK' /\ BudgetOK'
BY DEF TypeOK, OrdersOK, WorkOK, BudgetOK, Orders

(* A step of the service that leaves the orders alone.                     *)
LEMMA OrdersKept ==
  ASSUME OrdersOK, WorkOK, UNCHANGED <<clock, orders>>
  PROVE  /\ OrdersOK' /\ UNCHANGED Issued
         /\ current' = current => UNCHANGED <<Action, Rule>>
         /\ current \in Issued => Action \in Actions /\ Rule \in Rules
         /\ Issued \subseteq Ids
<1>1. current \in Issued => Action \in Actions
  <2>1. Issued = 1..Len(orders)
    BY LenProperties DEF OrdersOK, Issued
  <2>2. current \in Issued => orders[current] \in Orders
    BY <2>1, ElementOfSeq DEF OrdersOK
  <2> QED
    BY <2>2 DEF Orders, Action
<1>2. Issued \subseteq Ids
  BY LenProperties, NaturalConstants DEF OrdersOK, Issued, Ids
<1> QED
  BY <1>1, <1>2, RuleOfAction DEF OrdersOK, Issued, Action, Rule

LEMMA InitTypeInv == Init => TypeOK /\ StageInv
<1> SUFFICES ASSUME Init PROVE TypeOK /\ StageInv
  OBVIOUS
<1>1. OrdersOK
  BY NaturalConstants, EmptySeq DEF Init, OrdersOK
<1>2. WorkOK /\ BudgetOK /\ StageInv
  BY NaturalConstants DEF Init, WorkOK, BudgetOK, Faults, StageInv, Stages, AtWork
<1> QED
  BY <1>1, <1>2, TypeParts

LEMMA IssueTypeInv ==
  ASSUME TypeOK, StageInv, NEW action \in Actions, Issue(action)
  PROVE  TypeOK' /\ StageInv'
<1> DEFINE order == [action |-> action, expires |-> clock + Lifetime]
<1>0. OrdersOK /\ WorkOK /\ BudgetOK
  BY TypeParts
<1>1. order \in Orders
  BY <1>0, NaturalConstants DEF Orders, OrdersOK
<1>2. /\ OrdersOK' /\ Issued \subseteq Issued'
      /\ \A id \in Issued : orders'[id] = orders[id]
  BY <1>0, <1>1, Appended, NaturalConstants, LenProperties DEF OrdersOK, Issue, Issued
<1>3. WorkOK' /\ BudgetOK'
  BY <1>0, <1>2, BudgetKept DEF WorkOK, Issue, memory, work, history
<1>4. StageInv'
  BY <1>0, <1>2 DEF StageInv, AtWork, Issue, work, Rule, Action
<1> QED
  BY <1>2, <1>3, <1>4, TypePartsPrime

LEMMA PollTypeInv ==
  ASSUME TypeOK, StageInv, Poll
  PROVE  TypeOK' /\ StageInv'
<1>0. OrdersOK /\ WorkOK /\ BudgetOK
  BY TypeParts
<1>1. OrdersOK' /\ UNCHANGED <<Issued, Action, Rule>>
  BY <1>0, OrdersKept DEF Poll
<1>2. WorkOK' /\ BudgetOK'
  BY <1>0, <1>1, BudgetKept DEF WorkOK, Poll, memory, history
<1>3. StageInv'
  BY <1>1 DEF StageInv, Poll
<1> QED
  BY <1>1, <1>2, <1>3, TypePartsPrime

LEMMA GuardTypeInv ==
  ASSUME TypeOK, StageInv, NEW id \in Ids, Refuse(id) \/ Accept(id)
  PROVE  TypeOK' /\ StageInv'
<1>0. OrdersOK /\ WorkOK /\ BudgetOK
  BY TypeParts
<1>1. OrdersOK' /\ UNCHANGED Issued
  BY <1>0, OrdersKept DEF Refuse, Accept
<1>2. id \in Issued /\ Kept \subseteq seen
  BY <1>0 DEF Refuse, Accept, NextOrder, WorkOK, Kept
<1>3. WorkOK'
  BY <1>0, <1>1, <1>2 DEF WorkOK, Refuse, Accept, NextOrder, history, Stages
<1>4. BudgetOK'
  BY <1>0, BudgetKept DEF Refuse, Accept
<1>5. StageInv'
  BY <1>1, <1>2 DEF StageInv, AtWork, Refuse, Accept, NextOrder
<1> QED
  BY <1>1, <1>3, <1>4, <1>5, TypePartsPrime

LEMMA ExecuteTypeInv ==
  ASSUME TypeOK, StageInv, Execute
  PROVE  TypeOK' /\ StageInv'
<1>0. OrdersOK /\ WorkOK /\ BudgetOK
  BY TypeParts
<1>1. /\ OrdersOK' /\ UNCHANGED <<Issued, Action, Rule>>
      /\ current' = current /\ current \in Issued /\ Rule \in Rules
      /\ UNCHANGED <<answered, mode, seen, journal, inbox>>
      /\ Issued \subseteq Ids
  BY <1>0, OrdersKept
  DEF Execute, AntiLockout, Begin, BanCommand, ListRules, DeleteRule, InsertRule,
      StageInv, AtWork, memory
<1>2. BudgetOK'
  BY <1>0, BudgetKept
  DEF Execute, AntiLockout, Begin, BanCommand, ListRules, DeleteRule, InsertRule,
      budget
<1>3. WorkOK' /\ StageInv'
  <2>1. CASE AntiLockout
    BY <1>0, <1>1, <2>1 DEF WorkOK, StageInv, AtWork, Stages, AntiLockout, Finish, history
  <2>2. CASE Begin
    <3>1. executed' \in [Ids -> Nat]
      BY <1>0, <1>1, <2>2 DEF WorkOK, Begin
    <3>2. /\ pc' \in {"command", "list"}
          /\ pc' = "command" => Rule = "drop"
          /\ pc' = "list" => Rule \in {"limit", "range"}
      BY <1>1, <2>2 DEF Begin, Rules
    <3> QED
      BY <1>0, <1>1, <2>2, <3>1, <3>2 DEF WorkOK, StageInv, AtWork, Stages, Begin
  <2>3. CASE BanCommand
    <3>1. rules' \in [Rules -> Nat]
      BY <1>0, <2>3 DEF WorkOK, BanCommand, Ban, Unban, Rules
    <3>2. pc' = "report" /\ outcome' \in {"ok", "failed"}
      BY <2>3 DEF BanCommand, Ban, Unban, Finish
    <3> QED
      BY <1>0, <1>1, <2>3, <3>1, <3>2
      DEF WorkOK, StageInv, AtWork, Stages, BanCommand, history
  <2>4. CASE ListRules
    <3>1. /\ left' \in Nat /\ blind' \in Nat /\ left' <= rules[Rule]
          /\ pc = "list" /\ pc' = "delete"
      BY <1>0, <1>1, <2>4 DEF WorkOK, ListRules
    <3> QED
      BY <1>0, <1>1, <2>4, <3>1 DEF WorkOK, StageInv, AtWork, Stages, ListRules
  <2>5. CASE DeleteRule
    <3>1. CASE rules' = [rules EXCEPT ![Rule] = @ - 1] /\ left' = left - 1
               /\ UNCHANGED <<pc, outcome>>
      <4>1. left \in Nat /\ left > 0 /\ left <= rules[Rule] /\ rules[Rule] \in Nat
        BY <1>0, <1>1, <2>5 DEF WorkOK, DeleteRule, StageInv
      <4>2. left' \in Nat /\ rules' \in [Rules -> Nat] /\ left' <= rules'[Rule]
        BY <1>0, <1>1, <3>1, <4>1 DEF WorkOK
      <4> QED
        BY <1>0, <1>1, <2>5, <3>1, <4>2 DEF WorkOK, StageInv, DeleteRule, history
    <3>2. CASE left' = 0 /\ Finish("failed") /\ UNCHANGED rules
      BY <1>0, <1>1, <2>5, <3>2
      DEF WorkOK, StageInv, AtWork, Stages, DeleteRule, Finish, history
    <3> QED
      BY <2>5, <3>1, <3>2 DEF DeleteRule
  <2>6. CASE InsertRule
    <3>1. rules' \in [Rules -> Nat]
      BY <1>0, <1>1, <2>6 DEF WorkOK, InsertRule
    <3>2. pc' = "report" /\ outcome' \in {"ok", "failed"}
      BY <2>6 DEF InsertRule, Finish
    <3> QED
      BY <1>0, <1>1, <2>6, <3>1, <3>2
      DEF WorkOK, StageInv, AtWork, Stages, InsertRule, history
  <2> QED
    BY <2>1, <2>2, <2>3, <2>4, <2>5, <2>6 DEF Execute
<1> QED
  BY <1>1, <1>2, <1>3, TypePartsPrime

LEMMA ReportTypeInv ==
  ASSUME TypeOK, StageInv, Report \/ Start
  PROVE  TypeOK' /\ StageInv'
<1>0. OrdersOK /\ WorkOK /\ BudgetOK
  BY TypeParts
<1>1. OrdersOK' /\ UNCHANGED Issued
  BY <1>0, OrdersKept DEF Report, Start
<1>2. BudgetOK'
  <2>1. CASE losses' = losses + 1
    BY <1>0, <2>1, BudgetKept, NaturalConstants DEF Report, Start, BudgetOK, Faults, DiskFails, budget
  <2>2. CASE losses' # losses + 1
    BY <1>0, <2>2, BudgetKept DEF Report, Start
  <2> QED
    BY <2>1, <2>2
<1>3. answered' \subseteq Issued
  BY <1>0 DEF WorkOK, StageInv, AtWork, Report, Start
<1>4. WorkOK' /\ StageInv'
  BY <1>0, <1>1, <1>3
  DEF WorkOK, StageInv, AtWork, Stages, Report, Start, memory, history
<1> QED
  BY <1>1, <1>2, <1>4, TypePartsPrime

LEMMA EnvironmentTypeInv ==
  ASSUME TypeOK, StageInv, Kill \/ Reboot \/ Tick \/ StepBack
  PROVE  TypeOK' /\ StageInv'
<1>0. OrdersOK /\ WorkOK /\ BudgetOK
  BY TypeParts
<1>1. CASE Kill \/ Reboot
  <2>1. OrdersOK' /\ UNCHANGED Issued
    BY <1>0, <1>1, OrdersKept DEF Kill, Reboot, Die
  <2>2. BudgetOK'
    BY <1>0, <1>1, NaturalConstants DEF Kill, Reboot, Die, BudgetOK, Faults
  <2>3. WorkOK' /\ StageInv'
    BY <1>0, <1>1, <2>1
    DEF WorkOK, StageInv, AtWork, Stages, Kill, Reboot, Die
  <2> QED
    BY <2>1, <2>2, <2>3, TypePartsPrime
<1>2. CASE Tick \/ StepBack
  <2>1. OrdersOK' /\ UNCHANGED <<Issued, Action, Rule>>
    BY <1>0, <1>2 DEF OrdersOK, Tick, StepBack, Issued, Action, Rule, work
  <2>2. BudgetOK'
    BY <1>0, <1>2, BudgetKept, NaturalConstants DEF Tick, StepBack, BudgetOK, Faults
  <2>3. WorkOK' /\ StageInv'
    BY <1>0, <1>2, <2>1
    DEF WorkOK, StageInv, Tick, StepBack, memory, work, history
  <2> QED
    BY <2>1, <2>2, <2>3, TypePartsPrime
<1> QED
  BY <1>1, <1>2

LEMMA StepTypeInv == TypeOK /\ StageInv /\ [Next]_vars => TypeOK' /\ StageInv'
<1> SUFFICES ASSUME TypeOK, StageInv, [Next]_vars PROVE TypeOK' /\ StageInv'
  OBVIOUS
<1>1. CASE UNCHANGED vars
  BY <1>1 DEF vars, memory, work, history, budget, TypeOK, StageInv, Issued, Faults,
              Rule, Action
<1>2. CASE Next
  BY <1>2, IssueTypeInv, PollTypeInv, GuardTypeInv, ExecuteTypeInv, ReportTypeInv,
     EnvironmentTypeInv DEF Next, ServiceStep, Environment, Guard
<1> QED
  BY <1>1, <1>2

(* Every variable keeps its type: no count of rules becomes negative, and   *)
(* what the service reports is an order that was issued.                   *)
THEOREM TypeCorrect == Spec => []TypeOK
BY InitTypeInv, StepTypeInv, PTL DEF Spec

-----------------------------------------------------------------------------
(* The rules counted.  While rules are deleted, those that the listing     *)
(* missed are at most one for each listing that failed.                    *)
CountInv ==
    /\ ExtraRulesBounded /\ RemovalIsTrue
    /\ pc = "delete" => rules[Rule] <= left + blind

LEMMA InitCountInv == Init => CountInv
BY DEF Init, CountInv, ExtraRulesBounded, RemovalIsTrue, Rules

(* The order in progress is the same before and after a step that works on *)
(* it, or that leaves it alone.                                            *)
LEMMA SameOrder ==
  ASSUME OrdersOK, WorkOK, StageInv, pc \in AtWork, UNCHANGED current,
         UNCHANGED orders \/ \E action \in Actions : Issue(action)
  PROVE  UNCHANGED <<Action, Rule>> /\ Action \in Actions /\ Rule \in Rules
<1>1. current \in Issued
  BY DEF StageInv
<1>2. Action \in Actions /\ Rule \in Rules
  <2>1. orders[current] \in Orders
    BY <1>1, LenProperties, ElementOfSeq DEF OrdersOK, Issued
  <2> QED
    BY <2>1, RuleOfAction DEF Orders, Action, Rule
<1>3. orders'[current] = orders[current]
  <2>1. CASE UNCHANGED orders
    BY <2>1
  <2>2. CASE \E action \in Actions : Issue(action)
    <3>1. PICK action \in Actions : Issue(action)
      BY <2>2
    <3>2. [action |-> action, expires |-> clock + Lifetime] \in Orders
      BY NaturalConstants DEF Orders, OrdersOK
    <3> QED
      BY <1>1, <3>1, <3>2, Appended DEF OrdersOK, Issue, Issued
  <2> QED
    BY <2>1, <2>2
<1> QED
  BY <1>2, <1>3 DEF Action, Rule

LEMMA ExecuteCountInv ==
  ASSUME TypeOK, StageInv, CountInv, Execute
  PROVE  CountInv'
<1>0. OrdersOK /\ WorkOK
  BY TypeParts
<1>1. /\ UNCHANGED <<Action, Rule>> /\ Rule \in Rules
      /\ rules["limit"] \in Nat /\ rules["range"] \in Nat /\ left \in Nat /\ blind \in Nat
      /\ rules \in [Rules -> Nat]
  BY <1>0, SameOrder
  DEF Execute, AntiLockout, Begin, BanCommand, ListRules, DeleteRule, InsertRule,
      AtWork, WorkOK, Rules
<1>2. CASE AntiLockout \/ Begin
  BY <1>2 DEF AntiLockout, Begin, Finish, CountInv, ExtraRulesBounded, RemovalIsTrue, history
<1>3. CASE BanCommand
  <2>1. rules'["limit"] = rules["limit"] /\ rules'["range"] = rules["range"] /\ blind' = blind
    BY <1>1, <1>3 DEF BanCommand, Ban, Unban, history, Rules
  <2>2. pc' = "report" /\ (outcome' = "ok" => Action \in {"ban_ip", "unban_ip"})
    BY <1>3 DEF BanCommand, Ban, Unban, Finish
  <2> QED
    BY <1>1, <2>1, <2>2 DEF CountInv, ExtraRulesBounded, RemovalIsTrue, Removals
<1>4. CASE ListRules
  <2>1. UNCHANGED rules /\ blind' \in {blind, blind + 1} /\ pc' = "delete"
    BY <1>4 DEF ListRules
  <2>2. rules[Rule] <= left' + blind'
    <3>1. CASE left' = rules[Rule] /\ UNCHANGED blind
      BY <1>1, <3>1
    <3>2. CASE left' = 0 /\ blind' = blind + 1
      <4>1. Rule \in {"limit", "range"}
        BY <1>4 DEF ListRules, StageInv
      <4> QED
        BY <1>1, <3>2, <4>1 DEF CountInv, ExtraRulesBounded
    <3> QED
      BY <1>4, <3>1, <3>2 DEF ListRules
  <2> QED
    BY <1>1, <2>1, <2>2 DEF CountInv, ExtraRulesBounded, RemovalIsTrue
<1>5. CASE DeleteRule
  <2>1. CASE rules' = [rules EXCEPT ![Rule] = @ - 1] /\ left' = left - 1 /\ UNCHANGED pc
    <3>1. rules'["limit"] <= rules["limit"] /\ rules'["range"] <= rules["range"]
          /\ blind' = blind /\ pc' = "delete" /\ rules'[Rule] <= left' + blind'
      BY <1>1, <1>5, <2>1 DEF DeleteRule, CountInv, history
    <3> QED
      <4>1. rules'["limit"] <= 1 + blind /\ rules'["range"] <= 1 + blind
        BY <1>1, <2>1, <3>1 DEF CountInv, ExtraRulesBounded, Rules
      <4> QED
        BY <1>1, <3>1, <4>1 DEF CountInv, ExtraRulesBounded, RemovalIsTrue
  <2>2. CASE Finish("failed") /\ UNCHANGED rules
    BY <1>5, <2>2 DEF DeleteRule, Finish, CountInv, ExtraRulesBounded, RemovalIsTrue, history
  <2> QED
    BY <1>5, <2>1, <2>2 DEF DeleteRule
<1>6. CASE InsertRule
  <2>1. rules[Rule] <= blind /\ pc' = "report" /\ UNCHANGED blind
    BY <1>1, <1>6 DEF InsertRule, Finish, CountInv, history
  <2>2. CASE Action \in Additions /\ rules' = [rules EXCEPT ![Rule] = @ + 1]
    <3>1. rules'["limit"] <= 1 + blind /\ rules'["range"] <= 1 + blind
      BY <1>1, <2>1, <2>2 DEF CountInv, ExtraRulesBounded, Rules
    <3>2. Action \notin Removals
      BY <2>2 DEF Additions, Removals
    <3> QED
      BY <1>1, <2>1, <3>1, <3>2 DEF CountInv, ExtraRulesBounded, RemovalIsTrue
  <2>3. CASE UNCHANGED rules
    <3>1. blind = 0 => rules[Rule] = 0
      BY <1>1, <2>1
    <3> QED
      BY <1>1, <2>1, <2>3, <3>1 DEF CountInv, ExtraRulesBounded, RemovalIsTrue
  <2> QED
    BY <1>6, <2>2, <2>3 DEF InsertRule
<1> QED
  BY <1>2, <1>3, <1>4, <1>5, <1>6 DEF Execute

LEMMA StepCountInv ==
  TypeOK /\ StageInv /\ CountInv /\ [Next]_vars => CountInv'
<1> SUFFICES ASSUME TypeOK, StageInv, CountInv, [Next]_vars PROVE CountInv'
  OBVIOUS
<1>0. OrdersOK /\ WorkOK
  BY TypeParts
<1>1. CASE Execute
  BY <1>1, ExecuteCountInv
<1>2. CASE Poll \/ Guard \/ Report \/ Start
  <2>1. /\ pc' # "delete" /\ ~(pc' = "report" /\ outcome' = "ok")
        /\ UNCHANGED <<rules, blind>>
    BY <1>2 DEF Poll, Guard, Refuse, Accept, Report, Start, history
  <2> QED
    BY <2>1 DEF CountInv, ExtraRulesBounded, RemovalIsTrue
<1>3. CASE Kill
  BY <1>3 DEF Kill, Die, CountInv, ExtraRulesBounded, RemovalIsTrue
<1>4. CASE Reboot
  BY <1>0, <1>4 DEF Reboot, Die, CountInv, ExtraRulesBounded, RemovalIsTrue, Rules, WorkOK
<1>5. CASE \/ \E action \in Actions : Issue(action)
           \/ Tick \/ StepBack \/ UNCHANGED vars
  <2>1. UNCHANGED <<pc, current, left, outcome, rules, blind>>
    BY <1>5 DEF Issue, Tick, StepBack, vars, work, history
  <2>2. pc \in AtWork => UNCHANGED <<Action, Rule>>
    BY <1>0, <1>5, <2>1, SameOrder DEF Tick, StepBack, vars
  <2> QED
    BY <2>1, <2>2 DEF CountInv, ExtraRulesBounded, RemovalIsTrue, AtWork
<1> QED
  BY <1>1, <1>2, <1>3, <1>4, <1>5 DEF Next, ServiceStep, Environment

(* Wherever commands fail and the service is killed, a failed listing      *)
(* leaves at most one rule too many.                                       *)
THEOREM ExtraRulesBoundedHolds == Spec => []ExtraRulesBounded
<1>1. CountInv => ExtraRulesBounded
  BY DEF CountInv
<1> QED
  BY <1>1, InitTypeInv, StepTypeInv, InitCountInv, StepCountInv, PTL DEF Spec

(* The removal of a limit or of a range that is reported as done has left  *)
(* no such rule, unless a listing failed.                                  *)
THEOREM RemovalIsTrueHolds == Spec => []RemovalIsTrue
<1>1. CountInv => RemovalIsTrue
  BY DEF CountInv
<1> QED
  BY <1>1, InitTypeInv, StepTypeInv, InitCountInv, StepCountInv, PTL DEF Spec

-----------------------------------------------------------------------------
(* Replays.  The nonce of an order that was executed, or is about to be,   *)
(* is in memory, and in the file as long as the file can be used, until    *)
(* the order has expired; and an order that has expired stays expired.     *)

Used(id) == executed[id] # 0 \/ (pc = "check" /\ current = id)

Remembered(id) ==
    \/ ~Live(id)
    \/ /\ pc # "down" => id \in seen
       /\ disk = 0 => id \in journal

(* The faults that ReplayNeedsLoss excludes.                               *)
Sound == skews = 0 /\ (disk = 0 \/ crashes = 0)

ModeInv ==
    /\ crashes = 0 => pc # "down"
    /\ disk = 0 => mode = "file"

OnceInv ==
    /\ \A id \in Ids : Used(id) => id \in Issued /\ Remembered(id)
    /\ \A id \in Ids : executed[id] <= 1
    /\ pc = "check" => executed[current] = 0

NonceInv == ModeInv /\ (Sound => OnceInv)

LEMMA InitNonceInv == Init => NonceInv
BY DEF Init, NonceInv, ModeInv, OnceInv, Used

LEMMA StepModeInv ==
  TypeOK /\ ModeInv /\ [Next]_vars => ModeInv'
<1> SUFFICES ASSUME TypeOK, ModeInv, [Next]_vars PROVE ModeInv'
  OBVIOUS
<1>0. BudgetOK
  BY TypeParts
<1>1. CASE Execute
  BY <1>0, <1>1
  DEF Execute, AntiLockout, Begin, BanCommand, Ban, Unban, ListRules, DeleteRule,
      InsertRule, Finish, CommandFails, ModeInv, memory, budget, BudgetOK
<1>2. CASE Poll \/ Guard \/ Report \/ Start
  BY <1>0, <1>2
  DEF Poll, Guard, Refuse, Accept, NextOrder, Report, Start, DiskFails, ModeInv,
      memory, budget, BudgetOK
<1>3. CASE Kill \/ Reboot
  BY <1>0, <1>3 DEF Kill, Reboot, Die, ModeInv, BudgetOK
<1>4. CASE (\E action \in Actions : Issue(action)) \/ Tick \/ StepBack \/ UNCHANGED vars
  BY <1>4 DEF Issue, Tick, StepBack, ModeInv, vars, memory, work, budget
<1> QED
  BY <1>1, <1>2, <1>3, <1>4 DEF Next, ServiceStep, Environment

(* No fault is forgotten, and without a step back the clock only advances. *)
LEMMA SoundBefore ==
  ASSUME TypeOK, [Next]_vars, Sound'
  PROVE  Sound /\ clock <= clock'
<1>0. BudgetOK /\ clock \in Nat
  BY TypeParts DEF TypeOK
<1>1. CASE Execute
  BY <1>0, <1>1
  DEF Execute, AntiLockout, Begin, BanCommand, Ban, Unban, ListRules, DeleteRule,
      InsertRule, CommandFails, budget, BudgetOK, Sound
<1>2. CASE Poll \/ Guard \/ Report \/ Start
  BY <1>0, <1>2
  DEF Poll, Guard, Refuse, Accept, Report, Start, DiskFails, budget, BudgetOK, Sound
<1>3. CASE Kill \/ Reboot
  BY <1>0, <1>3 DEF Kill, Reboot, Die, BudgetOK, Sound
<1>4. CASE (\E action \in Actions : Issue(action)) \/ Tick \/ UNCHANGED vars
  <2>1. UNCHANGED <<skews, disk, crashes>> /\ (clock' = clock \/ clock' = clock + 1)
    BY <1>4 DEF Issue, Tick, vars, budget
  <2> QED
    BY <1>0, <2>1 DEF Sound
<1>5. CASE StepBack
  BY <1>0, <1>5 DEF StepBack, BudgetOK, Sound
<1> QED
  BY <1>1, <1>2, <1>3, <1>4, <1>5 DEF Next, ServiceStep, Environment

(* An order that has expired stays expired.                                *)
LEMMA StaysExpired ==
  ASSUME TypeOK, TypeOK', [Next]_vars, Sound', NEW id \in Issued
  PROVE  /\ id \in Issued' /\ orders'[id] = orders[id]
         /\ Live(id)' => Live(id)
<1>0. OrdersOK /\ WorkOK
  BY TypeParts
<1>1. id \in Issued' /\ orders'[id] = orders[id]
  <2>1. CASE \E action \in Actions : Issue(action)
    <3>1. PICK action \in Actions : Issue(action)
      BY <2>1
    <3>2. [action |-> action, expires |-> clock + Lifetime] \in Orders
      BY <1>0, NaturalConstants DEF Orders, OrdersOK
    <3> QED
      BY <1>0, <3>1, <3>2, Appended DEF OrdersOK, Issue, Issued
  <2>2. CASE UNCHANGED orders
    BY <2>2 DEF Issued
  <2> QED
    BY <2>1, <2>2
    DEF Next, ServiceStep, Environment, Poll, Guard, Refuse, Accept, Execute,
        AntiLockout, Begin, BanCommand, ListRules, DeleteRule, InsertRule, Report,
        Start, Kill, Reboot, Die, Tick, StepBack, vars
<1>2. clock <= clock' /\ clock \in Nat /\ clock' \in Nat
  BY SoundBefore DEF TypeOK
<1>3. orders[id].expires \in Nat
  <2>1. orders[id] \in Orders
    BY <1>0, LenProperties, ElementOfSeq DEF OrdersOK, Issued
  <2> QED
    BY <2>1 DEF Orders
<1> QED
  BY <1>1, <1>2, <1>3, NaturalConstants DEF Live

(* A step that consumes no nonce and starts no execution.                  *)
LEMMA StillRemembered ==
  ASSUME TypeOK, TypeOK', [Next]_vars, Sound', OnceInv,
         UNCHANGED executed,
         pc' = "check" => pc = "check" /\ current' = current,
         \A id \in Issued :
            Live(id) /\ Remembered(id) =>
               /\ pc' # "down" => id \in seen'
               /\ disk' = 0 => id \in journal'
  PROVE  OnceInv'
<1>1. ASSUME NEW id \in Ids, Used(id)' PROVE id \in Issued' /\ Remembered(id)'
  <2>1. id \in Issued /\ Remembered(id)
    BY <1>1 DEF Used, OnceInv
  <2> QED
    BY <2>1, StaysExpired DEF Remembered
<1>2. pc' = "check" => executed'[current'] = 0
  BY DEF OnceInv
<1> QED
  BY <1>1, <1>2 DEF OnceInv

LEMMA AcceptOnce ==
  ASSUME TypeOK, TypeOK', [Next]_vars, Sound', NonceInv, OnceInv,
         NEW id \in Ids, Accept(id)
  PROVE  OnceInv'
<1>0. WorkOK /\ BudgetOK /\ id \in Issued
  BY TypeParts DEF Accept, NextOrder, WorkOK
<1>1. pc = "idle" /\ Live(id) /\ id \notin Kept /\ current' = id /\ pc' = "check"
      /\ seen' = Kept \cup {id} /\ UNCHANGED <<clock, orders, executed>>
  BY DEF Accept, NextOrder, history
<1>2. disk' = 0 => disk = 0 /\ journal' = seen'
  BY <1>0 DEF Accept, DiskFails, NonceInv, ModeInv, budget, BudgetOK
<1>3. ~Used(id)
  BY <1>0, <1>1 DEF OnceInv, Remembered, Kept, Live
<1>4. ASSUME NEW other \in Ids, Used(other)' PROVE other \in Issued' /\ Remembered(other)'
  <2>1. CASE other = id
    BY <1>0, <1>1, <1>2, <2>1, StaysExpired DEF Remembered
  <2>2. CASE other # id
    <3>1. other \in Issued /\ Remembered(other)
      BY <1>1, <1>4, <2>2 DEF Used, OnceInv
    <3>2. Live(other) => other \in Kept
      BY <1>1, <3>1 DEF Remembered, Kept, Live
    <3> QED
      BY <1>1, <1>2, <3>1, <3>2, StaysExpired DEF Remembered
  <2> QED
    BY <2>1, <2>2
<1> QED
  BY <1>1, <1>3, <1>4 DEF OnceInv, Used

LEMMA BeginOnce ==
  ASSUME TypeOK, TypeOK', StageInv, [Next]_vars, Sound', OnceInv, Begin
  PROVE  OnceInv'
<1>0. OrdersOK /\ WorkOK /\ current \in Ids
  <2>1. OrdersOK /\ WorkOK
    BY TypeParts
  <2> QED
    BY <2>1, OrdersKept DEF Begin, StageInv, AtWork
<1>1. /\ pc = "check" /\ pc' \in {"command", "list"}
      /\ executed' = [executed EXCEPT ![current] = 1]
      /\ UNCHANGED <<current, seen, journal, disk>>
  BY <1>0 DEF Begin, OnceInv, memory, budget, WorkOK
<1>2. ASSUME NEW id \in Ids, Used(id)' PROVE id \in Issued' /\ Remembered(id)'
  <2>1. Used(id)
    BY <1>0, <1>1, <1>2 DEF Used, WorkOK
  <2> QED
    BY <1>1, <2>1, StaysExpired DEF OnceInv, Remembered
<1>3. \A id \in Ids : executed'[id] <= 1
  BY <1>0, <1>1 DEF OnceInv, WorkOK
<1> QED
  BY <1>1, <1>2, <1>3 DEF OnceInv

LEMMA StepNonceInv ==
  TypeOK /\ StageInv /\ NonceInv /\ [Next]_vars => NonceInv'
<1> SUFFICES ASSUME TypeOK, StageInv, NonceInv, [Next]_vars, Sound' PROVE OnceInv'
  BY StepModeInv DEF NonceInv
<1>0. TypeOK' /\ OnceInv /\ BudgetOK /\ ModeInv
  BY StepTypeInv, SoundBefore, TypeParts DEF NonceInv
<1>1. CASE \E id \in Ids : Accept(id)
  BY <1>0, <1>1, AcceptOnce
<1>2. CASE Begin
  BY <1>0, <1>2, BeginOnce
<1>3. CASE \E id \in Ids : Refuse(id)
  BY <1>0, <1>3, StillRemembered
  DEF Refuse, NextOrder, Remembered, Kept, Live, history, budget
<1>4. CASE Start
  <2>1. disk' = 0 /\ seen' = journal /\ disk = 0
    BY <1>0, <1>4 DEF Start, ModeInv, Sound, DiskFails, BudgetOK, budget
  <2> QED
    BY <1>0, <1>4, <2>1, StillRemembered DEF Start, Remembered, history
<1>5. CASE Kill \/ Reboot
  <2>1. disk' = 0 /\ disk = 0 /\ UNCHANGED journal
    BY <1>0, <1>5 DEF Kill, Reboot, Die, Sound, BudgetOK
  <2> QED
    BY <1>0, <1>5, <2>1, StillRemembered DEF Kill, Reboot, Die, Remembered
<1>6. CASE \/ Poll \/ AntiLockout \/ BanCommand \/ ListRules \/ DeleteRule
           \/ InsertRule \/ Report
  <2>1. UNCHANGED <<seen, journal, executed, disk>> /\ pc' \notin {"check", "down"}
        /\ pc # "down"
    BY <1>6
    DEF Poll, AntiLockout, BanCommand, Ban, Unban, ListRules, DeleteRule, InsertRule,
        Report, Finish, CommandFails, memory, budget, history
  <2> QED
    BY <1>0, <2>1, StillRemembered DEF Remembered
<1>7. CASE \/ \E action \in Actions : Issue(action)
           \/ Tick \/ StepBack \/ UNCHANGED vars
  <2>1. UNCHANGED <<seen, journal, executed, disk, pc, current>>
    BY <1>7 DEF Issue, Tick, StepBack, vars, memory, work, budget, history
  <2> QED
    BY <1>0, <2>1, StillRemembered DEF Remembered
<1> QED
  BY <1>1, <1>2, <1>3, <1>4, <1>5, <1>6, <1>7
  DEF Next, ServiceStep, Environment, Guard, Execute

(* An order is executed twice only if the clock was stepped back, or if the *)
(* journal failed and the service died: a lost report, an order delivered   *)
(* again, a kill or a reboot alone never do it.                            *)
THEOREM ReplayNeedsLossHolds == Spec => []ReplayNeedsLoss
<1>1. NonceInv => ReplayNeedsLoss
  BY DEF NonceInv, Sound, OnceInv, ReplayNeedsLoss, AtMostOnce
<1> QED
  BY <1>1, InitTypeInv, StepTypeInv, InitNonceInv, StepNonceInv, PTL DEF Spec
=============================================================================
