----------------------------- MODULE Isolation -----------------------------
(***************************************************************************)
(* Controlled network isolation of a Linux server (isolation.py): the      *)
(* remediation service applies and cancels the isolation, and the local    *)
(* guard (root, every 30 s) removes it at its deadline or when the server  *)
(* has lost contact.  The two processes share, without any lock, the       *)
(* firewall and three files: state.json, heartbeat and guard.stamp.        *)
(*                                                                         *)
(* One step of this module is one command run on the firewall or one file  *)
(* operation, which is where the two processes can interleave.             *)
(***************************************************************************)
EXTENDS Integers, Sequences, FiniteSets

CONSTANTS
    Chains,          \* the dedicated chains of a family, in the order of CHAINS
    Ttls,            \* durations the server may ask for (already range-checked)
    MaxTtl,          \* MAX_TTL_SECONDS
    Grace,           \* LOCAL_GRACE_SECONDS
    ContactTimeout,  \* max(MIN_CONTACT_TIMEOUT, 3 * poll interval)
    GuardFresh,      \* GUARD_FRESH_SECONDS
    GuardPeriod,     \* longest time between two starts of the guard
    MaxClock,        \* bound: last instant considered
    MaxOrders,       \* bound: orders the server sends
    MaxFaults        \* bound: commands and file operations that fail,
                     \*   processes killed, reboots, stops of the timer

ASSUME ConstantsAssumption ==
    /\ Chains \in Seq(STRING) /\ Len(Chains) > 0
    /\ Ttls \subseteq Nat
    /\ {MaxTtl, Grace, ContactTimeout, GuardFresh, MaxClock,
        MaxOrders, MaxFaults} \subseteq Nat
    /\ GuardPeriod \in Nat \ {0}

Families == <<4, 6>>
Places == {4, 6} \X {Chains[i] : i \in 1..Len(Chains)}
PlacesOf(family) == {place \in Places : place[1] = family}

Procs == {"service", "guard"}

(* What read_state() can return: a dict, None or "invalid".                *)
IsolationStates == [started : Nat, deadline : Nat]
NoFile == [started |-> -1, deadline |-> -1]
Unreadable == [started |-> -2, deadline |-> -2]

VARIABLES
    now,       \* wall clock
    jumps,     \* places whose native chain jumps to the dedicated chain
    content,   \* dedicated chain of a place: "absent", "empty" or "rules"
    state,     \* state.json
    heartbeat, \* heartbeat: time of the last contact written
    stamp,     \* guard.stamp: time of the last run written, -1 if absent
    pc,        \* where each process stands
    t0,        \* the `now` each process read when it started
    cursor,    \* next command of the restore_all in progress, per process
    ttl,       \* service: duration of the order in progress
    family,    \* service: index of the family being isolated
    seen,      \* service: jumps of that family read before it is applied
    read,      \* guard: what read_state() returned
    report,    \* service: outcome of the last order
    pending,   \* service: orders of the last answer still to execute
    timer,     \* the timer of the guard: "active" or "stopped"
    orders, faults,                   \* bounded counters
    promised,  \* latest deadline written by an order                (history)
    contact,   \* last contact: answered poll, or start of an order  (history)
    applied,   \* last time a rule set was applied                   (history)
    missed     \* the last restore_all of the service missed a jump  (history)

firewall == <<jumps, content>>
files    == <<state, heartbeat, stamp>>
svcVars  == <<ttl, family, seen, report, pending>>
history  == <<promised, contact, applied, missed>>
budget   == <<orders, faults>>
vars == <<now, firewall, files, pc, t0, cursor, svcVars, read, timer,
          budget, history>>

Max2(a, b) == IF a >= b THEN a ELSE b
Min2(a, b) == IF a <= b THEN a ELSE b

Goto(p, where) == pc' = [pc EXCEPT ![p] = where]

(* Whatever goes wrong takes one unit of a bounded budget.                 *)
Fault == faults < MaxFaults /\ faults' = faults + 1
NoFault == UNCHANGED faults

(* What isolation_jumps() finds: a "-C" that fails, for whatever reason, is *)
(* taken for a jump that is not there.                                     *)
Look(found) ==
    \/ found = jumps /\ NoFault
    \/ found # jumps /\ Fault

Init ==
    /\ now = 0
    /\ jumps = {}
    /\ content = [place \in Places |-> "absent"]
    /\ state = NoFile
    /\ heartbeat = 0
    /\ stamp = -1
    /\ pc = [p \in Procs |-> "idle"]
    /\ t0 = [p \in Procs |-> 0]
    /\ cursor = [p \in Procs |-> 1]
    /\ ttl = 0 /\ family = 1 /\ seen = {} /\ read = NoFile
    /\ report = "none" /\ pending = 0
    /\ timer = "active"
    /\ orders = 0 /\ faults = 0
    /\ promised = 0 /\ contact = 0 /\ applied = 0 /\ missed = FALSE

-----------------------------------------------------------------------------
(* restore_all: for each family, delete the jumps, then flush and delete   *)
(* the dedicated chains; then look for the jumps left, then remove the     *)
(* state file.  A command that fails is noted and the next one is run.     *)

FamilyProgram(f) ==
    [i \in 1..Len(Chains) |-> [op |-> "jump", place |-> <<f, Chains[i]>>]] \o
    [i \in 1..(2 * Len(Chains)) |->
        [op |-> IF i % 2 = 1 THEN "flush" ELSE "delete",
         place |-> <<f, Chains[(i + 1) \div 2]>>]]

RestoreProgram == FamilyProgram(Families[1]) \o FamilyProgram(Families[2])

(* What the kernel does with one command: a chain is deleted only when it  *)
(* is empty and no jump refers to it.  A jump that a look missed may have  *)
(* been inserted twice: it is deleted up to five times, hence altogether.  *)
Execute(command) ==
    LET place == command.place IN
    \/ /\ command.op = "jump"
       /\ jumps' = jumps \ {place}
       /\ UNCHANGED content
    \/ /\ command.op = "flush"
       /\ content' = [content EXCEPT ![place] =
                        IF @ = "rules" THEN "empty" ELSE @]
       /\ UNCHANGED jumps
    \/ /\ command.op = "delete"
       /\ content' = [content EXCEPT ![place] =
                        IF @ = "empty" /\ place \notin jumps THEN "absent" ELSE @]
       /\ UNCHANGED jumps

StartRestore(p) == Goto(p, "restore")

RestoreCommand(p) ==
    /\ pc[p] = "restore"
    /\ cursor[p] <= Len(RestoreProgram)
    /\ \/ Execute(RestoreProgram[cursor[p]]) /\ NoFault
       \/ Fault /\ UNCHANGED firewall
    /\ cursor' = [cursor EXCEPT ![p] = @ + 1]
    /\ UNCHANGED <<now, files, pc, t0, svcVars, read, timer, orders,
                   history>>

(* What the service reports once restore_all returns; the guard only logs. *)
Conclude(p, outcome) ==
    /\ Goto(p, "idle")
    /\ report' = IF p = "service" THEN outcome ELSE report

(* Mutant: the jumps that a failed command left behind are not looked for. *)
RestoreCheckBlind(p) ==
    /\ pc[p] = "restore"
    /\ cursor[p] > Len(RestoreProgram)
    /\ Goto(p, "unlink")
    /\ cursor' = [cursor EXCEPT ![p] = 1]
    /\ UNCHANGED <<now, firewall, files, t0, svcVars, read, timer, budget, history>>

RestoreCheck(p) ==
    /\ pc[p] = "restore"
    /\ cursor[p] > Len(RestoreProgram)
    /\ \E found \in SUBSET jumps :
        /\ Look(found)
        /\ \/ found # {} /\ Conclude(p, "incomplete")
           \/ found = {} /\ Goto(p, "unlink") /\ UNCHANGED report
        /\ missed' = IF p = "service" THEN found = {} /\ jumps # {} ELSE missed
    /\ cursor' = [cursor EXCEPT ![p] = 1]
    /\ UNCHANGED <<now, firewall, files, t0, ttl, family, seen, pending, read,
                   timer, orders, promised, contact, applied>>

RestoreUnlink(p) ==
    /\ pc[p] = "unlink"
    /\ \/ state' = NoFile /\ NoFault
       \/ Fault /\ UNCHANGED state
    /\ Conclude(p, "restored")
    /\ UNCHANGED <<now, firewall, heartbeat, stamp, t0, cursor, ttl, family,
                   seen, pending, read, timer, orders, history>>

Restore(p) == RestoreCommand(p) \/ RestoreCheck(p) \/ RestoreUnlink(p)

-----------------------------------------------------------------------------
(* The remediation service: a poll that the server answers notes the       *)
(* contact, then the order it brings, if any, is executed.                 *)

HeartbeatWritten(t) ==
    \/ heartbeat' = t /\ NoFault
    \/ Fault /\ UNCHANGED heartbeat

Poll ==
    /\ pc["service"] = "idle" /\ pending = 0
    /\ HeartbeatWritten(now)
    /\ contact' = Max2(contact, now)
    /\ pending' \in 0..(MaxOrders - orders)
    /\ orders' = orders + pending'
    /\ UNCHANGED <<now, firewall, state, stamp, pc, t0, cursor, ttl, family,
                   seen, report, read, timer, promised, applied, missed>>

(* Mutant: an order is taken from an empty answer.                         *)
TakeOrderUnguarded ==
    /\ pc["service"] = "idle"
    /\ pending' = pending - 1
    /\ report' = "none"

TakeOrder ==
    /\ pc["service"] = "idle" /\ pending > 0
    /\ pending' = pending - 1
    /\ report' = "none"

TakeIsolateHost ==
    /\ TakeOrder
    /\ Goto("service", "begin")
    /\ ttl' \in Ttls
    /\ UNCHANGED <<now, firewall, files, t0, cursor, family, seen, read, timer,
                   budget, history>>

TakeRestoreNetwork ==
    /\ TakeOrder
    /\ StartRestore("service")
    /\ UNCHANGED <<now, firewall, files, t0, cursor, ttl, family, seen, read, timer,
                   budget, history>>

(* Mutant: a guard that ran once is taken for alive.                       *)
GuardAliveOnce(t) == stamp >= 0

GuardAlive(t) == stamp >= 0 /\ 0 <= t - stamp /\ t - stamp <= GuardFresh

(* The bounded clock reaches every deadline that is promised.              *)
WithinHorizon(deadline) == deadline <= MaxClock

(* isolate() up to the checks; the resolution of the API and the other     *)
(* refusals that depend on the host alone are the free choice to refuse.   *)
IsolateBegin ==
    /\ pc["service"] = "begin"
    /\ t0' = [t0 EXCEPT !["service"] = now]
    /\ \/ /\ GuardAlive(now)
          /\ WithinHorizon(now + ttl + Grace)
          /\ Goto("service", "write")
          /\ UNCHANGED report
       \/ Goto("service", "idle") /\ report' = "refused"
    /\ UNCHANGED <<now, firewall, files, cursor, ttl, family, seen, pending, read,
                   timer, budget, history>>

(* state.json and heartbeat are written before the first rule.             *)
IsolateWrite ==
    /\ pc["service"] = "write"
    /\ LET start == t0["service"]
           deadline == start + ttl + Grace
       IN \/ /\ state' = [started |-> start, deadline |-> deadline]
             /\ HeartbeatWritten(start)
             /\ promised' = Max2(promised, deadline)
             /\ contact' = Max2(contact, start)
             /\ Goto("service", "look")
             /\ UNCHANGED report
          \/ /\ Fault
             /\ Goto("service", "idle")
             /\ report' = "refused"
             /\ UNCHANGED <<state, heartbeat, promised, contact>>
    /\ ttl' = 0
    /\ UNCHANGED <<now, firewall, stamp, t0, cursor, family, seen, pending, read, timer,
                   orders, applied, missed>>

IsolateLook ==
    /\ pc["service"] = "look"
    /\ \E found \in SUBSET jumps :
        /\ Look(found)
        /\ seen' = found \cap PlacesOf(Families[family])
    /\ Goto("service", "apply")
    /\ UNCHANGED <<now, firewall, files, t0, cursor, ttl, family, pending, report,
                   read, timer, orders, history>>

(* One iptables-restore --noflush: the chains are refilled and the jumps   *)
(* inserted all at once.  It deletes the jumps that were seen, and fails as *)
(* a whole when one of them is no longer there.                            *)
IsolateApply ==
    /\ pc["service"] = "apply"
    /\ LET places == PlacesOf(Families[family]) IN
       \/ /\ seen \subseteq jumps
          /\ jumps' = jumps \cup places
          /\ content' = [place \in Places |->
                           IF place \in places THEN "rules" ELSE content[place]]
          /\ applied' = now
          /\ \/ family < Len(Families) /\ Goto("service", "look") /\ family' = family + 1
             \/ family = Len(Families) /\ Goto("service", "verify") /\ family' = 1
          /\ NoFault
       \/ /\ \/ ~(seen \subseteq jumps) /\ NoFault
             \/ Fault
          /\ StartRestore("service")
          /\ family' = 1
          /\ UNCHANGED <<firewall, applied>>
    /\ seen' = {}
    /\ UNCHANGED <<now, files, t0, cursor, ttl, pending, report, read, timer, orders,
                   promised, contact, missed>>

IsolateVerify ==
    /\ pc["service"] = "verify"
    /\ \E found \in SUBSET jumps :
        /\ Look(found)
        /\ \/ /\ found = Places
              /\ Goto("service", "idle")
              /\ report' = "isolated"
           \/ /\ found # Places
              /\ StartRestore("service")
              /\ UNCHANGED report
    /\ UNCHANGED <<now, firewall, files, t0, cursor, ttl, family, seen, pending,
                   read, timer, orders, history>>

ServiceStep ==
    \/ Poll \/ TakeIsolateHost \/ TakeRestoreNetwork
    \/ IsolateBegin \/ IsolateWrite \/ IsolateLook \/ IsolateApply \/ IsolateVerify
    \/ Restore("service")

-----------------------------------------------------------------------------
(* The guard: guard_tick().                                                *)

(* The timer waits one period after each start; at the last instant of the *)
(* bounded clock it may start again at once, since no time is left to wait. *)
GuardDue == now >= t0["guard"] + GuardPeriod \/ now = MaxClock

GuardStart ==
    /\ pc["guard"] = "idle"
    /\ timer = "active" /\ GuardDue
    /\ t0' = [t0 EXCEPT !["guard"] = now]
    /\ \/ stamp' = now /\ NoFault
       \/ Fault /\ UNCHANGED stamp
    /\ Goto("guard", "read")
    /\ UNCHANGED <<now, firewall, state, heartbeat, cursor, svcVars, read,
                   timer, orders, history>>

GuardRead ==
    /\ pc["guard"] = "read"
    /\ \/ read' = state /\ NoFault
       \/ state # NoFile /\ Fault /\ read' = Unreadable
    /\ Goto("guard", "look")
    /\ UNCHANGED <<now, firewall, files, t0, cursor, svcVars, timer, orders,
                   history>>

LocalDeadline(s) == Min2(s.deadline, s.started + MaxTtl + Grace)
(* Mutant: the contact is counted from the start of the isolation alone.   *)
ContactLostSinceStart(s, t) == t - s.started > ContactTimeout
ContactLost(s, t) == t - Max2(s.started, heartbeat) > ContactTimeout

(* Without a heartbeat that it can read, the guard goes by the start.      *)
HeartbeatUnreadable(s, t) ==
    /\ s \notin {NoFile, Unreadable}
    /\ t - s.started > ContactTimeout
    /\ Fault

(* Mutants: the guard does not know the deadline, or the loss of contact.  *)
MustRestoreNoDeadline(s, t) == s \in {NoFile, Unreadable} \/ ContactLost(s, t)
MustRestoreNoContact(s, t) == s \in {NoFile, Unreadable} \/ t >= LocalDeadline(s)

MustRestore(s, t) ==
    \/ s \in {NoFile, Unreadable}
    \/ t >= LocalDeadline(s)
    \/ ContactLost(s, t)

GuardLook ==
    /\ pc["guard"] = "look"
    /\ \/ \E found \in SUBSET jumps :
            /\ Look(found)
            /\ \/ /\ found = {}
                  /\ Goto("guard", IF read = NoFile THEN "idle" ELSE "orphan")
               \/ /\ found # {}
                  /\ MustRestore(read, t0["guard"])
                  /\ StartRestore("guard")
               \/ /\ found # {}
                  /\ ~MustRestore(read, t0["guard"])
                  /\ Goto("guard", "idle")
       \/ /\ jumps # {}
          /\ HeartbeatUnreadable(read, t0["guard"])
          /\ StartRestore("guard")
    /\ read' = NoFile
    /\ UNCHANGED <<now, firewall, files, t0, cursor, svcVars, timer, orders,
                   history>>

(* Mutant: the state without rules is left where it is.                    *)
GuardOrphanKept ==
    /\ pc["guard"] = "orphan"
    /\ Goto("guard", "idle")
    /\ UNCHANGED <<now, firewall, files, t0, cursor, svcVars, read, timer, budget,
                   history>>

(* A state without rules (after a reboot) is removed.                      *)
GuardOrphan ==
    /\ pc["guard"] = "orphan"
    /\ \/ state' = NoFile /\ NoFault
       \/ Fault /\ UNCHANGED state
    /\ Goto("guard", "idle")
    /\ UNCHANGED <<now, firewall, heartbeat, stamp, t0, cursor, svcVars, read,
                   timer, orders, history>>

GuardStep ==
    GuardStart \/ GuardRead \/ GuardLook \/ GuardOrphan \/ Restore("guard")

-----------------------------------------------------------------------------
(* The environment.                                                        *)

(* While its timer is active the guard starts, and ends its run, within    *)
(* GuardPeriod of its last start.                                          *)
ClockTick ==
    /\ now < MaxClock
    /\ timer = "active" => now < t0["guard"] + GuardPeriod
    /\ now' = now + 1
    /\ UNCHANGED <<firewall, files, pc, t0, cursor, svcVars, read, timer,
                   budget, history>>

(* A process is killed at any point: what it holds in memory is lost.      *)
Kill(p) ==
    /\ Fault
    /\ pc[p] # "idle"
    /\ Goto(p, "idle")
    /\ cursor' = [cursor EXCEPT ![p] = 1]
    /\ \/ /\ p = "service"
          /\ ttl' = 0 /\ family' = 1 /\ seen' = {} /\ pending' = 0
          /\ UNCHANGED read
       \/ /\ p = "guard"
          /\ read' = NoFile
          /\ UNCHANGED <<ttl, family, seen, pending>>
    /\ UNCHANGED <<now, firewall, files, t0, report, timer, orders, history>>

(* The rules do not survive a reboot, the files do.                        *)
Reboot ==
    /\ Fault
    /\ jumps' = {}
    /\ content' = [place \in Places |-> "absent"]
    /\ pc' = [p \in Procs |-> "idle"]
    /\ cursor' = [p \in Procs |-> 1]
    /\ ttl' = 0 /\ family' = 1 /\ seen' = {} /\ pending' = 0 /\ read' = NoFile
    /\ UNCHANGED <<now, files, t0, report, timer, orders, history>>

StopTimer ==
    /\ Fault
    /\ timer = "active"
    /\ timer' = "stopped"
    /\ UNCHANGED <<now, firewall, files, pc, t0, cursor, svcVars, read, orders, history>>

Environment == ClockTick \/ (\E p \in Procs : Kill(p)) \/ Reboot \/ StopTimer

Next == ServiceStep \/ GuardStep \/ Environment

(* Only the guard and the clock have to go on: the bound on the isolation  *)
(* may not rest on the service, which can be stuck or dead.                *)
Fairness == WF_vars(GuardStep) /\ WF_vars(ClockTick)

Spec == Init /\ [][Next]_vars
FairSpec == Spec /\ Fairness
-----------------------------------------------------------------------------
(* Properties.                                                             *)

Stages == {"idle", "begin", "write", "look", "apply", "verify",
           "restore", "unlink", "read", "orphan"}
Outcomes == {"none", "refused", "isolated", "restored", "incomplete"}

TypeOK ==
    /\ now \in Nat
    /\ jumps \subseteq Places
    /\ content \in [Places -> {"absent", "empty", "rules"}]
    /\ state \in IsolationStates \cup {NoFile}
    /\ heartbeat \in Nat
    /\ stamp \in Nat \cup {-1}
    /\ pc \in [Procs -> Stages]
    /\ t0 \in [Procs -> Nat]
    /\ cursor \in [Procs -> 1..(Len(RestoreProgram) + 1)]
    /\ ttl \in Nat
    /\ family \in 1..2
    /\ seen \subseteq Places
    /\ read \in IsolationStates \cup {NoFile, Unreadable}
    /\ report \in Outcomes
    /\ pending \in 0..MaxOrders
    /\ timer \in {"active", "stopped"}
    /\ orders \in 0..MaxOrders /\ faults \in 0..MaxFaults
    /\ promised \in Nat /\ contact \in Nat /\ applied \in Nat
    /\ missed \in BOOLEAN

Isolated == jumps # {}
TimerActive == timer = "active"

(* A run of the guard that a fault or a kill spoils costs one period.      *)
GuardDelay == GuardPeriod * (2 + faults)

(* Local restoration at the deadline (lines 21-23): while its timer is     *)
(* active, the guard starts less than a period after the latest deadline   *)
(* promised by an order, and this run reopens the server; a rule set that  *)
(* was applied late may have to wait for the next run.                     *)
BoundedIsolation ==
    TimerActive /\ Isolated =>
        now < Max2(promised, applied + 1) + GuardDelay

(* The safety switch (lines 21-23): an isolated server that is out of      *)
(* contact for longer than the timeout is reopened, whatever its deadline. *)
DeadMansSwitch ==
    TimerActive /\ Isolated =>
        now <= Max2(contact, applied) + ContactTimeout + GuardDelay

(* An order that reports the network restored, or its isolation cancelled, *)
(* leaves no jump of any family behind, whatever commands failed and       *)
(* however the guard interleaved, unless the last look itself failed: a    *)
(* "-C" that fails is taken for a missing jump (lines 87-88, 317).         *)
RestoredMeansOpen == report = "restored" => ~Isolated \/ missed

(* Isolation is refused unless the local guard has run recently (line 25): *)
(* no rule is applied for an order that started more than GuardFresh after *)
(* the guard's last start.                                                 *)
RestorationGuaranteed ==
    pc["service"] = "write" =>
        t0["service"] <= t0["guard"] + GuardFresh

(* The guard does not lift early an isolation that was reported as in place *)
(* (lines 21-23).  Without failure, its decision to restore has a cause: the *)
(* deadline on disk, the loss of contact, or one of the two races with the *)
(* order.  Its run read the state before the order wrote it (line 411), or *)
(* the run before it found no rule yet and removed that state (line 414):  *)
(* both started at most a period after the rules were applied.             *)
NotLiftedEarly ==
    [][ /\ report = "isolated" /\ faults' = 0
        /\ pc["guard"] = "look" /\ pc'["guard"] = "restore"
        => \/ state # NoFile /\ t0["guard"] >= LocalDeadline(state)
           \/ t0["guard"] > contact + ContactTimeout
           \/ t0["guard"] <= applied + GuardPeriod ]_vars

(* The server is always reopened, even if the service never takes another  *)
(* step, as long as the guard's timer stays active, and no state file stays *)
(* behind: not the one of that isolation, nor one left without rules by a   *)
(* reboot or by a crash before the first rule.                             *)
Reopened ==
    ((Isolated \/ state # NoFile) /\ TimerActive) ~>
        ((~Isolated /\ state = NoFile) \/ ~TimerActive)

(* "Tout le reste est rejete" (line 13): an isolation reported to the      *)
(* server as in place drops traffic in every chain of both families.       *)
ReportedMeansEffective ==
    [][ report # "isolated" /\ report' = "isolated"
        => \A place \in Places : content[place] = "rules" ]_vars
=============================================================================
