-------------------------- MODULE IsolationProofs --------------------------
(* What the isolation and its guard keep true for every value of the       *)
(* constants: any number of chains, orders and faults.                     *)
EXTENDS Isolation, SequenceTheorems, TLAPS

Commands == [op : {"jump", "flush", "delete"}, place : {4, 6} \X STRING]

(* The commands of restore_all form a finite sequence, which begins in each *)
(* family with the deletion of the jumps.                                  *)
LEMMA FamilyProgramIs ==
  ASSUME NEW f \in {4, 6}
  PROVE  /\ FamilyProgram(f) \in Seq(Commands)
         /\ Len(FamilyProgram(f)) \in Nat /\ Len(Chains) <= Len(FamilyProgram(f))
         /\ \A i \in 1..Len(Chains) :
               FamilyProgram(f)[i] = [op |-> "jump", place |-> <<f, Chains[i]>>]
<1>1. Chains \in Seq(STRING) /\ Len(Chains) \in Nat
  BY ConstantsAssumption
<1> DEFINE Deletions ==
             [i \in 1..Len(Chains) |-> [op |-> "jump", place |-> <<f, Chains[i]>>]]
<1> DEFINE Removals ==
             [i \in 1..(2 * Len(Chains)) |->
                [op |-> IF i % 2 = 1 THEN "flush" ELSE "delete",
                 place |-> <<f, Chains[(i + 1) \div 2]>>]]
<1>2. \A i \in 1..Len(Chains) : Chains[i] \in STRING
  BY <1>1
<1>3. Deletions \in Seq(Commands) /\ Len(Deletions) = Len(Chains)
  BY <1>1, <1>2 DEF Commands
<1>4. Removals \in Seq(Commands)
  <2>1. \A i \in 1..(2 * Len(Chains)) : (i + 1) \div 2 \in 1..Len(Chains)
    BY <1>1
  <2>2. \A i \in 1..(2 * Len(Chains)) : Chains[(i + 1) \div 2] \in STRING
    BY <1>2, <2>1
  <2>3. 2 * Len(Chains) \in Nat
    BY <1>1
  <2>4. \A i \in 1..(2 * Len(Chains)) :
          [op |-> IF i % 2 = 1 THEN "flush" ELSE "delete",
           place |-> <<f, Chains[(i + 1) \div 2]>>] \in Commands
    BY <2>2 DEF Commands
  <2> QED
    BY <2>3, <2>4
<1>5. \A i \in 1..Len(Chains) : Deletions[i] = [op |-> "jump", place |-> <<f, Chains[i]>>]
  OBVIOUS
<1>6. FamilyProgram(f) = Deletions \o Removals
  BY DEF FamilyProgram
<1> HIDE DEF Deletions, Removals
<1>7. Len(Removals) \in Nat
  BY <1>4
<1> QED
  BY <1>1, <1>3, <1>4, <1>5, <1>6, <1>7, ConcatProperties

LEMMA ProgramIsSequence == RestoreProgram \in Seq(Commands)
<1>1. Families[1] \in {4, 6} /\ Families[2] \in {4, 6}
  BY DEF Families
<1> QED
  BY <1>1, FamilyProgramIs, ConcatProperties DEF RestoreProgram

LEMMA NaturalConstants ==
  /\ MaxTtl \in Nat /\ Grace \in Nat /\ ContactTimeout \in Nat
  /\ GuardFresh \in Nat /\ GuardPeriod \in Nat /\ MaxClock \in Nat
  /\ MaxOrders \in Nat /\ MaxFaults \in Nat
  /\ Ttls \subseteq Nat
BY ConstantsAssumption

LEMMA MaxIsNatural ==
  ASSUME NEW a \in Nat, NEW b \in Nat
  PROVE  Max2(a, b) \in Nat
BY DEF Max2

LEMMA OrdersCounted ==
  ASSUME NEW limit \in Nat, NEW taken \in 0..limit, NEW more \in 0..(limit - taken)
  PROVE  more \in 0..limit /\ taken + more \in 0..limit
OBVIOUS

(* A failure leaves the bounded counter of failures within its bound.      *)
LEMMA FaultCounted ==
  ASSUME faults \in 0..MaxFaults, Fault \/ NoFault
  PROVE  faults' \in 0..MaxFaults
BY NaturalConstants DEF Fault, NoFault

LEMMA LookCounted ==
  ASSUME faults \in 0..MaxFaults, NEW found, Look(found)
  PROVE  faults' \in 0..MaxFaults
BY FaultCounted DEF Look

LEMMA ProgramLength == Len(RestoreProgram) \in Nat
BY ProgramIsSequence

-----------------------------------------------------------------------------
(* Type correctness.                                                       *)

LEMMA InitTypeOK == Init => TypeOK
<1> SUFFICES ASSUME Init PROVE TypeOK
  OBVIOUS
<1>1. missed \in BOOLEAN
  BY Zenon DEF Init
<1>2. cursor \in [Procs -> 1..(Len(RestoreProgram) + 1)]
  BY ProgramLength DEF Init
<1> QED
  BY <1>1, <1>2, NaturalConstants
     DEF Init, TypeOK, Procs, Stages, Outcomes, IsolationStates, NoFile

LEMMA RestoreTypeOK ==
  ASSUME TypeOK, NEW p \in Procs, Restore(p)
  PROVE  TypeOK'
<1>1. CASE RestoreCommand(p)
  <2>1. /\ jumps' \subseteq Places
        /\ content' \in [Places -> {"absent", "empty", "rules"}]
    BY <1>1 DEF TypeOK, RestoreCommand, Execute, firewall
  <2>2. faults' \in 0..MaxFaults
    BY <1>1, FaultCounted DEF TypeOK, RestoreCommand
  <2>3. cursor' \in [Procs -> 1..(Len(RestoreProgram) + 1)]
    BY <1>1, ProgramLength DEF TypeOK, RestoreCommand
  <2> QED
    BY <1>1, <2>1, <2>2, <2>3
       DEF TypeOK, RestoreCommand, files, svcVars, history
<1>2. CASE RestoreCheck(p)
  <2>1. /\ pc' \in [Procs -> Stages]
        /\ report' \in Outcomes
    BY <1>2 DEF TypeOK, RestoreCheck, Conclude, Goto, Stages, Outcomes
  <2>2. cursor' \in [Procs -> 1..(Len(RestoreProgram) + 1)]
    BY <1>2, ProgramLength DEF TypeOK, RestoreCheck
  <2>3. faults' \in 0..MaxFaults
    BY <1>2, LookCounted DEF TypeOK, RestoreCheck
  <2>4. missed' \in BOOLEAN
    BY <1>2 DEF TypeOK, RestoreCheck
  <2> QED
    BY <1>2, <2>1, <2>2, <2>3, <2>4 DEF TypeOK, RestoreCheck, firewall, files
<1>3. CASE RestoreUnlink(p)
  <2>1. /\ pc' \in [Procs -> Stages]
        /\ report' \in Outcomes
    BY <1>3 DEF TypeOK, RestoreUnlink, Conclude, Goto, Stages, Outcomes
  <2>2. state' \in IsolationStates \cup {NoFile} /\ faults' \in 0..MaxFaults
    BY <1>3, NaturalConstants DEF TypeOK, RestoreUnlink, Fault, NoFault
  <2> QED
    BY <1>3, <2>1, <2>2 DEF TypeOK, RestoreUnlink, firewall, history
<1> QED
  BY <1>1, <1>2, <1>3 DEF Restore

LEMMA ServiceTypeOK ==
  ASSUME TypeOK, ServiceStep
  PROVE  TypeOK'
<1> USE NaturalConstants DEF TypeOK, Goto, Procs, Stages, Outcomes
<1>1. CASE Poll
  <2>1. pending' \in 0..MaxOrders /\ orders' \in 0..MaxOrders
    <3>1. pending' \in 0..(MaxOrders - orders) /\ orders' = orders + pending'
      BY <1>1 DEF Poll
    <3>2. orders \in 0..MaxOrders /\ MaxOrders \in Nat
      OBVIOUS
    <3> QED
      BY <3>1, <3>2, OrdersCounted
  <2>2. heartbeat' \in Nat /\ contact' \in Nat /\ faults' \in 0..MaxFaults
    BY <1>1 DEF Poll, HeartbeatWritten, Fault, NoFault, Max2
  <2> QED
    BY <1>1, <2>1, <2>2 DEF Poll, firewall
<1>2. CASE TakeIsolateHost
  BY <1>2 DEF TakeIsolateHost, TakeOrder, firewall, files, budget, history
<1>3. CASE TakeRestoreNetwork
  BY <1>3
     DEF TakeRestoreNetwork, TakeOrder, StartRestore, firewall, files, budget, history
<1>4. CASE IsolateBegin
  BY <1>4 DEF IsolateBegin, firewall, files, budget, history
<1>5. CASE IsolateWrite
  <2>1. t0["service"] \in Nat /\ t0["service"] + ttl + Grace \in Nat
    OBVIOUS
  <2>2. state' \in IsolationStates \cup {NoFile}
    BY <1>5, <2>1 DEF IsolateWrite, IsolationStates
  <2>3. heartbeat' \in Nat
    BY <1>5, <2>1 DEF IsolateWrite, HeartbeatWritten
  <2>5. promised' \in Nat /\ contact' \in Nat
    BY <1>5, <2>1, MaxIsNatural DEF IsolateWrite
  <2>6. faults' \in 0..MaxFaults
    BY <1>5, FaultCounted DEF IsolateWrite, HeartbeatWritten
  <2>4. /\ pc' \in [Procs -> Stages]
        /\ report' \in Outcomes
    BY <1>5 DEF IsolateWrite
  <2> QED
    BY <1>5, <2>2, <2>3, <2>4, <2>5, <2>6 DEF IsolateWrite, firewall
<1>6. CASE IsolateLook
  <2>1. faults' \in 0..MaxFaults
    BY <1>6, LookCounted DEF IsolateLook
  <2>2. seen' \subseteq Places
    BY <1>6 DEF IsolateLook, PlacesOf
  <2> QED
    BY <1>6, <2>1, <2>2 DEF IsolateLook, firewall, files, history
<1>7. CASE IsolateApply
  <2>1. /\ jumps' \subseteq Places
        /\ content' \in [Places -> {"absent", "empty", "rules"}]
        /\ faults' \in 0..MaxFaults
        /\ applied' \in Nat
    BY <1>7 DEF IsolateApply, PlacesOf, Fault, NoFault, firewall
  <2>2. family' \in 1..2
    BY <1>7 DEF IsolateApply, Families
  <2> QED
    BY <1>7, <2>1, <2>2 DEF IsolateApply, StartRestore, files
<1>8. CASE IsolateVerify
  <2>1. faults' \in 0..MaxFaults
    BY <1>8, LookCounted DEF IsolateVerify
  <2>2. pc' \in [Procs -> Stages] /\ report' \in Outcomes
    BY <1>8 DEF IsolateVerify, StartRestore
  <2> QED
    BY <1>8, <2>1, <2>2 DEF IsolateVerify, firewall, files, history
<1>9. CASE Restore("service")
  BY <1>9, RestoreTypeOK
<1> QED
  BY <1>1, <1>2, <1>3, <1>4, <1>5, <1>6, <1>7, <1>8, <1>9 DEF ServiceStep

LEMMA GuardTypeOK ==
  ASSUME TypeOK, GuardStep
  PROVE  TypeOK'
<1> USE NaturalConstants DEF TypeOK, Goto, Procs, Stages, Outcomes
<1>1. CASE GuardStart
  BY <1>1 DEF GuardStart, Fault, NoFault, firewall, svcVars, history
<1>2. CASE GuardRead
  BY <1>2 DEF GuardRead, Fault, NoFault, firewall, files, svcVars, history
<1>3. CASE GuardLook
  <2>1. faults' \in 0..MaxFaults
    BY <1>3, LookCounted, FaultCounted DEF GuardLook, HeartbeatUnreadable
  <2>2. pc' \in [Procs -> Stages]
    BY <1>3 DEF GuardLook, StartRestore
  <2> QED
    BY <1>3, <2>1, <2>2 DEF GuardLook, firewall, files, svcVars, history
<1>4. CASE GuardOrphan
  BY <1>4 DEF GuardOrphan, Fault, NoFault, firewall, svcVars, history
<1>5. CASE Restore("guard")
  BY <1>5, RestoreTypeOK
<1> QED
  BY <1>1, <1>2, <1>3, <1>4, <1>5 DEF GuardStep

LEMMA EnvironmentTypeOK ==
  ASSUME TypeOK, Environment
  PROVE  TypeOK'
<1> USE NaturalConstants DEF TypeOK, Goto, Procs, Stages, Fault
<1>1. CASE ClockTick
  BY <1>1 DEF ClockTick, firewall, files, svcVars, budget, history
<1>2. ASSUME NEW p \in Procs, Kill(p)
      PROVE  TypeOK'
  BY <1>2, ProgramLength DEF Kill, firewall, files, history
<1>3. CASE Reboot
  BY <1>3, ProgramLength DEF Reboot, files, history
<1>4. CASE StopTimer
  BY <1>4 DEF StopTimer, firewall, files, svcVars, history
<1> QED
  BY <1>1, <1>2, <1>3, <1>4 DEF Environment

LEMMA StepTypeOK == TypeOK /\ [Next]_vars => TypeOK'
<1> SUFFICES ASSUME TypeOK, [Next]_vars
             PROVE  TypeOK'
  OBVIOUS
<1>1. CASE Next
  BY <1>1, ServiceTypeOK, GuardTypeOK, EnvironmentTypeOK DEF Next
<1>2. CASE UNCHANGED vars
  BY <1>2 DEF TypeOK, vars, firewall, files, svcVars, budget, history
<1> QED
  BY <1>1, <1>2

(* Every variable keeps its type in every execution.                       *)
THEOREM TypeCorrect == Spec => []TypeOK
<1>1. Init => TypeOK
  BY InitTypeOK
<1>2. TypeOK /\ [Next]_vars => TypeOK'
  BY StepTypeOK
<1> QED
  BY <1>1, <1>2, PTL DEF Spec

-----------------------------------------------------------------------------
(* An order that reports the network restored leaves no jump behind.  On   *)
(* its own the property is not inductive: it takes that the report is      *)
(* cleared for as long as the service is at work, and that there is no jump *)
(* left when the service removes the state file, unless its look missed    *)
(* one; this stays true because only the service itself adds jumps.        *)
ReportInv ==
    /\ pc["service"] # "idle" => report = "none"
    /\ pc["service"] = "unlink" => jumps = {} \/ missed
    /\ RestoredMeansOpen

LEMMA RestoreReportInv ==
  ASSUME TypeOK, ReportInv, NEW p \in Procs, Restore(p)
  PROVE  ReportInv'
<1> USE DEF ReportInv, RestoredMeansOpen, Isolated, Procs, Goto
<1>0. pc \in [Procs -> Stages]
  BY DEF TypeOK
<1>1. CASE RestoreCommand(p)
  <2>1. jumps' \subseteq jumps
    BY <1>1 DEF RestoreCommand, Execute, firewall
  <2> QED
    BY <1>1, <2>1 DEF RestoreCommand, svcVars, history
<1>2. CASE RestoreCheck(p)
  BY <1>0, <1>2 DEF RestoreCheck, Conclude, firewall
<1>3. CASE RestoreUnlink(p)
  BY <1>0, <1>3 DEF RestoreUnlink, Conclude, firewall, history
<1> QED
  BY <1>1, <1>2, <1>3 DEF Restore

LEMMA StepReportInv ==
  ASSUME TypeOK, ReportInv, [Next]_vars
  PROVE  ReportInv'
<1> USE DEF ReportInv, RestoredMeansOpen, Isolated, Goto, StartRestore
<1>0. pc \in [Procs -> Stages] /\ Procs = {"service", "guard"}
  BY DEF TypeOK, Procs
<1>1. CASE ServiceStep
  <2>1. CASE Poll
    BY <2>1 DEF Poll, firewall, history
  <2>2. CASE TakeIsolateHost
    BY <1>0, <2>2 DEF TakeIsolateHost, TakeOrder, firewall, history
  <2>3. CASE TakeRestoreNetwork
    BY <1>0, <2>3 DEF TakeRestoreNetwork, TakeOrder, firewall, history
  <2>4. CASE IsolateBegin
    BY <1>0, <2>4 DEF IsolateBegin, firewall, history
  <2>5. CASE IsolateWrite
    BY <1>0, <2>5 DEF IsolateWrite, firewall, history
  <2>6. CASE IsolateLook
    BY <1>0, <2>6 DEF IsolateLook, firewall, history
  <2>7. CASE IsolateApply
    BY <1>0, <2>7 DEF IsolateApply, firewall, history
  <2>8. CASE IsolateVerify
    BY <1>0, <2>8 DEF IsolateVerify, firewall, history
  <2>9. CASE Restore("service")
    BY <1>0, <2>9, RestoreReportInv
  <2> QED
    BY <1>1, <2>1, <2>2, <2>3, <2>4, <2>5, <2>6, <2>7, <2>8, <2>9 DEF ServiceStep
<1>2. CASE GuardStep
  <2>1. CASE Restore("guard")
    BY <1>0, <2>1, RestoreReportInv
  <2>2. CASE GuardStart \/ GuardRead \/ GuardLook \/ GuardOrphan
    BY <1>0, <2>2
       DEF GuardStart, GuardRead, GuardLook, GuardOrphan, firewall, svcVars, history
  <2> QED
    BY <1>2, <2>1, <2>2 DEF GuardStep
<1>3. CASE Environment
  <2>1. CASE ClockTick \/ StopTimer
    BY <2>1 DEF ClockTick, StopTimer, firewall, svcVars, history
  <2>2. ASSUME NEW p \in Procs, Kill(p)
        PROVE  ReportInv'
    BY <1>0, <2>2 DEF Kill, firewall, history
  <2>3. CASE Reboot
    BY <1>0, <2>3 DEF Reboot, history
  <2> QED
    BY <1>3, <2>1, <2>2, <2>3 DEF Environment
<1>4. CASE UNCHANGED vars
  BY <1>4 DEF vars, firewall, svcVars, history
<1> QED
  BY <1>1, <1>2, <1>3, <1>4 DEF Next

(* Whatever fails and however the guard interleaves, "restored" means that *)
(* neither family of the firewall keeps a jump.                            *)
THEOREM RestoredMeansOpenHolds == Spec => []RestoredMeansOpen
<1>1. Init => TypeOK /\ ReportInv
  <2>1. Init => ReportInv
    BY DEF Init, ReportInv, RestoredMeansOpen, Isolated, Procs
  <2> QED
    BY <2>1, InitTypeOK
<1>2. TypeOK /\ ReportInv /\ [Next]_vars => TypeOK' /\ ReportInv'
  BY StepTypeOK, StepReportInv
<1>3. ReportInv => RestoredMeansOpen
  BY DEF ReportInv
<1> QED
  BY <1>1, <1>2, <1>3, PTL DEF Spec

-----------------------------------------------------------------------------
(* Isolation only starts when the guard has run recently.  The stamp that  *)
(* the service reads may be older than the guard's last start (its write   *)
(* can fail), never newer.                                                 *)
StampInv ==
    /\ stamp <= t0["guard"]
    /\ t0["guard"] <= now
    /\ RestorationGuaranteed

LEMMA StepStampInv ==
  ASSUME TypeOK, StampInv, [Next]_vars
  PROVE  StampInv'
<1> USE DEF StampInv, RestorationGuaranteed, Goto, StartRestore
<1>0. /\ pc \in [Procs -> Stages] /\ t0 \in [Procs -> Nat]
      /\ Procs = {"service", "guard"}
      /\ now \in Nat /\ stamp \in Int /\ GuardFresh \in Nat
  BY NaturalConstants DEF TypeOK, Procs
<1>1. CASE ServiceStep
  <2>1. CASE Poll \/ TakeIsolateHost \/ TakeRestoreNetwork
    BY <1>0, <2>1
       DEF Poll, TakeIsolateHost, TakeRestoreNetwork, TakeOrder, files
  <2>2. CASE IsolateBegin
    BY <1>0, <2>2 DEF IsolateBegin, GuardAlive, files
  <2>3. CASE IsolateWrite
    BY <1>0, <2>3 DEF IsolateWrite
  <2>4. CASE IsolateLook \/ IsolateApply \/ IsolateVerify
    BY <1>0, <2>4 DEF IsolateLook, IsolateApply, IsolateVerify, files
  <2>5. CASE Restore("service")
    BY <1>0, <2>5
       DEF Restore, RestoreCommand, RestoreCheck, RestoreUnlink, Conclude, files
  <2> QED
    BY <1>1, <2>1, <2>2, <2>3, <2>4, <2>5 DEF ServiceStep
<1>2. CASE GuardStep
  <2>1. CASE GuardStart
    BY <1>0, <2>1 DEF GuardStart
  <2>2. CASE GuardRead \/ GuardLook \/ GuardOrphan
    BY <1>0, <2>2 DEF GuardRead, GuardLook, GuardOrphan, files
  <2>3. CASE Restore("guard")
    BY <1>0, <2>3
       DEF Restore, RestoreCommand, RestoreCheck, RestoreUnlink, Conclude, files
  <2> QED
    BY <1>2, <2>1, <2>2, <2>3 DEF GuardStep
<1>3. CASE Environment
  <2>1. CASE ClockTick
    BY <1>0, <2>1 DEF ClockTick, files
  <2>2. ASSUME NEW p \in Procs, Kill(p)
        PROVE  StampInv'
    BY <1>0, <2>2 DEF Kill, files
  <2>3. CASE Reboot \/ StopTimer
    BY <1>0, <2>3 DEF Reboot, StopTimer, files
  <2> QED
    BY <1>3, <2>1, <2>2, <2>3 DEF Environment
<1>4. CASE UNCHANGED vars
  BY <1>4 DEF vars, files
<1> QED
  BY <1>1, <1>2, <1>3, <1>4 DEF Next

(* No order isolates the server unless the guard started at most           *)
(* GuardFresh before that order, so that a restoration is to be expected.  *)
THEOREM RestorationGuaranteedHolds == Spec => []RestorationGuaranteed
<1>1. Init => TypeOK /\ StampInv
  <2>1. Init => StampInv
    BY DEF Init, StampInv, RestorationGuaranteed, Procs
  <2> QED
    BY <2>1, InitTypeOK
<1>2. TypeOK /\ StampInv /\ [Next]_vars => TypeOK' /\ StampInv'
  BY StepTypeOK, StepStampInv
<1>3. StampInv => RestorationGuaranteed
  BY DEF StampInv
<1> QED
  BY <1>1, <1>2, <1>3, PTL DEF Spec

-----------------------------------------------------------------------------
(* The two bounds on an isolation.  The guard starts every period while its *)
(* timer is active.  A run that starts at the horizon h, or later, must    *)
(* restore: it leaves no jump, unless a fault spoils it or rules are       *)
(* applied behind it.  So, whatever is isolated, the last run started      *)
(* before Late(h), or it is still at work and started less than a period   *)
(* later.                                                                  *)
Spent == GuardPeriod * faults
Late(h) == Max2(h, applied + 1) + Spent
Working == pc["guard"] \in {"read", "look", "restore"}
Cleared ==
    \A i \in 1..Len(RestoreProgram) :
        i < cursor["guard"] /\ RestoreProgram[i].op = "jump" =>
            RestoreProgram[i].place \notin jumps
InTime(h) ==
    TimerActive /\ Isolated =>
        /\ Working => t0["guard"] < Late(h) + GuardPeriod
        /\ ~Working => t0["guard"] < Late(h)
        /\ pc["guard"] = "restore" => t0["guard"] < Late(h) \/ Cleared
Expires(h) ==
    pc["guard"] = "look" /\ t0["guard"] >= h => MustRestore(read, t0["guard"])

ClockInv ==
    /\ t0["guard"] <= now /\ applied <= now
    /\ TimerActive => now <= t0["guard"] + GuardPeriod
    /\ pc["guard"] # "restore" => cursor["guard"] = 1

(* What the guard knows of an order is not later than what was promised.   *)
Sooner(s) ==
    s \in {NoFile, Unreadable} \/ (s.deadline <= promised /\ s.started <= contact)
KnownInv == Sooner(state) /\ Sooner(read) /\ heartbeat <= contact

LEMMA PeriodIsNatural == GuardPeriod \in Nat
BY ConstantsAssumption

LEMMA SpentIs ==
  ASSUME NEW n \in Nat, NEW m \in Nat
  PROVE  /\ n * m \in Nat
         /\ n * (m + 1) = n * m + n
         /\ n * (2 + m) = n * m + n + n
OBVIOUS

(* The commands of restore_all delete the jump of every place.             *)
LEMMA EveryJumpCommanded ==
  ASSUME NEW place \in Places
  PROVE  \E i \in 1..Len(RestoreProgram) :
            RestoreProgram[i].op = "jump" /\ RestoreProgram[i].place = place
<1>1. Len(Chains) \in Nat
  BY ConstantsAssumption
<1>2. PICK f \in {4, 6}, j \in 1..Len(Chains) : place = <<f, Chains[j]>>
  BY DEF Places
<1>3. RestoreProgram = FamilyProgram(4) \o FamilyProgram(6)
  BY DEF RestoreProgram, Families
<1> DEFINE m == Len(FamilyProgram(4))
           n == Len(FamilyProgram(6))
<1>4. /\ m \in Nat /\ n \in Nat /\ Len(Chains) <= m /\ Len(Chains) <= n
      /\ FamilyProgram(4) \in Seq(Commands) /\ FamilyProgram(6) \in Seq(Commands)
  BY FamilyProgramIs
<1>5. /\ Len(RestoreProgram) = m + n
      /\ \A i \in 1..(m + n) :
            RestoreProgram[i] = IF i <= m THEN FamilyProgram(4)[i]
                                          ELSE FamilyProgram(6)[i - m]
  BY <1>3, <1>4, ConcatProperties
<1>6. CASE f = 4
  <2>1. j \in 1..(m + n) /\ j <= m
    BY <1>1, <1>4
  <2>2. RestoreProgram[j] = FamilyProgram(4)[j]
    BY <1>5, <2>1
  <2>3. FamilyProgram(4)[j] = [op |-> "jump", place |-> <<4, Chains[j]>>]
    BY FamilyProgramIs
  <2> QED
    BY <1>2, <1>5, <1>6, <2>1, <2>2, <2>3
<1>7. CASE f = 6
  <2>1. m + j \in 1..(m + n) /\ ~(m + j <= m) /\ (m + j) - m = j
    BY <1>1, <1>4
  <2>2. RestoreProgram[m + j] = FamilyProgram(6)[j]
    BY <1>5, <2>1
  <2>3. FamilyProgram(6)[j] = [op |-> "jump", place |-> <<6, Chains[j]>>]
    BY FamilyProgramIs
  <2>4. /\ m + j \in 1..Len(RestoreProgram)
        /\ RestoreProgram[m + j] = [op |-> "jump", place |-> place]
    BY <1>2, <1>5, <1>7, <2>1, <2>2, <2>3
  <2>5. PICK i \in 1..Len(RestoreProgram) :
            RestoreProgram[i] = [op |-> "jump", place |-> place]
    BY <2>4
  <2> QED
    BY <2>5
<1> QED
  BY <1>6, <1>7

-----------------------------------------------------------------------------
(* Steps, seen from the clock and the guard.                               *)
LEMMA SpentGrows ==
  ASSUME TypeOK
  PROVE  /\ Spent \in Nat
         /\ Fault => Spent' = Spent + GuardPeriod
         /\ NoFault => Spent' = Spent
BY PeriodIsNatural, SpentIs DEF TypeOK, Spent, Fault, NoFault

LEMMA FaultOrNot ==
  ASSUME TypeOK, [Next]_vars
  PROVE  Fault \/ NoFault
<1> USE DEF Fault, NoFault, Look, HeartbeatWritten, budget
<1>1. CASE ServiceStep
  BY <1>1 DEF ServiceStep, Poll, TakeIsolateHost, TakeRestoreNetwork, IsolateBegin,
     IsolateWrite, IsolateLook, IsolateApply, IsolateVerify, Restore, RestoreCommand,
     RestoreCheck, RestoreUnlink
<1>2. CASE GuardStep
  BY <1>2 DEF GuardStep, GuardStart, GuardRead, GuardLook, GuardOrphan,
     HeartbeatUnreadable, Restore, RestoreCommand, RestoreCheck, RestoreUnlink
<1>3. CASE Environment
  BY <1>3 DEF Environment, ClockTick, Kill, Reboot, StopTimer
<1>4. CASE UNCHANGED vars
  BY <1>4 DEF vars
<1> QED
  BY <1>1, <1>2, <1>3, <1>4 DEF Next

LEMMA ServiceLeavesGuard ==
  ASSUME TypeOK, ServiceStep
  PROVE  /\ pc'["guard"] = pc["guard"] /\ t0'["guard"] = t0["guard"]
         /\ cursor'["guard"] = cursor["guard"]
         /\ UNCHANGED <<now, read, timer>>
         /\ \/ jumps' \subseteq jumps /\ applied' = applied
            \/ applied' = now
<1> USE DEF TypeOK, Goto, Procs
<1>1. CASE Poll
  BY <1>1 DEF Poll, firewall
<1>2. CASE TakeIsolateHost \/ TakeRestoreNetwork
  BY <1>2 DEF TakeIsolateHost, TakeRestoreNetwork, TakeOrder, StartRestore, firewall,
              history
<1>3. CASE IsolateBegin \/ IsolateWrite
  BY <1>3 DEF IsolateBegin, IsolateWrite, firewall, history
<1>4. CASE IsolateLook \/ IsolateVerify
  BY <1>4 DEF IsolateLook, IsolateVerify, StartRestore, firewall, history
<1>5. CASE IsolateApply
  BY <1>5 DEF IsolateApply, StartRestore, firewall
<1>6. CASE Restore("service")
  BY <1>6 DEF Restore, RestoreCommand, RestoreCheck, RestoreUnlink, Execute, Conclude,
              firewall, history
<1> QED
  BY <1>1, <1>2, <1>3, <1>4, <1>5, <1>6 DEF ServiceStep

LEMMA ClockStep ==
  ASSUME TypeOK, ClockInv, [Next]_vars
  PROVE  ClockInv'
<1> USE PeriodIsNatural DEF ClockInv
<1>0. /\ t0 \in [Procs -> Nat] /\ now \in Nat /\ applied \in Nat
      /\ pc \in [Procs -> Stages] /\ Procs = {"service", "guard"}
      /\ cursor \in [Procs -> 1..(Len(RestoreProgram) + 1)]
  BY DEF TypeOK, Procs
<1>1. CASE ServiceStep
  <2>1. applied' = applied \/ applied' = now
    BY <1>1, ServiceLeavesGuard
  <2> QED
    BY <1>0, <1>1, <2>1, ServiceLeavesGuard DEF TimerActive
<1>2. CASE GuardStart
  BY <1>0, <1>2 DEF GuardStart, Goto, TimerActive, history
<1>3. CASE GuardRead \/ GuardLook \/ GuardOrphan
  BY <1>0, <1>3 DEF GuardRead, GuardLook, GuardOrphan, StartRestore, Goto, TimerActive,
                    history
<1>4. CASE Restore("guard")
  BY <1>0, <1>4 DEF Restore, RestoreCommand, RestoreCheck, RestoreUnlink, Conclude, Goto,
                    TimerActive, history
<1>5. CASE ClockTick
  BY <1>0, <1>5 DEF ClockTick, TimerActive, history
<1>6. ASSUME NEW p \in Procs, Kill(p) PROVE ClockInv'
  BY <1>0, <1>6 DEF Kill, Goto, TimerActive, history
<1>7. CASE Reboot \/ StopTimer
  BY <1>0, <1>7 DEF Reboot, StopTimer, TimerActive, history
<1>8. CASE UNCHANGED vars
  BY <1>8 DEF vars, TimerActive, history
<1> QED
  BY <1>1, <1>2, <1>3, <1>4, <1>5, <1>6, <1>7, <1>8 DEF Next, GuardStep, Environment

LEMMA MaxIsUpper ==
  ASSUME NEW a \in Nat, NEW b \in Nat
  PROVE  Max2(a, b) \in Nat /\ a <= Max2(a, b) /\ b <= Max2(a, b)
BY DEF Max2

LEMMA FieldsAreNumbers ==
  ASSUME NEW s \in IsolationStates \cup {NoFile, Unreadable}
  PROVE  s.deadline \in Int /\ s.started \in Int
BY DEF IsolationStates, NoFile, Unreadable

LEMMA KnownStep ==
  ASSUME TypeOK, ClockInv, KnownInv, [Next]_vars
  PROVE  /\ KnownInv' /\ promised' \in Nat /\ promised <= promised'
         /\ contact' \in Nat /\ contact <= contact'
<1> USE DEF KnownInv, Sooner
<1>0. /\ promised \in Nat /\ contact \in Nat /\ now \in Nat /\ heartbeat \in Nat
      /\ ttl \in Nat /\ t0["service"] \in Nat /\ Grace \in Nat
  BY NaturalConstants DEF TypeOK, Procs
<1>10. /\ state.deadline \in Int /\ state.started \in Int
       /\ read.deadline \in Int /\ read.started \in Int
  BY FieldsAreNumbers DEF TypeOK
<1>1. CASE Poll
  <2>1. /\ contact' \in Nat /\ contact <= contact' /\ now <= contact'
        /\ heartbeat' \in {heartbeat, now}
        /\ UNCHANGED <<state, read, promised>>
    BY <1>0, <1>1, MaxIsUpper DEF Poll, HeartbeatWritten
  <2>2. heartbeat' <= contact'
    BY <1>0, <2>1
  <2> QED
    BY <1>0, <1>10, <2>1, <2>2
<1>2. CASE TakeIsolateHost \/ TakeRestoreNetwork
  BY <1>0, <1>2 DEF TakeIsolateHost, TakeRestoreNetwork, TakeOrder, files, history
<1>3. CASE IsolateBegin \/ IsolateLook \/ IsolateVerify \/ IsolateApply
  BY <1>0, <1>3 DEF IsolateBegin, IsolateLook, IsolateVerify, IsolateApply, files, history
<1>4. CASE IsolateWrite
  <2> DEFINE start == t0["service"]
             deadline == t0["service"] + ttl + Grace
  <2>1. start \in Nat /\ deadline \in Nat /\ read' = read
    BY <1>0, <1>4 DEF IsolateWrite
  <2>2. CASE /\ state' = [started |-> start, deadline |-> deadline]
             /\ HeartbeatWritten(start)
             /\ promised' = Max2(promised, deadline)
             /\ contact' = Max2(contact, start)
    <3> HIDE DEF start, deadline
    <3>1. state'.deadline = deadline /\ state'.started = start
      BY <2>2
    <3>2. /\ contact' \in Nat /\ contact <= contact' /\ start <= contact'
          /\ promised' \in Nat /\ promised <= promised' /\ deadline <= promised'
      BY <1>0, <2>1, <2>2, MaxIsUpper
    <3>3. heartbeat' \in {heartbeat, start}
      BY <2>2 DEF HeartbeatWritten
    <3>4. heartbeat' <= contact'
      BY <1>0, <2>1, <3>2, <3>3
    <3> QED
      BY <1>0, <1>10, <2>1, <3>1, <3>2, <3>4
  <2>3. CASE UNCHANGED <<state, heartbeat, promised, contact>>
    BY <1>0, <2>1, <2>3
  <2> QED
    BY <1>4, <2>2, <2>3 DEF IsolateWrite
<1>5. ASSUME NEW p \in Procs, Restore(p)
      PROVE  /\ KnownInv' /\ promised' \in Nat /\ promised <= promised'
             /\ contact' \in Nat /\ contact <= contact'
  BY <1>0, <1>5 DEF Restore, RestoreCommand, RestoreCheck, RestoreUnlink, files, history
<1>6. CASE GuardStart \/ GuardRead
  BY <1>0, <1>6 DEF GuardStart, GuardRead, files, history
<1>7. CASE GuardLook \/ GuardOrphan
  BY <1>0, <1>7 DEF GuardLook, GuardOrphan, files, history
<1>8. CASE Environment
  BY <1>0, <1>8 DEF Environment, ClockTick, Kill, Reboot, StopTimer, files, history
<1>9. CASE UNCHANGED vars
  BY <1>0, <1>9 DEF vars, files, history
<1> QED
  BY <1>1, <1>2, <1>3, <1>4, <1>5, <1>6, <1>7, <1>8, <1>9
  DEF Next, ServiceStep, GuardStep, Procs

(* The guard that reads its clock at the horizon, or later, must restore.  *)
LEMMA DeadlineExpires ==
  ASSUME TypeOK, KnownInv
  PROVE  Expires(promised)
<1> SUFFICES ASSUME t0["guard"] >= promised, read \notin {NoFile, Unreadable}
             PROVE  t0["guard"] >= LocalDeadline(read)
  BY DEF Expires, MustRestore
<1>1. /\ read \in IsolationStates /\ promised \in Nat /\ t0["guard"] \in Nat
      /\ MaxTtl \in Nat /\ Grace \in Nat
  BY NaturalConstants DEF TypeOK, Procs
<1>2. read.deadline <= promised /\ read.deadline \in Nat /\ read.started \in Nat
  BY <1>1 DEF KnownInv, Sooner, IsolationStates
<1> QED
  BY <1>1, <1>2 DEF LocalDeadline, Min2

LEMMA ContactExpires ==
  ASSUME TypeOK, KnownInv
  PROVE  Expires(contact + ContactTimeout + 1)
<1> SUFFICES ASSUME t0["guard"] >= contact + ContactTimeout + 1,
                    read \notin {NoFile, Unreadable}
             PROVE  ContactLost(read, t0["guard"])
  BY DEF Expires, MustRestore
<1>1. /\ read \in IsolationStates /\ contact \in Nat /\ t0["guard"] \in Nat
      /\ ContactTimeout \in Nat /\ heartbeat \in Nat
  BY NaturalConstants DEF TypeOK, Procs
<1>2. read.started <= contact /\ heartbeat <= contact /\ read.started \in Nat
  BY <1>1 DEF KnownInv, Sooner, IsolationStates
<1> QED
  BY <1>1, <1>2 DEF ContactLost, Max2

LEMMA LaterHorizon ==
  ASSUME NEW h \in Nat, NEW k \in Nat, NEW a \in Nat, NEW b \in Nat, h <= k, a <= b
  PROVE  /\ Max2(h, a + 1) \in Nat /\ Max2(k, b + 1) \in Nat
         /\ Max2(h, a + 1) <= Max2(k, b + 1)
         /\ h <= Max2(h, a + 1) /\ b < Max2(k, b + 1)
BY DEF Max2

(* Late never falls back, and a fault puts it off by one period.           *)
LEMMA LateGrows ==
  ASSUME TypeOK, ClockInv, [Next]_vars, NEW h \in Nat, NEW k \in Nat, h <= k
  PROVE  /\ Late(h) \in Nat /\ Late(k)' \in Nat /\ Late(h) <= Late(k)'
         /\ h <= Late(h)
         /\ Fault => Late(h) + GuardPeriod <= Late(k)'
         /\ applied' < Late(k)'
<1>1. applied \in Nat /\ applied' \in Nat /\ applied <= applied'
  <2>1. applied' = applied \/ applied' = now
    <3>1. CASE ServiceStep
      BY <3>1, ServiceLeavesGuard
    <3>2. CASE GuardStep
      BY <3>2 DEF GuardStep, GuardStart, GuardRead, GuardLook, GuardOrphan, Restore,
         RestoreCommand, RestoreCheck, RestoreUnlink, history
    <3>3. CASE Environment
      BY <3>3 DEF Environment, ClockTick, Kill, Reboot, StopTimer, history
    <3>4. CASE UNCHANGED vars
      BY <3>4 DEF vars, history
    <3> QED
      BY <3>1, <3>2, <3>3, <3>4 DEF Next
  <2> QED
    BY <2>1 DEF TypeOK, ClockInv
<1> DEFINE before == Max2(h, applied + 1)
           after == Max2(k, applied' + 1)
<1>2. /\ before \in Nat /\ after \in Nat /\ before <= after
      /\ h <= before /\ applied' < after
  BY <1>1, LaterHorizon
<1>3. Late(h) = before + Spent /\ Late(k)' = after + Spent'
  BY DEF Late
<1> HIDE DEF before, after
<1>4. /\ Spent \in Nat /\ GuardPeriod \in Nat
      /\ Fault => Spent' = Spent + GuardPeriod
      /\ NoFault => Spent' = Spent
  BY SpentGrows, PeriodIsNatural
<1>5. CASE Fault
  BY <1>1, <1>2, <1>3, <1>4, <1>5
<1>6. CASE ~Fault
  BY <1>1, <1>2, <1>3, <1>4, <1>6, FaultOrNot
<1> QED
  BY <1>5, <1>6

(* Three ways to stay in time: nothing moves but the bound; a fault spoils *)
(* the run; rules are applied now, after its start.                        *)
LEMMA InTimeStays ==
  ASSUME TypeOK, ClockInv, [Next]_vars, NEW h \in Nat, NEW k \in Nat, h <= k, InTime(h),
         timer' = timer, jumps' \subseteq jumps, t0'["guard"] = t0["guard"],
         Working' => pc'["guard"] = pc["guard"] /\ cursor'["guard"] = cursor["guard"],
         Working => Working'
  PROVE  InTime(k)'
<1>1. /\ t0["guard"] \in Nat /\ GuardPeriod \in Nat
      /\ Late(h) \in Nat /\ Late(k)' \in Nat /\ Late(h) <= Late(k)'
  BY LateGrows, PeriodIsNatural DEF TypeOK, Procs
<1> SUFFICES ASSUME TimerActive', Isolated'
    PROVE  /\ Working' => t0'["guard"] < Late(k)' + GuardPeriod
           /\ ~Working' => t0'["guard"] < Late(k)'
           /\ pc'["guard"] = "restore" => t0'["guard"] < Late(k)' \/ Cleared'
  BY DEF InTime
<1>2. TimerActive /\ Isolated
  BY DEF TimerActive, Isolated
<1>3. t0["guard"] < Late(h) => t0["guard"] < Late(k)'
  BY <1>1
<1>4. Working' => Working
  BY DEF Working
<1>5. Working' => t0["guard"] < Late(k)' + GuardPeriod
  BY <1>1, <1>2, <1>4 DEF InTime
<1>6. ~Working' => t0["guard"] < Late(k)'
  BY <1>2, <1>3 DEF InTime
<1>7. ASSUME pc'["guard"] = "restore" PROVE t0["guard"] < Late(k)' \/ Cleared'
  <2>1. Working' /\ pc["guard"] = "restore" /\ cursor'["guard"] = cursor["guard"]
    BY <1>7 DEF Working
  <2>2. Cleared => Cleared'
    BY <2>1 DEF Cleared
  <2> QED
    BY <1>2, <1>3, <2>1, <2>2 DEF InTime
<1> QED
  BY <1>5, <1>6, <1>7

LEMMA RunStays ==
  ASSUME TypeOK, ClockInv, [Next]_vars, NEW h \in Nat, NEW k \in Nat, h <= k,
         t0["guard"] < Late(h) + GuardPeriod, t0'["guard"] = t0["guard"]
  PROVE  t0'["guard"] < Late(k)' + GuardPeriod
<1>1. /\ t0["guard"] \in Nat /\ GuardPeriod \in Nat
      /\ Late(h) \in Nat /\ Late(k)' \in Nat /\ Late(h) <= Late(k)'
  BY LateGrows, PeriodIsNatural DEF TypeOK, Procs
<1> QED
  BY <1>1

LEMMA InTimeAnyway ==
  ASSUME TypeOK, ClockInv, [Next]_vars, NEW h \in Nat, NEW k \in Nat, h <= k,
         \/ ~TimerActive' \/ ~Isolated'
         \/ /\ t0'["guard"] = t0["guard"]
            /\ \/ TimerActive /\ Isolated /\ Fault /\ InTime(h)
               \/ t0["guard"] < Late(h)
               \/ applied' = now
  PROVE  InTime(k)'
<1>1. /\ t0["guard"] \in Nat /\ GuardPeriod \in Nat /\ GuardPeriod > 0
      /\ Late(h) \in Nat /\ Late(k)' \in Nat /\ Late(h) <= Late(k)'
      /\ Fault => Late(h) + GuardPeriod <= Late(k)'
      /\ applied' < Late(k)' /\ t0["guard"] <= now /\ now \in Nat
  <2>1. t0["guard"] \in Nat /\ now \in Nat /\ t0["guard"] <= now
    BY DEF TypeOK, Procs, ClockInv
  <2>2. GuardPeriod \in Nat /\ GuardPeriod > 0
    BY ConstantsAssumption
  <2> QED
    BY <2>1, <2>2, LateGrows
<1>2. CASE ~TimerActive' \/ ~Isolated'
  BY <1>2 DEF InTime
<1>3. CASE TimerActive' /\ Isolated'
  <2>1. t0'["guard"] < Late(k)' /\ t0'["guard"] = t0["guard"]
    <3>1. CASE TimerActive /\ Isolated /\ Fault /\ InTime(h)
      <4>1. t0["guard"] < Late(h) + GuardPeriod
        BY <1>1, <3>1 DEF InTime
      <4> QED
        BY <1>1, <1>3, <3>1, <4>1
    <3>2. CASE t0["guard"] < Late(h)
      BY <1>1, <1>3, <3>2
    <3>3. CASE applied' = now
      BY <1>1, <1>3, <3>3
    <3> QED
      BY <1>3, <3>1, <3>2, <3>3
  <2>2. t0'["guard"] < Late(k)' + GuardPeriod
    BY <1>1, <2>1
  <2> QED
    BY <2>1, <2>2 DEF InTime
<1> QED
  BY <1>2, <1>3

(* A command of the guard's restore_all: the jumps up to the cursor stay    *)
(* away, unless the command fails.                                         *)
LEMMA CommandClears ==
  ASSUME TypeOK, Cleared, RestoreCommand("guard"), NoFault
  PROVE  Cleared' /\ jumps' \subseteq jumps
<1> DEFINE c == cursor["guard"]
<1>1. /\ Execute(RestoreProgram[c]) /\ c \in Nat /\ cursor'["guard"] = c + 1
  BY DEF RestoreCommand, NoFault, Fault, TypeOK, Procs
<1>2. jumps' \subseteq jumps
  BY <1>1 DEF Execute
<1>3. ASSUME NEW i \in 1..Len(RestoreProgram), i < c + 1, RestoreProgram[i].op = "jump"
      PROVE  RestoreProgram[i].place \notin jumps'
  <2>1. CASE i < c
    BY <1>2, <1>3, <2>1 DEF Cleared
  <2>2. CASE i = c
    BY <1>1, <1>3, <2>2 DEF Execute
  <2> QED
    BY <1>1, <1>3, <2>1, <2>2, ProgramLength
<1> QED
  BY <1>1, <1>2, <1>3 DEF Cleared

LEMMA ClearedIsOpen ==
  ASSUME TypeOK, Cleared, cursor["guard"] > Len(RestoreProgram)
  PROVE  ~Isolated
<1>1. ASSUME NEW place \in jumps PROVE FALSE
  <2>1. PICK i \in 1..Len(RestoreProgram) :
            RestoreProgram[i].op = "jump" /\ RestoreProgram[i].place = place
    BY EveryJumpCommanded DEF TypeOK
  <2>2. i < cursor["guard"]
    BY <2>1, ProgramLength DEF TypeOK, Procs
  <2> QED
    BY <1>1, <2>1, <2>2 DEF Cleared
<1> QED
  BY <1>1 DEF Isolated

LEMMA GuardRestoreInTime ==
  ASSUME TypeOK, ClockInv, [Next]_vars, NEW h \in Nat, NEW k \in Nat, h <= k, InTime(h),
         Restore("guard")
  PROVE  InTime(k)'
<1>1. /\ UNCHANGED <<timer, t0, applied>> /\ jumps' \subseteq jumps
      /\ Fault \/ NoFault
  BY FaultOrNot DEF Restore, RestoreCommand, RestoreCheck, RestoreUnlink, Execute, firewall,
                    history
<1>2. pc \in [Procs -> Stages] /\ Procs = {"service", "guard"}
  BY DEF TypeOK, Procs
<1>3. CASE ~TimerActive' \/ ~Isolated'
  BY <1>3, InTimeAnyway
<1>4. CASE TimerActive /\ Isolated /\ Fault
  BY <1>1, <1>4, InTimeAnyway
<1>5. CASE TimerActive' /\ Isolated' /\ NoFault
  <2>1. TimerActive /\ Isolated
    BY <1>1, <1>5 DEF TimerActive, Isolated
  <2>2. CASE t0["guard"] < Late(h)
    BY <1>1, <2>2, InTimeAnyway
  <2>3. CASE ~(t0["guard"] < Late(h)) /\ RestoreCommand("guard")
    <3>1. /\ pc["guard"] = "restore" /\ pc' = pc /\ Cleared
      BY <2>1, <2>3 DEF RestoreCommand, InTime
    <3>2. Cleared'
      BY <1>5, <2>3, <3>1, CommandClears
    <3>3. t0["guard"] < Late(h) + GuardPeriod
      BY <2>1, <3>1 DEF InTime, Working
    <3>4. t0'["guard"] < Late(k)' + GuardPeriod
      BY <1>1, <3>3, RunStays
    <3> QED
      BY <3>1, <3>2, <3>4 DEF InTime, Working
  <2>4. CASE ~(t0["guard"] < Late(h)) /\ RestoreCheck("guard")
    <3>1. Cleared /\ cursor["guard"] > Len(RestoreProgram)
      BY <2>1, <2>4 DEF RestoreCheck, InTime
    <3> QED
      BY <2>1, <3>1, ClearedIsOpen
  <2>5. CASE ~(t0["guard"] < Late(h)) /\ RestoreUnlink("guard")
    BY <2>1, <2>5 DEF RestoreUnlink, InTime, Working
  <2> QED
    BY <2>2, <2>3, <2>4, <2>5 DEF Restore
<1>6. CASE TimerActive' /\ Isolated' /\ Fault
  BY <1>1, <1>4, <1>6 DEF TimerActive, Isolated
<1> QED
  BY <1>1, <1>3, <1>5, <1>6

LEMMA GuardLookInTime ==
  ASSUME TypeOK, ClockInv, [Next]_vars, NEW h \in Nat, NEW k \in Nat, h <= k, InTime(h),
         Expires(h), GuardLook
  PROVE  InTime(k)'
<1>1. /\ UNCHANGED <<timer, t0, applied, jumps, cursor>> /\ pc["guard"] = "look"
      /\ Fault \/ NoFault
  BY FaultOrNot DEF GuardLook, firewall, history
<1>2. pc \in [Procs -> Stages] /\ "guard" \in Procs
  BY DEF TypeOK, Procs
<1>3. CASE ~TimerActive' \/ ~Isolated'
  BY <1>3, InTimeAnyway
<1>4. CASE TimerActive' /\ Isolated' /\ Fault
  BY <1>1, <1>4, InTimeAnyway DEF TimerActive, Isolated
<1>5. CASE TimerActive' /\ Isolated' /\ NoFault
  <2>1. TimerActive /\ Isolated /\ ~Fault
    <3>1. faults \in Nat
      BY DEF TypeOK
    <3> QED
      BY <1>1, <1>5, <3>1 DEF TimerActive, Isolated, Fault, NoFault
  <2>2. \/ MustRestore(read, t0["guard"]) /\ StartRestore("guard")
        \/ ~MustRestore(read, t0["guard"])
    BY <2>1 DEF GuardLook, Look, Isolated, HeartbeatUnreadable
  <2>3. CASE ~MustRestore(read, t0["guard"])
    <3>1. t0["guard"] < h
      BY <1>1, <2>3 DEF Expires, TypeOK, Procs
    <3>2. t0["guard"] < Late(h)
      <4>1. t0["guard"] \in Nat
        BY DEF TypeOK, Procs
      <4>2. h <= Late(h) /\ Late(h) \in Nat
        BY LateGrows
      <4> QED
        BY <3>1, <4>1, <4>2
    <3> QED
      BY <1>1, <3>2, InTimeAnyway
  <2>4. CASE StartRestore("guard")
    <3>1. pc'["guard"] = "restore" /\ cursor'["guard"] = 1
      BY <1>1, <1>2, <2>4 DEF StartRestore, Goto, ClockInv
    <3>2. Cleared'
      BY <3>1, ProgramLength DEF Cleared
    <3>3. t0["guard"] < Late(h) + GuardPeriod
      BY <1>1, <2>1 DEF InTime, Working
    <3>4. t0'["guard"] < Late(k)' + GuardPeriod
      BY <1>1, <3>3, RunStays
    <3> QED
      BY <3>1, <3>2, <3>4 DEF InTime, Working
  <2> QED
    BY <2>2, <2>3, <2>4
<1> QED
  BY <1>1, <1>3, <1>4, <1>5

LEMMA InTimeStep ==
  ASSUME TypeOK, ClockInv, [Next]_vars, NEW h \in Nat, NEW k \in Nat, h <= k, InTime(h),
         Expires(h)
  PROVE  InTime(k)'
<1>0. /\ pc \in [Procs -> Stages] /\ Procs = {"service", "guard"}
      /\ t0 \in [Procs -> Nat] /\ cursor \in [Procs -> 1..(Len(RestoreProgram) + 1)]
  BY DEF TypeOK, Procs
<1>1. CASE ServiceStep
  <2>1. /\ pc'["guard"] = pc["guard"] /\ t0'["guard"] = t0["guard"]
        /\ cursor'["guard"] = cursor["guard"] /\ timer' = timer
        /\ jumps' \subseteq jumps \/ applied' = now
    BY <1>1, ServiceLeavesGuard
  <2>2. CASE jumps' \subseteq jumps
    BY <2>1, <2>2, InTimeStays DEF Working
  <2>3. CASE applied' = now
    BY <2>1, <2>3, InTimeAnyway
  <2> QED
    BY <2>1, <2>2, <2>3
<1>2. CASE GuardStart
  <2>1. /\ pc["guard"] = "idle" /\ pc'["guard"] = "read" /\ t0'["guard"] = now
        /\ UNCHANGED <<jumps, timer>> /\ TimerActive
    BY <1>0, <1>2 DEF GuardStart, Goto, firewall, TimerActive
  <2>2. ASSUME Isolated' PROVE t0'["guard"] < Late(k)' + GuardPeriod
    <3>1. t0["guard"] < Late(h) /\ now <= t0["guard"] + GuardPeriod
      BY <2>1, <2>2 DEF InTime, Isolated, Working, ClockInv
    <3>2. now \in Nat /\ t0["guard"] \in Nat
      BY <1>0 DEF TypeOK
    <3> QED
      BY <2>1, <3>1, <3>2, LateGrows, PeriodIsNatural
  <2> QED
    BY <2>1, <2>2 DEF InTime, Working
<1>3. CASE GuardRead
  <2>1. /\ pc["guard"] = "read" /\ pc'["guard"] = "look"
        /\ UNCHANGED <<jumps, timer, t0>>
    BY <1>0, <1>3 DEF GuardRead, Goto, firewall
  <2>2. ASSUME TimerActive', Isolated' PROVE t0'["guard"] < Late(k)' + GuardPeriod
    <3>1. t0["guard"] < Late(h) + GuardPeriod
      BY <2>1, <2>2 DEF InTime, Isolated, TimerActive, Working
    <3> QED
      BY <2>1, <3>1, RunStays
  <2> QED
    BY <2>1, <2>2 DEF InTime, Working
<1>4. CASE GuardLook
  BY <1>4, GuardLookInTime
<1>5. CASE GuardOrphan
  BY <1>0, <1>5, InTimeStays DEF GuardOrphan, Goto, firewall, Working
<1>6. CASE Restore("guard")
  BY <1>6, GuardRestoreInTime
<1>7. CASE ClockTick
  BY <1>7, InTimeStays DEF ClockTick, firewall, Working
<1>8. ASSUME NEW p \in Procs, Kill(p) PROVE InTime(k)'
  <2>1. UNCHANGED <<jumps, timer, t0>> /\ Fault
    BY <1>8 DEF Kill, firewall
  <2>2. CASE TimerActive' /\ Isolated'
    BY <2>1, <2>2, InTimeAnyway DEF TimerActive, Isolated
  <2> QED
    BY <2>2, InTimeAnyway
<1>9. CASE Reboot
  BY <1>9, InTimeAnyway DEF Reboot, Isolated
<1>10. CASE StopTimer
  BY <1>10, InTimeAnyway DEF StopTimer, TimerActive
<1>11. CASE UNCHANGED vars
  BY <1>11, InTimeStays DEF vars, firewall, Working
<1> QED
  BY <1>1, <1>2, <1>3, <1>4, <1>5, <1>6, <1>7, <1>8, <1>9, <1>10, <1>11
  DEF Next, GuardStep, Environment

LEMMA HorizonGrows ==
  ASSUME NEW a \in Nat, NEW b \in Nat, NEW d \in Nat, a <= b
  PROVE  a + d + 1 \in Nat /\ b + d + 1 \in Nat /\ a + d + 1 <= b + d + 1
OBVIOUS

BoundsInv ==
    /\ ClockInv /\ KnownInv
    /\ InTime(promised) /\ InTime(contact + ContactTimeout + 1)

LEMMA BoundsStep ==
  ASSUME TypeOK, BoundsInv, [Next]_vars
  PROVE  BoundsInv'
<1>1. /\ ClockInv' /\ KnownInv' /\ promised' \in Nat /\ promised <= promised'
      /\ contact' \in Nat /\ contact <= contact'
  BY ClockStep, KnownStep DEF BoundsInv
<1>2. promised \in Nat /\ contact \in Nat /\ ContactTimeout \in Nat
  BY NaturalConstants DEF TypeOK
<1>3. InTime(promised)'
  <2>1. PICK h \in Nat, k \in Nat : h = promised /\ k = promised'
    BY <1>1, <1>2
  <2>2. h <= k /\ InTime(h) /\ Expires(h)
    BY <1>1, <2>1, DeadlineExpires DEF BoundsInv, InTime, Late, Expires
  <2>3. InTime(k)'
    BY <2>2, InTimeStep DEF BoundsInv
  <2> QED
    BY <2>1, <2>3 DEF InTime, Late
<1>4. InTime(contact + ContactTimeout + 1)'
  <2>1. PICK h \in Nat, k \in Nat :
            /\ h = contact + ContactTimeout + 1 /\ k = contact' + ContactTimeout + 1
            /\ h <= k
    <3>1. /\ contact + ContactTimeout + 1 \in Nat /\ contact' + ContactTimeout + 1 \in Nat
          /\ contact + ContactTimeout + 1 <= contact' + ContactTimeout + 1
      BY <1>1, <1>2, HorizonGrows
    <3> QED
      BY <3>1, Zenon
  <2>2. h <= k
    BY <2>1
  <2>3. InTime(h) /\ Expires(h)
    BY <2>1, ContactExpires DEF BoundsInv, InTime, Late, Expires
  <2>4. InTime(k)'
    BY <2>2, <2>3, InTimeStep DEF BoundsInv
  <2> QED
    BY <2>1, <2>4 DEF InTime, Late
<1> QED
  BY <1>1, <1>3, <1>4 DEF BoundsInv

LEMMA BoundsAlways == Spec => [](TypeOK /\ BoundsInv)
<1>1. Init => TypeOK /\ BoundsInv
  <2>1. Init => BoundsInv
    BY PeriodIsNatural
    DEF Init, BoundsInv, ClockInv, KnownInv, Sooner, InTime, Isolated, Procs
  <2> QED
    BY <2>1, InitTypeOK
<1>2. TypeOK /\ BoundsInv /\ [Next]_vars => TypeOK' /\ BoundsInv'
  BY StepTypeOK, BoundsStep
<1> QED
  BY <1>1, <1>2, PTL DEF Spec

(* A run that has not ended started before Late(h) + GuardPeriod, and the   *)
(* clock is at most one period later.                                      *)
LEMMA InTimeBounds ==
  ASSUME TypeOK, ClockInv, NEW h \in Nat, InTime(h), TimerActive, Isolated
  PROVE  now < Max2(h, applied + 1) + GuardDelay
<1> DEFINE m == Max2(h, applied + 1)
<1>1. /\ GuardPeriod \in Nat /\ t0["guard"] \in Nat /\ now \in Nat /\ Spent \in Nat
      /\ applied \in Nat /\ now <= t0["guard"] + GuardPeriod
  BY PeriodIsNatural, SpentGrows DEF TypeOK, Procs, ClockInv
<1>2. m \in Nat
  BY <1>1, LaterHorizon
<1>3. GuardDelay = Spent + GuardPeriod + GuardPeriod
  BY <1>1, SpentIs DEF GuardDelay, Spent, TypeOK
<1>4. Late(h) = m + Spent
  BY DEF Late
<1> HIDE DEF m
<1>5. t0["guard"] < m + Spent + GuardPeriod
  BY <1>1, <1>2, <1>4, ConstantsAssumption DEF InTime
<1> QED
  BY <1>1, <1>2, <1>3, <1>5 DEF m

(* While its timer is active, the guard reopens the server less than two   *)
(* periods after the latest deadline promised, or after the rules were     *)
(* applied, and one more period for each fault, for all durations and      *)
(* whatever the service does.                                              *)
THEOREM BoundedIsolationHolds == Spec => []BoundedIsolation
<1>1. TypeOK /\ BoundsInv => BoundedIsolation
  BY InTimeBounds DEF BoundsInv, BoundedIsolation, TypeOK
<1> QED
  BY <1>1, BoundsAlways, PTL

(* The same for a server that is out of contact for longer than the        *)
(* timeout, whatever its deadline.                                         *)
THEOREM DeadMansSwitchHolds == Spec => []DeadMansSwitch
<1>1. TypeOK /\ BoundsInv => DeadMansSwitch
  <2> SUFFICES ASSUME TypeOK, BoundsInv, TimerActive, Isolated
               PROVE  now <= Max2(contact, applied) + ContactTimeout + GuardDelay
    BY DEF DeadMansSwitch
  <2>1. /\ contact \in Nat /\ applied \in Nat /\ ContactTimeout \in Nat /\ now \in Nat
    BY NaturalConstants DEF TypeOK
  <2>2. now < Max2(contact + ContactTimeout + 1, applied + 1) + GuardDelay
    BY <2>1, InTimeBounds DEF BoundsInv
  <2>3. GuardDelay \in Nat
    BY PeriodIsNatural, SpentIs DEF GuardDelay, TypeOK
  <2>4. Max2(contact + ContactTimeout + 1, applied + 1)
          <= Max2(contact, applied) + ContactTimeout + 1
    BY <2>1 DEF Max2
  <2>5. /\ Max2(contact + ContactTimeout + 1, applied + 1) \in Nat
        /\ Max2(contact, applied) \in Nat
    BY <2>1 DEF Max2
  <2> QED
    BY <2>1, <2>2, <2>3, <2>4, <2>5
<1> QED
  BY <1>1, BoundsAlways, PTL

-----------------------------------------------------------------------------
(* The guard lifts no isolation early.  An isolation stands from the time   *)
(* its state is written.  What the guard can do to it with what it knew      *)
(* before is done by a run that started before the rules were last applied  *)
(* (Since), or, if such a run removed the state file, by the next one.       *)
Standing == report = "isolated" \/ pc["service"] \in {"look", "apply", "verify"}
Unapplied == report # "isolated" /\ pc["service"] \in {"look", "apply"} /\ family = 1
Since == IF Unapplied THEN now ELSE applied
Early == t0["guard"] <= Since

(* A run that removes the state took the server for open.                  *)
RemovesInv == pc["guard"] \in {"orphan", "unlink"} /\ Isolated => Early
(* What the guard read is what the state file says.                        *)
ReadsInv == pc["guard"] = "look" => Early \/ read = state
(* Without a state file, the next run of the guard lifts the isolation.    *)
StatelessInv ==
    state = NoFile /\ Isolated =>
        /\ Working => t0["guard"] <= Since + GuardPeriod
        /\ ~Working => Early
        /\ pc["guard"] = "restore" => Early \/ Cleared

ContactInv ==
    /\ heartbeat = contact /\ contact <= now /\ t0["service"] <= now
    /\ pc["service"] = "write" => contact <= t0["service"]

CauseInv ==
    faults = 0 =>
        /\ TimerActive /\ ContactInv
        /\ pc["service"] \notin {"look", "apply"} => family = 1
        /\ Standing => RemovesInv /\ ReadsInv /\ StatelessInv

LEMMA QuietStep ==
  ASSUME TypeOK, [Next]_vars, faults' = 0
  PROVE  faults = 0 /\ ~Fault /\ NoFault
<1>1. faults \in Nat
  BY DEF TypeOK
<1> QED
  BY <1>1, FaultOrNot DEF Fault, NoFault

LEMMA SinceIs ==
  ASSUME TypeOK, ClockInv
  PROVE  /\ Since \in Nat /\ t0["guard"] \in Nat /\ now \in Nat /\ GuardPeriod \in Nat
         /\ applied \in Nat /\ t0["guard"] <= now
BY PeriodIsNatural DEF TypeOK, ClockInv, Since, Procs

(* What is applied or written now is later than the start of any run.      *)
LEMMA EarlyStands ==
  ASSUME TypeOK', ClockInv', Early'
  PROVE  RemovesInv' /\ ReadsInv' /\ StatelessInv'
<1>1. /\ Since' \in Nat /\ t0'["guard"] \in Nat /\ GuardPeriod \in Nat
  BY PeriodIsNatural DEF TypeOK, ClockInv, Since, Procs
<1>2. t0'["guard"] <= Since' + GuardPeriod
  BY <1>1 DEF Early
<1> QED
  BY <1>2 DEF RemovesInv, ReadsInv, StatelessInv

(* A step that leaves the guard alone and inserts no rule.                 *)
LEMMA StillStands ==
  ASSUME TypeOK, ClockInv, TypeOK', ClockInv', RemovesInv, ReadsInv, StatelessInv,
         pc'["guard"] = pc["guard"], t0'["guard"] = t0["guard"],
         cursor'["guard"] = cursor["guard"], UNCHANGED <<read, state>>,
         jumps' \subseteq jumps, Since <= Since'
  PROVE  RemovesInv' /\ ReadsInv' /\ StatelessInv'
<1>1. /\ Since \in Nat /\ Since' \in Nat /\ t0["guard"] \in Nat /\ GuardPeriod \in Nat
  BY SinceIs, PeriodIsNatural DEF TypeOK, ClockInv, Since, Procs
<1>2. /\ Early => Early'
      /\ t0["guard"] <= Since + GuardPeriod => t0'["guard"] <= Since' + GuardPeriod
  BY <1>1 DEF Early
<1>3. (Isolated' => Isolated) /\ (Working' <=> Working) /\ (Cleared => Cleared')
  BY DEF Isolated, Working, Cleared
<1> QED
  BY <1>2, <1>3 DEF RemovesInv, ReadsInv, StatelessInv

LEMMA ServiceStands ==
  ASSUME TypeOK, ClockInv, ReportInv, CauseInv, [Next]_vars, ServiceStep, faults' = 0, Standing'
  PROVE  RemovesInv' /\ ReadsInv' /\ StatelessInv'
<1>0. /\ pc \in [Procs -> Stages] /\ Procs = {"service", "guard"} /\ family \in 1..2
      /\ Len(Families) = 2
  BY DEF TypeOK, Procs, Families
<1>1. faults = 0 /\ ~Fault
  BY QuietStep
<1>2. TypeOK' /\ ClockInv' /\ t0["guard"] <= now
  BY StepTypeOK, ClockStep DEF ClockInv
<1>3. /\ pc'["guard"] = pc["guard"] /\ t0'["guard"] = t0["guard"]
      /\ cursor'["guard"] = cursor["guard"] /\ UNCHANGED <<now, read>>
  BY ServiceLeavesGuard
<1>4. pc["service"] # "idle" => report = "none"
  BY DEF ReportInv
<1>5. CASE Poll
  <2>1. Standing /\ UNCHANGED <<state, jumps>> /\ Since' = Since
    BY <1>0, <1>5 DEF Poll, Standing, Since, Unapplied, firewall
  <2>2. Since <= Since'
    BY <2>1, SinceIs
  <2> QED
    BY <1>1, <1>2, <1>3, <2>1, <2>2, StillStands DEF CauseInv
<1>6. CASE TakeIsolateHost \/ TakeRestoreNetwork \/ IsolateBegin
  BY <1>0, <1>4, <1>6
     DEF TakeIsolateHost, TakeRestoreNetwork, TakeOrder, IsolateBegin, StartRestore, Goto, Standing
<1>7. CASE IsolateWrite
  <2>1. Unapplied'
    BY <1>0, <1>1, <1>4, <1>7 DEF IsolateWrite, Goto, Unapplied, CauseInv
  <2>2. Early'
    BY <1>2, <1>3, <2>1 DEF Early, Since
  <2> QED
    BY <1>2, <2>2, EarlyStands
<1>8. CASE IsolateLook
  <2>1. Standing /\ UNCHANGED <<state, jumps>> /\ Since' = Since
    BY <1>0, <1>8 DEF IsolateLook, Goto, Standing, Since, Unapplied, firewall, files, history
  <2>2. Since <= Since'
    BY <2>1, SinceIs
  <2> QED
    BY <1>1, <1>2, <1>3, <2>1, <2>2, StillStands DEF CauseInv
<1>9. CASE IsolateApply
  <2>1. applied' = now /\ ~Unapplied'
    BY <1>0, <1>4, <1>9 DEF IsolateApply, StartRestore, Goto, Standing, Unapplied
  <2>2. Early'
    BY <1>2, <1>3, <2>1 DEF Early, Since
  <2> QED
    BY <1>2, <2>2, EarlyStands
<1>10. CASE IsolateVerify
  <2>1. Standing /\ UNCHANGED <<state, jumps>> /\ Since' = Since
    BY <1>0, <1>10
       DEF IsolateVerify, StartRestore, Goto, Standing, Since, Unapplied, firewall, files, history
  <2>2. Since <= Since'
    BY <2>1, SinceIs
  <2> QED
    BY <1>1, <1>2, <1>3, <2>1, <2>2, StillStands DEF CauseInv
<1>11. CASE Restore("service")
  BY <1>0, <1>4, <1>11
     DEF Restore, RestoreCommand, RestoreCheck, RestoreUnlink, Conclude, Goto, Standing,
     svcVars
<1> QED
  BY <1>5, <1>6, <1>7, <1>8, <1>9, <1>10, <1>11 DEF ServiceStep

LEMMA GuardStands ==
  ASSUME TypeOK, ClockInv, CauseInv, [Next]_vars, GuardStep, faults' = 0, Standing'
  PROVE  RemovesInv' /\ ReadsInv' /\ StatelessInv'
<1>0. pc \in [Procs -> Stages] /\ t0 \in [Procs -> Nat] /\ Procs = {"service", "guard"}
  BY DEF TypeOK, Procs
<1>1. ~Fault /\ NoFault
  BY QuietStep
<1>2. UNCHANGED <<Standing, Since>>
  BY <1>0 DEF GuardStep, GuardStart, GuardRead, GuardLook, GuardOrphan, Restore,
     RestoreCommand, RestoreCheck, RestoreUnlink, Conclude, StartRestore, Goto, Standing,
     Since, Unapplied, svcVars, history
<1>3. TimerActive /\ RemovesInv /\ ReadsInv /\ StatelessInv
  BY <1>2, QuietStep DEF CauseInv
<1>4. /\ Since \in Nat /\ t0["guard"] \in Nat /\ now \in Nat /\ GuardPeriod \in Nat
      /\ now <= t0["guard"] + GuardPeriod
  BY <1>3, SinceIs DEF ClockInv
<1> USE DEF Isolated, Goto
<1>5. CASE GuardStart
  <2>1. /\ pc["guard"] = "idle" /\ pc'["guard"] = "read" /\ t0'["guard"] = now
        /\ UNCHANGED <<state, jumps>>
    BY <1>0, <1>5 DEF GuardStart, firewall
  <2>2. ASSUME state = NoFile, Isolated PROVE now <= Since + GuardPeriod
    BY <1>3, <1>4, <2>1, <2>2 DEF StatelessInv, Early, Working
  <2> QED
    BY <1>2, <2>1, <2>2 DEF RemovesInv, ReadsInv, StatelessInv, Working
<1>6. CASE GuardRead
  <2>1. /\ pc["guard"] = "read" /\ pc'["guard"] = "look" /\ read' = state
        /\ UNCHANGED <<state, jumps, t0>>
    BY <1>0, <1>1, <1>6 DEF GuardRead, firewall, files
  <2> QED
    BY <1>2, <1>3, <2>1 DEF RemovesInv, ReadsInv, StatelessInv, Working
<1>7. CASE GuardLook
  <2>1. /\ pc["guard"] = "look" /\ UNCHANGED <<state, jumps, t0, cursor>>
        /\ \/ jumps = {} /\ pc'["guard"] # "look"
           \/ pc'["guard"] = "restore"
           \/ pc'["guard"] = "idle" /\ ~MustRestore(read, t0["guard"])
    BY <1>0, <1>1, <1>7
       DEF GuardLook, Look, HeartbeatUnreadable, StartRestore, firewall, files
  <2>2. CASE jumps = {} /\ pc'["guard"] # "look"
    BY <2>1, <2>2 DEF RemovesInv, ReadsInv, StatelessInv
  <2>3. CASE pc'["guard"] = "restore"
    <3>1. Cleared'
      BY <2>1, ProgramLength DEF Cleared, ClockInv
    <3> QED
      BY <1>2, <1>3, <2>1, <2>3, <3>1 DEF RemovesInv, ReadsInv, StatelessInv, Working
  <2>4. CASE pc'["guard"] = "idle" /\ ~MustRestore(read, t0["guard"])
    <3>1. state = NoFile => Early
      BY <1>3, <2>1, <2>4 DEF ReadsInv, MustRestore
    <3>2. Early => Early'
      BY <1>2, <2>1 DEF Early
    <3> QED
      BY <2>1, <2>4, <3>1, <3>2 DEF RemovesInv, ReadsInv, StatelessInv, Working
  <2> QED
    BY <2>1, <2>2, <2>3, <2>4
<1>8. CASE GuardOrphan \/ RestoreUnlink("guard")
  <2>1. /\ pc["guard"] \in {"orphan", "unlink"} /\ pc'["guard"] = "idle"
        /\ UNCHANGED <<jumps, t0>>
    BY <1>0, <1>8 DEF GuardOrphan, RestoreUnlink, Conclude, firewall
  <2>2. Isolated => Early'
    BY <1>2, <1>3, <2>1 DEF RemovesInv, Early
  <2> QED
    BY <2>1, <2>2 DEF RemovesInv, ReadsInv, StatelessInv, Working
<1>9. CASE RestoreCommand("guard")
  <2>1. /\ pc["guard"] = "restore" /\ UNCHANGED <<pc, state, t0>> /\ jumps' \subseteq jumps
    BY <1>9 DEF RestoreCommand, Execute, firewall, files
  <2>2. Cleared => Cleared'
    BY <1>1, <1>9, CommandClears
  <2> QED
    BY <1>2, <1>3, <2>1, <2>2 DEF RemovesInv, ReadsInv, StatelessInv, Working, Early
<1>10. CASE RestoreCheck("guard")
  <2>1. /\ pc["guard"] = "restore" /\ pc'["guard"] \in {"idle", "unlink"}
        /\ pc'["guard"] = "unlink" => jumps = {}
        /\ cursor["guard"] > Len(RestoreProgram) /\ UNCHANGED <<state, jumps, t0>>
    BY <1>0, <1>1, <1>10 DEF RestoreCheck, Look, Conclude, firewall, files
  <2>2. state = NoFile /\ Isolated => Early'
    BY <1>2, <1>3, <2>1, ClearedIsOpen DEF StatelessInv, Early
  <2> QED
    BY <2>1, <2>2 DEF RemovesInv, ReadsInv, StatelessInv, Working
<1> QED
  BY <1>5, <1>6, <1>7, <1>8, <1>9, <1>10 DEF GuardStep, Restore

LEMMA ContactStep ==
  ASSUME TypeOK, ClockInv, ContactInv, [Next]_vars, faults' = 0
  PROVE  ContactInv'
<1>0. /\ pc \in [Procs -> Stages] /\ t0 \in [Procs -> Nat] /\ Procs = {"service", "guard"}
      /\ contact \in Nat /\ now \in Nat
  BY DEF TypeOK, Procs
<1>1. ~Fault
  BY QuietStep
<1> USE DEF ContactInv, Goto
<1>2. CASE Poll
  BY <1>0, <1>1, <1>2 DEF Poll, HeartbeatWritten, Max2
<1>3. CASE TakeIsolateHost \/ TakeRestoreNetwork
  BY <1>0, <1>3 DEF TakeIsolateHost, TakeRestoreNetwork, TakeOrder, StartRestore, files, history
<1>4. CASE IsolateBegin
  BY <1>0, <1>4 DEF IsolateBegin, files, history
<1>5. CASE IsolateWrite
  BY <1>0, <1>1, <1>5 DEF IsolateWrite, HeartbeatWritten, Max2
<1>6. CASE IsolateLook \/ IsolateApply \/ IsolateVerify
  BY <1>0, <1>6
     DEF IsolateLook, IsolateApply, IsolateVerify, StartRestore, files, history
<1>7. ASSUME NEW p \in Procs, Restore(p) PROVE ContactInv'
  BY <1>0, <1>7
     DEF Restore, RestoreCommand, RestoreCheck, RestoreUnlink, Conclude, files, history
<1>8. CASE GuardStart \/ GuardRead \/ GuardLook \/ GuardOrphan
  BY <1>0, <1>8
     DEF GuardStart, GuardRead, GuardLook, GuardOrphan, StartRestore, files, history
<1>9. CASE Environment
  BY <1>0, <1>1, <1>9 DEF Environment, ClockTick, Kill, Reboot, StopTimer, files, history
<1>10. CASE UNCHANGED vars
  BY <1>10 DEF vars, files, history
<1> QED
  BY <1>0, <1>2, <1>3, <1>4, <1>5, <1>6, <1>7, <1>8, <1>9, <1>10
     DEF Next, ServiceStep, GuardStep

LEMMA FamilyStep ==
  ASSUME TypeOK, [Next]_vars, faults' = 0,
         pc["service"] \notin {"look", "apply"} => family = 1,
         pc'["service"] \notin {"look", "apply"}
  PROVE  family' = 1
<1>0. pc \in [Procs -> Stages] /\ Procs = {"service", "guard"} /\ family \in 1..2
  BY DEF TypeOK, Procs
<1>1. ~Fault
  BY QuietStep
<1> USE DEF Goto, svcVars
<1>2. CASE Poll \/ TakeIsolateHost \/ TakeRestoreNetwork \/ IsolateBegin \/ IsolateWrite
  BY <1>0, <1>1, <1>2
     DEF Poll, TakeIsolateHost, TakeRestoreNetwork, TakeOrder, IsolateBegin, IsolateWrite
<1>3. CASE IsolateLook \/ IsolateApply \/ IsolateVerify
  BY <1>0, <1>3 DEF IsolateLook, IsolateApply, IsolateVerify
<1>4. ASSUME NEW p \in Procs, Restore(p) PROVE family' = 1
  BY <1>0, <1>4 DEF Restore, RestoreCommand, RestoreCheck, RestoreUnlink, Conclude
<1>5. CASE GuardStart \/ GuardRead \/ GuardLook \/ GuardOrphan
  BY <1>0, <1>5 DEF GuardStart, GuardRead, GuardLook, GuardOrphan, StartRestore
<1>6. CASE Environment
  BY <1>0, <1>1, <1>6 DEF Environment, ClockTick, Kill, Reboot, StopTimer
<1>7. CASE UNCHANGED vars
  BY <1>7 DEF vars
<1> QED
  BY <1>0, <1>2, <1>3, <1>4, <1>5, <1>6, <1>7 DEF Next, ServiceStep, GuardStep

LEMMA CauseStep ==
  ASSUME TypeOK, ClockInv, ReportInv, CauseInv, [Next]_vars
  PROVE  CauseInv'
<1> SUFFICES ASSUME faults' = 0 PROVE CauseInv'
  BY DEF CauseInv
<1>1. /\ TimerActive /\ ContactInv /\ ~Fault
      /\ pc["service"] \notin {"look", "apply"} => family = 1
      /\ Standing => RemovesInv /\ ReadsInv /\ StatelessInv
  BY QuietStep DEF CauseInv
<1>2. ContactInv' /\ (pc'["service"] \notin {"look", "apply"} => family' = 1)
  BY <1>1, ContactStep, FamilyStep
<1>3. timer' = timer \/ StopTimer
  <2>1. CASE ServiceStep
    BY <2>1, ServiceLeavesGuard
  <2>2. CASE GuardStep
    BY <2>2 DEF GuardStep, GuardStart, GuardRead, GuardLook, GuardOrphan, Restore,
       RestoreCommand, RestoreCheck, RestoreUnlink
  <2>3. CASE Environment \/ UNCHANGED vars
    BY <2>3 DEF Environment, ClockTick, Kill, Reboot, vars
  <2> QED
    BY <2>1, <2>2, <2>3 DEF Next
<1>4. TimerActive'
  BY <1>1, <1>3 DEF StopTimer, TimerActive
<1>5. ASSUME Standing' PROVE RemovesInv' /\ ReadsInv' /\ StatelessInv'
  <2>1. CASE ServiceStep
    BY <1>5, <2>1, ServiceStands
  <2>2. CASE GuardStep
    BY <1>5, <2>2, GuardStands
  <2>3. CASE ClockTick \/ UNCHANGED vars
    <3>1. /\ UNCHANGED <<pc, t0, cursor, read, state, jumps, report, family, applied>>
          /\ now' \in {now, now + 1}
      BY <2>3 DEF ClockTick, vars, firewall, files, svcVars, history
    <3>2. Standing /\ (Unapplied' <=> Unapplied)
      BY <1>5, <3>1 DEF Standing, Unapplied
    <3>3. Since <= Since'
      BY <3>1, <3>2, SinceIs DEF Since
    <3> QED
      BY <1>1, <3>1, <3>2, <3>3, StillStands, StepTypeOK, ClockStep
  <2>4. CASE Reboot \/ StopTimer \/ \E p \in Procs : Kill(p)
    BY <1>1, <2>4 DEF Reboot, StopTimer, Kill
  <2> QED
    BY <2>1, <2>2, <2>3, <2>4 DEF Next, Environment
<1> QED
  BY <1>2, <1>4, <1>5 DEF CauseInv

(* Without failure, the guard lifts an isolation that was reported as in   *)
(* place at its deadline, at the loss of contact, or in the period that    *)
(* follows its application, for all durations and all interleavings.       *)
THEOREM NotLiftedEarlyHolds == Spec => NotLiftedEarly
<1> DEFINE Lift == /\ report = "isolated" /\ faults' = 0
                   /\ pc["guard"] = "look" /\ pc'["guard"] = "restore"
           Cause == \/ state # NoFile /\ t0["guard"] >= LocalDeadline(state)
                    \/ t0["guard"] > contact + ContactTimeout
                    \/ t0["guard"] <= applied + GuardPeriod
<1>1. ASSUME TypeOK, ClockInv, ReportInv, CauseInv, [Next]_vars, Lift
      PROVE  Cause
  <2>1. /\ Standing /\ Since = applied /\ ~Fault
        /\ TimerActive /\ heartbeat = contact
        /\ RemovesInv /\ ReadsInv /\ StatelessInv
    BY <1>1, QuietStep DEF Standing, Since, Unapplied, CauseInv, ContactInv
  <2>2. /\ applied \in Nat /\ t0["guard"] \in Nat /\ GuardPeriod \in Nat
        /\ contact \in Nat /\ ContactTimeout \in Nat
    BY <1>1, SinceIs, NaturalConstants DEF TypeOK
  <2>3. GuardLook
    <3>0. pc \in [Procs -> Stages] /\ Procs = {"service", "guard"}
      BY <1>1 DEF TypeOK, Procs
    <3>1. ~ServiceStep
      BY <1>1, ServiceLeavesGuard
    <3>2. ~Environment /\ ~UNCHANGED vars
      BY <1>1, <2>1, <3>0 DEF Environment, ClockTick, Kill, Reboot, StopTimer, vars
    <3>3. GuardStep
      BY <1>1, <3>1, <3>2 DEF Next
    <3> QED
      BY <1>1, <3>0, <3>3 DEF GuardStep, GuardStart, GuardRead, GuardOrphan, Restore,
         RestoreCommand, RestoreCheck, RestoreUnlink, Goto
  <2>4. Isolated /\ MustRestore(read, t0["guard"])
    <3>1. pc \in [Procs -> Stages] /\ Procs = {"service", "guard"}
      BY <1>1 DEF TypeOK, Procs
    <3> QED
      BY <1>1, <2>1, <2>3, <3>1 DEF GuardLook, Look, HeartbeatUnreadable, Isolated, Goto
  <2>5. CASE Early
    BY <2>1, <2>2, <2>5 DEF Early
  <2>6. CASE read = state /\ state = NoFile
    BY <1>1, <2>1, <2>4, <2>6 DEF StatelessInv, Working
  <2>7. CASE read = state /\ state # NoFile
    <3>1. state \in IsolationStates /\ state # Unreadable
      BY <1>1, <2>7 DEF TypeOK, IsolationStates, Unreadable
    <3>2. t0["guard"] >= LocalDeadline(state) \/ ContactLost(state, t0["guard"])
      BY <2>4, <2>7, <3>1 DEF MustRestore
    <3>3. ContactLost(state, t0["guard"]) => t0["guard"] > contact + ContactTimeout
      BY <2>1, <2>2, <3>1 DEF ContactLost, Max2, IsolationStates
    <3> QED
      BY <2>7, <3>2, <3>3
  <2> QED
    BY <1>1, <2>1, <2>5, <2>6, <2>7 DEF ReadsInv
<1>2. Init => ReportInv /\ CauseInv
  BY DEF Init, ReportInv, CauseInv, ContactInv, TimerActive, Standing, RestoredMeansOpen,
         Isolated, Procs
<1>3. /\ TypeOK /\ ReportInv /\ [Next]_vars => ReportInv'
      /\ TypeOK /\ BoundsInv /\ ReportInv /\ CauseInv /\ [Next]_vars => CauseInv'
  BY StepReportInv, CauseStep DEF BoundsInv
<1>4. TypeOK /\ BoundsInv /\ ReportInv /\ CauseInv /\ [Next]_vars => [Lift => Cause]_vars
  BY <1>1 DEF BoundsInv
<1> QED
  BY <1>2, <1>3, <1>4, BoundsAlways, PTL DEF Spec, NotLiftedEarly

=============================================================================
