------------------------- MODULE ReverseProxyProofs -------------------------
(* What the service and the root unit of the reverse proxy keep true for    *)
(* every set of addresses and rules, and any number of orders and faults.   *)
EXTENDS ReverseProxy, FiniteSetTheorems, TLAPS

Confs == {NoConf} \cup {<<set>> : set \in SUBSET Entries}
FilePairs == [conf : Confs, enforce : BOOLEAN]
Desires == [gen : Nat, set : SUBSET Entries]
Statuses == [gen : Nat, ok : BOOLEAN]

(* The type invariant, with the shapes that an update in place needs, and  *)
(* that the set to write back has no more rules than the unit accepts.     *)
ServiceTyped ==
    /\ desired \in Desires /\ ~TooMany(desired.set)
    /\ before \subseteq Entries /\ ~TooMany(before)
    /\ pc \in {"idle", "wait", "rollback", "report"}
    /\ outcome \in {"none", "ok", "failed"}
UnitTyped ==
    /\ status \in Statuses
    /\ unit \in Stages
    /\ goal \in Desires
    /\ saved \in FilePairs /\ files \in FilePairs
    /\ loaded \subseteq Entries /\ included \in BOOLEAN
FlagsTyped == passed \in BOOLEAN /\ pending \in BOOLEAN /\ astray \in BOOLEAN
BudgetTyped ==
    /\ changes \in Nat /\ changes <= MaxChanges
    /\ faults \in Nat /\ faults <= MaxFaults
    /\ accidents \in Nat /\ accidents <= MaxAccidents
Typed == ServiceTyped /\ UnitTyped /\ FlagsTyped /\ BudgetTyped

(* The files a pass has written so far; those it keeps have been tested.   *)
WrittenInv ==
    /\ unit \in {"enforce", "keep enforce"} => files.conf = New.conf
    /\ unit \in {"test", "dump", "reload", "done"} => files = New
    /\ unit = "failed" /\ passed => Valid(files)

LEMMA Bounds ==
  /\ MaxRules \in Nat /\ MaxChanges \in Nat /\ MaxFaults \in Nat
  /\ MaxAccidents \in Nat
BY ReverseProxyAssumption

LEMMA StagesAre ==
  {"idle", "exit", "test", "dump", "reload", "retest", "done", "failed",
   "conf", "enforce", "keep conf", "keep enforce",
   "restore conf", "restore enforce"} \subseteq Stages
<1>1. \A r \in Replacements \cup Restorations : r[1] \in Stages
  BY DEF Stages
<1>2. /\ <<"conf", "conf", "enforce">> \in Replacements
      /\ <<"enforce", "enforce", "test">> \in Replacements
      /\ <<"keep conf", "conf", "keep enforce">> \in Replacements
      /\ <<"keep enforce", "enforce", "failed">> \in Replacements
      /\ <<"restore conf", "conf", "restore enforce">> \in Restorations
      /\ <<"restore enforce", "enforce", "retest">> \in Restorations
  BY DEF Replacements, Restorations
<1>3. /\ "conf" \in Stages /\ "enforce" \in Stages
      /\ "keep conf" \in Stages /\ "keep enforce" \in Stages
  <2>1. /\ <<"conf", "conf", "enforce">>[1] \in Stages
        /\ <<"enforce", "enforce", "test">>[1] \in Stages
        /\ <<"keep conf", "conf", "keep enforce">>[1] \in Stages
        /\ <<"keep enforce", "enforce", "failed">>[1] \in Stages
    BY <1>1, <1>2, Zenon
  <2> QED
    BY <2>1
<1>4. "restore conf" \in Stages /\ "restore enforce" \in Stages
  <2>1. /\ <<"restore conf", "conf", "restore enforce">>[1] \in Stages
        /\ <<"restore enforce", "enforce", "retest">>[1] \in Stages
    BY <1>1, <1>2, Zenon
  <2> QED
    BY <2>1
<1>5. {"idle", "exit", "test", "dump", "reload", "retest", "done", "failed"} \subseteq Stages
  BY DEF Stages
<1> QED
  BY <1>3, <1>4, <1>5

LEMMA NothingIsNotTooMany == ~TooMany({})
<1>1. {} \cap Rules = {}
  OBVIOUS
<1> QED
  BY <1>1, FS_EmptySet, Bounds DEF TooMany

LEMMA TypedIsTypeOK == Typed => TypeOK
<1> SUFFICES ASSUME Typed PROVE TypeOK
  OBVIOUS
<1>1. ASSUME NEW f \in FilePairs PROVE FilesOK(f)
  BY DEF FilesOK, FilePairs, Confs
<1>2. changes \in 0 .. MaxChanges /\ faults \in 0 .. MaxFaults
      /\ accidents \in 0 .. MaxAccidents
  BY Bounds DEF Typed, BudgetTyped
<1>3. {passed, pending, astray} \subseteq BOOLEAN
  BY DEF Typed, FlagsTyped
<1> QED
  BY <1>1, <1>2, <1>3
  DEF Typed, ServiceTyped, UnitTyped, Desires, Statuses, TypeOK

-----------------------------------------------------------------------------
(* Steps.                                                                  *)
LEMMA ReplaceIs ==
  ASSUME Replace
  PROVE  \/ /\ unit = "conf" /\ unit' = "enforce"
            /\ files' = [files EXCEPT !["conf"] = New["conf"]]
         \/ /\ unit = "enforce" /\ unit' = "test"
            /\ files' = [files EXCEPT !["enforce"] = New["enforce"]]
         \/ /\ unit = "keep conf" /\ unit' = "keep enforce"
            /\ files' = [files EXCEPT !["conf"] = New["conf"]]
         \/ /\ unit = "keep enforce" /\ unit' = "failed"
            /\ files' = [files EXCEPT !["enforce"] = New["enforce"]]
<1>1. PICK r \in Replacements :
        /\ unit = r[1] /\ unit' = r[3]
        /\ files' = [files EXCEPT ![r[2]] = New[r[2]]]
  BY DEF Replace
<1>2. CASE r = <<"conf", "conf", "enforce">>
  BY <1>1, <1>2
<1>3. CASE r = <<"enforce", "enforce", "test">>
  BY <1>1, <1>3
<1>4. CASE r = <<"keep conf", "conf", "keep enforce">>
  BY <1>1, <1>4
<1>5. CASE r = <<"keep enforce", "enforce", "failed">>
  BY <1>1, <1>5
<1> QED
  BY <1>2, <1>3, <1>4, <1>5 DEF Replacements

LEMMA RestoreIs ==
  ASSUME Restore
  PROVE  \/ /\ unit = "restore conf" /\ unit' = "restore enforce"
            /\ files' = [files EXCEPT !["conf"] = saved["conf"]]
         \/ /\ unit = "restore enforce" /\ unit' = "retest"
            /\ files' = [files EXCEPT !["enforce"] = saved["enforce"]]
<1>1. PICK r \in Restorations :
        /\ unit = r[1] /\ unit' = r[3]
        /\ files' = [files EXCEPT ![r[2]] = saved[r[2]]]
  BY DEF Restore
<1>2. CASE r = <<"restore conf", "conf", "restore enforce">>
  BY <1>1, <1>2
<1>3. CASE r = <<"restore enforce", "enforce", "retest">>
  BY <1>1, <1>3
<1> QED
  BY <1>2, <1>3 DEF Restorations

(* A step of a pass that neither starts nor ends it.                       *)
Working ==
    /\ Replace \/ Restore \/ Test \/ Dump \/ Reload \/ Retest
    /\ UNCHANGED <<desired, status, service, goal, saved, pending, astray>>

LEMMA WorkingIs ==
  ASSUME Replace \/ Restore \/ Test \/ Dump \/ Reload \/ Retest
  PROVE  Working
BY DEF Working, Replace, Restore, Test, Dump, Reload, Retest, nginx, service

LEMMA NextIs ==
  ASSUME Next, ServiceTyped
  PROVE  \/ \E after \in SUBSET Entries : Change(after) \/ ChangeRefused(after)
         \/ Answer \/ Timeout \/ Rollback \/ Report
         \/ ReadDesired \/ Working \/ WriteFails \/ WriteStatus \/ Exit
         \/ KillService \/ KillUnit \/ NginxReloaded \/ Purge
<1>1. CASE Order
  <2>1. PICK e \in Entries : \E after \in {desired.set \cup {e}, desired.set \ {e}} :
                                 Change(after) \/ ChangeRefused(after)
    BY <1>1 DEF Order
  <2>2. desired.set \cup {e} \in SUBSET Entries /\ desired.set \ {e} \in SUBSET Entries
    BY DEF ServiceTyped, Desires
  <2> QED
    BY <2>1, <2>2, Zenon
<1>2. CASE ServiceStep
  BY <1>2 DEF ServiceStep
<1>3. CASE UnitStep
  BY <1>3, WorkingIs DEF UnitStep
<1>4. CASE Mishap
  BY <1>4 DEF Mishap
<1> QED
  BY <1>1, <1>2, <1>3, <1>4 DEF Next

(* What each of the three groups of steps may change of the others' state. *)
LEMMA ServiceTypedStep ==
  ASSUME Typed, Next
  PROVE  ServiceTyped'
<1> USE DEF Typed, ServiceTyped, Desires, TooMany
<1>1. ASSUME NEW set \in SUBSET Entries, ~TooMany(set), WriteDesired(set, desired.gen + 1)
      PROVE  desired' \in Desires /\ ~TooMany(desired'.set)
  BY <1>1 DEF WriteDesired
<1>2. ASSUME NEW after \in SUBSET Entries, Change(after) PROVE ServiceTyped'
  BY <1>1, <1>2 DEF Change
<1>3. ASSUME NEW after \in SUBSET Entries, ChangeRefused(after) PROVE ServiceTyped'
  BY <1>3 DEF ChangeRefused, Finish
<1>4. CASE Answer \/ Timeout \/ Report
  BY <1>4 DEF Answer, Timeout, Report, Finish
<1>5. CASE Rollback
  BY <1>1, <1>5 DEF Rollback, Finish
<1>6. CASE ReadDesired \/ Working \/ WriteFails \/ WriteStatus \/ Exit
  BY <1>6 DEF ReadDesired, Working, WriteFails, WriteStatus, Exit, service
<1>7. CASE KillService \/ KillUnit \/ NginxReloaded
  BY <1>7 DEF KillService, KillUnit, NginxReloaded, service
<1>8. CASE Purge
  <2>1. desired' = [gen |-> 0, set |-> {}] /\ UNCHANGED service
    BY <1>8 DEF Purge
  <2> QED
    BY <2>1, NothingIsNotTooMany DEF service
<1> QED
  BY <1>2, <1>3, <1>4, <1>5, <1>6, <1>7, <1>8, NextIs

LEMMA ConfAndEnforceTyped ==
  ASSUME NEW f \in FilePairs, NEW g \in FilePairs
  PROVE  /\ [f EXCEPT !["conf"] = g["conf"]] \in FilePairs
         /\ [f EXCEPT !["enforce"] = g["enforce"]] \in FilePairs
BY DEF FilePairs

LEMMA NewIs == New.conf = <<goal.set>> /\ New.enforce
BY Zenon DEF New

LEMMA NewTyped == Typed => New \in FilePairs
<1> SUFFICES ASSUME Typed PROVE New \in FilePairs
  OBVIOUS
<1>1. goal.set \in SUBSET Entries
  BY DEF Typed, UnitTyped, Desires
<1>2. <<goal.set>> \in Confs
  BY <1>1 DEF Confs
<1> QED
  BY <1>2 DEF New, FilePairs

LEMMA WorkingTyped ==
  ASSUME Typed, WrittenInv, Working
  PROVE  files' \in FilePairs /\ loaded' \subseteq Entries /\ unit' \in Stages
         /\ included' = included /\ passed' \in BOOLEAN
<1>1. CASE Replace
  <2>1. UNCHANGED <<loaded, included, passed>>
    BY <1>1 DEF Replace
  <2> QED
    BY <1>1, <2>1, ReplaceIs, ConfAndEnforceTyped, NewTyped, StagesAre
    DEF Typed, UnitTyped, FlagsTyped
<1>2. CASE Restore
  <2>1. UNCHANGED <<loaded, included, passed>>
    BY <1>2 DEF Restore
  <2> QED
    BY <1>2, <2>1, RestoreIs, ConfAndEnforceTyped, StagesAre
    DEF Typed, UnitTyped, FlagsTyped
<1>3. CASE Test \/ Dump \/ Retest
  BY <1>3, StagesAre DEF Test, Dump, Retest, nginx, Typed, UnitTyped, FlagsTyped
<1>4. CASE Reload
  <2>1. files' = files /\ included' = included /\ passed' = passed /\ unit' \in Stages
    BY <1>4, StagesAre DEF Reload
  <2>2. files.conf = <<goal.set>>
    BY <1>4, NewIs DEF Reload, WrittenInv
  <2>3. loaded' \in {loaded, <<goal.set>>[1]}
    BY <1>4, <2>2, Zenon DEF Reload
  <2> QED
    BY <2>1, <2>3 DEF Typed, UnitTyped, FlagsTyped, Desires
<1> QED
  BY <1>1, <1>2, <1>3, <1>4 DEF Working

LEMMA UnitTypedStep ==
  ASSUME Typed, WrittenInv, Next
  PROVE  UnitTyped'
<1> USE DEF Typed, UnitTyped
<1>1. ASSUME NEW gen \in Nat, NEW ok \in BOOLEAN, EndPass(gen, ok)
      PROVE  status' \in Statuses /\ unit' \in Stages
  BY <1>1, StagesAre DEF EndPass, Statuses
<1>0. ASSUME NEW gen \in Nat PROVE [gen |-> gen, ok |-> FALSE] \in Statuses
  BY DEF Statuses
<1>2. ASSUME NEW after \in SUBSET Entries, Change(after) \/ ChangeRefused(after)
      PROVE  UnitTyped'
  BY <1>2 DEF Change, ChangeRefused, nginx, pass
<1>3. CASE Answer \/ Timeout \/ Rollback \/ Report
  BY <1>3 DEF Answer, Timeout, Rollback, Report, nginx, pass
<1>4. CASE ReadDesired
  <2>1. UNCHANGED nginx /\ goal' = desired /\ saved' = files
    BY <1>4 DEF ReadDesired
  <2>2. desired.gen \in Nat /\ desired \in Desires
    BY DEF ServiceTyped, Desires
  <2>3. status' \in Statuses
    BY <1>0, <1>4, <2>2 DEF ReadDesired
  <2>4. unit' \in Stages
    BY <1>4, StagesAre DEF ReadDesired
  <2> QED
    BY <2>1, <2>2, <2>3, <2>4 DEF nginx
<1>5. CASE Working
  <2>1. UNCHANGED <<status, goal, saved>>
    BY <1>5 DEF Working
  <2> QED
    BY <1>5, <2>1, WorkingTyped
<1>6. CASE WriteFails
  <2>1. UNCHANGED <<nginx, goal, saved>> /\ EndPass(0, FALSE)
    BY <1>6 DEF WriteFails
  <2> QED
    BY <1>1, <2>1 DEF nginx
<1>7. CASE WriteStatus
  <2>1. UNCHANGED <<nginx, goal, saved>>
    BY <1>7 DEF WriteStatus
  <2>2. CASE EndPass(goal.gen, unit = "done")
    BY <1>1, <2>1, <2>2 DEF nginx, Desires
  <2>3. CASE unit' = "exit" /\ status' \in {status, [gen |-> 0, ok |-> FALSE]}
    BY <1>0, <2>1, <2>3, StagesAre DEF nginx
  <2> QED
    BY <1>7, <2>2, <2>3 DEF WriteStatus
<1>11. CASE Exit
  BY <1>11, StagesAre DEF Exit, nginx
<1>8. CASE KillService \/ Purge
  BY <1>8 DEF KillService, Purge, nginx, pass
<1>9. CASE KillUnit
  BY <1>9, StagesAre DEF KillUnit, nginx
<1>10. CASE NginxReloaded
  <2>1. UNCHANGED <<status, files, included, pass>>
    BY <1>10 DEF NginxReloaded
  <2>2. loaded' = files.conf[1] /\ files.conf # NoConf /\ files.conf \in Confs
    BY <1>10 DEF NginxReloaded, FilePairs
  <2>3. PICK set \in SUBSET Entries : files.conf = <<set>>
    BY <2>2 DEF Confs
  <2>4. loaded' \subseteq Entries
    BY <2>2, <2>3
  <2> QED
    BY <2>1, <2>4 DEF pass
<1> QED
  BY <1>2, <1>3, <1>4, <1>5, <1>6, <1>7, <1>8, <1>9, <1>10, <1>11, NextIs

LEMMA BudgetTypedStep ==
  ASSUME Typed, Next
  PROVE  BudgetTyped'
<1> USE Bounds DEF Typed, BudgetTyped
<1>1. ASSUME NEW n \in Nat, NEW bound \in Nat, n < bound
      PROVE  n + 1 \in Nat /\ n + 1 <= bound
  BY <1>1
<1>2. Fault \/ Accident => BudgetTyped'
  BY <1>1 DEF Fault, Accident
<1>3. UNCHANGED budget => BudgetTyped'
  BY DEF budget
<1>5. ASSUME NEW after \in SUBSET Entries, Change(after) \/ ChangeRefused(after)
      PROVE  BudgetTyped'
  BY <1>1, <1>5 DEF Change, ChangeRefused
<1>6. CASE Rollback
  BY <1>2, <1>3, <1>6 DEF Rollback
<1>7. CASE Answer \/ Timeout \/ Report
  BY <1>3, <1>7 DEF Answer, Timeout, Report
<1>8. CASE ReadDesired \/ WriteFails \/ WriteStatus \/ Exit
  BY <1>2, <1>3, <1>8 DEF ReadDesired, WriteFails, WriteStatus, Exit
<1>9. CASE Working
  BY <1>2, <1>3, <1>9
  DEF Working, Replace, Restore, Test, Dump, Reload, Retest
<1>10. CASE KillService \/ KillUnit \/ NginxReloaded \/ Purge
  BY <1>2, <1>10 DEF KillService, KillUnit, NginxReloaded, Purge
<1> QED
  BY <1>5, <1>6, <1>7, <1>8, <1>9, <1>10, NextIs

LEMMA FlagsTypedStep ==
  ASSUME Typed, WrittenInv, Next
  PROVE  FlagsTyped'
<1> USE DEF Typed, FlagsTyped
<1>1. ASSUME NEW ok \in BOOLEAN, Lost(ok) PROVE astray' \in BOOLEAN
  BY <1>1 DEF Lost
<1>2. ASSUME NEW set, NEW gen, WriteDesired(set, gen)
      PROVE  pending' \in BOOLEAN
  BY <1>2 DEF WriteDesired, Trigger
<1>3. ASSUME NEW after \in SUBSET Entries, Change(after) \/ ChangeRefused(after)
      PROVE  FlagsTyped'
  BY <1>2, <1>3 DEF Change, ChangeRefused, pass
<1>4. CASE Rollback
  BY <1>2, <1>4 DEF Rollback, pass
<1>5. CASE Answer \/ Timeout \/ Report
  BY <1>5 DEF Answer, Timeout, Report, pass
<1>6. CASE ReadDesired
  BY <1>6 DEF ReadDesired
<1>7. CASE Working
  <2>1. UNCHANGED <<pending, astray>>
    BY <1>7 DEF Working
  <2> QED
    BY <1>7, <2>1, WorkingTyped
<1>8. CASE WriteFails
  BY <1>1, <1>8 DEF WriteFails, EndPass
<1>9. CASE WriteStatus
  BY <1>1, <1>9 DEF WriteStatus, EndPass
<1>10. CASE KillService \/ NginxReloaded \/ Purge
  BY <1>10 DEF KillService, NginxReloaded, Purge, pass
<1>11. CASE KillUnit
  BY <1>1, <1>11 DEF KillUnit
<1>12. CASE Exit
  BY <1>12 DEF Exit
<1> QED
  BY <1>3, <1>4, <1>5, <1>6, <1>7, <1>8, <1>9, <1>10, <1>11, <1>12, NextIs

-----------------------------------------------------------------------------
(* What a pass has written.                                                *)
LEMMA ConfAndEnforceWritten ==
  ASSUME NEW f \in FilePairs, NEW g \in FilePairs
  PROVE  /\ [f EXCEPT !["conf"] = g["conf"]].conf = g.conf
         /\ f.conf = g.conf => [f EXCEPT !["enforce"] = g["enforce"]] = g
BY DEF FilePairs

LEMMA NewIsValid == Valid(New)
<1>1. New.conf # NoConf
  BY NewIs DEF NoConf
<1> QED
  BY <1>1, NewIs, Zenon DEF Valid

LEMMA WrittenStep ==
  ASSUME Typed, WrittenInv, Next
  PROVE  WrittenInv'
<1> USE DEF WrittenInv
<1>1. ASSUME unit' \in Between PROVE WrittenInv'
  BY <1>1 DEF Between
<1>2. ASSUME UNCHANGED <<unit, files, goal, passed, included>> PROVE WrittenInv'
  BY <1>2 DEF New, Valid
<1>3. ASSUME NEW after \in SUBSET Entries, Change(after) \/ ChangeRefused(after)
      PROVE  WrittenInv'
  BY <1>2, <1>3 DEF Change, ChangeRefused, nginx, pass
<1>4. CASE Answer \/ Timeout \/ Rollback \/ Report
  BY <1>2, <1>4 DEF Answer, Timeout, Rollback, Report, nginx, pass
<1>5. CASE ReadDesired
  BY <1>1, <1>5 DEF ReadDesired, Between
<1>6. CASE Working
  <2>1. New' = New /\ goal' = goal
    BY <1>6 DEF Working, New
  <2>2. CASE Replace
    <3>1. UNCHANGED <<included, passed>>
      BY <2>2 DEF Replace
    <3>2. CASE unit = "conf" /\ unit' = "enforce"
               /\ files' = [files EXCEPT !["conf"] = New["conf"]]
      BY <2>1, <3>2, NewTyped, ConfAndEnforceWritten DEF Typed, UnitTyped
    <3>3. CASE unit = "enforce" /\ unit' = "test"
               /\ files' = [files EXCEPT !["enforce"] = New["enforce"]]
      BY <2>1, <3>3, NewTyped, ConfAndEnforceWritten DEF Typed, UnitTyped
    <3>4. CASE unit = "keep conf" /\ unit' = "keep enforce"
               /\ files' = [files EXCEPT !["conf"] = New["conf"]]
      BY <2>1, <3>4, NewTyped, ConfAndEnforceWritten DEF Typed, UnitTyped
    <3>5. CASE unit = "keep enforce" /\ unit' = "failed"
               /\ files' = [files EXCEPT !["enforce"] = New["enforce"]]
      <4>1. files' = New
        BY <3>5, NewTyped, ConfAndEnforceWritten DEF Typed, UnitTyped
      <4>2. Valid(files)'
        BY <3>1, <4>1, NewIsValid DEF Valid
      <4> QED
        BY <3>5, <4>2
    <3> QED
      BY <2>2, <3>2, <3>3, <3>4, <3>5, ReplaceIs
  <2>3. CASE Restore
    BY <2>3, RestoreIs
  <2>4. CASE Test \/ Dump
    BY <2>1, <2>4 DEF Test, Dump, nginx
  <2>5. CASE Reload
    BY <2>1, <2>5 DEF Reload
  <2>6. CASE Retest
    BY <2>6 DEF Retest, nginx, Valid
  <2> QED
    BY <1>6, <2>2, <2>3, <2>4, <2>5, <2>6 DEF Working
<1>7. CASE WriteFails \/ WriteStatus \/ KillUnit \/ Exit
  BY <1>1, <1>7 DEF WriteFails, WriteStatus, KillUnit, EndPass, Exit, Between
<1>8. CASE KillService \/ NginxReloaded \/ Purge
  BY <1>2, <1>8 DEF KillService, NginxReloaded, Purge, nginx, pass
<1> QED
  BY <1>3, <1>4, <1>5, <1>6, <1>7, <1>8, NextIs DEF Typed

LEMMA TypedInit == Init => Typed /\ WrittenInv
<1> SUFFICES ASSUME Init PROVE Typed /\ WrittenInv
  OBVIOUS
<1>1. ServiceTyped
  BY NothingIsNotTooMany DEF Init, ServiceTyped, Desires
<1>2. UnitTyped
  BY StagesAre DEF Init, UnitTyped, Desires, Statuses, FilePairs, Confs
<1>3. FlagsTyped
  BY DEF Init, FlagsTyped
<1>4. BudgetTyped
  BY Bounds DEF Init, BudgetTyped
<1>5. WrittenInv
  BY DEF Init, WrittenInv
<1> QED
  BY <1>1, <1>2, <1>3, <1>4, <1>5 DEF Typed

LEMMA TypedStep ==
  ASSUME Typed, WrittenInv, [Next]_vars
  PROVE  Typed' /\ WrittenInv'
<1>1. CASE Next
  BY <1>1, ServiceTypedStep, UnitTypedStep, FlagsTypedStep, BudgetTypedStep,
     WrittenStep DEF Typed
<1>2. CASE UNCHANGED vars
  <2> USE <1>2 DEF vars, nginx, service, pass, budget
  <2>1. ServiceTyped'
    BY DEF Typed, ServiceTyped, TooMany
  <2>2. UnitTyped' /\ BudgetTyped'
    BY DEF Typed, UnitTyped, BudgetTyped
  <2>3. FlagsTyped'
    BY DEF Typed, FlagsTyped
  <2>4. WrittenInv'
    BY DEF WrittenInv, New, Valid
  <2> QED
    BY <2>1, <2>2, <2>3, <2>4 DEF Typed
<1> QED
  BY <1>1, <1>2

LEMMA TypedAlways == Spec => [](Typed /\ WrittenInv)
<1>1. ASSUME Typed /\ WrittenInv, [Next]_vars PROVE (Typed /\ WrittenInv)'
  BY <1>1, TypedStep
<1> QED
  BY <1>1, TypedInit, PTL DEF Spec

(* Types hold, and the desired set never has more rules than the unit      *)
(* accepts, through the changes, the rollbacks and a purge.                *)
THEOREM TypeCorrect == Spec => []TypeOK
BY TypedAlways, TypedIsTypeOK, PTL

(* When a pass that tested its files ends, the files on the disk are valid, *)
(* because the test or the retest accepted those very files, or because    *)
(* they were put back entirely.                                            *)
THEOREM ValidOnDiskHolds == Spec => []ValidOnDisk
<1>1. Typed /\ WrittenInv => ValidOnDisk
  <2> SUFFICES ASSUME WrittenInv, unit \in {"done", "failed"}, passed PROVE Valid(files)
    BY DEF ValidOnDisk
  <2> QED
    BY NewIsValid, Zenon DEF WrittenInv
<1> QED
  BY <1>1, TypedAlways, PTL

-----------------------------------------------------------------------------
(* What an answer is worth.  While nothing went astray, neither the status *)
(* nor the pass in progress is ahead of the desired state, and a pass of   *)
(* the latest generation applies the latest set.  Once the success of that *)
(* generation is known, nginx runs with it, and whatever the unit does     *)
(* with the files, it writes this set again.                               *)
GenInv ==
    /\ status.gen <= desired.gen /\ goal.gen <= desired.gen
    /\ goal.gen = desired.gen => goal.set = desired.set
Promised ==
    \/ status.ok = TRUE /\ status.gen = desired.gen
    \/ pc = "report" /\ outcome = "ok"
Agreed ==
    /\ loaded = desired.set /\ files.conf = <<desired.set>>
    /\ unit \notin Between => goal = desired /\ saved.conf = <<desired.set>>
AnswerInv == ~astray => GenInv /\ (Promised => Agreed)

(* What went astray stays so.                                              *)
LEMMA AstrayStays ==
  ASSUME Typed, Next, ~astray'
  PROVE  ~astray
<1> USE DEF Typed, FlagsTyped
<1>1. ASSUME NEW ok, Lost(ok) PROVE ~astray
  BY <1>1 DEF Lost
<1>3. ASSUME NEW after \in SUBSET Entries, Change(after) \/ ChangeRefused(after)
      PROVE  ~astray
  BY <1>3 DEF Change, ChangeRefused
<1>4. CASE Rollback
  BY <1>4 DEF Rollback
<1>5. CASE Answer \/ Timeout \/ Report
  BY <1>5 DEF Answer, Timeout, Report
<1>6. CASE ReadDesired
  BY <1>6 DEF ReadDesired
<1>7. CASE Working
  BY <1>7 DEF Working
<1>8. CASE WriteFails \/ WriteStatus \/ KillUnit
  BY <1>1, <1>8 DEF WriteFails, WriteStatus, KillUnit, EndPass
<1>9. CASE KillService \/ NginxReloaded \/ Purge \/ Exit
  BY <1>9 DEF KillService, NginxReloaded, Purge, Exit
<1> QED
  BY <1>3, <1>4, <1>5, <1>6, <1>7, <1>8, <1>9, NextIs

(* A new generation is later than any status and any pass.                 *)
LEMMA WriteDesiredIsNew ==
  ASSUME Typed, GenInv, NEW set \in SUBSET Entries,
         WriteDesired(set, desired.gen + 1), status' = status, goal' = goal
  PROVE  GenInv' /\ ~(status'.gen = desired'.gen)
<1>1. desired'.gen = desired.gen + 1
  BY DEF WriteDesired
<1>2. desired.gen \in Nat /\ status.gen \in Nat /\ goal.gen \in Nat
  BY DEF Typed, ServiceTyped, UnitTyped, Desires, Statuses
<1>3. status.gen < desired'.gen /\ goal.gen < desired'.gen
  BY <1>1, <1>2 DEF GenInv
<1>4. desired'.gen \in Nat
  BY <1>1, <1>2
<1> QED
  BY <1>2, <1>3, <1>4 DEF GenInv

(* The success of a pass: its files are in place, and in use.              *)
LEMMA PassSucceeds ==
  ASSUME Typed, WrittenInv, GenInv, unit = "done",
         EndPass(goal.gen, TRUE), ~astray', goal.gen = desired.gen
  PROVE  loaded = desired.set /\ files.conf = <<desired.set>>
<1>1. files.conf = <<goal.set>> /\ goal.set = desired.set
  BY NewIs DEF WrittenInv, GenInv
<1>2. InUse
  BY Zenon DEF EndPass, Lost
<1>3. files.conf = <<loaded>>
  BY <1>1, <1>2 DEF InUse, NoConf
<1> QED
  BY <1>1, <1>3

(* An agreed set survives whatever the pass in progress does.              *)
LEMMA WorkingKeepsAgreed ==
  ASSUME Typed, WrittenInv, Agreed, Working
  PROVE  Agreed'
<1>1. UNCHANGED <<desired, goal, saved>>
  BY DEF Working
<1>2. unit \notin Between
  BY ReplaceIs, RestoreIs DEF Working, Test, Dump, Reload, Retest, Between
<1>3. New.conf = <<desired.set>> /\ saved.conf = <<desired.set>>
  BY <1>2, NewIs DEF Agreed
<1>4. files'.conf = <<desired.set>> /\ loaded' = desired.set
  <2>1. CASE Replace
    <3>1. loaded' = loaded
      BY <2>1 DEF Replace
    <3>2. files'.conf \in {files.conf, New.conf}
      BY <2>1, ReplaceIs, NewTyped DEF Typed, UnitTyped, FilePairs
    <3> QED
      BY <1>3, <3>1, <3>2 DEF Agreed
  <2>2. CASE Restore
    <3>1. loaded' = loaded
      BY <2>2 DEF Restore
    <3>2. files'.conf \in {files.conf, saved.conf}
      BY <2>2, RestoreIs DEF Typed, UnitTyped, FilePairs
    <3> QED
      BY <1>3, <3>1, <3>2 DEF Agreed
  <2>3. CASE Test \/ Dump \/ Retest
    BY <2>3 DEF Test, Dump, Retest, nginx, Agreed
  <2>4. CASE Reload
    <3>1. files' = files /\ files.conf = <<desired.set>>
      BY <2>4 DEF Reload, Agreed
    <3>2. loaded' \in {loaded, <<desired.set>>[1]}
      BY <2>4, <3>1, Zenon DEF Reload
    <3> QED
      BY <3>1, <3>2 DEF Agreed
  <2> QED
    BY <2>1, <2>2, <2>3, <2>4 DEF Working
<1> QED
  BY <1>1, <1>2, <1>4 DEF Agreed

LEMMA AnswerStep ==
  ASSUME Typed, WrittenInv, AnswerInv, Next
  PROVE  AnswerInv'
<1> SUFFICES ASSUME ~astray' PROVE GenInv' /\ (Promised' => Agreed')
  BY DEF AnswerInv
<1>1. GenInv /\ (Promised => Agreed)
  BY AstrayStays DEF AnswerInv
<1>2. ASSUME NEW after \in SUBSET Entries, Change(after)
      PROVE  GenInv' /\ ~Promised'
  <2>1. UNCHANGED <<status, goal>> /\ WriteDesired(after, desired.gen + 1) /\ pc' = "wait"
    BY <1>2 DEF Change, pass
  <2> QED
    BY <1>1, <2>1, WriteDesiredIsNew DEF Promised
<1>3. ASSUME NEW after \in SUBSET Entries, ChangeRefused(after)
      PROVE  GenInv' /\ (Promised' => Agreed')
  BY <1>1, <1>3 DEF ChangeRefused, Finish, nginx, pass, GenInv, Promised, Agreed
<1>4. CASE Answer
  <2>1. UNCHANGED <<desired, status, loaded, files, unit, goal, saved>>
    BY <1>4 DEF Answer, nginx, pass
  <2>2. ASSUME status.ok = TRUE PROVE Promised
    <3>1. status.gen >= desired.gen
      BY <1>4 DEF Answer, Answered
    <3> QED
      BY <1>1, <2>2, <3>1 DEF Promised, GenInv, Typed, ServiceTyped, UnitTyped,
                              Desires, Statuses
  <2>3. Promised' => Promised
    BY <1>4, <2>1, <2>2 DEF Promised, Answer, Finish
  <2> QED
    BY <1>1, <2>1, <2>3 DEF GenInv, Agreed
<1>5. CASE Timeout \/ Report
  BY <1>1, <1>5 DEF Timeout, Report, nginx, pass, GenInv, Promised, Agreed
<1>6. CASE Rollback
  <2>1. UNCHANGED <<status, goal>> /\ outcome' = "failed"
    BY <1>6 DEF Rollback, Finish, pass
  <2>2. WriteDesired(before, desired.gen + 1)
    BY <1>6, Zenon DEF Rollback
  <2> QED
    BY <1>1, <2>1, <2>2, WriteDesiredIsNew DEF Promised, Typed, ServiceTyped
<1>7. CASE ReadDesired
  <2>1. /\ unit = "idle" /\ goal' = desired /\ saved' = files
        /\ UNCHANGED <<desired, files, loaded, pc, outcome>>
    BY <1>7 DEF ReadDesired, nginx, service
  <2>2. \/ status' = status
        \/ \E gen \in {0, desired.gen} : status' = [gen |-> gen, ok |-> FALSE]
    BY <1>7 DEF ReadDesired
  <2>3. status'.gen <= desired.gen /\ (status'.ok = TRUE => status' = status)
    BY <1>1, <2>2 DEF GenInv, Typed, ServiceTyped, Desires
  <2>4. GenInv'
    BY <2>1, <2>3 DEF GenInv, Typed, ServiceTyped, Desires
  <2>5. Promised' => Promised
    BY <2>1, <2>3 DEF Promised
  <2> QED
    BY <1>1, <2>1, <2>4, <2>5 DEF Agreed, Between
<1>8. CASE Working
  <2>1. UNCHANGED <<desired, status, goal, pc, outcome>>
    BY <1>8 DEF Working, service
  <2>2. GenInv' /\ (Promised' => Promised)
    BY <1>1, <2>1 DEF GenInv, Promised
  <2> QED
    BY <1>1, <1>8, <2>2, WorkingKeepsAgreed
<1>9. ASSUME WriteFails \/ WriteStatus \/ KillUnit
      PROVE  GenInv' /\ (Promised' => Agreed')
  <2>1. /\ UNCHANGED <<desired, files, loaded, goal, pc, outcome>>
        /\ unit' \in Between
    BY <1>9 DEF WriteFails, WriteStatus, KillUnit, EndPass, nginx, service, Between
  <2>2. CASE status' = status \/ status' = [gen |-> 0, ok |-> FALSE]
               \/ status' = [gen |-> goal.gen, ok |-> FALSE]
    <3>1. /\ status'.gen \in {status.gen, 0, goal.gen}
          /\ status'.ok = TRUE => status' = status
      BY <2>2
    <3>2. GenInv'
      BY <1>1, <2>1, <3>1 DEF GenInv, Typed, ServiceTyped, Desires
    <3>3. Promised' => Promised
      BY <2>1, <3>1 DEF Promised
    <3> QED
      BY <1>1, <2>1, <3>2, <3>3 DEF Agreed
  <2>3. CASE unit = "done" /\ EndPass(goal.gen, TRUE)
    <3>1. status' = [gen |-> goal.gen, ok |-> TRUE]
      BY <2>3 DEF EndPass
    <3>2. GenInv'
      BY <1>1, <2>1, <3>1 DEF GenInv
    <3>3. Promised' => Promised \/ goal.gen = desired.gen
      BY <2>1, <3>1 DEF Promised
    <3>4. ASSUME goal.gen = desired.gen PROVE Agreed'
      BY <1>1, <2>1, <2>3, <3>4, PassSucceeds DEF Agreed
    <3> QED
      BY <1>1, <2>1, <3>2, <3>3, <3>4 DEF Agreed
  <2>4. CASE WriteFails
    <3>1. status' = [gen |-> 0, ok |-> FALSE]
      BY <2>4 DEF WriteFails, EndPass
    <3> QED
      BY <2>2, <3>1
  <2>5. CASE KillUnit
    BY <2>2, <2>5 DEF KillUnit
  <2>6. CASE WriteStatus
    <3>1. CASE EndPass(goal.gen, unit = "done") /\ unit = "done"
      <4>1. (unit = "done") = TRUE
        BY <3>1
      <4> QED
        BY <2>3, <3>1, <4>1
    <3>2. CASE EndPass(goal.gen, unit = "done") /\ unit # "done"
      <4>1. (unit = "done") = FALSE
        BY <3>2
      <4>2. status' = [gen |-> goal.gen, ok |-> FALSE]
        BY <3>2, <4>1, Zenon DEF EndPass
      <4> QED
        BY <2>2, <4>2
    <3>3. CASE UNCHANGED status \/ status' = [gen |-> 0, ok |-> FALSE]
      BY <2>2, <3>3
    <3> QED
      BY <2>6, <3>1, <3>2, <3>3 DEF WriteStatus
  <2> QED
    BY <1>9, <2>4, <2>5, <2>6
<1>10. CASE KillService
  BY <1>1, <1>10 DEF KillService, nginx, pass, GenInv, Promised, Agreed
<1>11. CASE NginxReloaded
  <2>1. /\ UNCHANGED <<desired, status, files, unit, goal, saved, pc, outcome>>
        /\ loaded' = files.conf[1]
    BY <1>11 DEF NginxReloaded, pass, service
  <2>2. GenInv' /\ (Promised' => Promised)
    BY <1>1, <2>1 DEF GenInv, Promised
  <2> QED
    BY <1>1, <2>1, <2>2 DEF Agreed
<1>12. CASE Purge
  BY <1>12 DEF Purge
<1>13. CASE Exit
  BY <1>1, <1>13 DEF Exit, nginx, service, GenInv, Promised, Agreed, Between
<1> QED
  BY <1>2, <1>3, <1>4, <1>5, <1>6, <1>7, <1>8, <1>9, <1>10, <1>11, <1>12, <1>13, NextIs
  DEF Typed

LEMMA AnswerAlways == Spec => []AnswerInv
<1>1. Init => AnswerInv
  BY DEF Init, AnswerInv, GenInv, Promised
<1>2. ASSUME Typed, WrittenInv, AnswerInv, [Next]_vars PROVE AnswerInv'
  <2>1. CASE Next
    BY <1>2, <2>1, AnswerStep
  <2>2. CASE UNCHANGED vars
    BY <1>2, <2>2 DEF vars, nginx, service, pass, AnswerInv, GenInv, Promised, Agreed, Between
  <2> QED
    BY <1>2, <2>1, <2>2
<1> QED
  BY <1>1, <1>2, TypedAlways, PTL DEF Spec

-----------------------------------------------------------------------------
(* What nginx runs with when there is nothing left to do.  Between two       *)
(* passes the files are in use; and if the latest set was read, its pass     *)
(* succeeded or left a rollback to come.                                     *)
Owed == pc = "rollback" \/ (pc = "wait" /\ ~(status.ok = TRUE /\ status.gen = desired.gen))
RestInv ==
    ~astray /\ unit \in Between =>
        /\ InUse
        /\ ~pending => Unread \/ loaded = desired.set \/ Owed

LEMMA WorkingGoesOn ==
  ASSUME Working
  PROVE  unit \notin Between /\ unit' \notin Between
BY ReplaceIs, RestoreIs DEF Between, Working, Replace, Restore, Replacements, Restorations, Test, Dump,
   Reload, Retest

(* A pass that ends succeeds, or fails an order that is to be rolled back.  *)
LEMMA PassEndRests ==
  ASSUME Typed, WrittenInv, AnswerInv, ~astray, ~astray',
         WriteFails \/ WriteStatus \/ KillUnit
  PROVE  InUse' /\ (Unread' \/ loaded' = desired'.set \/ Owed')
<1>1. UNCHANGED <<desired, files, loaded, goal, pc, pending>>
  BY DEF WriteFails, WriteStatus, KillUnit, nginx, service
<1>2. GenInv /\ (Promised => Agreed)
  BY DEF AnswerInv
<1>3. (\E ok \in BOOLEAN : Lost(ok)) /\ (Lost(TRUE) \/ Lost(FALSE))
  <2>1. (unit = "done") \in BOOLEAN
    OBVIOUS
  <2> QED
    BY <2>1 DEF WriteFails, WriteStatus, KillUnit, EndPass
<1>4. InUse
  BY <1>3 DEF Lost
<1>5. InUse'
  BY <1>1, <1>4 DEF InUse
<1>6. Unread' <=> Unread
  BY <1>1 DEF Unread
<1>7. ASSUME ~Unread PROVE loaded' = desired'.set \/ Owed'
  <2>1. goal.gen = desired.gen
    BY <1>7 DEF Unread
  <2>2. CASE unit = "done" /\ EndPass(goal.gen, TRUE)
    BY <1>1, <1>2, <2>1, <2>2, PassSucceeds
  <2>3. CASE /\ Lost(FALSE)
             /\ status' = status \/ status'.ok = FALSE
    <3>1. pc = "wait" \/ pc = "rollback"
      <4>1. Awaited
        BY <1>7, <2>3, Zenon DEF Lost
      <4> QED
        BY <4>1 DEF Awaited
    <3>2. CASE Promised
      <4>1. loaded = desired.set
        BY <1>2, <3>2 DEF Agreed
      <4>2. loaded' = desired'.set
        BY <1>1, <4>1
      <4> QED
        BY <4>2, Zenon
    <3>3. CASE ~Promised
      <4>1. ~(status'.ok = TRUE /\ status'.gen = desired'.gen)
        <5>1. CASE status' = status
          BY <1>1, <3>3, <5>1 DEF Promised
        <5>2. CASE status'.ok = FALSE
          BY <5>2
        <5> QED
          BY <2>3, <5>1, <5>2
      <4>2. Owed'
        BY <1>1, <3>1, <4>1 DEF Owed
      <4> QED
        BY <4>2, Zenon
    <3> QED
      BY <3>2, <3>3
  <2>4. CASE WriteFails \/ KillUnit
    <3>1. Lost(FALSE) /\ (status' = status \/ status' = [gen |-> 0, ok |-> FALSE])
      BY <2>4 DEF WriteFails, KillUnit, EndPass
    <3>2. status' = status \/ status'.ok = FALSE
      BY <3>1
    <3> QED
      BY <2>3, <3>1, <3>2, Zenon
  <2>5. CASE WriteStatus
    <3>1. CASE EndPass(goal.gen, unit = "done") /\ unit = "done"
      <4>1. (unit = "done") = TRUE
        BY <3>1
      <4> QED
        BY <2>2, <3>1, <4>1
    <3>2. CASE EndPass(goal.gen, unit = "done") /\ unit # "done"
      <4>1. (unit = "done") = FALSE
        BY <3>2
      <4>2. Lost(FALSE) /\ status' = [gen |-> goal.gen, ok |-> FALSE]
        BY <3>2, <4>1, Zenon DEF EndPass
      <4>3. status'.ok = FALSE
        BY <4>2
      <4> QED
        BY <2>3, <4>2, <4>3, Zenon
    <3>3. CASE Lost(FALSE) /\ (UNCHANGED status \/ status' = [gen |-> 0, ok |-> FALSE])
      <4>1. status' = status \/ status'.ok = FALSE
        BY <3>3
      <4> QED
        BY <2>3, <3>3, <4>1, Zenon
    <3> QED
      BY <2>5, <3>1, <3>2, <3>3 DEF WriteStatus
  <2> QED
    BY <2>4, <2>5
<1> QED
  BY <1>5, <1>6, <1>7, Zenon

LEMMA RestStep ==
  ASSUME Typed, WrittenInv, AnswerInv, RestInv, Next
  PROVE  RestInv'
<1> SUFFICES ASSUME ~astray', unit' \in Between
             PROVE  InUse' /\ (~pending' => Unread' \/ loaded' = desired'.set \/ Owed')
  BY DEF RestInv
<1>1. /\ ~astray
      /\ unit \in Between => InUse
      /\ unit \in Between /\ ~pending => Unread \/ loaded = desired.set \/ Owed
      /\ GenInv /\ (Promised => Agreed)
  BY AstrayStays DEF RestInv, AnswerInv
<1>2. ASSUME UNCHANGED <<files, loaded>> PROVE InUse' <=> InUse
  BY <1>2 DEF InUse
<1>3. ASSUME UNCHANGED <<desired, goal>> PROVE Unread' <=> Unread
  BY <1>3 DEF Unread
<1>4. ASSUME NEW set, WriteDesired(set, desired.gen + 1), goal' = goal PROVE Unread'
  <2>1. desired'.gen = desired.gen + 1 /\ desired.gen \in Nat /\ goal.gen \in Nat
    BY <1>4 DEF WriteDesired, Typed, ServiceTyped, UnitTyped, Desires
  <2>2. goal'.gen <= desired.gen
    BY <1>1, <1>4 DEF GenInv
  <2> QED
    BY <1>4, <2>1, <2>2 DEF Unread
<1>5. ASSUME NEW after \in SUBSET Entries, Change(after)
      PROVE  Unread' /\ UNCHANGED <<files, loaded, unit>>
  <2>1. WriteDesired(after, desired.gen + 1) /\ UNCHANGED <<files, loaded, unit, goal>>
    BY <1>5 DEF Change, nginx, pass
  <2> QED
    BY <1>4, <2>1
<1>6. ASSUME NEW after \in SUBSET Entries, ChangeRefused(after)
      PROVE  UNCHANGED <<files, loaded, unit, pending, desired, goal>> /\ ~Owed
  BY <1>6 DEF ChangeRefused, nginx, pass, Owed
<1>7. CASE Answer
  <2>1. UNCHANGED <<files, loaded, unit, pending, desired, goal, status>> /\ pc = "wait"
    BY <1>7 DEF Answer, nginx, pass
  <2>2. CASE status.ok = TRUE
    <3>1. status.gen = desired.gen
      BY <1>1, <1>7 DEF Answer, Answered, GenInv, Typed, ServiceTyped, UnitTyped, Desires, Statuses
    <3>2. loaded = desired.set
      BY <1>1, <2>2, <3>1 DEF Promised, Agreed
    <3> QED
      BY <1>1, <1>2, <2>1, <3>2
  <2>3. CASE status.ok = FALSE
    <3>1. pc' = "rollback"
      BY <1>7, <2>3 DEF Answer
    <3> QED
      BY <1>1, <1>2, <2>1, <3>1 DEF Owed
  <2> QED
    BY <2>2, <2>3 DEF Typed, UnitTyped, Statuses
<1>8. CASE Timeout
  <2>1. UNCHANGED <<files, loaded, unit, pending, desired, goal>> /\ pc' = "rollback"
    BY <1>8 DEF Timeout, nginx, pass
  <2> QED
    BY <1>1, <1>2, <2>1 DEF Owed
<1>9. CASE Rollback
  <2>1. UNCHANGED <<files, loaded, unit, goal>> /\ WriteDesired(before, desired.gen + 1)
    BY <1>9, Zenon DEF Rollback, nginx, pass
  <2>2. Unread'
    BY <1>4, <2>1
  <2> QED
    BY <1>1, <1>2, <2>1, <2>2
<1>10. CASE Report
  <2>1. UNCHANGED <<files, loaded, unit, pending, desired, goal>> /\ ~Owed
    BY <1>10 DEF Report, nginx, pass, Owed
  <2> QED
    BY <1>1, <1>2, <1>3, <2>1
<1>11. CASE ReadDesired
  <2>1. /\ unit \in Between /\ goal' = desired
        /\ UNCHANGED <<files, loaded, desired, pc>>
    BY <1>11 DEF ReadDesired, nginx, service, Between
  <2>2. /\ astray' = (astray \/ pc \notin {"wait", "rollback"})
        /\ \E gen \in {0, desired.gen} : status' = [gen |-> gen, ok |-> FALSE]
    BY <1>11 DEF ReadDesired, Between
  <2>3. pc \in {"wait", "rollback"}
    BY <2>2, Zenon
  <2>4. PICK gen \in {0, desired.gen} : status' = [gen |-> gen, ok |-> FALSE]
    BY <2>2
  <2>5. status'.ok = FALSE
    BY <2>4
  <2> QED
    BY <1>1, <1>2, <2>1, <2>3, <2>5 DEF Owed
<1>12. CASE Working
  BY <1>12, WorkingGoesOn
<1>13. CASE WriteFails \/ WriteStatus \/ KillUnit
  BY <1>1, <1>13, PassEndRests
<1>14. CASE KillService
  <2>1. UNCHANGED <<files, loaded, unit, pending, desired, goal>>
    BY <1>14 DEF KillService, nginx, pass
  <2>2. ~(Awaited /\ unit \in Between)
    BY <1>14 DEF KillService
  <2>3. unit \in Between => Unread \/ ~Owed
    BY <2>2 DEF Awaited, Owed
  <2> QED
    BY <1>1, <1>2, <1>3, <2>1, <2>3
<1>15. CASE NginxReloaded
  <2>1. /\ UNCHANGED <<files, unit, pending, desired, goal, status, pc>>
        /\ files.conf # NoConf /\ loaded' = files.conf[1]
    BY <1>15 DEF NginxReloaded, pass, service
  <2>2. loaded' = loaded
    BY <1>1, <2>1 DEF InUse
  <2> QED
    BY <1>1, <1>2, <1>3, <2>1, <2>2 DEF Owed
<1>16. CASE Purge
  BY <1>16 DEF Purge
<1>17. CASE Exit
  <2>1. unit \in Between /\ UNCHANGED <<files, loaded, pending, desired, goal, status, pc>>
    BY <1>17 DEF Exit, nginx, service, Between
  <2> QED
    BY <1>1, <1>2, <1>3, <2>1 DEF Owed
<1>18. ASSUME NEW after \in SUBSET Entries, Change(after) \/ ChangeRefused(after)
       PROVE  InUse' /\ (~pending' => Unread' \/ loaded' = desired'.set \/ Owed')
  <2>1. CASE Change(after)
    BY <1>1, <1>2, <1>5, <2>1
  <2>2. CASE ChangeRefused(after)
    BY <1>1, <1>2, <1>3, <1>6, <2>2
  <2> QED
    BY <1>18, <2>1, <2>2
<1> QED
  BY <1>7, <1>8, <1>9, <1>10, <1>11, <1>12, <1>13, <1>14, <1>15, <1>16, <1>17, <1>18,
     NextIs DEF Typed

(* When neither the service nor the unit has anything left to do, and the    *)
(* unit did not miss the latest set, nginx runs with it, whatever orders,    *)
(* rollbacks and failures came before; and it does when success is reported. *)
THEOREM NginxAsDesiredHolds == Spec => []NginxAsDesired
<1>1. Init => RestInv
  BY DEF Init, RestInv, InUse
<1>2. ASSUME Typed, WrittenInv, AnswerInv, RestInv, [Next]_vars PROVE RestInv'
  <2>1. CASE Next
    BY <1>2, <2>1, RestStep
  <2>2. CASE UNCHANGED vars
    BY <1>2, <2>2 DEF vars, nginx, service, pass, RestInv, Owed, InUse, Unread, Between
  <2> QED
    BY <1>2, <2>1, <2>2
<1>3. Spec => []RestInv
  BY <1>1, <1>2, TypedAlways, AnswerAlways, PTL DEF Spec
<1>4. Typed /\ AnswerInv /\ RestInv => NginxAsDesired
  <2> SUFFICES ASSUME Typed, AnswerInv, RestInv PROVE NginxAsDesired
    OBVIOUS
  <2>1. pc = "report" /\ outcome = "ok" => astray \/ loaded = desired.set
    BY DEF AnswerInv, Promised, Agreed
  <2>2. AtRest => astray \/ Unread \/ loaded = desired.set
    BY DEF RestInv, Owed, AtRest, Between
  <2> QED
    BY <2>1, <2>2, Zenon DEF NginxAsDesired
<1> QED
  BY <1>3, <1>4, TypedAlways, AnswerAlways, PTL
=============================================================================
