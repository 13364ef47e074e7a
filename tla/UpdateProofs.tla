---------------------------- MODULE UpdateProofs ----------------------------
(* What the update on Linux keeps true for every number of releases,        *)
(* whatever each is worth, and any number of refused passes and accidents.  *)
EXTENDS Update, TLAPS

Qualities == {"good", "broken", "refused"}
Steps == {"idle", "fetch", "remove", "copy", "verify", "refresh", "restart",
          "remediation", "active", "rollback", "undo", "restore", "restart old"}

(* The type invariant, and that a pass begins with code it could read.     *)
WorldTyped ==
    /\ quality \in [Versions -> Qualities]
    /\ latest \in Versions
    /\ refusals \in Nat /\ refusals <= MaxRefusals
    /\ accidents \in Nat /\ accidents <= MaxAccidents
CopiesTyped ==
    /\ target \in Versions
    /\ code \in Versions \cup {None, Partial} /\ backup \in Versions \cup {None}
    /\ stage \in Steps
    /\ stage = "fetch" => code \in Versions
    /\ stage \notin {"idle", "fetch"} => backup \in Versions
ServicesTyped ==
    /\ scripts \in Versions
    /\ agent \in Versions \cup {None} /\ remediation \in Versions \cup {None}
    /\ reports \subseteq Versions \X {"success", "failed"}
Typed == WorldTyped /\ CopiesTyped /\ ServicesTyped

LEMMA Bounds ==
  /\ MaxReleases \in Nat /\ MaxRefusals \in Nat /\ MaxAccidents \in Nat
  /\ 0 \in Versions /\ None \notin Versions /\ Partial \notin Versions
BY UpdateAssumption DEF Versions, None, Partial

LEMMA TypedIsTypeOK == Typed => TypeOK
<1> SUFFICES ASSUME Typed PROVE TypeOK
  OBVIOUS
<1>1. refusals \in 0 .. MaxRefusals /\ accidents \in 0 .. MaxAccidents
  BY Bounds DEF Typed, WorldTyped
<1> QED
  BY <1>1 DEF Typed, WorldTyped, CopiesTyped, ServicesTyped, TypeOK, Qualities, Steps

-----------------------------------------------------------------------------
(* Steps.                                                                  *)
LEMMA StartedFrom ==
  ASSUME NEW v
  PROVE  /\ Started(v) \subseteq Versions \cup {None}
         /\ Started(v) \subseteq {v, None}
         /\ v \in Versions /\ quality[v] = "good" => Started(v) = {v}
BY DEF Started

LEMMA NextIs ==
  ASSUME Next
  PROVE  \/ BackUp \/ Remove \/ Copy \/ Verify \/ Refresh \/ Restart \/ RestartRemediation
         \/ CheckActive \/ RollbackReport \/ RollbackRemove \/ RollbackCopy
         \/ RollbackRestart \/ Check \/ Abandon \/ Publish
         \/ Die \/ StartedAgain \/ CommandFails \/ Kill \/ Reboot
BY DEF Next, Script

LEMMA WorldTypedStep ==
  ASSUME Typed, Next
  PROVE  WorldTyped'
<1> USE DEF Typed, WorldTyped
<1>1. ASSUME NEW n \in Nat, NEW bound \in Nat, n < bound
      PROVE  n + 1 \in Nat /\ n + 1 <= bound
  BY <1>1
<1>2. Accident => accidents' \in Nat /\ accidents' <= MaxAccidents
  BY <1>1, Bounds DEF Accident
<1>3. CASE Script
  <2>1. UNCHANGED world
    BY <1>3 DEF Script, BackUp, Remove, Copy, Verify, Refresh, Restart, RestartRemediation,
                CheckActive, RollbackReport, RollbackRemove, RollbackCopy, RollbackRestart
  <2>2. accidents' = accidents \/ Accident
    BY <1>3 DEF Script, BackUp, Remove, Copy, Verify, Refresh, Restart, RestartRemediation,
                CheckActive, RollbackReport, RollbackRemove, RollbackCopy, RollbackRestart
  <2> QED
    BY <1>2, <2>1, <2>2 DEF world
<1>4. CASE Check
  BY <1>4 DEF Check, world
<1>5. CASE Abandon
  BY <1>1, <1>5, Bounds DEF Abandon
<1>6. CASE Publish
  <2>1. latest' \in Versions
    BY <1>6, Bounds DEF Publish, Versions
  <2> QED
    BY <1>6, <2>1 DEF Publish
<1>7. CASE Die \/ StartedAgain \/ CommandFails \/ Kill \/ Reboot
  BY <1>2, <1>7 DEF Die, StartedAgain, CommandFails, Kill, Reboot, world
<1> QED
  BY <1>3, <1>4, <1>5, <1>6, <1>7 DEF Next

LEMMA CopiesTypedStep ==
  ASSUME Typed, Next
  PROVE  CopiesTyped'
<1> USE DEF Typed, CopiesTyped, Steps, At
<1>1. CASE Check
  BY <1>1 DEF Check, WorldTyped, Importable
<1>2. CASE BackUp \/ Remove \/ Copy
  BY <1>2 DEF BackUp, Remove, Copy
<1>3. CASE Verify \/ Refresh \/ Restart \/ RestartRemediation \/ CheckActive
  BY <1>3 DEF Verify, Refresh, Restart, RestartRemediation, CheckActive
<1>4. CASE RollbackReport \/ RollbackRemove \/ RollbackCopy \/ RollbackRestart
  BY <1>4 DEF RollbackReport, RollbackRemove, RollbackCopy, RollbackRestart
<1>5. CASE Abandon \/ Publish \/ Die \/ StartedAgain
  BY <1>5 DEF Abandon, Publish, Die, StartedAgain, world
<1>6. CASE CommandFails \/ Kill \/ Reboot
  BY <1>6 DEF CommandFails, Kill, Reboot
<1> QED
  BY <1>1, <1>2, <1>3, <1>4, <1>5, <1>6, NextIs

LEMMA ServicesTypedStep ==
  ASSUME Typed, Next
  PROVE  ServicesTyped'
<1> USE DEF Typed, ServicesTyped
<1>1. CASE Check \/ BackUp \/ Remove \/ Copy \/ Verify
  BY <1>1 DEF Check, BackUp, Remove, Copy, Verify, services
<1>2. CASE Restart \/ RestartRemediation \/ RollbackRestart
  BY <1>2, StartedFrom DEF Restart, RestartRemediation, RollbackRestart
<1>3. CASE CheckActive
  BY <1>3 DEF CheckActive, CopiesTyped, services
<1>4. CASE RollbackReport
  BY <1>4 DEF RollbackReport, CopiesTyped, services
<1>5. CASE RollbackRemove \/ RollbackCopy \/ Abandon \/ Publish
  BY <1>5 DEF RollbackRemove, RollbackCopy, Abandon, Publish, services
<1>6. CASE CommandFails \/ Kill \/ Refresh
  BY <1>6 DEF CommandFails, Kill, Refresh, CopiesTyped, services
<1>7. CASE Reboot \/ Die \/ StartedAgain
  BY <1>7, StartedFrom DEF Reboot, Die, StartedAgain
<1> QED
  BY <1>1, <1>2, <1>3, <1>4, <1>5, <1>6, <1>7, NextIs

LEMMA TypedStep ==
  ASSUME Typed, [Next]_vars
  PROVE  Typed'
<1>1. CASE Next
  BY <1>1, WorldTypedStep, CopiesTypedStep, ServicesTypedStep DEF Typed
<1>2. CASE UNCHANGED vars
  BY <1>2 DEF vars, world, services, Typed, WorldTyped, CopiesTyped, ServicesTyped
<1> QED
  BY <1>1, <1>2

LEMMA TypedAlways == Spec => []Typed
<1>1. Init => Typed
  BY Bounds DEF Init, Typed, WorldTyped, CopiesTyped, ServicesTyped, Qualities, Steps
<1> QED
  BY <1>1, TypedStep, PTL DEF Spec

(* Types hold, and a pass that has gone beyond the download has a backup   *)
(* of code that could be read.                                             *)
THEOREM TypeCorrect == Spec => []TypeOK
BY TypedAlways, TypedIsTypeOK, PTL

-----------------------------------------------------------------------------
(* The services without accident.  Between two passes they run the code on *)
(* disk, or have died of it; while it is replaced, the code is in the       *)
(* backup; a pass that undoes a release has shown that it is not good.      *)
NoneBroken == \A v \in Versions : v <= latest => quality[v] # "broken"
Kept(v) == Importable(v) /\ v <= latest
AgentOf(v) == agent \in {v, None} /\ (quality[v] = "good" => agent = v)
Among(set) == remediation \in set \cup {None} \/ quality[remediation] # "good"
InStep(v) == Among({v}) /\ (NoneBroken => remediation = v)
ScriptsOf(v) == scripts = v \/ quality[scripts] = "broken"
Settled == Kept(code) /\ AgentOf(code) /\ InStep(code) /\ ScriptsOf(code)
Replacing ==
    /\ Kept(backup) /\ (quality[backup] = "good" => agent = backup)
    /\ Among({backup, target}) /\ (NoneBroken => remediation = backup)
Undoing == Kept(backup) /\ quality[target] # "good" /\ InStep(backup) /\ ScriptsOf(backup)
ReportsInv == \A v \in Versions : <<v, "failed">> \in reports => quality[v] # "good"
StagesInv ==
    /\ stage # "idle" => target <= latest
    /\ stage \in {"idle", "fetch", "remove"} => Settled
    /\ stage = "remove" => backup = code
    /\ stage \in {"copy", "verify", "refresh", "restart"} => Replacing
    /\ stage \in {"copy", "verify", "refresh"} => ScriptsOf(backup)
    /\ stage = "copy" => code = None
    /\ stage \in {"verify", "refresh", "restart", "remediation", "active"} => code = target
    /\ stage \in {"refresh", "restart", "remediation", "active"} => quality[target] # "refused"
    /\ stage \in {"restart", "remediation", "active"} => scripts = target
    /\ stage \in {"remediation", "active"} => Kept(backup) /\ AgentOf(target)
    /\ stage = "active" => InStep(target)
    /\ stage \in {"rollback", "undo", "restore", "restart old"} => Undoing
    /\ stage \in {"rollback", "undo"} => code = target
    /\ stage = "restore" => code = None
    /\ stage = "restart old" => code = backup
QuietInv == accidents = 0 => ReportsInv /\ StagesInv

LEMMA AccidentsStay ==
  ASSUME Typed, Next, accidents' = 0
  PROVE  accidents = 0 /\ ~Accident
<1>1. accidents \in Nat
  BY DEF Typed, WorldTyped
<1>2. ~Accident
  BY <1>1 DEF Accident
<1>3. accidents' = accidents
  BY <1>2, NextIs
  DEF Check, BackUp, Remove, Copy, Verify, Refresh, Restart, RestartRemediation, CheckActive,
      RollbackReport, RollbackRemove, RollbackCopy, RollbackRestart, Abandon, Publish,
      Die, StartedAgain, CommandFails, Kill, Reboot
<1> QED
  BY <1>2, <1>3

(* The releases keep what they are worth, and none is withdrawn.           *)
LEMMA QualityStays ==
  ASSUME Typed, Next
  PROVE  quality' = quality /\ latest <= latest' /\ (NoneBroken' => NoneBroken)
<1>1. latest \in Int
  BY Bounds DEF Typed, WorldTyped, Versions
<1>2. quality' = quality /\ latest' \in {latest, latest + 1}
  BY NextIs
  DEF Check, BackUp, Remove, Copy, Verify, Refresh, Restart, RestartRemediation, CheckActive,
      RollbackReport, RollbackRemove, RollbackCopy, RollbackRestart, Abandon, Publish,
      Die, StartedAgain, CommandFails, Kill, Reboot, world
<1>3. \A v \in Versions : v <= latest => v <= latest'
  BY <1>1, <1>2 DEF Versions
<1> QED
  BY <1>1, <1>2, <1>3 DEF NoneBroken

LEMMA ReportsStep ==
  ASSUME Typed, ReportsInv, StagesInv, Next, ~Accident
  PROVE  ReportsInv'
<1> USE QualityStays DEF ReportsInv
<1>1. CASE UNCHANGED reports
  BY <1>1
<1>2. CASE CheckActive
  BY <1>2 DEF CheckActive
<1>3. CASE RollbackReport
  <2>1. quality[target] # "good"
    BY <1>3 DEF RollbackReport, At, StagesInv, Undoing
  <2> QED
    BY <1>3, <2>1 DEF RollbackReport
<1> QED
  BY <1>1, <1>2, <1>3, NextIs
  DEF Check, BackUp, Remove, Copy, Verify, Refresh, Restart, RestartRemediation,
      RollbackRemove, RollbackCopy, RollbackRestart, Abandon, Publish,
      Die, StartedAgain, CommandFails, Kill, Reboot

(* If none is broken, what was verified is good.                            *)
LEMMA KeptIsGood ==
  ASSUME Typed, NoneBroken, NEW v, Kept(v)
  PROVE  quality[v] = "good"
BY DEF Typed, WorldTyped, Qualities, NoneBroken, Kept, Importable

LEMMA StagesStep ==
  ASSUME Typed, StagesInv, Next, ~Accident
  PROVE  StagesInv'
<1> USE DEF At, services
<1>q. quality' = quality /\ latest <= latest' /\ (NoneBroken' => NoneBroken)
  BY QualityStays
<1>t. /\ target \in Versions /\ backup \in Versions \cup {None}
      /\ code \in Versions \cup {None, Partial}
      /\ quality \in [Versions -> Qualities] /\ latest \in Int /\ latest' \in Int
  <2>1. latest \in Versions /\ latest' \in Versions
    BY WorldTypedStep DEF Typed, WorldTyped
  <2> QED
    BY <2>1, Bounds DEF Typed, CopiesTyped, WorldTyped, Versions
<1>k. \A v : Kept(v) => Kept(v)'
  BY <1>q, <1>t, Bounds DEF Kept, Importable, Versions
<1>1. CASE Check
  BY <1>1, <1>q, <1>t DEF Check, world, StagesInv, Settled, Kept, AgentOf, Among, InStep,
     ScriptsOf, Importable
<1>2. CASE Abandon \/ BackUp
  BY <1>2, <1>q, <1>t DEF Abandon, BackUp, world, StagesInv, Settled, Kept, AgentOf, Among,
     InStep, ScriptsOf, Importable
<1>3. CASE Remove
  BY <1>3, <1>q, <1>t DEF Remove, world, StagesInv, Settled, Replacing, Kept, AgentOf, Among,
     InStep, ScriptsOf, Importable
<1>4. CASE Copy
  BY <1>4, <1>q, <1>t DEF Copy, world, StagesInv, Replacing, Kept, Among, ScriptsOf, Importable
<1>5. CASE Verify
  BY <1>5, <1>q, <1>t DEF Verify, world, StagesInv, Replacing, Undoing, Kept, Among, InStep,
     ScriptsOf, Importable
<1>6. CASE Refresh
  BY <1>6, <1>q, <1>t DEF Refresh, world, StagesInv, Replacing, Kept, Among, Importable
<1>7. CASE Restart
  BY <1>7, <1>q, <1>t DEF Restart, world, StagesInv, Replacing, Kept, AgentOf, Importable, Started
<1>8. CASE RestartRemediation
  <2>1. Kept(target)
    BY <1>8, <1>t DEF RestartRemediation, StagesInv, Kept, Importable
  <2>2. NoneBroken => quality[target] = "good"
    BY <2>1, KeptIsGood
  <2> QED
    BY <1>8, <1>q, <1>t, <2>2 DEF RestartRemediation, world, StagesInv, Kept, AgentOf, Among,
       InStep, Importable, Started
<1>9. CASE CheckActive
  <2>1. Kept(target)
    BY <1>9, <1>t DEF CheckActive, StagesInv, Kept, Importable
  <2>2. CASE agent # None
    BY <1>9, <1>q, <1>t, <2>1, <2>2 DEF CheckActive, world, StagesInv, Settled, Kept, AgentOf,
       Among, InStep, ScriptsOf, Importable
  <2>3. CASE agent = None
    <3>1. quality[target] = "broken"
      BY <1>9, <1>t, <2>1, <2>3, Bounds DEF CheckActive, StagesInv, AgentOf, Kept, Importable,
         Qualities
    <3>2. ~NoneBroken
      BY <1>t, <2>1, <3>1 DEF NoneBroken, Kept
    <3> QED
      BY <1>9, <1>q, <1>t, <2>3, <3>1, <3>2 DEF CheckActive, world, StagesInv, Undoing, Kept,
         Among, InStep, ScriptsOf, Importable
  <2> QED
    BY <2>2, <2>3
<1>10. CASE RollbackReport \/ RollbackRemove \/ RollbackCopy
  BY <1>10, <1>q, <1>t DEF RollbackReport, RollbackRemove, RollbackCopy, world, StagesInv,
     Undoing, Kept, Among, InStep, ScriptsOf, Importable
<1>11. CASE RollbackRestart
  BY <1>11, <1>q, <1>t DEF RollbackRestart, world, StagesInv, Undoing, Settled, Kept, AgentOf,
     Among, InStep, ScriptsOf, Importable, Started
<1>12. CASE Publish
  <2>1. UNCHANGED <<quality, code, stage, target, backup, scripts, agent, remediation>>
    BY <1>12 DEF Publish
  <2>2. \A v : AgentOf(v) => AgentOf(v)'
    BY <2>1 DEF AgentOf
  <2>3. \A v : InStep(v) => InStep(v)'
    BY <1>q, <2>1 DEF InStep, Among
  <2>4. Replacing => Replacing'
    BY <1>q, <1>k, <2>1 DEF Replacing, Among
  <2>5. UNCHANGED <<ScriptsOf(code), ScriptsOf(backup)>>
    BY <2>1 DEF ScriptsOf
  <2>6. target <= latest => target <= latest'
    BY <1>q, <1>t DEF Versions
  <2> QED
    BY <1>k, <2>1, <2>2, <2>3, <2>4, <2>5, <2>6 DEF StagesInv, Settled, Undoing
<1>13. CASE Die
  <2>1. UNCHANGED <<world, code, stage, target, backup, scripts>>
    BY <1>13 DEF Die
  <2>2. \/ agent' = None /\ agent # None /\ remediation' = remediation /\ quality[agent] # "good"
        \/ /\ remediation' = None /\ remediation # None /\ agent' = agent
           /\ quality[remediation] # "good"
    BY <1>13 DEF Die
  <2>3. \A v : Kept(v) /\ NoneBroken => quality[v] = "good"
    BY KeptIsGood
  <2>4. stage = "active" => Kept(target)
    BY <1>t DEF StagesInv, Kept, Importable
  <2>5. \A v : AgentOf(v) => AgentOf(v)'
    BY <2>1, <2>2 DEF AgentOf, world
  <2>6. \A v : Kept(v) /\ InStep(v) => InStep(v)'
    BY <2>1, <2>2, <2>3 DEF InStep, Among, NoneBroken, world
  <2>7. Replacing => Replacing'
    BY <2>1, <2>2, <2>3 DEF Replacing, Among, NoneBroken, world, Kept, Importable
  <2>8. UNCHANGED <<Kept(code), Kept(backup), ScriptsOf(code), ScriptsOf(backup)>>
    BY <2>1 DEF Kept, Importable, ScriptsOf, world
  <2> QED
    BY <2>1, <2>4, <2>5, <2>6, <2>7, <2>8 DEF StagesInv, Settled, Undoing, world
<1>14. CASE StartedAgain
  <2>1. UNCHANGED <<world, code, stage, target, backup, scripts>>
    BY <1>14 DEF StartedAgain
  <2>2. \/ agent = None /\ agent' \in Started(code) /\ remediation' = remediation
        \/ remediation = None /\ remediation' \in Started(code) /\ agent' = agent
    BY <1>14 DEF StartedAgain
  <2>3. /\ agent' \in {agent, code, None} /\ remediation' \in {remediation, code, None}
        /\ agent # None => agent' = agent
        /\ remediation # None => remediation' = remediation
    BY <2>2, StartedFrom
  <2>4. \A v \in Versions : AgentOf(v) /\ code = v => AgentOf(v)'
    BY <2>1, <2>3, Bounds DEF AgentOf, world
  <2>5. \A v \in Versions : InStep(v) /\ (code = v \/ code = None \/ quality[code] # "good")
            => InStep(v)'
    BY <2>1, <2>3, Bounds DEF InStep, Among, NoneBroken, world
  <2>6. Replacing /\ code \in {None, target} => Replacing'
    BY <2>1, <2>3, <1>t, Bounds DEF Replacing, Among, NoneBroken, world, Kept, Importable
  <2>7. UNCHANGED <<Kept(code), Kept(backup), ScriptsOf(code), ScriptsOf(backup)>>
    BY <2>1 DEF Kept, Importable, ScriptsOf, world
  <2>8. \A v : Kept(v) => v \in Versions
    BY DEF Kept, Importable
  <2> QED
    BY <1>t, <2>1, <2>4, <2>5, <2>6, <2>7, <2>8 DEF StagesInv, Settled, Undoing, world
<1>15. CASE CommandFails \/ Kill \/ Reboot
  BY <1>15 DEF CommandFails, Kill, Reboot
<1> QED
  BY <1>1, <1>2, <1>3, <1>4, <1>5, <1>6, <1>7, <1>8, <1>9, <1>10, <1>11, <1>12, <1>13, <1>14,
     <1>15, NextIs

LEMMA QuietAlways == Spec => []QuietInv
<1>1. Init => QuietInv
  BY Bounds DEF Init, QuietInv, ReportsInv, StagesInv, Settled, Kept, AgentOf, Among, InStep,
     ScriptsOf, Importable
<1>2. ASSUME Typed, QuietInv, [Next]_vars PROVE QuietInv'
  <2>1. CASE Next
    BY <1>2, <2>1, AccidentsStay, ReportsStep, StagesStep DEF QuietInv
  <2>2. CASE UNCHANGED vars
    BY <1>2, <2>2 DEF vars, world, services, QuietInv, ReportsInv, StagesInv, Settled,
       Replacing, Undoing, NoneBroken, Kept, AgentOf, Among, InStep, ScriptsOf, Importable
  <2> QED
    BY <1>2, <2>1, <2>2
<1> QED
  BY <1>1, <1>2, TypedAlways, PTL DEF Spec

(* Without accident, whatever the releases are worth and whenever a service *)
(* of a broken one dies: a pass ends with code that can be imported, run by  *)
(* the agent where it is good; no good release is undone; the remediation    *)
(* and the scripts are those of the code or of a release that was undone; if  *)
(* no release is broken, everything is in step (update-agent.sh lines 187-269). *)
THEOREM WorksWhenIdleHolds == Spec => []WorksWhenIdle
<1>1. Typed /\ QuietInv => WorksWhenIdle
  <2> SUFFICES ASSUME Typed, ReportsInv, Settled PROVE
        /\ Importable(code)
        /\ agent \in {code, None} /\ (quality[code] = "good" => agent = code)
        /\ remediation \in {code, None} \/ quality[remediation] # "good"
        /\ scripts = code \/ quality[scripts] = "broken"
        /\ \A v \in Versions : <<v, "failed">> \in reports => quality[v] # "good"
        /\ (\A v \in Versions : v <= latest => quality[v] # "broken") =>
               quality[code] = "good" /\ remediation = code
    BY Zenon DEF QuietInv, StagesInv, WorksWhenIdle
  <2>1. NoneBroken => quality[code] = "good" /\ remediation = code
    BY KeptIsGood DEF Settled, InStep
  <2> QED
    BY <2>1 DEF ReportsInv, Settled, Kept, AgentOf, InStep, Among, ScriptsOf, NoneBroken
<1> QED
  BY <1>1, QuietAlways, TypedAlways, PTL
=============================================================================
