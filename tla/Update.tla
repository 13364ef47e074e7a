------------------------------- MODULE Update -------------------------------
(***************************************************************************)
(* The update of an agent on Linux: auto-update-check.sh, started every      *)
(* night, and update-agent.sh, one action per step of the script, with the   *)
(* two services that it restarts.  The script may fail or be killed at any   *)
(* step; what it has done then stays done.                                   *)
(***************************************************************************)
EXTENDS Integers

CONSTANTS
    MaxReleases,    \* bound on the releases published after the installed one
    MaxRefusals,    \* bound on the passes that the network or a check ends early
    MaxAccidents    \* bound on failing commands, deaths and reboots

ASSUME UpdateAssumption == {MaxReleases, MaxRefusals, MaxAccidents} \subseteq Nat

Versions == 0 .. MaxReleases
None == -1              \* no code, no backup, or a service that does not run
Partial == -2           \* a copy that was not finished

VARIABLES
    quality,        \* of each version: "good", "broken" (its services die, as they
                    \* start or later) or "refused" (by the verification)
    latest,         \* the release the backend offers
    code,           \* what is in /opt/cybersafe-agent/cybersafe_agent
    stage,          \* the next step of the script, "idle" when none runs
    target, backup, \* the version being installed; the copy made before
    scripts,        \* the release of the installed scripts and units
    agent, remediation,     \* the versions the services have in memory
    reports,        \* what the backend was told: <<version, result>>
    refusals, accidents

world == <<quality, latest, refusals>>
services == <<agent, remediation>>
vars == <<world, code, stage, target, backup, scripts, services, reports, accidents>>

Accident == accidents < MaxAccidents /\ accidents' = accidents + 1
Importable(v) == v \in Versions /\ quality[v] # "refused"
\* What a service that was started from the code on disk is found to run
\* (Type=simple: it is started whatever the code is worth, and may have died).
Started(v) ==
    IF v \notin Versions THEN {None} ELSE IF quality[v] = "good" THEN {v} ELSE {v, None}

At(here, there) == stage = here /\ stage' = there

-----------------------------------------------------------------------------
Publish ==
    /\ latest < MaxReleases
    /\ latest' = latest + 1
    /\ UNCHANGED <<quality, refusals, code, stage, target, backup, scripts, services, reports, accidents>>

CheckUntried ==
    /\ At("idle", "fetch")
    /\ Importable(code)
    /\ latest > code /\ latest # target
    /\ target' = latest
    /\ backup' = None
    /\ UNCHANGED <<world, code, scripts, services, reports, accidents>>

\* The check imports the installed code to read its version and the
\* configuration: without usable code both scripts end there.
Check ==
    /\ At("idle", "fetch")
    /\ Importable(code)
    /\ latest > code
    /\ target' = latest
    /\ backup' = None
    /\ UNCHANGED <<world, code, scripts, services, reports, accidents>>

\* The backend does not answer, the metadata are incomplete, the hash or the
\* signature of the archive is wrong, or the archive has no code.
Abandon ==
    /\ At("fetch", "idle")
    /\ refusals < MaxRefusals /\ refusals' = refusals + 1
    /\ UNCHANGED <<quality, latest, code, target, backup, scripts, services, reports, accidents>>

BackUpNothing ==
    /\ At("fetch", "remove")
    /\ backup' = None
    /\ UNCHANGED <<world, code, target, scripts, services, reports, accidents>>

BackUp ==
    /\ At("fetch", "remove")
    /\ backup' = code
    /\ UNCHANGED <<world, code, target, scripts, services, reports, accidents>>

Remove ==
    /\ At("remove", "copy")
    /\ code' = None
    /\ UNCHANGED <<world, target, backup, scripts, services, reports, accidents>>

Copy ==
    /\ At("copy", "verify")
    /\ code' = target
    /\ UNCHANGED <<world, target, backup, scripts, services, reports, accidents>>

Verify ==
    /\ stage = "verify"
    /\ stage' = IF quality[target] = "refused" THEN "rollback" ELSE "refresh"
    /\ UNCHANGED <<world, code, target, backup, scripts, services, reports, accidents>>

\* The scripts and the unit of the remediation become those of the release;
\* the rollback does not bring them back. A script that cannot be written is a
\* warning.
Refresh ==
    /\ At("refresh", "restart")
    /\ \/ scripts' = target /\ UNCHANGED accidents
       \/ scripts' = scripts /\ Accident
    /\ UNCHANGED <<world, code, target, backup, services, reports>>

Restart ==
    /\ At("restart", "remediation")
    /\ agent' \in Started(code)
    /\ UNCHANGED <<world, code, target, backup, scripts, remediation, reports, accidents>>

\* Not blocking: a restart that fails is a warning, a unit that is not found
\* is passed over.
RestartRemediation ==
    /\ At("remediation", "active")
    /\ \/ remediation' \in Started(code) /\ UNCHANGED accidents
       \/ remediation' \in {None, remediation} /\ Accident
    /\ UNCHANGED <<world, code, target, backup, scripts, agent, reports>>

\* One look at the agent, 3 s or more after its restart. A release whose agent
\* dies later, or was just started again, passes.
CheckActive ==
    /\ stage = "active"
    /\ IF agent # None THEN /\ stage' = "idle"
                            /\ reports' \in {reports, reports \cup {<<target, "success">>}}
                       ELSE stage' = "rollback" /\ UNCHANGED reports
    /\ UNCHANGED <<world, code, target, backup, scripts, services, accidents>>

\* The report of a failure comes before the rollback, and may be lost.
RollbackReport ==
    /\ At("rollback", "undo")
    /\ reports' \in {reports, reports \cup {<<target, "failed">>}}
    /\ UNCHANGED <<world, code, target, backup, scripts, services, accidents>>

RollbackRemove ==
    /\ At("undo", "restore")
    /\ code' = None
    /\ UNCHANGED <<world, target, backup, scripts, services, reports, accidents>>

RollbackCopy ==
    /\ At("restore", "restart old")
    /\ code' = backup
    /\ UNCHANGED <<world, target, backup, scripts, services, reports, accidents>>

RollbackNoRestart ==
    /\ At("restart old", "idle")
    /\ UNCHANGED <<world, code, target, backup, scripts, services, reports, accidents>>

\* Only the agent is restarted.
RollbackRestart ==
    /\ At("restart old", "idle")
    /\ \/ agent' \in Started(code) /\ UNCHANGED accidents
       \/ agent' = None /\ Accident
    /\ UNCHANGED <<world, code, target, backup, scripts, remediation, reports>>

-----------------------------------------------------------------------------
(* The services.  One that dies is started again with the code of the moment  *)
(* (Restart=on-failure, RestartSec=5s), but not for ever (StartLimitBurst).   *)
Die ==
    /\ \/ agent # None /\ agent' = None /\ UNCHANGED remediation
          /\ IF quality[agent] = "good" THEN Accident ELSE UNCHANGED accidents
       \/ remediation # None /\ remediation' = None /\ UNCHANGED agent
          /\ IF quality[remediation] = "good" THEN Accident ELSE UNCHANGED accidents
    /\ UNCHANGED <<world, code, stage, target, backup, scripts, reports>>

StartedAgain ==
    /\ \/ agent = None /\ agent' \in Started(code) /\ UNCHANGED remediation
       \/ remediation = None /\ remediation' \in Started(code) /\ UNCHANGED agent
    /\ UNCHANGED <<world, code, stage, target, backup, scripts, reports, accidents>>

-----------------------------------------------------------------------------
(* set -e: a command that fails ends the script where it is.  A copy may      *)
(* stop half-way; a restart may have stopped the service.                    *)
CommandFails ==
    /\ stage \in {"fetch", "remove", "copy", "refresh", "restart", "undo", "restore"}
    /\ Accident
    /\ stage' = "idle"
    /\ code' = IF stage \in {"copy", "restore"} THEN Partial ELSE code
    /\ scripts' \in IF stage = "refresh" THEN {scripts, target} ELSE {scripts}
    /\ agent' \in IF stage = "restart" THEN {agent, None} ELSE {agent}
    /\ UNCHANGED <<world, target, backup, remediation, reports>>

\* The timeout of the unit (600 s), an operator, or the machine.
Kill ==
    /\ stage # "idle"
    /\ Accident
    /\ stage' = "idle"
    /\ code' \in IF stage \in {"copy", "restore"} THEN {code, Partial} ELSE {code}
    /\ scripts' \in IF stage = "refresh" THEN {scripts, target} ELSE {scripts}
    /\ UNCHANGED <<world, target, backup, services, reports>>

\* The machine restarts, and the services with the code on disk.
Reboot ==
    /\ Accident
    /\ stage' = "idle"
    /\ agent' \in Started(code) /\ remediation' \in Started(code)
    /\ UNCHANGED <<world, code, target, backup, scripts, reports>>

Init ==
    /\ quality \in {q \in [Versions -> {"good", "broken", "refused"}] : q[0] = "good"}
    /\ latest = 0 /\ code = 0 /\ stage = "idle" /\ target = 0 /\ backup = None
    /\ scripts = 0 /\ agent = 0 /\ remediation = 0
    /\ reports = {}
    /\ refusals = 0 /\ accidents = 0

Script ==
    \/ BackUp \/ Remove \/ Copy \/ Verify \/ Refresh \/ Restart \/ RestartRemediation
    \/ CheckActive \/ RollbackReport \/ RollbackRemove \/ RollbackCopy \/ RollbackRestart

Next ==
    \/ Script \/ Check \/ Abandon \/ Publish
    \/ Die \/ StartedAgain \/ CommandFails \/ Kill \/ Reboot

Spec == Init /\ [][Next]_vars

\* The timer comes back every night (Persistent=true) and the script goes on.
FairSpec == Spec /\ WF_vars(Script) /\ WF_vars(Check)

-----------------------------------------------------------------------------
TypeOK ==
    /\ quality \in [Versions -> {"good", "broken", "refused"}]
    /\ latest \in Versions /\ target \in Versions
    /\ code \in Versions \cup {None, Partial} /\ backup \in Versions \cup {None}
    /\ scripts \in Versions /\ {agent, remediation} \subseteq Versions \cup {None}
    /\ stage \in {"idle", "fetch", "remove", "copy", "verify", "refresh", "restart",
                  "remediation", "active", "rollback", "undo", "restore", "restart old"}
    /\ reports \subseteq Versions \X {"success", "failed"}
    /\ refusals \in 0 .. MaxRefusals /\ accidents \in 0 .. MaxAccidents
    /\ stage \notin {"idle", "fetch"} => backup \in Versions

\* Without accident (a command that fails, a death of what is good, a reboot):
\* a pass ends with code that can be imported, and where that code is good the
\* agent runs it; a good release is never undone; what the remediation runs
\* differs from the code, and so do the scripts, only by a release that was
\* undone, and the rollback leaves them so (update-agent.sh:187-269). The look at
\* the agent says no more of a release than that its agent ran then: if none
\* passes the verification and dies afterwards, everything runs what is on disk.
WorksWhenIdle ==
    stage = "idle" /\ accidents = 0 =>
        /\ Importable(code)
        /\ agent \in {code, None} /\ (quality[code] = "good" => agent = code)
        /\ remediation \in {code, None} \/ quality[remediation] # "good"
        /\ scripts = code \/ quality[scripts] = "broken"
        /\ \A v \in Versions : <<v, "failed">> \in reports => quality[v] # "good"
        /\ (\A v \in Versions : v <= latest => quality[v] # "broken") =>
               quality[code] = "good" /\ remediation = code

\* A release that works is installed in the end, after refused passes and
\* releases that were undone, unless an accident or a newer release comes.
GetsNewest ==
    \A v \in Versions :
        latest = v /\ quality[v] = "good" ~> agent = v \/ latest # v \/ accidents > 0

=============================================================================
