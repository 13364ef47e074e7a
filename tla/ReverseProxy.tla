---------------------------- MODULE ReverseProxy ----------------------------
(***************************************************************************)
(* Blocking at the reverse proxy.  The remediation service, which has no   *)
(* right on nginx, writes the set of blocked entries it desires to a file, *)
(* under a new generation, waits for the status of that generation, and    *)
(* writes the previous set back if it does not come or is a failure        *)
(* (remediation.py).  A root unit that systemd starts when the file changes *)
(* writes the two files of nginx, has them tested, reloads nginx, and      *)
(* writes the status (proxy_apply.py).                                     *)
(*                                                                         *)
(* The two processes share the files only; either may be killed anywhere.  *)
(***************************************************************************)
EXTENDS Naturals, FiniteSets

CONSTANTS
    Addresses,    \* addresses to deny
    Rules,        \* WAF rules and countries: they need enforce.conf included
    MaxRules,     \* MAX_WAF_RULES, MAX_COUNTRIES
    MaxChanges,   \* bound: orders
    MaxFaults,    \* bound: reads, writes and commands that fail
    MaxAccidents  \* bound: kills, reloads of nginx by others, purges

ASSUME ReverseProxyAssumption ==
    /\ {MaxRules, MaxChanges, MaxFaults, MaxAccidents} \subseteq Nat
    /\ IsFiniteSet(Rules)
    /\ Addresses \cap Rules = {}

Entries == Addresses \cup Rules

VARIABLES
    desired,  \* desired.json: [gen, set]
    status,   \* status.json: [gen, ok]; gen is 0 when the unit has none to give
    files,    \* of nginx: [conf, enforce]; conf is <<>> or <<its entries>>
    loaded,   \* entries nginx runs with
    included, \* whether a site of nginx includes enforce.conf
    pc,       \* of the service
    before,   \* set to write back
    outcome,  \* of the order in progress
    unit,     \* stage of the root unit
    goal,     \* desired state the unit applies
    saved,    \* files as the unit found them
    passed,   \* whether "nginx -t" has accepted the new files
    pending,  \* whether systemd is to start the unit
    astray,   \* history: something failed that neither process knows of
    changes, faults, accidents

service == <<pc, before, outcome>>
pass    == <<unit, goal, saved, passed>>
nginx   == <<files, loaded, included>>
budget  == <<changes, faults, accidents>>
vars == <<desired, status, nginx, service, pass, pending, astray, budget>>

NoConf == <<>>

Init ==
    /\ desired = [gen |-> 0, set |-> {}]
    /\ status = [gen |-> 0, ok |-> FALSE]
    /\ files = [conf |-> NoConf, enforce |-> FALSE]
    /\ loaded = {} /\ included \in BOOLEAN
    /\ pc = "idle" /\ before = {} /\ outcome = "none"
    /\ unit = "idle" /\ goal = desired /\ saved = files /\ passed = FALSE
    /\ pending = FALSE /\ astray = FALSE
    /\ changes = 0 /\ faults = 0 /\ accidents = 0

Fault ==
    /\ faults < MaxFaults /\ faults' = faults + 1
    /\ UNCHANGED <<changes, accidents>>
Accident ==
    /\ accidents < MaxAccidents /\ accidents' = accidents + 1
    /\ UNCHANGED <<changes, faults>>

-----------------------------------------------------------------------------
(* The service.                                                            *)

Finish(result) == pc' = "report" /\ outcome' = result

(* systemd starts the unit when the file changes, and does not watch the    *)
(* file while the unit it started is active: a change during a pass, which *)
(* may last 120 seconds where the service waits for 60, is missed, but for *)
(* one that comes as the watch is put back.                                *)
Trigger ==
    \/ pending' = TRUE
    \/ unit # "idle" /\ UNCHANGED pending

WriteDesired(set, gen) == desired' = [gen |-> gen, set |-> set] /\ Trigger

TooMany(set) == Cardinality(set \cap Rules) > MaxRules

(* Mutant: the limit on the rules is not checked.                          *)
ChangeUnlimited(after) ==
    /\ pc = "idle"
    /\ changes < MaxChanges /\ changes' = changes + 1
    /\ WriteDesired(after, desired.gen + 1)
    /\ before' = desired.set
    /\ pc' = "wait"
    /\ UNCHANGED <<status, nginx, outcome, pass, astray, faults, accidents>>

(* An order for the reverse proxy: `after` is the desired set with one     *)
(* entry added or removed.                                                 *)
Change(after) ==
    /\ pc = "idle"
    /\ changes < MaxChanges /\ changes' = changes + 1
    /\ ~TooMany(after)
    /\ WriteDesired(after, desired.gen + 1)
    /\ before' = desired.set
    /\ pc' = "wait"
    /\ UNCHANGED <<status, nginx, outcome, pass, astray, faults, accidents>>

(* The desired state cannot be read or written, or has too many rules:     *)
(* nothing is changed.                                                     *)
ChangeRefused(after) ==
    /\ pc = "idle"
    /\ changes < MaxChanges /\ changes' = changes + 1
    /\ \/ TooMany(after) /\ UNCHANGED faults
       \/ faults < MaxFaults /\ faults' = faults + 1
    /\ Finish("failed")
    /\ UNCHANGED <<desired, status, nginx, before, pass, pending, astray, accidents>>

(* Mutant: the status of any generation is taken for an answer.            *)
AnsweredByAny == status.gen > 0

Answered == status.gen >= desired.gen

(* The status of this generation, or of a later one, has come.             *)
Answer ==
    /\ pc = "wait"
    /\ Answered
    /\ IF status.ok THEN Finish("ok") ELSE pc' = "rollback" /\ UNCHANGED outcome
    /\ UNCHANGED <<desired, status, nginx, before, pass, pending, astray, budget>>

Timeout ==
    /\ pc = "wait"
    /\ ~Answered
    /\ pc' = "rollback"
    /\ UNCHANGED <<desired, status, nginx, before, outcome, pass, pending, astray,
                   budget>>

(* Mutant: the previous set is not written back.                           *)
RollbackForgotten ==
    /\ pc = "rollback"
    /\ Finish("failed")
    /\ UNCHANGED <<desired, status, nginx, before, pass, pending, astray, budget>>

(* A rollback is triggered as any change, but its status is read by no one; *)
(* a failure to write it is logged.                                        *)
Rollback ==
    /\ pc = "rollback"
    /\ \/ WriteDesired(before, desired.gen + 1) /\ UNCHANGED <<astray, budget>>
       \/ Fault /\ astray' = TRUE /\ UNCHANGED <<desired, pending>>
    /\ Finish("failed")
    /\ UNCHANGED <<status, nginx, before, pass>>

Report ==
    /\ pc = "report"
    /\ pc' = "idle" /\ outcome' = "none"
    /\ UNCHANGED <<desired, status, nginx, before, pass, pending, astray, budget>>

-----------------------------------------------------------------------------
(* The root unit.                                                          *)

(* No pass is at work on the files.                                        *)
Between == {"idle", "exit"}

(* The latest desired state is not that of the latest pass: the unit is to *)
(* read it, or has missed it.                                              *)
Unread == goal.gen # desired.gen

(* Whether the service waits for the end of this pass.                     *)
Awaited == pc \in {"wait", "rollback"} /\ ~Unread

(* Every pass takes the files it finds for those nginx runs with.          *)
InUse == files.conf = <<loaded>> \/ (files.conf = NoConf /\ loaded = {})

(* The failure to apply the latest state, when no order waits for it, is   *)
(* known to no one, and neither are files left on the disk that nginx has  *)
(* not loaded.                                                             *)
Lost(ok) == astray' = (astray \/ (~ok /\ ~Awaited /\ ~Unread) \/ ~InUse)

(* The status is there before the program has ended.                       *)
EndPass(gen, ok) ==
    /\ status' = [gen |-> gen, ok |-> ok]
    /\ unit' = "exit"
    /\ Lost(ok)

(* A pass reads the desired state; one it cannot read has no generation,   *)
(* and one it refuses leaves nginx alone.                                  *)
ReadDesired ==
    /\ unit = "idle" /\ pending
    /\ pending' = FALSE
    /\ goal' = desired /\ saved' = files /\ passed' = FALSE
    /\ \/ unit' = "conf" /\ UNCHANGED <<status, astray, budget>>
       \/ /\ Fault
          /\ \E gen \in {0, desired.gen} : status' = [gen |-> gen, ok |-> FALSE]
          /\ astray' = (astray \/ pc \notin {"wait", "rollback"})
          /\ unit' = "exit"
    /\ UNCHANGED <<desired, nginx, service>>

New == [conf |-> <<goal.set>>, enforce |-> TRUE]

(* The files are replaced one after the other, and put back in the same    *)
(* order: <<stage, file, next stage>>.                                     *)
Replacements ==
    {<<"conf", "conf", "enforce">>, <<"enforce", "enforce", "test">>,
     <<"keep conf", "conf", "keep enforce">>, <<"keep enforce", "enforce", "failed">>}
Restorations ==
    {<<"restore conf", "conf", "restore enforce">>,
     <<"restore enforce", "enforce", "retest">>}

Replace ==
    \E r \in Replacements :
        /\ unit = r[1]
        /\ files' = [files EXCEPT ![r[2]] = New[r[2]]]
        /\ unit' = r[3]
        /\ UNCHANGED <<desired, status, loaded, included, service, goal, saved,
                       passed, pending, astray, budget>>

Restore ==
    \E r \in Restorations :
        /\ unit = r[1]
        /\ files' = [files EXCEPT ![r[2]] = saved[r[2]]]
        /\ unit' = r[3]
        /\ UNCHANGED <<desired, status, loaded, included, service, goal, saved,
                       passed, pending, astray, budget>>

(* A write that fails ends the pass, with the files as they are.           *)
WriteFails ==
    /\ \E r \in Replacements \cup Restorations : unit = r[1]
    /\ Fault
    /\ EndPass(0, FALSE)
    /\ UNCHANGED <<desired, nginx, service, goal, saved, passed, pending>>

(* A site that includes enforce.conf needs the file and the variables that *)
(* the other one defines.                                                  *)
Valid(f) == included => f.conf # NoConf /\ f.enforce

Test ==
    /\ unit = "test"
    /\ \/ /\ Valid(files)
          /\ passed' = TRUE /\ unit' = "dump"
          /\ UNCHANGED budget
       \/ /\ (~Valid(files) /\ UNCHANGED budget) \/ Fault
          /\ unit' = "restore conf"
          /\ UNCHANGED passed
    /\ UNCHANGED <<desired, status, nginx, service, goal, saved, pending, astray>>

(* "nginx -T" tells whether the files are taken into account; nginx is     *)
(* reloaded only if they have changed.                                     *)
Dump ==
    /\ unit = "dump"
    /\ \/ /\ goal.set \cap Rules = {} \/ included
          /\ unit' = IF saved # New THEN "reload" ELSE "done"
          /\ UNCHANGED budget
       \/ /\ (goal.set \cap Rules # {} /\ ~included /\ UNCHANGED budget) \/ Fault
          /\ unit' = "restore conf"
    /\ UNCHANGED <<desired, status, nginx, service, goal, saved, passed, pending,
                   astray>>

Reload ==
    /\ unit = "reload"
    /\ \/ Valid(files) /\ loaded' = files.conf[1] /\ unit' = "done" /\ UNCHANGED budget
       \/ Fault /\ unit' = "restore conf" /\ UNCHANGED loaded
    /\ UNCHANGED <<desired, status, files, included, service, goal, saved, passed,
                   pending, astray>>

(* Mutant: what was restored is not tested.                                *)
RetestSkipped ==
    /\ unit = "retest"
    /\ unit' = "failed"
    /\ UNCHANGED <<desired, status, nginx, service, goal, saved, passed, pending,
                   astray, budget>>

(* Files that "nginx -t" had accepted come back if the restored ones do    *)
(* not pass.                                                               *)
Retest ==
    /\ unit = "retest"
    /\ \/ /\ passed
          /\ (~Valid(files) /\ UNCHANGED budget) \/ Fault
          /\ unit' = "keep conf"
       \/ passed /\ Valid(files) /\ unit' = "failed" /\ UNCHANGED budget
       \/ ~passed /\ unit' = "failed" /\ UNCHANGED budget
    /\ UNCHANGED <<desired, status, nginx, service, goal, saved, passed, pending,
                   astray>>

WriteStatus ==
    /\ unit \in {"done", "failed"}
    /\ \/ EndPass(goal.gen, unit = "done") /\ UNCHANGED budget
       \/ /\ Fault
          /\ unit' = "exit" /\ Lost(FALSE)
          /\ UNCHANGED status \/ status' = [gen |-> 0, ok |-> FALSE]
    /\ UNCHANGED <<desired, nginx, service, goal, saved, passed, pending>>

Exit ==
    /\ unit = "exit"
    /\ unit' = "idle"
    /\ UNCHANGED <<desired, status, nginx, service, goal, saved, passed, pending,
                   astray, budget>>

-----------------------------------------------------------------------------
(* Accidents.                                                              *)

(* The service is killed; the desired state stays as it is.                *)
KillService ==
    /\ pc # "idle"
    /\ Accident
    /\ pc' = "idle" /\ outcome' = "none"
    /\ astray' = (astray \/ (Awaited /\ unit \in Between))
    /\ UNCHANGED <<desired, status, nginx, before, pass, pending>>

(* The unit is killed, by its timeout or with the machine.                 *)
KillUnit ==
    /\ unit \notin Between
    /\ Accident
    /\ unit' = "idle" /\ passed' = FALSE
    /\ Lost(FALSE)
    /\ UNCHANGED <<desired, status, nginx, service, goal, saved, pending>>

(* Something else reloads nginx.  In the middle of a pass it may load files *)
(* that were not tested yet, or are about to be put back.                  *)
NginxReloaded ==
    /\ Accident
    /\ Valid(files) /\ files.conf # NoConf
    /\ loaded' = files.conf[1]
    /\ UNCHANGED <<desired, status, files, included, service, pass, pending, astray>>

(* The agent is removed with its state and installed anew: the generations *)
(* start again, but the status, which belongs to root, stays.              *)
Purge ==
    /\ pc = "idle" /\ unit = "idle" /\ ~pending
    /\ Accident
    /\ desired' = [gen |-> 0, set |-> {}]
    /\ astray' = TRUE
    /\ UNCHANGED <<status, nginx, service, pass, pending>>

Order ==
    \E e \in Entries : \E after \in {desired.set \cup {e}, desired.set \ {e}} :
        Change(after) \/ ChangeRefused(after)
ServiceStep == Answer \/ Timeout \/ Rollback \/ Report
UnitStep ==
    \/ ReadDesired \/ Replace \/ Restore \/ WriteFails \/ Test \/ Dump \/ Reload
    \/ Retest \/ WriteStatus \/ Exit
Mishap == KillService \/ KillUnit \/ NginxReloaded \/ Purge

Next == Order \/ ServiceStep \/ UnitStep \/ Mishap

(* Every wait of the service and every command of the unit has a timeout,  *)
(* and systemd starts the unit for a change it has seen.                   *)
Spec == Init /\ [][Next]_vars
FairSpec == Spec /\ WF_vars(ServiceStep) /\ WF_vars(UnitStep)

-----------------------------------------------------------------------------
(* Properties.                                                             *)

Stages ==
    {"idle", "exit", "test", "dump", "reload", "retest", "done", "failed"}
        \cup {r[1] : r \in Replacements \cup Restorations}
FilesOK(f) ==
    /\ DOMAIN f = {"conf", "enforce"} /\ f.enforce \in BOOLEAN
    /\ f.conf = NoConf \/ \E set \in SUBSET Entries : f.conf = <<set>>

(* Types; the desired set never has more rules than the unit accepts.      *)
TypeOK ==
    /\ desired \in [gen : Nat, set : SUBSET Entries] /\ ~TooMany(desired.set)
    /\ status \in [gen : Nat, ok : BOOLEAN]
    /\ FilesOK(files) /\ FilesOK(saved)
    /\ loaded \subseteq Entries /\ included \in BOOLEAN
    /\ pc \in {"idle", "wait", "rollback", "report"}
    /\ before \subseteq Entries
    /\ outcome \in {"none", "ok", "failed"}
    /\ unit \in Stages
    /\ goal \in [gen : Nat, set : SUBSET Entries]
    /\ {passed, pending, astray} \subseteq BOOLEAN
    /\ changes \in 0..MaxChanges
    /\ faults \in 0..MaxFaults /\ accidents \in 0..MaxAccidents

(* "pas de faux succes" (proxy_apply.py:19): when an order is reported as  *)
(* done, nginx runs with the desired set.  And it does whenever neither    *)
(* process has anything left to do, if the unit has read that set.  A      *)
(* change the unit missed stays unread until the next order, rollback or   *)
(* edit; `astray` exempts what was lost in a way that neither process      *)
(* knows of, such as a pass killed between its files and its reload.       *)
AtRest == pc \in {"idle", "report"} /\ unit = "idle" /\ ~pending
NginxAsDesired ==
    /\ pc = "report" /\ outcome = "ok" => astray \/ loaded = desired.set
    /\ AtRest => astray \/ Unread \/ loaded = desired.set

(* "La configuration sur disque reste toujours valide" (proxy_apply.py:320): *)
(* when a pass that tested its files ends, nginx can start from the disk.  *)
ValidOnDisk == unit \in {"done", "failed"} /\ passed => Valid(files)

(* In the end nginx runs with the desired set, which is the previous one   *)
(* after an order that failed, whether the pass failed, was late, or could *)
(* not write its status.  It does not if the last set was written during a *)
(* pass that outlived its order, and was missed: there a blocking that was *)
(* reported as failed stays, against remediation.py:303.  Nor, as above,   *)
(* after what went astray.                                                 *)
Settles == <>[](astray \/ Unread \/ loaded = desired.set)
=============================================================================
