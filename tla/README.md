# Verification of the Cybersafe-AI agent

TLA+ models of the agent's core, with the properties that make it correct. TLC
checks them on small instances, and the TLA+ proof system proves the safety properties
for every value of the constants. Paths are those of the repository, below `src/`;
`agent/` is short for `cybersafe_agent/`.

## The system

The agent of a monitored host is a set of processes that share files and the firewall.

| Part | State | Operations | Talks to |
|---|---|---|---|
| Collector `agent/main.py` | threads, stop event | startup with catch-up of the spool, start and stop of the threads | all the parts of the pipeline |
| Tailers `agent/platforms/*.py` | position in each file, bookmarks | read new lines, rotation, stop | the buffer, by a callback in the tailer's thread |
| Parsers `agent/parsers/` | none (IIS: the fields of each file) | line to event | called by the callback |
| Port inventory `agent/port_inventory.py` | none | listing of the system to one event, once per interval | the buffer |
| Buffer `agent/buffer.py` | list of events, under a lock | add, flush, timer, stop | the sender, by the flush callback, outside the lock |
| Sender `agent/sender.py` | none | send, retries, replay of the spool | backend (HTTPS), spool |
| Spool `agent/spool.py` | a directory of files | write, evict, oldest, read, remove, without a lock | the disk |
| Remediation service `agent/remediation.py` | journal of nonces | poll, guard of the order, action, report | backend, iptables, files |
| Order guard `agent/order_guard.py` | nonces in memory and in a file | signature, expiry, action, parameters, nonce | |
| Isolation `agent/isolation.py` | `state.json`, `heartbeat`, the chains | isolate, restore | iptables of both families |
| Isolation guard `agent/isolation_guard.py` | `guard.stamp` | one run every 30 s, as root | the same firewall and files |
| Reverse proxy, service side `agent/remediation.py` | `desired.json` | change, wait, rollback | the root unit, by files |
| Reverse proxy, root unit `agent/proxy_apply.py` | two files of nginx, `status.json` | one pass per change | nginx |
| Update `packaging/linux/*.sh` | the code, a backup | replace, verify, restart, rollback | systemd |

What is hard:

- **Interleaving without a lock.** The service and the guard run iptables
  commands on the same chains and rewrite the same files; the threads of the
  collector send, replay, evict and write the spool together; the service and the
  root unit answer each other through files of two generations.
- **Failure at any step.** Every iptables command, file operation and request may
  fail, and the code goes on after most of them. The processes are killed, the
  machine restarts (the rules are lost, the files are not), reports are lost,
  orders are delivered again.
- **Time.** Deadlines, freshness, contact and expiry are compared on the wall
  clock; joins, waits and passes have timeouts shorter than what they wait for.
- **Liveness.** An isolated server must be reopened even if the service is stuck;
  a stop and a catch-up must end even if the backend never answers.

What makes each part correct: the pipeline does not make a line disappear without
a reason, keeps its limit and keeps going; an isolation is bounded in time whatever
happens to the service, and what is reported is what the firewall does; an order is
executed at most once and always answered; nginx ends with the desired set and can
always start. `PROJECT.json` lists the hazards, each at its line with the properties
that would catch it.

## The modules

### Isolation

`Isolation.tla`: `agent/isolation.py`, `isolation_guard.py`, and the poll of
`remediation.py` that writes the heartbeat. Two processes, `"service"` and
`"guard"`; one step is one command on the firewall or one file operation.

- `jumps` and `content` are the firewall: which native chains jump to the dedicated
  one, and whether that one is absent, empty or filled. A place is a family and a
  chain. `state`, `heartbeat`, `stamp` are the three files. `pc`, `cursor`, `t0`
  tell where each process stands, `seen` and `read` what it has read and may be stale.
- `IsolateBegin` to `IsolateVerify` are `isolate`; `RestoreCommand`, `RestoreCheck`,
  `RestoreUnlink` are `restore_all`, run by either process from its own cursor;
  `GuardStart` to `GuardOrphan` are `guard_tick`.
- `IsolateApply` is one `iptables-restore --noflush`: all or nothing for a family,
  and a failure if a jump it deletes is gone.
- A look at the jumps (`Look`) may fail and miss any of them: `iptables -C` that fails
  for any reason means "no such jump" to the code. A jump that was missed can be
  inserted twice, which the set of jumps does not distinguish: `restore_all` deletes
  each of them up to five times, more than the failures considered can insert.
- A rule set is one atomic content; what its rules let through is in `Ruleset`. The
  resolution of the API and of the DNS is the free choice to refuse.
- `ClockTick` does not let the time pass the next start of an active guard: a run is
  due every `GuardPeriod` and takes less (30 s, with a timeout of 60 s). A run that
  hangs is one that is killed, hence a fault that `GuardDelay` counts.

### EventPipeline

`EventPipeline.tla`: `agent/buffer.py`, `sender.py`, `spool.py`, and the life of the
process in `main.py`. `Tailers` are the threads that capture (tailers and port
inventory); with `"timer"` and `"main"` they all run the same `Flush`, `Send`, replay
and write steps, one per lock section, request or file operation. Events are
numbered as they are captured; `dropped` keeps, for each reason, those the code gave
up. `ListFiles`, `SumSizes`, `Evict` (once per file) and `WriteFile` are a `write`: between
them the others add, replay and evict, so `listed` goes stale and `counted`, the files
whose sizes are in `current`, may hold some that are gone. A file removed between
`exists()` and `stat()` raises an error (`SumSizes`), one removed later counts for
nothing; a removal or a listing that fails counts for one that succeeded. `Garble`
damages a file so that `read` raises: in the timer's thread it is its end
(`ReadRaises`), in main that of the process (`RunRaises`), in a tailer's callback it is
caught and logged. Lines are captured until the process has gone: `stop()` does not end
every thread that adds. `Die` is what daemon threads do when `main` returns, or a crash.

One event is one unit of size. Delays are not modelled, the number of attempts is.
`Unanswered` may or may not have been taken by the backend.

`Delivery.tla` is what the pipeline promises of a line, without threads nor files: it is
held from its capture, may be accepted any number of times, leaves only once accepted
or abandoned, and never comes back. `EventPipeline` instantiates it (`Queue`): what is
captured is offered, `Everywhere` (the buffer, the batches and replays of the threads,
the files) is what is held, `ingested` is accepted and the union of `dropped` is
abandoned. `ImplementsDelivery` says that every step of the threads is a step of that
queue or leaves it unchanged: it excludes what `Accounted` cannot see, a line that is
nowhere at one moment and on disk again at the next.

### Remediation

`Remediation.tla`: the poll loop, `_process_order`, `guard_order` with `ReplayJournal`,
and the six iptables actions on one address. `orders` and `answered` are the server,
which delivers an order until it has a result. `seen` and `journal` are the nonces in
memory and in the file, `mode` whether the file can be used. `rules` counts the
rules of each sort. `ListRules`, `DeleteRule`, `InsertRule` are the removal and the
insertion of a rate limit or of a range, command by command. The closed list of
actions and the bounds of the parameters are checks of one order on its own, modelled in
`Orders`; here an order that fails them is refused in the same way as an expired one.

### ReverseProxy

`ReverseProxy.tla`: the service's side (`_proxy_commit` and what calls it) and the
root unit (`apply_once`), which share `desired` and `status`. The unit's pass goes
through `unit` = conf, enforce, test, dump, reload, done, or restore, retest, keep,
failed. `Valid` is what `nginx -t` says of the files: a site that includes
`enforce.conf` needs it and the variables that the other file defines. The status is
there before the program has ended (`exit`). `Trigger` is the systemd path unit
(`PathChanged`), which does not watch the file while the unit it started is active: a
change made during a pass is missed, or, at its edge, seen. `Unread` says that the latest
set is not that of the latest pass.

`astray` remembers that something failed that neither process can know of: a pass of the
latest set that fails when no order waits for it, a rollback that is not written, a pass
killed after it changed the files, a purge. The properties exempt what follows, because
the code has no answer to it:

- a set that is written during a pass and missed stays unread until something writes
  the file again. The service waits 60 s for a unit that may take 120 s
  (`remediation.py:309`, `TimeoutStartSec` in `ensure-units.sh`), so the rollback of an order
  that was too slow falls in its pass: the blocking, reported as failed, is applied and stays,
  where `remediation.py:303` says that no orphan blocking can be applied later. `Unread`
  holds in these states, and `NginxAsDesired` and `Settles` leave them out;

- after a pass killed between the files and the reload, the next pass finds the files
  unchanged, does not reload, and reports success ("inchange"); the same holds after
  `undo` kept the new version on disk and the entry is ordered again;
- after a purge of the state directory the generations start again, and the old
  status, of a later generation, answers the next orders;
- a rollback is applied by a pass nobody waits for: its failure stays unknown.

A service killed while it waits leaves its change in `desired.json`. `Settles` then
asks that nginx does end with that set.

### FileTailer

`FileTailer.tla`: how one log source is followed. `kind` is chosen at the start:
`"linux"` is `LinuxLogTailer._tail_loop`, `"fixed"` and `"pattern"` are
`WindowsFileTailer._watch_fixed` and `_watch_pattern`.

- A file is an identity (its inode, or its name under a glob) with the sequence of its
  lines; a line is written whole, or in two writes between which `readline` may run.
  `listing` is what the path or the glob gives, in the order of modification.
- `stage` is where the thread is: opening, reading, comparing the open file with the
  path, draining the old file before a switch. Between any two steps the programs
  create (rotate), write, truncate and remove files.
- `delivered` records what the callback turned into an event and the parser that
  `on_new_line` chose (`Route`).
- A refused opening ends the thread on Linux and is tried again on Windows
  (`TargetFails`); `getmtime` of a file removed since the glob raises in the thread.
- A file can be truncated to nothing; the first line of a file is written in one part.

### EventLogTailer

`EventLogTailer.tla`: the subscription of one Windows channel. Records are numbered as
Windows logs them. `next` and `upto` delimit the batch `EvtNext` gave, `mark` is the
bookmark in memory and `disk` the file; a bookmark is the number of the last record it
covers, since that is all that `EvtSubscribe` uses of it. `held` and `safe` stand for the
pipeline behind the callback: what a death would lose, and what it would not. `since`
remembers where the agent last started without a bookmark. `Die` is any end of the
process that is not an orderly stop: the service does not handle the shutdown of
Windows.

### Update

`Update.tla`: `auto-update-check.sh` and `update-agent.sh`, one action per step. `code`
is the directory of the code, which may be absent or a partial copy; `agent` and
`remediation` are the versions the two services have in memory, which is not what is on
disk between two restarts; `scripts` is the release of the installed scripts and units,
which a pass refreshes after the verification and a rollback leaves (`Refresh`). A version
is good, `refused` (the verification sees it) or `broken`: its services die, as they start
or later. The units are `Type=simple`, so a start succeeds whatever the code is worth
(`Started`); `Die` and `StartedAgain` are the deaths and `Restart=on-failure`, which gives
up after five starts. `CheckActive` is the one look of the script, which a broken release
passes if its agent runs at that moment. `CommandFails` is `set -e`; `Kill` is the timeout
of the unit. The refreshed scripts are taken to do the same as the old ones.

### Inputs: Orders, Ruleset, Parsers, PortInventory

The parts that decide from one input alone are operators, in a module each, and
`Inputs.tla` applies them to every input; a behaviour is one input and what becomes of it.
Numbers, prefixes, names, preserved networks, statuses, columns, addresses and the size of a
listing are constants: small sets for TLC, any sets for the proofs.

- `Orders`: the order guard (`check_params`, `check_ip` and what it calls) and the second
  control by the component that carries the order out (`proxy_apply.validate`,
  `validate_rules`, `parse_preserve`). A text is the set of facts the controls ask of it;
  numbers and prefixes are taken on each side of each bound.
- `Ruleset`: `build_ruleset` for each family and `resolvers`. A rule names the values it
  asks of the fields of a packet; all the rules of a chain but the last accept and the
  last drops, so that they are a set.
- `Parsers`: which pattern a line meets, the fields it gives, its severity and type, for
  nginx, Apache, IIS, syslog, firewall and Windows events. Severities are kept to the
  status or identifier since alerts depend on them.
- `PortInventory`: rows of `ss` or `netstat`, exposure, deduplication (several listings of
  one port and address leave the last), and the event.

## The runs

All runs use the modules `*MC`. Deadlock is not checked: clocks, orders, lines and
failures are bounded, so every instance may come to rest.

| Run | Shows |
|---|---|
| `isolation_safety` | `BoundedIsolation`, `DeadMansSwitch`: the guard starts less than a period after the deadline, or the loss of contact, and its run of at most a period ends the isolation; one period more for each failure. `RestorationGuaranteed`: no isolation starts if the guard has not run recently. `NotLiftedEarly`: without failure, the guard lifts an isolation early only if that isolation was applied within a period of its run's start. A period is two units of the clock, so that a deadline can fall between two starts. |
| `isolation_faults` | `RestoredMeansOpen`, and with fairness `Reopened`: with two failures, every isolation ends and no state file stays behind. |
| `isolation_flushed` | violation of `ReportedMeansEffective` (finding) |
| `pipeline_limit` | `OvershootBounded`: the spool exceeds its limit by at most one batch per thread other than the first, and one per failed operation of the disk. `EvictedOnlyWhenFull`: no batch is evicted for one that fits, but by a thread that still counts a file another has removed. |
| `pipeline_delivery` | `Accounted`: no line disappears. `ImplementsDelivery`: the pipeline is the queue of `Delivery`. `MemoryDrains`, `StopCompletes`, `CatchupEnds`: nothing in it waits for the backend for ever; the first exempts a timer ended by a file that cannot be decoded, the last counts the end of the process by such a file. |
| `remediation` | `ReplayNeedsLoss`: an order is executed twice only after the clock was stepped back, or the journal failed and the service died. `ExtraRulesBounded`, `RemovalIsTrue`: what failing listings cost. `EveryOrderAnswered`: a result for every order, lost reports and deaths included. |
| `reverse_proxy` | `NginxAsDesired`: what is reported as done is what nginx runs with, and so is the desired set whenever neither process has anything left to do. `ValidOnDisk`: when a pass that tested its files ends, nginx can start from the disk. `Settles`: nginx ends with the desired set. All but `ValidOnDisk` except as said above: what was missed (`Unread`) or lost (`astray`). |
| `file_tailer` | `PathDeliversOnce`: a path gives no line twice nor out of order, over rotations, truncations and restarts. `NoHole`: nothing is skipped between two lines of a file. `LineGiven`: the pattern mode gives what the open file holds, also across a switch. `FollowsPath`: the file a path names is in the end open at a place it has: rotations, removals and truncations are noticed. |
| `iis_pattern` | violation of `IisLinesParsed` (finding) |
| `event_log` | `NoGap`: neither the loop nor the bookmark passes a record that was not handed over. `ReplayBounded`: what the next start repeats, of all that was ever handed over, is less than a save interval and one batch, unless a save failed or the bookmark could not be read at an earlier start. `EveryRecordGiven`: what the subscription has before it is handed over. |
| `update` | `WorksWhenIdle`: without accident, a pass ends with code that can be imported, run by the agent where it is good; no good release is undone; the remediation and the scripts differ from the code only by an undone release. `GetsNewest`: a good release is installed in the end, also after releases that were undone. |
| `inputs` | `AcceptedCanBeDoneAndUndone`: the two controls of an order agree, but for the one against lockout, and its lift is accepted. `IsolationLeavesWhatItMust`: the rules packet by packet. `SeverityAsDocumented`: the tables of the documentation in every format, and the failures that the parsers know by name. `SensitivePortsReported`. |

### Bounds

- *Isolation*: one native chain in both families, so that a partial isolation exists.
  One unit of time is a period of the guard (half of one in `isolation_safety`); the
  constants keep the order of the real ones (period, freshness, contact timeout; some are
  equal here), the clock passes the deadline of an order and the delays after it. Two orders meet a restoration of the first; one fault
  (two in `isolation_faults`) is a failing command, a failing look, a kill or a reboot
  anywhere.
- *EventPipeline*: one tailer, the timer and main are three threads that already race;
  `pipeline_limit` has a spool of two batches that three writers overrun. Three events
  fill a buffer of two and leave one to the timer, with a failing removal, listing, read
  or write, or a damaged file. `pipeline_limit` has no failure of the disk, which
  five lines and three writers leave no time for: both its properties are theorems for any of these
  numbers, failures included.
- *Remediation*: two orders, since the second one purges the nonce of the first; a
  clock that passes the expiry and its tolerance; three failures, deaths, lost reports
  or steps of the clock in all (`MaxFaults`).
- *ReverseProxy*: an address, two rules with a limit of one, two orders, two failures
  and one accident; a pass can outlive the order it was started for.
- *FileTailer*: two files make a rotation, three lines put one before, one during and one
  after it; one accident (truncation, removal, refused opening); two starts of the agent.
- *EventLogTailer*: batches and saves of two records, so that five records cross two of
  each and leave more than the bound beyond a saved bookmark; one failure ends the thread,
  damages the bookmark or hides it from one of the three starts, so that a third session
  can resume from a bookmark that the second could not read.
- *Update*: two releases after the installed one, of any quality, so that a good one
  follows one that is undone; one pass ended by the network or a check, one accident.
- *Inputs*: numbers on each side of each bound, every subset of the facts a control asks
  of a text, every packet of four kinds of hosts; listings of up to two rows. The theorems
  have none of these bounds.

### Fairness

- *Isolation*: the guard's steps and the clock only, since the guard is a systemd timer
  with a timeout; nothing is assumed of the service.
- *EventPipeline*: the threads run, every request has a timeout and a bounded number of
  attempts; nothing is assumed of the backend, nor that lines come. `CatchupEnds`
  rests on the bound on failures: a file whose removal fails for ever is
  replayed for ever (`spool.py:165`, `sender.py:154`). `RunRaises` is fair, since an
  error that is raised ends the process: a file that cannot be decoded ends the
  catch-up in that way, at this start and at each that follows.
- *Remediation*: the service keeps taking steps: the loop never ends, commands and
  requests have timeouts, systemd restarts it (`cybersafe-remediation.service:16`).
- *ReverseProxy*: the service and the unit each keep taking steps, for the same reasons.
- *FileTailer*: the thread runs; a rescan is due again every 30 s, so it is not put off
  for ever by lines that keep coming, nor reading by rescans. Nothing is assumed of the
  programs that write, nor that the agent starts or stops.
- *EventLogTailer*: the thread polls every 2 s and no call of it blocks for ever.
- *Update*: the timer comes back every night (`Persistent=true`), the script goes on.
  Nothing is assumed of the restarts by systemd, which may give up.

## The findings

Two disagreements between the code and what its documentation says, each a run:

1. a chain emptied by a restoration in progress leaves an isolation that is reported as
   in place and rejects nothing (`isolation.py:373`; `isolation_flushed`);
2. an IIS source given by a pattern, as the guide recommends, is not read by the IIS
   parser, since its type is looked up by the pattern and the tailer gives the name of
   the file (`main.py:226`; `iis_pattern`).

## Observed while modelling

What follows is what the code does, in the models or next to them. The properties are
stated so that they exempt exactly these cases.

*Isolation and remediation*

- The guard reads the state before it looks at the firewall (`isolation.py:411-412`): an
  isolation applied in between is lifted as one without a state. Or its run finds no rule
  yet, and removes the state of an order at work (414), which the next run then lifts.
  `NotLiftedEarly` says that without failure this is all: the run started at most a
  period after the rules were applied.
- A listing that fails is taken for an empty one (`remediation.py:178`): one failure is
  enough for two limits on one address, which the comment at line 212 excludes
  ("jamais deux regles pour une IP"). `ExtraRulesBounded` is what remains true.
- `remediation.py:97` inserts a ban without looking for one: two bans and one unban leave
  the address blocked. A new limit whose insertion fails has removed the old one (212).
- The guard accepts an isolation whose `ttl_seconds` is out of bounds, consumes its nonce,
  and `isolate` refuses it (`isolation.py:340`).

*Pipeline*

- An orderly stop waits 3 to 5 s for threads whose retries last longer
  (`main.py:290`, `buffer.py:59`): the batches they are sending are lost ("exit").
- A spool file removed by another thread between `exists()` and `stat()`
  (`spool.py:213`) makes the batch being spooled disappear ("vanished"), where
  `sender.py:95-98` promises it on disk.
- One that is removed after the sum stays in `current` (`spool.py:219`): the next file is
  evicted although the batch fits. A removal or a listing that fails (167, 196) is taken
  for one that succeeded: the spool exceeds its limit by a batch for each.
- A spool file that is not UTF-8, or not an object, raises out of `read` (`spool.py:145`,
  152): in the timer's thread it is its end, and a buffer below its limit is not
  flushed any more; at the catch-up `run` ends, at every start (`main.py:206`).
- A file that can be read but not removed is sent again for ever at the catch-up
  (`spool.py:165`), before anything is collected.
- Lines are added after the last flush, by the file tailer that `WindowsLogTailer.stop`
  does not stop (`windows.py:585`) and by threads that outlive their join: they are lost
  ("exit").

*Reverse proxy*

- The rollback of an order that outlived its wait is written during the pass it undoes, and
  missed by the path unit: nginx keeps the blocking that was reported as failed (see
  ReverseProxy above; `remediation.py:303`, `ensure-units.sh:79,99`).

*Tailers*

- A path is opened at its end, after a rotation too (`linux.py:85`): what the new file held
  before is never read. An incomplete last line is given in two pieces (`linux.py:89`).
- A file refused once, even for the time of a rotation, is not followed any more
  (`linux.py:128`).
- In pattern mode a failed opening leaves `current` on the file that was closed
  (`windows.py:418-432`): when that file is the most recent again, it is not reopened. What
  is written to a file after its drain is not read.
- `WindowsLogTailer.stop` does not stop its file tailer (`windows.py:585-589`).
- The bookmark is saved every 50 records and at the stop, whether or not the records are
  safe (`windows.py:736-743`): a death can skip records that were in memory, which the
  comment at lines 246-248 means to exclude.
- A read error of the bookmark at one start (`windows.py:272-276`) leaves the old file in
  place: if that session dies before its first save, the next start reads it and repeats
  both sessions. `ReplayBounded` leaves that case out, with `since`.
- Without a usable bookmark the subscription starts at the current position
  (`windows.py:629-634`), where the docstring (261-263) and the log line (276) say the
  oldest record. A bookmark that is not UTF-8 ends the thread of the channel (line 272
  catches `OSError` only).
- An event whose XML is malformed is delivered with the channel "Unknown".

*Update*

- `set -e` ends the script at a restart that fails (`update-agent.sh:245`), before its
  rollback, where line 17 announces an automatic one.
- A kill between the removal and the copy (lines 155-156) leaves no code, and both scripts
  import the installed code before anything else: no later pass repairs it.
- A rollback restarts the agent only (line 193): the remediation service keeps in memory
  a release that was undone. The scripts and the unit refreshed from it (209-237) stay too.
- The script looks at the agent once, about 3 s after its restart (lines 246, 257): a release
  whose agent dies later, or was just started again (`Restart=on-failure`, 5 s), is reported
  as a success and not undone, where line 17 announces a rollback. Nobody looks at the
  remediation. `WorksWhenIdle` says what the look is worth: of a release that passed, only
  that its code can be imported.
- A release that was undone is tried again every night.

*Orders, parsers and ports*

- The control against lockout comes after the guard (`remediation.py:527-536`): the nonce of
  an order that it turns down is spent, and the order must be signed again.
- The parser of syslog looks for "failed password" (`linux.py:40`): a "Failed publickey" or
  "Failed keyboard-interactive" of sshd is an event of severity info.
- Apache with `format: common` has no loose pattern, unlike the other formats.
- The columns declared in an IIS file are kept by file name and never reset
  (`iis.py:155`); without `c-ip` the address is that of the server.
- Windows identifiers are mapped whatever their channel (`parsers/windows.py:301`).
- An IPv4-mapped loopback address counts as exposed (`port_inventory.py:47`).

## The proofs

Every safety invariant and action property of the runs is a theorem. Each component has its proofs in a module of its own; the theorem named
`XHolds` states the property `X`, `TypeCorrect` states `TypeOK`. They hold for every value
of the constants that the assumption of the module allows: natural numbers, and finite sets
where the code has finite sets. What follows says why each property is not inductive
as it stands, and which invariant is.

### Isolation (`IsolationProofs`, from `ConstantsAssumption`)

- `TypeCorrect`. The one lemma with substance is that the commands of `restore_all`
  form a sequence, so that its cursor is bounded.
- `RestoredMeansOpenHolds`. Between the last look and the report there is the removal of
  the file, where the guard may run. `ReportInv` adds that there is no jump left at
  that stage, unless the look missed it, which stays true because only the service adds
  jumps, and that a service at work has reported nothing.
- `RestorationGuaranteedHolds`. `StampInv` adds that the stamp is never newer than the
  guard's last start, nor that start than the clock: what the service reads may be old,
  never too recent.
- `BoundedIsolationHolds`, `DeadMansSwitchHolds`. Both are one argument about a
  horizon `h`: the deadline promised, or the contact and its timeout. A run of the guard
  that starts at `h` or later must restore, and leaves no jump unless a fault spoils it or
  rules are applied behind it. `InTime(h)` says so of the last start: if the server is
  isolated, that start is before `Late(h)`, the horizon or the last application and a
  period for each fault, or the run is still at work and started less than a period
  later. `KnownInv` adds that what the state file says is never later than what was
  promised, `ClockInv` that the guard starts every period.

  This proof found the earlier statement of `BoundedIsolation` wrong: it allowed a late
  rule set a period, where the deadline has less than one, and TLC refuted it
  for a period of two units, which no run had and `isolation_safety` now has.
- `NotLiftedEarlyHolds`. An isolation that stands, or that an order is about to give, is
  `Early` when the guard's last start is not after its application (`Since`).
  `StatelessInv` is the heart: isolated without a state file, the guard is in the run that
  removed it, early, or in the next one, which starts a period after an early run at
  most. `ReadsInv` says that what a look has read is the state of now unless the run is early,
  `RemovesInv` that only an early run removes the state of an isolation, and `ContactInv`
  that without failure the heartbeat is the last contact, so that a loss of contact on disk
  is a real one.

### Event pipeline (`EventPipelineProofs`, from `PipelineAssumption`)

- `AccountedHolds`. Each step moves events from one place to another: the proof shows
  for each one where the events go, an eviction from a stale listing and the death of
  the process included. The invariant is `AccountInv`, which adds four facts: a thread
  that takes a new batch or file holds none (`StageInv`), main sends nothing between the
  catch-up and the last flush (`MainInv`), no file still to be written has the name of a
  file in use (`NamesInv`), and a replay sends a file's own events before it removes the
  file (`ReplayInv`).
- `PipelineDelivers`: the pipeline implements `Delivery`, for the mapping of
  `ImplementsDelivery`. `NothingLost`, from the proof before, says that what leaves was
  accepted or given up. That nothing comes back needs `ReplaySettled`: the
  events a replay has read are in the spool, accepted or given up, also after another
  thread removed or evicted the file.
- `EvictedOnlyWhenFullHolds`: what a thread counts exceeds the limit with the batch, and
  the size of a set of files grows with the set (`SizeGrows`): if all it counts is there,
  so does the spool. It needs no more of the other threads.
- `OvershootBoundedHolds`, the longest argument. `SizesInv`: how large a batch gets.
  `SumInv`: a thread that evicts counts every file of its listing that is there, however
  many others were removed. `RoomInv` ranks the writers, of which there is at most one per
  thread, by the time they listed the spool. Of those that have written, take the
  one that listed last: the files it had left fitted with its own (`seen`), and what is in the
  spool besides was, or will be, written by writers that listed before it, or
  is there for an operation that failed. The same will hold of each writer that listed later
  when it writes, of what it has listed (`Late`). The ranking is not in the state, so
  the invariant says that there is one.

### Remediation (`RemediationProofs`, from `RemediationAssumption`, `ActionsAssumption`)

- `TypeCorrect`: no count of rules becomes negative, which needs to know at which stage
  which order is at work.
- `ExtraRulesBoundedHolds`, `RemovalIsTrueHolds`, by `CountInv`: while rules are deleted,
  those that the listing missed are at most one for each listing that failed.
- `ReplayNeedsLossHolds`, by `NonceInv`: unless the clock was stepped back, or the file failed
  and the service died, the nonce of an order that was executed is in memory and in
  the file until the order has expired, and what has expired stays so.

### Reverse proxy (`ReverseProxyProofs`, from `ReverseProxyAssumption`)

- `ValidOnDiskHolds`, by `WrittenInv`: which files a pass has written at each stage; those
  it keeps are the ones that were tested, or the ones it found.
- `NginxAsDesiredHolds`, by `AnswerInv` and `RestInv`. While nothing went `astray`, no status
  or pass is ahead of the desired state (`GenInv`), and once the success of the last
  generation is known, nginx runs with it and the pass in progress can only write it
  again (`AnswerInv`). Between two passes nginx uses the files; and when neither a pass nor
  a trigger is left, either the unit missed the latest set, or nginx runs with it, or the
  service still `Owed` a rollback: it waits for an answer that is not a success (`RestInv`).
  A set that is written is unread until a pass reads it. What `Settles`
  adds is that both processes do come to rest, which is liveness.

### Tailers (`FileTailerProofs`, `EventLogTailerProofs`, from `TailerAssumption`, `ChannelAssumption`)

- `PathDeliversOnceHolds`, by `Ordered`: the pieces of a file follow each other, what was
  given of a file comes before what is still to be written to it, and before every
  piece that the open file still holds unread.
- `NoHoleHolds`, by `Whole`: of the open file, every line up to the position that is not
  before one that was given was given (`ReadInv`); a path names the file created last, and
  opens each file once (`NamesInv`).
- `NoGapHolds`, by `GapInv` and `PlaceInv`: a record the loop has passed, or the saved
  bookmark covers, was handed over; the bookmark is behind the loop.
- `ReplayBoundedHolds`, by `SavedInv` and `ReplayInv`: the records between the saved
  bookmark and the one in memory are counted by `unsaved`, or were skipped; `unsaved` is
  less than a save interval when a batch begins; and the last record ever handed over was
  handed over within that bound, which only shrinks as bookmarks are saved (`HandedInv`).

### Update (`UpdateProofs`, from `UpdateAssumption`)

- `TypeCorrect` says in particular that a pass that downloads has a readable code.
- `WorksWhenIdleHolds`, by `QuietInv`: without accident, the code that was verified is on the
  disk or, while it is replaced, in the backup (`Kept`); the agent and the remediation run it,
  or have died of it, or run a release that is not good; a pass that undoes a release has
  shown that it is not good. If none is broken nothing dies, and everything is in step.

### Inputs (`InputsProofs`, from `ParsersAssumption`, `PortInventoryAssumption`)

The assumptions say that a status is an integer and that no address is both local and one
of all interfaces; nothing is asked of the other constants.

- `AcceptedCanBeDoneAndUndoneHolds`. `AcceptedIsApplicable` compares the two controls action
  by action (an open session from the target is the only reason left to turn an order down); `AcceptedCanBeLifted` shows that a lift has no parameter to be refused for and
  that every control of its target is one its order has passed.
- `IsolationLeavesWhatItMustHolds`. `RulesetPasses` turns the rules into a condition on the
  packet, `LetThrough`, group by group. A packet it lets through is of the network's own
  plumbing, has a preserved peer, or has a known one in the right direction, so strangers are
  cut; each of its cases, reversed, is a case again, so what is asked can be answered. The
  networks preserved may hold the server itself: only the other end counts.
- `SeverityAsDocumentedHolds`. `FirstOfIs` says what the first match of a list is;
  `AccessSeverity` compares the code's order of tests with the documented table for every
  integer. The fields of each reading then say whether there was a status. `SyslogIs` and
  `FirewallIs` find the first mark a line holds, whatever its other marks.
- `SensitivePortsReportedHolds`. Exposure and sensitivity depend on the address and the port
  only, so any row of the same port and address can stand for the others.

### Only model-checked

- All liveness (`Reopened`, `MemoryDrains`, `StopCompletes`, `CatchupEnds`,
  `EveryOrderAnswered`, `Settles`, `LineGiven`, `FollowsPath`, `EveryRecordGiven`, `GetsNewest`):
  fairness is out of the prover's reach.
- The two violations, which are facts about one behaviour.

## Not modelled

- Configuration and paths: read once at startup into a record that never changes.
- The patch scripts at the root: they rewrote the text of the source for a release.
- Install, uninstall and build scripts: sequential, run by hand; only the removal of the
  state directory is modelled, in ReverseProxy.
- The computation of signatures and hashes: their verdict is an input (`Orders`) or a free
  refusal (`Update`). The text of the files of nginx and of the messages.
- The wall clock is stepped back in Remediation, where the purge of nonces depends on it,
  and not in Isolation, where no bound would keep its meaning.
- Delays: their number is modelled, not their length, except in Isolation.

## State of the proofs

Every safety property and every action property of the runs is a theorem. What is left to
TLC is liveness, on the instances above.
