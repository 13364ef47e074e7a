--------------------------- MODULE EventLogTailer ---------------------------
(***************************************************************************)
(* One Windows channel: WindowsLogTailer._subscribe_loop (poll of EvtNext,   *)
(* hand-over of each event to the callback, bookmark in memory and on disk), *)
(* and the life of the service around it: start, stop, death.  Records are   *)
(* numbered as Windows logs them; the callback puts them in the buffer of    *)
(* the agent, whose way to the backend or the spool is EventPipeline's: here *)
(* one step takes all that is held to safety.                                *)
(***************************************************************************)
EXTENDS Integers, FiniteSets, FiniteSetsExt

CONSTANTS
    Batch,          \* most events of one EvtNext (100)
    SaveInterval,   \* BOOKMARK_SAVE_INTERVAL (50)
    MaxErrors,      \* consecutive errors of EvtNext that end the thread (5)
    MaxRecords,     \* bound on the records logged
    MaxFaults,      \* bound on failures of the API, of the disk and of one event
    MaxStarts       \* bound on the starts of the service

ASSUME ChannelAssumption ==
    /\ {Batch, SaveInterval, MaxErrors} \subseteq Nat \ {0}
    /\ {MaxRecords, MaxFaults, MaxStarts} \subseteq Nat

Records == 1 .. MaxRecords
None == 0               \* no bookmark
Invalid == -1           \* a bookmark file that EvtCreateBookmark refuses

VARIABLES
    logged,         \* the last record of the channel
    disk,           \* the bookmark file: None, Invalid or the last record it covers
    stage,          \* "off" | "load" | "poll" | "batch" | "closing" | "ended"
    next, upto,     \* the first record the subscription has not given; the batch's last
    mark,           \* bookmark_handle: None or the last record it covers
    unsaved,        \* events_since_last_save
    errors,         \* consecutive_errors
    stopping,
    held, safe,     \* records in the memory of the agent; records it delivered or spooled
    skipped,        \* records whose handling raised
    lost,           \* records that were in memory when the process died
    since,          \* the record that followed the last start from the current position
    faults, saveFailures, starts

loop == <<next, upto, mark, unsaved, errors>>
events == <<held, safe, skipped, lost>>
bounds == <<faults, saveFailures, starts>>
vars == <<logged, disk, stage, loop, stopping, events, since, bounds>>

Fault == faults < MaxFaults /\ faults' = faults + 1
Running == stage \notin {"off", "ended"}
Kept == held \cup safe \cup skipped

-----------------------------------------------------------------------------
(* Windows.                                                                *)

LogRecord ==
    /\ logged < MaxRecords
    /\ logged' = logged + 1
    /\ UNCHANGED <<disk, stage, loop, stopping, events, since, bounds>>

\* A power cut may leave the replaced file without its content: it is not synced.
DamageBookmark ==
    /\ stage = "off" /\ disk \in Records
    /\ Fault
    /\ disk' \in {None, Invalid}
    /\ UNCHANGED <<logged, stage, loop, stopping, events, since, saveFailures, starts>>

-----------------------------------------------------------------------------
(* The thread of the channel.                                              *)

Start ==
    /\ stage = "off" /\ starts < MaxStarts
    /\ starts' = starts + 1
    /\ stage' = "load"
    /\ stopping' = FALSE
    /\ UNCHANGED <<logged, disk, loop, events, since, faults, saveFailures>>

\* EvtSubscribe: after the bookmark, or from the current position when the
\* file is absent, cannot be read or is refused.
\* Mutant: the flag is ToFutureEvents with a bookmark too.
SubscribeAtEnd(bookmark) ==
    /\ stage = "load"
    /\ mark' = bookmark /\ next' = logged + 1
    /\ since' = IF bookmark = None THEN logged + 1 ELSE since
    /\ upto' = next' - 1 /\ unsaved' = 0 /\ errors' = 0 /\ stage' = "poll"
    /\ UNCHANGED <<logged, disk, stopping, events, starts, saveFailures>>
SubscribeAt(bookmark) ==
    /\ stage = "load"
    /\ mark' = bookmark
    /\ next' = IF bookmark = None THEN logged + 1 ELSE bookmark + 1
    /\ since' = IF bookmark = None THEN logged + 1 ELSE since
    /\ upto' = next' - 1 /\ unsaved' = 0 /\ errors' = 0
    /\ stage' = "poll"
    /\ UNCHANGED <<logged, disk, stopping, events, starts, saveFailures>>

\* Mutant: what EvtCreateBookmark refuses is used all the same.
SubscribeUnchecked == SubscribeAt(disk) /\ UNCHANGED faults
Subscribe == SubscribeAt(IF disk = Invalid THEN None ELSE disk) /\ UNCHANGED faults
SubscribeUnreadable == disk # None /\ SubscribeAt(None) /\ Fault

SubscribeFails ==
    /\ stage = "load"
    /\ Fault
    /\ stage' = "ended"
    /\ UNCHANGED <<logged, disk, loop, stopping, events, since, saveFailures, starts>>

Fetch ==
    /\ stage = "poll" /\ ~stopping
    /\ next <= logged
    /\ upto' = Min({logged, next + Batch - 1})
    /\ errors' = 0
    /\ stage' = "batch"
    /\ UNCHANGED <<logged, disk, next, mark, unsaved, stopping, events, since, bounds>>

FetchFails ==
    /\ stage = "poll" /\ ~stopping
    /\ Fault
    /\ errors' = errors + 1
    /\ stage' = IF errors' >= MaxErrors THEN "closing" ELSE "poll"
    /\ UNCHANGED <<logged, disk, next, upto, mark, unsaved, stopping, events, since,
                   saveFailures, starts>>

\* EvtUpdateBookmark comes before the callback.
HandleEvent ==
    /\ stage = "batch" /\ next <= upto /\ ~stopping
    /\ mark' = next /\ next' = next + 1
    /\ held' = held \cup {next}
    /\ lost' = lost \ {next}
    /\ unsaved' = unsaved + 1
    /\ UNCHANGED <<logged, disk, stage, upto, errors, stopping, safe, skipped, since, bounds>>

\* The event cannot be formatted (the bookmark does not move), or the
\* callback raises (it has moved): the event is skipped.
HandleFails ==
    /\ stage = "batch" /\ next <= upto /\ ~stopping
    /\ Fault
    /\ next' = next + 1
    /\ skipped' = skipped \cup {next}
    /\ \/ mark' = next /\ unsaved' = unsaved + 1
       \/ UNCHANGED <<mark, unsaved>>
    /\ UNCHANGED <<logged, disk, stage, upto, errors, stopping, held, safe, lost, since,
                   saveFailures, starts>>

\* _persist_bookmark replaces the file or leaves it, and tells nobody.
\* Mutant: the bookmark is that of the last event of the batch.
PersistBatch == disk' = upto /\ UNCHANGED <<faults, saveFailures>>
Persist ==
    \/ disk' = mark /\ UNCHANGED <<faults, saveFailures>>
    \/ Fault /\ saveFailures' = saveFailures + 1 /\ UNCHANGED disk

\* Mutant: the counter starts again with each batch.
EndBatchResets ==
    /\ stage = "batch" /\ (next > upto \/ stopping)
    /\ stage' = "poll" /\ unsaved' = 0
    /\ IF unsaved >= SaveInterval /\ mark # None
       THEN Persist ELSE UNCHANGED <<disk, faults, saveFailures>>
    /\ UNCHANGED <<logged, next, upto, mark, errors, stopping, events, since, starts>>
EndBatch ==
    /\ stage = "batch"
    /\ next > upto \/ stopping
    /\ stage' = "poll"
    /\ IF unsaved >= SaveInterval /\ mark # None
       THEN Persist /\ unsaved' = 0
       ELSE UNCHANGED <<disk, unsaved, faults, saveFailures>>
    /\ UNCHANGED <<logged, next, upto, mark, errors, stopping, events, since, starts>>

Close ==
    /\ stage = "closing" \/ (stage = "poll" /\ stopping)
    /\ stage' = "ended"
    /\ IF mark # None THEN Persist ELSE UNCHANGED <<disk, faults, saveFailures>>
    /\ UNCHANGED <<logged, loop, stopping, events, since, starts>>

-----------------------------------------------------------------------------
(* The service.                                                            *)

Flush ==
    /\ stage # "off" /\ held # {}
    /\ safe' = safe \cup held
    /\ held' = {}
    /\ UNCHANGED <<logged, disk, stage, loop, stopping, skipped, lost, since, bounds>>

\* SvcStop sets the event that run() and, through tailer.stop, the thread poll.
Stop ==
    /\ stage # "off" /\ ~stopping
    /\ stopping' = TRUE
    /\ UNCHANGED <<logged, disk, stage, loop, events, since, bounds>>

\* run() returns after the join of the thread and the last flush.
Leave ==
    /\ stage = "ended" /\ stopping
    /\ stage' = "off"
    /\ safe' = safe \cup held /\ held' = {}
    /\ UNCHANGED <<logged, disk, loop, stopping, skipped, lost, since, bounds>>

\* A crash, a stop whose join of 3 s expires, or the shutdown of Windows: the
\* service has no handler of SvcShutdown and is killed with the machine.
Die ==
    /\ stage # "off"
    /\ stage' = "off"
    /\ held' = {} /\ lost' = lost \cup held
    /\ UNCHANGED <<logged, disk, loop, stopping, safe, skipped, since, bounds>>

Init ==
    /\ logged = 0 /\ disk = None /\ stage = "off"
    /\ next = 1 /\ upto = 0 /\ mark = None /\ unsaved = 0 /\ errors = 0
    /\ stopping = FALSE
    /\ held = {} /\ safe = {} /\ skipped = {} /\ lost = {}
    /\ since = 1
    /\ faults = 0 /\ saveFailures = 0 /\ starts = 0

Thread == Subscribe \/ Fetch \/ HandleEvent \/ EndBatch \/ Close

Next ==
    \/ Thread \/ SubscribeUnreadable \/ SubscribeFails \/ FetchFails \/ HandleFails
    \/ Start \/ Stop \/ Leave \/ Die \/ Flush
    \/ LogRecord \/ DamageBookmark

Spec == Init /\ [][Next]_vars

\* The thread runs: it polls every 2 seconds and nothing it calls blocks for ever.
FairSpec == Spec /\ WF_vars(Thread)

-----------------------------------------------------------------------------
TypeOK ==
    /\ logged \in 0 .. MaxRecords
    /\ disk \in Records \cup {None, Invalid} /\ mark \in Records \cup {None}
    /\ stage \in {"off", "load", "poll", "batch", "closing", "ended"}
    /\ next \in 1 .. MaxRecords + 1 /\ upto \in 0 .. MaxRecords /\ since \in 1 .. MaxRecords + 1
    /\ unsaved \in 0 .. MaxRecords /\ errors \in 0 .. MaxErrors
    /\ stopping \in BOOLEAN
    /\ {held, safe, skipped, lost} \subseteq SUBSET Records
    /\ faults \in 0 .. MaxFaults /\ saveFailures \in 0 .. MaxFaults /\ starts \in 0 .. MaxStarts

\* Since the agent last started from the current position, neither the loop
\* nor the saved bookmark passes a record that was not handed over: a stop in
\* the middle of a batch, a death or a failing save makes no hole.
NoGap ==
    LET last == IF Running /\ stage # "load" THEN Max({disk, next - 1}) ELSE disk
    IN since .. last \subseteq Kept \cup lost

\* The next start repeats less than a save interval and one batch, of all that
\* was ever handed over (windows.py:670-672, 736-739), over any number of
\* deaths, but for two cases: a save has failed, or the bookmark on the disk
\* could not be read at an earlier start and nothing was saved since (`since` is
\* beyond it), when the sessions on both sides of that start are repeated.
Repeated == IF disk \in Records THEN {r \in held \cup safe \cup lost : r > disk} ELSE {}
ReplayBounded ==
    saveFailures = 0 /\ since <= disk + 1 =>
        Cardinality(Repeated \ skipped) <= SaveInterval - 1 + Batch

\* A record that the subscription has before it, also after a restart from a
\* bookmark, is handed over in the end, unless the thread stops or ends.
Pending(r) ==
    /\ r \in 1 .. logged \ Kept
    /\ \/ stage = "load" /\ disk \in Records /\ r > disk
       \/ stage \in {"poll", "batch"} /\ r >= next
EveryRecordGiven ==
    \A r \in Records : Pending(r) ~> r \in Kept \/ since > r \/ ~Running \/ stopping

=============================================================================
