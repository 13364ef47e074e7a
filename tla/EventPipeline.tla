--------------------------- MODULE EventPipeline ---------------------------
(***************************************************************************)
(* The collector's path from a captured line to the backend: the buffer    *)
(* (buffer.py), the sender with its retries (sender.py), the disk spool    *)
(* (spool.py), and the start and stop of the process that owns them        *)
(* (main.py).                                                              *)
(*                                                                         *)
(* Tailer threads, the buffer's timer and the main thread all run the same *)
(* flush and send code.  Only the buffer has a lock: two threads can send, *)
(* replay the spool and write to it at the same time.                      *)
(***************************************************************************)
EXTENDS Naturals, FiniteSets

CONSTANTS
    Tailers,      \* threads that capture lines (tailers, port inventory)
    MaxBuffer,    \* max_size of the buffer
    MaxSpool,     \* max_size_mb of the spool; one event is one unit
    MaxAttempts,  \* retry_max_attempts
    Rejects,      \* TRUE if the backend may answer 4xx
    MaxEvents,    \* bound: lines captured
    MaxFaults,    \* bound: disk operations that fail
    MaxStops,     \* bound: stops requested
    MaxCrashes    \* bound: crashes of the process

ASSUME PipelineAssumption ==
    /\ Tailers \subseteq STRING \ {"timer", "main"} /\ IsFiniteSet(Tailers)
    /\ MaxBuffer \in Nat \ {0} /\ MaxSpool \in Nat /\ MaxAttempts \in Nat \ {0}
    /\ Rejects \in BOOLEAN
    /\ MaxEvents \in Nat /\ MaxFaults \in Nat /\ MaxStops \in Nat
    /\ MaxCrashes \in Nat

Threads == Tailers \cup {"timer", "main"}
Events == 1..MaxEvents

(* Why events leave the pipeline without having been accepted.             *)
Reasons == {"rejected",   \* the backend answered 4xx
            "evicted",    \* oldest files of a full spool
            "refused",    \* batch larger than the spool, or write failed
            "vanished",   \* the spool's listing went stale under eviction
            "unreadable", \* a spool file could not be read
            "exit",       \* in memory when the process stopped
            "crash"}      \* in memory when the process died

VARIABLES
    captured, \* number of lines captured so far; they are events 1..captured
    buffer,   \* events waiting in the buffer
    spool,    \* files: [id, events]; ids grow with the time of writing
    nextId,   \* id of the next spool file
    phase,    \* of the process
    pc,       \* where each thread stands
    batch,    \* the events a thread is sending or spooling
    file,     \* id of the spool file a thread replays, 0 for a fresh batch
    attempt,  \* attempt in progress of _send_once
    listed,   \* files a thread has listed and not yet gone through to evict
    counted,  \* files a thread takes for present when it evicts
    ingested, \* events the backend has accepted
    dropped,  \* events given up, by reason
    garbled,  \* ids of the spool files that cannot be decoded
    faults, stops, crashes

mishaps  == <<garbled, faults, stops, crashes>>
eviction == <<listed, counted>>
locals   == <<pc, batch, file, attempt, eviction>>
server   == <<ingested, dropped>>
vars == <<captured, buffer, spool, nextId, phase, locals, server, mishaps>>

Init ==
    /\ captured = 0 /\ buffer = {}
    /\ spool = {} /\ nextId = 1
    /\ phase = "startup"
    /\ pc = [t \in Threads |-> IF t = "main" THEN "pick" ELSE "run"]
    /\ batch = [t \in Threads |-> {}]
    /\ file = [t \in Threads |-> 0]
    /\ attempt = [t \in Threads |-> 1]
    /\ listed = [t \in Threads |-> {}]
    /\ counted = [t \in Threads |-> {}]
    /\ ingested = {}
    /\ dropped = [r \in Reasons |-> {}]
    /\ garbled = {} /\ faults = 0 /\ stops = 0 /\ crashes = 0

-----------------------------------------------------------------------------
Goto(t, where) == pc' = [pc EXCEPT ![t] = where]

Alive == phase \in {"startup", "running", "stopping", "flushing"}
ThreadsRun == phase \in {"running", "stopping", "flushing"}

Drop(reason, events) == dropped' = [dropped EXCEPT ![reason] = @ \cup events]

Fault == faults < MaxFaults /\ faults' = faults + 1
NoFault == UNCHANGED faults

SizeOf(files) == Cardinality({p \in files \X Events : p[2] \in p[1].events})
EventsOf(files) == UNION {f.events : f \in files}

(* A thread leaves what it was doing and forgets it.                       *)
Leave(t, where) ==
    /\ Goto(t, where)
    /\ batch' = [batch EXCEPT ![t] = {}]
    /\ file' = [file EXCEPT ![t] = 0]
    /\ attempt' = [attempt EXCEPT ![t] = 1]
    /\ listed' = [listed EXCEPT ![t] = {}]
    /\ counted' = [counted EXCEPT ![t] = {}]

(* A thread returns from flush, or main from the catch-up.                 *)
Return(t) == Leave(t, "run")

(* After one spool file: drain_spool_blocking (at startup) takes the next, *)
(* _opportunistic_drain_one stops there.                                   *)
AfterReplay(t) == Leave(t, IF phase = "startup" THEN "pick" ELSE "run")

-----------------------------------------------------------------------------
(* The buffer.                                                             *)

(* add(): the size is tested under the lock, the flush comes after it.     *)
(* Lines still come once the stop is requested, and until the process has  *)
(* gone: WindowsLogTailer.stop() leaves its file tailer running, the port  *)
(* inventory is only waited for 5 s, and so is a tailer inside a callback. *)
Capture(t) ==
    /\ ThreadsRun
    /\ pc[t] = "run"
    /\ captured < MaxEvents
    /\ captured' = captured + 1
    /\ buffer' = buffer \cup {captured + 1}
    /\ Goto(t, IF Cardinality(buffer') >= MaxBuffer THEN "flush" ELSE "run")
    /\ UNCHANGED <<spool, nextId, phase, batch, file, attempt, eviction, server,
                   mishaps>>

(* Mutant: the timer flushes only a buffer that is full.                   *)
TimerExpiresWhenFull ==
    /\ phase \in {"running", "stopping"}
    /\ pc["timer"] = "run"
    /\ Cardinality(buffer) >= MaxBuffer
    /\ Goto("timer", "flush")
    /\ UNCHANGED <<captured, buffer, spool, nextId, phase, batch, file, attempt,
                   eviction, server, mishaps>>

(* One pass of _timer_loop that finds the buffer old enough.               *)
TimerExpires ==
    /\ phase \in {"running", "stopping"}
    /\ pc["timer"] = "run"
    /\ buffer # {}
    /\ Goto("timer", "flush")
    /\ UNCHANGED <<captured, buffer, spool, nextId, phase, batch, file, attempt,
                   eviction, server, mishaps>>

(* flush(): the buffer is swapped under the lock; another thread may have  *)
(* emptied it in the meantime.                                             *)
Flush(t) ==
    /\ pc[t] = "flush"
    /\ \/ /\ buffer = {}
          /\ Goto(t, "run")
          /\ UNCHANGED <<batch, buffer>>
       \/ /\ buffer # {}
          /\ batch' = [batch EXCEPT ![t] = buffer]
          /\ buffer' = {}
          /\ Goto(t, "send")
    /\ UNCHANGED <<captured, spool, nextId, phase, file, attempt, eviction, server,
                   mishaps>>

-----------------------------------------------------------------------------
(* The sender: one attempt of _send_once.                                  *)

Fresh(t) == file[t] = 0

Accepted(t) ==
    /\ pc[t] = "send"
    /\ ingested' = ingested \cup batch[t]
    /\ \/ Fresh(t) /\ Goto(t, "pick") /\ batch' = [batch EXCEPT ![t] = {}]
       \/ ~Fresh(t) /\ Goto(t, "remove") /\ UNCHANGED batch
    /\ attempt' = [attempt EXCEPT ![t] = 1]
    /\ UNCHANGED <<captured, buffer, spool, nextId, phase, file, eviction, dropped,
                   mishaps>>

(* A 4xx other than 429 is final: the batch is not spooled.                *)
Rejected(t) ==
    /\ pc[t] = "send"
    /\ Rejects
    /\ Drop("rejected", batch[t])
    /\ \/ Fresh(t) /\ Return(t)
       \/ /\ ~Fresh(t)
          /\ Goto(t, "remove")
          /\ attempt' = [attempt EXCEPT ![t] = 1]
          /\ UNCHANGED <<batch, file, eviction>>
    /\ UNCHANGED <<captured, buffer, spool, nextId, phase, ingested, mishaps>>

(* Mutant: one attempt too many.                                           *)
OneMoreAttempt(t) == attempt[t] <= MaxAttempts

MoreAttempts(t) == attempt[t] < MaxAttempts

(* Mutant: a replay that gets no answer is removed like one that does.     *)
ReplayDiscarded(t) ==
    /\ pc[t] = "send"
    /\ UNCHANGED ingested
    /\ IF Fresh(t) THEN Goto(t, "list") ELSE Goto(t, "remove")
    /\ attempt' = [attempt EXCEPT ![t] = 1]
    /\ UNCHANGED <<captured, buffer, spool, nextId, phase, batch, file, eviction,
                   dropped, mishaps>>

(* Network error, 429, 3xx or 5xx: the backend may have taken the batch all *)
(* the same.  After the last attempt a fresh batch goes to the spool and a *)
(* replay is given up until a later success.                               *)
Unanswered(t) ==
    /\ pc[t] = "send"
    /\ \/ UNCHANGED ingested
       \/ ingested' = ingested \cup batch[t]
    /\ \/ /\ MoreAttempts(t)
          /\ attempt' = [attempt EXCEPT ![t] = @ + 1]
          /\ UNCHANGED <<pc, batch, file, eviction>>
       \/ /\ ~MoreAttempts(t) /\ Fresh(t)
          /\ Goto(t, "list")
          /\ attempt' = [attempt EXCEPT ![t] = 1]
          /\ UNCHANGED <<batch, file, eviction>>
       \/ /\ ~MoreAttempts(t) /\ ~Fresh(t)
          /\ Return(t)
    /\ UNCHANGED <<captured, buffer, spool, nextId, phase, dropped, mishaps>>

Send(t) == Accepted(t) \/ Rejected(t) \/ Unanswered(t)

-----------------------------------------------------------------------------
(* The spool, replayed.                                                    *)

(* oldest(): a spool that cannot be listed passes for an empty one.        *)
PickOldest(t) ==
    /\ pc[t] = "pick"
    /\ \/ spool = {} /\ Return(t) /\ NoFault
       \/ Fault /\ Return(t)
       \/ /\ \E oldest \in spool :
                /\ \A other \in spool : oldest.id <= other.id
                /\ file' = [file EXCEPT ![t] = oldest.id]
          /\ Goto(t, "read")
          /\ NoFault
          /\ UNCHANGED <<batch, attempt, eviction>>
    /\ UNCHANGED <<captured, buffer, spool, nextId, phase, server, garbled,
                   stops, crashes>>

Found(t) == {f \in spool : f.id = file[t]}
Undecodable(t) == Found(t) # {} /\ file[t] \in garbled

(* Mutant: a file is removed as soon as it is read.                        *)
ReadAndRemove(t) ==
    /\ pc[t] = "read"
    /\ batch' = [batch EXCEPT ![t] = EventsOf(Found(t))]
    /\ spool' = spool \ Found(t)
    /\ Goto(t, "send")
    /\ UNCHANGED <<captured, buffer, nextId, phase, file, attempt, eviction, server,
                   mishaps>>

(* read(): a file that another thread has removed, like one that cannot be *)
(* read, is given up and removed, if it can be.                            *)
ReadFile(t) ==
    /\ pc[t] = "read"
    /\ \/ /\ Found(t) # {} /\ ~Undecodable(t)
          /\ batch' = [batch EXCEPT ![t] = EventsOf(Found(t))]
          /\ Goto(t, "send")
          /\ NoFault
          /\ UNCHANGED <<spool, file, attempt, eviction, dropped>>
       \/ /\ Found(t) = {}
          /\ AfterReplay(t)
          /\ NoFault
          /\ UNCHANGED <<spool, dropped>>
       \/ /\ Found(t) # {} /\ Fault
          /\ \/ /\ Drop("unreadable", EventsOf(Found(t)))
                /\ spool' = spool \ Found(t)
             \/ UNCHANGED <<spool, dropped>>
          /\ AfterReplay(t)
    /\ UNCHANGED <<captured, buffer, nextId, phase, ingested, garbled, stops,
                   crashes>>

(* A file that is not UTF-8, or not an object, makes read() raise an error *)
(* that nothing on the way catches but the callback of a tailer and the    *)
(* loop of the port inventory: it is the end of the timer's thread.  What  *)
(* it does to main is RunRaises.                                           *)
ReadRaises(t) ==
    /\ t # "main"
    /\ pc[t] = "read" /\ Undecodable(t)
    /\ Leave(t, IF t = "timer" THEN "dead" ELSE "run")
    /\ UNCHANGED <<captured, buffer, spool, nextId, phase, server, mishaps>>

(* Mutant: the file that was sent is kept.                                 *)
RemoveNothing(t) ==
    /\ pc[t] = "remove"
    /\ AfterReplay(t)
    /\ UNCHANGED <<captured, buffer, spool, nextId, phase, server, mishaps>>

(* remove(): an error is logged and forgotten, the file stays.             *)
RemoveFile(t) ==
    /\ pc[t] = "remove"
    /\ \/ spool' = {f \in spool : f.id # file[t]} /\ NoFault
       \/ Fault /\ UNCHANGED spool
    /\ AfterReplay(t)
    /\ UNCHANGED <<captured, buffer, nextId, phase, server, garbled, stops, crashes>>

-----------------------------------------------------------------------------
(* The spool, written.                                                     *)

(* _list_files(): a spool that cannot be listed passes for an empty one.   *)
ListFiles(t) ==
    /\ pc[t] = "list"
    /\ \/ NoFault /\ listed' = [listed EXCEPT ![t] = spool]
       \/ Fault /\ listed' = [listed EXCEPT ![t] = {}]
    /\ Goto(t, IF Cardinality(batch[t]) >= MaxSpool THEN "evict" ELSE "sum")
    /\ UNCHANGED <<captured, buffer, spool, nextId, phase, batch, file, attempt,
                   counted, server, garbled, stops, crashes>>

(* The sum of the sizes: a file removed since the listing was counted if   *)
(* its turn came before; removed between exists() and stat(), it raises an *)
(* error that send() takes for a failure of the spool.                     *)
SumSizes(t) ==
    /\ pc[t] = "sum"
    /\ \/ /\ \E gone \in SUBSET (listed[t] \ spool) :
                counted' = [counted EXCEPT ![t] = (listed[t] \cap spool) \cup gone]
          /\ Goto(t, "evict")
          /\ UNCHANGED <<batch, file, attempt, listed, dropped>>
       \/ /\ ~(listed[t] \subseteq spool)
          /\ Drop("vanished", batch[t])
          /\ Return(t)
    /\ UNCHANGED <<captured, buffer, spool, nextId, phase, ingested, mishaps>>

(* Mutants: the batch to write is not counted; nothing may be left at the  *)
(* limit.                                                                  *)
MustEvictWithoutIncoming(t) == listed[t] # {} /\ SizeOf(counted[t]) > MaxSpool
MustEvictAtLimit(t) ==
    listed[t] # {} /\ SizeOf(counted[t]) + Cardinality(batch[t]) >= MaxSpool

(* Every file goes if the batch is not smaller than the limit; otherwise   *)
(* one more goes for as long as what is counted and the batch exceed it.   *)
MustEvict(t) ==
    /\ listed[t] # {}
    /\ \/ Cardinality(batch[t]) >= MaxSpool
       \/ SizeOf(counted[t]) + Cardinality(batch[t]) > MaxSpool

(* One pass of the loop: stat() and unlink() of the oldest file left in    *)
(* the listing, taken as one step, since removing it between the two is no *)
(* different from removing it after them.  A removal that fails is counted *)
(* for one that succeeds; a file that has vanished stays counted.          *)
Evict(t) ==
    /\ pc[t] = "evict" /\ MustEvict(t)
    /\ \E oldest \in listed[t] :
       /\ \A other \in listed[t] : oldest.id <= other.id
       /\ listed' = [listed EXCEPT ![t] = @ \ {oldest}]
       /\ \/ /\ oldest \in spool
             /\ \/ /\ spool' = spool \ {oldest}
                   /\ Drop("evicted", oldest.events)
                   /\ NoFault
                \/ Fault /\ UNCHANGED <<spool, dropped>>
             /\ counted' = [counted EXCEPT ![t] = @ \ {oldest}]
          \/ /\ oldest \notin spool
             /\ NoFault
             /\ UNCHANGED <<spool, counted, dropped>>
    /\ UNCHANGED <<captured, buffer, nextId, phase, pc, batch, file, attempt,
                   ingested, garbled, stops, crashes>>

(* The rest of write(): the file appears under its name all at once.       *)
WriteFile(t) ==
    /\ pc[t] = "evict" /\ ~MustEvict(t)
    /\ \/ /\ Cardinality(batch[t]) <= MaxSpool
          /\ spool' = spool \cup {[id |-> nextId, events |-> batch[t]]}
          /\ nextId' = nextId + 1
          /\ NoFault
          /\ UNCHANGED dropped
       \/ /\ \/ Cardinality(batch[t]) > MaxSpool /\ NoFault
             \/ Fault
          /\ Drop("refused", batch[t])
          /\ UNCHANGED <<spool, nextId>>
    /\ Return(t)
    /\ UNCHANGED <<captured, buffer, phase, ingested, garbled, stops, crashes>>

ThreadStep(t) ==
    \/ Flush(t) \/ Send(t)
    \/ PickOldest(t) \/ ReadFile(t) \/ ReadRaises(t) \/ RemoveFile(t)
    \/ ListFiles(t) \/ SumSizes(t) \/ Evict(t) \/ WriteFile(t)

-----------------------------------------------------------------------------
(* The life of the process (run() of main.py).                             *)

(* The catch-up is over: the timer and the tailers start.                  *)
StartThreads ==
    /\ phase = "startup" /\ pc["main"] = "run"
    /\ phase' = "running"
    /\ UNCHANGED <<captured, buffer, spool, nextId, locals, server, mishaps>>

(* SIGTERM, SIGINT or the service manager sets the event main waits for;   *)
(* the threads learn of it at their own pace.                              *)
RequestStop ==
    /\ phase = "running"
    /\ stops < MaxStops
    /\ stops' = stops + 1
    /\ phase' = "stopping"
    /\ UNCHANGED <<captured, buffer, spool, nextId, locals, server, garbled, faults,
                   crashes>>

(* Mutant: the stop waits for the spool to be empty.                       *)
FinalFlushAfterDrain ==
    /\ phase = "stopping"
    /\ spool = {}
    /\ phase' = "flushing"
    /\ Goto("main", "flush")
    /\ UNCHANGED <<captured, buffer, spool, nextId, batch, file, attempt, eviction,
                   server, mishaps>>

(* The threads are joined with a timeout (3 to 5 s), shorter than the      *)
(* retries of a send: main goes on to the last flush with or without them. *)
FinalFlush ==
    /\ phase = "stopping"
    /\ phase' = "flushing"
    /\ Goto("main", "flush")
    /\ UNCHANGED <<captured, buffer, spool, nextId, batch, file, attempt, eviction,
                   server, mishaps>>

(* What dies with the process: the buffer and the fresh batches in flight. *)
InMemory == buffer \cup UNION {batch[t] : t \in {u \in Threads : Fresh(u)}}

Die(reason) ==
    /\ Drop(reason, InMemory)
    /\ phase' = "down"
    /\ buffer' = {}
    /\ pc' = [t \in Threads |-> "run"]
    /\ batch' = [t \in Threads |-> {}]
    /\ file' = [t \in Threads |-> 0]
    /\ attempt' = [t \in Threads |-> 1]
    /\ listed' = [t \in Threads |-> {}]
    /\ counted' = [t \in Threads |-> {}]
    /\ UNCHANGED <<captured, spool, nextId, ingested, garbled, faults>>

(* main returns; the other threads are daemons and die with it.            *)
Exit ==
    /\ phase = "flushing" /\ pc["main"] = "run"
    /\ Die("exit")
    /\ UNCHANGED <<stops, crashes>>

(* main meets a file that cannot be decoded, at the catch-up or after the  *)
(* last flush: run() ends with the error, and the service is restarted.    *)
RunRaises ==
    /\ pc["main"] = "read" /\ Undecodable("main")
    /\ Die("exit")
    /\ UNCHANGED <<stops, crashes>>

Crash ==
    /\ Alive
    /\ crashes < MaxCrashes
    /\ crashes' = crashes + 1
    /\ Die("crash")
    /\ UNCHANGED stops

(* The disk damages a spool file.                                          *)
Garble ==
    /\ Fault
    /\ \E f \in spool : garbled' = garbled \cup {f.id}
    /\ UNCHANGED <<captured, buffer, spool, nextId, phase, locals, server, stops,
                   crashes>>

Restart ==
    /\ phase = "down"
    /\ phase' = "startup"
    /\ Goto("main", "pick")
    /\ UNCHANGED <<captured, buffer, spool, nextId, batch, file, attempt, eviction,
                   server, mishaps>>

Next ==
    \/ \E t \in Tailers : Capture(t)
    \/ TimerExpires
    \/ \E t \in Threads : ThreadStep(t)
    \/ StartThreads \/ RequestStop \/ FinalFlush \/ Exit
    \/ RunRaises \/ Crash \/ Garble \/ Restart

(* Every thread is scheduled and every attempt ends, answered or not: the  *)
(* requests have a timeout and the retries are counted.  Nothing is        *)
(* assumed of the backend, nor of the lines to come.                       *)
Fairness ==
    /\ \A t \in Threads : WF_vars(ThreadStep(t))
    /\ WF_vars(TimerExpires)
    /\ WF_vars(StartThreads) /\ WF_vars(FinalFlush)
    /\ WF_vars(Exit) /\ WF_vars(RunRaises)

Spec == Init /\ [][Next]_vars
FairSpec == Spec /\ Fairness

-----------------------------------------------------------------------------
(* Properties.                                                             *)

Stages == {"run", "flush", "send", "pick", "read", "remove", "list", "sum",
           "evict", "dead"}
Files == [id : Nat \ {0}, events : SUBSET Events]

TypeOK ==
    /\ captured \in 0..MaxEvents
    /\ buffer \subseteq Events
    /\ spool \subseteq Files
    /\ nextId \in Nat \ {0}
    /\ phase \in {"startup", "running", "stopping", "flushing", "down"}
    /\ pc \in [Threads -> Stages]
    /\ batch \in [Threads -> SUBSET Events]
    /\ file \in [Threads -> Nat]
    /\ attempt \in [Threads -> 1..MaxAttempts]
    /\ listed \in [Threads -> SUBSET Files]
    /\ counted \in [Threads -> SUBSET Files]
    /\ ingested \subseteq Events
    /\ dropped \in [Reasons -> SUBSET Events]
    /\ garbled \subseteq Nat
    /\ faults \in 0..MaxFaults /\ stops \in 0..MaxStops
    /\ crashes \in 0..MaxCrashes

Captured == 1..captured
GivenUp == UNION {dropped[r] : r \in Reasons}
Held == InMemory \cup EventsOf(spool)

(* Every captured line is in memory, in the spool, accepted by the         *)
(* backend, or given up for a reason the code knows, at every step of any  *)
(* number of threads that flush, send, replay and evict together.          *)
Accounted == Captured \subseteq Held \cup ingested \cup GivenUp

(* Concurrent writers can exceed the limit of the spool, since each one    *)
(* sums the files before any of them writes, and an operation of the disk  *)
(* that fails counts for one that succeeds; but they exceed it only by one *)
(* batch per thread other than the first and one per failure, however      *)
(* their passes over the files interleave with replays and evictions.      *)
(* A batch outgrows the buffer when every tailer adds a line before one of *)
(* them flushes.                                                           *)
LargestBatch == MaxBuffer - 1 + Cardinality(Tailers)
OvershootBounded ==
    SizeOf(spool) <=
        MaxSpool + (Cardinality(Threads) - 1 + faults) * LargestBatch

(* Old batches are evicted only to make room (config.example.yaml, spool): *)
(* never when the batch to write fits, except by a thread that still       *)
(* counts a file another thread has removed since it summed the sizes.     *)
EvictedOnlyWhenFull ==
    [][ dropped'["evicted"] # dropped["evicted"] =>
          \E t \in Threads :
             /\ pc[t] = "evict"
             /\ \/ SizeOf(spool) + Cardinality(batch[t]) > MaxSpool
                \/ ~(counted[t] \subseteq spool) ]_vars

(* What is in memory does not stay there: the timer flushes what the size  *)
(* does not, and every send ends, even if the backend never answers; until *)
(* a file that cannot be decoded puts an end to the timer.                 *)
MemoryDrains ==
    \A e \in Events : e \in InMemory ~> e \notin InMemory \/ pc["timer"] = "dead"

(* A requested stop ends, even if the backend never answers.               *)
StopCompletes == phase = "stopping" ~> phase = "down"

(* The catch-up at startup ends, whatever the backend answers: the agent   *)
(* starts to collect, or a file that cannot be decoded ends the process,   *)
(* and will at every start.  It takes removals that do not fail for ever   *)
(* (MaxFaults): a file that stays is replayed again and again.             *)
CatchupEnds == phase = "startup" ~> phase # "startup"

(* The pipeline implements Delivery: whatever the threads do to the same   *)
(* batches and files, a line that has left is never sent again, and none   *)
(* leaves unless it was accepted or given up.  A line is held as long as a *)
(* copy of it is in the buffer, in a thread or in a file.                  *)
Everywhere == buffer \cup EventsOf(spool) \cup UNION {batch[t] : t \in Threads}
Queue == INSTANCE Delivery WITH
    Items <- Events, offered <- Captured, held <- Everywhere,
    accepted <- ingested, abandoned <- GivenUp
ImplementsDelivery == Queue!Spec
=============================================================================
