------------------------ MODULE EventPipelineProofs ------------------------
(* What the event pipeline keeps true for every number of tailers and      *)
(* every value of the bounds.                                              *)
EXTENDS EventPipeline, TLAPS, FiniteSetTheorems, FunctionTheorems

LEMMA Bounds ==
  /\ MaxBuffer \in Nat /\ MaxSpool \in Nat /\ MaxEvents \in Nat
  /\ MaxAttempts \in Nat \ {0}
  /\ MaxFaults \in Nat /\ MaxStops \in Nat /\ MaxCrashes \in Nat
BY PipelineAssumption

LEMMA EventsOfFiles ==
  ASSUME NEW files \in SUBSET Files
  PROVE  EventsOf(files) \subseteq Events
BY DEF EventsOf, Files

LEMMA DropKeepsType ==
  ASSUME dropped \in [Reasons -> SUBSET Events],
         NEW reason, NEW events \in SUBSET Events, Drop(reason, events)
  PROVE  dropped' \in [Reasons -> SUBSET Events]
BY DEF Drop

LEMMA FaultCounted ==
  ASSUME faults \in 0..MaxFaults, Fault \/ NoFault
  PROVE  faults' \in 0..MaxFaults
BY Bounds DEF Fault, NoFault

(* The variables local to the threads.                                     *)
LocalsOK ==
    /\ pc \in [Threads -> Stages]
    /\ batch \in [Threads -> SUBSET Events]
    /\ file \in [Threads -> Nat]
    /\ attempt \in [Threads -> 1..MaxAttempts]
    /\ listed \in [Threads -> SUBSET Files]
    /\ counted \in [Threads -> SUBSET Files]

LEMMA GotoKeepsType ==
  ASSUME pc \in [Threads -> Stages], NEW t, NEW where \in Stages, Goto(t, where)
  PROVE  pc' \in [Threads -> Stages]
BY DEF Goto

LEMMA LeaveKeepsType ==
  ASSUME LocalsOK, NEW t \in Threads, NEW where \in Stages, Leave(t, where)
  PROVE  LocalsOK'
<1>1. 1 \in 1..MaxAttempts
  BY Bounds
<1>2. pc' \in [Threads -> Stages]
  BY GotoKeepsType DEF LocalsOK, Leave
<1> QED
  BY <1>1, <1>2 DEF LocalsOK, Leave

LEMMA ReturnKeepsType ==
  ASSUME LocalsOK, NEW t \in Threads, Return(t)
  PROVE  LocalsOK'
BY LeaveKeepsType DEF Return, Stages

LEMMA AfterReplayKeepsType ==
  ASSUME LocalsOK, NEW t \in Threads, AfterReplay(t)
  PROVE  LocalsOK'
BY LeaveKeepsType DEF AfterReplay, Stages

LEMMA MemoryIsEvents ==
  ASSUME LocalsOK, buffer \subseteq Events
  PROVE  InMemory \subseteq Events
BY DEF LocalsOK, InMemory

(* The variables that the threads share, and the mishaps.                 *)
SharedOK ==
    /\ captured \in 0..MaxEvents
    /\ buffer \subseteq Events
    /\ spool \subseteq Files
    /\ nextId \in Nat \ {0}
    /\ phase \in {"startup", "running", "stopping", "flushing", "down"}
    /\ ingested \subseteq Events
    /\ dropped \in [Reasons -> SUBSET Events]
    /\ garbled \subseteq Nat
    /\ faults \in 0..MaxFaults /\ stops \in 0..MaxStops
    /\ crashes \in 0..MaxCrashes

LEMMA TypeSplit == TypeOK <=> SharedOK /\ LocalsOK
BY DEF TypeOK, SharedOK, LocalsOK, Files

LEMMA TypeSplitPrime == TypeOK' <=> SharedOK' /\ LocalsOK'
BY DEF TypeOK, SharedOK, LocalsOK, Files

LEMMA InitTypeOK == Init => TypeOK
<1>1. 1 \in 1..MaxAttempts
  BY Bounds
<1> QED
  BY <1>1, Bounds DEF Init, TypeOK, Stages

LEMMA CaptureTypeOK ==
  ASSUME TypeOK, NEW t \in Tailers, Capture(t)
  PROVE  TypeOK'
<1>1. captured' \in 0..MaxEvents /\ captured + 1 \in Events
  BY Bounds DEF TypeOK, Capture, Events
<1>2. buffer' \subseteq Events
  BY <1>1 DEF TypeOK, Capture
<1>3. pc' \in [Threads -> Stages]
  BY DEF TypeOK, Capture, Goto, Stages
<1> QED
  BY <1>1, <1>2, <1>3 DEF TypeOK, Capture, server, mishaps, eviction

LEMMA SendTypeOK ==
  ASSUME TypeOK, NEW t \in Threads, Send(t)
  PROVE  TypeOK'
<1>0. SharedOK /\ LocalsOK /\ 1 \in 1..MaxAttempts
  BY TypeSplit, Bounds
<1>1. CASE Accepted(t)
  <2>1. LocalsOK'
    BY <1>0, <1>1 DEF LocalsOK, Accepted, Goto, Stages, eviction
  <2>2. SharedOK'
    BY <1>0, <1>1 DEF SharedOK, LocalsOK, Accepted, mishaps
  <2> QED
    BY <2>1, <2>2, TypeSplitPrime
<1>2. CASE Rejected(t)
  <2>1. LocalsOK'
    <3>1. CASE Return(t)
      BY <1>0, <3>1, ReturnKeepsType
    <3>2. CASE ~Return(t)
      BY <1>0, <1>2, <3>2 DEF LocalsOK, Rejected, Goto, Stages, eviction
    <3> QED
      BY <3>1, <3>2
  <2>2. dropped' \in [Reasons -> SUBSET Events]
    BY <1>0, <1>2, DropKeepsType DEF SharedOK, LocalsOK, Rejected
  <2>3. SharedOK'
    BY <1>0, <1>2, <2>2 DEF SharedOK, Rejected, mishaps
  <2> QED
    BY <2>1, <2>3, TypeSplitPrime
<1>3. CASE Unanswered(t)
  <2>1. LocalsOK'
    <3>1. CASE Return(t)
      BY <1>0, <3>1, ReturnKeepsType
    <3>2. CASE MoreAttempts(t) /\ attempt' = [attempt EXCEPT ![t] = @ + 1]
               /\ UNCHANGED <<pc, batch, file, eviction>>
      <4>1. attempt[t] + 1 \in 1..MaxAttempts
        BY <1>0, <3>2, Bounds DEF LocalsOK, MoreAttempts
      <4> QED
        BY <1>0, <3>2, <4>1 DEF LocalsOK, eviction
    <3>3. CASE Goto(t, "list") /\ attempt' = [attempt EXCEPT ![t] = 1]
               /\ UNCHANGED <<batch, file, eviction>>
      BY <1>0, <3>3 DEF LocalsOK, Goto, Stages, eviction
    <3> QED
      BY <1>3, <3>1, <3>2, <3>3 DEF Unanswered
  <2>2. SharedOK'
    BY <1>0, <1>3 DEF SharedOK, LocalsOK, Unanswered, mishaps
  <2> QED
    BY <2>1, <2>2, TypeSplitPrime
<1> QED
  BY <1>1, <1>2, <1>3 DEF Send

LEMMA FoundIsFiles ==
  ASSUME SharedOK, NEW t
  PROVE  Found(t) \in SUBSET Files /\ EventsOf(Found(t)) \in SUBSET Events
BY EventsOfFiles DEF SharedOK, Found

LEMMA ReplayTypeOK ==
  ASSUME TypeOK, NEW t \in Threads,
         PickOldest(t) \/ ReadFile(t) \/ ReadRaises(t) \/ RemoveFile(t)
  PROVE  TypeOK'
<1>0. SharedOK /\ LocalsOK
  BY TypeSplit
<1>1. CASE PickOldest(t)
  <2>1. LocalsOK'
    <3>1. CASE Return(t)
      BY <1>0, <3>1, ReturnKeepsType
    <3>2. CASE ~Return(t)
      <4>1. PICK oldest \in spool : file' = [file EXCEPT ![t] = oldest.id]
        BY <1>1, <3>2 DEF PickOldest
      <4>2. oldest.id \in Nat
        BY <1>0, <4>1 DEF SharedOK, Files
      <4> QED
        BY <1>0, <1>1, <3>2, <4>1, <4>2
        DEF PickOldest, LocalsOK, Goto, Stages, eviction
    <3> QED
      BY <3>1, <3>2
  <2>2. faults' \in 0..MaxFaults
    BY <1>0, <1>1, FaultCounted DEF PickOldest, SharedOK
  <2>3. SharedOK'
    BY <1>0, <1>1, <2>2 DEF SharedOK, PickOldest, server
  <2> QED
    BY <2>1, <2>3, TypeSplitPrime
<1>2. CASE ReadFile(t)
  <2>2. EventsOf(Found(t)) \in SUBSET Events
    BY <1>0, FoundIsFiles
  <2>3. LocalsOK'
    <3>1. CASE AfterReplay(t)
      BY <1>0, <3>1, AfterReplayKeepsType
    <3>2. CASE ~AfterReplay(t)
      <4>1. /\ batch' = [batch EXCEPT ![t] = EventsOf(Found(t))]
            /\ Goto(t, "send") /\ UNCHANGED <<file, attempt, eviction>>
        BY <1>2, <3>2 DEF ReadFile
      <4> QED
        BY <1>0, <4>1, <2>2 DEF LocalsOK, Goto, Stages, eviction
    <3> QED
      BY <3>1, <3>2
  <2>4. dropped' \in [Reasons -> SUBSET Events]
    <3>1. CASE UNCHANGED dropped
      BY <1>0, <3>1 DEF SharedOK
    <3>2. CASE Drop("unreadable", EventsOf(Found(t)))
      BY <1>0, <2>2, <3>2, DropKeepsType DEF SharedOK
    <3> QED
      BY <1>2, <3>1, <3>2 DEF ReadFile
  <2>5. faults' \in 0..MaxFaults /\ spool' \subseteq Files
    BY <1>0, <1>2, FaultCounted DEF ReadFile, SharedOK
  <2>6. SharedOK'
    BY <1>0, <1>2, <2>4, <2>5 DEF SharedOK, ReadFile
  <2> QED
    BY <2>3, <2>6, TypeSplitPrime
<1>3. CASE RemoveFile(t)
  <2>1. LocalsOK'
    BY <1>0, <1>3, AfterReplayKeepsType DEF RemoveFile
  <2>2. faults' \in 0..MaxFaults /\ spool' \subseteq Files
    BY <1>0, <1>3, FaultCounted DEF RemoveFile, SharedOK
  <2>3. SharedOK'
    BY <1>0, <1>3, <2>2 DEF SharedOK, RemoveFile, server
  <2> QED
    BY <2>1, <2>3, TypeSplitPrime
<1>4. CASE ReadRaises(t)
  <2>1. LocalsOK'
    BY <1>0, <1>4, LeaveKeepsType DEF ReadRaises, Stages
  <2>2. SharedOK'
    BY <1>0, <1>4 DEF SharedOK, ReadRaises, server, mishaps
  <2> QED
    BY <2>1, <2>2, TypeSplitPrime
<1> QED
  BY <1>1, <1>2, <1>3, <1>4

LEMMA WriteTypeOK ==
  ASSUME TypeOK, NEW t \in Threads,
         ListFiles(t) \/ SumSizes(t) \/ Evict(t) \/ WriteFile(t)
  PROVE  TypeOK'
<1>0. SharedOK /\ LocalsOK
  BY TypeSplit
<1>1. CASE ListFiles(t)
  <2>1. listed' \in [Threads -> SUBSET Files]
    BY <1>0, <1>1 DEF SharedOK, LocalsOK, ListFiles
  <2>2. pc' \in [Threads -> Stages]
    BY <1>0, <1>1, GotoKeepsType DEF LocalsOK, ListFiles, Stages
  <2>3. LocalsOK'
    BY <1>0, <1>1, <2>1, <2>2 DEF LocalsOK, ListFiles
  <2>4. faults' \in 0..MaxFaults
    BY <1>0, <1>1, FaultCounted DEF ListFiles, SharedOK
  <2>5. SharedOK'
    BY <1>0, <1>1, <2>4 DEF SharedOK, ListFiles, server
  <2> QED
    BY <2>3, <2>5, TypeSplitPrime
<1>2. CASE SumSizes(t)
  <2>1. CASE Drop("vanished", batch[t]) /\ Return(t)
    <3>1. LocalsOK'
      BY <1>0, <2>1, ReturnKeepsType
    <3>2. dropped' \in [Reasons -> SUBSET Events]
      BY <1>0, <2>1, DropKeepsType DEF SharedOK, LocalsOK
    <3>3. SharedOK'
      BY <1>0, <1>2, <3>2 DEF SharedOK, SumSizes, mishaps
    <3> QED
      BY <3>1, <3>3, TypeSplitPrime
  <2>2. CASE ~(Drop("vanished", batch[t]) /\ Return(t))
    <3>1. PICK gone \in SUBSET (listed[t] \ spool) :
             counted' = [counted EXCEPT ![t] = (listed[t] \cap spool) \cup gone]
      BY <1>2, <2>2 DEF SumSizes
    <3>2. (listed[t] \cap spool) \cup gone \in SUBSET Files
      BY <1>0 DEF LocalsOK
    <3>3. counted' \in [Threads -> SUBSET Files]
      BY <1>0, <3>1, <3>2 DEF LocalsOK
    <3>4. pc' \in [Threads -> Stages]
      BY <1>0, <1>2, <2>2, GotoKeepsType DEF LocalsOK, SumSizes, Stages
    <3>5. LocalsOK'
      BY <1>0, <1>2, <2>2, <3>3, <3>4 DEF LocalsOK, SumSizes
    <3>6. SharedOK'
      BY <1>0, <1>2, <2>2 DEF SharedOK, SumSizes, mishaps
    <3> QED
      BY <3>5, <3>6, TypeSplitPrime
  <2> QED
    BY <2>1, <2>2
<1>4. CASE Evict(t)
  <2>1. PICK oldest \in listed[t] :
           /\ listed' = [listed EXCEPT ![t] = @ \ {oldest}]
           /\ UNCHANGED counted \/ counted' = [counted EXCEPT ![t] = @ \ {oldest}]
           /\ spool' \subseteq spool
           /\ Drop("evicted", oldest.events) \/ UNCHANGED dropped
           /\ Fault \/ NoFault
    BY <1>4 DEF Evict
  <2>2. LocalsOK'
    <3>1. listed' \in [Threads -> SUBSET Files]
      BY <1>0, <2>1 DEF LocalsOK
    <3>2. counted' \in [Threads -> SUBSET Files]
      BY <1>0, <2>1 DEF LocalsOK
    <3> QED
      BY <1>0, <1>4, <3>1, <3>2 DEF LocalsOK, Evict
  <2>3. dropped' \in [Reasons -> SUBSET Events]
    <3>1. oldest.events \in SUBSET Events
      BY <1>0 DEF LocalsOK, Files
    <3> QED
      BY <1>0, <2>1, <3>1, DropKeepsType DEF SharedOK
  <2>4. faults' \in 0..MaxFaults
    BY <1>0, <2>1, FaultCounted DEF SharedOK
  <2>5. SharedOK'
    BY <1>0, <1>4, <2>1, <2>3, <2>4 DEF SharedOK, Evict
  <2> QED
    BY <2>2, <2>5, TypeSplitPrime
<1>3. CASE WriteFile(t)
  <2>1. LocalsOK'
    BY <1>0, <1>3, ReturnKeepsType DEF WriteFile
  <2>2. [id |-> nextId, events |-> batch[t]] \in Files
    BY <1>0 DEF SharedOK, LocalsOK, Files
  <2>3. spool' \subseteq Files /\ nextId' \in Nat \ {0}
    BY <1>0, <1>3, <2>2 DEF SharedOK, WriteFile
  <2>4. dropped' \in [Reasons -> SUBSET Events]
    <3>1. CASE UNCHANGED dropped
      BY <1>0, <3>1 DEF SharedOK
    <3>2. CASE Drop("refused", batch[t])
      BY <1>0, <3>2, DropKeepsType DEF SharedOK, LocalsOK
    <3> QED
      BY <1>3, <3>1, <3>2 DEF WriteFile
  <2>5. faults' \in 0..MaxFaults
    BY <1>0, <1>3, FaultCounted DEF WriteFile, SharedOK
  <2>6. SharedOK'
    BY <1>0, <1>3, <2>3, <2>4, <2>5 DEF SharedOK, WriteFile
  <2> QED
    BY <2>1, <2>6, TypeSplitPrime
<1> QED
  BY <1>1, <1>2, <1>3, <1>4

LEMMA DieTypeOK ==
  ASSUME SharedOK, LocalsOK, NEW reason, Die(reason),
         stops' \in 0..MaxStops, crashes' \in 0..MaxCrashes
  PROVE  TypeOK'
<1>1. LocalsOK'
  <2>1. 1 \in 1..MaxAttempts
    BY Bounds
  <2> QED
    BY <2>1 DEF LocalsOK, Die, Stages
<1>2. dropped' \in [Reasons -> SUBSET Events]
  <2>1. InMemory \in SUBSET Events
    BY MemoryIsEvents DEF SharedOK
  <2> QED
    BY <2>1, DropKeepsType DEF SharedOK, Die
<1>3. SharedOK'
  BY <1>2 DEF SharedOK, Die
<1> QED
  BY <1>1, <1>3, TypeSplitPrime

LEMMA LifecycleTypeOK ==
  ASSUME TypeOK,
         \/ TimerExpires \/ StartThreads \/ RequestStop \/ FinalFlush
         \/ Exit \/ RunRaises \/ Crash \/ Garble \/ Restart
  PROVE  TypeOK'
<1>0. SharedOK /\ LocalsOK
  BY TypeSplit
<1>1. CASE Exit \/ RunRaises
  BY <1>0, <1>1, DieTypeOK DEF Exit, RunRaises, SharedOK
<1>2. CASE Crash
  <2>1. crashes' \in 0..MaxCrashes
    BY <1>0, <1>2, Bounds DEF Crash, SharedOK
  <2> QED
    BY <1>0, <1>2, <2>1, DieTypeOK DEF Crash, SharedOK
<1>3. CASE RequestStop
  <2>1. stops' \in 0..MaxStops
    BY <1>0, <1>3, Bounds DEF RequestStop, SharedOK
  <2>2. LocalsOK' /\ SharedOK'
    BY <1>0, <1>3, <2>1 DEF SharedOK, LocalsOK, RequestStop, locals, eviction, server
  <2> QED
    BY <2>2, TypeSplitPrime
<1>4. CASE TimerExpires
  BY <1>0, <1>4, TypeSplitPrime
  DEF SharedOK, LocalsOK, TimerExpires, Goto, Stages, eviction, server,
      mishaps
<1>5. CASE StartThreads
  BY <1>0, <1>5, TypeSplitPrime
  DEF SharedOK, LocalsOK, StartThreads, locals, eviction, server, mishaps
<1>6. CASE FinalFlush
  BY <1>0, <1>6, TypeSplitPrime
  DEF SharedOK, LocalsOK, FinalFlush, Goto, Stages, eviction, server,
      mishaps
<1>7. CASE Restart
  BY <1>0, <1>7, TypeSplitPrime
  DEF SharedOK, LocalsOK, Restart, Goto, Stages, eviction, server,
      mishaps
<1>8. CASE Garble
  <2>1. garbled' \subseteq Nat
    BY <1>0, <1>8 DEF Garble, SharedOK, Files
  <2>2. faults' \in 0..MaxFaults
    BY <1>0, <1>8, FaultCounted DEF Garble, SharedOK
  <2>3. SharedOK' /\ LocalsOK'
    BY <1>0, <1>8, <2>1, <2>2
    DEF SharedOK, LocalsOK, Garble, locals, eviction, server
  <2> QED
    BY <2>3, TypeSplitPrime
<1> QED
  BY <1>1, <1>2, <1>3, <1>4, <1>5, <1>6, <1>7, <1>8

LEMMA FlushTypeOK ==
  ASSUME TypeOK, NEW t \in Threads, Flush(t)
  PROVE  TypeOK'
<1>0. SharedOK /\ LocalsOK
  BY TypeSplit
<1>1. LocalsOK'
  <2>1. pc' \in [Threads -> Stages]
    BY <1>0 DEF LocalsOK, Flush, Goto, Stages
  <2>2. batch' \in [Threads -> SUBSET Events]
    BY <1>0 DEF LocalsOK, SharedOK, Flush
  <2> QED
    BY <1>0, <2>1, <2>2 DEF LocalsOK, Flush, eviction
<1>2. SharedOK'
  BY <1>0 DEF SharedOK, Flush, server, mishaps
<1> QED
  BY <1>1, <1>2, TypeSplitPrime

LEMMA StepTypeOK == TypeOK /\ [Next]_vars => TypeOK'
<1> SUFFICES ASSUME TypeOK, [Next]_vars PROVE TypeOK'
  OBVIOUS
<1>1. CASE \E t \in Tailers : Capture(t)
  BY <1>1, CaptureTypeOK
<1>2. CASE \E t \in Threads : ThreadStep(t)
  BY <1>2, FlushTypeOK, SendTypeOK, ReplayTypeOK, WriteTypeOK DEF ThreadStep
<1>3. CASE \/ TimerExpires \/ StartThreads \/ RequestStop \/ FinalFlush
           \/ Exit \/ RunRaises \/ Crash \/ Garble \/ Restart
  BY <1>3, LifecycleTypeOK
<1>4. CASE UNCHANGED vars
  BY <1>4 DEF vars, locals, eviction, server, mishaps, TypeOK
<1> QED
  BY <1>1, <1>2, <1>3, <1>4 DEF Next

(* Every variable keeps its type, whatever the tailers and the bounds.     *)
THEOREM TypeCorrect == Spec => []TypeOK
BY InitTypeOK, StepTypeOK, PTL DEF Spec

-----------------------------------------------------------------------------
(* Accounted is not inductive: it says nothing of the batch that a flush   *)
(* would overwrite, nor of the file that a replay removes.                 *)

Idle(t) == batch[t] = {} /\ file[t] = 0

(* A thread that takes a new batch or a new file holds none, a thread that *)
(* writes to the spool replays nothing, a thread that replays has a file.  *)
StageOK(t) ==
    /\ pc[t] \in {"run", "flush", "pick", "dead"} => Idle(t)
    /\ pc[t] \in {"list", "sum", "evict"} => file[t] = 0
    /\ pc[t] \in {"read", "remove"} => file[t] # 0
StageInv == \A t \in Threads : StageOK(t)

(* main sends nothing between the catch-up and the last flush.             *)
MainInv == phase \in {"running", "stopping", "down"} => pc["main"] = "run"

(* No file that is still to be written has the name of a file in use.      *)
NamesInv ==
    /\ \A f \in spool : f.id < nextId
    /\ \A t \in Threads : file[t] < nextId

(* A replay sends the file's events before it removes the file.            *)
ReplayOK(t) ==
    \A f \in spool : f.id = file[t] =>
       /\ pc[t] = "send" => f.events \subseteq batch[t]
       /\ pc[t] = "remove" => f.events \subseteq ingested \cup GivenUp
ReplayInv == \A t \in Threads : ReplayOK(t)

AccountInv == StageInv /\ MainInv /\ NamesInv /\ ReplayInv /\ Accounted

Known == Held \cup ingested \cup GivenUp

(* Where the events of a file may be once the file has been written.       *)
Settled == EventsOf(spool) \cup ingested \cup GivenUp

NothingLost ==
    /\ Known \subseteq Known' /\ Settled \subseteq Settled'
    /\ ingested \subseteq ingested' /\ GivenUp \subseteq GivenUp'

LEMMA StillAccounted ==
  ASSUME Accounted, captured' = captured, Known \subseteq Known'
  PROVE  Accounted'
BY DEF Accounted, Known, Captured

LEMMA KnownNext ==
  /\ buffer' \subseteq Known'
  /\ \A t \in Threads : file'[t] = 0 => batch'[t] \subseteq Known'
  /\ \A f \in spool' : f.events \subseteq Known'
  /\ ingested' \subseteq Known'
  /\ GivenUp' \subseteq Known'
BY DEF Known, Held, InMemory, EventsOf, Fresh

LEMMA DropGives ==
  ASSUME dropped \in [Reasons -> SUBSET Events],
         NEW reason \in Reasons, NEW events, Drop(reason, events)
  PROVE  GivenUp \subseteq GivenUp' /\ events \subseteq GivenUp'
<1>1. \A r \in Reasons : dropped[r] \subseteq dropped'[r]
  BY DEF Drop
<1>2. events \subseteq dropped'[reason]
  BY DEF Drop
<1> QED
  BY <1>1, <1>2 DEF GivenUp

(* The locals of the threads other than t stay as they are.                *)
Others(t) ==
    \A u \in Threads \ {t} :
       pc'[u] = pc[u] /\ batch'[u] = batch[u] /\ file'[u] = file[u]

(* What a step of thread t must show for the rest of the invariant.        *)
LEMMA ControlKept ==
  ASSUME SharedOK, LocalsOK, AccountInv, NEW t \in Threads, Others(t),
         pc[t] # "run", phase' = phase,
         nextId' \in Nat, nextId <= nextId', file'[t] < nextId',
         \A f \in spool' : f \in spool \/ (f.id = nextId /\ nextId < nextId'),
         ingested \subseteq ingested', GivenUp \subseteq GivenUp',
         StageOK(t)', ReplayOK(t)'
  PROVE  StageInv' /\ MainInv' /\ NamesInv' /\ ReplayInv'
<1>1. StageInv'
  BY DEF AccountInv, StageInv, StageOK, Idle, Others
<1>2. MainInv'
  BY DEF AccountInv, MainInv, Others, Threads
<1>3. NamesInv'
  <2>1. ASSUME NEW f \in spool' PROVE f.id < nextId'
    BY DEF AccountInv, NamesInv, SharedOK, Files
  <2>2. ASSUME NEW u \in Threads PROVE file'[u] < nextId'
    <3>1. CASE u = t
      BY <3>1
    <3>2. CASE u # t
      <4>1. file'[u] = file[u] /\ file[u] < nextId /\ file[u] \in Nat
        BY <3>2 DEF AccountInv, NamesInv, LocalsOK, Others
      <4> QED
        BY <4>1 DEF SharedOK
    <3> QED
      BY <3>1, <3>2
  <2> QED
    BY <2>1, <2>2 DEF NamesInv
<1>4. ReplayInv'
  <2>1. ASSUME NEW u \in Threads \ {t} PROVE ReplayOK(u)'
    <3>1. /\ pc'[u] = pc[u] /\ batch'[u] = batch[u] /\ file'[u] = file[u]
          /\ file[u] # nextId
      BY DEF Others, AccountInv, NamesInv, LocalsOK, SharedOK
    <3>2. ReplayOK(u)
      BY DEF AccountInv, ReplayInv
    <3> QED
      BY <3>1, <3>2 DEF ReplayOK
  <2> QED
    BY <2>1 DEF ReplayInv
<1> QED
  BY <1>1, <1>2, <1>3, <1>4

LEMMA FlushAccounts ==
  ASSUME TypeOK, AccountInv, NEW t \in Threads, Flush(t)
  PROVE  AccountInv' /\ NothingLost
<1>0. SharedOK /\ LocalsOK
  BY TypeSplit
<1>1. Others(t) /\ UNCHANGED GivenUp
  BY <1>0 DEF LocalsOK, Others, Flush, Goto, server, GivenUp
<1>2. Idle(t)
  BY DEF AccountInv, StageInv, StageOK, Flush
<1>3. StageOK(t)' /\ ReplayOK(t)' /\ file'[t] < nextId'
  BY <1>0, <1>2 DEF StageOK, ReplayOK, Idle, Flush, Goto, LocalsOK, SharedOK,
                    Files, AccountInv, NamesInv
<1>4. StageInv' /\ MainInv' /\ NamesInv' /\ ReplayInv'
  BY <1>0, <1>1, <1>3, ControlKept DEF Flush, server, SharedOK
<1>5. Accounted' /\ NothingLost
  <2>1. buffer \subseteq Known'
    <3>1. CASE buffer = {}
      BY <3>1
    <3>2. CASE buffer # {}
      <4>1. batch'[t] = buffer /\ file'[t] = 0
        BY <1>0, <1>2, <3>2 DEF Flush, LocalsOK, Idle
      <4> QED
        BY <4>1, KnownNext
    <3> QED
      BY <3>1, <3>2
  <2>2. ASSUME NEW u \in Threads, Fresh(u) PROVE batch[u] \subseteq Known'
    <3>1. CASE u = t
      BY <1>2, <3>1 DEF Idle
    <3>2. CASE u # t
      BY <1>1, <2>2, <3>2, KnownNext DEF Others, Fresh
    <3> QED
      BY <3>1, <3>2
  <2>3. /\ spool' = spool /\ ingested' = ingested /\ captured' = captured
    BY DEF Flush, server
  <2>4. Known \subseteq Known'
    BY <1>1, <2>1, <2>2, <2>3, KnownNext DEF Known, Held, InMemory, EventsOf
  <2>5. Settled \subseteq Settled'
    BY <1>1, <2>3 DEF Settled, EventsOf
  <2> QED
    BY <1>1, <2>3, <2>4, <2>5, StillAccounted DEF AccountInv, NothingLost
<1> QED
  BY <1>4, <1>5 DEF AccountInv

(* A thread that loses its batch must have accounted for it.               *)
LEMMA BatchAccounted ==
  ASSUME Accounted, NEW t \in Threads, Others(t),
         UNCHANGED <<captured, buffer>>,
         ingested \subseteq ingested', GivenUp \subseteq GivenUp',
         Fresh(t) => batch[t] \subseteq Known',
         \A f \in spool \ spool' : f.events \subseteq ingested' \cup GivenUp'
  PROVE  Accounted' /\ NothingLost
<1>1. ASSUME NEW u \in Threads, Fresh(u) PROVE batch[u] \subseteq Known'
  <2>1. CASE u = t
    BY <1>1, <2>1
  <2>2. CASE u # t
    BY <1>1, <2>2, KnownNext DEF Others, Fresh
  <2> QED
    BY <2>1, <2>2
<1>2. ASSUME NEW f \in spool PROVE f.events \subseteq Known'
  <2>1. CASE f \in spool'
    BY <2>1, KnownNext
  <2>2. CASE f \notin spool'
    BY <2>2 DEF Known
  <2> QED
    BY <2>1, <2>2
<1>3. Known \subseteq Known'
  <2>1. InMemory \subseteq Known' /\ EventsOf(spool) \subseteq Known'
    BY <1>1, <1>2, KnownNext DEF InMemory, EventsOf
  <2> QED
    BY <2>1, KnownNext DEF Known, Held
<1>4. Settled \subseteq Settled'
  BY DEF Settled, EventsOf
<1> QED
  BY <1>3, <1>4, StillAccounted DEF NothingLost

LEMMA AcceptedAccounts ==
  ASSUME TypeOK, AccountInv, NEW t \in Threads, Accepted(t)
  PROVE  AccountInv' /\ NothingLost
<1>0. SharedOK /\ LocalsOK
  BY TypeSplit
<1>1. Others(t) /\ UNCHANGED GivenUp /\ ingested' = ingested \cup batch[t]
  BY <1>0 DEF LocalsOK, Others, Accepted, Goto, GivenUp
<1>2. StageOK(t)'
  BY <1>0 DEF StageOK, Idle, Accepted, Fresh, Goto, LocalsOK
<1>3. ReplayOK(t)'
  <2>1. ReplayOK(t)
    BY DEF AccountInv, ReplayInv
  <2>2. pc'[t] # "send" /\ spool' = spool /\ file' = file /\ pc[t] = "send"
    BY <1>0 DEF Accepted, Goto, LocalsOK
  <2> QED
    BY <1>1, <2>1, <2>2 DEF ReplayOK
<1>4. StageInv' /\ MainInv' /\ NamesInv' /\ ReplayInv'
  BY <1>0, <1>1, <1>2, <1>3, ControlKept
  DEF Accepted, SharedOK, AccountInv, NamesInv
<1>5. Accounted' /\ NothingLost
  BY <1>1, KnownNext, BatchAccounted DEF AccountInv, Accepted
<1> QED
  BY <1>4, <1>5 DEF AccountInv

(* A thread that returns is idle.                                          *)
LEMMA LeaveIsIdle ==
  ASSUME SharedOK, LocalsOK, NEW t \in Threads,
         NEW where \in {"run", "pick", "dead"}, Leave(t, where)
  PROVE  /\ Others(t) /\ StageOK(t)'
         /\ \A f : f \in spool' => pc'[t] \notin {"send", "remove"}
         /\ file'[t] = 0
BY DEF SharedOK, LocalsOK, Leave, Goto, Others, StageOK, Idle

LEMMA ReturnIsIdle ==
  ASSUME SharedOK, LocalsOK, NEW t \in Threads, Return(t) \/ AfterReplay(t)
  PROVE  /\ Others(t) /\ StageOK(t)'
         /\ \A f : f \in spool' => pc'[t] \notin {"send", "remove"}
         /\ file'[t] = 0
<1>1. Leave(t, "run") \/ Leave(t, "pick")
  BY DEF Return, AfterReplay
<1> QED
  BY <1>1, LeaveIsIdle

LEMMA RejectedAccounts ==
  ASSUME TypeOK, AccountInv, NEW t \in Threads, Rejected(t)
  PROVE  AccountInv' /\ NothingLost
<1>0. SharedOK /\ LocalsOK /\ "rejected" \in Reasons
  BY TypeSplit DEF Reasons
<1>1. GivenUp \subseteq GivenUp' /\ batch[t] \subseteq GivenUp'
  BY <1>0, DropGives DEF Rejected, SharedOK
<1>2. Others(t) /\ StageOK(t)' /\ ReplayOK(t)' /\ file'[t] < nextId'
  <2>1. CASE Return(t)
    BY <1>0, <2>1, ReturnIsIdle DEF ReplayOK, Rejected, SharedOK
  <2>2. CASE ~Return(t)
    <3>1. /\ pc[t] = "send" /\ ~Fresh(t) /\ Goto(t, "remove")
          /\ UNCHANGED <<batch, file, spool, nextId>>
      BY <2>2 DEF Rejected
    <3>2. Others(t) /\ StageOK(t)'
      BY <1>0, <3>1 DEF LocalsOK, Others, Goto, StageOK, Fresh
    <3>3. ReplayOK(t)'
      <4>1. ReplayOK(t)
        BY DEF AccountInv, ReplayInv
      <4> QED
        BY <1>0, <1>1, <3>1, <4>1 DEF ReplayOK, LocalsOK, Goto
    <3> QED
      BY <3>1, <3>2, <3>3 DEF AccountInv, NamesInv
  <2> QED
    BY <2>1, <2>2
<1>3. StageInv' /\ MainInv' /\ NamesInv' /\ ReplayInv'
  BY <1>0, <1>1, <1>2, ControlKept DEF Rejected, SharedOK
<1>4. Accounted' /\ NothingLost
  BY <1>1, <1>2, KnownNext, BatchAccounted DEF AccountInv, Rejected
<1> QED
  BY <1>3, <1>4 DEF AccountInv

LEMMA UnansweredAccounts ==
  ASSUME TypeOK, AccountInv, NEW t \in Threads, Unanswered(t)
  PROVE  AccountInv' /\ NothingLost
<1>0. SharedOK /\ LocalsOK
  BY TypeSplit
<1>1. ingested \subseteq ingested' /\ UNCHANGED GivenUp
  BY DEF Unanswered, GivenUp
<1>2. /\ Others(t) /\ StageOK(t)' /\ ReplayOK(t)' /\ file'[t] < nextId'
      /\ Fresh(t) => batch'[t] = batch[t] /\ file'[t] = 0
  <2>1. CASE ~Fresh(t) /\ Return(t)
    BY <1>0, <2>1, ReturnIsIdle DEF ReplayOK, Unanswered, SharedOK
  <2>2. CASE ~(~Fresh(t) /\ Return(t))
    <3>1. /\ pc[t] = "send" /\ (Goto(t, "list") \/ UNCHANGED pc)
          /\ Goto(t, "list") => Fresh(t)
          /\ UNCHANGED <<batch, file, spool, nextId>>
      BY <1>0, <2>2 DEF Unanswered, LocalsOK, Goto
    <3>2. Others(t) /\ StageOK(t)'
      BY <1>0, <2>2, <3>1
      DEF LocalsOK, Others, Goto, StageOK, Fresh, Unanswered
    <3>3. ReplayOK(t)'
      <4>1. ReplayOK(t)
        BY DEF AccountInv, ReplayInv
      <4> QED
        BY <1>0, <1>1, <3>1, <4>1 DEF ReplayOK, LocalsOK, Goto
    <3> QED
      BY <3>1, <3>2, <3>3 DEF AccountInv, NamesInv, Fresh
  <2> QED
    BY <2>1, <2>2
<1>3. StageInv' /\ MainInv' /\ NamesInv' /\ ReplayInv'
  BY <1>0, <1>1, <1>2, ControlKept DEF Unanswered, SharedOK
<1>4. Accounted' /\ NothingLost
  BY <1>1, <1>2, KnownNext, BatchAccounted DEF AccountInv, Unanswered
<1> QED
  BY <1>3, <1>4 DEF AccountInv

LEMMA PickAccounts ==
  ASSUME TypeOK, AccountInv, NEW t \in Threads, PickOldest(t)
  PROVE  AccountInv' /\ NothingLost
<1>0. SharedOK /\ LocalsOK
  BY TypeSplit
<1>1. UNCHANGED GivenUp /\ Idle(t)
  BY DEF PickOldest, server, GivenUp, AccountInv, StageInv, StageOK
<1>2. Others(t) /\ StageOK(t)' /\ ReplayOK(t)' /\ file'[t] < nextId'
  <2>1. CASE Return(t)
    BY <1>0, <2>1, ReturnIsIdle DEF ReplayOK, PickOldest, SharedOK
  <2>2. CASE ~Return(t)
    <3>1. PICK oldest \in spool : file' = [file EXCEPT ![t] = oldest.id]
      BY <2>2 DEF PickOldest
    <3>2. oldest.id \in Nat \ {0} /\ oldest.id < nextId
      BY <1>0, <3>1 DEF SharedOK, Files, AccountInv, NamesInv
    <3> QED
      BY <1>0, <2>2, <3>1, <3>2
      DEF LocalsOK, Others, Goto, StageOK, ReplayOK, PickOldest
  <2> QED
    BY <2>1, <2>2
<1>3. StageInv' /\ MainInv' /\ NamesInv' /\ ReplayInv'
  BY <1>0, <1>1, <1>2, ControlKept DEF PickOldest, SharedOK, server
<1>4. Accounted' /\ NothingLost
  BY <1>1, <1>2, KnownNext, BatchAccounted
  DEF AccountInv, PickOldest, server, Idle
<1> QED
  BY <1>3, <1>4 DEF AccountInv

LEMMA ReadAccounts ==
  ASSUME TypeOK, AccountInv, NEW t \in Threads, ReadFile(t)
  PROVE  AccountInv' /\ NothingLost
<1>0. SharedOK /\ LocalsOK /\ "unreadable" \in Reasons
  BY TypeSplit DEF Reasons
<1>1. file[t] # 0 /\ file[t] < nextId
  BY DEF ReadFile, AccountInv, StageInv, StageOK, NamesInv
<1>2. /\ GivenUp \subseteq GivenUp'
      /\ spool' \subseteq spool
      /\ \A f \in spool \ spool' : f.events \subseteq GivenUp'
  <2>1. CASE UNCHANGED dropped /\ UNCHANGED spool
    BY <2>1 DEF GivenUp
  <2>2. CASE Drop("unreadable", EventsOf(Found(t))) /\ spool' = spool \ Found(t)
    BY <1>0, <2>2, DropGives DEF SharedOK, EventsOf, Found
  <2> QED
    BY <2>1, <2>2 DEF ReadFile
<1>3. Others(t) /\ StageOK(t)' /\ ReplayOK(t)' /\ file'[t] < nextId'
  <2>1. CASE AfterReplay(t)
    BY <1>0, <2>1, ReturnIsIdle DEF ReplayOK, ReadFile, SharedOK
  <2>2. CASE ~AfterReplay(t)
    <3>1. /\ batch' = [batch EXCEPT ![t] = EventsOf(Found(t))]
          /\ Goto(t, "send") /\ UNCHANGED <<file, spool, nextId>>
      BY <2>2 DEF ReadFile
    <3>2. Others(t) /\ StageOK(t)' /\ file'[t] < nextId'
      BY <1>0, <1>1, <3>1 DEF LocalsOK, Others, Goto, StageOK
    <3>3. ReplayOK(t)'
      <4>1. \A f \in Found(t) : f.events \subseteq EventsOf(Found(t))
        BY DEF EventsOf
      <4> QED
        BY <1>0, <3>1, <4>1 DEF ReplayOK, LocalsOK, Goto, Found
    <3> QED
      BY <3>2, <3>3
  <2> QED
    BY <2>1, <2>2
<1>4. StageInv' /\ MainInv' /\ NamesInv' /\ ReplayInv'
  BY <1>0, <1>2, <1>3, ControlKept DEF ReadFile, SharedOK
<1>5. Accounted' /\ NothingLost
  BY <1>1, <1>2, <1>3, BatchAccounted DEF AccountInv, ReadFile, Fresh
<1> QED
  BY <1>4, <1>5 DEF AccountInv

LEMMA RaiseAccounts ==
  ASSUME TypeOK, AccountInv, NEW t \in Threads, ReadRaises(t)
  PROVE  AccountInv' /\ NothingLost
<1>0. SharedOK /\ LocalsOK
  BY TypeSplit
<1>1. file[t] # 0 /\ UNCHANGED <<ingested, GivenUp>>
  BY DEF ReadRaises, AccountInv, StageInv, StageOK, server, GivenUp
<1>2. Others(t) /\ StageOK(t)' /\ ReplayOK(t)' /\ file'[t] < nextId'
  BY <1>0, LeaveIsIdle DEF ReplayOK, ReadRaises, SharedOK
<1>3. StageInv' /\ MainInv' /\ NamesInv' /\ ReplayInv'
  BY <1>0, <1>1, <1>2, ControlKept DEF ReadRaises, SharedOK
<1>4. Accounted' /\ NothingLost
  BY <1>1, <1>2, BatchAccounted DEF AccountInv, ReadRaises, Fresh
<1> QED
  BY <1>3, <1>4 DEF AccountInv

LEMMA RemoveAccounts ==
  ASSUME TypeOK, AccountInv, NEW t \in Threads, RemoveFile(t)
  PROVE  AccountInv' /\ NothingLost
<1>0. SharedOK /\ LocalsOK
  BY TypeSplit
<1>1. file[t] # 0 /\ UNCHANGED <<ingested, GivenUp>>
  BY DEF RemoveFile, AccountInv, StageInv, StageOK, server, GivenUp
<1>2. \A f \in spool \ spool' : f.events \subseteq ingested' \cup GivenUp'
  <2>1. \A f \in spool \ spool' : f.id = file[t]
    BY DEF RemoveFile
  <2>2. ReplayOK(t) /\ pc[t] = "remove"
    BY DEF AccountInv, ReplayInv, RemoveFile
  <2> QED
    BY <1>1, <2>1, <2>2 DEF ReplayOK
<1>3. Others(t) /\ StageOK(t)' /\ ReplayOK(t)' /\ file'[t] < nextId'
  BY <1>0, ReturnIsIdle DEF ReplayOK, RemoveFile, SharedOK
<1>4. StageInv' /\ MainInv' /\ NamesInv' /\ ReplayInv'
  BY <1>0, <1>1, <1>3, ControlKept DEF RemoveFile, SharedOK
<1>5. Accounted' /\ NothingLost
  BY <1>1, <1>2, <1>3, BatchAccounted DEF AccountInv, RemoveFile, Fresh
<1> QED
  BY <1>4, <1>5 DEF AccountInv

LEMMA ListAccounts ==
  ASSUME TypeOK, AccountInv, NEW t \in Threads, ListFiles(t)
  PROVE  AccountInv' /\ NothingLost
<1>0. SharedOK /\ LocalsOK
  BY TypeSplit
<1>1. UNCHANGED <<ingested, GivenUp>> /\ file[t] = 0
  BY DEF ListFiles, server, GivenUp, AccountInv, StageInv, StageOK
<1>2. Others(t) /\ StageOK(t)' /\ ReplayOK(t)' /\ file'[t] < nextId'
  BY <1>0, <1>1 DEF LocalsOK, SharedOK, Others, ListFiles, Goto, StageOK, ReplayOK
<1>3. StageInv' /\ MainInv' /\ NamesInv' /\ ReplayInv'
  BY <1>0, <1>1, <1>2, ControlKept DEF ListFiles, SharedOK
<1>4. Accounted' /\ NothingLost
  BY <1>1, <1>2, KnownNext, BatchAccounted DEF AccountInv, ListFiles, Fresh
<1> QED
  BY <1>3, <1>4 DEF AccountInv

LEMMA SumAccounts ==
  ASSUME TypeOK, AccountInv, NEW t \in Threads, SumSizes(t)
  PROVE  AccountInv' /\ NothingLost
<1>0. SharedOK /\ LocalsOK /\ "vanished" \in Reasons
  BY TypeSplit DEF Reasons
<1>1. file[t] = 0 /\ nextId > 0
  BY <1>0 DEF SumSizes, AccountInv, StageInv, StageOK, SharedOK
<1>2. /\ GivenUp \subseteq GivenUp' /\ batch[t] \subseteq Known'
      /\ Others(t) /\ StageOK(t)' /\ ReplayOK(t)' /\ file'[t] < nextId'
  <2>1. CASE Drop("vanished", batch[t]) /\ Return(t)
    <3>1. GivenUp \subseteq GivenUp' /\ batch[t] \subseteq GivenUp'
      BY <1>0, <2>1, DropGives DEF SharedOK
    <3>2. Others(t) /\ StageOK(t)' /\ ReplayOK(t)' /\ file'[t] < nextId'
      BY <1>0, <2>1, ReturnIsIdle DEF ReplayOK, SumSizes, SharedOK
    <3> QED
      BY <3>1, <3>2, KnownNext
  <2>2. CASE ~(Drop("vanished", batch[t]) /\ Return(t))
    <3>1. Goto(t, "evict") /\ UNCHANGED <<batch, file, dropped>>
      BY <2>2 DEF SumSizes
    <3>2. GivenUp \subseteq GivenUp' /\ batch[t] \subseteq Known'
      BY <1>1, <3>1, KnownNext DEF GivenUp
    <3>3. Others(t) /\ StageOK(t)' /\ ReplayOK(t)' /\ file'[t] < nextId'
      BY <1>0, <1>1, <3>1
      DEF LocalsOK, Others, Goto, StageOK, ReplayOK, SumSizes
    <3> QED
      BY <3>2, <3>3
  <2> QED
    BY <2>1, <2>2
<1>3. StageInv' /\ MainInv' /\ NamesInv' /\ ReplayInv'
  BY <1>0, <1>2, ControlKept DEF SumSizes, SharedOK
<1>4. Accounted' /\ NothingLost
  BY <1>2, BatchAccounted DEF AccountInv, SumSizes
<1> QED
  BY <1>3, <1>4 DEF AccountInv

LEMMA EvictAccounts ==
  ASSUME TypeOK, AccountInv, NEW t \in Threads, Evict(t)
  PROVE  AccountInv' /\ NothingLost
<1>0. SharedOK /\ LocalsOK /\ "evicted" \in Reasons
  BY TypeSplit DEF Reasons
<1>1. file[t] = 0 /\ nextId > 0 /\ UNCHANGED <<pc, batch, file>>
  BY <1>0 DEF Evict, AccountInv, StageInv, StageOK, SharedOK
<1>2. /\ GivenUp \subseteq GivenUp'
      /\ spool' \subseteq spool
      /\ \A f \in spool \ spool' : f.events \subseteq GivenUp'
  <2>1. CASE UNCHANGED <<spool, dropped>>
    BY <2>1 DEF GivenUp
  <2>2. CASE \E oldest \in listed[t] :
               spool' = spool \ {oldest} /\ Drop("evicted", oldest.events)
    BY <1>0, <2>2, DropGives DEF SharedOK
  <2> QED
    BY <2>1, <2>2 DEF Evict
<1>3. Others(t) /\ StageOK(t)' /\ ReplayOK(t)' /\ file'[t] < nextId'
  <2>1. StageOK(t) /\ pc[t] = "evict"
    BY DEF AccountInv, StageInv, Evict
  <2> QED
    BY <1>0, <1>1, <2>1 DEF Others, StageOK, Idle, ReplayOK, Evict
<1>4. StageInv' /\ MainInv' /\ NamesInv' /\ ReplayInv'
  BY <1>0, <1>2, <1>3, ControlKept DEF Evict, SharedOK
<1>5. Accounted' /\ NothingLost
  <2>1. batch[t] \subseteq Known'
    BY <1>1, KnownNext
  <2> QED
    BY <1>2, <1>3, <2>1, BatchAccounted DEF AccountInv, Evict
<1> QED
  BY <1>4, <1>5 DEF AccountInv

LEMMA WriteAccounts ==
  ASSUME TypeOK, AccountInv, NEW t \in Threads, WriteFile(t)
  PROVE  AccountInv' /\ NothingLost
<1> DEFINE new == [id |-> nextId, events |-> batch[t]]
<1>0. SharedOK /\ LocalsOK /\ "refused" \in Reasons
  BY TypeSplit DEF Reasons
<1>1. Others(t) /\ StageOK(t)' /\ ReplayOK(t)' /\ file'[t] = 0
  BY <1>0, ReturnIsIdle DEF ReplayOK, WriteFile
<1>2. /\ GivenUp \subseteq GivenUp' /\ batch[t] \subseteq Known'
      /\ spool \subseteq spool' /\ nextId' \in Nat /\ nextId <= nextId'
      /\ \A f \in spool' : f \in spool \/ (f.id = nextId /\ nextId < nextId')
  <2>1. CASE spool' = spool \cup {new} /\ nextId' = nextId + 1 /\ UNCHANGED dropped
    <3>1. new \in spool' /\ new.events = batch[t] /\ new.id = nextId
      BY <2>1
    <3>2. batch[t] \subseteq Known'
      BY <3>1, KnownNext
    <3> QED
      BY <1>0, <2>1, <3>1, <3>2 DEF SharedOK, GivenUp
  <2>2. CASE Drop("refused", batch[t]) /\ UNCHANGED <<spool, nextId>>
    BY <1>0, <2>2, DropGives, KnownNext DEF SharedOK
  <2> QED
    BY <2>1, <2>2 DEF WriteFile
<1>3. file'[t] < nextId' /\ nextId' \in Nat
  BY <1>0, <1>1, <1>2 DEF SharedOK
<1>4. StageInv' /\ MainInv' /\ NamesInv' /\ ReplayInv'
  BY <1>0, <1>1, <1>2, <1>3, ControlKept DEF WriteFile
<1>5. Accounted' /\ NothingLost
  BY <1>1, <1>2, BatchAccounted DEF AccountInv, WriteFile
<1> QED
  BY <1>4, <1>5 DEF AccountInv

LEMMA CaptureAccounts ==
  ASSUME TypeOK, AccountInv, NEW t \in Tailers, Capture(t)
  PROVE  AccountInv' /\ NothingLost
<1>0. SharedOK /\ LocalsOK /\ t \in Threads /\ t # "main"
  BY TypeSplit, PipelineAssumption DEF Threads
<1>1. /\ UNCHANGED <<spool, nextId, phase, batch, file, ingested, GivenUp>>
      /\ \A u \in Threads \ {t} : pc'[u] = pc[u]
      /\ pc[t] = "run" /\ pc'[t] \in {"run", "flush"}
  BY <1>0 DEF Capture, server, GivenUp, LocalsOK, Goto
<1>2. StageInv'
  BY <1>1 DEF AccountInv, StageInv, StageOK, Idle
<1>3. MainInv'
  BY <1>0, <1>1 DEF AccountInv, MainInv, Threads
<1>4. NamesInv'
  BY <1>1 DEF AccountInv, NamesInv
<1>5. ReplayInv'
  BY <1>1 DEF AccountInv, ReplayInv, ReplayOK
<1>6. Accounted' /\ NothingLost
  <2>1. Captured' = Captured \cup {captured + 1}
    BY <1>0 DEF Captured, Capture, SharedOK
  <2>2. Known \subseteq Known' /\ buffer' \subseteq Known'
    BY <1>1, KnownNext DEF Known, Held, InMemory, Fresh, Capture
  <2>3. captured + 1 \in buffer'
    BY DEF Capture
  <2>4. Settled \subseteq Settled'
    BY <1>1 DEF Settled, EventsOf
  <2> QED
    BY <1>1, <2>1, <2>2, <2>3, <2>4 DEF AccountInv, Accounted, Known, NothingLost
<1> QED
  BY <1>2, <1>3, <1>4, <1>5, <1>6 DEF AccountInv

LEMMA DieAccounts ==
  ASSUME SharedOK, LocalsOK, AccountInv, NEW reason \in Reasons, Die(reason)
  PROVE  AccountInv' /\ NothingLost
<1>1. GivenUp \subseteq GivenUp' /\ InMemory \subseteq GivenUp'
  BY DropGives DEF Die, SharedOK
<1>2. /\ \A t \in Threads : pc'[t] = "run" /\ batch'[t] = {} /\ file'[t] = 0
      /\ UNCHANGED <<captured, spool, nextId, ingested>>
  BY DEF Die
<1>3. StageInv' /\ MainInv' /\ NamesInv' /\ ReplayInv'
  BY <1>2 DEF AccountInv, StageInv, StageOK, Idle, MainInv, NamesInv,
              ReplayInv, ReplayOK, Threads, SharedOK
<1>4. Accounted' /\ NothingLost
  <2>1. Known \subseteq Known' /\ Settled \subseteq Settled'
    BY <1>1, <1>2 DEF Known, Held, Settled, EventsOf
  <2> QED
    BY <1>1, <1>2, <2>1, StillAccounted DEF AccountInv, NothingLost
<1> QED
  BY <1>3, <1>4 DEF AccountInv

LEMMA LifecycleAccounts ==
  ASSUME TypeOK, AccountInv,
         \/ TimerExpires \/ StartThreads \/ RequestStop \/ FinalFlush
         \/ Exit \/ RunRaises \/ Crash \/ Garble \/ Restart
  PROVE  AccountInv' /\ NothingLost
<1>0. SharedOK /\ LocalsOK /\ {"exit", "crash"} \subseteq Reasons
      /\ {"main", "timer"} \subseteq Threads
  BY TypeSplit DEF Reasons, Threads
<1>1. CASE Exit \/ RunRaises \/ Crash
  BY <1>0, <1>1, DieAccounts DEF Exit, RunRaises, Crash
<1>2. CASE \/ TimerExpires \/ StartThreads \/ RequestStop \/ FinalFlush
           \/ Garble \/ Restart
  <2>1. UNCHANGED <<captured, buffer, spool, nextId, batch, file, ingested, dropped>>
    BY <1>2 DEF TimerExpires, StartThreads, RequestStop, FinalFlush, Garble,
                Restart, locals, server
  <2>2. Accounted' /\ NothingLost
    <3>1. UNCHANGED <<Known, Settled, GivenUp>>
      BY <2>1 DEF Known, Held, InMemory, Fresh, EventsOf, GivenUp, Settled
    <3> QED
      BY <2>1, <3>1, StillAccounted DEF AccountInv, NothingLost
  <2>3. NamesInv'
    BY <2>1 DEF AccountInv, NamesInv
  <2>4. \A t \in Threads : \/ pc'[t] = pc[t]
                           \/ pc[t] = "run" /\ pc'[t] \in {"flush", "pick"}
    <3>1. CASE TimerExpires
      BY <1>0, <3>1 DEF TimerExpires, Goto, LocalsOK
    <3>2. CASE StartThreads \/ RequestStop \/ Garble
      BY <3>2 DEF StartThreads, RequestStop, Garble, locals
    <3>3. CASE FinalFlush \/ Restart
      <4>1. pc["main"] = "run"
        BY <3>3 DEF FinalFlush, Restart, AccountInv, MainInv
      <4>2. Goto("main", "flush") \/ Goto("main", "pick")
        BY <3>3 DEF FinalFlush, Restart
      <4> QED
        BY <1>0, <4>1, <4>2 DEF Goto, LocalsOK
    <3> QED
      BY <1>2, <3>1, <3>2, <3>3
  <2>7. MainInv'
    <3>1. CASE TimerExpires
      BY <1>0, <3>1 DEF TimerExpires, Goto, LocalsOK, AccountInv, MainInv
    <3>2. CASE StartThreads \/ RequestStop \/ Garble
      BY <3>2 DEF StartThreads, RequestStop, Garble, locals, AccountInv, MainInv
    <3>3. CASE FinalFlush \/ Restart
      BY <3>3 DEF FinalFlush, Restart, MainInv
    <3> QED
      BY <1>2, <3>1, <3>2, <3>3
  <2>5. StageInv'
    BY <2>1, <2>4 DEF AccountInv, StageInv, StageOK, Idle
  <2>6. ReplayInv'
    BY <2>1, <2>4 DEF AccountInv, ReplayInv, ReplayOK, GivenUp
  <2> QED
    BY <2>2, <2>3, <2>5, <2>6, <2>7 DEF AccountInv
<1> QED
  BY <1>1, <1>2

LEMMA InitAccounts == Init => AccountInv
<1> SUFFICES ASSUME Init PROVE AccountInv
  OBVIOUS
<1>1. Captured = {}
  BY DEF Init, Captured
<1> QED
  BY <1>1 DEF Init, AccountInv, StageInv, StageOK, Idle, MainInv, NamesInv,
              ReplayInv, ReplayOK, Accounted

LEMMA StepAccounts ==
  TypeOK /\ AccountInv /\ [Next]_vars => AccountInv' /\ NothingLost
<1> SUFFICES ASSUME TypeOK, AccountInv, [Next]_vars
             PROVE  AccountInv' /\ NothingLost
  OBVIOUS
<1>1. CASE \E t \in Tailers : Capture(t)
  BY <1>1, CaptureAccounts
<1>2. CASE \E t \in Threads : ThreadStep(t)
  BY <1>2, FlushAccounts, AcceptedAccounts, RejectedAccounts, UnansweredAccounts,
     PickAccounts, ReadAccounts, RaiseAccounts, RemoveAccounts, ListAccounts,
     SumAccounts, EvictAccounts, WriteAccounts DEF ThreadStep, Send
<1>3. CASE \/ TimerExpires \/ StartThreads \/ RequestStop \/ FinalFlush
           \/ Exit \/ RunRaises \/ Crash \/ Garble \/ Restart
  BY <1>3, LifecycleAccounts
<1>4. CASE UNCHANGED vars
  BY <1>4 DEF vars, locals, server, AccountInv, StageInv, StageOK, Idle, MainInv,
     NamesInv, ReplayInv, ReplayOK, Accounted, Captured, Held, InMemory, Fresh,
     EventsOf, GivenUp, NothingLost, Known, Settled
<1> QED
  BY <1>1, <1>2, <1>3, <1>4 DEF Next

(* No interleaving of flushes, sends, replays, evictions, stops and crashes *)
(* makes a captured line disappear without one of the reasons the code     *)
(* gives for losing it.                                                    *)
THEOREM AccountedHolds == Spec => []Accounted
<1>1. AccountInv => Accounted
  BY DEF AccountInv
<1> QED
  BY <1>1, TypeCorrect, InitAccounts, StepAccounts, PTL DEF Spec
-----------------------------------------------------------------------------
(* The refinement of Delivery.  Nothing may enter the queue but a new line, *)
(* and nothing may leave it unless it was accepted or given up.  The second *)
(* needs to know what becomes of the events that a replay has read when     *)
(* another thread removes its file.                                         *)

ReplaySettled ==
    \A t \in Threads : file[t] # 0 => batch[t] \subseteq Settled

(* Where a step of thread t may take events from, and where to.            *)
Moves(t) ==
    /\ Others(t) /\ UNCHANGED captured
    /\ buffer' \subseteq buffer
    /\ batch'[t] \subseteq batch[t] \cup buffer \cup EventsOf(spool)
    /\ EventsOf(spool') \subseteq EventsOf(spool) \cup batch[t]
    /\ ingested' \subseteq ingested \cup batch[t]
    /\ GivenUp' \subseteq GivenUp \cup batch[t] \cup EventsOf(spool)
    /\ file'[t] # 0 => \/ batch'[t] \subseteq EventsOf(spool)
                       \/ file[t] # 0 /\ batch'[t] = batch[t]

LEMMA DropGivesOnly ==
  ASSUME dropped \in [Reasons -> SUBSET Events],
         NEW reason, NEW events, Drop(reason, events)
  PROVE  GivenUp' \subseteq GivenUp \cup events
<1>1. \A r \in Reasons : dropped'[r] \subseteq dropped[r] \cup events
  BY DEF Drop
<1> QED
  BY <1>1 DEF GivenUp

LEMMA FewerFiles ==
  ASSUME NEW files, NEW more, files \subseteq more
  PROVE  EventsOf(files) \subseteq EventsOf(more)
BY DEF EventsOf

LEMMA FlushMoves ==
  ASSUME TypeOK, NEW t \in Threads, Flush(t), AccountInv
  PROVE  Moves(t)
<1>0. LocalsOK /\ file[t] = 0
  BY TypeSplit DEF AccountInv, StageInv, StageOK, Idle, Flush
<1>1. Others(t) /\ UNCHANGED <<captured, spool, ingested, GivenUp>>
  BY <1>0 DEF LocalsOK, Others, Flush, Goto, server, GivenUp
<1>2. buffer' \subseteq buffer /\ batch'[t] \subseteq batch[t] \cup buffer /\ file'[t] = 0
  BY <1>0 DEF LocalsOK, Flush
<1> QED
  BY <1>1, <1>2 DEF Moves

LEMMA LeaveMoves ==
  ASSUME SharedOK, LocalsOK, NEW t \in Threads, NEW where, Leave(t, where)
  PROVE  Others(t) /\ batch'[t] = {} /\ file'[t] = 0
BY DEF SharedOK, LocalsOK, Leave, Goto, Others

LEMMA ReturnMoves ==
  ASSUME SharedOK, LocalsOK, NEW t \in Threads, Return(t) \/ AfterReplay(t)
  PROVE  Others(t) /\ batch'[t] = {} /\ file'[t] = 0
BY LeaveMoves DEF Return, AfterReplay

LEMMA SendMoves ==
  ASSUME TypeOK, NEW t \in Threads, Send(t)
  PROVE  Moves(t)
<1>0. SharedOK /\ LocalsOK
  BY TypeSplit
<1>1. /\ UNCHANGED <<captured, buffer, spool>>
      /\ ingested' \subseteq ingested \cup batch[t]
  BY DEF Send, Accepted, Rejected, Unanswered
<1>2. GivenUp' \subseteq GivenUp \cup batch[t]
  <2>1. CASE UNCHANGED dropped
    BY <2>1 DEF GivenUp
  <2>2. CASE Drop("rejected", batch[t])
    BY <1>0, <2>2, DropGivesOnly DEF SharedOK
  <2> QED
    BY <2>1, <2>2 DEF Send, Accepted, Rejected, Unanswered
<1>3. /\ Others(t) /\ batch'[t] \subseteq batch[t]
      /\ file'[t] # 0 => file[t] # 0 /\ batch'[t] = batch[t]
  <2>1. CASE Return(t)
    BY <1>0, <2>1, ReturnMoves
  <2>2. CASE ~Return(t)
    BY <1>0, <2>2
    DEF Send, Accepted, Rejected, Unanswered, LocalsOK, Others, Goto, Fresh
  <2> QED
    BY <2>1, <2>2
<1> QED
  BY <1>1, <1>2, <1>3 DEF Moves

LEMMA ReplayMoves ==
  ASSUME TypeOK, AccountInv, NEW t \in Threads,
         PickOldest(t) \/ ReadFile(t) \/ ReadRaises(t) \/ RemoveFile(t)
  PROVE  Moves(t)
<1>0. SharedOK /\ LocalsOK
  BY TypeSplit
<1>1. EventsOf(Found(t)) \subseteq EventsOf(spool)
  BY FewerFiles DEF Found
<1>2. /\ UNCHANGED <<captured, buffer, ingested>>
      /\ EventsOf(spool') \subseteq EventsOf(spool)
  <2>1. spool' \subseteq spool
    BY DEF PickOldest, ReadFile, ReadRaises, RemoveFile, Found
  <2> QED
    BY <2>1, FewerFiles DEF PickOldest, ReadFile, ReadRaises, RemoveFile, server
<1>3. GivenUp' \subseteq GivenUp \cup EventsOf(spool)
  <2>1. CASE UNCHANGED dropped
    BY <2>1 DEF GivenUp
  <2>2. CASE Drop("unreadable", EventsOf(Found(t)))
    BY <1>0, <1>1, <2>2, DropGivesOnly DEF SharedOK
  <2> QED
    BY <2>1, <2>2 DEF PickOldest, ReadFile, ReadRaises, RemoveFile, server
<1>4. Others(t) /\ batch'[t] \subseteq EventsOf(spool)
  <2>1. CASE Return(t) \/ AfterReplay(t)
    BY <1>0, <2>1, ReturnMoves
  <2>2. CASE PickOldest(t) /\ ~Return(t)
    <3>1. batch[t] = {}
      BY <2>2 DEF PickOldest, AccountInv, StageInv, StageOK, Idle
    <3> QED
      BY <1>0, <2>2, <3>1 DEF PickOldest, LocalsOK, Others, Goto
  <2>3. CASE ReadFile(t) /\ ~AfterReplay(t)
    BY <1>0, <1>1, <2>3 DEF ReadFile, LocalsOK, Others, Goto
  <2>4. CASE ReadRaises(t)
    BY <1>0, <2>4, LeaveMoves DEF ReadRaises
  <2> QED
    BY <2>1, <2>2, <2>3, <2>4 DEF RemoveFile
<1> QED
  BY <1>2, <1>3, <1>4 DEF Moves

LEMMA SpoolMoves ==
  ASSUME TypeOK, AccountInv, NEW t \in Threads,
         ListFiles(t) \/ SumSizes(t) \/ Evict(t) \/ WriteFile(t)
  PROVE  Moves(t)
<1>0. SharedOK /\ LocalsOK /\ file[t] = 0
  BY TypeSplit
  DEF AccountInv, StageInv, StageOK, ListFiles, SumSizes, Evict, WriteFile
<1>1. UNCHANGED <<captured, buffer, ingested>>
  BY DEF ListFiles, SumSizes, Evict, WriteFile, server
<1>2. EventsOf(spool') \subseteq EventsOf(spool) \cup batch[t]
  <2>1. CASE ListFiles(t) \/ SumSizes(t) \/ Evict(t)
    <3>1. spool' \subseteq spool
      BY <2>1 DEF ListFiles, SumSizes, Evict
    <3> QED
      BY <3>1, FewerFiles
  <2>2. CASE WriteFile(t)
    BY <2>2 DEF WriteFile, EventsOf
  <2> QED
    BY <2>1, <2>2
<1>3. GivenUp' \subseteq GivenUp \cup batch[t] \cup EventsOf(spool)
  <2>1. CASE UNCHANGED dropped
    BY <2>1 DEF GivenUp
  <2>2. CASE \E oldest \in spool : Drop("evicted", oldest.events)
    <3>1. PICK oldest \in spool : Drop("evicted", oldest.events)
      BY <2>2
    <3>2. oldest.events \subseteq EventsOf(spool)
      BY DEF EventsOf
    <3> QED
      BY <1>0, <3>1, <3>2, DropGivesOnly DEF SharedOK
  <2>3. CASE Drop("vanished", batch[t]) \/ Drop("refused", batch[t])
    BY <1>0, <2>3, DropGivesOnly DEF SharedOK
  <2> QED
    BY <2>1, <2>2, <2>3 DEF ListFiles, SumSizes, Evict, WriteFile, server
<1>4. Others(t) /\ batch'[t] \subseteq batch[t] /\ file'[t] = 0
  <2>1. CASE Return(t)
    BY <1>0, <2>1, ReturnMoves
  <2>2. CASE ~Return(t)
    BY <1>0, <2>2
    DEF ListFiles, SumSizes, Evict, WriteFile, LocalsOK, Others, Goto
  <2> QED
    BY <2>1, <2>2
<1> QED
  BY <1>1, <1>2, <1>3, <1>4 DEF Moves

LEMMA ThreadMoves ==
  ASSUME TypeOK, AccountInv, NEW t \in Threads, ThreadStep(t)
  PROVE  Moves(t)
BY FlushMoves, SendMoves, ReplayMoves, SpoolMoves DEF ThreadStep

LEMMA StepSettled ==
  TypeOK /\ AccountInv /\ ReplaySettled /\ [Next]_vars => ReplaySettled'
<1> SUFFICES ASSUME TypeOK, AccountInv, ReplaySettled, [Next]_vars
             PROVE  ReplaySettled'
  OBVIOUS
<1>0. Settled \subseteq Settled'
  BY StepAccounts DEF NothingLost
<1>1. CASE \E t \in Threads : ThreadStep(t)
  <2>1. PICK t \in Threads : ThreadStep(t)
    BY <1>1
  <2>2. Moves(t)
    BY <2>1, ThreadMoves
  <2>3. ASSUME NEW u \in Threads, file'[u] # 0 PROVE batch'[u] \subseteq Settled
    BY <2>2, <2>3 DEF Moves, Others, ReplaySettled, Settled
  <2> QED
    BY <1>0, <2>3 DEF ReplaySettled
<1>2. CASE Exit \/ RunRaises \/ Crash
  BY <1>2 DEF Exit, RunRaises, Crash, Die, ReplaySettled
<1>3. CASE UNCHANGED <<batch, file>>
  BY <1>0, <1>3 DEF ReplaySettled
<1> QED
  BY <1>1, <1>2, <1>3
  DEF Next, Capture, TimerExpires, StartThreads, RequestStop, FinalFlush, Garble,
      Restart, locals, vars

(* Steps that neither add to what is held nor lose any of it.              *)
LEMMA Advances ==
  ASSUME UNCHANGED captured,
         Everywhere' \subseteq Everywhere,
         Everywhere \subseteq Everywhere' \cup ingested' \cup GivenUp',
         ingested \subseteq ingested', ingested' \subseteq ingested \cup Everywhere,
         GivenUp \subseteq GivenUp', GivenUp' \subseteq GivenUp \cup Everywhere
  PROVE  Queue!Next
<1> DEFINE taken == ingested' \ ingested
           given == GivenUp' \ GivenUp
           gone  == Everywhere \ Everywhere'
<1>1. taken \in SUBSET Everywhere /\ given \in SUBSET Everywhere
      /\ gone \in SUBSET Everywhere
  OBVIOUS
<1>2. /\ ingested' = ingested \cup taken
      /\ GivenUp' = GivenUp \cup given
      /\ gone \subseteq ingested' \cup GivenUp'
      /\ Everywhere' = Everywhere \ gone
      /\ Captured' = Captured
  BY DEF Captured
<1>3. Queue!Advance(taken, given, gone)
  BY <1>2 DEF Queue!Advance
<1> QED
  BY <1>1, <1>3 DEF Queue!Next

(* A replay holds nothing that is not known without it.                   *)
LEMMA EverywhereKnown ==
  /\ ReplaySettled => Everywhere \subseteq Known
  /\ Known' \subseteq Everywhere' \cup ingested' \cup GivenUp'
<1>1. ReplaySettled => Everywhere \subseteq Known
  BY DEF ReplaySettled, Known, Held, InMemory, Fresh, Everywhere, Settled
<1>2. Known' \subseteq Everywhere' \cup ingested' \cup GivenUp'
  BY DEF Known, Held, InMemory, Fresh, Everywhere
<1> QED
  BY <1>1, <1>2

LEMMA InitRefines == Init => Queue!Init /\ ReplaySettled
<1> SUFFICES ASSUME Init PROVE Queue!Init /\ ReplaySettled
  OBVIOUS
<1>1. Captured = {} /\ GivenUp = {} /\ Everywhere = {}
  BY DEF Init, Captured, GivenUp, Everywhere, EventsOf
<1> QED
  BY <1>1 DEF Init, Queue!Init, ReplaySettled

LEMMA CaptureRefines ==
  ASSUME TypeOK, NEW t \in Tailers, Capture(t)
  PROVE  Queue!Next
<1>1. captured + 1 \in Events \ Captured
      /\ Captured' = Captured \cup {captured + 1}
  BY Bounds DEF TypeOK, Capture, Events, Captured
<1>2. /\ Everywhere' = Everywhere \cup {captured + 1}
      /\ UNCHANGED <<ingested, GivenUp>>
  BY DEF Capture, Everywhere, EventsOf, server, GivenUp
<1>3. Queue!Offer(captured + 1)
  BY <1>1, <1>2 DEF Queue!Offer
<1> QED
  BY <1>1, <1>3 DEF Queue!Next

LEMMA DieRefines ==
  ASSUME TypeOK, ReplaySettled, NothingLost, NEW reason \in Reasons, Die(reason)
  PROVE  Queue!Next
<1>1. Everywhere' \subseteq Everywhere /\ UNCHANGED <<captured, ingested>>
  BY DEF Die, Everywhere
<1>2. GivenUp' \subseteq GivenUp \cup Everywhere
  <2>1. InMemory \subseteq Everywhere
    BY DEF InMemory, Everywhere
  <2> QED
    BY <2>1, DropGivesOnly DEF Die, TypeOK
<1>3. Everywhere \subseteq Everywhere' \cup ingested' \cup GivenUp'
  BY EverywhereKnown DEF NothingLost
<1> QED
  BY <1>1, <1>2, <1>3, Advances DEF NothingLost

LEMMA ThreadRefines ==
  ASSUME ReplaySettled, NothingLost, NEW t \in Threads, Moves(t)
  PROVE  Queue!Next
<1>1. batch[t] \subseteq Everywhere
  BY DEF Everywhere
<1>2. Everywhere' \subseteq Everywhere
  <2>1. ASSUME NEW u \in Threads PROVE batch'[u] \subseteq Everywhere
    BY DEF Moves, Others, Everywhere
  <2> QED
    BY <1>1, <2>1 DEF Moves, Everywhere
<1>3. Everywhere \subseteq Everywhere' \cup ingested' \cup GivenUp'
  BY EverywhereKnown DEF NothingLost
<1>4. /\ ingested' \subseteq ingested \cup Everywhere
      /\ GivenUp' \subseteq GivenUp \cup Everywhere
  BY <1>1 DEF Moves, Everywhere
<1> QED
  BY <1>2, <1>3, <1>4, Advances DEF NothingLost, Moves

LEMMA StepRefines ==
  TypeOK /\ AccountInv /\ ReplaySettled /\ [Next]_vars => [Queue!Next]_(Queue!vars)
<1> SUFFICES ASSUME TypeOK, AccountInv, ReplaySettled, [Next]_vars
             PROVE  Queue!Next \/ UNCHANGED Queue!vars
  OBVIOUS
<1>0. NothingLost
  BY StepAccounts
<1>1. CASE \E t \in Tailers : Capture(t)
  BY <1>1, CaptureRefines
<1>2. CASE \E t \in Threads : ThreadStep(t)
  BY <1>0, <1>2, ThreadMoves, ThreadRefines
<1>3. CASE Exit \/ RunRaises \/ Crash
  <2>1. Die("exit") \/ Die("crash")
    BY <1>3 DEF Exit, RunRaises, Crash
  <2> QED
    BY <1>0, <2>1, DieRefines DEF Reasons
<1>4. CASE UNCHANGED <<captured, buffer, batch, spool, ingested, dropped>>
  BY <1>4 DEF Queue!vars, Captured, Everywhere, EventsOf, GivenUp
<1> QED
  BY <1>1, <1>2, <1>3, <1>4
  DEF Next, TimerExpires, StartThreads, RequestStop, FinalFlush, Garble, Restart,
      locals, server, vars

(* Whatever the threads do to the same batches and files, and wherever the *)
(* process stops or dies, the pipeline is the queue of Delivery: a line     *)
(* that has left never comes back, and none leaves unless it was accepted   *)
(* or given up.                                                            *)
THEOREM PipelineDelivers == Spec => ImplementsDelivery
BY TypeCorrect, InitAccounts, StepAccounts, InitRefines, StepSettled, StepRefines,
   PTL DEF Spec, ImplementsDelivery, Queue!Spec

-----------------------------------------------------------------------------
(* What bounds the disk spool when several threads evict and write to it   *)
(* at the same time, for every number of tailers and every limit.          *)

(* The size of a set of files.                                             *)

(* The events of the files, each with its file.                            *)
Entries(files) == {p \in files \X Events : p[2] \in p[1].events}

LEMMA EventsFinite == IsFiniteSet(Events)
BY Bounds, FS_Interval DEF Events

LEMMA EntriesFinite ==
  ASSUME NEW files, IsFiniteSet(files)
  PROVE  IsFiniteSet(Entries(files))
<1>1. IsFiniteSet(files \X Events)
  BY EventsFinite, FS_Product
<1>2. Entries(files) \in SUBSET (files \X Events)
  BY DEF Entries
<1> QED
  BY <1>1, <1>2, FS_Subset

LEMMA SizeIsNat ==
  ASSUME NEW files, IsFiniteSet(files)
  PROVE  SizeOf(files) \in Nat
BY EntriesFinite, FS_CardinalityType DEF SizeOf, Entries

LEMMA SizeGrows ==
  ASSUME NEW files, IsFiniteSet(files), NEW fewer \in SUBSET files
  PROVE  SizeOf(fewer) <= SizeOf(files)
<1>1. Entries(fewer) \in SUBSET Entries(files)
  BY DEF Entries
<1>2. Cardinality(Entries(fewer)) <= Cardinality(Entries(files))
  BY <1>1, EntriesFinite, FS_Subset
<1> QED
  BY <1>2 DEF SizeOf, Entries

LEMMA SizeOfBoth ==
  ASSUME NEW some, IsFiniteSet(some), NEW more, IsFiniteSet(more)
  PROVE  SizeOf(some \cup more) <= SizeOf(some) + SizeOf(more)
<1> DEFINE A == Entries(some)
           B == Entries(more)
<1>1. Entries(some \cup more) = A \cup B
  BY DEF Entries
<1>2. IsFiniteSet(A) /\ IsFiniteSet(B)
  BY EntriesFinite
<1>3. IsFiniteSet(A \cap B)
  BY <1>2, FS_Intersection
<1>4. /\ Cardinality(A) \in Nat /\ Cardinality(B) \in Nat
      /\ Cardinality(A \cap B) \in Nat
  BY <1>2, <1>3, FS_CardinalityType
<1>5. Cardinality(A \cup B)
        = Cardinality(A) + Cardinality(B) - Cardinality(A \cap B)
  BY <1>2, FS_Union
<1>6. /\ SizeOf(some \cup more) = Cardinality(A \cup B)
      /\ SizeOf(some) = Cardinality(A) /\ SizeOf(more) = Cardinality(B)
  BY <1>1 DEF SizeOf, Entries
<1> HIDE DEF A, B
<1> QED
  BY <1>4, <1>5, <1>6

LEMMA SizeOfNone == SizeOf({}) = 0
<1>1. Entries({}) = {}
  BY DEF Entries
<1> QED
  BY <1>1, FS_EmptySet DEF SizeOf, Entries

(* Files of at most "each" events: numbering the events of every file maps *)
(* the entries into a rectangle.                                           *)
LEMMA SizeOfMany ==
  ASSUME NEW files \in SUBSET Files, IsFiniteSet(files), NEW each \in Nat,
         \A f \in files : Cardinality(f.events) <= each
  PROVE  SizeOf(files) <= Cardinality(files) * each
<1> DEFINE Numberings(f) == Injection(f.events, 1..each)
           number == [f \in files |-> CHOOSE g \in Numberings(f) : TRUE]
           place == [p \in Entries(files) |-> <<p[1], number[p[1]][p[2]]>>]
<1>1. ASSUME NEW f \in files PROVE number[f] \in Numberings(f)
  <2>1. IsFiniteSet(f.events)
    <3>1. f.events \in SUBSET Events
      BY DEF Files
    <3> QED
      BY <3>1, EventsFinite, FS_Subset
  <2> DEFINE n == Cardinality(f.events)
  <2>2. n \in Nat /\ n <= each /\ ExistsBijection(1..n, f.events)
    BY <2>1, FS_CardinalityType
  <2>3. PICK b \in Bijection(f.events, 1..n) : TRUE
    BY <2>2, Fun_ExistsBijSymmetric DEF ExistsBijection
  <2>4. 1..n \subseteq 1..each
    BY <2>2
  <2>5. b \in Numberings(f)
    BY <2>3, <2>4 DEF Bijection, Injection, Surjection, IsInjective
  <2> QED
    BY <2>5
<1>2. place \in Injection(Entries(files), files \X (1..each))
  <2>1. ASSUME NEW p \in Entries(files)
        PROVE  /\ p = <<p[1], p[2]>> /\ p[1] \in files /\ p[2] \in p[1].events
               /\ number[p[1]] \in Injection(p[1].events, 1..each)
    BY <1>1 DEF Entries
  <2> HIDE DEF number
  <2>2. ASSUME NEW p \in Entries(files)
        PROVE  place[p] \in files \X (1..each)
    BY <2>1 DEF Injection
  <2>3. ASSUME NEW p \in Entries(files), NEW q \in Entries(files),
               place[p] = place[q]
        PROVE  p = q
    <3>1. p[1] = q[1] /\ number[p[1]][p[2]] = number[p[1]][q[2]]
      BY <2>3
    <3>2. p[2] = q[2]
      BY <2>1, <3>1 DEF Injection, IsInjective
    <3> QED
      BY <2>1, <3>1, <3>2
  <2> HIDE DEF place
  <2>4. place \in [Entries(files) -> files \X (1..each)]
    BY <2>2 DEF place
  <2> QED
    BY <2>3, <2>4 DEF Injection, IsInjective
<1>3. /\ IsFiniteSet(1..each) /\ Cardinality(1..each) = each
  BY FS_Interval
<1>4. /\ IsFiniteSet(files \X (1..each))
      /\ Cardinality(files \X (1..each)) = Cardinality(files) * each
  BY <1>3, FS_Product
<1>5. Cardinality(Entries(files)) <= Cardinality(files \X (1..each))
  BY <1>2, <1>4, FS_Injection
<1> QED
  BY <1>4, <1>5 DEF SizeOf, Entries
-----------------------------------------------------------------------------
(* The eviction.                                                           *)

(* The spool holds finitely many files.                                    *)
Finite == IsFiniteSet(spool)

LEMMA InitFinite == Init => Finite
BY FS_EmptySet DEF Init, Finite

(* A file is added by a write, and by nothing else.                        *)
Written(t) == [id |-> nextId, events |-> batch[t]]

LEMMA SpoolNext ==
  ASSUME [Next]_vars
  PROVE  \/ spool' \subseteq spool /\ nextId' = nextId
         \/ \E t \in Threads : /\ WriteFile(t) /\ nextId' = nextId + 1
                              /\ spool' = spool \cup {Written(t)}
<1>1. CASE \E t \in Threads : WriteFile(t)
  BY <1>1 DEF WriteFile, Written
<1>2. CASE \E t \in Threads : ThreadStep(t) /\ ~ WriteFile(t)
  BY <1>2 DEF ThreadStep, Flush, Send, Accepted, Rejected, Unanswered, PickOldest,
              ReadFile, ReadRaises, RemoveFile, ListFiles, SumSizes, Evict
<1>3. CASE ~ \E t \in Threads : ThreadStep(t)
  BY <1>3 DEF Next, Capture, TimerExpires, StartThreads, RequestStop, FinalFlush,
              Exit, RunRaises, Crash, Die, Garble, Restart, vars
<1> QED
  BY <1>1, <1>2, <1>3

LEMMA StepFinite == Finite /\ [Next]_vars => Finite'
BY SpoolNext, FS_AddElement, FS_Subset DEF Finite

LEMMA BatchIsFinite ==
  ASSUME LocalsOK, NEW t \in Threads
  PROVE  IsFiniteSet(batch[t]) /\ Cardinality(batch[t]) \in Nat
<1>1. batch[t] \in SUBSET Events
  BY DEF LocalsOK
<1> QED
  BY <1>1, EventsFinite, FS_Subset, FS_CardinalityType

(* A file that holds an event makes the spool too large for a batch as     *)
(* large as the limit.                                                     *)
LEMMA AnythingIsTooMuch ==
  ASSUME NEW files \in SUBSET Files, IsFiniteSet(files), EventsOf(files) # {}
  PROVE  SizeOf(files) > 0
<1>1. PICK f \in files, e \in Events : e \in f.events
  BY DEF EventsOf, Files
<1>2. <<f, e>> \in Entries(files)
  BY <1>1 DEF Entries
<1>3. Cardinality(Entries(files)) # 0 /\ SizeOf(files) \in Nat
  BY <1>2, EntriesFinite, FS_EmptySet, SizeIsNat
<1> QED
  BY <1>3 DEF SizeOf, Entries

LEMMA EvictsOnlyWhenFull ==
  ASSUME TypeOK, Finite, NEW t \in Threads, Evict(t),
         dropped'["evicted"] # dropped["evicted"]
  PROVE  \/ SizeOf(spool) + Cardinality(batch[t]) > MaxSpool
         \/ ~(counted[t] \subseteq spool)
<1> DEFINE size == Cardinality(batch[t])
<1>0. SharedOK /\ LocalsOK
  BY TypeSplit
<1>1. /\ size \in Nat /\ SizeOf(spool) \in Nat /\ spool \in SUBSET Files
  BY <1>0, BatchIsFinite, SizeIsNat DEF Finite, SharedOK
<1>2. CASE size >= MaxSpool
  <2>1. PICK oldest \in spool : Drop("evicted", oldest.events)
    BY DEF Evict
  <2>2. oldest.events # {}
    BY <1>0, <2>1 DEF Drop, SharedOK, Reasons
  <2>3. EventsOf(spool) # {}
    BY <2>2 DEF EventsOf
  <2>4. SizeOf(spool) > 0
    BY <1>1, <2>3, AnythingIsTooMuch DEF Finite
  <2>5. SizeOf(spool) + size > MaxSpool
    BY <1>1, <1>2, <2>4, Bounds
  <2> QED
    BY <2>5
<1>3. CASE ~ (size >= MaxSpool) /\ counted[t] \subseteq spool
  <2>1. SizeOf(counted[t]) + size > MaxSpool
    BY <1>3 DEF Evict, MustEvict
  <2>2. SizeOf(counted[t]) <= SizeOf(spool) /\ SizeOf(counted[t]) \in Nat
    BY <1>3, SizeGrows, SizeIsNat, FS_Subset DEF Finite
  <2> HIDE DEF size
  <2>3. SizeOf(spool) + size > MaxSpool
    BY <1>1, <2>1, <2>2, Bounds
  <2> QED
    BY <2>3 DEF size
<1> QED
  BY <1>2, <1>3

LEMMA OnlyEvictDropsEvicted ==
  ASSUME TypeOK, [Next]_vars, ~ \E t \in Threads : Evict(t)
  PROVE  dropped'["evicted"] = dropped["evicted"]
<1>1. dropped \in [Reasons -> SUBSET Events]
  BY DEF TypeOK
<1>2. ASSUME NEW reason, NEW events, reason # "evicted", Drop(reason, events)
      PROVE  dropped'["evicted"] = dropped["evicted"]
  BY <1>1, <1>2 DEF Drop, Reasons
<1>3. CASE \E t \in Threads : ThreadStep(t)
  BY <1>2, <1>3 DEF ThreadStep, Flush, Send, Accepted, Rejected, Unanswered,
     PickOldest, ReadFile, ReadRaises, RemoveFile, ListFiles, SumSizes, WriteFile,
     server
<1>4. CASE Exit \/ RunRaises \/ Crash
  BY <1>2, <1>4 DEF Exit, RunRaises, Crash, Die
<1>5. CASE ~ (Exit \/ RunRaises \/ Crash) /\ ~ \E t \in Threads : ThreadStep(t)
  BY <1>5 DEF Next, Capture, TimerExpires, StartThreads, RequestStop, FinalFlush,
              Garble, Restart, server, vars
<1> QED
  BY <1>3, <1>4, <1>5

(* A file is evicted only when it and the others leave no room for the     *)
(* batch to write, unless the thread counts a file that another one has    *)
(* removed, whatever is written, replayed or evicted between the listing   *)
(* and the last removal (_evict_until_fits).                               *)
THEOREM EvictedOnlyWhenFullHolds == Spec => EvictedOnlyWhenFull
<1>1. TypeOK /\ Finite /\ [Next]_vars
      => (dropped'["evicted"] # dropped["evicted"] =>
            \E t \in Threads :
               /\ pc[t] = "evict"
               /\ \/ SizeOf(spool) + Cardinality(batch[t]) > MaxSpool
                  \/ ~(counted[t] \subseteq spool))
  BY OnlyEvictDropsEvicted, EvictsOnlyWhenFull DEF Evict
<1>2. Spec => []Finite
  BY InitFinite, StepFinite, PTL DEF Spec
<1> QED
  BY <1>1, <1>2, TypeCorrect, PTL DEF Spec, EvictedOnlyWhenFull
-----------------------------------------------------------------------------
(* How large batches get, and what the threads have listed and counted.    *)

(* The tailers that have seen a full buffer and not flushed it yet.        *)
Flushing == {t \in Tailers : pc[t] = "flush"}

(* A batch outgrows the buffer only by the lines of the tailers that see   *)
(* it full before one of them flushes.                                     *)
SizesInv ==
    /\ Cardinality(buffer) <= MaxBuffer - 1 + Cardinality(Flushing)
    /\ \A t \in Threads :
          file[t] = 0 => Cardinality(batch[t]) <= LargestBatch
    /\ \A f \in spool : Cardinality(f.events) <= LargestBatch

(* What was listed is not a file still to be written.                      *)
ListingInv ==
    \A t \in Threads :
       /\ \A f \in listed[t] : f.id < nextId
       /\ IsFiniteSet(listed[t]) /\ IsFiniteSet(counted[t])

(* A thread that evicts counts every file of its listing that is there.    *)
SumOK(t) ==
    pc[t] = "evict" /\ ~(Cardinality(batch[t]) >= MaxSpool)
       => listed[t] \cap spool \subseteq counted[t]
SumInv == \A t \in Threads : SumOK(t)

LoadInv == SizesInv /\ ListingInv /\ SumInv

LEMMA ThreadsFinite ==
  /\ IsFiniteSet(Threads) /\ IsFiniteSet(Tailers)
  /\ Cardinality(Tailers) \in Nat /\ Cardinality(Threads) \in Nat \ {0}
<1>1. IsFiniteSet(Tailers) /\ Threads = (Tailers \cup {"timer"}) \cup {"main"}
  BY PipelineAssumption DEF Threads
<1>2. IsFiniteSet(Threads) /\ Threads # {}
  BY <1>1, FS_AddElement
<1> QED
  BY <1>1, <1>2, FS_CardinalityType, FS_EmptySet

LEMMA SomeThreads ==
  ASSUME NEW some \in SUBSET Threads
  PROVE  IsFiniteSet(some) /\ Cardinality(some) \in Nat
BY ThreadsFinite, FS_Subset, FS_CardinalityType

LEMMA FlushingBounded ==
  /\ Cardinality(Flushing) \in Nat /\ Cardinality(Flushing') \in Nat
  /\ IsFiniteSet(Flushing) /\ Cardinality(Flushing) <= Cardinality(Tailers)
<1>1. Flushing \in SUBSET Tailers /\ Flushing' \in SUBSET Tailers
      /\ Tailers \in SUBSET Threads
  BY DEF Flushing, Threads
<1> QED
  BY <1>1, SomeThreads, ThreadsFinite, FS_Subset

LEMMA LargestBatchIsNat == LargestBatch \in Nat /\ MaxBuffer - 1 \in Nat
BY PipelineAssumption, ThreadsFinite DEF LargestBatch

LEMMA InitLoad == Init => LoadInv
<1> SUFFICES ASSUME Init PROVE LoadInv
  OBVIOUS
<1>1. SizesInv
  BY LargestBatchIsNat, FlushingBounded, FS_EmptySet DEF Init, SizesInv
<1>2. ListingInv /\ SumInv
  BY FS_EmptySet DEF Init, ListingInv, SumInv, SumOK
<1> QED
  BY <1>1, <1>2 DEF LoadInv

LEMMA BufferIsFinite ==
  ASSUME SharedOK
  PROVE  IsFiniteSet(buffer) /\ Cardinality(buffer) \in Nat
<1>1. buffer \in SUBSET Events
  BY DEF SharedOK
<1> QED
  BY <1>1, EventsFinite, FS_Subset, FS_CardinalityType

LEMMA CaptureLoad ==
  ASSUME TypeOK, AccountInv, LoadInv, NEW t \in Tailers, Capture(t)
  PROVE  LoadInv'
<1>0. SharedOK /\ LocalsOK /\ t \in Threads
  BY TypeSplit DEF Threads
<1>1. UNCHANGED <<spool, batch, file, listed, counted, nextId>>
  BY DEF Capture, eviction
<1>2. ListingInv' /\ SumInv'
  <2>1. \A u \in Threads : pc'[u] = pc[u] \/ pc'[u] \in {"run", "flush"}
    BY <1>0 DEF Capture, Goto, LocalsOK
  <2>2. SumInv'
    BY <1>1, <2>1 DEF LoadInv, SumInv, SumOK
  <2> QED
    BY <1>1, <2>2 DEF LoadInv, ListingInv
<1>3. Cardinality(buffer') <= MaxBuffer - 1 + Cardinality(Flushing')
  <2>1. /\ Cardinality(buffer') <= Cardinality(buffer) + 1
        /\ Cardinality(buffer) \in Nat /\ Cardinality(buffer') \in Nat
    <3>1. IsFiniteSet(buffer) /\ Cardinality(buffer) \in Nat
      BY <1>0, BufferIsFinite
    <3>2. buffer' = buffer \cup {captured + 1}
      BY DEF Capture
    <3> QED
      BY <3>1, <3>2, FS_AddElement
  <2>2. /\ Cardinality(Flushing) \in Nat /\ Cardinality(Flushing') \in Nat
        /\ IsFiniteSet(Flushing)
    BY FlushingBounded
  <2>3. Cardinality(buffer) <= MaxBuffer - 1 + Cardinality(Flushing)
    BY DEF LoadInv, SizesInv
  <2>4. CASE Cardinality(buffer') >= MaxBuffer
    <3>1. Flushing' = Flushing \cup {t} /\ t \notin Flushing
      BY <1>0, <2>4 DEF Capture, Goto, LocalsOK, Flushing
    <3>2. Cardinality(Flushing') = Cardinality(Flushing) + 1
      BY <2>2, <3>1, FS_AddElement
    <3> QED
      BY <2>1, <2>2, <2>3, <3>2, LargestBatchIsNat
  <2>5. CASE ~ (Cardinality(buffer') >= MaxBuffer)
    BY <2>1, <2>2, <2>5, Bounds
  <2> QED
    BY <2>4, <2>5
<1>4. SizesInv'
  BY <1>1, <1>3 DEF LoadInv, SizesInv, LargestBatch
<1> QED
  BY <1>2, <1>4 DEF LoadInv

(* The locals of the threads other than t, their listings included.        *)
Rest(t) ==
    /\ Others(t)
    /\ \A u \in Threads \ {t} : listed'[u] = listed[u] /\ counted'[u] = counted[u]

LEMMA FlushLoad ==
  ASSUME TypeOK, AccountInv, LoadInv, NEW t \in Threads, Flush(t)
  PROVE  LoadInv'
<1>0. SharedOK /\ LocalsOK /\ Idle(t)
  BY TypeSplit DEF AccountInv, StageInv, StageOK, Flush
<1>1. UNCHANGED <<spool, file, listed, counted, nextId>>
  BY DEF Flush, eviction
<1>2. ListingInv' /\ SumInv'
  <2>1. \A u \in Threads : \/ pc'[u] = pc[u] /\ batch'[u] = batch[u]
                           \/ pc'[u] \in {"run", "send"}
    BY <1>0 DEF Flush, Goto, LocalsOK
  <2>2. SumInv'
    BY <1>1, <2>1 DEF LoadInv, SumInv, SumOK
  <2> QED
    BY <1>1, <2>2 DEF LoadInv, ListingInv
<1>3. Cardinality(buffer) <= LargestBatch
  <2>1. Cardinality(buffer) <= MaxBuffer - 1 + Cardinality(Flushing)
    BY DEF LoadInv, SizesInv
  <2> QED
    BY <1>0, <2>1, BufferIsFinite, FlushingBounded, LargestBatchIsNat,
       ThreadsFinite DEF LargestBatch
<1>4. \A u \in Threads : file'[u] = 0 => Cardinality(batch'[u]) <= LargestBatch
  <2>1. \A u \in Threads : batch'[u] = batch[u] \/ batch'[u] = buffer
    BY <1>0 DEF Flush, LocalsOK
  <2> QED
    BY <1>1, <1>3, <2>1 DEF LoadInv, SizesInv
<1>5. Cardinality(buffer') <= MaxBuffer - 1 + Cardinality(Flushing')
  <2>1. Cardinality(buffer') = 0
    BY FS_EmptySet DEF Flush
  <2> QED
    BY <2>1, LargestBatchIsNat, FlushingBounded
<1>6. SizesInv'
  BY <1>1, <1>4, <1>5 DEF LoadInv, SizesInv, LargestBatch
<1> QED
  BY <1>2, <1>6 DEF LoadInv

(* What a step of thread t does to the load, unless it takes the buffer.   *)
Carries(t) ==
    /\ Rest(t)
    /\ file'[t] = 0 => \/ batch'[t] = {}
                       \/ file[t] = 0 /\ batch'[t] = batch[t]
    /\ buffer' = buffer
    /\ pc[t] # "flush" /\ pc'[t] # "flush"
    /\ listed'[t] \subseteq listed[t] \cup spool
    /\ counted'[t] \subseteq counted[t] \cup listed[t]
    /\ SumOK(t)'
    /\ \/ spool' \subseteq spool /\ nextId' = nextId
       \/ file[t] = 0 /\ spool' = spool \cup {Written(t)} /\ nextId' = nextId + 1

LEMMA LeaveCarries ==
  ASSUME LocalsOK, NEW t \in Threads,
         NEW where \in {"run", "pick", "dead"}, Leave(t, where)
  PROVE  /\ Rest(t) /\ batch'[t] = {} /\ SumOK(t)'
         /\ pc'[t] # "flush" /\ listed'[t] = {} /\ counted'[t] = {}
BY DEF LocalsOK, Leave, Goto, Rest, Others, SumOK

LEMMA ReturnCarries ==
  ASSUME LocalsOK, NEW t \in Threads, Return(t) \/ AfterReplay(t)
  PROVE  /\ Rest(t) /\ batch'[t] = {} /\ SumOK(t)'
         /\ pc'[t] # "flush" /\ listed'[t] = {} /\ counted'[t] = {}
<1>1. Leave(t, "run") \/ Leave(t, "pick")
  BY DEF Return, AfterReplay
<1> QED
  BY <1>1, LeaveCarries

LEMMA SendCarries ==
  ASSUME TypeOK, NEW t \in Threads, Send(t)
  PROVE  Carries(t)
<1>0. LocalsOK
  BY TypeSplit
<1>1. UNCHANGED <<buffer, spool, nextId>> /\ pc[t] = "send"
  BY DEF Send, Accepted, Rejected, Unanswered
<1>2. CASE Return(t)
  BY <1>0, <1>1, <1>2, ReturnCarries DEF Carries
<1>3. CASE ~Return(t)
  <2>1. /\ Rest(t) /\ UNCHANGED <<file, listed, counted>>
        /\ batch'[t] = {} \/ batch'[t] = batch[t]
        /\ pc'[t] \in {"send", "pick", "remove", "list"}
    BY <1>0, <1>1, <1>3
    DEF Send, Accepted, Rejected, Unanswered, LocalsOK, Rest, Others, Goto, eviction
  <2> QED
    BY <1>1, <2>1 DEF Carries, SumOK
<1> QED
  BY <1>2, <1>3

LEMMA ReplayCarries ==
  ASSUME TypeOK, AccountInv, NEW t \in Threads,
         PickOldest(t) \/ ReadFile(t) \/ ReadRaises(t) \/ RemoveFile(t)
  PROVE  Carries(t)
<1>0. LocalsOK /\ SharedOK /\ StageOK(t)
  BY TypeSplit DEF AccountInv, StageInv
<1>1. /\ UNCHANGED <<buffer, nextId>> /\ spool' \subseteq spool
      /\ pc[t] # "flush"
  BY DEF PickOldest, ReadFile, ReadRaises, RemoveFile
<1>2. CASE Return(t) \/ AfterReplay(t)
  BY <1>0, <1>1, <1>2, ReturnCarries DEF Carries
<1>3. CASE PickOldest(t) /\ ~Return(t)
  <2>1. PICK oldest \in spool : file' = [file EXCEPT ![t] = oldest.id]
    BY <1>3 DEF PickOldest
  <2>2. file'[t] # 0
    BY <1>0, <2>1 DEF SharedOK, Files, LocalsOK
  <2>3. /\ Rest(t) /\ UNCHANGED <<listed, counted>> /\ pc'[t] = "read"
    BY <1>0, <1>3, <2>1 DEF PickOldest, LocalsOK, Rest, Others, Goto, eviction
  <2> QED
    BY <1>1, <2>2, <2>3 DEF Carries, SumOK
<1>4. CASE ReadFile(t) /\ ~AfterReplay(t)
  <2>1. file[t] # 0
    BY <1>0, <1>4 DEF StageOK, ReadFile
  <2>2. /\ Rest(t) /\ UNCHANGED <<file, listed, counted>> /\ pc'[t] = "send"
    BY <1>0, <1>4 DEF ReadFile, LocalsOK, Rest, Others, Goto, eviction
  <2> QED
    BY <1>1, <2>1, <2>2 DEF Carries, SumOK
<1>5. CASE ReadRaises(t)
  BY <1>0, <1>1, <1>5, LeaveCarries DEF Carries, ReadRaises
<1> QED
  BY <1>2, <1>3, <1>4, <1>5 DEF RemoveFile

LEMMA SpoolCarries ==
  ASSUME TypeOK, AccountInv, LoadInv, NEW t \in Threads,
         ListFiles(t) \/ SumSizes(t) \/ Evict(t) \/ WriteFile(t)
  PROVE  Carries(t)
<1>0. LocalsOK /\ SharedOK /\ file[t] = 0 /\ SumOK(t)
  BY TypeSplit DEF AccountInv, StageInv, StageOK, LoadInv, SumInv,
                   ListFiles, SumSizes, Evict, WriteFile
<1>1. buffer' = buffer /\ pc[t] # "flush"
  BY DEF ListFiles, SumSizes, Evict, WriteFile
<1>2. CASE ListFiles(t)
  <2>1. Rest(t)
    BY <1>0, <1>2 DEF ListFiles, LocalsOK, Rest, Others, Goto
  <2>2. /\ UNCHANGED <<spool, nextId, batch, file, counted>>
        /\ listed'[t] \subseteq spool
    BY <1>0, <1>2 DEF ListFiles, LocalsOK
  <2>3. \/ pc'[t] = "sum"
        \/ pc'[t] = "evict" /\ Cardinality(batch[t]) >= MaxSpool
    BY <1>0, <1>2 DEF ListFiles, LocalsOK, Goto
  <2> QED
    BY <1>0, <1>1, <2>1, <2>2, <2>3 DEF Carries, SumOK
<1>3. CASE SumSizes(t)
  <2>1. UNCHANGED <<spool, nextId>>
    BY <1>3 DEF SumSizes
  <2>2. CASE Return(t)
    BY <1>0, <1>1, <2>1, <2>2, ReturnCarries DEF Carries
  <2>3. CASE ~Return(t)
    <3>1. PICK gone \in SUBSET (listed[t] \ spool) :
             counted' = [counted EXCEPT ![t] = (listed[t] \cap spool) \cup gone]
      BY <1>3, <2>3 DEF SumSizes
    <3>2. counted'[t] = (listed[t] \cap spool) \cup gone
      BY <1>0, <3>1 DEF LocalsOK
    <3>3. Rest(t) /\ UNCHANGED <<batch, file, listed>> /\ pc'[t] = "evict"
      BY <1>0, <1>3, <2>3, <3>1 DEF SumSizes, LocalsOK, Rest, Others, Goto
    <3> QED
      BY <1>0, <1>1, <2>1, <3>2, <3>3 DEF Carries, SumOK
  <2> QED
    BY <2>2, <2>3
<1>4. CASE Evict(t)
  <2>1. PICK oldest \in listed[t] :
           /\ listed' = [listed EXCEPT ![t] = @ \ {oldest}]
           /\ \/ counted' = counted
              \/ counted' = [counted EXCEPT ![t] = @ \ {oldest}]
    BY <1>4 DEF Evict
  <2>2. /\ spool' \subseteq spool
        /\ UNCHANGED <<nextId, batch, file, pc>>
    BY <1>4 DEF Evict
  <2>3. /\ listed'[t] = listed[t] \ {oldest}
        /\ counted'[t] = counted[t] \/ counted'[t] = counted[t] \ {oldest}
    BY <1>0, <2>1 DEF LocalsOK
  <2>4. SumOK(t)'
    BY <1>0, <2>2, <2>3 DEF SumOK
  <2>5. Rest(t)
    BY <1>0, <2>1, <2>2 DEF LocalsOK, Rest, Others
  <2> QED
    BY <1>0, <1>1, <2>2, <2>3, <2>4, <2>5 DEF Carries
<1>5. CASE WriteFile(t)
  <2>1. Return(t)
    BY <1>5 DEF WriteFile
  <2>2. \/ spool' \subseteq spool /\ nextId' = nextId
        \/ spool' = spool \cup {Written(t)} /\ nextId' = nextId + 1
    BY <1>5 DEF WriteFile, Written
  <2> QED
    BY <1>0, <1>1, <2>1, <2>2, ReturnCarries DEF Carries
<1> QED
  BY <1>2, <1>3, <1>4, <1>5

LEMMA ThreadCarries ==
  ASSUME TypeOK, AccountInv, LoadInv, NEW t \in Threads, ThreadStep(t), ~Flush(t)
  PROVE  Carries(t)
BY SendCarries, ReplayCarries, SpoolCarries DEF ThreadStep

LEMMA CarriesLoad ==
  ASSUME TypeOK, AccountInv, LoadInv, Finite, NEW t \in Threads, Carries(t)
  PROVE  LoadInv'
<1>0. SharedOK /\ LocalsOK
  BY TypeSplit
<1>1. SizesInv'
  <2>1. Flushing' = Flushing
    BY DEF Carries, Rest, Others, Flushing, Threads
  <2>2. \A f \in spool' : Cardinality(f.events) <= LargestBatch
    BY DEF LoadInv, SizesInv, Carries, Written
  <2>3. ASSUME NEW u \in Threads, file'[u] = 0
        PROVE  Cardinality(batch'[u]) <= LargestBatch
    <3>1. Cardinality({}) <= LargestBatch
      BY FS_EmptySet, LargestBatchIsNat
    <3>2. CASE batch'[u] = {}
      BY <3>1, <3>2
    <3>3. CASE batch'[u] # {}
      <4>1. file[u] = 0 /\ batch'[u] = batch[u]
        BY <2>3, <3>3 DEF Carries, Rest, Others
      <4> QED
        BY <4>1 DEF LoadInv, SizesInv
    <3> QED
      BY <3>2, <3>3
  <2> QED
    BY <2>1, <2>2, <2>3 DEF LoadInv, SizesInv, Carries, LargestBatch
<1>2. \A u \in Threads \ {t} : listed'[u] = listed[u] /\ counted'[u] = counted[u]
  BY DEF Carries, Rest
<1>3. ListingInv'
  <2>1. nextId \in Nat /\ nextId' \in Nat /\ nextId <= nextId'
    BY <1>0 DEF Carries, SharedOK
  <2>2. \A f \in spool : f.id < nextId /\ f.id \in Nat
    BY <1>0 DEF AccountInv, NamesInv, SharedOK, Files
  <2>3. \A u \in Threads : \A f \in listed[u] : f.id < nextId /\ f.id \in Nat
    BY <1>0 DEF LoadInv, ListingInv, LocalsOK, Files
  <2>4. \A u \in Threads : \A f \in listed'[u] : f.id < nextId'
    BY <1>2, <2>1, <2>2, <2>3 DEF Carries
  <2>5. IsFiniteSet(listed'[t]) /\ IsFiniteSet(counted'[t])
    <3>1. IsFiniteSet(listed[t]) /\ IsFiniteSet(counted[t])
      BY DEF LoadInv, ListingInv
    <3>2. IsFiniteSet(listed[t] \cup spool) /\ IsFiniteSet(counted[t] \cup listed[t])
      BY <3>1, FS_Union DEF Finite
    <3>3. listed'[t] \subseteq listed[t] \cup spool
          /\ counted'[t] \subseteq counted[t] \cup listed[t]
      BY DEF Carries
    <3> QED
      BY <3>2, <3>3, FS_Subset
  <2> QED
    BY <1>2, <2>4, <2>5 DEF LoadInv, ListingInv
<1>4. SumInv'
  <2>1. ASSUME NEW u \in Threads \ {t} PROVE SumOK(u)'
    <3>1. SumOK(u) /\ \A f \in listed[u] : f.id < nextId /\ f.id \in Nat
      BY <1>0 DEF LoadInv, SumInv, ListingInv, LocalsOK, Files
    <3>2. listed[u] \cap spool' \subseteq listed[u] \cap spool
      <4>1. Written(t) \notin listed[u]
        BY <1>0, <3>1 DEF Written, SharedOK
      <4> QED
        BY <4>1 DEF Carries
    <3>3. pc'[u] = pc[u] /\ batch'[u] = batch[u]
      BY DEF Carries, Rest, Others
    <3> QED
      BY <1>2, <3>1, <3>2, <3>3 DEF SumOK
  <2>2. SumOK(t)'
    BY DEF Carries
  <2> QED
    BY <2>1, <2>2 DEF SumInv
<1> QED
  BY <1>1, <1>3, <1>4 DEF LoadInv

LEMMA DieLoad ==
  ASSUME LoadInv, NEW reason, Die(reason)
  PROVE  LoadInv'
<1>1. SizesInv'
  BY LargestBatchIsNat, FlushingBounded, FS_EmptySet
  DEF Die, LoadInv, SizesInv, LargestBatch
<1>2. ListingInv' /\ SumInv'
  BY FS_EmptySet DEF Die, ListingInv, SumInv, SumOK
<1> QED
  BY <1>1, <1>2 DEF LoadInv

(* The timer, main, the disk and the life of the process.                  *)
Life ==
    \/ TimerExpires \/ StartThreads \/ RequestStop \/ FinalFlush \/ Garble
    \/ Restart \/ UNCHANGED vars

LEMMA LifeKeeps ==
  ASSUME TypeOK, Life
  PROVE  /\ UNCHANGED <<buffer, spool, nextId, batch, file, listed, counted>>
         /\ \A u \in Tailers : pc'[u] = pc[u]
         /\ \A u \in Threads : pc'[u] = pc[u] \/ pc'[u] \in {"flush", "pick"}
         /\ faults' \in Nat /\ faults <= faults'
<1>1. pc \in [Threads -> Stages] /\ "timer" \notin Tailers /\ "main" \notin Tailers
      /\ Tailers \subseteq Threads
  BY PipelineAssumption DEF TypeOK, Threads
<1>2. /\ UNCHANGED <<buffer, spool, nextId, batch, file, listed, counted>>
      /\ \A u \in Tailers : pc'[u] = pc[u]
      /\ \A u \in Threads : pc'[u] = pc[u] \/ pc'[u] \in {"flush", "pick"}
  BY <1>1 DEF Life, TimerExpires, StartThreads, RequestStop, FinalFlush, Garble,
              Restart, Goto, locals, eviction, vars
<1>3. faults \in Nat /\ (faults' = faults \/ faults' = faults + 1)
  BY Bounds DEF TypeOK, Life, TimerExpires, StartThreads, RequestStop, FinalFlush,
                Garble, Fault, Restart, mishaps, vars
<1> QED
  BY <1>2, <1>3

LEMMA LifeLoad ==
  ASSUME TypeOK, LoadInv, Life
  PROVE  LoadInv'
<1>1. /\ UNCHANGED <<buffer, spool, nextId, batch, file, listed, counted>>
      /\ \A u \in Tailers : pc'[u] = pc[u]
      /\ \A u \in Threads : pc'[u] = pc[u] \/ pc'[u] \in {"flush", "pick"}
  BY LifeKeeps
<1>2. Flushing' = Flushing
  BY <1>1 DEF Flushing
<1>3. SumInv'
  BY <1>1 DEF LoadInv, SumInv, SumOK
<1> QED
  BY <1>1, <1>2, <1>3 DEF LoadInv, SizesInv, ListingInv, LargestBatch

LEMMA StepLoad ==
  TypeOK /\ AccountInv /\ LoadInv /\ Finite /\ [Next]_vars => LoadInv'
<1> SUFFICES ASSUME TypeOK, AccountInv, LoadInv, Finite, [Next]_vars PROVE LoadInv'
  OBVIOUS
<1>1. CASE \E t \in Tailers : Capture(t)
  BY <1>1, CaptureLoad
<1>2. CASE \E t \in Threads : ThreadStep(t)
  BY <1>2, FlushLoad, ThreadCarries, CarriesLoad
<1>3. CASE Exit \/ RunRaises \/ Crash
  BY <1>3, DieLoad DEF Exit, RunRaises, Crash
<1>4. CASE Life
  BY <1>4, LifeLoad
<1> QED
  BY <1>1, <1>2, <1>3, <1>4 DEF Next, Life
-----------------------------------------------------------------------------
(* The room that is left.  A writer sums the files it has listed, evicts   *)
(* and writes; what the others write in between escapes its count.  The    *)
(* invariant ranks the writers by the time of their listing (0 if it has   *)
(* failed).  The last one to write, of rank last - 1, has made the files   *)
(* "seen" fit together with its own; what is in the spool besides was      *)
(* written, or will be, by a writer that listed before it, or is there     *)
(* because of an operation that has failed.  It takes the same of every    *)
(* writer that may be the last one to write, and of what it has listed.    *)
(* All this is said of values, so that it can be said of the next state.   *)

Writers == {t \in Threads : pc[t] \in {"sum", "evict"}}

Before(writers, rank, time) == {t \in writers : rank[t] < time}
Late(writers, rank, last) == {t \in writers : rank[t] >= last}

Fits(unseen, earlier, failures) ==
    Cardinality(unseen) + Cardinality(earlier) <= Cardinality(Threads) - 1 + failures

RoomFor(files, writers, lists, failures, rank, now, last, seen) ==
    /\ SizeOf(seen) <= MaxSpool
    /\ last <= now /\ \A t \in Threads : rank[t] < now
    /\ Fits(files \ seen, Before(writers, rank, last), failures)
    /\ \A t \in Late(writers, rank, last) :
          Fits(files \ lists[t], Before(writers, rank, rank[t]), failures)
    /\ \A t, u \in Late(writers, rank, last) : rank[t] = rank[u] => t = u

HasRoom(files, writers, lists, failures) ==
    \E rank \in [Threads -> Nat], now \in Nat, last \in Nat \ {0},
       seen \in SUBSET files :
          RoomFor(files, writers, lists, failures, rank, now, last, seen)

RoomInv == HasRoom(spool, Writers, listed, faults)
LimitInv == Finite /\ LoadInv /\ RoomInv

(* Fewer files unseen, fewer writers to come, more failures.               *)
LEMMA FitsFewer ==
  ASSUME NEW unseen, IsFiniteSet(unseen), NEW fewer \in SUBSET unseen,
         NEW earlier \in SUBSET Threads, NEW first \in SUBSET earlier,
         NEW failures \in Nat, NEW more \in Nat, failures <= more,
         Fits(unseen, earlier, failures)
  PROVE  Fits(fewer, first, more)
<1>1. /\ Cardinality(fewer) <= Cardinality(unseen)
      /\ Cardinality(fewer) \in Nat /\ Cardinality(unseen) \in Nat
  BY FS_Subset, FS_CardinalityType
<1>2. /\ Cardinality(first) <= Cardinality(earlier)
      /\ Cardinality(first) \in Nat /\ Cardinality(earlier) \in Nat
  BY SomeThreads, FS_Subset
<1> QED
  BY <1>1, <1>2, ThreadsFinite DEF Fits

(* One file more, one writer more, for one more failure.                   *)
LEMMA FitsFailure ==
  ASSUME NEW unseen, IsFiniteSet(unseen), NEW earlier \in SUBSET Threads,
         NEW failures \in Nat, Fits(unseen, earlier, failures)
  PROVE  /\ \A file1 : Fits(unseen \cup {file1}, earlier, failures + 1)
         /\ \A t \in Threads : Fits(unseen, earlier \cup {t}, failures + 1)
<1>1. Cardinality(unseen) \in Nat /\ Cardinality(earlier) \in Nat
      /\ IsFiniteSet(earlier)
  BY SomeThreads, FS_CardinalityType
<1>2. ASSUME NEW file1 PROVE Fits(unseen \cup {file1}, earlier, failures + 1)
  <2>1. Cardinality(unseen \cup {file1})
          \in {Cardinality(unseen), Cardinality(unseen) + 1}
    BY FS_AddElement
  <2> QED
    BY <1>1, <2>1, ThreadsFinite DEF Fits
<1>3. ASSUME NEW t \in Threads PROVE Fits(unseen, earlier \cup {t}, failures + 1)
  <2>1. Cardinality(earlier \cup {t})
          \in {Cardinality(earlier), Cardinality(earlier) + 1}
    BY <1>1, FS_AddElement
  <2> QED
    BY <1>1, <2>1, ThreadsFinite DEF Fits
<1> QED
  BY <1>2, <1>3

(* A writer that was to come has written.                                  *)
LEMMA FitsWritten ==
  ASSUME NEW unseen, IsFiniteSet(unseen), NEW earlier \in SUBSET Threads,
         NEW t \in earlier, NEW written,
         NEW failures \in Nat, Fits(unseen, earlier, failures)
  PROVE  Fits(unseen \cup {written}, earlier \ {t}, failures)
<1>1. Cardinality(unseen) \in Nat /\ Cardinality(earlier) \in Nat
      /\ IsFiniteSet(earlier)
  BY SomeThreads, FS_CardinalityType
<1>2. Cardinality(unseen \cup {written})
        \in {Cardinality(unseen), Cardinality(unseen) + 1}
  BY FS_AddElement
<1>3. Cardinality(earlier \ {t}) = Cardinality(earlier) - 1
  BY <1>1, FS_RemoveElement
<1> QED
  BY <1>1, <1>2, <1>3, ThreadsFinite DEF Fits

(* Files are removed, writers give up, lists see no less than they did.    *)
LEMMA RoomKept ==
  ASSUME NEW files, IsFiniteSet(files), NEW kept \in SUBSET files,
         NEW writers \in SUBSET Threads, NEW still \in SUBSET writers,
         NEW lists, NEW left,
         \A t \in still : kept \ left[t] \subseteq files \ lists[t],
         NEW failures \in Nat, NEW more \in Nat, failures <= more,
         HasRoom(files, writers, lists, failures)
  PROVE  HasRoom(kept, still, left, more)
<1>1. PICK rank \in [Threads -> Nat], now \in Nat, last \in Nat \ {0},
           seen \in SUBSET files :
         RoomFor(files, writers, lists, failures, rank, now, last, seen)
  BY DEF HasRoom
<1> DEFINE present == seen \cap kept
<1>2. SizeOf(present) <= MaxSpool
  <2>1. IsFiniteSet(seen) /\ present \in SUBSET seen
    BY FS_Subset
  <2>2. SizeOf(present) <= SizeOf(seen) /\ SizeOf(present) \in Nat /\ SizeOf(seen) \in Nat
    BY <2>1, SizeGrows, SizeIsNat, FS_Subset
  <2> QED
    BY <1>1, <2>2, Bounds DEF RoomFor
<1>3. Fits(kept \ present, Before(still, rank, last), more)
  <2>1. /\ kept \ present \in SUBSET (files \ seen) /\ IsFiniteSet(files \ seen)
        /\ Before(still, rank, last) \in SUBSET Before(writers, rank, last)
        /\ Before(writers, rank, last) \in SUBSET Threads
    BY FS_Subset DEF Before
  <2> HIDE DEF present
  <2> QED
    BY <1>1, <2>1, FitsFewer DEF RoomFor
<1>4. ASSUME NEW t \in Late(still, rank, last)
      PROVE  Fits(kept \ left[t], Before(still, rank, rank[t]), more)
  <2>1. /\ t \in Late(writers, rank, last)
        /\ kept \ left[t] \in SUBSET (files \ lists[t])
        /\ IsFiniteSet(files \ lists[t])
        /\ Before(still, rank, rank[t]) \in SUBSET Before(writers, rank, rank[t])
        /\ Before(writers, rank, rank[t]) \in SUBSET Threads
    BY FS_Subset DEF Before, Late
  <2>2. Fits(files \ lists[t], Before(writers, rank, rank[t]), failures)
    BY <1>1, <2>1 DEF RoomFor
  <2> QED
    BY <2>1, <2>2, FitsFewer
<1>5. \A t, u \in Late(still, rank, last) : rank[t] = rank[u] => t = u
  BY <1>1 DEF RoomFor, Late
<1>6. RoomFor(kept, still, left, more, rank, now, last, present)
  BY <1>1, <1>2, <1>3, <1>4, <1>5 DEF RoomFor
<1>7. present \in SUBSET kept
  OBVIOUS
<1> QED
  BY <1>6, <1>7 DEF HasRoom

(* A removal has failed: a writer no longer lists a file that is there.    *)
LEMMA RoomFailed ==
  ASSUME NEW files, IsFiniteSet(files), NEW writers \in SUBSET Threads,
         NEW lists, NEW left, NEW stays,
         \A t \in writers : files \ left[t] \subseteq (files \ lists[t]) \cup {stays},
         NEW failures \in Nat, HasRoom(files, writers, lists, failures)
  PROVE  HasRoom(files, writers, left, failures + 1)
<1>1. PICK rank \in [Threads -> Nat], now \in Nat, last \in Nat \ {0},
           seen \in SUBSET files :
         RoomFor(files, writers, lists, failures, rank, now, last, seen)
  BY DEF HasRoom
<1>2. Fits(files \ seen, Before(writers, rank, last), failures + 1)
  <2>1. IsFiniteSet(files \ seen) /\ Before(writers, rank, last) \in SUBSET Threads
    BY FS_Subset DEF Before
  <2> QED
    BY <1>1, <2>1, FitsFewer DEF RoomFor
<1>3. ASSUME NEW t \in Late(writers, rank, last)
      PROVE  Fits(files \ left[t], Before(writers, rank, rank[t]), failures + 1)
  <2> DEFINE unseen == files \ lists[t]
             earlier == Before(writers, rank, rank[t])
  <2>1. /\ t \in writers /\ earlier \in SUBSET Threads
        /\ IsFiniteSet(unseen) /\ IsFiniteSet(unseen \cup {stays})
    BY FS_Subset, FS_AddElement DEF Before, Late
  <2>2. Fits(unseen, earlier, failures)
    BY <1>1 DEF RoomFor
  <2>3. files \ left[t] \in SUBSET (unseen \cup {stays})
    BY <2>1
  <2> HIDE DEF unseen, earlier
  <2>4. Fits(unseen \cup {stays}, earlier, failures + 1)
    BY <2>1, <2>2, FitsFailure
  <2>5. Fits(files \ left[t], earlier, failures + 1)
    BY <2>1, <2>3, <2>4, FitsFewer
  <2> QED
    BY <2>5 DEF earlier
<1>4. RoomFor(files, writers, left, failures + 1, rank, now, last, seen)
  BY <1>1, <1>2, <1>3 DEF RoomFor
<1> QED
  BY <1>4 DEF HasRoom

(* A thread lists the spool: it has seen every file there is.              *)
LEMMA RoomListed ==
  ASSUME NEW files, IsFiniteSet(files), NEW writers \in SUBSET Threads,
         NEW t \in Threads \ writers, NEW lists, NEW longer,
         longer[t] = files, \A u \in writers : longer[u] = lists[u],
         NEW failures \in Nat, HasRoom(files, writers, lists, failures)
  PROVE  HasRoom(files, writers \cup {t}, longer, failures)
<1>1. PICK rank \in [Threads -> Nat], now \in Nat, last \in Nat \ {0},
           seen \in SUBSET files :
         RoomFor(files, writers, lists, failures, rank, now, last, seen)
  BY DEF HasRoom
<1> DEFINE more == writers \cup {t}
           ranked == [rank EXCEPT ![t] = now]
<1>2. /\ ranked \in [Threads -> Nat] /\ ranked[t] = now
      /\ \A u \in Threads \ {t} : ranked[u] = rank[u]
      /\ \A u \in Threads : ranked[u] < now + 1 /\ rank[u] \in Nat
      /\ last <= now /\ last <= now + 1
  BY <1>1 DEF RoomFor
<1> HIDE DEF ranked
<1>3. /\ Before(more, ranked, last) = Before(writers, rank, last)
      /\ \A u \in writers : Before(more, ranked, ranked[u]) = Before(writers, rank, rank[u])
      /\ Late(more, ranked, last) = Late(writers, rank, last) \cup {t}
  <2>1. \A u \in Threads : rank[u] < now
    BY <1>1 DEF RoomFor
  <2> QED
    BY <1>2, <2>1 DEF Before, Late
<1>4. Fits(files \ longer[t], Before(more, ranked, now), failures)
  <2>1. files \ longer[t] = {} /\ Cardinality({}) = 0
    BY FS_EmptySet
  <2>2. Before(more, ranked, now) \in SUBSET (Threads \ {t})
    BY <1>2 DEF Before
  <2>3. /\ IsFiniteSet(Threads \ {t})
        /\ Cardinality(Threads \ {t}) = Cardinality(Threads) - 1
    BY ThreadsFinite, FS_RemoveElement
  <2> DEFINE others == Threads \ {t}
             first == Before(more, ranked, now)
  <2>4. /\ IsFiniteSet(others) /\ first \in SUBSET others
        /\ Cardinality(others) = Cardinality(Threads) - 1
    BY <2>2, <2>3
  <2> HIDE DEF others, first
  <2>5. /\ Cardinality(first) <= Cardinality(others) /\ IsFiniteSet(first)
    BY <2>4, FS_Subset
  <2>6. Cardinality(first) \in Nat
    BY <2>5, FS_CardinalityType
  <2>7. Cardinality(files \ longer[t]) = 0
    BY <2>1
  <2>8. Fits(files \ longer[t], first, failures)
    BY <2>4, <2>5, <2>6, <2>7, ThreadsFinite DEF Fits
  <2> QED
    BY <2>8 DEF first
<1>5. ASSUME NEW u \in Late(more, ranked, last)
      PROVE  Fits(files \ longer[u], Before(more, ranked, ranked[u]), failures)
  <2>1. CASE u = t
    BY <1>2, <1>4, <2>1
  <2>2. CASE u # t
    <3>1. u \in Late(writers, rank, last) /\ u \in writers
      BY <1>3, <2>2 DEF Late
    <3>2. Fits(files \ lists[u], Before(writers, rank, rank[u]), failures)
      BY <1>1, <3>1 DEF RoomFor
    <3> QED
      BY <1>3, <3>1, <3>2
  <2> QED
    BY <2>1, <2>2
<1>6. \A u, v \in Late(more, ranked, last) : ranked[u] = ranked[v] => u = v
  <2>1. \A u \in Late(writers, rank, last) : u \in Threads \ {t} /\ rank[u] < now
    BY <1>1 DEF RoomFor, Late
  <2>2. \A u, v \in Late(writers, rank, last) : rank[u] = rank[v] => u = v
    BY <1>1 DEF RoomFor
  <2> QED
    BY <1>2, <1>3, <2>1, <2>2
<1>7. RoomFor(files, more, longer, failures, ranked, now + 1, last, seen)
  BY <1>1, <1>2, <1>3, <1>5, <1>6 DEF RoomFor
<1> QED
  BY <1>2, <1>7 DEF HasRoom

(* A thread fails to list the spool: it has seen nothing, and ranks first. *)
LEMMA RoomUnlisted ==
  ASSUME NEW files, IsFiniteSet(files), NEW writers \in SUBSET Threads,
         NEW t \in Threads \ writers, NEW lists, NEW longer,
         \A u \in writers : longer[u] = lists[u],
         NEW failures \in Nat, HasRoom(files, writers, lists, failures)
  PROVE  HasRoom(files, writers \cup {t}, longer, failures + 1)
<1>1. PICK rank \in [Threads -> Nat], now \in Nat, last \in Nat \ {0},
           seen \in SUBSET files :
         RoomFor(files, writers, lists, failures, rank, now, last, seen)
  BY DEF HasRoom
<1> DEFINE more == writers \cup {t}
           ranked == [rank EXCEPT ![t] = 0]
<1>2. /\ ranked \in [Threads -> Nat] /\ ranked[t] = 0
      /\ \A u \in Threads \ {t} : ranked[u] = rank[u]
      /\ \A u \in Threads : ranked[u] < now /\ rank[u] \in Nat
      /\ last <= now
  BY <1>1 DEF RoomFor
<1> HIDE DEF ranked
<1>3. /\ Before(more, ranked, last) \in SUBSET (Before(writers, rank, last) \cup {t})
      /\ \A u \in writers : Before(more, ranked, ranked[u])
                               \in SUBSET (Before(writers, rank, rank[u]) \cup {t})
      /\ Late(more, ranked, last) = Late(writers, rank, last)
  BY <1>2 DEF Before, Late
<1>4. ASSUME NEW unseen \in SUBSET files, NEW earlier \in SUBSET Threads,
             NEW next \in SUBSET (earlier \cup {t}), Fits(unseen, earlier, failures)
      PROVE  Fits(unseen, next, failures + 1)
  <2>1. IsFiniteSet(unseen)
    BY FS_Subset
  <2>2. Fits(unseen, earlier \cup {t}, failures + 1)
    BY <1>4, <2>1, FitsFailure
  <2> QED
    BY <2>1, <2>2, FitsFewer
<1>5. Fits(files \ seen, Before(more, ranked, last), failures + 1)
  <2>1. Before(writers, rank, last) \in SUBSET Threads
    BY DEF Before
  <2>2. Fits(files \ seen, Before(writers, rank, last), failures)
    BY <1>1 DEF RoomFor
  <2> QED
    BY <1>3, <1>4, <2>1, <2>2
<1>6. ASSUME NEW u \in Late(more, ranked, last)
      PROVE  Fits(files \ longer[u], Before(more, ranked, ranked[u]), failures + 1)
  <2>1. u \in Late(writers, rank, last) /\ u \in writers
    BY <1>3 DEF Late
  <2>2. Before(writers, rank, rank[u]) \in SUBSET Threads
    BY DEF Before
  <2>3. Fits(files \ longer[u], Before(writers, rank, rank[u]), failures)
    BY <1>1, <2>1 DEF RoomFor
  <2> QED
    BY <1>3, <1>4, <2>1, <2>2, <2>3
<1>7. \A u, v \in Late(more, ranked, last) : ranked[u] = ranked[v] => u = v
  <2>1. \A u \in Late(writers, rank, last) : u \in Threads \ {t}
    BY DEF Late
  <2> QED
    BY <1>1, <1>2, <1>3, <2>1 DEF RoomFor
<1>8. RoomFor(files, more, longer, failures + 1, ranked, now, last, seen)
  BY <1>1, <1>2, <1>5, <1>6, <1>7 DEF RoomFor
<1> QED
  BY <1>2, <1>8 DEF HasRoom

(* A writer writes.  If it listed after the last one to write, it has made *)
(* all that it saw fit; if not, its file is one of those that were to come. *)
LEMMA RoomWritten ==
  ASSUME NEW files, IsFiniteSet(files), NEW writers \in SUBSET Threads,
         NEW t \in writers, NEW lists, NEW left, NEW written,
         \A u \in writers \ {t} : left[u] = lists[u],
         SizeOf((lists[t] \cap files) \cup {written}) <= MaxSpool,
         NEW failures \in Nat, HasRoom(files, writers, lists, failures)
  PROVE  HasRoom(files \cup {written}, writers \ {t}, left, failures)
<1>1. PICK rank \in [Threads -> Nat], now \in Nat, last \in Nat \ {0},
           seen \in SUBSET files :
         RoomFor(files, writers, lists, failures, rank, now, last, seen)
  BY DEF HasRoom
<1> DEFINE full == files \cup {written}
           rest == writers \ {t}
<1>2. /\ \A u \in Threads : rank[u] < now /\ rank[u] \in Nat
      /\ last <= now /\ t \in Threads /\ IsFiniteSet(full)
  BY <1>1, FS_AddElement DEF RoomFor
<1>3. ASSUME NEW some, NEW time \in Nat, rank[t] < time,
             Fits(files \ some, Before(writers, rank, time), failures)
      PROVE  Fits(full \ some, Before(rest, rank, time), failures)
  <2> DEFINE earlier == Before(writers, rank, time)
  <2>1. /\ earlier \in SUBSET Threads /\ t \in earlier
        /\ Before(rest, rank, time) = earlier \ {t}
    BY <1>3 DEF Before
  <2>2. IsFiniteSet(files \ some) /\ IsFiniteSet((files \ some) \cup {written})
    BY FS_Subset, FS_AddElement
  <2>3. Fits((files \ some) \cup {written}, earlier \ {t}, failures)
    <3> HIDE DEF earlier
    <3> QED
      BY <1>3, <2>1, <2>2, FitsWritten DEF earlier
  <2>4. full \ some \in SUBSET ((files \ some) \cup {written})
    OBVIOUS
  <2> HIDE DEF earlier, full, rest
  <2>5. Fits(full \ some, earlier \ {t}, failures)
    BY <2>1, <2>2, <2>3, <2>4, FitsFewer
  <2> QED
    BY <2>1, <2>5
<1>4. ASSUME NEW u \in Late(rest, rank, last), rank[t] < rank[u]
      PROVE  Fits(full \ left[u], Before(rest, rank, rank[u]), failures)
  <2>1. u \in Late(writers, rank, last) /\ u \in writers \ {t} /\ rank[u] \in Nat
    BY <1>2 DEF Late
  <2>2. Fits(files \ lists[u], Before(writers, rank, rank[u]), failures)
    BY <1>1, <2>1 DEF RoomFor
  <2>3. left[u] = lists[u]
    BY <2>1
  <2> HIDE DEF full, rest
  <2> QED
    BY <1>3, <1>4, <2>1, <2>2, <2>3
<1>5. \A u, v \in Late(rest, rank, last) : rank[u] = rank[v] => u = v
  BY <1>1 DEF RoomFor, Late
<1>6. CASE rank[t] < last
  <2>1. Fits(full \ seen, Before(rest, rank, last), failures)
    <3>1. Fits(files \ seen, Before(writers, rank, last), failures) /\ last \in Nat
      BY <1>1 DEF RoomFor
    <3> HIDE DEF full, rest
    <3> QED
      BY <1>3, <1>6, <3>1
  <2>2. \A u \in Late(rest, rank, last) : rank[t] < rank[u]
    BY <1>2, <1>6 DEF Late
  <2>3. RoomFor(full, rest, left, failures, rank, now, last, seen)
    BY <1>1, <1>4, <1>5, <2>1, <2>2 DEF RoomFor
  <2>4. seen \in SUBSET full
    OBVIOUS
  <2> QED
    BY <2>3, <2>4 DEF HasRoom
<1>7. CASE ~(rank[t] < last)
  <2> DEFINE latest == rank[t] + 1
             fitted == (lists[t] \cap files) \cup {written}
  <2>1. latest \in Nat \ {0} /\ latest <= now /\ t \in Late(writers, rank, last)
    BY <1>2, <1>7 DEF Late
  <2>2. \A u \in Late(rest, rank, latest) : u \in Late(rest, rank, last) /\ rank[t] < rank[u]
    BY <1>2, <1>7 DEF Late
  <2>3. Fits(full \ fitted, Before(rest, rank, latest), failures)
    <3>1. Fits(files \ lists[t], Before(writers, rank, rank[t]), failures)
      BY <1>1, <2>1 DEF RoomFor
    <3>2. full \ fitted \in SUBSET (files \ lists[t])
      OBVIOUS
    <3>3. Before(rest, rank, latest) \in SUBSET Before(writers, rank, rank[t])
      <4>1. ASSUME NEW u \in rest, rank[u] < latest PROVE rank[u] < rank[t]
        <5>1. rank[u] # rank[t]
          <6>1. SUFFICES ASSUME rank[u] = rank[t] PROVE FALSE
            OBVIOUS
          <6>2. u \in Late(writers, rank, last)
            BY <1>2, <1>7, <6>1 DEF Late
          <6>3. u = t
            BY <1>1, <2>1, <6>1, <6>2 DEF RoomFor
          <6> QED
            BY <6>3
        <5> QED
          BY <1>2, <4>1, <5>1
      <4> QED
        BY <4>1 DEF Before
    <3>4. Before(writers, rank, rank[t]) \in SUBSET Threads
          /\ IsFiniteSet(files \ lists[t])
      BY FS_Subset DEF Before
    <3> HIDE DEF full, rest, fitted, latest
    <3> QED
      BY <3>1, <3>2, <3>3, <3>4, FitsFewer
  <2>4. \A u \in Late(rest, rank, latest) :
           Fits(full \ left[u], Before(rest, rank, rank[u]), failures)
    <3> HIDE DEF full, rest, latest
    <3> QED
      BY <1>4, <2>2
  <2>5. \A u, v \in Late(rest, rank, latest) : rank[u] = rank[v] => u = v
    <3> HIDE DEF rest, latest
    <3> QED
      BY <1>5, <2>2
  <2>6. RoomFor(full, rest, left, failures, rank, now, latest, fitted)
    <3> HIDE DEF full, rest, latest
    <3> QED
      BY <1>2, <2>1, <2>3, <2>4, <2>5 DEF RoomFor
  <2>7. fitted \in SUBSET full
    OBVIOUS
  <2> HIDE DEF full, rest, latest, fitted
  <2>8. HasRoom(full, rest, left, failures)
    BY <2>1, <2>6, <2>7 DEF HasRoom
  <2> QED
    BY <2>8 DEF full, rest
<1> QED
  BY <1>6, <1>7

LEMMA InitRoom == Init => RoomInv
<1> SUFFICES ASSUME Init PROVE RoomInv
  OBVIOUS
<1> DEFINE rank == [t \in Threads |-> 0]
<1>1. spool = {} /\ Writers = {} /\ faults = 0
  BY DEF Init, Writers
<1>2. \A time : Before({}, rank, time) = {} /\ Late({}, rank, time) = {}
  BY DEF Before, Late
<1>3. Fits({}, {}, 0)
  BY FS_EmptySet, ThreadsFinite DEF Fits
<1>4. SizeOf({}) <= MaxSpool
  BY SizeOfNone, Bounds
<1>5. rank \in [Threads -> Nat] /\ \A t \in Threads : rank[t] < 1
  OBVIOUS
<1> HIDE DEF rank
<1>6. {} \ {} = {}
  OBVIOUS
<1>7. RoomFor({}, {}, listed, 0, rank, 1, 1, {})
  BY <1>2, <1>3, <1>4, <1>5, <1>6 DEF RoomFor
<1>8. HasRoom({}, {}, listed, 0)
  BY <1>5, <1>7 DEF HasRoom
<1> QED
  BY <1>1, <1>8 DEF RoomInv

(* Steps that write nothing and hide nothing from a writer.                *)
LEMMA QuietRoom ==
  ASSUME TypeOK, LimitInv, faults' \in Nat, faults <= faults', spool' \subseteq spool,
         Writers' \subseteq Writers,
         \A t \in Writers' : spool' \ listed'[t] \subseteq spool \ listed[t]
  PROVE  RoomInv'
<1>1. IsFiniteSet(spool) /\ Writers \in SUBSET Threads /\ faults \in Nat
  BY DEF LimitInv, Finite, Writers, TypeOK
<1>2. HasRoom(spool, Writers, listed, faults)
  BY DEF LimitInv, RoomInv
<1>3. HasRoom(spool', Writers', listed', faults')
  BY <1>1, <1>2, RoomKept
<1> QED
  BY <1>3 DEF RoomInv

LEMMA FaultsGrow ==
  ASSUME TypeOK, Fault \/ NoFault
  PROVE  faults' \in Nat /\ faults <= faults'
BY DEF TypeOK, Fault, NoFault

(* A thread that is not about to write disturbs no writer.                 *)
LEMMA IdleRoom ==
  ASSUME TypeOK, LimitInv, NEW t \in Threads, Rest(t), t \notin Writers',
         Fault \/ NoFault, spool' \subseteq spool
  PROVE  RoomInv'
<1>1. /\ Writers' \subseteq Writers
      /\ \A u \in Writers' : spool' \ listed'[u] \subseteq spool \ listed[u]
  BY DEF Rest, Others, Writers
<1> QED
  BY <1>1, FaultsGrow, QuietRoom

LEMMA ListRoom ==
  ASSUME TypeOK, LimitInv, NEW t \in Threads, ListFiles(t), Carries(t)
  PROVE  RoomInv'
<1>0. SharedOK /\ LocalsOK
  BY TypeSplit
<1>1. /\ Writers' = Writers \cup {t} /\ t \in Threads \ Writers
      /\ Writers \in SUBSET Threads
      /\ \A u \in Writers : listed'[u] = listed[u]
      /\ spool' = spool
  BY <1>0 DEF ListFiles, Goto, LocalsOK, Writers
<1>2. IsFiniteSet(spool) /\ faults \in Nat /\ HasRoom(spool, Writers, listed, faults)
  BY <1>0 DEF LimitInv, Finite, RoomInv, SharedOK
<1>3. CASE NoFault /\ listed' = [listed EXCEPT ![t] = spool]
  <2>1. listed'[t] = spool
    BY <1>0, <1>3 DEF LocalsOK
  <2>2. HasRoom(spool, Writers \cup {t}, listed', faults)
    BY <1>1, <1>2, <2>1, RoomListed
  <2>3. HasRoom(spool', Writers', listed', faults')
    BY <1>1, <1>3, <2>2 DEF NoFault
  <2> QED
    BY <2>3 DEF RoomInv
<1>4. CASE Fault
  <2>1. HasRoom(spool, Writers \cup {t}, listed', faults + 1)
    BY <1>1, <1>2, RoomUnlisted
  <2>2. HasRoom(spool', Writers', listed', faults')
    BY <1>1, <1>4, <2>1 DEF Fault
  <2> QED
    BY <2>2 DEF RoomInv
<1> QED
  BY <1>3, <1>4 DEF ListFiles

LEMMA EvictRoom ==
  ASSUME TypeOK, LimitInv, NEW t \in Threads, Evict(t)
  PROVE  RoomInv'
<1>0. SharedOK /\ LocalsOK
  BY TypeSplit
<1>1. Writers' = Writers /\ Writers \in SUBSET Threads
  BY DEF Evict, Writers
<1>2. PICK oldest \in listed[t] :
         /\ listed' = [listed EXCEPT ![t] = @ \ {oldest}]
         /\ \/ spool' = spool \ {oldest} /\ NoFault
            \/ oldest \in spool /\ Fault /\ spool' = spool
            \/ oldest \notin spool /\ NoFault /\ spool' = spool
  BY DEF Evict
<1>3. \A u \in Threads : listed'[u] = listed[u] \/ listed'[u] = listed[u] \ {oldest}
  BY <1>0, <1>2 DEF LocalsOK
<1>4. CASE \/ spool' = spool \ {oldest} /\ NoFault
           \/ oldest \notin spool /\ NoFault /\ spool' = spool
  <2>1. spool' \subseteq spool /\ oldest \notin spool'
    BY <1>4
  <2>2. \A u \in Writers' : spool' \ listed'[u] \subseteq spool \ listed[u]
    BY <1>1, <1>3, <2>1
  <2>3. faults' \in Nat /\ faults <= faults'
    BY <1>4, FaultsGrow
  <2> QED
    BY <1>1, <2>1, <2>2, <2>3, QuietRoom
<1>5. CASE oldest \in spool /\ Fault /\ spool' = spool
  <2>1. \A u \in Writers : spool \ listed'[u] \subseteq (spool \ listed[u]) \cup {oldest}
    BY <1>1, <1>3
  <2>2. IsFiniteSet(spool) /\ faults \in Nat /\ HasRoom(spool, Writers, listed, faults)
    BY <1>0 DEF LimitInv, Finite, RoomInv, SharedOK
  <2>3. HasRoom(spool, Writers, listed', faults + 1)
    BY <1>1, <2>1, <2>2, RoomFailed
  <2>4. HasRoom(spool', Writers', listed', faults')
    BY <1>1, <1>5, <2>3 DEF Fault
  <2> QED
    BY <2>4 DEF RoomInv
<1> QED
  BY <1>2, <1>4, <1>5

(* What a thread still lists when it writes fits with its batch.           *)
LEMMA WrittenFits ==
  ASSUME TypeOK, LimitInv, NEW t \in Threads, pc[t] = "evict", ~MustEvict(t),
         Cardinality(batch[t]) <= MaxSpool
  PROVE  SizeOf((listed[t] \cap spool) \cup {Written(t)}) <= MaxSpool
<1> DEFINE size == Cardinality(batch[t])
           there == listed[t] \cap spool
           one == {Written(t)}
<1>0. SharedOK /\ LocalsOK
  BY TypeSplit
<1>1. /\ size \in Nat /\ IsFiniteSet(there) /\ IsFiniteSet(one)
      /\ Cardinality(one) = 1 /\ one \in SUBSET Files
  <2>1. Written(t) \in Files
    BY <1>0 DEF Written, Files, SharedOK, LocalsOK
  <2> QED
    BY <1>0, <2>1, BatchIsFinite, FS_Singleton, FS_Subset DEF LimitInv, Finite
<1>2. SizeOf(one) <= size /\ SizeOf(one) \in Nat /\ SizeOf(there) \in Nat
  <2>1. \A f \in one : Cardinality(f.events) <= size
    BY <1>1 DEF Written
  <2>2. SizeOf(one) <= Cardinality(one) * size
    <3> HIDE DEF one, size
    <3> QED
      BY <1>1, <2>1, SizeOfMany
  <2>3. SizeOf(one) \in Nat /\ SizeOf(there) \in Nat
    <3> HIDE DEF one, there
    <3> QED
      BY <1>1, SizeIsNat
  <2> HIDE DEF one, size, there
  <2> QED
    BY <1>1, <2>2, <2>3
<1>3. SizeOf(there) + size <= MaxSpool
  <2>1. CASE listed[t] = {}
    <3>1. SizeOf(there) = 0
      BY <2>1, SizeOfNone
    <3> QED
      BY <1>1, <3>1, Bounds
  <2>2. CASE listed[t] # {}
    <3>1. ~(size >= MaxSpool) /\ ~(SizeOf(counted[t]) + size > MaxSpool)
      BY <2>2 DEF MustEvict
    <3>2. there \in SUBSET counted[t] /\ IsFiniteSet(counted[t])
      BY <3>1 DEF LimitInv, LoadInv, SumInv, SumOK, ListingInv
    <3>3. SizeOf(there) <= SizeOf(counted[t]) /\ SizeOf(counted[t]) \in Nat
      <4> HIDE DEF there
      <4> QED
        BY <3>2, SizeGrows, SizeIsNat
    <3> HIDE DEF size, there
    <3> QED
      BY <1>1, <1>2, <3>1, <3>3, Bounds
  <2> QED
    BY <2>1, <2>2
<1> HIDE DEF there, one, size
<1>4. SizeOf(there \cup one) <= SizeOf(there) + SizeOf(one)
  BY <1>1, SizeOfBoth
<1>5. SizeOf(there \cup one) \in Nat
  BY <1>1, SizeIsNat, FS_Union
<1>6. SizeOf(there \cup one) <= MaxSpool
  BY <1>1, <1>2, <1>3, <1>4, <1>5, Bounds
<1> QED
  BY <1>6 DEF there, one

LEMMA WriteRoom ==
  ASSUME TypeOK, LimitInv, NEW t \in Threads, WriteFile(t)
  PROVE  RoomInv'
<1>0. SharedOK /\ LocalsOK /\ Return(t)
  BY TypeSplit DEF WriteFile
<1>1. Rest(t) /\ Writers' = Writers \ {t} /\ t \in Writers /\ Writers \in SUBSET Threads
  BY <1>0 DEF WriteFile, Return, Leave, Goto, LocalsOK, Rest, Others, Writers
<1>2. CASE spool' = spool
  BY <1>1, <1>2, IdleRoom DEF WriteFile
<1>3. CASE spool' # spool
  <2>1. /\ Cardinality(batch[t]) <= MaxSpool /\ spool' = spool \cup {Written(t)}
        /\ faults' = faults
    BY <1>3 DEF WriteFile, Written, NoFault
  <2>2. IsFiniteSet(spool) /\ faults \in Nat /\ HasRoom(spool, Writers, listed, faults)
    BY <1>0 DEF LimitInv, Finite, RoomInv, SharedOK
  <2>3. SizeOf((listed[t] \cap spool) \cup {Written(t)}) <= MaxSpool
    BY <2>1, WrittenFits DEF WriteFile
  <2>4. \A u \in Writers \ {t} : listed'[u] = listed[u]
    BY <1>1 DEF Rest
  <2>5. HasRoom(spool \cup {Written(t)}, Writers \ {t}, listed', faults)
    BY <1>1, <2>2, <2>3, <2>4, RoomWritten
  <2>6. HasRoom(spool', Writers', listed', faults')
    BY <1>1, <2>1, <2>5
  <2> QED
    BY <2>6 DEF RoomInv
<1> QED
  BY <1>2, <1>3

LEMMA OtherThreadRoom ==
  ASSUME TypeOK, AccountInv, LimitInv, NEW t \in Threads, ThreadStep(t),
         ~ (ListFiles(t) \/ Evict(t) \/ WriteFile(t))
  PROVE  RoomInv'
<1>0. LocalsOK
  BY TypeSplit
<1>1. CASE Flush(t)
  <2>1. Rest(t) /\ t \notin Writers'
    BY <1>0, <1>1 DEF Flush, Goto, LocalsOK, Rest, Others, Writers, eviction
  <2>2. NoFault /\ spool' \subseteq spool
    BY <1>1 DEF Flush, mishaps, NoFault
  <2> QED
    BY <2>1, <2>2, IdleRoom
<1>2. CASE Send(t)
  <2>1. Rest(t)
    BY <1>2, SendCarries DEF Carries
  <2>2. NoFault /\ spool' \subseteq spool
    BY <1>2 DEF Send, Accepted, Rejected, Unanswered, mishaps, NoFault
  <2>3. t \notin Writers'
    BY <1>0, <1>2 DEF Send, Accepted, Rejected, Unanswered, Return, Leave, Goto,
                      LocalsOK, Writers
  <2> QED
    BY <2>1, <2>2, <2>3, IdleRoom
<1>3. CASE PickOldest(t) \/ ReadFile(t) \/ ReadRaises(t) \/ RemoveFile(t)
  <2>1. Rest(t)
    BY <1>3, ReplayCarries DEF Carries
  <2>2. (Fault \/ NoFault) /\ spool' \subseteq spool
    BY <1>3 DEF PickOldest, ReadFile, ReadRaises, RemoveFile, mishaps, NoFault
  <2>3. t \notin Writers'
    BY <1>0, <1>3 DEF PickOldest, ReadFile, ReadRaises, RemoveFile, AfterReplay,
                      Return, Leave, Goto, LocalsOK, Writers
  <2> QED
    BY <2>1, <2>2, <2>3, IdleRoom
<1>4. CASE SumSizes(t)
  <2>1. NoFault /\ spool' \subseteq spool
    BY <1>4 DEF SumSizes, mishaps, NoFault
  <2>2. Rest(t)
    BY <1>4, SpoolCarries DEF Carries, LimitInv
  <2>3. CASE Return(t)
    <3>1. t \notin Writers'
      BY <1>0, <2>3 DEF Return, Leave, Goto, LocalsOK, Writers
    <3> QED
      BY <2>1, <2>2, <3>1, IdleRoom
  <2>4. CASE ~Return(t)
    <3>1. listed' = listed /\ spool' = spool /\ Writers' \subseteq Writers
      BY <1>0, <1>4, <2>2, <2>4 DEF SumSizes, Rest, Others, Writers
    <3> QED
      BY <2>1, <3>1, FaultsGrow, QuietRoom
  <2> QED
    BY <2>3, <2>4
<1> QED
  BY <1>1, <1>2, <1>3, <1>4 DEF ThreadStep

LEMMA ProcessRoom ==
  ASSUME TypeOK, LimitInv,
         \/ \E t \in Tailers : Capture(t)
         \/ Exit \/ RunRaises \/ Crash \/ Life
  PROVE  RoomInv'
<1>0. LocalsOK /\ faults \in Nat
  BY TypeSplit DEF SharedOK
<1>1. CASE \E t \in Tailers : Capture(t)
  <2>1. PICK t \in Tailers : Capture(t)
    BY <1>1
  <2>2. UNCHANGED <<spool, listed, faults>>
    BY <2>1 DEF Capture, eviction, mishaps
  <2>3. Writers' \subseteq Writers
    BY <1>0, <2>1 DEF Capture, Goto, LocalsOK, Writers
  <2> QED
    BY <1>0, <2>2, <2>3, QuietRoom
<1>2. CASE Exit \/ RunRaises \/ Crash
  <2>1. Writers' = {} /\ UNCHANGED <<spool, faults>>
    BY <1>2 DEF Exit, RunRaises, Crash, Die, Writers
  <2> QED
    BY <1>0, <2>1, QuietRoom
<1>3. CASE Life
  <2>1. /\ UNCHANGED <<spool, listed>> /\ faults' \in Nat /\ faults <= faults'
        /\ \A u \in Threads : pc'[u] = pc[u] \/ pc'[u] \in {"flush", "pick"}
    BY <1>3, LifeKeeps
  <2>2. Writers' \subseteq Writers
    BY <2>1 DEF Writers
  <2> QED
    BY <2>1, <2>2, QuietRoom
<1> QED
  BY <1>1, <1>2, <1>3

LEMMA StepRoom == TypeOK /\ AccountInv /\ LimitInv /\ [Next]_vars => LimitInv'
<1> SUFFICES ASSUME TypeOK, AccountInv, LimitInv, [Next]_vars PROVE LimitInv'
  OBVIOUS
<1>1. Finite' /\ LoadInv'
  BY StepFinite, StepLoad DEF LimitInv
<1>2. CASE \E t \in Threads : ThreadStep(t)
  <2>1. PICK t \in Threads : ThreadStep(t)
    BY <1>2
  <2>2. ListFiles(t) => Carries(t)
    BY SpoolCarries DEF LimitInv
  <2>3. RoomInv'
    BY <2>1, <2>2, ListRoom, EvictRoom, WriteRoom, OtherThreadRoom
  <2> QED
    BY <1>1, <2>3 DEF LimitInv
<1>3. CASE \/ \E t \in Tailers : Capture(t)
           \/ Exit \/ RunRaises \/ Crash \/ Life
  BY <1>1, <1>3, ProcessRoom DEF LimitInv
<1> QED
  BY <1>2, <1>3 DEF Next, Life

LEMMA ProductGrows ==
  ASSUME NEW a \in Nat, NEW b \in Nat, NEW c \in Nat, a <= b
  PROVE  a * c <= b * c
OBVIOUS

(* What was seen fits in the spool; what was not is bounded by the threads *)
(* and the failures.                                                       *)
LEMMA RoomBounds ==
  ASSUME TypeOK, LimitInv
  PROVE  OvershootBounded
<1>0. SharedOK /\ Finite /\ LoadInv
  BY TypeSplit DEF LimitInv
<1>1. PICK rank \in [Threads -> Nat], now \in Nat, last \in Nat \ {0},
           seen \in SUBSET spool :
         RoomFor(spool, Writers, listed, faults, rank, now, last, seen)
  BY DEF LimitInv, RoomInv, HasRoom
<1> DEFINE out == spool \ seen
           n == Cardinality(Threads) - 1 + faults
           earlier == Before(Writers, rank, last)
           most == n * LargestBatch
           some == Cardinality(out) * LargestBatch
<1>2. /\ IsFiniteSet(seen) /\ IsFiniteSet(out) /\ out \in SUBSET Files
      /\ spool = seen \cup out
  BY <1>0, FS_Subset DEF Finite, SharedOK
<1>3. /\ SizeOf(seen) \in Nat /\ SizeOf(out) \in Nat /\ SizeOf(spool) \in Nat
      /\ Cardinality(out) \in Nat /\ n \in Nat
  BY <1>0, <1>2, SizeIsNat, FS_CardinalityType, ThreadsFinite DEF Finite, SharedOK
<1>4. Cardinality(earlier) \in Nat
  <2>1. earlier \in SUBSET Threads
    BY DEF Before, Writers
  <2> QED
    BY <2>1, SomeThreads
<1>5. SizeOf(seen) <= MaxSpool /\ Cardinality(out) <= n
  <2>1. Cardinality(out) + Cardinality(earlier) <= n
    BY <1>1 DEF RoomFor, Fits
  <2> HIDE DEF out, earlier, n
  <2>2. Cardinality(out) <= n
    BY <1>3, <1>4, <2>1
  <2> QED
    BY <1>1, <2>2 DEF RoomFor
<1>6. SizeOf(spool) <= SizeOf(seen) + SizeOf(out)
  BY <1>2, SizeOfBoth
<1>7. SizeOf(out) <= some
  <2>1. \A f \in out : Cardinality(f.events) <= LargestBatch
    BY <1>0 DEF LoadInv, SizesInv
  <2> HIDE DEF out
  <2> QED
    BY <1>2, <2>1, SizeOfMany, LargestBatchIsNat
<1>8. some <= most /\ some \in Nat /\ most \in Nat
  <2> HIDE DEF out, n
  <2> QED
    BY <1>3, <1>5, ProductGrows, LargestBatchIsNat
<1>9. SizeOf(spool) <= MaxSpool + most
  <2> HIDE DEF out, most, some
  <2> QED
    BY <1>3, <1>5, <1>6, <1>7, <1>8, Bounds
<1> QED
  BY <1>9 DEF OvershootBounded

(* Whatever number of threads list, sum, evict and write at the same time, *)
(* the spool exceeds max_size_mb by at most one batch per thread other     *)
(* than the first, and one per disk operation that has failed              *)
(* (_evict_until_fits, EventSpool.write).                                  *)
THEOREM OvershootBoundedHolds == Spec => []OvershootBounded
<1>1. Init => LimitInv
  BY InitFinite, InitLoad, InitRoom DEF LimitInv
<1>2. Spec => [](TypeOK /\ AccountInv)
  BY TypeCorrect, InitAccounts, StepAccounts, PTL DEF Spec
<1>3. TypeOK /\ LimitInv => OvershootBounded
  BY RoomBounds
<1> QED
  BY <1>1, <1>2, <1>3, StepRoom, PTL DEF Spec
=============================================================================
