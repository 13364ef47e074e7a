------------------------ MODULE EventLogTailerProofs ------------------------
(* What the subscription of a channel keeps true for every size of the     *)
(* batches, every save interval and every number of records and failures.  *)
EXTENDS EventLogTailer, FiniteSetTheorems, TLAPS

LEMMA Sizes ==
  /\ Batch \in Nat /\ Batch >= 1 /\ SaveInterval \in Nat /\ SaveInterval >= 1
  /\ MaxErrors \in Nat /\ MaxErrors >= 1
  /\ MaxRecords \in Nat /\ MaxFaults \in Nat /\ MaxStarts \in Nat
BY ChannelAssumption

LEMMA OneMore ==
  ASSUME NEW a \in Nat, NEW b \in Nat, NEW n \in Nat, a <= b, n <= a + 1
  PROVE  n <= b + 1
OBVIOUS

LEMMA MaxOfTwo ==
  ASSUME NEW a \in Int, NEW b \in Int
  PROVE  /\ Max({a, b}) \in Int /\ Max({a, b}) >= a /\ Max({a, b}) >= b
         /\ Max({a, b}) \in {a, b}
<1>1. \E x \in {a, b} : \A y \in {a, b} : x >= y
  OBVIOUS
<1>2. Max({a, b}) \in {a, b} /\ \A y \in {a, b} : Max({a, b}) >= y
  BY <1>1 DEF Max
<1> QED
  BY <1>2

LEMMA MinOfTwo ==
  ASSUME NEW a \in Int, NEW b \in Int
  PROVE  Min({a, b}) \in {a, b} /\ Min({a, b}) <= a /\ Min({a, b}) <= b
<1>1. \E x \in {a, b} : \A y \in {a, b} : x <= y
  OBVIOUS
<1>2. Min({a, b}) \in {a, b} /\ \A y \in {a, b} : Min({a, b}) <= y
  BY <1>1 DEF Min
<1> QED
  BY <1>2

-----------------------------------------------------------------------------
(* Where the loop stands: the bookmark is behind the next record, and that *)
(* one at most one past the last record of the channel; what is unsaved    *)
(* was given.  The errors counted are those of the current poll.           *)
Following == stage \in {"poll", "batch", "closing"}

PlaceInv ==
    /\ disk <= logged /\ saveFailures <= faults
    /\ Following => /\ mark < next /\ next <= logged + 1 /\ upto <= logged
                    /\ unsaved < next
                    /\ mark = None => unsaved = 0
    /\ stage = "batch" => errors = 0
    /\ stage = "poll" => errors < MaxErrors

(* The type invariant, one fact for each variable and each of its bounds.  *)
Typed ==
    /\ logged \in Nat /\ logged <= MaxRecords
    /\ disk \in Int /\ -1 <= disk /\ disk <= MaxRecords
    /\ mark \in Nat /\ mark <= MaxRecords
    /\ stage \in {"off", "load", "poll", "batch", "closing", "ended"}
    /\ next \in Nat /\ 1 <= next /\ next <= MaxRecords + 1
    /\ upto \in Nat /\ upto <= MaxRecords
    /\ since \in Nat /\ 1 <= since /\ since <= MaxRecords + 1
    /\ unsaved \in Nat /\ unsaved <= MaxRecords
    /\ errors \in Nat /\ errors <= MaxErrors
    /\ stopping \in BOOLEAN
    /\ held \subseteq Records /\ safe \subseteq Records
    /\ skipped \subseteq Records /\ lost \subseteq Records
    /\ faults \in Nat /\ faults <= MaxFaults
    /\ saveFailures \in Nat /\ saveFailures <= MaxFaults
    /\ starts \in Nat /\ starts <= MaxStarts

LEMMA TypedIsTypeOK == Typed <=> TypeOK
<1>1. disk \in Records \cup {None, Invalid} <=> disk \in Int /\ -1 <= disk /\ disk <= MaxRecords
  BY Sizes DEF Records, None, Invalid
<1>2. mark \in Records \cup {None} <=> mark \in Nat /\ mark <= MaxRecords
  BY Sizes DEF Records, None
<1>3. /\ logged \in 0 .. MaxRecords <=> logged \in Nat /\ logged <= MaxRecords
      /\ next \in 1 .. MaxRecords + 1 <=> next \in Nat /\ 1 <= next /\ next <= MaxRecords + 1
      /\ upto \in 0 .. MaxRecords <=> upto \in Nat /\ upto <= MaxRecords
      /\ since \in 1 .. MaxRecords + 1 <=> since \in Nat /\ 1 <= since /\ since <= MaxRecords + 1
      /\ unsaved \in 0 .. MaxRecords <=> unsaved \in Nat /\ unsaved <= MaxRecords
      /\ errors \in 0 .. MaxErrors <=> errors \in Nat /\ errors <= MaxErrors
      /\ faults \in 0 .. MaxFaults <=> faults \in Nat /\ faults <= MaxFaults
      /\ saveFailures \in 0 .. MaxFaults <=> saveFailures \in Nat /\ saveFailures <= MaxFaults
      /\ starts \in 0 .. MaxStarts <=> starts \in Nat /\ starts <= MaxStarts
  BY Sizes
<1>4. {held, safe, skipped, lost} \subseteq SUBSET Records
      <=> /\ held \subseteq Records /\ safe \subseteq Records
          /\ skipped \subseteq Records /\ lost \subseteq Records
  OBVIOUS
<1> QED
  BY <1>1, <1>2, <1>3, <1>4 DEF Typed, TypeOK

LEMMA InitTyped == Init => Typed /\ PlaceInv
<1> SUFFICES ASSUME Init PROVE Typed /\ PlaceInv
  OBVIOUS
<1>1. /\ logged = 0 /\ disk = 0 /\ mark = 0 /\ next = 1 /\ upto = 0 /\ since = 1
      /\ unsaved = 0 /\ errors = 0 /\ faults = 0 /\ saveFailures = 0 /\ starts = 0
      /\ stage = "off" /\ stopping = FALSE
      /\ held = {} /\ safe = {} /\ skipped = {} /\ lost = {}
  BY DEF Init, None
<1>2. Typed
  <2>1. /\ 0 \in Nat /\ 0 <= MaxRecords /\ 0 <= MaxErrors /\ 0 <= MaxFaults /\ 0 <= MaxStarts
        /\ 1 \in Nat /\ 1 <= MaxRecords + 1 /\ -1 <= 0 /\ 0 \in Int /\ 1 <= 1
    BY Sizes
  <2>2. {} \subseteq Records
    OBVIOUS
  <2> QED
    BY <1>1, <2>1, <2>2, Zenon DEF Typed
<1>3. PlaceInv
  BY <1>1 DEF PlaceInv, Following
<1> QED
  BY <1>2, <1>3

(* Saving the bookmark while the loop runs.                                *)
LEMMA PersistTyped ==
  ASSUME Typed, PlaceInv, Following, Persist
  PROVE  /\ disk' \in Int /\ -1 <= disk' /\ disk' <= MaxRecords /\ disk' <= logged
         /\ faults' \in Nat /\ faults' <= MaxFaults
         /\ saveFailures' \in Nat /\ saveFailures' <= faults'
<1>1. CASE disk' = mark /\ UNCHANGED <<faults, saveFailures>>
  BY <1>1 DEF Typed, PlaceInv
<1>2. CASE Fault /\ saveFailures' = saveFailures + 1 /\ UNCHANGED disk
  BY <1>2, Sizes DEF Typed, PlaceInv, Fault
<1> QED
  BY <1>1, <1>2 DEF Persist

LEMMA SubscribeTyped ==
  ASSUME Typed, PlaceInv, NEW bookmark \in {None, disk}, bookmark # Invalid,
         SubscribeAt(bookmark), UNCHANGED faults \/ Fault
  PROVE  Typed' /\ PlaceInv'
<1>1. bookmark \in Nat /\ bookmark <= logged
  BY DEF Typed, PlaceInv, None, Invalid
<1>2. /\ next' \in Nat /\ 1 <= next' /\ next' <= logged + 1 /\ mark' < next'
      /\ since' \in Nat /\ 1 <= since' /\ since' <= MaxRecords + 1
  <2>1. logged \in Nat /\ logged <= MaxRecords /\ MaxRecords \in Nat
        /\ since \in Nat /\ 1 <= since /\ since <= MaxRecords + 1
    BY Sizes DEF Typed
  <2>2. CASE bookmark = None
    BY <1>1, <2>1, <2>2 DEF SubscribeAt, None
  <2>3. CASE bookmark # None
    BY <1>1, <2>1, <2>3 DEF SubscribeAt, None
  <2> QED
    BY <2>2, <2>3
<1>3. upto' \in Nat /\ upto' <= logged
  BY <1>2 DEF SubscribeAt, Typed
<1>4. faults' \in Nat /\ faults' <= MaxFaults /\ saveFailures <= faults'
  BY Sizes DEF Typed, PlaceInv, Fault
<1>5. /\ stage' = "poll" /\ unsaved' = 0 /\ errors' = 0 /\ mark' = bookmark
      /\ UNCHANGED <<logged, disk, stopping, held, safe, skipped, lost, starts,
                     saveFailures>>
  BY DEF SubscribeAt, events
<1>6. Typed'
  BY <1>1, <1>2, <1>3, <1>4, <1>5, Sizes DEF Typed
<1>7. PlaceInv'
  BY <1>2, <1>3, <1>4, <1>5, Sizes DEF Typed, PlaceInv, Following
<1> QED
  BY <1>6, <1>7

LEMMA HandleTyped ==
  ASSUME Typed, PlaceInv, HandleEvent \/ HandleFails
  PROVE  Typed' /\ PlaceInv'
<1>1. /\ stage = "batch" /\ next <= logged
      /\ UNCHANGED <<logged, disk, stage, upto, errors, stopping, safe, since,
                     saveFailures, starts>>
  BY DEF HandleEvent, HandleFails, bounds, Typed, PlaceInv, Following
<1>2. /\ next' = next + 1
      /\ \/ mark' = next /\ unsaved' = unsaved + 1
         \/ mark' = mark /\ unsaved' = unsaved
  BY DEF HandleEvent, HandleFails
<1>3. faults' \in Nat /\ faults' <= MaxFaults /\ faults <= faults'
  BY Sizes DEF HandleEvent, HandleFails, Typed, Fault, bounds
<1>4. next \in Records
  BY <1>1, Sizes DEF Typed, Records
<1>5. held' \subseteq Records /\ lost' \subseteq Records /\ skipped' \subseteq Records
  BY <1>4 DEF HandleEvent, HandleFails, Typed
<1>6. /\ mark' < next' /\ next' <= logged + 1 /\ unsaved' < next'
      /\ mark' = None => unsaved' = 0
  BY <1>1, <1>2 DEF Typed, PlaceInv, Following, None
<1>7. PlaceInv'
  BY <1>1, <1>3, <1>6 DEF Typed, PlaceInv, Following
<1>8. Typed'
  BY <1>1, <1>2, <1>3, <1>5, <1>6, Sizes DEF Typed
<1> QED
  BY <1>7, <1>8

LEMMA StepTyped == Typed /\ PlaceInv /\ [Next]_vars => Typed' /\ PlaceInv'
<1> SUFFICES ASSUME Typed, PlaceInv, [Next]_vars PROVE Typed' /\ PlaceInv'
  OBVIOUS
<1>1. CASE Subscribe \/ SubscribeUnreadable
  <2>1. PICK bookmark \in {None, disk} :
           bookmark # Invalid /\ SubscribeAt(bookmark) /\ (UNCHANGED faults \/ Fault)
    BY <1>1 DEF Subscribe, SubscribeUnreadable, None, Invalid
  <2> QED
    BY <2>1, SubscribeTyped
<1>2. CASE Fetch
  <2>1. upto' \in Nat /\ upto' <= logged
    <3> DEFINE end == next + Batch - 1
    <3>1. logged \in Nat /\ end \in Nat
      BY Sizes DEF Typed
    <3>2. upto' = Min({logged, end})
      BY <1>2 DEF Fetch
    <3> HIDE DEF end
    <3>3. upto' \in {logged, end} /\ upto' <= logged
      BY <3>1, <3>2, MinOfTwo
    <3> QED
      BY <3>1, <3>3
  <2> QED
    BY <1>2, <2>1, Sizes DEF Fetch, Typed, PlaceInv, Following, events, bounds
<1>3. CASE FetchFails
  BY <1>3, Sizes DEF FetchFails, Fault, Typed, PlaceInv, Following, events
<1>4. CASE HandleEvent \/ HandleFails
  BY <1>4, HandleTyped
<1>5. CASE EndBatch
  <2>1. CASE Persist /\ unsaved' = 0
    BY <1>5, <2>1, PersistTyped, Sizes
    DEF EndBatch, Typed, PlaceInv, Following, events
  <2>2. CASE UNCHANGED <<disk, unsaved, faults, saveFailures>>
    BY <1>5, <2>2, Sizes DEF EndBatch, Typed, PlaceInv, Following, events
  <2> QED
    BY <1>5, <2>1, <2>2 DEF EndBatch
<1>6. CASE Close
  <2>1. /\ Following /\ stage' = "ended"
        /\ UNCHANGED <<logged, next, upto, mark, unsaved, errors, stopping, held, safe,
                       skipped, lost, since, starts>>
    BY <1>6 DEF Close, Following, loop, events
  <2>2. /\ disk' \in Int /\ -1 <= disk' /\ disk' <= MaxRecords /\ disk' <= logged
        /\ faults' \in Nat /\ faults' <= MaxFaults
        /\ saveFailures' \in Nat /\ saveFailures' <= faults'
    <3>1. CASE Persist
      BY <2>1, <3>1, PersistTyped
    <3>2. CASE UNCHANGED <<disk, faults, saveFailures>>
      BY <3>2 DEF Typed, PlaceInv
    <3> QED
      BY <1>6, <3>1, <3>2 DEF Close
  <2>3. Typed'
    BY <2>1, <2>2, Sizes DEF Typed
  <2>4. PlaceInv'
    BY <2>1, <2>2 DEF PlaceInv, Following
  <2> QED
    BY <2>3, <2>4
<1>7. CASE SubscribeFails \/ Start
  <2>1. /\ faults' \in Nat /\ faults' <= MaxFaults /\ faults <= faults'
        /\ starts' \in Nat /\ starts' <= MaxStarts
    BY <1>7, Sizes DEF SubscribeFails, Start, Fault, Typed
  <2>2. /\ stage' \in {"load", "ended"} /\ stopping' \in BOOLEAN
        /\ UNCHANGED <<logged, disk, loop, events, since, saveFailures>>
    BY <1>7 DEF SubscribeFails, Start, Typed
  <2> QED
    BY <2>1, <2>2 DEF Typed, PlaceInv, Following, loop, events
<1>8. CASE Stop \/ Leave \/ Die \/ Flush
  BY <1>8
  DEF Stop, Leave, Die, Flush, Typed, PlaceInv, Following, loop, events, bounds
<1>9. CASE LogRecord \/ DamageBookmark
  <2>1. logged' \in Nat /\ logged' <= MaxRecords /\ logged <= logged'
    BY <1>9, Sizes DEF LogRecord, DamageBookmark, Typed
  <2>2. disk' \in {disk, None, Invalid} /\ faults' \in {faults, faults + 1} /\ faults' <= MaxFaults
    BY <1>9, Sizes
    DEF LogRecord, DamageBookmark, Fault, Typed, bounds
  <2>3. UNCHANGED <<stage, next, upto, mark, unsaved, errors, stopping, held, safe,
                    skipped, lost, since, saveFailures, starts>>
    BY <1>9 DEF LogRecord, DamageBookmark, loop, events, bounds
  <2>4. /\ disk' \in Int /\ -1 <= disk' /\ disk' <= MaxRecords /\ disk' <= logged'
        /\ faults' \in Nat /\ saveFailures' <= faults'
    <3>1. /\ logged \in Nat /\ disk \in Int /\ -1 <= disk /\ disk <= MaxRecords
          /\ disk <= logged /\ faults \in Nat /\ saveFailures \in Nat
          /\ saveFailures <= faults /\ saveFailures' = saveFailures
      BY <2>3 DEF Typed, PlaceInv
    <3>2. disk' \in Int /\ -1 <= disk' /\ disk' <= MaxRecords /\ disk' <= logged'
      BY <2>1, <2>2, <3>1, Sizes DEF None, Invalid
    <3>3. faults' \in Nat /\ saveFailures' <= faults'
      BY <2>2, <3>1
    <3> QED
      BY <3>2, <3>3
  <2>5. Typed'
    BY <2>1, <2>2, <2>3, <2>4, Sizes DEF Typed
  <2>6. PlaceInv'
    <3>1. CASE Following
      <4>1. /\ logged \in Nat /\ next \in Nat /\ upto \in Nat
            /\ next <= logged + 1 /\ upto <= logged
        BY <3>1 DEF Typed, PlaceInv
      <4>2. next <= logged' + 1 /\ upto <= logged'
        <5>1. next <= logged' + 1
          BY <2>1, <4>1, OneMore
        <5>2. upto <= logged'
          BY <2>1, <4>1
        <5> QED
          BY <5>1, <5>2
      <4>3. stage' = stage /\ mark' = mark /\ next' = next /\ upto' = upto
            /\ unsaved' = unsaved /\ errors' = errors
        BY <2>3
      <4>4. Following => next' <= logged' + 1 /\ upto' <= logged'
        BY <4>2, <4>3
      <4> QED
        BY <2>4, <3>1, <4>3, <4>4 DEF PlaceInv, Following
    <3>2. CASE ~Following
      BY <2>3, <2>4, <3>2 DEF PlaceInv, Following
    <3> QED
      BY <3>1, <3>2
  <2> QED
    BY <2>5, <2>6
<1>10. CASE UNCHANGED vars
  BY <1>10 DEF vars, loop, events, bounds, Typed, PlaceInv, Following
<1> QED
  BY <1>1, <1>2, <1>3, <1>4, <1>5, <1>6, <1>7, <1>8, <1>9, <1>10 DEF Next, Thread

(* Every variable keeps its type, whatever the sizes: the numbers of the   *)
(* records never leave the channel, nor the counters their bounds.         *)
THEOREM TypeCorrect == Spec => []TypeOK
BY InitTyped, StepTyped, TypedIsTypeOK, PTL DEF Spec

-----------------------------------------------------------------------------
(* No hole: what the loop has passed, or the saved bookmark covers, since  *)
(* the last start from the current position was handed over.  PlaceInv     *)
(* makes it inductive: a bookmark that is saved is behind the loop, and    *)
(* the record that follows a start from the current position is beyond     *)
(* whatever bookmark was left on the disk.                                 *)
Given == Kept \cup lost
Passed(r) == r <= disk \/ (Following /\ r < next)
GapInv == \A r \in Nat : since <= r /\ Passed(r) => r \in Given

LEMMA GapIsNoGap == Typed /\ GapInv => NoGap
<1> SUFFICES ASSUME Typed, GapInv PROVE NoGap
  OBVIOUS
<1> DEFINE last == IF Running /\ stage # "load" THEN Max({disk, next - 1}) ELSE disk
<1>1. /\ since \in Nat /\ disk \in Int /\ next \in Nat /\ next - 1 \in Int
      /\ (Running /\ stage # "load" <=> Following)
  BY DEF Typed, Running, Following
<1>2. last \in Int /\ (last = disk \/ (Following /\ last = next - 1))
  BY <1>1, MaxOfTwo
<1> HIDE DEF last
<1>3. ASSUME NEW r \in since .. last PROVE r \in Given
  <2>1. r \in Nat /\ since <= r /\ r <= last
    BY <1>1, <1>2
  <2>2. Passed(r)
    BY <1>1, <1>2, <2>1 DEF Passed
  <2> QED
    BY <2>1, <2>2 DEF GapInv
<1> QED
  BY <1>3 DEF NoGap, Given, last

LEMMA InitGap == Init => GapInv
BY DEF Init, GapInv, Passed, Following, None

(* A step that forgets nothing and passes only what was given.             *)
LEMMA GapStays ==
  ASSUME GapInv, since' = since, Given \subseteq Given',
         \A r \in Nat : since <= r /\ Passed(r)' => Passed(r) \/ r \in Given'
  PROVE  GapInv'
BY DEF GapInv

LEMMA SubscribeGap ==
  ASSUME Typed, PlaceInv, GapInv, NEW bookmark \in {None, disk}, bookmark # Invalid,
         SubscribeAt(bookmark)
  PROVE  GapInv'
<1>1. disk \in Int /\ logged \in Nat /\ disk <= logged /\ since \in Nat
  BY DEF Typed, PlaceInv
<1>2. disk' = disk /\ Given' = Given
  BY DEF SubscribeAt, events, Given, Kept
<1>3. CASE bookmark = None
  <2>1. since' = logged + 1 /\ next' = logged + 1
    BY <1>3 DEF SubscribeAt
  <2>2. ASSUME NEW r \in Nat, since' <= r PROVE ~Passed(r)'
    BY <1>1, <1>2, <2>1, <2>2 DEF Passed
  <2> QED
    BY <2>2 DEF GapInv
<1>4. CASE bookmark # None
  <2>1. since' = since /\ next' = disk + 1
    BY <1>4 DEF SubscribeAt
  <2>2. ASSUME NEW r \in Nat, Passed(r)' PROVE Passed(r)
    BY <1>1, <1>2, <2>1, <2>2 DEF Passed
  <2> QED
    BY <1>2, <2>1, <2>2, GapStays
<1> QED
  BY <1>3, <1>4

LEMMA HandleGap ==
  ASSUME Typed, GapInv, HandleEvent \/ HandleFails
  PROVE  GapInv'
<1>1. /\ Following /\ next \in Nat /\ next' = next + 1
      /\ UNCHANGED <<disk, stage, since>>
  BY DEF HandleEvent, HandleFails, Typed, Following
<1>2. Given \subseteq Given' /\ next \in Given'
  BY DEF HandleEvent, HandleFails, Given, Kept
<1>3. ASSUME NEW r \in Nat, Passed(r)' PROVE Passed(r) \/ r = next
  BY <1>1, <1>3 DEF Passed, Following
<1> QED
  BY <1>1, <1>2, <1>3, GapStays

(* The save at the end of a batch and at the end of the thread.            *)
LEMMA SaveGap ==
  ASSUME Typed, PlaceInv, GapInv, EndBatch \/ Close
  PROVE  GapInv'
<1>1. Following /\ mark < next /\ mark \in Nat /\ disk \in Int /\ next \in Nat
  BY DEF EndBatch, Close, Following, Typed, PlaceInv
<1>2. next' = next /\ since' = since /\ Given' = Given
  BY DEF EndBatch, Close, loop, events, Given, Kept
<1>3. disk' \in {disk, mark}
  BY DEF EndBatch, Close, Persist
<1>4. ASSUME NEW r \in Nat, Passed(r)' PROVE Passed(r)
  BY <1>1, <1>2, <1>3, <1>4 DEF Passed
<1> QED
  BY <1>2, <1>4, GapStays

LEMMA StepGap == Typed /\ PlaceInv /\ GapInv /\ [Next]_vars => GapInv'
<1> SUFFICES ASSUME Typed, PlaceInv, GapInv, [Next]_vars PROVE GapInv'
  OBVIOUS
<1>1. CASE Subscribe \/ SubscribeUnreadable
  <2>1. PICK bookmark \in {None, disk} : bookmark # Invalid /\ SubscribeAt(bookmark)
    BY <1>1 DEF Subscribe, SubscribeUnreadable, None, Invalid
  <2> QED
    BY <2>1, SubscribeGap
<1>2. CASE HandleEvent \/ HandleFails
  BY <1>2, HandleGap
<1>3. CASE EndBatch \/ Close
  BY <1>3, SaveGap
<1>4. CASE Fetch \/ FetchFails \/ SubscribeFails \/ Start \/ Stop \/ LogRecord \/ UNCHANGED vars
  <2>1. /\ UNCHANGED <<disk, next, since>> /\ Given' = Given /\ (Following' => Following)
    BY <1>4 DEF Fetch, FetchFails, SubscribeFails, Start, Stop, LogRecord, vars, loop, events,
       Given, Kept, Following
  <2> QED
    BY <2>1, GapStays DEF Passed
<1>5. CASE Leave \/ Die \/ Flush
  <2>1. /\ UNCHANGED <<disk, next, since>> /\ Given \subseteq Given'
        /\ (Following' => Following)
    BY <1>5 DEF Leave, Die, Flush, loop, Given, Kept, Following
  <2> QED
    BY <2>1, GapStays DEF Passed
<1>6. CASE DamageBookmark
  <2>1. /\ UNCHANGED <<next, since, stage>> /\ Given' = Given /\ disk' \in {None, Invalid}
        /\ since \in Nat /\ since >= 1
    BY <1>6 DEF DamageBookmark, loop, events, Given, Kept, Typed
  <2>2. ASSUME NEW r \in Nat, since <= r, Passed(r)' PROVE Passed(r)
    BY <2>1, <2>2 DEF Passed, Following, None, Invalid
  <2> QED
    BY <2>1, <2>2, GapStays
<1> QED
  BY <1>1, <1>2, <1>3, <1>4, <1>5, <1>6 DEF Next, Thread

(* Neither the loop nor the saved bookmark passes a record that was not    *)
(* handed over to the agent, since the last start from the current         *)
(* position: not over a stop in the middle of a batch, a save that failed, *)
(* a bookmark file that was lost or damaged, nor a death.                  *)
THEOREM NoGapHolds == Spec => []NoGap
<1>1. Init => Typed /\ PlaceInv /\ GapInv
  BY InitTyped, InitGap
<1>2. Typed /\ PlaceInv /\ GapInv /\ [Next]_vars => (Typed /\ PlaceInv /\ GapInv)'
  BY StepTyped, StepGap
<1> QED
  BY <1>1, <1>2, GapIsNoGap, PTL DEF Spec

-----------------------------------------------------------------------------
(* What a session has given that is not saved.  Behind is what the bookmark *)
(* in memory covers and the saved one does not; each of its records was    *)
(* counted by `unsaved`, because the loop passed every other one as        *)
(* skipped; and `unsaved` is less than a save interval before a batch and  *)
(* grows by at most one for each record of it.                             *)
Behind == {r \in Records : since <= r /\ disk < r /\ r <= mark /\ r \notin skipped}
SkipInv == \A r \in Records : since <= r /\ mark < r /\ r < next => r \in skipped
RoomFor(counted, given, last) ==
    given <= last + 1 /\ counted + last + 2 <= SaveInterval + Batch + given
RoomInv ==
    /\ stage \in {"poll", "closing"} => unsaved < SaveInterval
    /\ stage = "batch" => RoomFor(unsaved, next, upto)
CountedInv ==
    Following => SkipInv /\ (saveFailures = 0 => Cardinality(Behind) <= unsaved)
SavedInv == RoomInv /\ CountedInv

LEMMA BehindFinite == IsFiniteSet(Records) /\ IsFiniteSet(Behind)
<1>1. IsFiniteSet(Records)
  BY Sizes, FS_Interval DEF Records
<1>2. Behind \subseteq Records
  BY DEF Behind
<1> QED
  BY <1>1, <1>2, FS_Subset

LEMMA InitSaved == Init => SavedInv
BY DEF Init, SavedInv, RoomInv, CountedInv, Following

LEMMA SubscribeSaved ==
  ASSUME Typed, PlaceInv, NEW bookmark \in {None, disk}, bookmark # Invalid,
         SubscribeAt(bookmark)
  PROVE  SavedInv'
<1>1. /\ bookmark \in Nat /\ logged \in Nat /\ disk \in Int /\ disk <= logged
  BY DEF Typed, PlaceInv, None, Invalid
<1>2. stage' = "poll" /\ unsaved' = 0 /\ mark' = bookmark /\ disk' = disk
  BY DEF SubscribeAt
<1>3. \/ since' = logged + 1 /\ next' = logged + 1 /\ bookmark = 0
      \/ next' = bookmark + 1 /\ bookmark = disk
  BY DEF SubscribeAt, None
<1>4. ASSUME NEW r \in Records, since' <= r, mark' < r, r < next' PROVE FALSE
  <2>1. r \in Int
    BY DEF Records
  <2>2. CASE since' = logged + 1 /\ next' = logged + 1
    BY <1>1, <1>4, <2>1, <2>2
  <2>3. CASE next' = bookmark + 1
    BY <1>1, <1>2, <1>4, <2>1, <2>3
  <2> QED
    BY <1>3, <2>2, <2>3
<1>5. Behind' = {}
  <2>1. ASSUME NEW r \in Records, since' <= r, disk' < r, r <= mark' PROVE FALSE
    <3>1. r \in Int /\ 1 <= r
      BY DEF Records
    <3> QED
      BY <1>1, <1>2, <1>3, <2>1, <3>1
  <2> QED
    BY <2>1 DEF Behind
<1>6. RoomInv'
  BY <1>2, Sizes DEF RoomInv
<1>7. CountedInv'
  BY <1>2, <1>4, <1>5, FS_EmptySet DEF CountedInv, SkipInv
<1> QED
  BY <1>6, <1>7 DEF SavedInv

LEMMA FetchSaved ==
  ASSUME Typed, SavedInv, Fetch
  PROVE  SavedInv'
<1> DEFINE full == next + Batch - 1
<1>1. /\ logged \in Nat /\ next \in Nat /\ unsaved \in Nat /\ upto \in Nat
      /\ full \in Nat /\ next <= full /\ full + 1 <= next + Batch
  BY Sizes DEF Typed
<1>2. /\ next <= logged /\ unsaved < SaveInterval /\ Following
  BY DEF Fetch, SavedInv, RoomInv, Following
<1> HIDE DEF full
<1> DEFINE end == Min({logged, full})
<1>3. end \in {logged, full} /\ end <= full
  <2>1. logged \in Int /\ full \in Int
    BY <1>1
  <2> QED
    BY <2>1, MinOfTwo, Zenon
<1> HIDE DEF end
<1>4. RoomFor(unsaved, next, end)
  BY <1>1, <1>2, <1>3, Sizes DEF RoomFor
<1>5. /\ upto' = end /\ stage' = "batch"
      /\ UNCHANGED <<next, unsaved, mark, disk, skipped, since, saveFailures>>
  BY DEF Fetch, end, full, events, bounds
<1>6. RoomInv'
  BY <1>4, <1>5 DEF RoomInv, RoomFor
<1>7. CountedInv'
  BY <1>2, <1>5 DEF SavedInv, CountedInv, SkipInv, Behind, Following
<1> QED
  BY <1>6, <1>7 DEF SavedInv

LEMMA HandleSaved ==
  ASSUME Typed, PlaceInv, SavedInv, HandleEvent \/ HandleFails
  PROVE  SavedInv'
<1>1. /\ Following /\ stage = "batch" /\ next <= upto
      /\ next \in Nat /\ mark \in Nat /\ unsaved \in Nat /\ upto \in Nat /\ mark < next
  BY DEF HandleEvent, HandleFails, Following, Typed, PlaceInv
<1>2. /\ next' = next + 1
      /\ \/ mark' = next /\ unsaved' = unsaved + 1
         \/ mark' = mark /\ unsaved' = unsaved /\ next \in skipped'
      /\ UNCHANGED <<stage, upto, disk, since, saveFailures>> /\ skipped \subseteq skipped'
  BY DEF HandleEvent, HandleFails, bounds
<1>3. RoomInv'
  <2>1. RoomFor(unsaved, next, upto)
    BY <1>1 DEF SavedInv, RoomInv
  <2>2. RoomFor(unsaved + 1, next + 1, upto) /\ RoomFor(unsaved, next + 1, upto)
    BY <1>1, <2>1, Sizes DEF RoomFor
  <2> QED
    BY <1>1, <1>2, <2>2 DEF RoomInv, RoomFor
<1>4. SkipInv'
  <2>1. ASSUME NEW r \in Records, since' <= r, mark' < r, r < next'
        PROVE  r \in skipped'
    <3>1. r \in Int /\ (r < next \/ r = next)
      BY <1>1, <1>2, <2>1 DEF Records
    <3>2. mark < r
      BY <1>1, <1>2, <2>1, <3>1
    <3>3. CASE r < next
      BY <1>1, <1>2, <2>1, <3>2, <3>3 DEF SavedInv, CountedInv, SkipInv
    <3>4. CASE r = next
      BY <1>1, <1>2, <2>1, <3>4
    <3> QED
      BY <3>1, <3>3, <3>4
  <2> QED
    BY <2>1 DEF SkipInv
<1>5. ASSUME saveFailures' = 0 PROVE Cardinality(Behind') <= unsaved'
  <2>1. Cardinality(Behind) \in Nat /\ Cardinality(Behind) <= unsaved
    BY <1>1, <1>2, <1>5, BehindFinite, FS_CardinalityType DEF SavedInv, CountedInv
  <2>2. CASE mark' = next /\ unsaved' = unsaved + 1
    <3>1. Behind' \subseteq Behind \cup {next}
      <4>1. ASSUME NEW r \in Behind', r # next PROVE r \in Behind
        <5>1. /\ r \in Records /\ r \in Int /\ since <= r /\ disk < r /\ r <= next
              /\ r \notin skipped
          BY <1>2, <2>2, <4>1 DEF Behind, Records
        <5>2. r <= mark
          BY <1>1, <4>1, <5>1 DEF SavedInv, CountedInv, SkipInv
        <5> QED
          BY <5>1, <5>2 DEF Behind
      <4> QED
        BY <4>1
    <3>2. /\ IsFiniteSet(Behind \cup {next})
          /\ Cardinality(Behind \cup {next}) <= Cardinality(Behind) + 1
      BY <2>1, BehindFinite, FS_AddElement
    <3>3. Cardinality(Behind') \in Nat /\ Cardinality(Behind \cup {next}) \in Nat
          /\ Cardinality(Behind') <= Cardinality(Behind \cup {next})
      BY <3>1, <3>2, FS_Subset, FS_CardinalityType
    <3> QED
      BY <1>1, <2>1, <2>2, <3>2, <3>3
  <2>3. CASE mark' = mark /\ unsaved' = unsaved
    <3>1. Behind' \subseteq Behind
      BY <1>2, <2>3 DEF Behind
    <3> QED
      BY <1>1, <2>1, <2>3, <3>1, BehindFinite, FS_Subset, FS_CardinalityType
  <2> QED
    BY <1>2, <2>2, <2>3
<1> QED
  BY <1>3, <1>4, <1>5 DEF SavedInv, CountedInv

LEMMA SaveSaved ==
  ASSUME Typed, PlaceInv, SavedInv, EndBatch
  PROVE  SavedInv'
<1>1. /\ Following /\ mark \in Nat /\ unsaved \in Nat /\ saveFailures \in Nat
      /\ (mark = None => unsaved = 0)
  BY DEF EndBatch, Following, Typed, PlaceInv
<1>2. /\ stage' = "poll" /\ UNCHANGED <<next, upto, mark, skipped, since>>
  BY DEF EndBatch, events
<1>3. SkipInv'
  BY <1>1, <1>2 DEF SavedInv, CountedInv, SkipInv
<1>4. CASE unsaved >= SaveInterval /\ mark # None
  <2>1. unsaved' = 0 /\ Persist
    BY <1>4 DEF EndBatch
  <2>2. ASSUME saveFailures' = 0 PROVE Behind' = {}
    <3>1. disk' = mark
      BY <1>1, <2>1, <2>2 DEF Persist
    <3> QED
      BY <1>1, <1>2, <3>1 DEF Behind, Records
  <2>3. saveFailures' = 0 => Cardinality(Behind') <= unsaved'
    BY <2>1, <2>2, FS_EmptySet
  <2>4. unsaved' < SaveInterval
    BY <2>1, Sizes
  <2> QED
    BY <1>2, <1>3, <2>3, <2>4 DEF SavedInv, RoomInv, CountedInv
<1>5. CASE ~(unsaved >= SaveInterval /\ mark # None)
  <2>1. UNCHANGED <<disk, unsaved, faults, saveFailures>>
    BY <1>5 DEF EndBatch
  <2>2. Behind' = Behind
    BY <1>2, <2>1 DEF Behind
  <2>3. unsaved < SaveInterval
    BY <1>1, <1>5, Sizes
  <2>4. saveFailures' = 0 => Cardinality(Behind') <= unsaved'
    BY <1>1, <2>1, <2>2 DEF SavedInv, CountedInv
  <2> QED
    BY <1>2, <1>3, <2>1, <2>3, <2>4 DEF SavedInv, RoomInv, CountedInv
<1> QED
  BY <1>4, <1>5

LEMMA StepSaved == Typed /\ PlaceInv /\ SavedInv /\ [Next]_vars => SavedInv'
<1> SUFFICES ASSUME Typed, PlaceInv, SavedInv, [Next]_vars PROVE SavedInv'
  OBVIOUS
<1>1. CASE Subscribe \/ SubscribeUnreadable
  <2>1. PICK bookmark \in {None, disk} : bookmark # Invalid /\ SubscribeAt(bookmark)
    BY <1>1 DEF Subscribe, SubscribeUnreadable, None, Invalid
  <2> QED
    BY <2>1, SubscribeSaved
<1>2. CASE Fetch
  BY <1>2, FetchSaved
<1>3. CASE HandleEvent \/ HandleFails
  BY <1>3, HandleSaved
<1>4. CASE EndBatch
  BY <1>4, SaveSaved
<1>5. CASE FetchFails \/ Stop \/ Flush \/ LogRecord \/ UNCHANGED vars
  <2>1. /\ UNCHANGED <<disk, next, upto, mark, unsaved, skipped, since, saveFailures>>
        /\ \/ stage' = stage
           \/ stage = "poll" /\ stage' = "closing"
    BY <1>5 DEF FetchFails, Stop, Flush, LogRecord, vars, loop, events, bounds
  <2>2. RoomInv'
    BY <2>1 DEF SavedInv, RoomInv, RoomFor
  <2>3. CountedInv'
    BY <2>1 DEF SavedInv, CountedInv, Following, SkipInv, Behind
  <2> QED
    BY <2>2, <2>3 DEF SavedInv
<1>6. CASE Close \/ SubscribeFails \/ Start \/ Leave \/ Die \/ DamageBookmark
  <2>1. stage' \in {"ended", "load", "off"}
    BY <1>6 DEF Close, SubscribeFails, Start, Leave, Die, DamageBookmark
  <2> QED
    BY <2>1 DEF SavedInv, RoomInv, CountedInv, Following
<1> QED
  BY <1>1, <1>2, <1>3, <1>4, <1>5, <1>6 DEF Next, Thread

-----------------------------------------------------------------------------
(* What all the sessions handed over beyond the saved bookmark.  The last  *)
(* of it was handed over when the loop stood there, so that what leads to  *)
(* it was within the bound then; and it shrinks ever since: the saved      *)
(* bookmark only grows, also after a session that could not read it, and   *)
(* only Windows takes it away.                                             *)
Handed == held \cup safe \cup lost
Span(last) == {r \in Records : since <= r /\ disk < r /\ r <= last /\ r \notin skipped}
Covers(last) == \A r \in Handed : since <= r /\ disk < r => r <= last
Bounded(last) == Covers(last) /\ Cardinality(Span(last)) <= SaveInterval - 1 + Batch
HandedInv ==
    /\ \A r \in Handed : r <= logged
    /\ Following => disk < next /\ (mark = None \/ disk <= mark)
ReplayInv ==
    saveFailures = 0 /\ (Following \/ disk \in Records) => \E last \in Nat : Bounded(last)

LEMMA SpanFinite ==
  ASSUME NEW last \in Nat
  PROVE  IsFiniteSet(Span(last)) /\ Cardinality(Span(last)) \in Nat
<1>1. Span(last) \subseteq Records
  BY DEF Span
<1> QED
  BY <1>1, BehindFinite, FS_Subset, FS_CardinalityType

LEMMA Fewer ==
  ASSUME NEW all, IsFiniteSet(all), NEW some, some \subseteq all,
         NEW most \in Int, Cardinality(all) <= most
  PROVE  Cardinality(some) <= most
<1>1. /\ Cardinality(some) \in Nat /\ Cardinality(all) \in Nat
      /\ Cardinality(some) <= Cardinality(all)
  BY FS_Subset, FS_CardinalityType
<1> QED
  BY <1>1

LEMMA ReplayIsReplayBounded == Typed /\ ReplayInv => ReplayBounded
<1> SUFFICES ASSUME Typed, ReplayInv, saveFailures = 0, since <= disk + 1
             PROVE  Cardinality(Repeated \ skipped) <= SaveInterval - 1 + Batch
  BY DEF ReplayBounded
<1>1. CASE disk \notin Records
  <2>1. Repeated \ skipped = {}
    BY <1>1 DEF Repeated
  <2> QED
    BY <2>1, FS_EmptySet, Sizes
<1>2. CASE disk \in Records
  <2>1. PICK last \in Nat : Bounded(last)
    BY <1>2 DEF ReplayInv
  <2>2. Repeated \ skipped \subseteq Span(last)
    <3>1. ASSUME NEW r \in Repeated \ skipped PROVE r \in Span(last)
      <4>1. r \in Handed /\ r \in Records /\ r > disk /\ r \notin skipped
        BY <1>2, <3>1 DEF Repeated, Handed, Typed
      <4>2. r \in Int /\ since <= r /\ disk < r
        BY <4>1 DEF Records, Typed
      <4>3. r <= last
        BY <2>1, <4>1, <4>2 DEF Bounded, Covers
      <4> QED
        BY <4>1, <4>2, <4>3 DEF Span
    <3> QED
      BY <3>1
  <2>3. Cardinality(Span(last)) <= SaveInterval - 1 + Batch
    BY <2>1 DEF Bounded
  <2>4. SaveInterval - 1 + Batch \in Int
    BY Sizes
  <2> QED
    BY <2>2, <2>3, <2>4, SpanFinite, Fewer
<1> QED
  BY <1>1, <1>2

LEMMA InitReplay == Init => HandedInv /\ ReplayInv
BY DEF Init, HandedInv, ReplayInv, Handed, Following, None, Records

LEMMA StepHanded == Typed /\ PlaceInv /\ HandedInv /\ [Next]_vars => HandedInv'
<1> SUFFICES ASSUME Typed, PlaceInv, HandedInv, [Next]_vars PROVE HandedInv'
  OBVIOUS
<1> USE DEF HandedInv, Handed
<1>1. CASE Subscribe \/ SubscribeUnreadable
  <2>1. PICK bookmark \in {None, disk} : bookmark # Invalid /\ SubscribeAt(bookmark)
    BY <1>1 DEF Subscribe, SubscribeUnreadable, None, Invalid
  <2>2. /\ mark' = bookmark /\ UNCHANGED <<logged, disk, held, safe, lost>>
        /\ \/ next' = logged + 1 /\ bookmark = None
           \/ next' = disk + 1 /\ bookmark = disk
    BY <2>1 DEF SubscribeAt, events
  <2>3. disk \in Int /\ logged \in Nat /\ disk <= logged
    BY DEF Typed, PlaceInv
  <2> QED
    BY <2>2, <2>3
<1>2. CASE HandleEvent \/ HandleFails
  <2>1. /\ Following /\ next <= logged /\ next' = next + 1 /\ mark' \in {mark, next}
        /\ UNCHANGED <<logged, disk, stage>> /\ Handed' \subseteq Handed \cup {next}
        /\ next \in Nat /\ disk \in Int /\ logged \in Nat
    BY <1>2 DEF HandleEvent, HandleFails, Following, Typed, PlaceInv
  <2>2. \A r \in Handed' : r <= logged'
    BY <2>1
  <2>3. disk' < next' /\ (mark' = None \/ disk' <= mark')
    BY <2>1
  <2> QED
    BY <2>2, <2>3
<1>3. CASE EndBatch \/ Close
  <2>1. /\ Following /\ UNCHANGED <<logged, next, mark, held, safe, lost>>
        /\ \/ disk' = mark /\ mark # None
           \/ disk' = disk
    BY <1>3 DEF EndBatch, Close, Persist, Following, loop, events
  <2>2. mark \in Nat /\ next \in Nat /\ mark < next
    BY <2>1 DEF Typed, PlaceInv
  <2> QED
    BY <2>1, <2>2
<1>4. CASE Fetch \/ FetchFails \/ Stop \/ Flush \/ UNCHANGED vars
  <2>1. /\ UNCHANGED <<logged, disk, next, mark>> /\ Handed' = Handed
        /\ Following' => Following
    BY <1>4 DEF Fetch, FetchFails, Stop, Flush, Following, vars, loop, events, bounds
  <2> QED
    BY <2>1
<1>5. CASE LogRecord
  <2>1. /\ logged' = logged + 1 /\ UNCHANGED <<disk, next, mark, stage, held, safe, lost>>
        /\ held \subseteq Records /\ safe \subseteq Records /\ lost \subseteq Records
        /\ logged \in Nat
    BY <1>5 DEF LogRecord, loop, events, Typed
  <2> QED
    BY <2>1 DEF Following, Records
<1>6. CASE Start \/ Leave \/ Die \/ DamageBookmark \/ SubscribeFails
  <2>1. UNCHANGED logged /\ ~Following' /\ Handed' = Handed
    BY <1>6 DEF Start, Leave, Die, DamageBookmark, SubscribeFails, Following, events
  <2> QED
    BY <2>1
<1> QED
  BY <1>1, <1>2, <1>3, <1>4, <1>5, <1>6 DEF Next, Thread

(* A step that hands over nothing and lets nothing out of the bookmark.    *)
LEMMA BoundStays ==
  ASSUME Typed, NEW last \in Nat, Bounded(last),
         Handed' \subseteq Handed, skipped \subseteq skipped', since' = since,
         disk' \in Int, disk <= disk'
  PROVE  Bounded(last)'
<1>1. disk \in Int /\ \A r \in Records : r \in Int
  BY DEF Typed, Records
<1>2. \A r \in Handed : r \in Records
  BY DEF Handed, Typed
<1>3. Covers(last)'
  <2>1. ASSUME NEW r \in Handed', since' <= r, disk' < r PROVE r <= last
    BY <1>1, <1>2, <2>1 DEF Bounded, Covers
  <2> QED
    BY <2>1 DEF Covers
<1>4. Span(last)' \subseteq Span(last)
  BY <1>1 DEF Span
<1>5. SaveInterval - 1 + Batch \in Int /\ Cardinality(Span(last)) <= SaveInterval - 1 + Batch
  BY Sizes DEF Bounded
<1>6. Cardinality(Span(last)') <= SaveInterval - 1 + Batch
  BY <1>4, <1>5, SpanFinite, Fewer
<1> QED
  BY <1>3, <1>6 DEF Bounded

(* The event that the loop hands over: either a session was beyond it, or  *)
(* it is the last one, and `unsaved` counts what leads to it.              *)
LEMMA HandleReplay ==
  ASSUME Typed, PlaceInv, SavedInv, SavedInv', ReplayInv, HandleEvent
  PROVE  ReplayInv'
<1> SUFFICES ASSUME saveFailures' = 0 PROVE \E last \in Nat : Bounded(last)'
  BY DEF ReplayInv
<1>1. /\ Following /\ stage' = "batch" /\ saveFailures = 0
      /\ mark' = next /\ next' = next + 1 /\ Handed' = Handed \cup {next}
      /\ UNCHANGED <<disk, since, skipped, upto>>
  BY DEF HandleEvent, Handed, Following, bounds
<1>2. PICK last \in Nat : Bounded(last)
  BY <1>1 DEF ReplayInv
<1>3. next \in Nat /\ upto \in Nat /\ unsaved \in Nat /\ unsaved' = unsaved + 1 /\ next <= upto
  BY DEF HandleEvent, Typed
<1>4. PICK here \in Nat : here = next
  BY <1>3
<1>5. CASE here <= last
  <2>1. Covers(last)'
    <3>1. ASSUME NEW r \in Handed', since' <= r, disk' < r PROVE r <= last
      BY <1>1, <1>2, <1>4, <1>5, <3>1 DEF Covers, Bounded
    <3> QED
      BY <3>1 DEF Covers
  <2>2. Span(last)' = Span(last)
    BY <1>1 DEF Span
  <2>3. Bounded(last)'
    BY <1>2, <2>1, <2>2 DEF Bounded
  <2> QED
    BY <2>3
<1>6. CASE here > last
  <2>1. Covers(here)'
    <3>1. ASSUME NEW r \in Handed', since' <= r, disk' < r PROVE r <= here
      <4>1. CASE r = here
        BY <4>1
      <4>2. CASE r \in Handed
        <5>1. r \in Int
          BY <4>2 DEF Handed, Typed, Records
        <5>2. r <= last
          BY <1>1, <1>2, <3>1, <4>2 DEF Covers, Bounded
        <5> QED
          BY <1>6, <5>1, <5>2
      <4> QED
        BY <1>1, <1>4, <3>1, <4>1, <4>2
    <3> QED
      BY <3>1 DEF Covers
  <2>2. Span(here)' = Behind'
    BY <1>1, <1>4 DEF Span, Behind
  <2>3. Following'
    BY <1>1 DEF Following
  <2>4. Cardinality(Behind') <= unsaved'
    BY <2>3 DEF SavedInv, CountedInv
  <2>5. unsaved + 1 <= SaveInterval - 1 + Batch
    <3>1. RoomFor(unsaved, next, upto)
      BY <1>1 DEF HandleEvent, SavedInv, RoomInv
    <3> QED
      BY <1>3, <3>1, Sizes DEF RoomFor
  <2>6. Cardinality(Span(here)') <= SaveInterval - 1 + Batch
    <3>1. Cardinality(Behind') \in Nat
      <4>1. Behind' \subseteq Records
        BY DEF Behind
      <4> QED
        BY <4>1, BehindFinite, FS_Subset, FS_CardinalityType
    <3>2. Cardinality(Span(here)') = Cardinality(Behind')
      BY <2>2
    <3> QED
      BY <1>3, <2>4, <2>5, <3>1, <3>2, Sizes
  <2>7. Bounded(here)'
    BY <2>1, <2>6 DEF Bounded
  <2> QED
    BY <2>7
<1> QED
  BY <1>5, <1>6

LEMMA SubscribeReplay ==
  ASSUME Typed, PlaceInv, HandedInv, ReplayInv, NEW bookmark \in {None, disk},
         bookmark # Invalid, SubscribeAt(bookmark)
  PROVE  ReplayInv'
<1> SUFFICES ASSUME saveFailures' = 0 PROVE \E last \in Nat : Bounded(last)'
  BY DEF ReplayInv
<1>1. UNCHANGED <<disk, held, safe, lost, skipped, logged>> /\ saveFailures = 0
  BY DEF SubscribeAt, events
<1>2. Handed' = Handed /\ disk \in Int
  BY <1>1 DEF Handed, Typed
<1>3. CASE bookmark = None
  <2>1. since' = logged + 1 /\ logged \in Nat
    BY <1>3 DEF SubscribeAt, Typed
  <2>2. \A r \in Handed : r \in Int /\ r <= logged
    BY DEF HandedInv, Handed, Typed, Records
  <2>3. Covers(0)'
    <3>1. ASSUME NEW r \in Handed', since' <= r PROVE FALSE
      BY <1>2, <2>1, <2>2, <3>1
    <3> QED
      BY <3>1 DEF Covers
  <2>4. Span(0)' = {}
    <3>1. \A r \in Records : ~(r <= 0)
      BY DEF Records
    <3> QED
      BY <3>1 DEF Span
  <2>5. Bounded(0)'
    BY <2>3, <2>4, FS_EmptySet, Sizes DEF Bounded
  <2> QED
    BY <2>5
<1>4. CASE bookmark # None
  <2>1. bookmark = disk /\ UNCHANGED since
    BY <1>4 DEF SubscribeAt
  <2>2. disk \in Records
    BY <1>4, <2>1, Sizes DEF Typed, None, Invalid, Records
  <2>3. PICK last \in Nat : Bounded(last)
    BY <1>1, <2>2 DEF ReplayInv
  <2>4. Bounded(last)'
    BY <1>1, <1>2, <2>1, <2>3, BoundStays
  <2> QED
    BY <2>4
<1> QED
  BY <1>3, <1>4

LEMMA StepReplay ==
  Typed /\ PlaceInv /\ SavedInv /\ SavedInv' /\ HandedInv /\ ReplayInv /\ [Next]_vars
  => ReplayInv'
<1> SUFFICES ASSUME Typed, PlaceInv, SavedInv, SavedInv', HandedInv, ReplayInv, [Next]_vars
             PROVE  ReplayInv'
  OBVIOUS
<1>1. CASE Subscribe \/ SubscribeUnreadable
  <2>1. PICK bookmark \in {None, disk} : bookmark # Invalid /\ SubscribeAt(bookmark)
    BY <1>1 DEF Subscribe, SubscribeUnreadable, None, Invalid
  <2> QED
    BY <2>1, SubscribeReplay
<1>2. CASE HandleEvent
  BY <1>2, HandleReplay
<1>3. CASE Fetch \/ FetchFails \/ HandleFails \/ EndBatch \/ Close \/ SubscribeFails
           \/ Start \/ Stop \/ Leave \/ Die \/ Flush \/ LogRecord \/ UNCHANGED vars
  <2> SUFFICES ASSUME saveFailures' = 0, Following' \/ disk' \in Records
               PROVE  \E last \in Nat : Bounded(last)'
    BY DEF ReplayInv
  <2>1. Handed' = Handed /\ skipped \subseteq skipped' /\ since' = since
    BY <1>3 DEF Fetch, FetchFails, HandleFails, EndBatch, Close, SubscribeFails, Start,
      Stop, Leave, Die, Flush, LogRecord, vars, events, Handed
  <2>2. saveFailures = 0 /\ saveFailures \in Nat
    <3>1. saveFailures \in Nat /\ (saveFailures' = saveFailures \/ saveFailures' = saveFailures + 1)
      BY <1>3 DEF Fetch, FetchFails, HandleFails, EndBatch, Close, SubscribeFails, Start,
        Stop, Leave, Die, Flush, LogRecord, vars, bounds, Persist, Typed
    <3> QED
      BY <3>1
  <2>3. \/ disk' = disk
        \/ Following /\ disk' = mark /\ mark # None
    BY <1>3 DEF Fetch, FetchFails, HandleFails, EndBatch, Close, SubscribeFails, Start,
      Stop, Leave, Die, Flush, LogRecord, vars, Persist, Following
  <2>4. disk' \in Int /\ disk <= disk'
    BY <2>3 DEF HandedInv, Typed
  <2>5. Following \/ disk \in Records
    <3>1. Following' => Following
      BY <1>3 DEF Fetch, FetchFails, HandleFails, EndBatch, Close, SubscribeFails, Start,
        Stop, Leave, Die, Flush, LogRecord, vars, Following
    <3> QED
      BY <2>3, <3>1
  <2>6. PICK last \in Nat : Bounded(last)
    BY <2>2, <2>5 DEF ReplayInv
  <2>7. Bounded(last)'
    BY <2>1, <2>4, <2>6, BoundStays
  <2> QED
    BY <2>7
<1>4. CASE DamageBookmark
  <2>1. disk' \notin Records /\ ~Following'
    BY <1>4, Sizes DEF DamageBookmark, None, Invalid, Records, Following
  <2> QED
    BY <2>1 DEF ReplayInv
<1> QED
  BY <1>1, <1>2, <1>3, <1>4 DEF Next, Thread

(* While no save failed, what a death of the service makes the next start  *)
(* give again, of all that was ever handed over, is less than a save       *)
(* interval and one batch of events, however many sessions died and however *)
(* many events raised and were skipped.  The one exception is the bookmark *)
(* that a start could not read: until one is saved beyond that start, the  *)
(* sessions on both sides of it are repeated.                              *)
THEOREM ReplayBoundedHolds == Spec => []ReplayBounded
<1>1. Init => Typed /\ PlaceInv /\ SavedInv /\ HandedInv /\ ReplayInv
  BY InitTyped, InitSaved, InitReplay
<1>2. Typed /\ PlaceInv /\ SavedInv /\ HandedInv /\ ReplayInv /\ [Next]_vars
      => (Typed /\ PlaceInv /\ SavedInv /\ HandedInv /\ ReplayInv)'
  BY StepTyped, StepSaved, StepHanded, StepReplay
<1> QED
  BY <1>1, <1>2, ReplayIsReplayBounded, PTL DEF Spec
=============================================================================
