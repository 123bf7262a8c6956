--------------------------- MODULE RunqLatProofs ---------------------------
(***************************************************************************)
(* The safety of runqlat for every number of CPUs, tasks, buckets and      *)
(* start_ts elements: IInv of RunqLat is inductive, with it ReportInv,     *)
(* which covers what main() reads, and the account SamplesAddUp; runqlat   *)
(* implements LatencyRecorder.                                             *)
(***************************************************************************)
EXTENDS RunqLat, SumsAndPowers

\* runqlat's loop counts some shift distances and clamps, so it names a slot.
LEMMA BucketInRange ==
  ASSUME NEW d
  PROVE  BucketOf(d) \in Buckets
<1> DEFINE S == {i \in 1 .. WORD_BITS - 1 : Shr(d, i) # 0}
           n == Cardinality(S)
<1>1. IsFiniteSet(1 .. WORD_BITS - 1)
  BY WordAssumption, FS_Interval
<1>2. n \in Nat
  BY <1>1, FS_Subset, FS_CardinalityType
<1>3. MAX_SLOTS - 1 \in Nat
  BY SlotsAssumption
<1> HIDE DEF n
<1>4. Min({MAX_SLOTS - 1, n}) \in {MAX_SLOTS - 1, n} /\ Min({MAX_SLOTS - 1, n}) <= MAX_SLOTS - 1
  <2>1. \E m \in {MAX_SLOTS - 1, n} : \A y \in {MAX_SLOTS - 1, n} : m <= y
    BY <1>2, <1>3
  <2> QED
    BY <2>1 DEF Min
<1>5. Min({MAX_SLOTS - 1, n}) \in Buckets
  BY <1>2, <1>3, <1>4 DEF Buckets
<1> QED
  BY <1>5 DEF BucketOf, runqlat_log2_bucket_u64, n

\* Sets of tasks are finite and are counted by a natural number.
LEMMA TaskSets ==
  ASSUME NEW S \in SUBSET Tasks
  PROVE  IsFiniteSet(S) /\ Cardinality(S) \in Nat
BY RunqLatAssumption, FS_Subset, FS_CardinalityType

\* The stale starts grow by one task at most when a step adds one task.
LEMMA CountWithin ==
  ASSUME NEW S \in SUBSET Tasks, NEW T, NEW t \in Tasks, T \in SUBSET (S \cup {t})
  PROVE  Cardinality(T) <= Cardinality(S) + 1
<1>1. IsFiniteSet(S) /\ IsFiniteSet(S \cup {t})
  BY TaskSets
<1>2. Cardinality(T) <= Cardinality(S \cup {t})
  BY <1>1, FS_Subset
<1>3. Cardinality(S \cup {t}) <= Cardinality(S) + 1
  BY <1>1, TaskSets, FS_AddElement
<1> QED
  BY <1>2, <1>3, TaskSets

LEMMA CountMonotone ==
  ASSUME NEW S \in SUBSET Tasks, NEW T \in SUBSET S
  PROVE  Cardinality(T) <= Cardinality(S)
BY TaskSets, FS_Subset

LEMMA CountRemove ==
  ASSUME NEW S \in SUBSET Tasks, NEW t \in S
  PROVE  Cardinality(S \ {t}) = Cardinality(S) - 1
BY TaskSets, FS_RemoveElement

\* IInv holds before anything has happened.
LEMMA InitIInv == Init => IInv
<1> SUFFICES ASSUME Init PROVE IInv
  OBVIOUS
<1> USE DEF Init
<1>1. ProbeTypeOK
  BY SlotsAssumption DEF ProbeTypeOK, NoHandler, Buckets
<1>2. Stale = {} /\ \A c \in Cpus, b \in Buckets : Due(c, b) = 0
  BY DEF Stale, Due, NoHandler
<1>3. Cardinality({}) = 0
  BY FS_EmptySet
<1>4. NoSampleInvented /\ NoSampleLost /\ StaleStartsAreExplained
  BY <1>2, <1>3 DEF NoSampleInvented, NoSampleLost, StaleStartsAreExplained
<1>5. StartMatchesWait
  BY RunqLatAssumption DEF StartMatchesWait, NoHandler
<1> QED
  BY <1>1, <1>4, <1>5 DEF IInv

\* A step that leaves the scheduler, the programs, the maps and the history
\* alone, and does not turn the clock back, keeps IInv.
LEMMA ProbeUnchanged ==
  ASSUME IInv, UNCHANGED <<start_ts, hist, schedVars, handler, history>>,
         clock' \in Nat, clock <= clock'
  PROVE  IInv'
<1> USE DEF IInv, schedVars, history
<1>1. ProbeTypeOK'
  BY DEF ProbeTypeOK
<1>2. StartMatchesWait'
  <2> SUFFICES ASSUME NEW t \in Tasks, woken[t] # Absent
               PROVE  woken[t] <= clock'
    BY DEF StartMatchesWait
  <2>1. woken[t] <= clock /\ woken[t] \in Nat /\ clock \in Nat
    BY DEF StartMatchesWait, ProbeTypeOK
  <2> QED
    BY <2>1
<1>3. /\ Stale' = Stale
      /\ \A c \in Cpus, b \in Buckets : Due(c, b)' = Due(c, b)
  BY DEF Stale, Due, InHand
<1>4. NoSampleInvented' /\ NoSampleLost' /\ StaleStartsAreExplained'
  BY <1>3 DEF NoSampleInvented, NoSampleLost, StaleStartsAreExplained
<1> QED
  BY <1>1, <1>2, <1>4

\* main() only reads the probe's state, and time only passes.
LEMMA MainStep == ASSUME IInv, main \/ Tick \/ UNCHANGED vars PROVE IInv'
<1>1. clock' \in Nat /\ clock <= clock'
  BY RunqLatAssumption DEF main, Tick, vars, IInv, ProbeTypeOK
<1> QED
  BY <1>1, ProbeUnchanged DEF main, Tick, vars

\* A task sets its own state, or a dead task's tid is used again: neither a
\* program nor a map is involved.
LEMMA TaskStep ==
  ASSUME IInv, NEW t \in Tasks, SetState(t) \/ Fork(t)
  PROVE  IInv'
<1> USE DEF IInv, SetState, Fork, history
<1>1. ProbeTypeOK' /\ \A u \in Tasks : task'[u] = "dead" => ~sleepy'[u]
  BY DEF ProbeTypeOK, schedVars
<1>2. StartMatchesWait'
  BY DEF StartMatchesWait, ProbeTypeOK
<1>3. /\ Stale' = Stale
      /\ \A c \in Cpus, b \in Buckets : Due(c, b)' = Due(c, b)
  BY DEF Stale, Due, InHand
<1>4. NoSampleInvented' /\ NoSampleLost' /\ StaleStartsAreExplained'
  BY <1>3 DEF NoSampleInvented, NoSampleLost, StaleStartsAreExplained
<1> QED
  BY <1>1, <1>2, <1>4

\* A seen wakeup of a task that is off the CPUs starts its wait, with a start
\* unless there is no room; one of a task on a CPU may leave a stale start.
LEMMA WakeStep ==
  ASSUME IInv, NEW t \in Tasks, NEW runs \in BOOLEAN, Wake(t, runs)
  PROVE  IInv'
<1> USE DEF IInv, Wake
<1>1. /\ start_ts' \in [Tasks -> Nat \cup {Absent}]
      /\ start_ts'[t] \in {start_ts[t], clock}
      /\ \A u \in Tasks : u # t => start_ts'[u] = start_ts[u]
      /\ start_ts' # start_ts => start_ts'[t] = clock
  BY DEF ProbeTypeOK, runqlat_wakeup, MapUpdate
<1>2. /\ woken' \in [Tasks -> Nat \cup {Absent}]
      /\ \A u \in Tasks : u # t => woken'[u] = woken[u]
      /\ woken'[t] # woken[t] => woken'[t] = clock /\ task[t] # "running"
      /\ wakes' \in Nat /\ spurious' \in Nat /\ spurious <= spurious'
  BY DEF ProbeTypeOK
<1>3. /\ task' \in [Tasks -> {"asleep", "queued", "running", "dead"}]
      /\ sleepy' \in [Tasks -> BOOLEAN] /\ sleepy'[t] = FALSE
      /\ \A u \in Tasks : u # t => task'[u] = task[u] /\ sleepy'[u] = sleepy[u]
      /\ task[t] # "dead"
      /\ task[t] = "running" => task'[t] = "running"
      /\ task[t] # "running" => task'[t] = "queued"
  BY DEF ProbeTypeOK
<1>4. ProbeTypeOK' /\ \A u \in Tasks : task'[u] = "dead" => ~sleepy'[u]
  BY <1>1, <1>2, <1>3 DEF ProbeTypeOK
<1>5. ASSUME woken'[t] # Absent
      PROVE  /\ task'[t] = "queued" /\ woken'[t] <= clock
             /\ start_ts'[t] \in {woken'[t], Absent}
  <2>1. CASE FirstAttached /\ runs /\ task[t] # "running"
    BY <2>1, <1>3 DEF ProbeTypeOK, runqlat_wakeup, MapUpdate, HasRoom
  <2>2. CASE FirstAttached /\ runs /\ task[t] = "running"
    BY <2>2, <1>5 DEF StartMatchesWait
  <2>3. CASE ~(FirstAttached /\ runs)
    BY <2>3, <1>3, <1>5 DEF StartMatchesWait
  <2> QED
    BY <2>1, <2>2, <2>3
<1>6. StartMatchesWait'
  <2>1. \A u \in Tasks : woken'[u] # Absent =>
          /\ task'[u] = "queued" /\ woken'[u] <= clock
          /\ start_ts'[u] \in {woken'[u], Absent}
    BY <1>1, <1>2, <1>3, <1>5 DEF StartMatchesWait
  <2>2. \A c \in Cpus : curr[c] # Idle => task'[curr[c]] = "running"
    BY <1>3 DEF StartMatchesWait, ProbeTypeOK
  <2>3. \A c \in Cpus : handler[c].pc # "none" => start_ts'[curr[c]] # Absent
    BY <1>1 DEF StartMatchesWait, InHand, ProbeTypeOK
  <2> QED
    BY <2>1, <2>2, <2>3 DEF StartMatchesWait
<1>7. \A c \in Cpus, b \in Buckets : Due(c, b)' = Due(c, b)
  BY DEF Due
<1>8. NoSampleInvented' /\ NoSampleLost'
  BY <1>7 DEF NoSampleInvented, NoSampleLost
<1>9. \A u \in Tasks : InHand(u)' = InHand(u)
  BY DEF InHand
<1>10. Stale \in SUBSET Tasks /\ Stale' \in SUBSET Tasks
  BY DEF Stale
<1>11. StaleStartsAreExplained'
  <2>1. CASE start_ts' = start_ts \/ woken'[t] # Absent
    <3>1. woken'[t] = Absent => woken[t] = Absent
      BY DEF ProbeTypeOK, Absent
    <3>2. Stale' \in SUBSET Stale
      BY <1>1, <1>2, <1>9, <2>1, <3>1 DEF Stale
    <3>3. Cardinality(Stale') <= Cardinality(Stale)
      BY <3>2, <1>10, CountMonotone
    <3> QED
      BY <3>3, <1>2, <1>10, TaskSets DEF StaleStartsAreExplained, ProbeTypeOK
  <2>2. CASE start_ts' # start_ts /\ woken'[t] = Absent
    <3>1. spurious' = spurious + 1
      BY <2>2 DEF ProbeTypeOK, Absent
    <3>2. Stale' \in SUBSET (Stale \cup {t})
      BY <1>1, <1>2, <1>9 DEF Stale
    <3>3. Cardinality(Stale') <= Cardinality(Stale) + 1
      BY <3>2, <1>10, CountWithin
    <3> QED
      BY <3>1, <3>3, <1>10, TaskSets DEF StaleStartsAreExplained, ProbeTypeOK
  <2> QED
    BY <2>1, <2>2
<1> QED
  BY <1>4, <1>6, <1>8, <1>11

\* One more in a cell of a two-dimensional histogram.
LEMMA CellIncrement ==
  ASSUME NEW h \in [Cpus -> [Buckets -> Nat]], NEW c \in Cpus, NEW b \in Buckets,
         NEW g, g = [h EXCEPT ![c] = Increment(@, b)]
  PROVE  /\ g \in [Cpus -> [Buckets -> Nat]]
         /\ g[c][b] = h[c][b] + 1
         /\ \A d \in Cpus, e \in Buckets : ~(d = c /\ e = b) => g[d][e] = h[d][e]
BY DEF Increment

\* What a switch of CPU c to next does to the two tasks, to c and to the others.
SwitchEffects(c, next) ==
  /\ handler[c].pc = "none" /\ ~InHand(next)
  /\ curr' \in [Cpus -> Tasks \cup {Idle}] /\ curr'[c] = next
  /\ \A d \in Cpus : d # c => curr'[d] = curr[d] /\ (next # Idle => curr[d] # next)
  /\ task' \in [Tasks -> {"asleep", "queued", "running", "dead"}]
  /\ sleepy' \in [Tasks -> BOOLEAN]
  /\ \A t \in Tasks : task'[t] = "dead" => ~sleepy'[t]
  /\ \A d \in Cpus : curr'[d] # Idle => task'[curr'[d]] = "running"
  /\ woken' \in [Tasks -> Nat \cup {Absent}]
  /\ next # Idle => woken'[next] = Absent
  /\ \A t \in Tasks : t # next => woken'[t] = woken[t]
  /\ \A t \in Tasks : woken'[t] # Absent => task'[t] = "queued"

LEMMA SwitchedFacts ==
  ASSUME IInv, NEW c \in Cpus, NEW next \in Tasks \cup {Idle}, NEW fate \in Fates,
         Switched(c, next, fate)
  PROVE  SwitchEffects(c, next)
<1> USE DEF IInv, Switched, ProbeTypeOK
<1>1. /\ handler[c].pc = "none"
      /\ curr' \in [Cpus -> Tasks \cup {Idle}] /\ curr'[c] = next
      /\ next # Idle => task[next] = "queued"
      /\ \A d \in Cpus : d # c => curr'[d] = curr[d]
  OBVIOUS
<1>2. /\ \A d \in Cpus : curr[d] # Idle => curr[d] \in Tasks /\ task[curr[d]] = "running"
      /\ \A d \in Cpus : d # c /\ curr[d] # Idle => curr[d] # curr[c]
  BY DEF StartMatchesWait
<1>3. ~InHand(next) /\ \A d \in Cpus : next # Idle => curr[d] # next
  BY <1>1, <1>2 DEF InHand, StartMatchesWait
<1>4. /\ DOMAIN task' = Tasks
      /\ \A t \in Tasks : t = next => task'[t] = "running"
      /\ \A t \in Tasks : t # next /\ t = curr[c] => task'[t] = fate
      /\ \A t \in Tasks : t # next /\ t # curr[c] => task'[t] = task[t]
  OBVIOUS
<1>5. task' \in [Tasks -> {"asleep", "queued", "running", "dead"}]
  <2>1. \A t \in Tasks : task'[t] \in {"asleep", "queued", "running", "dead"}
    BY <1>4 DEF Fates
  <2>2. task' = [t \in Tasks |-> task'[t]]
    OBVIOUS
  <2> QED
    BY <2>1, <2>2
<1>6. /\ sleepy' \in [Tasks -> BOOLEAN]
      /\ \A t \in Tasks : sleepy'[t] => sleepy[t] /\ ~(t = curr[c] /\ fate = "dead")
  OBVIOUS
<1>7. \A t \in Tasks : task'[t] = "dead" => ~sleepy'[t]
  BY <1>4, <1>6
<1>8. \A d \in Cpus : curr'[d] # Idle => task'[curr'[d]] = "running"
  BY <1>1, <1>2, <1>3, <1>4
<1>9. /\ woken' \in [Tasks -> Nat \cup {Absent}]
      /\ next # Idle => woken'[next] = Absent
      /\ \A t \in Tasks : t # next => woken'[t] = woken[t]
  OBVIOUS
<1>10. ASSUME NEW t \in Tasks, woken'[t] # Absent
       PROVE  task'[t] = "queued"
  <2>1. t # next /\ task[t] = "queued"
    BY <1>9, <1>10, RunqLatAssumption DEF StartMatchesWait
  <2>2. t # curr[c]
    BY <2>1, <1>2, RunqLatAssumption
  <2> QED
    BY <2>1, <2>2, <1>4
<1> QED
  BY <1>1, <1>3, <1>5, <1>6, <1>7, <1>8, <1>9, <1>10 DEF SwitchEffects

\* A switch with a sample: of the true wait since the wakeup, or, if the task
\* waits since none, a phantom that takes a start out of the stale ones.
LEMMA SwitchSampledStep ==
  ASSUME IInv, NEW c \in Cpus, NEW next \in Tasks, NEW fate \in Fates,
         SwitchSampled(c, next, fate)
  PROVE  IInv'
<1> USE DEF IInv, SwitchSampled
<1>0. SwitchEffects(c, next)
  BY SwitchedFacts
<1> DEFINE b0 == BucketOf(clock - start_ts[next])
<1>1. /\ b0 \in Buckets /\ next # Idle /\ start_ts[next] # Absent
      /\ handler' = [handler EXCEPT ![c] = [pc |-> "load", b |-> b0, cnt |-> 0]]
  BY BucketInRange DEF runqlat_switch
<1>2. woken[next] # Absent => BucketOf(clock - woken[next]) = b0
  BY <1>1 DEF StartMatchesWait
<1> HIDE DEF b0
<1>3. /\ handler' \in [Cpus -> [pc : {"none", "load", "store", "delete"},
                               b : Buckets, cnt : Nat]]
      /\ handler'[c].pc = "load" /\ handler'[c].b = b0
      /\ \A d \in Cpus : d # c => handler'[d] = handler[d]
  BY <1>1 DEF ProbeTypeOK
<1>4. /\ truth' \in [Cpus -> [Buckets -> Nat]]
      /\ \A d \in Cpus, b \in Buckets :
           truth'[d][b] = truth[d][b]
                            + IF woken[next] # Absent /\ d = c /\ b = b0 THEN 1 ELSE 0
  <2>1. truth \in [Cpus -> [Buckets -> Nat]]
    BY DEF ProbeTypeOK
  <2>2. CASE woken[next] # Absent
    <3>1. truth' = [truth EXCEPT ![c] = Increment(@, b0)]
      BY <2>2, <1>2
    <3>2. b0 \in Buckets
      BY <1>1
    <3> HIDE DEF IInv, SwitchSampled
    <3>3. /\ truth' \in [Cpus -> [Buckets -> Nat]]
          /\ truth'[c][b0] = truth[c][b0] + 1
          /\ \A d \in Cpus, b \in Buckets : ~(d = c /\ b = b0) => truth'[d][b] = truth[d][b]
      BY <2>1, <3>1, <3>2, CellIncrement
    <3>4. \A d \in Cpus, b \in Buckets : truth[d][b] \in Nat
      BY <2>1
    <3> QED
      BY <2>2, <3>3, <3>4
  <2>3. CASE woken[next] = Absent
    BY <2>1, <2>3
  <2> QED
    BY <2>2, <2>3
<1>5. phantom' = phantom + (IF woken[next] # Absent THEN 0 ELSE 1) /\ phantom' \in Nat
      /\ slow' \in Nat
  BY DEF ProbeTypeOK
<1>6. ProbeTypeOK' /\ \A t \in Tasks : task'[t] = "dead" => ~sleepy'[t]
  BY <1>3, <1>4, <1>5, <1>0 DEF SwitchEffects, ProbeTypeOK
<1>7. StartMatchesWait'
  <2>1. \A t \in Tasks : woken'[t] # Absent =>
          /\ task'[t] = "queued" /\ woken'[t] <= clock
          /\ start_ts[t] \in {woken'[t], Absent}
    BY <1>1, <1>0 DEF SwitchEffects, StartMatchesWait
  <2>2. \A d, e \in Cpus : curr'[d] = curr'[e] /\ curr'[d] # Idle => d = e
    BY <1>1, <1>0 DEF SwitchEffects, StartMatchesWait
  <2>3. \A d \in Cpus : handler'[d].pc # "none" =>
          curr'[d] # Idle /\ start_ts[curr'[d]] # Absent
    BY <1>1, <1>3, <1>0 DEF SwitchEffects, StartMatchesWait
  <2>4. \A d \in Cpus : handler'[d].pc = "store" => handler'[d].cnt = hist[d][handler'[d].b]
    BY <1>3 DEF StartMatchesWait
  <2> QED
    BY <2>1, <2>2, <2>3, <2>4, <1>0 DEF SwitchEffects, StartMatchesWait
<1>8. \A d \in Cpus, b \in Buckets :
        /\ Due(d, b) \in Nat
        /\ Due(d, b)' = Due(d, b) + IF d = c /\ b = b0 THEN 1 ELSE 0
  BY <1>3, <1>0 DEF SwitchEffects, Due
<1>9. NoSampleInvented' /\ NoSampleLost'
  <2> SUFFICES ASSUME NEW d \in Cpus, NEW b \in Buckets
               PROVE  /\ hist[d][b] + Due(d, b)' <= truth'[d][b] + phantom'
                      /\ truth'[d][b] <= hist[d][b] + Due(d, b)' + lost
    BY DEF NoSampleInvented, NoSampleLost
  <2>1. /\ hist[d][b] \in Nat /\ truth[d][b] \in Nat /\ {phantom, lost} \subseteq Nat
        /\ hist[d][b] + Due(d, b) <= truth[d][b] + phantom
        /\ truth[d][b] <= hist[d][b] + Due(d, b) + lost
    BY DEF NoSampleInvented, NoSampleLost, ProbeTypeOK
  <2> HIDE DEF IInv, SwitchSampled
  <2> QED
    BY <2>1, <1>4, <1>5, <1>8
<1>10. Stale' = Stale \ {next}
  <2>1. ASSUME NEW t \in Tasks, t # next PROVE InHand(t)' = InHand(t)
    <3>1. \A d \in Cpus :
            curr'[d] = t /\ handler'[d].pc # "none" <=> curr[d] = t /\ handler[d].pc # "none"
      BY <1>3, <2>1, <1>0 DEF SwitchEffects
    <3> QED
      BY <3>1 DEF InHand
  <2>2. InHand(next)'
    BY <1>3, <1>0 DEF SwitchEffects, InHand
  <2> QED
    BY <2>1, <2>2, <1>1, <1>0 DEF SwitchEffects, Stale
<1>11. Stale \in SUBSET Tasks
  BY DEF Stale
<1>12. StaleStartsAreExplained'
  <2>1. CASE woken[next] # Absent
    <3>1. Stale' = Stale
      BY <2>1, <1>10 DEF Stale
    <3> QED
      BY <2>1, <3>1, <1>5, <1>11, TaskSets DEF StaleStartsAreExplained, ProbeTypeOK
  <2>2. CASE woken[next] = Absent
    <3>1. next \in Stale
      BY <2>2, <1>1, <1>0 DEF SwitchEffects, Stale
    <3>2. Cardinality(Stale') = Cardinality(Stale) - 1
      BY <3>1, <1>10, <1>11, CountRemove
    <3> QED
      BY <2>2, <3>2, <1>5, <1>11, TaskSets DEF StaleStartsAreExplained, ProbeTypeOK
  <2> QED
    BY <2>1, <2>2
<1> QED
  BY <1>6, <1>7, <1>9, <1>12

\* A switch without a sample: the start of a task that waited since a seen
\* wakeup becomes stale and the wait is counted as lost.
LEMMA SwitchUnsampledStep ==
  ASSUME IInv, NEW c \in Cpus, NEW next \in Tasks \cup {Idle}, NEW fate \in Fates,
         NEW runs \in BOOLEAN, SwitchUnsampled(c, next, fate, runs)
  PROVE  IInv'
<1> USE DEF IInv, SwitchUnsampled
<1>0. SwitchEffects(c, next)
  BY SwitchedFacts
<1> DEFINE ended == next # Idle /\ woken[next] # Absent
           b0 == BucketOf(clock - woken[next])
<1>1. b0 \in Buckets
  BY BucketInRange
<1> HIDE DEF b0
<1>2. /\ truth' \in [Cpus -> [Buckets -> Nat]]
      /\ \A d \in Cpus, b \in Buckets :
           truth'[d][b] = truth[d][b] + IF ended /\ d = c /\ b = b0 THEN 1 ELSE 0
      /\ lost' = lost + (IF ended THEN 1 ELSE 0) /\ lost' \in Nat
  <2>1. truth \in [Cpus -> [Buckets -> Nat]] /\ lost \in Nat
    BY DEF ProbeTypeOK
  <2>2. CASE ended
    <3>1. truth' = [truth EXCEPT ![c] = Increment(@, b0)] /\ lost' = lost + 1
      BY <2>2 DEF b0
    <3> HIDE DEF IInv, SwitchUnsampled, ended
    <3> QED
      BY <2>1, <2>2, <3>1, <1>1, CellIncrement
  <2>3. CASE ~ended
    BY <2>1, <2>3
  <2> QED
    BY <2>2, <2>3
<1>3. ProbeTypeOK' /\ \A t \in Tasks : task'[t] = "dead" => ~sleepy'[t]
  BY <1>2, <1>0 DEF SwitchEffects, ProbeTypeOK
<1>4. StartMatchesWait'
  <2>1. \A t \in Tasks : woken'[t] # Absent =>
          /\ task'[t] = "queued" /\ woken'[t] <= clock
          /\ start_ts[t] \in {woken'[t], Absent}
    BY <1>0, RunqLatAssumption DEF SwitchEffects, StartMatchesWait
  <2>2. \A d, e \in Cpus : curr'[d] = curr'[e] /\ curr'[d] # Idle => d = e
    BY <1>0 DEF SwitchEffects, StartMatchesWait
  <2>3. \A d \in Cpus : handler[d].pc # "none" =>
          curr'[d] # Idle /\ start_ts[curr'[d]] # Absent
    BY <1>0 DEF SwitchEffects, StartMatchesWait
  <2> QED
    BY <2>1, <2>2, <2>3, <1>0 DEF SwitchEffects, StartMatchesWait
<1>5. \A d \in Cpus, b \in Buckets : Due(d, b) \in Nat /\ Due(d, b)' = Due(d, b)
  BY DEF Due
<1>6. NoSampleInvented' /\ NoSampleLost'
  <2> SUFFICES ASSUME NEW d \in Cpus, NEW b \in Buckets
               PROVE  /\ hist[d][b] + Due(d, b) <= truth'[d][b] + phantom
                      /\ truth'[d][b] <= hist[d][b] + Due(d, b) + lost'
    BY <1>5 DEF NoSampleInvented, NoSampleLost
  <2>1. /\ hist[d][b] \in Nat /\ truth[d][b] \in Nat /\ {phantom, lost} \subseteq Nat
        /\ hist[d][b] + Due(d, b) <= truth[d][b] + phantom
        /\ truth[d][b] <= hist[d][b] + Due(d, b) + lost
    BY DEF NoSampleInvented, NoSampleLost, ProbeTypeOK
  <2> HIDE DEF IInv, SwitchUnsampled, ended
  <2> QED
    BY <2>1, <1>2, <1>5
<1>7. \A t \in Tasks : InHand(t)' = InHand(t)
  BY <1>0 DEF SwitchEffects, InHand
<1>8. Stale \in SUBSET Tasks
  BY DEF Stale
<1>9. StaleStartsAreExplained'
  <2>1. CASE ended
    <3>1. Stale' \in SUBSET (Stale \cup {next})
      BY <1>7, <1>0 DEF SwitchEffects, Stale
    <3>2. Cardinality(Stale') <= Cardinality(Stale) + 1
      BY <2>1, <3>1, <1>8, CountWithin
    <3>3. Stale' \in SUBSET Tasks
      BY DEF Stale
    <3>4. /\ Cardinality(Stale) \in Nat /\ Cardinality(Stale') \in Nat
          /\ {lost, phantom, spurious} \subseteq Nat
          /\ Cardinality(Stale) + phantom <= lost + spurious
      BY <3>3, <1>8, TaskSets DEF StaleStartsAreExplained, ProbeTypeOK
    <3>5. lost' = lost + 1 /\ phantom' = phantom /\ spurious' = spurious
      BY <2>1, <1>2
    <3> HIDE DEF IInv, SwitchUnsampled, ended
    <3> QED
      BY <3>2, <3>4, <3>5 DEF StaleStartsAreExplained
  <2>2. CASE ~ended
    <3>1. \A t \in Tasks : woken'[t] = woken[t]
      BY <2>2, <1>0, RunqLatAssumption DEF SwitchEffects
    <3>2. Stale' = Stale
      BY <3>1, <1>7 DEF Stale
    <3> QED
      BY <2>2, <3>2, <1>2 DEF StaleStartsAreExplained, ProbeTypeOK
  <2> QED
    BY <2>1, <2>2
<1> QED
  BY <1>3, <1>4, <1>6, <1>9

\* The load half of the increment: no other CPU has a hand in this row.
LEMMA LoadStep ==
  ASSUME IInv, NEW c \in Cpus, SwitchLoad(c)
  PROVE  IInv'
<1> USE DEF IInv, SwitchLoad, schedVars, history
<1> DEFINE b0 == handler[c].b
           n == hist[c][b0]
<1>1. /\ handler' \in [Cpus -> [pc : {"none", "load", "store", "delete"},
                               b : Buckets, cnt : Nat]]
      /\ handler[c].pc = "load" /\ handler'[c].pc = "store"
      /\ handler'[c].b = b0 /\ handler'[c].cnt = hist[c][b0]
      /\ \A d \in Cpus : d # c => handler'[d] = handler[d]
  <2>1. /\ handler \in [Cpus -> [pc : {"none", "load", "store", "delete"},
                                  b : Buckets, cnt : Nat]]
        /\ b0 \in Buckets /\ n \in Nat
    BY DEF ProbeTypeOK
  <2>2. handler[c].pc = "load"
        /\ handler' = [handler EXCEPT ![c].pc = "store", ![c].cnt = n]
    BY DEF cell
  <2> HIDE DEF n, IInv, SwitchLoad
  <2> QED
    BY <2>1, <2>2 DEF n
<1>2. ProbeTypeOK'
  BY <1>1 DEF ProbeTypeOK
<1>3. StartMatchesWait'
  BY <1>1 DEF StartMatchesWait
<1>4. Stale' = Stale
  BY <1>1 DEF Stale, InHand
<1>5. \A d \in Cpus, b \in Buckets : Due(d, b)' = Due(d, b)
  BY <1>1 DEF Due
<1> QED
  BY <1>2, <1>3, <1>4, <1>5 DEF NoSampleInvented, NoSampleLost, StaleStartsAreExplained

\* The store half: the count is still the one that was loaded, so it grows by
\* the one sample that was due.
LEMMA StoreStep ==
  ASSUME IInv, NEW c \in Cpus, SwitchStore(c)
  PROVE  IInv'
<1> USE DEF IInv, SwitchStore, schedVars, history
<1> DEFINE b0 == handler[c].b
<1>1. /\ handler' \in [Cpus -> [pc : {"none", "load", "store", "delete"},
                               b : Buckets, cnt : Nat]]
      /\ handler[c].pc = "store" /\ handler'[c].pc = "delete" /\ handler'[c].b = b0
      /\ \A d \in Cpus : d # c => handler'[d] = handler[d]
      /\ b0 \in Buckets
  BY DEF ProbeTypeOK
<1>2. /\ hist' \in [Cpus -> [Buckets -> Nat]]
      /\ \A d \in Cpus, b \in Buckets :
           hist'[d][b] = hist[d][b] + IF d = c /\ b = b0 THEN 1 ELSE 0
      /\ \A d \in Cpus : d # c => hist'[d] = hist[d]
  BY <1>1 DEF ProbeTypeOK, StartMatchesWait, cell
<1>3. ProbeTypeOK'
  BY <1>1, <1>2 DEF ProbeTypeOK
<1>4. StartMatchesWait'
  BY <1>1, <1>2 DEF StartMatchesWait
<1>5. Stale' = Stale
  BY <1>1 DEF Stale, InHand
<1>6. \A d \in Cpus, b \in Buckets :
        /\ Due(d, b) \in Nat
        /\ Due(d, b)' = Due(d, b) - IF d = c /\ b = b0 THEN 1 ELSE 0
  BY <1>1 DEF Due
<1>7. NoSampleInvented' /\ NoSampleLost'
  BY <1>2, <1>6 DEF NoSampleInvented, NoSampleLost, ProbeTypeOK
<1> QED
  BY <1>3, <1>4, <1>5, <1>7 DEF StaleStartsAreExplained

\* The delete ends the program with the start of its task gone.
LEMMA DeleteStep ==
  ASSUME IInv, NEW c \in Cpus, SwitchDelete(c)
  PROVE  IInv'
<1> USE DEF IInv, SwitchDelete, schedVars, history
<1> DEFINE t0 == curr[c]
<1>1. /\ handler' \in [Cpus -> [pc : {"none", "load", "store", "delete"},
                               b : Buckets, cnt : Nat]]
      /\ handler[c].pc = "delete" /\ handler'[c].pc = "none"
      /\ \A d \in Cpus : d # c => handler'[d] = handler[d]
  BY SlotsAssumption DEF ProbeTypeOK, NoHandler, Buckets
<1>2. /\ t0 \in Tasks /\ task[t0] = "running" /\ woken[t0] = Absent
      /\ \A d \in Cpus : d # c => curr[d] # t0
  BY <1>1 DEF ProbeTypeOK, StartMatchesWait
<1>3. /\ start_ts' \in [Tasks -> Nat \cup {Absent}]
      /\ start_ts'[t0] = Absent
      /\ \A t \in Tasks : t # t0 => start_ts'[t] = start_ts[t]
  BY <1>2 DEF ProbeTypeOK, end_start, MapDelete
<1>4. ProbeTypeOK'
  BY <1>1, <1>3 DEF ProbeTypeOK
<1>5. StartMatchesWait'
  <2>1. \A d \in Cpus : handler'[d].pc # "none" =>
          curr[d] # Idle /\ start_ts'[curr[d]] # Absent
    BY <1>1, <1>2, <1>3 DEF StartMatchesWait, ProbeTypeOK
  <2>2. \A t \in Tasks : woken[t] # Absent => start_ts'[t] \in {woken[t], Absent}
    BY <1>2, <1>3 DEF StartMatchesWait
  <2> QED
    BY <1>1, <2>1, <2>2 DEF StartMatchesWait
<1>6. Stale' = Stale
  <2>1. \A t \in Tasks : t # t0 => InHand(t)' = InHand(t)
    BY <1>1 DEF InHand
  <2>2. InHand(t0)
    BY <1>1 DEF InHand
  <2> QED
    BY <2>1, <2>2, <1>3 DEF Stale
<1>7. \A d \in Cpus, b \in Buckets : Due(d, b)' = Due(d, b)
  BY <1>1 DEF Due
<1> QED
  BY <1>4, <1>5, <1>6, <1>7 DEF NoSampleInvented, NoSampleLost, StaleStartsAreExplained

\* Every step keeps IInv: one case per disjunct of Next.
LEMMA NextIInv == IInv /\ [Next]_vars => IInv'
<1> SUFFICES ASSUME IInv, [Next]_vars PROVE IInv'
  OBVIOUS
<1>1. CASE main \/ Tick \/ UNCHANGED vars
  BY <1>1, MainStep
<1>2. CASE \E t \in Tasks : SetState(t) \/ Fork(t)
  BY <1>2, TaskStep
<1>3. CASE \E t \in Tasks, runs \in BOOLEAN : Wake(t, runs)
  BY <1>3, WakeStep
<1>4. CASE \E c \in Cpus, next \in Tasks, fate \in Fates : SwitchSampled(c, next, fate)
  BY <1>4, SwitchSampledStep
<1>5. CASE \E c \in Cpus, next \in Tasks \cup {Idle}, fate \in Fates, runs \in BOOLEAN :
             SwitchUnsampled(c, next, fate, runs)
  BY <1>5, SwitchUnsampledStep
<1>6. CASE \E c \in Cpus : SwitchLoad(c)
  BY <1>6, LoadStep
<1>7. CASE \E c \in Cpus : SwitchStore(c)
  BY <1>7, StoreStep
<1>8. CASE \E c \in Cpus : SwitchDelete(c)
  BY <1>8, DeleteStep
<1> QED
  BY <1>1, <1>2, <1>3, <1>4, <1>5, <1>6, <1>7, <1>8 DEF Next, Finished

----------------------------------------------------------------------------

\* The invariant that the theorems below are parts of: it covers both programs
\* of runqlat.bpf.c, on any number of CPUs, and every step of the scheduler.
THEOREM RunqLatInvariant == Spec => []IInv
BY InitIInv, NextIInv, PTL DEF Spec

\* The variables of the probe keep their types; in particular the bucket that
\* runqlat_switch computes always indexes hist.
THEOREM RunqLatTypes == Spec => []ProbeTypeOK
<1>1. IInv => ProbeTypeOK
  BY DEF IInv
<1> QED
  BY <1>1, RunqLatInvariant, PTL

\* runqlat.bpf.c:17 "no atomic needed": with any number of CPUs in the load and
\* the store of their increments, no bucket of a CPU counts more than the waits
\* that truly ended there and the phantoms.
THEOREM RunqLatNoSampleInvented == Spec => []NoSampleInvented
<1>1. IInv => NoSampleInvented
  BY DEF IInv
<1> QED
  BY <1>1, RunqLatInvariant, PTL

\* The other half of that claim: no increment overwrites another, so every
\* wait since a seen wakeup is in its true bucket, but for those counted lost.
THEOREM RunqLatNoSampleLost == Spec => []NoSampleLost
<1>1. IInv => NoSampleLost
  BY DEF IInv
<1> QED
  BY <1>1, RunqLatInvariant, PTL

\* Starts that outlive their wait in start_ts, and samples taken from such
\* starts, are together no more than the waits that lost their sample, those that
\* found start_ts full included, and the wakeups of tasks that were on a CPU.
THEOREM RunqLatStaleStarts == Spec => []StaleStartsAreExplained
<1>1. IInv => StaleStartsAreExplained
  BY DEF IInv
<1> QED
  BY <1>1, RunqLatInvariant, PTL

\* While a task waits since a seen wakeup, start_ts holds the time of that
\* wakeup or nothing for it, whatever preemptions, exits and reuse of tids
\* came before; and the program in hand on a CPU owns the start it will delete.
THEOREM RunqLatStartMatchesWait == Spec => []StartMatchesWait
<1>1. IInv => StartMatchesWait
  BY DEF IInv
<1> QED
  BY <1>1, RunqLatInvariant, PTL

----------------------------------------------------------------------------
(* What main() reports.                                                    *)

\* The sum over the CPUs is a number, and where every CPU counts at least as
\* much it is at least as large.
LEMMA BucketTotalInNat ==
  ASSUME ProbeTypeOK, NEW b \in Buckets
  PROVE  BucketTotal(b) \in Nat
<1> DEFINE f == [c \in Cpus |-> hist[c][b]]
<1>1. \A c \in Cpus : f[c] \in Nat
  BY DEF ProbeTypeOK
<1>2. SumFunctionOnSet(f, Cpus) \in Nat
  BY <1>1, SumInNat, RunqLatAssumption
<1> QED
  BY <1>2 DEF BucketTotal, SumFunction

LEMMA BucketTotalGrows ==
  ASSUME ProbeTypeOK, ProbeTypeOK', NEW b \in Buckets,
         \A c \in Cpus : hist[c][b] <= hist'[c][b]
  PROVE  BucketTotal(b) <= BucketTotal(b)'
<1> DEFINE f == [c \in Cpus |-> hist[c][b]]
           g == [c \in Cpus |-> hist'[c][b]]
<1>1. \A c \in Cpus : f[c] \in Nat /\ g[c] \in Nat /\ f[c] <= g[c]
  BY DEF ProbeTypeOK
<1>2. SumFunctionOnSet(f, Cpus) <= SumFunctionOnSet(g, Cpus)
  BY <1>1, SumMonotone, RunqLatAssumption
<1> QED
  BY <1>2 DEF BucketTotal, SumFunction

\* An array that is all zero adds up to zero.
LEMMA BucketTotalStart ==
  ASSUME Init, NEW b \in Buckets
  PROVE  BucketTotal(b) = 0
<1> DEFINE f == [c \in Cpus |-> hist[c][b]]
<1>1. \A c \in Cpus : f[c] = 0
  BY DEF Init
<1>2. SumFunctionOnSet(f, Cpus) = 0
  BY <1>1, SumZero, RunqLatAssumption
<1> QED
  BY <1>2 DEF BucketTotal, SumFunction

\* The programs never take a sample back: the store is the only step that
\* writes hist, and it adds one.
LEMMA HistGrows ==
  ASSUME IInv, [Next]_vars, NEW c \in Cpus, NEW b \in Buckets
  PROVE  hist[c][b] <= hist'[c][b]
<1>1. \A d \in Cpus, e \in Buckets : hist[d][e] \in Nat
  BY DEF IInv, ProbeTypeOK
<1>2. CASE hist' = hist
  BY <1>1, <1>2
<1>3. ASSUME NEW d \in Cpus, SwitchStore(d)
      PROVE  hist[c][b] <= hist'[c][b]
  BY <1>1, <1>3 DEF SwitchStore, IInv, ProbeTypeOK, StartMatchesWait, cell
<1>4. hist' = hist \/ \E d \in Cpus : SwitchStore(d)
  BY DEF Next, Tick, SetState, Wake, Fork, SwitchSampled, SwitchUnsampled, SwitchLoad,
         SwitchDelete, main, Finished, vars
<1> QED
  BY <1>2, <1>3, <1>4

\* ReportInv holds before main() has done anything.
LEMMA InitReport == Init => ReportInv
BY BucketTotalStart, SlotsAssumption
   DEF Init, SessionInit, ReportInv, SessionTypeOK, Stages, Buckets, ReportWithinCollection

\* The steps of the kernel leave main() alone, and no sum gets smaller.
LEMMA ProbeReport ==
  ASSUME IInv, IInv', ReportInv, [Next]_vars, UNCHANGED sessionVars
  PROVE  ReportInv'
<1>1. /\ ProbeTypeOK /\ ProbeTypeOK'
      /\ SessionTypeOK /\ Buckets' = Buckets
  BY DEF IInv, ReportInv, Buckets
<1>2. \A b \in Buckets : /\ BucketTotal(b) \in Nat /\ BucketTotal(b)' \in Nat
                         /\ BucketTotal(b) <= BucketTotal(b)'
  <2> SUFFICES ASSUME NEW b \in Buckets
               PROVE  /\ BucketTotal(b) \in Nat /\ BucketTotal(b)' \in Nat
                      /\ BucketTotal(b) <= BucketTotal(b)'
    OBVIOUS
  <2>1. BucketTotal(b) <= BucketTotal(b)'
    BY <1>1, BucketTotalGrows, HistGrows
  <2>2. BucketTotal(b) \in Nat
    BY <1>1, BucketTotalInNat
  <2>3. BucketTotal(b)' \in Nat
    <3> DEFINE g == [c \in Cpus |-> hist'[c][b]]
    <3>1. \A c \in Cpus : g[c] \in Nat
      BY <1>1 DEF ProbeTypeOK
    <3>2. SumFunctionOnSet(g, Cpus) \in Nat
      BY <3>1, SumInNat, RunqLatAssumption
    <3> QED
      BY <3>2 DEF BucketTotal, SumFunction
  <2> QED
    BY <2>1, <2>2, <2>3
<1>3. /\ UNCHANGED <<loader, cursor, counts, atWake>>
      /\ \A b \in Buckets : counts[b] \in Nat /\ atWake[b] \in Nat
  BY <1>1 DEF sessionVars, SessionTypeOK
<1>4. ReportWithinCollection'
  BY <1>1, <1>2, <1>3 DEF ReportInv, ReportWithinCollection
<1> QED
  BY <1>1, <1>2, <1>3, <1>4 DEF ReportInv, SessionTypeOK

\* One bucket read: the sum of now, or zero after an error.
LEMMA ReadReport ==
  ASSUME IInv, ReportInv, readHist \/ readHistContinue, hist' = hist
  PROVE  ReportInv'
<1>1. /\ cursor \in Buckets /\ cursor' = cursor + 1 /\ cursor' \in 0 .. MAX_SLOTS
      /\ loader = "reading" /\ UNCHANGED <<loader, atWake>>
  BY SlotsAssumption
     DEF readHist, readHistContinue, ReadBucket, ReportInv, SessionTypeOK, Buckets
<1>2. PICK value \in {0, BucketTotal(cursor)} : counts' = [counts EXCEPT ![cursor] = value]
  BY DEF readHist, readHistContinue, ReadBucket
<1>3. BucketTotal(cursor) \in Nat /\ atWake[cursor] <= BucketTotal(cursor)
  BY <1>1, BucketTotalInNat DEF IInv, ReportInv
<1>4. counts \in [Buckets -> Nat] /\ value \in Nat
  BY <1>2, <1>3 DEF ReportInv, SessionTypeOK
<1>5. SessionTypeOK'
  BY <1>1, <1>2, <1>4 DEF ReportInv, SessionTypeOK, Buckets
<1>6. \A b \in Buckets : BucketTotal(b)' = BucketTotal(b)
  BY DEF BucketTotal
<1>7. ReportWithinCollection'
  <2> SUFFICES ASSUME NEW b \in Buckets, b < cursor'
               PROVE  counts'[b] = 0 \/ (atWake[b] <= counts'[b] /\ counts'[b] <= BucketTotal(b))
    BY <1>1, <1>6 DEF ReportWithinCollection, Buckets
  <2>1. CASE b = cursor
    BY <2>1, <1>2, <1>3, <1>4
  <2>2. CASE b # cursor
    <3>1. b < cursor /\ counts'[b] = counts[b]
      BY <2>2, <1>1, <1>2, <1>4 DEF Buckets
    <3> QED
      BY <3>1 DEF ReportInv, ReportWithinCollection
  <2> QED
    BY <2>1, <2>2
<1>8. \A b \in Buckets : b >= cursor' => counts'[b] = 0
  BY <1>1, <1>2, <1>4 DEF ReportInv, Buckets
<1> QED
  BY <1>1, <1>5, <1>6, <1>7, <1>8 DEF ReportInv, Buckets

\* The other steps of main(): the sleep remembers the sums of its end.
LEMMA MainReport ==
  ASSUME IInv, ReportInv, main
  PROVE  ReportInv'
<1>1. hist' = hist /\ \A b \in Buckets : BucketTotal(b)' = BucketTotal(b)
  BY DEF main, BucketTotal
<1>2. CASE readHist \/ readHistContinue
  BY <1>1, <1>2, ReadReport
<1>3. CASE WakeUp([b \in Buckets |-> BucketTotal(b)])
  <2>1. \A b \in Buckets : BucketTotal(b) \in Nat
    BY BucketTotalInNat DEF IInv
  <2>2. /\ loader' = "reading" /\ cursor = 0 /\ UNCHANGED <<cursor, counts>>
        /\ atWake' = [b \in Buckets |-> BucketTotal(b)]
    BY <1>3 DEF WakeUp, Advance, ReportInv
  <2> QED
    BY <1>1, <2>1, <2>2
       DEF ReportInv, SessionTypeOK, Stages, ReportWithinCollection, Buckets
<1>4. CASE LoadObjects \/ AttachFirst \/ AttachSecond \/ Report \/ Close \/ fatalf
  <2>1. /\ UNCHANGED <<cursor, counts, atWake>> /\ loader' \in Stages
        /\ loader' \in {"started", "loaded", "first", "collecting"} =>
             loader \in {"started", "loaded", "first", "collecting"}
    BY <1>4 DEF LoadObjects, AttachFirst, AttachSecond, Report, Close, fatalf, Fatal,
                Advance, Stages
  <2> QED
    BY <1>1, <2>1 DEF ReportInv, SessionTypeOK, ReportWithinCollection, Buckets
<1> QED
  BY <1>2, <1>3, <1>4 DEF main

\* Every step keeps ReportInv while IInv holds.
LEMMA NextReport ==
  ASSUME IInv, IInv', ReportInv, [Next]_vars
  PROVE  ReportInv'
<1>1. main \/ UNCHANGED sessionVars
  BY DEF Next, Tick, SetState, Wake, Fork, SwitchSampled, SwitchUnsampled, SwitchLoad,
         SwitchStore, SwitchDelete, Finished, vars
<1> QED
  BY <1>1, MainReport, ProbeReport

\* ReportInv, with IInv, covers every step of main() and of the kernel.
THEOREM RunqLatReportInvariant == Spec => [](IInv /\ ReportInv)
<1>1. Init => ReportInv
  BY InitReport
<1>2. IInv /\ IInv' /\ ReportInv /\ [Next]_vars => ReportInv'
  BY NextReport
<1> QED
  BY <1>1, <1>2, RunqLatInvariant, PTL DEF Spec

\* Every variable keeps its type, those of main() too: readHist never leaves
\* the array, and every count it keeps is a number.
THEOREM RunqLatTypeOK == Spec => []TypeOK
<1>1. IInv /\ ReportInv => TypeOK
  BY DEF IInv, ReportInv, TypeOK
<1> QED
  BY <1>1, RunqLatReportInvariant, PTL

\* runqlat reads its buckets while both programs still count: the sum over any
\* number of CPUs that it reports for a bucket lies between the sum when the
\* sleep ended and the sum now, or is the zero of a bucket it could not read.
THEOREM RunqLatReport == Spec => []ReportWithinCollection
<1>1. ReportInv => ReportWithinCollection
  BY DEF ReportInv
<1> QED
  BY <1>1, RunqLatReportInvariant, PTL

----------------------------------------------------------------------------
(* Refinement: runqlat implements LatencyRecorder.                         *)

\* A cell is a CPU and a bucket, and counts a natural number of samples.
LEMMA CellFacts ==
  ASSUME IInv, NEW p \in Cells
  PROVE  /\ p[1] \in Cpus /\ p[2] \in Buckets /\ p = <<p[1], p[2]>>
         /\ hist[p[1]][p[2]] \in Nat
         /\ Due(p[1], p[2]) \in {0, 1}
BY DEF Cells, IInv, ProbeTypeOK, Due

\* Nothing is taken or shown when histogram and samples due do not change.
LEMMA RecordStill ==
  ASSUME hist' = hist, \A c \in Cpus, b \in Buckets : Due(c, b)' = Due(c, b)
  PROVE  Taken' = Taken /\ Shown' = Shown
<1>1. \A p \in Cells : p[1] \in Cpus /\ p[2] \in Buckets
  BY DEF Cells
<1>2. \A p \in Cells : hist'[p[1]][p[2]] + Due(p[1], p[2])' = hist[p[1]][p[2]] + Due(p[1], p[2])
  BY <1>1
<1> QED
  BY <1>2 DEF Taken, Shown

\* One more sample in one cell.
LEMMA TakenMore ==
  ASSUME IInv, NEW c0 \in Cpus, NEW b0 \in Buckets,
         \A c \in Cpus, b \in Buckets :
           hist'[c][b] + Due(c, b)' = hist[c][b] + Due(c, b) + IF c = c0 /\ b = b0 THEN 1 ELSE 0
  PROVE  Taken' = [Taken EXCEPT ![<<c0, b0>>] = @ + 1]
<1>1. \A p \in Cells : /\ p[1] \in Cpus /\ p[2] \in Buckets
                       /\ p = <<c0, b0>> <=> p[1] = c0 /\ p[2] = b0
  BY CellFacts
<1>2. \A p \in Cells : hist'[p[1]][p[2]] + Due(p[1], p[2])' =
        hist[p[1]][p[2]] + Due(p[1], p[2]) + IF p = <<c0, b0>> THEN 1 ELSE 0
  BY <1>1
<1>3. Taken' = [p \in Cells |-> Taken[p] + IF p = <<c0, b0>> THEN 1 ELSE 0]
  BY <1>2 DEF Taken
<1>4. \A p \in Cells : Taken[p] \in Nat
  BY CellFacts DEF Taken
<1>5. DOMAIN Taken = Cells /\ Taken = [p \in Cells |-> Taken[p]]
  BY DEF Taken
<1>6. <<c0, b0>> \in Cells
  BY DEF Cells
<1> QED
  BY <1>3, <1>4, <1>5, <1>6

\* A switch with a sample takes it in the cell of its CPU and bucket.
LEMMA TakenBySwitch ==
  ASSUME IInv, NEW c \in Cpus, NEW next \in Tasks, NEW fate \in Fates,
         SwitchSampled(c, next, fate)
  PROVE  /\ BucketOf(clock - start_ts[next]) \in Buckets
         /\ Taken' = [Taken EXCEPT ![<<c, BucketOf(clock - start_ts[next])>>] = @ + 1]
         /\ Shown' = Shown
<1> USE DEF SwitchSampled
<1> DEFINE b0 == BucketOf(clock - start_ts[next])
<1>1. /\ b0 \in Buckets /\ hist' = hist
      /\ handler' = [handler EXCEPT ![c] = [pc |-> "load", b |-> b0, cnt |-> 0]]
      /\ handler[c].pc = "none"
  BY BucketInRange DEF runqlat_switch, Switched
<1> HIDE DEF b0
<1>2. /\ handler'[c].pc = "load" /\ handler'[c].b = b0
      /\ \A d \in Cpus : d # c => handler'[d] = handler[d]
  BY <1>1 DEF IInv, ProbeTypeOK
<1>3. \A d \in Cpus, b \in Buckets :
        Due(d, b)' = Due(d, b) + IF d = c /\ b = b0 THEN 1 ELSE 0
  BY <1>1, <1>2 DEF Due
<1>4. \A d \in Cpus, b \in Buckets : hist[d][b] \in Nat /\ Due(d, b) \in Nat
  BY DEF Due, IInv, ProbeTypeOK
<1>5. \A d \in Cpus, b \in Buckets :
        hist'[d][b] + Due(d, b)' = hist[d][b] + Due(d, b) + IF d = c /\ b = b0 THEN 1 ELSE 0
  BY <1>1, <1>3, <1>4
<1>6. Taken' = [Taken EXCEPT ![<<c, b0>>] = @ + 1]
  BY <1>1, <1>5, TakenMore
<1>7. Shown' = Shown
  BY <1>1 DEF Shown
<1> QED
  BY <1>1, <1>6, <1>7 DEF b0

\* The store moves one sample from due to counted: the count it loaded was
\* still there, so what is shown grows by exactly that one.
LEMMA TakenByStore ==
  ASSUME IInv, NEW c \in Cpus, SwitchStore(c)
  PROVE  \E p \in Cells : /\ Shown[p] < Taken[p]
                          /\ Shown' = [Shown EXCEPT ![p] = @ + 1]
                          /\ Taken' = Taken
<1> USE DEF SwitchStore
<1> DEFINE b0 == handler[c].b
           p0 == <<c, b0>>
<1>1. /\ handler[c].pc = "store" /\ handler'[c].pc = "delete" /\ handler'[c].b = b0
      /\ \A d \in Cpus : d # c => handler'[d] = handler[d]
      /\ b0 \in Buckets
  BY DEF IInv, ProbeTypeOK
<1>2. \A d \in Cpus, b \in Buckets :
        /\ hist[d][b] \in Nat
        /\ hist'[d][b] = hist[d][b] + IF d = c /\ b = b0 THEN 1 ELSE 0
  BY <1>1 DEF IInv, ProbeTypeOK, StartMatchesWait, cell
<1>3. \A d \in Cpus, b \in Buckets :
        /\ Due(d, b) \in Nat
        /\ Due(d, b)' = Due(d, b) - IF d = c /\ b = b0 THEN 1 ELSE 0
  BY <1>1 DEF Due
<1>4. \A p \in Cells : /\ p[1] \in Cpus /\ p[2] \in Buckets
                       /\ p = p0 <=> p[1] = c /\ p[2] = b0
  BY CellFacts
<1>5. p0 \in Cells /\ p0[1] = c /\ p0[2] = b0
  BY <1>1 DEF Cells
<1> HIDE DEF b0, p0
<1>6. Taken' = Taken
  <2>1. \A p \in Cells : hist'[p[1]][p[2]] + Due(p[1], p[2])' = hist[p[1]][p[2]] + Due(p[1], p[2])
    BY <1>2, <1>3, <1>4
  <2> QED
    BY <2>1 DEF Taken
<1>7. Shown' = [Shown EXCEPT ![p0] = @ + 1]
  <2>1. \A p \in Cells : hist'[p[1]][p[2]] = hist[p[1]][p[2]] + IF p = p0 THEN 1 ELSE 0
    BY <1>2, <1>4
  <2>2. Shown' = [p \in Cells |-> Shown[p] + IF p = p0 THEN 1 ELSE 0]
    BY <2>1 DEF Shown
  <2>3. \A p \in Cells : Shown[p] \in Nat
    BY <1>2, <1>4 DEF Shown
  <2>4. DOMAIN Shown = Cells /\ Shown = [p \in Cells |-> Shown[p]]
    BY DEF Shown
  <2> QED
    BY <1>5, <2>2, <2>3, <2>4
<1>8. Shown[p0] < Taken[p0]
  <2>1. Due(c, b0) = 1
    BY <1>1 DEF Due, b0
  <2> QED
    BY <2>1, <1>1, <1>2, <1>5 DEF Shown, Taken
<1> QED
  BY <1>5, <1>6, <1>7, <1>8

\* The load and the delete touch no sample.
LEMMA LoadOrDeleteStill ==
  ASSUME IInv, NEW c \in Cpus, SwitchLoad(c) \/ SwitchDelete(c)
  PROVE  Taken' = Taken /\ Shown' = Shown
<1>1. /\ hist' = hist
      /\ \A d \in Cpus : d # c => handler'[d] = handler[d]
  BY DEF SwitchLoad, SwitchDelete, IInv, ProbeTypeOK
<1>2. \A b \in Buckets : Due(c, b)' = Due(c, b)
  <2>1. CASE SwitchLoad(c)
    BY <2>1 DEF SwitchLoad, Due, IInv, ProbeTypeOK
  <2>2. CASE SwitchDelete(c)
    BY <2>2 DEF SwitchDelete, Due, NoHandler, IInv, ProbeTypeOK
  <2> QED
    BY <2>1, <2>2
<1> QED
  BY <1>1, <1>2, RecordStill DEF Due

\* As long as some start is stale, a lost wait or a spurious wakeup is left to
\* explain a stray.
LEMMA StrayIsExplained ==
  ASSUME IInv, NEW t \in Stale
  PROVE  phantom < lost + spurious
<1>1. Cardinality(Stale) \in Nat /\ Cardinality(Stale) # 0
  BY TaskSets, FS_EmptySet DEF Stale
<1>2. /\ Cardinality(Stale) + phantom <= lost + spurious
      /\ phantom \in Nat /\ lost \in Nat /\ spurious \in Nat
  BY DEF IInv, StaleStartsAreExplained, ProbeTypeOK
<1> QED
  BY <1>1, <1>2

\* A wakeup begins a wait, or, of a running task, is a mishap, or is unseen.
LEMMA WakeRecords ==
  ASSUME IInv, NEW t \in Tasks, NEW runs \in BOOLEAN, Wake(t, runs)
  PROVE  Recorder!Begin(t) \/ Recorder!Mishap \/ UNCHANGED Recorder!vars
<1> USE DEF Wake
<1>1. Taken' = Taken /\ Shown' = Shown
  BY RecordStill DEF Due
<1>2. lost \in Nat /\ spurious \in Nat
  BY DEF IInv, ProbeTypeOK
<1>3. CASE woken' = [woken EXCEPT ![t] = clock] /\ spurious' = spurious
  BY <1>1, <1>3 DEF Recorder!Begin
<1>4. CASE woken' = woken /\ spurious' = spurious + 1
  BY <1>1, <1>2, <1>4 DEF Recorder!Mishap
<1>5. CASE woken' = woken /\ spurious' = spurious
  BY <1>1, <1>5 DEF Recorder!vars
<1> QED
  BY <1>3, <1>4, <1>5

\* A switch ends the wait of the next task, or closes nothing.
LEMMA SwitchCloses ==
  ASSUME IInv, NEW c \in Cpus, NEW next \in Tasks \cup {Idle}, NEW fate \in Fates,
         Switched(c, next, fate)
  PROVE  woken' = IF next \in Tasks THEN [woken EXCEPT ![next] = Absent] ELSE woken
BY DEF Switched, IInv, ProbeTypeOK

\* A switch with a sample ends a wait with it, or takes a stray.
LEMMA SwitchSampledRecords ==
  ASSUME IInv, NEW c \in Cpus, NEW next \in Tasks, NEW fate \in Fates,
         SwitchSampled(c, next, fate)
  PROVE  Recorder!End(next) \/ Recorder!Stray
<1> DEFINE p0 == <<c, BucketOf(clock - start_ts[next])>>
<1>1. Taken' = [Taken EXCEPT ![p0] = @ + 1] /\ Shown' = Shown
  BY TakenBySwitch
<1>2. p0 \in Cells
  BY TakenBySwitch DEF Cells
<1>3. woken' = [woken EXCEPT ![next] = Absent]
  BY SwitchCloses DEF SwitchSampled
<1>4. UNCHANGED <<clock, lost, spurious>> /\ start_ts[next] # Absent
  BY DEF SwitchSampled
<1>5. CASE woken[next] # Absent
  <2>1. p0 \in RightCells(clock - woken[next])
    BY <1>4, <1>5 DEF IInv, StartMatchesWait, RightCells
  <2>2. phantom' = phantom
    BY <1>5 DEF SwitchSampled
  <2> HIDE DEF p0
  <2> QED
    BY <1>1, <1>3, <1>4, <1>5, <2>1, <2>2 DEF Recorder!End, Recorder!Sample, Recorder!Closed, Absent
<1>6. CASE woken[next] = Absent
  <2>1. ~InHand(next)
    BY SwitchedFacts DEF SwitchSampled, SwitchEffects
  <2>2. next \in Stale
    BY <1>4, <1>6, <2>1 DEF Stale
  <2>3. phantom < lost + spurious
    BY <2>2, StrayIsExplained
  <2>4. woken' = woken
    BY <1>3, <1>6 DEF IInv, ProbeTypeOK
  <2>5. phantom' = phantom + 1
    BY <1>6 DEF SwitchSampled
  <2> HIDE DEF p0
  <2> QED
    BY <1>1, <1>2, <1>4, <2>3, <2>4, <2>5 DEF Recorder!Stray, Recorder!Sample
<1> QED
  BY <1>5, <1>6

\* A switch without a sample drops the wait of the next task, or is nothing.
LEMMA SwitchUnsampledRecords ==
  ASSUME IInv, NEW c \in Cpus, NEW next \in Tasks \cup {Idle}, NEW fate \in Fates,
         NEW runs \in BOOLEAN, SwitchUnsampled(c, next, fate, runs)
  PROVE  (next \in Tasks /\ Recorder!Drop(next)) \/ UNCHANGED Recorder!vars
<1>1. Taken' = Taken /\ Shown' = Shown
  BY RecordStill DEF SwitchUnsampled, Due
<1>2. woken' = IF next \in Tasks THEN [woken EXCEPT ![next] = Absent] ELSE woken
  BY SwitchCloses DEF SwitchUnsampled
<1>3. UNCHANGED <<clock, phantom, spurious>>
  BY DEF SwitchUnsampled
<1>4. lost \in Nat /\ spurious \in Nat
  BY DEF IInv, ProbeTypeOK
<1>5. CASE next \in Tasks /\ woken[next] # Absent
  <2>1. lost' = lost + 1
    BY <1>5, RunqLatAssumption DEF SwitchUnsampled
  <2> QED
    BY <1>1, <1>2, <1>3, <1>4, <1>5, <2>1 DEF Recorder!Drop, Recorder!Closed, Absent
<1>6. CASE ~(next \in Tasks /\ woken[next] # Absent)
  <2>1. lost' = lost
    BY <1>6 DEF SwitchUnsampled
  <2>2. woken' = woken
    BY <1>2, <1>6 DEF IInv, ProbeTypeOK
  <2> QED
    BY <1>1, <1>3, <2>1, <2>2 DEF Recorder!vars
<1> QED
  BY <1>5, <1>6

\* Every step of runqlat is a step of the recorder or changes nothing of it.
LEMMA NextRecords ==
  ASSUME IInv, [Next]_vars
  PROVE  [Recorder!Next]_(Recorder!vars)
<1>1. CASE Tick
  <2>1. Taken' = Taken /\ Shown' = Shown
    BY <1>1, RecordStill DEF Tick, Due
  <2>2. clock < clock' /\ UNCHANGED <<woken, lost, spurious, phantom>>
    BY <1>1 DEF Tick, schedVars, history
  <2>3. Recorder!Tick
    BY <2>1, <2>2, RunqLatAssumption DEF Recorder!Tick, IInv, ProbeTypeOK
  <2> QED
    BY <2>3 DEF Recorder!Next
<1>2. CASE main \/ UNCHANGED vars
  <2>1. Taken' = Taken /\ Shown' = Shown
    BY <1>2, RecordStill DEF main, vars, Due
  <2> QED
    BY <1>2, <2>1 DEF main, vars, schedVars, history, Recorder!vars
<1>3. ASSUME NEW t \in Tasks, SetState(t) \/ Fork(t)
      PROVE  UNCHANGED Recorder!vars
  <2>1. Taken' = Taken /\ Shown' = Shown
    BY <1>3, RecordStill DEF SetState, Fork, Due
  <2> QED
    BY <1>3, <2>1 DEF SetState, Fork, history, Recorder!vars
<1>4. ASSUME NEW c \in Cpus, SwitchLoad(c) \/ SwitchDelete(c)
      PROVE  UNCHANGED Recorder!vars
  <2>1. Taken' = Taken /\ Shown' = Shown
    BY <1>4, LoadOrDeleteStill
  <2> QED
    BY <1>4, <2>1 DEF SwitchLoad, SwitchDelete, schedVars, history, Recorder!vars
<1>5. ASSUME NEW c \in Cpus, SwitchStore(c)
      PROVE  \E p \in Cells : Recorder!Publish(p)
  BY <1>5, TakenByStore DEF SwitchStore, schedVars, history, Recorder!Publish
<1> QED
  BY <1>1, <1>2, <1>3, <1>4, <1>5, WakeRecords, SwitchSampledRecords, SwitchUnsampledRecords
     DEF Next, Finished, Recorder!Next

\* Nothing has begun and nothing is taken at the start.
LEMMA InitRecords == Init => Recorder!Init
<1> SUFFICES ASSUME Init PROVE Recorder!Init
  OBVIOUS
<1>1. \A c \in Cpus, b \in Buckets : hist[c][b] = 0 /\ Due(c, b) = 0
  BY DEF Init, Due, NoHandler
<1>2. \A p \in Cells : p[1] \in Cpus /\ p[2] \in Buckets
  BY DEF Cells
<1>3. Taken = [p \in Cells |-> 0] /\ Shown = [p \in Cells |-> 0]
  BY <1>1, <1>2 DEF Taken, Shown
<1> QED
  BY <1>3 DEF Init, Recorder!Init, Recorder!Closed, Absent

\* runqlat implements the abstract recorder, for every number of CPUs, tasks,
\* buckets and start_ts elements.
THEOREM RunqLatRecords == Spec => RecordsFaithfully
<1>1. IInv /\ [Next]_vars => [Recorder!Next]_(Recorder!vars)
  BY NextRecords
<1> QED
  BY <1>1, InitRecords, RunqLatInvariant, PTL DEF Spec, RecordsFaithfully, Recorder!Spec

----------------------------------------------------------------------------
(* The account over all CPUs and buckets.                                  *)

\* There are finitely many cells, and each adds a natural number to a sum.
LEMMA CellSums ==
  ASSUME IInv
  PROVE  /\ IsFiniteSet(Cells)
         /\ DOMAIN Taken = Cells /\ DOMAIN Ended = Cells /\ DOMAIN Shown = Cells
         /\ \A p \in Cells : /\ Taken[p] \in Nat /\ Ended[p] \in Nat /\ Shown[p] \in Nat
                             /\ Shown[p] <= Taken[p]
         /\ SumFunction(Taken) \in Nat /\ SumFunction(Ended) \in Nat
<1>1. IsFiniteSet(Cells)
  <2>1. IsFiniteSet(Buckets)
    BY SlotsAssumption, FS_Interval DEF Buckets
  <2> QED
    BY <2>1, RunqLatAssumption, FS_Product DEF Cells
<1>2. \A p \in Cells : /\ Taken[p] = hist[p[1]][p[2]] + Due(p[1], p[2])
                       /\ Shown[p] = hist[p[1]][p[2]]
                       /\ Ended[p] = truth[p[1]][p[2]] /\ truth[p[1]][p[2]] \in Nat
  BY CellFacts DEF Taken, Shown, Ended, IInv, ProbeTypeOK
<1>3. \A p \in Cells : /\ Taken[p] \in Nat /\ Ended[p] \in Nat /\ Shown[p] \in Nat
                       /\ Shown[p] <= Taken[p]
  BY <1>2, CellFacts
<1>4. DOMAIN Taken = Cells /\ DOMAIN Ended = Cells /\ DOMAIN Shown = Cells
  BY DEF Taken, Ended, Shown
<1>5. SumFunctionOnSet(Taken, Cells) \in Nat /\ SumFunctionOnSet(Ended, Cells) \in Nat
  BY <1>1, <1>3, SumInNat
<1> QED
  BY <1>1, <1>3, <1>4, <1>5 DEF SumFunction

\* One more in one cell is one more in the sum.
LEMMA CellSumMore ==
  ASSUME NEW f, NEW g, NEW p \in Cells, IsFiniteSet(Cells), DOMAIN f = Cells,
         \A q \in Cells : f[q] \in Nat, g = [f EXCEPT ![p] = @ + 1]
  PROVE  SumFunction(g) = SumFunction(f) + 1
<1>1. PICK h : h = g
  OBVIOUS
<1>2. /\ DOMAIN h = Cells /\ h[p] = f[p] + 1
      /\ \A q \in Cells : q # p => h[q] = f[q]
  BY <1>1
<1>3. SumFunctionOnSet(h, Cells) = SumFunctionOnSet(f, Cells) + 1
  BY ONLY IsFiniteSet(Cells), p \in Cells, \A q \in Cells : f[q] \in Nat, <1>2, SumOneMore
<1> QED
  BY <1>1, <1>2, <1>3 DEF SumFunction

\* A wait that ends counts in the cell of its CPU and its true bucket.
LEMMA EndedMore ==
  ASSUME IInv, NEW c \in Cpus, NEW b \in Buckets,
         truth' = [truth EXCEPT ![c] = Increment(@, b)]
  PROVE  Ended' = [Ended EXCEPT ![<<c, b>>] = @ + 1]
<1>1. truth \in [Cpus -> [Buckets -> Nat]]
  BY DEF IInv, ProbeTypeOK
<1>2. /\ truth'[c][b] = truth[c][b] + 1
      /\ \A d \in Cpus, e \in Buckets : ~(d = c /\ e = b) => truth'[d][e] = truth[d][e]
  <2> PICK h, g : h = truth /\ g = truth'
    OBVIOUS
  <2>1. h \in [Cpus -> [Buckets -> Nat]] /\ g = [h EXCEPT ![c] = Increment(@, b)]
    BY <1>1
  <2>2. /\ g[c][b] = h[c][b] + 1
        /\ \A d \in Cpus, e \in Buckets : ~(d = c /\ e = b) => g[d][e] = h[d][e]
    BY ONLY <2>1, c \in Cpus, b \in Buckets, CellIncrement
  <2> QED
    BY <2>2
<1>3. \A p \in Cells : /\ p[1] \in Cpus /\ p[2] \in Buckets
                       /\ p = <<c, b>> <=> p[1] = c /\ p[2] = b
  BY CellFacts
<1>4. <<c, b>> \in Cells
  BY DEF Cells
<1>5. \A p \in Cells : truth'[p[1]][p[2]] = IF p = <<c, b>> THEN Ended[p] + 1 ELSE Ended[p]
  BY <1>2, <1>3 DEF Ended
<1>6. Ended' = [p \in Cells |-> IF p = <<c, b>> THEN Ended[p] + 1 ELSE Ended[p]]
  BY <1>5 DEF Ended
<1>7. DOMAIN Ended = Cells
  BY DEF Ended
<1> QED
  BY <1>4, <1>6, <1>7

\* A switch with a sample adds one to what is taken, and one to what has ended
\* or to the phantoms.
LEMMA SwitchSampledAddsUp ==
  ASSUME IInv, SamplesAddUp, NEW c \in Cpus, NEW next \in Tasks, NEW fate \in Fates,
         SwitchSampled(c, next, fate)
  PROVE  SamplesAddUp'
<1> DEFINE b0 == BucketOf(clock - start_ts[next])
<1>1. b0 \in Buckets /\ Taken' = [Taken EXCEPT ![<<c, b0>>] = @ + 1]
  BY TakenBySwitch
<1>2. woken[next] # Absent => BucketOf(clock - woken[next]) = b0
  BY DEF SwitchSampled, IInv, StartMatchesWait
<1> HIDE DEF b0
<1>3. <<c, b0>> \in Cells
  BY <1>1 DEF Cells
<1>4. SumFunction(Taken') = SumFunction(Taken) + 1
  BY <1>1, <1>3, CellSums, CellSumMore
<1>5. lost' = lost /\ lost \in Nat /\ phantom \in Nat
  BY DEF SwitchSampled, IInv, ProbeTypeOK
<1>6. CASE woken[next] # Absent
  <2>1. truth' = [truth EXCEPT ![c] = Increment(@, b0)] /\ phantom' = phantom
    BY <1>2, <1>6 DEF SwitchSampled
  <2>2. Ended' = [Ended EXCEPT ![<<c, b0>>] = @ + 1]
    BY <1>1, <2>1, EndedMore
  <2>3. SumFunction(Ended') = SumFunction(Ended) + 1
    BY <1>3, <2>2, CellSums, CellSumMore
  <2> QED
    BY <1>4, <1>5, <2>1, <2>3, CellSums DEF SamplesAddUp
<1>7. CASE woken[next] = Absent
  <2>1. Ended' = Ended /\ phantom' = phantom + 1
    BY <1>7 DEF SwitchSampled, Ended
  <2> QED
    BY <1>4, <1>5, <2>1, CellSums DEF SamplesAddUp
<1> QED
  BY <1>6, <1>7

\* A switch without a sample adds one to what has ended and to what is lost, or
\* to neither.
LEMMA SwitchUnsampledAddsUp ==
  ASSUME IInv, SamplesAddUp, NEW c \in Cpus, NEW next \in Tasks \cup {Idle},
         NEW fate \in Fates, NEW runs \in BOOLEAN, SwitchUnsampled(c, next, fate, runs)
  PROVE  SamplesAddUp'
<1>1. Taken' = Taken
  BY RecordStill DEF SwitchUnsampled, Due
<1>2. phantom' = phantom /\ lost \in Nat /\ phantom \in Nat
  BY DEF SwitchUnsampled, IInv, ProbeTypeOK
<1>3. CASE next # Idle /\ woken[next] # Absent
  <2> DEFINE b0 == BucketOf(clock - woken[next])
  <2>1. truth' = [truth EXCEPT ![c] = Increment(@, b0)] /\ lost' = lost + 1
    BY <1>3 DEF SwitchUnsampled
  <2>2. b0 \in Buckets
    BY BucketInRange
  <2> HIDE DEF b0
  <2>3. Ended' = [Ended EXCEPT ![<<c, b0>>] = @ + 1] /\ <<c, b0>> \in Cells
    BY <2>1, <2>2, EndedMore DEF Cells
  <2>4. SumFunction(Ended') = SumFunction(Ended) + 1
    BY <2>3, CellSums, CellSumMore
  <2> QED
    BY <1>1, <1>2, <2>1, <2>4, CellSums DEF SamplesAddUp
<1>4. CASE ~(next # Idle /\ woken[next] # Absent)
  <2>1. lost' = lost /\ Ended' = Ended
    BY <1>4 DEF SwitchUnsampled, Ended
  <2> QED
    BY <1>1, <1>2, <2>1 DEF SamplesAddUp
<1> QED
  BY <1>3, <1>4

\* Every step keeps the account while IInv holds.
LEMMA NextAddsUp ==
  ASSUME IInv, SamplesAddUp, [Next]_vars
  PROVE  SamplesAddUp'
<1>1. CASE UNCHANGED <<truth, lost, phantom>> /\ Taken' = Taken
  BY <1>1 DEF SamplesAddUp, Ended
<1>2. CASE main \/ Tick \/ UNCHANGED vars
  <2>1. Taken' = Taken /\ UNCHANGED <<truth, lost, phantom>>
    BY <1>2, RecordStill DEF main, Tick, vars, history, Due
  <2> QED
    BY <1>1, <2>1
<1>3. ASSUME NEW t \in Tasks, NEW runs \in BOOLEAN, SetState(t) \/ Fork(t) \/ Wake(t, runs)
      PROVE  Taken' = Taken /\ UNCHANGED <<truth, lost, phantom>>
  BY <1>3, RecordStill DEF SetState, Fork, Wake, history, Due
<1>4. ASSUME NEW c \in Cpus, SwitchLoad(c) \/ SwitchStore(c) \/ SwitchDelete(c)
      PROVE  Taken' = Taken /\ UNCHANGED <<truth, lost, phantom>>
  BY <1>4, LoadOrDeleteStill, TakenByStore
     DEF SwitchLoad, SwitchStore, SwitchDelete, history
<1> QED
  BY <1>1, <1>2, <1>3, <1>4, SwitchSampledAddsUp, SwitchUnsampledAddsUp DEF Next, Finished

\* Every sum is zero at the start.
LEMMA InitAddsUp == Init => SamplesAddUp
<1> SUFFICES ASSUME Init PROVE SamplesAddUp
  OBVIOUS
<1>1. \A p \in Cells : p[1] \in Cpus /\ p[2] \in Buckets
  BY DEF Cells
<1>2. Taken = Ended
  BY <1>1 DEF Init, Taken, Ended, Due, NoHandler
<1> QED
  BY <1>2, CellSums, InitIInv DEF Init, SamplesAddUp

\* runqlat.bpf.c:17 "no atomic needed", over the whole machine: the samples
\* that all CPUs have taken, with the waits that lost theirs, are exactly the
\* waits that ended and the phantoms, in every interleaving of the increments.
THEOREM RunqLatSamplesAddUp == Spec => []SamplesAddUp
<1>1. IInv /\ SamplesAddUp /\ [Next]_vars => SamplesAddUp'
  BY NextAddsUp
<1> QED
  BY <1>1, InitAddsUp, RunqLatInvariant, PTL DEF Spec

\* The counts reported are no more than the samples counted on all CPUs.
LEMMA ReportIsCounted ==
  ASSUME IInv, ReportInv
  PROVE  SumFunction(counts) \in Nat /\ SumFunction(counts) <= SumFunction(Taken)
<1> PICK column, total :
      /\ column = [b \in Buckets |-> [c \in Cpus |-> hist[c][b]]]
      /\ total = [b \in Buckets |-> SumFunctionOnSet(column[b], Cpus)]
  OBVIOUS
<1>1. IsFiniteSet(Buckets) /\ IsFiniteSet(Cpus)
  <2>1. IsFiniteSet(Buckets)
    BY SlotsAssumption, FS_Interval DEF Buckets
  <2> QED
    BY <2>1, RunqLatAssumption
<1>2. \A c \in Cpus, b \in Buckets : Shown[<<c, b>>] = hist[c][b] /\ Shown[<<c, b>>] \in Nat
  BY DEF Shown, Cells, IInv, ProbeTypeOK
<1>3. SumFunctionOnSet(Shown, Cells) = SumFunctionOnSet(total, Buckets)
  <2> PICK h : h = Shown
    OBVIOUS
  <2>1. ColumnSums(total, column, h, Cpus, Buckets)
    BY <1>2 DEF ColumnSums
  <2>2. SumFunctionOnSet(h, Cpus \X Buckets) = SumFunctionOnSet(total, Buckets)
    BY ONLY <1>1, <2>1, SumOfColumns
  <2> QED
    BY <2>2 DEF Cells
<1>4. \A b \in Buckets : total[b] = BucketTotal(b)
  BY DEF BucketTotal, SumFunction
<1>5. \A b \in Buckets : total[b] = BucketTotal(b) /\ total[b] \in Nat
  BY <1>4, BucketTotalInNat DEF IInv
<1>6. /\ counts \in [Buckets -> Nat]
      /\ \A b \in Buckets : counts[b] <= total[b]
  BY <1>5 DEF ReportInv, SessionTypeOK, ReportWithinCollection, Buckets
<1>7. SumFunctionOnSet(counts, Buckets) <= SumFunctionOnSet(total, Buckets)
  BY <1>1, <1>5, <1>6, SumMonotone
<1>8. SumFunctionOnSet(Shown, Cells) <= SumFunctionOnSet(Taken, Cells)
  BY CellSums, SumMonotone
<1>9. /\ SumFunctionOnSet(counts, Buckets) \in Nat
      /\ SumFunctionOnSet(total, Buckets) \in Nat
      /\ SumFunctionOnSet(Taken, Cells) \in Nat
  BY <1>1, <1>5, <1>6, CellSums, SumInNat
<1> QED
  BY <1>3, <1>6, <1>7, <1>8, <1>9, CellSums DEF SumFunction

\* What main() reports in all buckets together is covered by waits that ended
\* and were not lost, and by phantoms: reading while the programs count never
\* makes the report larger than what happened.
THEOREM RunqLatReportAddsUp == Spec => []ReportAddsUp
<1>1. IInv /\ ReportInv /\ SamplesAddUp => ReportAddsUp
  <2> SUFFICES ASSUME IInv, ReportInv, SamplesAddUp PROVE ReportAddsUp
    OBVIOUS
  <2>1. lost \in Nat /\ phantom \in Nat
    BY DEF IInv, ProbeTypeOK
  <2> QED
    BY <2>1, ReportIsCounted, CellSums DEF SamplesAddUp, ReportAddsUp
<1> QED
  BY <1>1, RunqLatReportInvariant, RunqLatSamplesAddUp, PTL
============================================================================
