------------------------------ MODULE RunqLat ------------------------------
(***************************************************************************)
(* runqlat: the time from sched_wakeup of a task to the sched_switch that  *)
(* puts it on a CPU, with one start_ts element per tid and one histogram   *)
(* per CPU.  The scheduler is the environment: tasks announce that they    *)
(* will sleep, are woken (also before they have left the CPU, or while     *)
(* they are preempted), block, are preempted, exit, and a new task may get *)
(* the tid of one that exited.  The kernel may skip a program, as it does  *)
(* while another one is active on the CPU.                                 *)
(***************************************************************************)
EXTENDS Session, BpfMaps, Log2Buckets

CONSTANTS
  Cpus,           \* CPUs of the machine
  Tasks,          \* tids that occur
  Idle,           \* the tid of the idle tasks, which are never woken
  MAX_ENTRIES,    \* max_entries of start_ts: 131072
  NsPerUs,        \* nanoseconds of a microsecond: 1000
  TailUs,         \* tailThresholdUs: 8
  Times,          \* bound: the values the clock takes after its start at zero
  MaxWakes        \* bound: wakeups the wakeup program sees in one behaviour

ASSUME RunqLatAssumption ==
  /\ IsFiniteSet(Cpus) /\ IsFiniteSet(Tasks)
  /\ Idle \notin Tasks
  /\ {MAX_ENTRIES, MaxWakes} \cup Times \subseteq Nat
  /\ {NsPerUs, TailUs} \subseteq Nat \ {0}

VARIABLES
  clock,       \* bpf_ktime_get_ns
  start_ts,    \* HASH: tid -> time of wakeup
  hist,        \* PERCPU_ARRAY: CPU -> bucket -> count
  task,        \* "asleep", "queued", "running" or "dead"
  sleepy,      \* the state of the task is not TASK_RUNNING: a wakeup finds it
  curr,        \* the task each CPU runs
  handler,     \* the run of runqlat_switch on each CPU
  woken,       \* history: the seen wakeup the task has waited since, or Absent
  wakes,       \* history: wakeups the wakeup program saw
  truth,       \* history: CPU -> bucket -> true waits since a seen wakeup
  lost,        \* history: waits since a seen wakeup that gave no sample
  phantom,     \* history: samples of switches that end no wait since a seen wakeup
  spurious,    \* history: seen wakeups of a task that was on a CPU
  slow         \* history: samples of TailUs microseconds or more

schedVars == <<task, sleepy, curr, woken>>
history == <<wakes, truth, lost, phantom, spurious, slow>>
vars == <<sessionVars, clock, start_ts, hist, schedVars, handler, history>>

\* No program runs on this CPU; otherwise pc is the next of its steps, b its
\* bucket and cnt the count it loaded.
NoHandler == [pc |-> "none", b |-> 0, cnt |-> 0]

Init ==
  /\ SessionInit
  /\ clock = 0
  /\ start_ts = [t \in Tasks |-> Absent]
  /\ hist = [c \in Cpus |-> [b \in Buckets |-> 0]]
  /\ task = [t \in Tasks |-> "asleep"]
  /\ sleepy = [t \in Tasks |-> TRUE]
  /\ curr = [c \in Cpus |-> Idle]
  /\ handler = [c \in Cpus |-> NoHandler]
  /\ woken = [t \in Tasks |-> Absent]
  /\ truth = [c \in Cpus |-> [b \in Buckets |-> 0]]
  /\ wakes = 0 /\ lost = 0 /\ phantom = 0 /\ spurious = 0 /\ slow = 0

----------------------------------------------------------------------------
(* The two programs                                                        *)

\* Bucket the nanoseconds.
BucketOf(delta_ns) == runqlat_log2_bucket_u64(delta_ns, MAX_SLOTS)

\* BPF_ANY replaces a start that is there.  (The mutant uses BPF_NOEXIST.)
runqlat_wakeup_noexist(t) ==
  start_ts' = IF start_ts[t] = Absent
              THEN MapUpdate(start_ts, MAX_ENTRIES, t, clock) ELSE start_ts
runqlat_wakeup(t) == start_ts' = MapUpdate(start_ts, MAX_ENTRIES, t, clock)

\* runqlat_switch as far as the bucket: the start of the next task is there.
runqlat_switch(c, next) ==
  handler' = [handler EXCEPT ![c] =
    [pc |-> "load", b |-> BucketOf(clock - start_ts[next]), cnt |-> 0]]

\* The cell a CPU counts in: its own.  (The mutant shares one.)
cell_shared(c) == CHOOSE d \in Cpus : TRUE
cell(c) == c

\* (*cnt)++ is a load and a store.
SwitchLoad(c) ==
  /\ ~Over /\ handler[c].pc = "load"
  /\ handler' = [handler EXCEPT ![c].pc = "store",
                                ![c].cnt = hist[cell(c)][handler[c].b]]
  /\ UNCHANGED <<sessionVars, clock, start_ts, hist, schedVars, history>>

SwitchStore(c) ==
  /\ ~Over /\ handler[c].pc = "store"
  /\ hist' = [hist EXCEPT ![cell(c)][handler[c].b] = handler[c].cnt + 1]
  /\ handler' = [handler EXCEPT ![c].pc = "delete"]
  /\ UNCHANGED <<sessionVars, clock, start_ts, schedVars, history>>

\* The delete that ends the program.  (The mutant leaves it out.)
end_start_keep(c) == UNCHANGED start_ts
end_start(c) == start_ts' = MapDelete(start_ts, curr[c])

SwitchDelete(c) ==
  /\ ~Over /\ handler[c].pc = "delete"
  /\ end_start(c)
  /\ handler' = [handler EXCEPT ![c] = NoHandler]
  /\ UNCHANGED <<sessionVars, clock, hist, schedVars, history>>

----------------------------------------------------------------------------
(* The scheduler                                                           *)

\* The program is at work on the start of task t.  Its CPU holds the lock of
\* its run queue meanwhile, so a wakeup of t waits.
InHand(t) == \E c \in Cpus : curr[c] = t /\ handler[c].pc # "none"

\* A running task sets its own state: about to sleep, or not after all.
SetState(t) ==
  /\ ~Over /\ task[t] = "running" /\ ~InHand(t)
  /\ sleepy' = [sleepy EXCEPT ![t] = ~@]
  /\ UNCHANGED <<sessionVars, clock, start_ts, hist, task, curr, woken, handler, history>>

\* try_to_wake_up(): the task may be asleep, preempted on its way to sleep, or
\* still on its CPU; sched_wakeup is traced in all three cases.
Wake(t, runs) ==
  /\ ~Over /\ sleepy[t] /\ ~InHand(t)
  /\ sleepy' = [sleepy EXCEPT ![t] = FALSE]
  /\ task' = [task EXCEPT ![t] = IF @ = "asleep" THEN "queued" ELSE @]
  /\ \/ /\ FirstAttached /\ runs /\ wakes < MaxWakes
        /\ runqlat_wakeup(t)
        /\ wakes' = wakes + 1
        /\ IF task[t] = "running"
             THEN spurious' = spurious + 1 /\ UNCHANGED woken
             ELSE woken' = [woken EXCEPT ![t] = clock] /\ UNCHANGED spurious
     \/ /\ ~(FirstAttached /\ runs)
        /\ UNCHANGED <<start_ts, woken, wakes, spurious>>
  /\ UNCHANGED <<sessionVars, clock, hist, curr, handler, truth, lost, phantom, slow>>

\* The first wakeup of a new task is sched_wakeup_new, which nothing traces.
Fork(t) ==
  /\ ~Over /\ task[t] = "dead"
  /\ task' = [task EXCEPT ![t] = "queued"]
  /\ UNCHANGED <<sessionVars, clock, start_ts, hist, sleepy, curr, woken, handler, history>>

\* CPU c switches to next; fate is what becomes of the task it ran.
Switched(c, next, fate) ==
  /\ ~Over /\ handler[c].pc = "none"
  /\ next # curr[c] /\ (next # Idle => task[next] = "queued")
  /\ IF curr[c] = Idle THEN fate = "queued"
                       ELSE fate = "asleep" => sleepy[curr[c]]
  /\ curr' = [curr EXCEPT ![c] = next]
  /\ task' = [t \in Tasks |-> CASE t = next -> "running"
                                [] t = curr[c] -> fate
                                [] OTHER -> task[t]]
  /\ sleepy' = [t \in Tasks |-> sleepy[t] /\ ~(t = curr[c] /\ fate = "dead")]
  /\ woken' = [t \in Tasks |-> IF t = next THEN Absent ELSE woken[t]]

\* runqlat_switch runs and finds a start.
SwitchSampled(c, next, fate) ==
  /\ Switched(c, next, fate)
  /\ SecondAttached /\ next # Idle /\ start_ts[next] # Absent
  /\ runqlat_switch(c, next)
  /\ IF woken[next] # Absent
       THEN truth' = [truth EXCEPT ![c] = Increment(@, BucketOf(clock - woken[next]))]
            /\ UNCHANGED phantom
       ELSE phantom' = phantom + 1 /\ UNCHANGED truth
  /\ slow' = IF clock - start_ts[next] >= TailUs * NsPerUs THEN slow + 1 ELSE slow
  /\ UNCHANGED <<sessionVars, clock, start_ts, hist, wakes, lost, spurious>>

\* runqlat_switch does not run, or finds no start.
SwitchUnsampled(c, next, fate, runs) ==
  /\ Switched(c, next, fate)
  /\ SecondAttached /\ runs /\ next # Idle => start_ts[next] = Absent
  /\ IF next # Idle /\ woken[next] # Absent
       THEN /\ truth' = [truth EXCEPT ![c] = Increment(@, BucketOf(clock - woken[next]))]
            /\ lost' = lost + 1
       ELSE UNCHANGED <<truth, lost>>
  /\ UNCHANGED <<sessionVars, clock, start_ts, hist, handler, wakes, phantom,
                 spurious, slow>>

Tick ==
  /\ ~Over
  /\ clock' \in {now \in Times : clock < now}
  /\ UNCHANGED <<sessionVars, start_ts, hist, schedVars, handler, history>>

----------------------------------------------------------------------------
(* main()                                                                  *)

\* The values of one bucket, added over the CPUs.  The kernel copies them one
\* by one; each only grows, by one at a time, so the sum it yields is the sum
\* of some moment of the copy.
BucketTotal(b) == SumFunction([c \in Cpus |-> hist[c][b]])

\* One iteration of readHist; on an error it keeps the bucket at zero and goes
\* on.  (The mutant takes the value of one CPU.)
readHist_one_cpu == \E c \in Cpus : ReadBucket(hist[c][cursor])
readHist == ReadBucket(BucketTotal(cursor))
readHistContinue == ReadBucket(0)

\* Slots of at least the threshold, and what they count.
sumTail(histogram, thresholdUs) ==
  SumFunctionOnSet(histogram, {b \in Buckets : 2 ^ b >= thresholdUs})

\* The steps with an error path: load, both attachments, saving.
fatalf == Fatal({"started", "loaded", "first", "reported"})

main ==
  /\ \/ LoadObjects
     \/ AttachFirst
     \/ AttachSecond
     \/ WakeUp([b \in Buckets |-> BucketTotal(b)])
     \/ readHist
     \/ readHistContinue
     \/ Report
     \/ Close
     \/ fatalf
  /\ UNCHANGED <<clock, start_ts, hist, schedVars, handler, history>>

Finished == Over /\ UNCHANGED vars

Fates == {"asleep", "queued", "dead"}

Next ==
  \/ Tick
  \/ \E t \in Tasks : SetState(t)
  \/ \E t \in Tasks, runs \in BOOLEAN : Wake(t, runs)
  \/ \E t \in Tasks : Fork(t)
  \/ \E c \in Cpus, next \in Tasks, fate \in Fates : SwitchSampled(c, next, fate)
  \/ \E c \in Cpus, next \in Tasks \cup {Idle}, fate \in Fates, runs \in BOOLEAN :
       SwitchUnsampled(c, next, fate, runs)
  \/ \E c \in Cpus : SwitchLoad(c)
  \/ \E c \in Cpus : SwitchStore(c)
  \/ \E c \in Cpus : SwitchDelete(c)
  \/ main
  \/ Finished

Spec == Init /\ [][Next]_vars

----------------------------------------------------------------------------
(* Properties                                                              *)

\* CPU c has taken a sample for bucket b and has not stored the count.
Due(c, b) == IF handler[c].pc \in {"load", "store"} /\ handler[c].b = b THEN 1 ELSE 0

\* By CPU and bucket: samples taken, and waits that ended.
Cells == Cpus \X Buckets
Taken == [p \in Cells |-> hist[p[1]][p[2]] + Due(p[1], p[2])]
Ended == [p \in Cells |-> truth[p[1]][p[2]]]

\* Starts that belong to no wait in progress and to no running program.
Stale == {t \in Tasks : start_ts[t] # Absent /\ woken[t] = Absent /\ ~InHand(t)}

\* The variables have the types their declarations give.
ProbeTypeOK ==
  /\ clock \in Nat
  /\ start_ts \in [Tasks -> Nat \cup {Absent}]
  /\ hist \in [Cpus -> [Buckets -> Nat]]
  /\ task \in [Tasks -> {"asleep", "queued", "running", "dead"}]
  /\ sleepy \in [Tasks -> BOOLEAN]
  /\ curr \in [Cpus -> Tasks \cup {Idle}]
  /\ handler \in [Cpus -> [pc : {"none", "load", "store", "delete"},
                           b : Buckets, cnt : Nat]]
  /\ woken \in [Tasks -> Nat \cup {Absent}]
  /\ truth \in [Cpus -> [Buckets -> Nat]]
  /\ {wakes, lost, phantom, spurious, slow} \subseteq Nat

\* The variables of main() and of the probe have their types.
TypeOK == SessionTypeOK /\ ProbeTypeOK

\* No sample is invented: every count of a bucket on a CPU is a wait that
\* ended on that CPU and really lasted that long since its wakeup, or one of
\* the phantoms, however wakeups, preemptions and exits interleave.
NoSampleInvented ==
  \A c \in Cpus, b \in Buckets : hist[c][b] + Due(c, b) <= truth[c][b] + phantom

\* runqlat.bpf.c:17 "no atomic needed": although the increment is a load and a
\* store, with CPUs counting in parallel no wait the wakeup program saw is
\* missing from the histogram, unless its start did not fit in start_ts or the
\* switch program did not run for it.
NoSampleLost ==
  \A c \in Cpus, b \in Buckets : truth[c][b] <= hist[c][b] + Due(c, b) + lost

\* Over all CPUs and buckets the account is exact: samples and lost waits are
\* the waits that ended and the phantoms, however the CPUs' loads and stores
\* interleave.
SamplesAddUp == SumFunction(Taken) + lost = SumFunction(Ended) + phantom

\* A start outlives its wait, and a phantom sample appears, only after a
\* switch the program did not see or a wakeup of a task that was on a CPU; each
\* takes one of its own.  The bound is lost and spurious together; waits whose
\* start did not fit count as lost too, though they leave no start.
StaleStartsAreExplained == Cardinality(Stale) + phantom <= lost + spurious

\* A bucket that could be read reports a sum between the end of the sleep and
\* now; one that could not be read reports zero.
ReportWithinCollection ==
  \A b \in Buckets : b < cursor =>
    counts[b] = 0 \/ (atWake[b] <= counts[b] /\ counts[b] <= BucketTotal(b))

\* While a task waits since a seen wakeup, its start is the time of that
\* wakeup, or there was no room for it; a task is current on at most one CPU,
\* and a program in hand has its start in the map.
StartMatchesWait ==
  /\ \A t \in Tasks : woken[t] # Absent =>
       /\ task[t] = "queued"
       /\ woken[t] <= clock
       /\ start_ts[t] \in {woken[t], Absent}
  /\ \A c \in Cpus : curr[c] # Idle => task[curr[c]] = "running"
  /\ \A c, d \in Cpus : curr[c] = curr[d] /\ curr[c] # Idle => c = d
  /\ \A c \in Cpus : handler[c].pc # "none" =>
       curr[c] # Idle /\ start_ts[curr[c]] # Absent
  /\ \A c \in Cpus : handler[c].pc = "store" => handler[c].cnt = hist[c][handler[c].b]

\* The inductive invariant: a task that exited is not woken, which keeps a
\* dead task from waiting, and the parts above.
IInv ==
  /\ ProbeTypeOK
  /\ \A t \in Tasks : task[t] = "dead" => ~sleepy[t]
  /\ StartMatchesWait
  /\ NoSampleInvented
  /\ NoSampleLost
  /\ StaleStartsAreExplained

\* What the report rests on, inductively: main() reads nothing before its sleep
\* has ended, a bucket it has not read stays zero, and no bucket adds up to less
\* now than it did then.
ReportInv ==
  /\ SessionTypeOK
  /\ ReportWithinCollection
  /\ \A b \in Buckets : atWake[b] <= BucketTotal(b)
  /\ \A b \in Buckets : b >= cursor => counts[b] = 0
  /\ loader \in {"started", "loaded", "first", "collecting"} => cursor = 0

\* The total that main() reports is covered by waits that ended and phantoms
\* that were counted, without the lost ones.
ReportAddsUp == SumFunction(counts) + lost <= SumFunction(Ended) + phantom

\* runqlat_design.md: runqlat measures "how long a thread waits in the CPU run
\* queue"; so as long as every switch is seen, every sample is such a wait.
SamplesAreWaits == lost = 0 => phantom = 0

\* runqlat_design.md: "tail = delta >= 8us (bucket >= 3)", and the summary says
\* its unit is microseconds: the tail it reports counts samples that long only.
TailIsSlow == loader = "reported" => sumTail(counts, TailUs) <= slow

----------------------------------------------------------------------------
(* Refinement                                                              *)

\* A wait counts in its bucket, on whatever CPU ends it.
RightCells(d) == Cpus \X {BucketOf(d)}

\* Samples counted, by CPU and bucket.
Shown == [p \in Cells |-> hist[p[1]][p[2]]]

\* runqlat as a recorder of the waits that begin with a seen wakeup.
Recorder == INSTANCE LatencyRecorder WITH
  Ops <- Tasks, Places <- Cells, PlacesOf <- RightCells,
  now <- clock, open <- woken, taken <- Taken, shown <- Shown,
  mishaps <- lost + spurious, strays <- phantom

\* Step by step, runqlat does what a latency recorder may: a wait gives one
\* sample of the time since its last seen wakeup when the task gets a CPU, or
\* is lost; the load and store of the count add each sample once; a sample of
\* no wait needs a lost wait or a wakeup of a running task.
RecordsFaithfully == Recorder!Spec
============================================================================
