------------------------------ MODULE MemLat ------------------------------
(***************************************************************************)
(* memlat: the latency of handle_mm_fault(), measured between a kprobe on  *)
(* its entry and a kretprobe on its return, with one start_ts element per  *)
(* thread and one histogram shared by all CPUs.  Threads fault at any time *)
(* and in parallel, while main() attaches the programs one after the       *)
(* other, sleeps, reads the histogram and detaches.  The kernel may fail   *)
(* to run either program for a call: it skips a program when another one   *)
(* is active on the CPU, and it only follows MAX_ACTIVE returns at once.   *)
(***************************************************************************)
EXTENDS Session, BpfMaps, Log2Buckets

CONSTANTS
  Threads,        \* threads of the machine
  Tgid,           \* [Threads -> process]: the process of a thread
  MAX_ENTRIES,    \* max_entries of start_ts: 8192
  MAX_ACTIVE,     \* kretprobe instances of the kernel
  NsPerUs,        \* the divisor of the unit conversion: 1000
  MaxClock,       \* bound: the clock stops here
  MaxCalls        \* bound: calls of handle_mm_fault in one behaviour

ASSUME MemLatAssumption ==
  /\ IsFiniteSet(Threads)
  /\ {MAX_ENTRIES, MAX_ACTIVE, MaxClock, MaxCalls} \subseteq Nat
  /\ NsPerUs \in Nat \ {0}

VARIABLES
  clock,       \* bpf_ktime_get_ns
  start_ts,    \* HASH: pid_tgid -> time of entry
  hist,        \* ARRAY: bucket -> count
  fault,       \* where each thread stands: "out", "in" the function, "counting"
  began,       \* time at which the current call entered the function
  hooked,      \* the kretprobe follows the return of the current call
  entry,       \* what memlat_entry did in this call: "unseen", "full", "stored"
  bucket,      \* b of memlat_exit, between its delete and its add
  calls,       \* history: calls so far
  truth,       \* history: true duration of the returned calls the entry program saw
  lost,        \* history: returned calls the entry program saw and no sample came of
  phantom      \* history: samples of calls the entry program did not see

kernelVars == <<start_ts, hist, fault, began, hooked, entry, bucket>>
history == <<calls, truth, lost, phantom>>
vars == <<sessionVars, clock, kernelVars, history>>

\* Thread t's key: (PID << 32) | TID.  (The mutant keys by process.)
pid_tgid_process_only(t) == <<Tgid[t], CHOOSE u \in Threads : Tgid[u] = Tgid[t]>>
pid_tgid(t) == <<Tgid[t], t>>

\* Nanoseconds to bucket: convert to microseconds, avoid zero, take log2.
BucketOf(delta_ns) ==
  LET delta_us == delta_ns \div NsPerUs
  IN  memlat_log2_bucket_u64(IF delta_us = 0 THEN 1 ELSE delta_us, MAX_SLOTS)

Init ==
  /\ SessionInit
  /\ clock = 0
  /\ start_ts = [k \in {pid_tgid(t) : t \in Threads} |-> Absent]
  /\ hist = [b \in Buckets |-> 0]
  /\ fault = [t \in Threads |-> "out"]
  /\ began = [t \in Threads |-> 0]
  /\ hooked = [t \in Threads |-> FALSE]
  /\ entry = [t \in Threads |-> "unseen"]
  /\ bucket = [t \in Threads |-> 0]
  /\ calls = 0
  /\ truth = [b \in Buckets |-> 0]
  /\ lost = 0
  /\ phantom = 0

----------------------------------------------------------------------------
(* The two programs                                                        *)

\* BPF_ANY replaces what a call with an unseen return left behind.  (The
\* mutant stores with BPF_NOEXIST.)
memlat_entry_noexist(t) ==
  start_ts' = IF start_ts[pid_tgid(t)] = Absent
              THEN MapUpdate(start_ts, MAX_ENTRIES, pid_tgid(t), clock) ELSE start_ts
memlat_entry(t) == start_ts' = MapUpdate(start_ts, MAX_ENTRIES, pid_tgid(t), clock)

\* A start was found: take the delta and delete the start.  The thread's own
\* element is used by no other thread, so the three calls are one step.  (The
\* mutant keeps the start.)
memlat_exit_keep(t) ==
  /\ start_ts[pid_tgid(t)] # Absent
  /\ bucket' = [bucket EXCEPT ![t] = BucketOf(clock - start_ts[pid_tgid(t)])]
  /\ UNCHANGED start_ts
memlat_exit(t) ==
  /\ start_ts[pid_tgid(t)] # Absent
  /\ bucket' = [bucket EXCEPT ![t] = BucketOf(clock - start_ts[pid_tgid(t)])]
  /\ start_ts' = MapDelete(start_ts, pid_tgid(t))

\* __sync_fetch_and_add(cnt, 1)
memlat_count(t) == hist' = Increment(hist, bucket[t])

----------------------------------------------------------------------------
(* Calls of handle_mm_fault                                                *)

\* The call enters; runs says whether the kernel runs the entry program.
EnterFault(t, runs) ==
  /\ ~Over /\ calls < MaxCalls /\ fault[t] = "out"
  /\ fault' = [fault EXCEPT ![t] = "in"]
  /\ began' = [began EXCEPT ![t] = clock]
  /\ hooked' = [hooked EXCEPT ![t] =
       SecondAttached /\ Cardinality({u \in Threads : hooked[u]}) < MAX_ACTIVE]
  /\ \/ /\ FirstAttached /\ runs
        /\ memlat_entry(t)
        /\ entry' = [entry EXCEPT ![t] =
             IF HasRoom(start_ts, MAX_ENTRIES, pid_tgid(t)) THEN "stored" ELSE "full"]
     \/ /\ ~(FirstAttached /\ runs)
        /\ entry' = [entry EXCEPT ![t] = "unseen"]
        /\ UNCHANGED start_ts
  /\ calls' = calls + 1
  /\ UNCHANGED <<sessionVars, clock, hist, bucket, truth, lost, phantom>>

\* The exit program runs for this return.
ExitSeen(t, runs) == hooked[t] /\ SecondAttached /\ runs

\* What the history says of a call that returns now, with or without a sample.
Returned(t, sampled) ==
  /\ truth' = IF entry[t] = "unseen" THEN truth
              ELSE Increment(truth, BucketOf(clock - began[t]))
  /\ lost' = IF entry[t] # "unseen" /\ ~sampled THEN lost + 1 ELSE lost
  /\ phantom' = IF entry[t] = "unseen" /\ sampled THEN phantom + 1 ELSE phantom

\* The call returns and the exit program finds a start.
ReturnSampled(t) ==
  /\ ~Over /\ fault[t] = "in" /\ ExitSeen(t, TRUE)
  /\ memlat_exit(t)
  /\ Returned(t, TRUE)
  /\ fault' = [fault EXCEPT ![t] = "counting"]
  /\ hooked' = [hooked EXCEPT ![t] = FALSE]
  /\ UNCHANGED <<sessionVars, clock, hist, began, entry, calls>>

\* The call returns and no sample comes of it: the exit program does not run,
\* or finds no start.
ReturnUnsampled(t, runs) ==
  /\ ~Over /\ fault[t] = "in"
  /\ ExitSeen(t, runs) => start_ts[pid_tgid(t)] = Absent
  /\ Returned(t, FALSE)
  /\ fault' = [fault EXCEPT ![t] = "out"]
  /\ hooked' = [hooked EXCEPT ![t] = FALSE]
  /\ UNCHANGED <<sessionVars, clock, start_ts, hist, began, entry, bucket, calls>>

\* The exit program adds its event to the histogram and ends.
CountSample(t) ==
  /\ ~Over /\ fault[t] = "counting"
  /\ memlat_count(t)
  /\ fault' = [fault EXCEPT ![t] = "out"]
  /\ UNCHANGED <<sessionVars, clock, start_ts, began, hooked, entry, bucket, history>>

Tick ==
  /\ ~Over /\ clock < MaxClock
  /\ clock' = clock + 1
  /\ UNCHANGED <<sessionVars, kernelVars, history>>

----------------------------------------------------------------------------
(* main()                                                                  *)

\* Iteration i of readHist (and, as a mutant, one that is off by a bucket).
readHist_shifted == ReadBucket(hist[(cursor + 1) % MAX_SLOTS])
readHist == ReadBucket(hist[cursor])

\* The steps with an error path: load, both attachments, Lookup, saving.
fatalf == Fatal({"started", "loaded", "first", "reading", "reported"})

main ==
  /\ \/ LoadObjects
     \/ AttachFirst
     \/ AttachSecond
     \/ WakeUp(hist)
     \/ readHist
     \/ Report
     \/ Close
     \/ fatalf
  /\ UNCHANGED <<clock, kernelVars, history>>

\* The run has ended; nothing is left to observe.
Finished == Over /\ UNCHANGED vars

Next ==
  \/ Tick
  \/ \E t \in Threads, runs \in BOOLEAN : EnterFault(t, runs)
  \/ \E t \in Threads : ReturnSampled(t)
  \/ \E t \in Threads, runs \in BOOLEAN : ReturnUnsampled(t, runs)
  \/ \E t \in Threads : CountSample(t)
  \/ main
  \/ Finished

Spec == Init /\ [][Next]_vars

----------------------------------------------------------------------------
(* Properties                                                              *)

\* Samples taken and not yet added to bucket b.
Due(b) == {t \in Threads : fault[t] = "counting" /\ bucket[t] = b}

\* Starts that belong to no call in progress.
Stale == {t \in Threads : start_ts[pid_tgid(t)] # Absent
                          /\ ~(fault[t] = "in" /\ entry[t] = "stored")}

\* The variables have the types their declarations give.
TypeOK ==
  /\ SessionTypeOK
  /\ clock \in Nat
  /\ start_ts \in [{pid_tgid(t) : t \in Threads} -> Nat \cup {Absent}]
  /\ hist \in [Buckets -> Nat]
  /\ fault \in [Threads -> {"out", "in", "counting"}]
  /\ began \in [Threads -> Nat]
  /\ hooked \in [Threads -> BOOLEAN]
  /\ entry \in [Threads -> {"unseen", "full", "stored"}]
  /\ bucket \in [Threads -> Buckets]
  /\ truth \in [Buckets -> Nat]
  /\ {calls, lost, phantom} \subseteq Nat

\* No sample is invented: every count of a bucket is a call that really took
\* that long, or one of the phantoms, whatever the threads interleave, whatever
\* returns went unseen and whatever starts they left in the map.
NoSampleInvented ==
  \A b \in Buckets : hist[b] + Cardinality(Due(b)) <= truth[b] + phantom

\* No sample is lost silently: every call the entry program saw is counted in
\* the bucket of its true duration, unless its start did not fit in start_ts
\* or the exit program did not run for it.
NoSampleLost ==
  \A b \in Buckets : truth[b] <= hist[b] + Cardinality(Due(b)) + lost

\* A start outlives its call only when the exit program did not see the
\* return, and a phantom sample uses up one such start: each takes a failure of
\* its own.  The bound is lost, in which calls that found start_ts full count too,
\* though they leave no start.
StaleStartsAreUnseenReturns == Cardinality(Stale) + phantom <= lost

\* The histogram is read bucket by bucket while it still grows: each value
\* read lies between the end of the sleep and now.
ReportWithinCollection ==
  \A b \in Buckets : b < cursor => atWake[b] <= counts[b] /\ counts[b] <= hist[b]

\* The inductive invariant: while a call is in progress its start is in the
\* map exactly when the entry program stored it, with the time of entry.
StartMatchesCall ==
  \A t \in Threads : fault[t] = "in" =>
    /\ began[t] <= clock
    /\ entry[t] = "stored" => start_ts[pid_tgid(t)] = began[t]
    /\ entry[t] = "full" => start_ts[pid_tgid(t)] = Absent

IInv ==
  /\ TypeOK
  /\ StartMatchesCall
  /\ NoSampleInvented
  /\ NoSampleLost
  /\ StaleStartsAreUnseenReturns
  /\ SessionInv(hist)
  /\ \A t \in Threads : start_ts[pid_tgid(t)] <= clock

\* memlat_design.md: a start is "read and deleted at function exit. This
\* prevents stale state accumulation", that is, while both programs are
\* attached every start belongs to a call in progress.
NoStaleState == loader = "collecting" => Stale = {}

----------------------------------------------------------------------------
(* Refinement                                                              *)

\* A call has one right bucket.
RightBucket(d) == {BucketOf(d)}

\* Samples taken of each bucket, those not yet added included.
Taken == [b \in Buckets |-> hist[b] + Cardinality(Due(b))]

\* When each call in progress began, if the entry program saw it.
Seen == [t \in Threads |->
  IF fault[t] = "in" /\ entry[t] # "unseen" THEN began[t] ELSE Absent]

\* memlat as a recorder of the calls the entry program sees.
Recorder == INSTANCE LatencyRecorder WITH
  Ops <- Threads, Places <- Buckets, PlacesOf <- RightBucket,
  now <- clock, open <- Seen, taken <- Taken, shown <- hist, mishaps <- lost, strays <- phantom

\* Step by step, memlat does what a latency recorder may: each seen call gives
\* one sample of its own duration when it returns, or is lost; each sample is
\* added to the histogram once; a sample of no seen call needs a lost one.
RecordsFaithfully == Recorder!Spec
============================================================================
