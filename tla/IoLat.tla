------------------------------- MODULE IoLat -------------------------------
(***************************************************************************)
(* iolat: the time from block_rq_issue to block_rq_complete of a request,  *)
(* with one start_ts element per struct request address and one histogram  *)
(* shared by all CPUs.  The block layer is the environment: a request is   *)
(* allocated at an address that was used before, issued, perhaps requeued  *)
(* and issued again, and completed in one part or several; the program     *)
(* runs on every part.  The kernel may skip a program, as it does when the *)
(* same program is active on the CPU.                                      *)
(***************************************************************************)
EXTENDS Session, BpfMaps, Log2Buckets

CONSTANTS
  Requests,       \* addresses of struct request
  MAX_ENTRIES,    \* max_entries of start_ts: 131072
  NsPerUs,        \* the divisor of the unit conversion: 1000
  Times,          \* bound: the values the clock takes after its start at zero
  MaxIssues       \* bound: issues the issue program sees in one behaviour

ASSUME IoLatAssumption ==
  /\ IsFiniteSet(Requests)
  /\ {MAX_ENTRIES, MaxIssues} \cup Times \subseteq Nat
  /\ NsPerUs \in Nat \ {0}

VARIABLES
  clock,       \* bpf_ktime_get_ns
  start_ts,    \* HASH: rq_id -> ts of struct iolat_start, which nothing else of is read
  hist,        \* ARRAY: bucket -> count
  rq,          \* "free", "ready" (not with the device) or "issued"
  complete,    \* the run of iolat_complete for a request: its next step and b
  issued,      \* history: the seen issue the request awaits completion of, or Absent
  issues,      \* history: issues the issue program saw
  truth,       \* history: true time from a seen issue to the completion after it
  lost,        \* history: seen issues whose completion gave no sample
  phantom      \* history: samples of completions that end no seen issue

blockVars == <<rq, issued>>
history == <<issues, truth, lost, phantom>>
vars == <<sessionVars, clock, start_ts, hist, blockVars, complete, history>>

\* No program runs for this request.
NoProgram == [pc |-> "none", b |-> 0]

Init ==
  /\ SessionInit
  /\ clock = 0
  /\ start_ts = [r \in Requests |-> Absent]
  /\ hist = [b \in Buckets |-> 0]
  /\ rq = [r \in Requests |-> "free"]
  /\ complete = [r \in Requests |-> NoProgram]
  /\ issued = [r \in Requests |-> Absent]
  /\ truth = [b \in Buckets |-> 0]
  /\ issues = 0 /\ lost = 0 /\ phantom = 0

----------------------------------------------------------------------------
(* The two programs                                                        *)

\* Convert to microseconds and bucket; zero stays zero.
BucketOf(delta_ns) == iolat_log2_bucket(delta_ns \div NsPerUs, MAX_SLOTS)

\* BPF_ANY replaces the start of an earlier issue, of this request or of one
\* at its address.  (The mutant uses BPF_NOEXIST.)
iolat_issue_noexist(r) ==
  start_ts' = IF start_ts[r] = Absent
              THEN MapUpdate(start_ts, MAX_ENTRIES, r, clock) ELSE start_ts
iolat_issue(r) == start_ts' = MapUpdate(start_ts, MAX_ENTRIES, r, clock)

\* iolat_complete finds a start and computes b.  (The mutant buckets
\* nanoseconds.)
iolat_complete_ns(r) ==
  /\ start_ts[r] # Absent
  /\ complete' = [complete EXCEPT ![r] =
       [pc |-> "count", b |-> iolat_log2_bucket(clock - start_ts[r], MAX_SLOTS)]]
iolat_complete(r) ==
  /\ start_ts[r] # Absent
  /\ complete' = [complete EXCEPT ![r] =
       [pc |-> "count", b |-> BucketOf(clock - start_ts[r])]]

\* __sync_fetch_and_add(cnt, 1)
CountSample(r) ==
  /\ ~Over /\ complete[r].pc = "count"
  /\ hist' = Increment(hist, complete[r].b)
  /\ complete' = [complete EXCEPT ![r].pc = "delete"]
  /\ UNCHANGED <<sessionVars, clock, start_ts, blockVars, history>>

\* The delete that ends the program.  (The mutant leaves it out.)
end_start_keep(r) == UNCHANGED start_ts
end_start(r) == start_ts' = MapDelete(start_ts, r)

DeleteStart(r) ==
  /\ ~Over /\ complete[r].pc = "delete"
  /\ end_start(r)
  /\ complete' = [complete EXCEPT ![r] = NoProgram]
  /\ UNCHANGED <<sessionVars, clock, hist, blockVars, history>>

----------------------------------------------------------------------------
(* The block layer.  The programs run inside its calls, so nothing else      *)
(* happens to a request while iolat_complete runs for it.                    *)

\* A new request at this address.
Allocate(r) ==
  /\ ~Over /\ rq[r] = "free" /\ complete[r].pc = "none"
  /\ rq' = [rq EXCEPT ![r] = "ready"]
  /\ UNCHANGED <<sessionVars, clock, start_ts, hist, issued, complete, history>>

\* The request goes to the device; runs says whether the kernel runs the program.
Issue(r, runs) ==
  /\ ~Over /\ rq[r] = "ready" /\ complete[r].pc = "none"
  /\ rq' = [rq EXCEPT ![r] = "issued"]
  /\ \/ /\ FirstAttached /\ runs /\ issues < MaxIssues
        /\ iolat_issue(r)
        /\ issued' = [issued EXCEPT ![r] = clock]
        /\ issues' = issues + 1
        /\ UNCHANGED lost
     \/ /\ ~(FirstAttached /\ runs)
        /\ issued' = [issued EXCEPT ![r] = Absent]
        /\ lost' = IF issued[r] # Absent THEN lost + 1 ELSE lost
        /\ UNCHANGED <<start_ts, issues>>
  /\ UNCHANGED <<sessionVars, clock, hist, complete, truth, phantom>>

\* The device is busy or the transfer is to be tried again: no completion.
Requeue(r) ==
  /\ ~Over /\ rq[r] = "issued" /\ complete[r].pc = "none"
  /\ rq' = [rq EXCEPT ![r] = "ready"]
  /\ UNCHANGED <<sessionVars, clock, start_ts, hist, issued, complete, history>>

\* block_rq_complete of a part of the request or of the last part; after says
\* what becomes of the request.  A request that is not with the device can
\* only fail as a whole.
Completed(r, after) ==
  /\ ~Over /\ complete[r].pc = "none"
  /\ rq[r] = "issued" \/ (rq[r] = "ready" /\ after = "free")
  /\ rq' = [rq EXCEPT ![r] = after]
  /\ truth' = IF issued[r] = Absent THEN truth
              ELSE Increment(truth, BucketOf(clock - issued[r]))
  /\ issued' = [issued EXCEPT ![r] = Absent]

\* The program runs and finds a start.
CompleteSampled(r, after) ==
  /\ Completed(r, after)
  /\ SecondAttached
  /\ iolat_complete(r)
  /\ phantom' = IF issued[r] = Absent THEN phantom + 1 ELSE phantom
  /\ UNCHANGED <<sessionVars, clock, start_ts, hist, issues, lost>>

\* The program does not run, or finds no start.
CompleteUnsampled(r, after, runs) ==
  /\ Completed(r, after)
  /\ SecondAttached /\ runs => start_ts[r] = Absent
  /\ lost' = IF issued[r] # Absent THEN lost + 1 ELSE lost
  /\ UNCHANGED <<sessionVars, clock, start_ts, hist, complete, issues, phantom>>

Tick ==
  /\ ~Over
  /\ clock' \in {now \in Times : clock < now}
  /\ UNCHANGED <<sessionVars, start_ts, hist, blockVars, complete, history>>

----------------------------------------------------------------------------
(* main()                                                                  *)

\* One iteration of the read loop (and, as a mutant, one off by a bucket).
readHist_shifted == ReadBucket(hist[(cursor + 1) % MAX_SLOTS])
readHist == ReadBucket(hist[cursor])

\* Steps with an error path: rlimit and load, attachments, Lookup, saving.
exit == Fatal({"started", "loaded", "first", "reading", "reported"})

main ==
  /\ \/ LoadObjects
     \/ AttachFirst
     \/ AttachSecond
     \/ WakeUp(hist)
     \/ readHist
     \/ Report
     \/ Close
     \/ exit
  /\ UNCHANGED <<clock, start_ts, hist, blockVars, complete, history>>

Finished == Over /\ UNCHANGED vars

Next ==
  \/ Tick
  \/ \E r \in Requests : Allocate(r)
  \/ \E r \in Requests, runs \in BOOLEAN : Issue(r, runs)
  \/ \E r \in Requests : Requeue(r)
  \/ \E r \in Requests, after \in {"free", "ready", "issued"} : CompleteSampled(r, after)
  \/ \E r \in Requests, after \in {"free", "ready", "issued"}, runs \in BOOLEAN :
       CompleteUnsampled(r, after, runs)
  \/ \E r \in Requests : CountSample(r)
  \/ \E r \in Requests : DeleteStart(r)
  \/ main
  \/ Finished

Spec == Init /\ [][Next]_vars

----------------------------------------------------------------------------
(* Properties                                                              *)

\* Samples taken and not yet added to bucket b.
Due(b) == {r \in Requests : complete[r].pc = "count" /\ complete[r].b = b}

\* Starts that belong to no seen issue in progress and to no running program.
Stale == {r \in Requests : start_ts[r] # Absent /\ issued[r] = Absent
                           /\ complete[r].pc = "none"}

\* The variables have the types their declarations give.
TypeOK ==
  /\ SessionTypeOK
  /\ clock \in Nat
  /\ start_ts \in [Requests -> Nat \cup {Absent}]
  /\ hist \in [Buckets -> Nat]
  /\ rq \in [Requests -> {"free", "ready", "issued"}]
  /\ complete \in [Requests -> [pc : {"none", "count", "delete"}, b : Buckets]]
  /\ issued \in [Requests -> Nat \cup {Absent}]
  /\ truth \in [Buckets -> Nat]
  /\ {issues, lost, phantom} \subseteq Nat

\* No sample is invented: every count is a completion that really came that
\* long after the last issue of its request, or one of the phantoms, across
\* requeues, partial completions and reuse of the request's address.
NoSampleInvented ==
  \A b \in Buckets : hist[b] + Cardinality(Due(b)) <= truth[b] + phantom

\* No sample is lost silently: the first completion after each issue the issue
\* program saw is counted in its true bucket, unless the start did not fit in
\* start_ts, or a program did not run for the completion or for a later issue.
NoSampleLost ==
  \A b \in Buckets : truth[b] <= hist[b] + Cardinality(Due(b)) + lost

\* How far stale starts go: one outlives its request, and a later request at the
\* address takes it for its own, only after an event that the programs missed,
\* one for each such start or sample.  The bound is lost, in which issues that
\* found start_ts full count too, though they leave no start.
StaleStartsAreExplained == Cardinality(Stale) + phantom <= lost

\* Each bucket reported is a value of the counter between the end of the
\* sleep and now, though completions are counted while the loop reads.
ReportWithinCollection ==
  \A b \in Buckets : b < cursor => atWake[b] <= counts[b] /\ counts[b] <= hist[b]

\* While a request awaits the completion of a seen issue, its start is the time
\* of that issue, or there was no room for it.
StartMatchesIssue ==
  \A r \in Requests :
    /\ issued[r] # Absent =>
         /\ rq[r] # "free" /\ complete[r].pc = "none"
         /\ issued[r] <= clock
         /\ start_ts[r] \in {issued[r], Absent}
    /\ complete[r].pc # "none" => start_ts[r] # Absent

\* The inductive invariant.
IInv ==
  /\ TypeOK
  /\ StartMatchesIssue
  /\ NoSampleInvented
  /\ NoSampleLost
  /\ StaleStartsAreExplained
  /\ SessionInv(hist)

\* iolat_design.md of the delete at completion: it "guarantees: bounded map size,
\* no stale request state", that is, while both programs are attached a start
\* belongs to a request, or to the program that ends it, and goes with it.
NoStaleRequestState ==
  loader = "collecting" =>
    \A r \in Requests : start_ts[r] # Absent => rq[r] # "free" \/ complete[r].pc # "none"

\* iolat_design.md: the latency ends at "the timestamp when the request is
\* completed": a sample is taken of a request only when nothing of it is left.
SamplesAreOfFinishedRequests ==
  \A r \in Requests : complete[r].pc # "none" => rq[r] = "free"

----------------------------------------------------------------------------
(* Refinement                                                              *)

\* A request's time has one right bucket.
RightBucket(d) == {BucketOf(d)}

\* Samples taken of each bucket, those not yet added included.
Taken == [b \in Buckets |-> hist[b] + Cardinality(Due(b))]

\* iolat as a recorder of the requests the issue program sees.
Recorder == INSTANCE LatencyRecorder WITH
  Ops <- Requests, Places <- Buckets, PlacesOf <- RightBucket,
  now <- clock, open <- issued, taken <- Taken,
  shown <- hist, mishaps <- lost, strays <- phantom

\* Step by step, iolat does what a latency recorder may: the first completion
\* after a seen issue gives one sample of the time since the last such issue,
\* or is lost; each sample is added once; a sample of no seen issue needs a
\* lost one.
RecordsFaithfully == Recorder!Spec
============================================================================
