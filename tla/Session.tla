------------------------------ MODULE Session ------------------------------
(***************************************************************************)
(* One run of a collector: main() of memlat, runqlat and iolat is the same *)
(* straight line of steps.  It loads the BPF objects, attaches the program *)
(* that records the start of an operation and then the one that ends it,   *)
(* sleeps for the duration, reads the histogram one bucket at a time while *)
(* both programs are still attached, reports, and detaches in the reverse  *)
(* order when its deferred calls run.  The probe modules extend this one   *)
(* and supply the histogram.                                               *)
(***************************************************************************)
EXTENDS Integers

CONSTANT MAX_SLOTS              \* buckets of the histogram: 64, 64 and 26

ASSUME SlotsAssumption == MAX_SLOTS \in Nat \ {0, 1}

VARIABLES
  loader,     \* the last step of main() that succeeded
  cursor,     \* the bucket readHist looks up next
  counts,     \* the buckets read so far
  atWake      \* history: the histogram when the sleep ended

sessionVars == <<loader, cursor, counts, atWake>>

Buckets == 0 .. MAX_SLOTS - 1

Stages == {"started", "loaded", "first", "collecting", "reading", "reported",
           "secondClosed", "firstClosed", "closed", "exited"}

\* The programs that run on kernel events at this stage of main().
FirstAttached  == loader \in {"first", "collecting", "reading", "reported", "secondClosed"}
SecondAttached == loader \in {"collecting", "reading", "reported"}

\* The process has gone and the kernel has freed its programs and maps.
Over == loader \in {"closed", "exited"}

SessionInit ==
  /\ loader = "started"
  /\ cursor = 0
  /\ counts = [b \in Buckets |-> 0]
  /\ atWake = [b \in Buckets |-> 0]

Advance(from, to) == loader = from /\ loader' = to

LoadObjects  == Advance("started", "loaded") /\ UNCHANGED <<cursor, counts, atWake>>
AttachFirst  == Advance("loaded", "first") /\ UNCHANGED <<cursor, counts, atWake>>
AttachSecond == Advance("first", "collecting") /\ UNCHANGED <<cursor, counts, atWake>>

\* time.Sleep(dur) returns; the length of the sleep is left open.
WakeUp(hist) ==
  /\ Advance("collecting", "reading")
  /\ atWake' = hist
  /\ UNCHANGED <<cursor, counts>>

\* One iteration of readHist: value is what Lookup returns for this bucket.
ReadBucket(value) ==
  /\ loader = "reading" /\ cursor < MAX_SLOTS
  /\ counts' = [counts EXCEPT ![cursor] = value]
  /\ cursor' = cursor + 1
  /\ UNCHANGED <<loader, atWake>>

\* Print the table and save the files from counts.
Report ==
  /\ cursor = MAX_SLOTS
  /\ Advance("reading", "reported")
  /\ UNCHANGED <<cursor, counts, atWake>>

\* The deferred Close calls, last attached first.
Close ==
  /\ \/ Advance("reported", "secondClosed")
     \/ Advance("secondClosed", "firstClosed")
     \/ Advance("firstClosed", "closed")
  /\ UNCHANGED <<cursor, counts, atWake>>

\* An error of the step that main() attempts at one of these stages: the
\* process exits, no deferred call runs, and the kernel detaches everything.
Fatal(stages) ==
  /\ loader \in stages
  /\ loader' = "exited"
  /\ UNCHANGED <<cursor, counts, atWake>>

SessionTypeOK ==
  /\ loader \in Stages
  /\ cursor \in 0 .. MAX_SLOTS
  /\ counts \in [Buckets -> Nat]
  /\ atWake \in [Buckets -> Nat]

\* Nothing is read before the sleep has ended, and each bucket read lies between
\* its value then and its value now in the histogram h.
SessionInv(h) ==
  /\ SessionTypeOK
  /\ \A b \in Buckets : b < cursor => atWake[b] <= counts[b] /\ counts[b] <= h[b]
  /\ \A b \in Buckets : atWake[b] <= h[b]
  /\ loader \in {"started", "loaded", "first", "collecting"} => cursor = 0
============================================================================
