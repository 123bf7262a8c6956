--------------------------- MODULE MemLatProofs ---------------------------
(***************************************************************************)
(* The safety of memlat for every number of threads, buckets, start_ts     *)
(* elements and kretprobe instances: IInv of MemLat is inductive, and      *)
(* memlat implements LatencyRecorder.                                      *)
(***************************************************************************)
EXTENDS MemLat, SessionProofs, FiniteSetTheorems

KeySet == {pid_tgid(t) : t \in Threads}

\* Two threads never share a key: the low half of pid_tgid is the thread.
LEMMA KeyIsThread ==
  ASSUME NEW t \in Threads, NEW u \in Threads, pid_tgid(t) = pid_tgid(u)
  PROVE  t = u
BY DEF pid_tgid

\* memlat's loop counts at most slots - 1 shifts, so it names a slot.
LEMMA MemlatBucketInRange ==
  ASSUME NEW v
  PROVE  memlat_log2_bucket_u64(v, MAX_SLOTS) \in Buckets
<1> DEFINE S == {i \in 1 .. MAX_SLOTS - 1 : Shr(v, i) # 0}
<1>1. MAX_SLOTS - 1 \in Nat
  BY SlotsAssumption
<1>2. /\ IsFiniteSet(1 .. MAX_SLOTS - 1)
      /\ Cardinality(1 .. MAX_SLOTS - 1) = MAX_SLOTS - 1
  BY <1>1, FS_Interval
<1>3. S \in SUBSET (1 .. MAX_SLOTS - 1)
  OBVIOUS
<1>4. IsFiniteSet(S) /\ Cardinality(S) <= MAX_SLOTS - 1
  BY <1>2, <1>3, FS_Subset
<1>5. Cardinality(S) \in Nat
  BY <1>4, FS_CardinalityType
<1> QED
  BY <1>1, <1>4, <1>5 DEF memlat_log2_bucket_u64, Buckets

\* What memlat_exit computes names a slot, for any delta.
LEMMA BucketInRange ==
  ASSUME NEW d
  PROVE  BucketOf(d) \in Buckets
BY MemlatBucketInRange DEF BucketOf

\* Sets of threads are finite and are counted by a natural number.
LEMMA ThreadSets ==
  ASSUME NEW S \in SUBSET Threads
  PROVE  IsFiniteSet(S) /\ Cardinality(S) \in Nat
BY MemLatAssumption, FS_Subset, FS_CardinalityType

\* Adding or removing one thread changes the count by at most that one.
LEMMA CountAdd ==
  ASSUME NEW S \in SUBSET Threads, NEW t \in Threads
  PROVE  Cardinality(S \cup {t}) = IF t \in S THEN Cardinality(S) ELSE Cardinality(S) + 1
BY ThreadSets, FS_AddElement

LEMMA CountRemove ==
  ASSUME NEW S \in SUBSET Threads, NEW t \in Threads
  PROVE  Cardinality(S \ {t}) = IF t \in S THEN Cardinality(S) - 1 ELSE Cardinality(S)
BY ThreadSets, FS_RemoveElement

LEMMA CountMonotone ==
  ASSUME NEW S \in SUBSET Threads, NEW T \in SUBSET S
  PROVE  Cardinality(T) <= Cardinality(S)
BY ThreadSets, FS_Subset

\* IInv holds before anything has happened.
LEMMA InitIInv == Init => IInv
<1> SUFFICES ASSUME Init PROVE IInv
  OBVIOUS
<1> USE DEF Init, SessionInit
<1>1. TypeOK
  BY SlotsAssumption DEF TypeOK, SessionTypeOK, Stages, Buckets
<1>2. \A b \in Buckets : Due(b) = {}
  BY DEF Due
<1>3. Stale = {}
  BY DEF Stale
<1>4. Cardinality({}) = 0
  BY FS_EmptySet
<1>5. NoSampleInvented /\ NoSampleLost /\ StaleStartsAreUnseenReturns
  BY <1>2, <1>3, <1>4 DEF NoSampleInvented, NoSampleLost, StaleStartsAreUnseenReturns
<1>6. StartMatchesCall
  BY DEF StartMatchesCall
<1>7. SessionInv(hist)
  BY SessionStart
<1>8. \A t \in Threads : start_ts[pid_tgid(t)] <= clock
  BY DEF Absent
<1> QED
  BY <1>1, <1>5, <1>6, <1>7, <1>8 DEF IInv

\* A step that leaves the kernel's state and the history alone keeps their
\* part of IInv.
LEMMA KernelUnchanged ==
  ASSUME IInv, UNCHANGED <<kernelVars, history>>, clock' \in Nat, clock <= clock'
  PROVE  /\ StartMatchesCall'
         /\ NoSampleInvented'
         /\ NoSampleLost'
         /\ StaleStartsAreUnseenReturns'
         /\ (\A t \in Threads : start_ts[pid_tgid(t)] <= clock)'
<1> USE DEF IInv, kernelVars, history
<1>1. StartMatchesCall'
  <2> SUFFICES ASSUME NEW t \in Threads, fault[t] = "in"
               PROVE  /\ began[t] <= clock'
                      /\ entry[t] = "stored" => start_ts[pid_tgid(t)] = began[t]
                      /\ entry[t] = "full" => start_ts[pid_tgid(t)] = Absent
    BY DEF StartMatchesCall, pid_tgid
  <2> QED
    BY DEF StartMatchesCall, TypeOK
<1>2. /\ Stale' = Stale
      /\ \A b \in Buckets : Due(b)' = Due(b)
  BY DEF Stale, Due, pid_tgid
<1>3. NoSampleInvented' /\ NoSampleLost' /\ StaleStartsAreUnseenReturns'
  BY <1>2 DEF NoSampleInvented, NoSampleLost, StaleStartsAreUnseenReturns
<1>4. \A t \in Threads : start_ts[pid_tgid(t)] \in Int
  BY DEF TypeOK, Absent
<1>5. (\A t \in Threads : start_ts[pid_tgid(t)] <= clock)'
  BY <1>4 DEF TypeOK, pid_tgid
<1> QED
  BY <1>1, <1>3, <1>5

\* Time passes; nothing else changes.
LEMMA TickStep == ASSUME IInv, Tick PROVE IInv'
<1> USE DEF Tick
<1>1. clock' \in Nat /\ clock <= clock'
  BY DEF IInv, TypeOK
<1>2. TypeOK'
  BY <1>1 DEF IInv, TypeOK, sessionVars, kernelVars, history, SessionTypeOK, pid_tgid
<1>3. SessionInv(hist)'
  BY DEF IInv, SessionInv, SessionTypeOK, sessionVars, kernelVars
<1> QED
  BY <1>1, <1>2, <1>3, KernelUnchanged DEF IInv

\* main() only reads the probe's state.
LEMMA MainStep == ASSUME IInv, main PROVE IInv'
<1> USE DEF IInv
<1>1. clock' = clock /\ UNCHANGED <<kernelVars, history>>
  BY DEF main
<1>2. /\ StartMatchesCall'
      /\ NoSampleInvented'
      /\ NoSampleLost'
      /\ StaleStartsAreUnseenReturns'
      /\ (\A t \in Threads : start_ts[pid_tgid(t)] <= clock)'
  BY <1>1, KernelUnchanged DEF TypeOK
<1>3. SessionInv(hist)'
  BY <1>1, SessionStep DEF main, readHist, fatalf, TypeOK, SessionInv, kernelVars
<1>4. TypeOK'
  BY <1>1, <1>3 DEF TypeOK, SessionInv, kernelVars, history, pid_tgid
<1> QED
  BY <1>2, <1>3, <1>4

\* An entry that is seen replaces whatever start the thread's key has, or finds
\* no room; no start becomes stale by it.
LEMMA EnterStep ==
  ASSUME IInv, NEW t \in Threads, NEW runs \in BOOLEAN, EnterFault(t, runs)
  PROVE  IInv'
<1> USE DEF IInv, EnterFault
<1>1. start_ts' \in [KeySet -> Nat \cup {Absent}] /\ pid_tgid(t) \in KeySet
  BY DEF TypeOK, memlat_entry, MapUpdate, KeySet
<1>2. \A u \in Threads : u # t => start_ts'[pid_tgid(u)] = start_ts[pid_tgid(u)]
  BY KeyIsThread DEF TypeOK, memlat_entry, MapUpdate
<1>3. TypeOK'
  <2>1. (SessionTypeOK)'
    BY DEF TypeOK, SessionTypeOK, sessionVars
  <2>2. (entry \in [Threads -> {"unseen", "full", "stored"}])'
    BY DEF TypeOK
  <2>3. (start_ts \in [{pid_tgid(u) : u \in Threads} -> Nat \cup {Absent}])'
    BY <1>1 DEF KeySet, pid_tgid
  <2> QED
    BY <2>1, <2>2, <2>3 DEF TypeOK
<1>4. /\ entry'[t] = "stored" => start_ts'[pid_tgid(t)] = clock
      /\ entry'[t] = "full" => start_ts'[pid_tgid(t)] = Absent
      /\ start_ts'[pid_tgid(t)] \in {clock, start_ts[pid_tgid(t)]}
      /\ fault'[t] = "in" /\ began'[t] = clock
      /\ entry'[t] \in {"full", "unseen"} => start_ts'[pid_tgid(t)] = start_ts[pid_tgid(t)]
  BY <1>1 DEF TypeOK, memlat_entry, MapUpdate, HasRoom, KeySet
<1>5. \A u \in Threads : u # t => /\ fault'[u] = fault[u] /\ began'[u] = began[u]
                                  /\ entry'[u] = entry[u]
  BY DEF TypeOK
<1>6. clock' = clock /\ clock \in Nat
  BY DEF TypeOK
<1>7. StartMatchesCall'
  <2> SUFFICES ASSUME NEW u \in Threads, fault'[u] = "in"
               PROVE  /\ began'[u] <= clock
                      /\ entry'[u] = "stored" => start_ts'[pid_tgid(u)] = began'[u]
                      /\ entry'[u] = "full" => start_ts'[pid_tgid(u)] = Absent
    BY <1>6 DEF StartMatchesCall, pid_tgid
  <2>1. CASE u = t
    BY <2>1, <1>4, <1>6
  <2>2. CASE u # t
    BY <2>2, <1>2, <1>5 DEF StartMatchesCall
  <2> QED
    BY <2>1, <2>2
<1>8. \A b \in Buckets : Due(b)' = Due(b)
  BY <1>4, <1>5 DEF Due
<1>9. NoSampleInvented' /\ NoSampleLost'
  BY <1>8 DEF NoSampleInvented, NoSampleLost
<1>10. Stale' \subseteq Stale
  <2> SUFFICES ASSUME NEW u \in Threads, u \in Stale'
               PROVE  u \in Stale
    BY DEF Stale
  <2>0. start_ts'[pid_tgid(u)] # Absent /\ ~(fault'[u] = "in" /\ entry'[u] = "stored")
    BY DEF Stale, pid_tgid
  <2>1. CASE u = t
    <3>1. entry'[t] \in {"full", "unseen"}
      BY <2>0, <2>1, <1>3, <1>4 DEF TypeOK
    <3> QED
      BY <2>0, <2>1, <3>1, <1>4 DEF Stale
  <2>2. CASE u # t
    BY <2>0, <2>2, <1>2, <1>5 DEF Stale
  <2> QED
    BY <2>1, <2>2
<1>11. StaleStartsAreUnseenReturns'
  <2>1. Stale \in SUBSET Threads /\ Stale' \in SUBSET Threads
    BY DEF Stale
  <2> QED
    BY <2>1, <1>10, ThreadSets, CountMonotone DEF StaleStartsAreUnseenReturns, TypeOK
<1>12. SessionInv(hist)'
  BY DEF SessionInv, SessionTypeOK, sessionVars
<1>13. (\A u \in Threads : start_ts[pid_tgid(u)] <= clock)'
  <2> SUFFICES ASSUME NEW u \in Threads
               PROVE  start_ts'[pid_tgid(u)] <= clock
    BY <1>6 DEF pid_tgid
  <2> QED
    BY <1>2, <1>4, <1>6
<1> QED
  BY <1>3, <1>7, <1>9, <1>11, <1>12, <1>13

\* A call that ends with a sample: either the sample is of the call's true
\* duration, or the call was unseen and the sample uses up a stale start.
LEMMA ReturnSampledStep ==
  ASSUME IInv, NEW t \in Threads, ReturnSampled(t)
  PROVE  IInv'
<1> USE DEF IInv, ReturnSampled
<1> DEFINE true == BucketOf(clock - began[t])
           b0 == bucket'[t]
<1>1. /\ fault[t] = "in" /\ start_ts[pid_tgid(t)] # Absent
      /\ b0 = BucketOf(clock - start_ts[pid_tgid(t)])
      /\ b0 \in Buckets /\ true \in Buckets
      /\ entry[t] # "full"
  BY BucketInRange DEF memlat_exit, TypeOK, StartMatchesCall
<1>2. /\ start_ts' \in [KeySet -> Nat \cup {Absent}]
      /\ start_ts'[pid_tgid(t)] = Absent
  BY DEF TypeOK, memlat_exit, MapDelete, KeySet
<1>3. \A u \in Threads : u # t => /\ start_ts'[pid_tgid(u)] = start_ts[pid_tgid(u)]
                                  /\ fault'[u] = fault[u] /\ bucket'[u] = bucket[u]
  BY KeyIsThread DEF TypeOK, memlat_exit, MapDelete
<1>4. fault'[t] = "counting" /\ began' = began /\ entry' = entry /\ hist' = hist /\ clock' = clock
  BY DEF TypeOK
<1>5. /\ truth' \in [Buckets -> Nat] /\ lost' = lost /\ phantom' \in Nat
      /\ \A b \in Buckets : truth[b] <= truth'[b]
      /\ phantom <= phantom'
  BY <1>1 DEF Returned, TypeOK, Increment
<1>6. TypeOK'
  <2>1. (SessionTypeOK)'
    BY DEF TypeOK, SessionTypeOK, sessionVars
  <2>2. (start_ts \in [{pid_tgid(u) : u \in Threads} -> Nat \cup {Absent}])'
    BY <1>2 DEF KeySet, pid_tgid
  <2>3. bucket' \in [Threads -> Buckets]
    BY <1>1, BucketInRange DEF TypeOK, memlat_exit
  <2> QED
    BY <2>1, <2>2, <2>3, <1>5 DEF TypeOK
<1>7. StartMatchesCall'
  <2> SUFFICES ASSUME NEW u \in Threads, fault'[u] = "in"
               PROVE  /\ began[u] <= clock
                      /\ entry[u] = "stored" => start_ts'[pid_tgid(u)] = began[u]
                      /\ entry[u] = "full" => start_ts'[pid_tgid(u)] = Absent
    BY <1>4 DEF StartMatchesCall, pid_tgid
  <2>1. u # t
    BY <1>4
  <2> QED
    BY <2>1, <1>3 DEF StartMatchesCall
<1>8. ASSUME NEW b \in Buckets
      PROVE  /\ Due(b) \in SUBSET Threads
             /\ Due(b)' = IF b = b0 THEN Due(b) \cup {t} ELSE Due(b)
             /\ t \notin Due(b)
  <2>1. Due(b)' = {u \in Threads : fault'[u] = "counting" /\ bucket'[u] = b}
    BY DEF Due
  <2> QED
    BY <2>1, <1>1, <1>3, <1>4 DEF Due
<1>9. ASSUME NEW b \in Buckets
      PROVE  /\ Cardinality(Due(b)) \in Nat
             /\ Cardinality(Due(b)') = Cardinality(Due(b)) + IF b = b0 THEN 1 ELSE 0
  BY <1>8, CountAdd, ThreadSets
<1>10. SessionInv(hist)' /\ (\A u \in Threads : start_ts[pid_tgid(u)] <= clock)'
  <2>1. SessionInv(hist)'
    BY <1>4 DEF SessionInv, SessionTypeOK, sessionVars
  <2>2. \A u \in Threads : start_ts'[pid_tgid(u)] <= clock
    BY <1>2, <1>3 DEF Absent, TypeOK
  <2> QED
    BY <2>1, <2>2, <1>4 DEF pid_tgid
<1>11. CASE entry[t] = "stored"
  <2>1. b0 = true /\ phantom' = phantom /\ truth' = [truth EXCEPT ![true] = @ + 1]
    BY <1>1, <1>11 DEF StartMatchesCall, Returned, Increment
  <2>2. \A b \in Buckets : truth'[b] = truth[b] + IF b = b0 THEN 1 ELSE 0
    BY <2>1, <1>1 DEF TypeOK
  <2>3. NoSampleInvented' /\ NoSampleLost'
    BY <2>1, <2>2, <1>4, <1>5, <1>9 DEF NoSampleInvented, NoSampleLost, TypeOK
  <2>4. Stale' = Stale
    BY <1>2, <1>3, <1>4, <1>11, <1>1 DEF Stale, pid_tgid
  <2> QED
    BY <2>1, <2>3, <2>4, <1>5, <1>6, <1>7, <1>10 DEF StaleStartsAreUnseenReturns
<1>12. CASE entry[t] = "unseen"
  <2>1. phantom' = phantom + 1 /\ truth' = truth
    BY <1>12 DEF Returned
  <2>2. NoSampleInvented' /\ NoSampleLost'
    BY <2>1, <1>4, <1>5, <1>9 DEF NoSampleInvented, NoSampleLost, TypeOK
  <2>3. t \in Stale /\ Stale \in SUBSET Threads
    BY <1>1, <1>12 DEF Stale
  <2>4. Stale' = Stale \ {t}
    BY <1>2, <1>3, <1>4 DEF Stale, pid_tgid
  <2>5. StaleStartsAreUnseenReturns'
    BY <2>1, <2>3, <2>4, <1>5, CountRemove, ThreadSets DEF StaleStartsAreUnseenReturns, TypeOK
  <2> QED
    BY <2>2, <2>5, <1>6, <1>7, <1>10
<1> QED
  BY <1>1, <1>11, <1>12 DEF TypeOK

\* A call that ends without a sample: its start, if stored, becomes stale and
\* the call is counted as lost.
LEMMA ReturnUnsampledStep ==
  ASSUME IInv, NEW t \in Threads, NEW runs \in BOOLEAN, ReturnUnsampled(t, runs)
  PROVE  IInv'
<1> USE DEF IInv, ReturnUnsampled
<1> DEFINE true == BucketOf(clock - began[t])
<1>1. /\ fault[t] = "in" /\ fault'[t] = "out" /\ true \in Buckets
      /\ \A u \in Threads : u # t => fault'[u] = fault[u]
  BY BucketInRange DEF TypeOK
<1>2. /\ truth' \in [Buckets -> Nat] /\ lost' \in Nat /\ phantom' = phantom
      /\ \A b \in Buckets : truth[b] <= truth'[b] /\ truth'[b] <= truth[b] + 1
      /\ entry[t] = "unseen" => truth' = truth /\ lost' = lost
      /\ entry[t] # "unseen" => lost' = lost + 1
  BY <1>1 DEF Returned, TypeOK, Increment
<1>3. TypeOK'
  <2>1. (SessionTypeOK)' /\ (start_ts \in [{pid_tgid(u) : u \in Threads} -> Nat \cup {Absent}])'
    BY DEF TypeOK, SessionTypeOK, sessionVars, pid_tgid
  <2> QED
    BY <2>1, <1>2 DEF TypeOK
<1>4. StartMatchesCall'
  BY <1>1 DEF StartMatchesCall, pid_tgid
<1>5. ASSUME NEW b \in Buckets
      PROVE  Due(b)' = Due(b) /\ Cardinality(Due(b)) \in Nat
  BY <1>1, ThreadSets DEF Due
<1>6. NoSampleInvented' /\ NoSampleLost'
  BY <1>2, <1>5 DEF NoSampleInvented, NoSampleLost, TypeOK
<1>7. Stale' \subseteq IF entry[t] = "stored" THEN Stale \cup {t} ELSE Stale
  BY <1>1 DEF Stale, pid_tgid
<1>8. Stale \in SUBSET Threads /\ Stale' \in SUBSET Threads
  BY DEF Stale
<1>9. StaleStartsAreUnseenReturns'
  <2>1. CASE entry[t] = "stored"
    <3>1. Cardinality(Stale') <= Cardinality(Stale \cup {t})
      BY <1>7, <1>8, <2>1, CountMonotone
    <3>2. Cardinality(Stale \cup {t}) <= Cardinality(Stale) + 1
      BY <1>8, CountAdd, ThreadSets
    <3> QED
      BY <3>1, <3>2, <2>1, <1>2, <1>8, ThreadSets DEF StaleStartsAreUnseenReturns, TypeOK
  <2>2. CASE entry[t] # "stored"
    BY <2>2, <1>2, <1>7, <1>8, CountMonotone, ThreadSets DEF StaleStartsAreUnseenReturns, TypeOK
  <2> QED
    BY <2>1, <2>2
<1> QED
  BY <1>3, <1>4, <1>6, <1>9 DEF SessionInv, SessionTypeOK, sessionVars, pid_tgid

\* The atomic add moves one sample from due to counted.
LEMMA CountStep ==
  ASSUME IInv, NEW t \in Threads, CountSample(t)
  PROVE  IInv'
<1> USE DEF IInv, CountSample
<1> DEFINE b0 == bucket[t]
<1>1. /\ fault[t] = "counting" /\ fault'[t] = "out" /\ b0 \in Buckets
      /\ \A u \in Threads : u # t => fault'[u] = fault[u]
      /\ hist' \in [Buckets -> Nat]
      /\ \A b \in Buckets : hist'[b] = hist[b] + IF b = b0 THEN 1 ELSE 0
  BY DEF TypeOK, memlat_count, Increment
<1>2. TypeOK'
  <2>1. (SessionTypeOK)' /\ (start_ts \in [{pid_tgid(u) : u \in Threads} -> Nat \cup {Absent}])'
    BY DEF TypeOK, SessionTypeOK, sessionVars, pid_tgid
  <2> QED
    BY <2>1, <1>1 DEF TypeOK, history
<1>3. StartMatchesCall'
  BY <1>1 DEF StartMatchesCall, pid_tgid
<1>4. ASSUME NEW b \in Buckets
      PROVE  /\ Due(b) \in SUBSET Threads
             /\ Due(b)' = IF b = b0 THEN Due(b) \ {t} ELSE Due(b)
             /\ b = b0 => t \in Due(b)
  BY <1>1 DEF Due
<1>5. ASSUME NEW b \in Buckets
      PROVE  /\ Cardinality(Due(b)) \in Nat
             /\ Cardinality(Due(b)') = Cardinality(Due(b)) - IF b = b0 THEN 1 ELSE 0
  BY <1>4, CountRemove, ThreadSets
<1>6. NoSampleInvented' /\ NoSampleLost'
  BY <1>1, <1>5 DEF NoSampleInvented, NoSampleLost, TypeOK, history
<1>7. Stale' = Stale
  BY <1>1 DEF Stale, pid_tgid
<1>8. StaleStartsAreUnseenReturns'
  BY <1>7 DEF StaleStartsAreUnseenReturns, history
<1>9. SessionInv(hist)'
  <2>1. \A b \in Buckets : /\ hist[b] \in Nat /\ hist'[b] \in Nat /\ hist[b] <= hist'[b]
                           /\ atWake[b] \in Nat /\ counts[b] \in Nat
    BY <1>1 DEF TypeOK, SessionTypeOK
  <2> QED
    BY <2>1 DEF SessionInv, SessionTypeOK, sessionVars
<1> QED
  BY <1>2, <1>3, <1>6, <1>8, <1>9 DEF sessionVars, pid_tgid

----------------------------------------------------------------------------
\* Every step keeps IInv: one case per disjunct of Next.
LEMMA NextIInv == IInv /\ [Next]_vars => IInv'
<1> SUFFICES ASSUME IInv, [Next]_vars PROVE IInv'
  OBVIOUS
<1>1. CASE Tick
  BY <1>1, TickStep
<1>2. CASE main
  BY <1>2, MainStep
<1>3. ASSUME NEW t \in Threads, NEW runs \in BOOLEAN, EnterFault(t, runs)
      PROVE  IInv'
  BY <1>3, EnterStep
<1>4. ASSUME NEW t \in Threads, ReturnSampled(t)
      PROVE  IInv'
  BY <1>4, ReturnSampledStep
<1>5. ASSUME NEW t \in Threads, NEW runs \in BOOLEAN, ReturnUnsampled(t, runs)
      PROVE  IInv'
  BY <1>5, ReturnUnsampledStep
<1>6. ASSUME NEW t \in Threads, CountSample(t)
      PROVE  IInv'
  BY <1>6, CountStep
<1>7. CASE UNCHANGED vars
  <2>1. UNCHANGED <<kernelVars, history>> /\ clock' = clock /\ UNCHANGED sessionVars
    BY <1>7 DEF vars
  <2>2. TypeOK'
    BY <2>1 DEF IInv, TypeOK, SessionTypeOK, sessionVars, kernelVars, history, pid_tgid
  <2>3. clock \in Nat /\ clock <= clock
    BY DEF IInv, TypeOK
  <2> QED
    BY <2>1, <2>2, <2>3, KernelUnchanged
       DEF IInv, SessionInv, SessionTypeOK, sessionVars, kernelVars
<1> QED
  BY <1>1, <1>2, <1>3, <1>4, <1>5, <1>6, <1>7 DEF Next, Finished

\* IInv holds in every reachable state of memlat.
THEOREM MemLatInvariant == Spec => []IInv
BY InitIInv, NextIInv, PTL DEF Spec

\* The variables always have their types, for all values of the constants.
THEOREM MemLatTypes == Spec => []TypeOK
<1>1. IInv => TypeOK
  BY DEF IInv
<1> QED
  BY <1>1, MemLatInvariant, PTL

\* Every count in memlat's histogram is a call that took that long, or a
\* phantom, for every number of threads and every order of their steps.
THEOREM MemLatNoSampleInvented == Spec => []NoSampleInvented
<1>1. IInv => NoSampleInvented
  BY DEF IInv
<1> QED
  BY <1>1, MemLatInvariant, PTL

\* Every call that the entry program saw is in memlat's histogram at its true
\* duration, except those counted as lost.
THEOREM MemLatNoSampleLost == Spec => []NoSampleLost
<1>1. IInv => NoSampleLost
  BY DEF IInv
<1> QED
  BY <1>1, MemLatInvariant, PTL

\* Each stale start and each phantom sample is paid for by a call that was lost,
\* its return unseen; calls that found start_ts full are in the bound, too.
THEOREM MemLatStaleStarts == Spec => []StaleStartsAreUnseenReturns
<1>1. IInv => StaleStartsAreUnseenReturns
  BY DEF IInv
<1> QED
  BY <1>1, MemLatInvariant, PTL

\* What memlat reports lies between the histogram at the end of the sleep and
\* the histogram now, bucket by bucket.
THEOREM MemLatReport == Spec => []ReportWithinCollection
<1>1. IInv => ReportWithinCollection
  BY DEF IInv, SessionInv, ReportWithinCollection
<1> QED
  BY <1>1, MemLatInvariant, PTL

----------------------------------------------------------------------------
(* Refinement: memlat implements LatencyRecorder.                          *)

\* Nothing is taken when the histogram and the samples due do not change.
LEMMA TakenStill ==
  ASSUME hist' = hist, \A b \in Buckets : Due(b)' = Due(b)
  PROVE  Taken' = Taken
BY DEF Taken

\* A return with a sample takes one, of the bucket the program computed.
LEMMA TakenByReturn ==
  ASSUME IInv, NEW t \in Threads, ReturnSampled(t)
  PROVE  /\ BucketOf(clock - start_ts[pid_tgid(t)]) \in Buckets
         /\ Taken' = [Taken EXCEPT ![BucketOf(clock - start_ts[pid_tgid(t)])] = @ + 1]
<1> USE DEF IInv, ReturnSampled
<1> DEFINE b0 == BucketOf(clock - start_ts[pid_tgid(t)])
<1>1. /\ b0 \in Buckets
      /\ bucket' = [bucket EXCEPT ![t] = b0]
      /\ fault' = [fault EXCEPT ![t] = "counting"] /\ fault[t] = "in"
      /\ hist' = hist /\ hist \in [Buckets -> Nat]
  BY BucketInRange DEF memlat_exit, TypeOK
<1> HIDE DEF b0
<1>2. /\ fault'[t] = "counting" /\ bucket'[t] = b0
      /\ \A u \in Threads : u # t => fault'[u] = fault[u] /\ bucket'[u] = bucket[u]
  BY <1>1 DEF TypeOK
<1>3. ASSUME NEW b \in Buckets
      PROVE  /\ Cardinality(Due(b)) \in Nat
             /\ Cardinality(Due(b)') = Cardinality(Due(b)) + IF b = b0 THEN 1 ELSE 0
  <2>1. /\ Due(b) \in SUBSET Threads
        /\ t \notin Due(b)
        /\ Due(b)' = IF b = b0 THEN Due(b) \cup {t} ELSE Due(b)
    BY <1>1, <1>2 DEF Due
  <2> QED
    BY <2>1, CountAdd, ThreadSets
<1>4. \A b \in Buckets : hist'[b] + Cardinality(Due(b)') =
                          hist[b] + Cardinality(Due(b)) + IF b = b0 THEN 1 ELSE 0
  BY <1>1, <1>3
<1>5. Taken' = [b \in Buckets |-> Taken[b] + IF b = b0 THEN 1 ELSE 0]
  BY <1>4 DEF Taken
<1>6. \A b \in Buckets : Taken[b] \in Nat
  BY <1>1, <1>3 DEF Taken
<1>7. DOMAIN Taken = Buckets /\ Taken = [b \in Buckets |-> Taken[b]]
  BY DEF Taken
<1>8. Taken' = [Taken EXCEPT ![b0] = @ + 1]
  BY <1>1, <1>5, <1>6, <1>7
<1> QED
  BY <1>1, <1>8 DEF b0

\* The atomic add publishes one sample that was due, and takes none.
LEMMA TakenByCount ==
  ASSUME IInv, NEW t \in Threads, CountSample(t)
  PROVE  /\ bucket[t] \in Buckets
         /\ hist' = [hist EXCEPT ![bucket[t]] = @ + 1]
         /\ hist[bucket[t]] < Taken[bucket[t]]
         /\ Taken' = Taken
<1> USE DEF IInv, CountSample
<1> DEFINE b0 == bucket[t]
<1>1. /\ b0 \in Buckets /\ hist \in [Buckets -> Nat]
      /\ hist' = [hist EXCEPT ![b0] = @ + 1]
      /\ fault[t] = "counting" /\ fault'[t] = "out" /\ bucket' = bucket
      /\ \A u \in Threads : u # t => fault'[u] = fault[u]
  BY DEF TypeOK, memlat_count, Increment
<1>2. ASSUME NEW b \in Buckets
      PROVE  /\ Cardinality(Due(b)) \in Nat
             /\ Cardinality(Due(b)') = Cardinality(Due(b)) - IF b = b0 THEN 1 ELSE 0
             /\ Cardinality(Due(b)') \in Nat
  <2>1. /\ Due(b) \in SUBSET Threads
        /\ Due(b)' = IF b = b0 THEN Due(b) \ {t} ELSE Due(b)
        /\ b = b0 => t \in Due(b)
        /\ Due(b)' \in SUBSET Threads
    BY <1>1 DEF Due
  <2> QED
    BY <2>1, CountRemove, ThreadSets
<1>3. \A b \in Buckets : hist'[b] + Cardinality(Due(b)') = hist[b] + Cardinality(Due(b))
  BY <1>1, <1>2
<1>4. Taken' = Taken
  BY <1>3 DEF Taken
<1>5. hist[b0] < Taken[b0]
  BY <1>1, <1>2 DEF Taken
<1> QED
  BY <1>1, <1>4, <1>5

\* As long as some start is stale, a lost call is left to explain a stray.
LEMMA StrayIsExplained ==
  ASSUME IInv, NEW t \in Stale
  PROVE  phantom < lost
<1>1. Cardinality(Stale) \in Nat /\ Cardinality(Stale) # 0
  BY ThreadSets, FS_EmptySet DEF Stale
<1>2. Cardinality(Stale) + phantom <= lost /\ phantom \in Nat /\ lost \in Nat
  BY DEF IInv, StaleStartsAreUnseenReturns, TypeOK
<1> QED
  BY <1>1, <1>2

\* Entering begins a call that the entry program sees, or is nothing.
LEMMA EnterRecords ==
  ASSUME IInv, NEW t \in Threads, NEW runs \in BOOLEAN, EnterFault(t, runs)
  PROVE  Recorder!Begin(t) \/ UNCHANGED Recorder!vars
<1> USE DEF EnterFault
<1>1. /\ fault[t] = "out" /\ fault'[t] = "in" /\ began'[t] = clock
      /\ \A u \in Threads : u # t => /\ fault'[u] = fault[u] /\ began'[u] = began[u]
                                     /\ entry'[u] = entry[u]
  BY DEF IInv, TypeOK
<1>2. Taken' = Taken
  BY <1>1, TakenStill DEF Due
<1>3. CASE entry'[t] = "unseen"
  <2>1. Seen' = Seen
    BY <1>1, <1>3 DEF Seen
  <2> QED
    BY <1>2, <2>1 DEF Recorder!vars
<1>4. CASE entry'[t] # "unseen"
  <2>1. \A u \in Threads : (IF fault'[u] = "in" /\ entry'[u] # "unseen" THEN began'[u] ELSE Absent)
                            = IF u = t THEN clock ELSE Seen[u]
    BY <1>1, <1>4 DEF Seen
  <2>2. Seen' = [Seen EXCEPT ![t] = clock]
    BY <2>1 DEF Seen
  <2> QED
    BY <1>2, <2>2 DEF Recorder!Begin
<1> QED
  BY <1>3, <1>4

\* A call that leaves the function is no longer in progress.
LEMMA LeaveCloses ==
  ASSUME IInv, NEW t \in Threads, fault[t] = "in", NEW to, to # "in",
         fault' = [fault EXCEPT ![t] = to], UNCHANGED <<began, entry>>
  PROVE  Seen' = [Seen EXCEPT ![t] = Absent]
<1>1. /\ fault'[t] = to
      /\ \A u \in Threads : u # t => fault'[u] = fault[u]
  BY DEF IInv, TypeOK
<1>2. \A u \in Threads : (IF fault'[u] = "in" /\ entry'[u] # "unseen" THEN began'[u] ELSE Absent)
                          = IF u = t THEN Absent ELSE Seen[u]
  BY <1>1 DEF Seen
<1> QED
  BY <1>2 DEF Seen

\* A return with a sample ends a seen call with it, or takes a stray.
LEMMA ReturnSampledRecords ==
  ASSUME IInv, NEW t \in Threads, ReturnSampled(t)
  PROVE  Recorder!End(t) \/ Recorder!Stray
<1> DEFINE b0 == BucketOf(clock - start_ts[pid_tgid(t)])
<1>1. b0 \in Buckets /\ Taken' = [Taken EXCEPT ![b0] = @ + 1]
  BY TakenByReturn
<1>2. /\ fault[t] = "in" /\ start_ts[pid_tgid(t)] # Absent
      /\ UNCHANGED <<clock, hist, began, entry>> /\ lost' = lost
  BY DEF ReturnSampled, memlat_exit, Returned
<1>3. Seen' = [Seen EXCEPT ![t] = Absent]
  BY <1>2, LeaveCloses DEF ReturnSampled
<1>4. CASE entry[t] # "unseen"
  <2>1. Seen[t] = began[t] /\ began[t] \in Nat
    BY <1>2, <1>4 DEF Seen, IInv, TypeOK
  <2>2. start_ts[pid_tgid(t)] = began[t]
    BY <1>2, <1>4 DEF IInv, TypeOK, StartMatchesCall
  <2>3. b0 \in RightBucket(clock - Seen[t])
    BY <2>1, <2>2 DEF RightBucket
  <2>4. phantom' = phantom
    BY <1>4 DEF ReturnSampled, Returned
  <2>5. Recorder!Sample(RightBucket(clock - Seen[t]))
    BY <1>1, <2>3 DEF Recorder!Sample
  <2>6. Seen[t] # Recorder!Closed
    BY <2>1 DEF Recorder!Closed
  <2>7. Seen' = [Seen EXCEPT ![t] = Recorder!Closed]
    BY <1>3 DEF Recorder!Closed, Absent
  <2> HIDE DEF b0
  <2> QED
    BY <1>2, <2>4, <2>5, <2>6, <2>7 DEF Recorder!End
<1>5. CASE entry[t] = "unseen"
  <2>1. t \in Stale
    BY <1>2, <1>5 DEF Stale
  <2>2. phantom < lost /\ phantom' = phantom + 1
    BY <1>5, <2>1, StrayIsExplained DEF ReturnSampled, Returned
  <2>3. Seen' = Seen
    BY <1>3, <1>5 DEF Seen
  <2> HIDE DEF b0
  <2> QED
    BY <1>1, <1>2, <2>2, <2>3 DEF Recorder!Stray, Recorder!Sample
<1> QED
  BY <1>4, <1>5

\* A return without a sample drops a seen call, or is nothing.
LEMMA ReturnUnsampledRecords ==
  ASSUME IInv, NEW t \in Threads, NEW runs \in BOOLEAN, ReturnUnsampled(t, runs)
  PROVE  Recorder!Drop(t) \/ UNCHANGED Recorder!vars
<1>1. /\ fault[t] = "in" /\ fault' = [fault EXCEPT ![t] = "out"]
      /\ UNCHANGED <<clock, hist, began, entry, bucket>> /\ phantom' = phantom
  BY DEF ReturnUnsampled, Returned
<1>2. Seen' = [Seen EXCEPT ![t] = Absent]
  BY <1>1, LeaveCloses
<1>3. \A b \in Buckets : Due(b)' = Due(b)
  BY <1>1 DEF Due, IInv, TypeOK
<1>4. Taken' = Taken
  BY <1>1, <1>3, TakenStill
<1>5. CASE entry[t] # "unseen"
  <2>1. Seen[t] = began[t] /\ began[t] \in Nat
    BY <1>1, <1>5 DEF Seen, IInv, TypeOK
  <2>2. lost' = lost + 1
    BY <1>5 DEF ReturnUnsampled, Returned
  <2> QED
    BY <1>1, <1>2, <1>4, <2>1, <2>2 DEF Recorder!Drop, Recorder!Closed, Absent
<1>6. CASE entry[t] = "unseen"
  <2>1. Seen' = Seen /\ lost' = lost
    BY <1>2, <1>6 DEF Seen, ReturnUnsampled, Returned
  <2> QED
    BY <1>1, <1>4, <2>1 DEF Recorder!vars
<1> QED
  BY <1>5, <1>6

\* Every step of memlat is a step of the recorder or changes nothing of it.
LEMMA NextRecords ==
  ASSUME IInv, [Next]_vars
  PROVE  [Recorder!Next]_(Recorder!vars)
<1>1. CASE Tick
  <2>1. Taken' = Taken /\ Seen' = Seen
    BY <1>1, TakenStill DEF Tick, kernelVars, Due, Seen
  <2>2. clock < clock' /\ UNCHANGED <<hist, lost, phantom>>
    BY <1>1 DEF Tick, kernelVars, history, IInv, TypeOK
  <2> QED
    BY <2>1, <2>2 DEF Recorder!Tick, Recorder!Next
<1>2. CASE main \/ UNCHANGED vars
  <2>1. Taken' = Taken /\ Seen' = Seen
    BY <1>2, TakenStill DEF main, vars, kernelVars, Due, Seen
  <2> QED
    BY <1>2, <2>1 DEF main, vars, kernelVars, history, Recorder!vars
<1>3. ASSUME NEW t \in Threads, CountSample(t)
      PROVE  \E b \in Buckets : Recorder!Publish(b)
  <2>1. Seen' = Seen
    <3>1. \A u \in Threads : (fault'[u] = "in") = (fault[u] = "in")
      BY <1>3 DEF CountSample, IInv, TypeOK
    <3> QED
      BY <1>3, <3>1 DEF CountSample, Seen
  <2>2. Recorder!Publish(bucket[t])
    BY <1>3, <2>1, TakenByCount DEF CountSample, history, Recorder!Publish
  <2> QED
    BY <1>3, <2>2, TakenByCount
<1> QED
  BY <1>1, <1>2, <1>3, EnterRecords, ReturnSampledRecords, ReturnUnsampledRecords
     DEF Next, Finished, Recorder!Next

\* Nothing has begun and nothing is taken at the start.
LEMMA InitRecords == Init => Recorder!Init
<1> SUFFICES ASSUME Init PROVE Recorder!Init
  OBVIOUS
<1>1. \A b \in Buckets : Due(b) = {}
  BY DEF Init, Due
<1>2. Taken = [b \in Buckets |-> 0]
  BY <1>1, FS_EmptySet DEF Taken, Init
<1>3. Seen = [t \in Threads |-> Absent]
  BY DEF Init, Seen
<1> QED
  BY <1>2, <1>3 DEF Init, Recorder!Init, Recorder!Closed, Absent

\* memlat implements the abstract recorder, for every number of threads,
\* buckets, start_ts elements and kretprobe instances.
THEOREM MemLatRecords == Spec => RecordsFaithfully
<1>1. IInv /\ [Next]_vars => [Recorder!Next]_(Recorder!vars)
  BY NextRecords
<1> QED
  BY <1>1, InitRecords, MemLatInvariant, PTL DEF Spec, RecordsFaithfully, Recorder!Spec
============================================================================
