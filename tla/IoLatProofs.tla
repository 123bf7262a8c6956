---------------------------- MODULE IoLatProofs ----------------------------
(***************************************************************************)
(* The safety of iolat for every number of request addresses, buckets and  *)
(* start_ts elements: IInv of IoLat is inductive, and                      *)
(* iolat implements LatencyRecorder.                                       *)
(***************************************************************************)
EXTENDS IoLat, SessionProofs, FiniteSetTheorems

\* iolat's loop counts some halvings and clamps, so it names a slot.
LEMMA BucketInRange ==
  ASSUME NEW d
  PROVE  BucketOf(d) \in Buckets
<1> DEFINE v == d \div NsPerUs
           S == {i \in 0 .. WORD_BITS - 2 : Shr(v, i) > 1}
           n == Cardinality(S)
<1>1. IsFiniteSet(0 .. WORD_BITS - 2)
  BY WordAssumption, FS_Interval
<1>2. n \in Nat
  BY <1>1, FS_Subset, FS_CardinalityType
<1>3. MAX_SLOTS - 1 \in Nat
  BY SlotsAssumption
<1> HIDE DEF n
<1>4. Min({MAX_SLOTS - 1, n}) \in {MAX_SLOTS - 1, n} /\ Min({MAX_SLOTS - 1, n}) <= MAX_SLOTS - 1
  <2>1. \E m \in {MAX_SLOTS - 1, n} : \A y \in {MAX_SLOTS - 1, n} : m <= y
    BY <1>2, <1>3
  <2> QED
    BY <2>1 DEF Min
<1>5. Min({MAX_SLOTS - 1, n}) \in Buckets
  BY <1>2, <1>3, <1>4 DEF Buckets
<1> QED
  BY <1>5 DEF BucketOf, iolat_log2_bucket, n

\* Sets of requests are finite and are counted by a natural number.
LEMMA RequestSets ==
  ASSUME NEW S \in SUBSET Requests
  PROVE  IsFiniteSet(S) /\ Cardinality(S) \in Nat
BY IoLatAssumption, FS_Subset, FS_CardinalityType

\* Adding or removing one request changes the count by at most that one.
LEMMA CountAdd ==
  ASSUME NEW S \in SUBSET Requests, NEW r \in Requests
  PROVE  Cardinality(S \cup {r}) = IF r \in S THEN Cardinality(S) ELSE Cardinality(S) + 1
BY RequestSets, FS_AddElement

LEMMA CountRemove ==
  ASSUME NEW S \in SUBSET Requests, NEW r \in Requests
  PROVE  Cardinality(S \ {r}) = IF r \in S THEN Cardinality(S) - 1 ELSE Cardinality(S)
BY RequestSets, FS_RemoveElement

LEMMA CountMonotone ==
  ASSUME NEW S \in SUBSET Requests, NEW T \in SUBSET S
  PROVE  Cardinality(T) <= Cardinality(S)
BY RequestSets, FS_Subset

\* IInv holds before anything has happened.
LEMMA InitIInv == Init => IInv
<1> SUFFICES ASSUME Init PROVE IInv
  OBVIOUS
<1>1. SessionInv(hist)
  BY SessionStart DEF Init
<1> USE DEF Init
<1>2. TypeOK
  BY <1>1, SlotsAssumption DEF TypeOK, SessionInv, NoProgram, Buckets
<1>3. Stale = {} /\ \A b \in Buckets : Due(b) = {}
  BY DEF Stale, Due, NoProgram
<1>4. Cardinality({}) = 0
  BY FS_EmptySet
<1>5. NoSampleInvented /\ NoSampleLost /\ StaleStartsAreExplained
  BY <1>3, <1>4 DEF NoSampleInvented, NoSampleLost, StaleStartsAreExplained
<1>6. StartMatchesIssue
  BY DEF StartMatchesIssue, NoProgram
<1> QED
  BY <1>1, <1>2, <1>5, <1>6 DEF IInv

\* A step that leaves requests, programs, maps and history alone, and does not
\* turn the clock back, keeps their part of IInv.
LEMMA ProbeUnchanged ==
  ASSUME IInv, UNCHANGED <<start_ts, hist, blockVars, complete, history>>,
         clock' \in Nat, clock <= clock', SessionInv(hist)'
  PROVE  IInv'
<1> USE DEF IInv, blockVars, history
<1>1. TypeOK'
  BY DEF TypeOK, SessionInv
<1>2. StartMatchesIssue'
  <2> SUFFICES ASSUME NEW r \in Requests, issued[r] # Absent
               PROVE  issued[r] <= clock'
    BY DEF StartMatchesIssue
  <2>1. issued[r] <= clock /\ issued[r] \in Nat /\ clock \in Nat
    BY DEF StartMatchesIssue, TypeOK
  <2> QED
    BY <2>1
<1>3. /\ Stale' = Stale
      /\ \A b \in Buckets : Due(b)' = Due(b)
  BY DEF Stale, Due
<1>4. NoSampleInvented' /\ NoSampleLost' /\ StaleStartsAreExplained'
  BY <1>3 DEF NoSampleInvented, NoSampleLost, StaleStartsAreExplained
<1> QED
  BY <1>1, <1>2, <1>4

\* main() only reads the probe's state, and time only passes.
LEMMA MainStep == ASSUME IInv, main PROVE IInv'
<1>1. hist' = hist /\ hist \in [Buckets -> Nat] /\ SessionInv(hist)
  BY DEF main, IInv, TypeOK
<1>2. SessionInv(hist)'
  BY <1>1, SessionStep DEF main, readHist, exit, SessionInv
<1> QED
  BY <1>2, ProbeUnchanged DEF main, IInv, TypeOK

LEMMA TickStep == ASSUME IInv, Tick PROVE IInv'
<1>1. clock' \in Nat /\ clock <= clock'
  BY IoLatAssumption DEF Tick, IInv, TypeOK
<1>2. SessionInv(hist)'
  BY DEF Tick, IInv, SessionInv, SessionTypeOK, sessionVars
<1> QED
  BY <1>1, <1>2, ProbeUnchanged DEF Tick

\* A request is allocated, or leaves the device without a completion.
LEMMA RequestStep ==
  ASSUME IInv, NEW r \in Requests, Allocate(r) \/ Requeue(r)
  PROVE  IInv'
<1> USE DEF IInv, Allocate, Requeue, history
<1>1. SessionInv(hist)'
  BY DEF SessionInv, SessionTypeOK, sessionVars
<1>2. TypeOK'
  BY <1>1 DEF TypeOK, SessionInv
<1>3. StartMatchesIssue'
  BY DEF StartMatchesIssue, TypeOK
<1>4. /\ Stale' = Stale
      /\ \A b \in Buckets : Due(b)' = Due(b)
  BY DEF Stale, Due
<1>5. NoSampleInvented' /\ NoSampleLost' /\ StaleStartsAreExplained'
  BY <1>4 DEF NoSampleInvented, NoSampleLost, StaleStartsAreExplained
<1> QED
  BY <1>1, <1>2, <1>3, <1>5

\* A seen issue replaces whatever start the address has, or finds no room; an
\* unseen one makes the start of an earlier issue stale and counts it lost.
LEMMA IssueStep ==
  ASSUME IInv, NEW r \in Requests, NEW runs \in BOOLEAN, Issue(r, runs)
  PROVE  IInv'
<1> USE DEF IInv, Issue
<1>1. SessionInv(hist)'
  BY DEF SessionInv, SessionTypeOK, sessionVars
<1>2. /\ start_ts' \in [Requests -> Nat \cup {Absent}]
      /\ issued' \in [Requests -> Nat \cup {Absent}]
      /\ \A u \in Requests : u # r => /\ start_ts'[u] = start_ts[u]
                                      /\ issued'[u] = issued[u]
                                      /\ rq'[u] = rq[u]
      /\ rq'[r] = "issued" /\ complete'[r].pc = "none"
      /\ lost' \in Nat /\ lost <= lost' /\ issues' \in Nat
  BY DEF TypeOK, iolat_issue, MapUpdate
<1>3. TypeOK'
  BY <1>1, <1>2 DEF TypeOK, SessionInv
<1>4. issued'[r] # Absent =>
        issued'[r] = clock /\ start_ts'[r] \in {clock, Absent} /\ lost' = lost
  BY DEF TypeOK, iolat_issue, MapUpdate, HasRoom
<1>5. StartMatchesIssue'
  BY <1>2, <1>4 DEF StartMatchesIssue, TypeOK
<1>6. \A b \in Buckets : Due(b)' = Due(b)
  BY DEF Due
<1>7. NoSampleInvented' /\ NoSampleLost'
  <2> SUFFICES ASSUME NEW b \in Buckets
               PROVE  /\ hist[b] + Cardinality(Due(b)) <= truth[b] + phantom
                      /\ truth[b] <= hist[b] + Cardinality(Due(b)) + lost'
    BY <1>6 DEF NoSampleInvented, NoSampleLost
  <2>1. Due(b) \in SUBSET Requests
    BY DEF Due
  <2> QED
    BY <2>1, <1>2, RequestSets DEF NoSampleInvented, NoSampleLost, TypeOK
<1>8. Stale \in SUBSET Requests
  BY DEF Stale
<1>9. StaleStartsAreExplained'
  <2>1. CASE issued'[r] # Absent
    <3>1. Stale' \in SUBSET Stale
      BY <1>2, <2>1 DEF Stale
    <3>2. /\ Cardinality(Stale') <= Cardinality(Stale)
          /\ Cardinality(Stale') \in Nat /\ Cardinality(Stale) \in Nat
      BY <3>1, <1>8, CountMonotone, RequestSets
    <3> QED
      BY <3>2, <1>2 DEF StaleStartsAreExplained, TypeOK
  <2>2. CASE issued'[r] = Absent /\ issued[r] = Absent
    <3>1. start_ts' = start_ts /\ lost' = lost
      BY <2>2 DEF TypeOK, Absent
    <3>2. Stale' = Stale
      BY <1>2, <2>2, <3>1 DEF Stale
    <3> QED
      BY <3>1, <3>2 DEF StaleStartsAreExplained
  <2>3. CASE issued'[r] = Absent /\ issued[r] # Absent
    <3>1. lost' = lost + 1 /\ start_ts' = start_ts
      BY <2>3 DEF TypeOK, Absent
    <3>2. Stale' \in SUBSET (Stale \cup {r})
      BY <1>2, <3>1 DEF Stale
    <3>3. Cardinality(Stale') <= Cardinality(Stale \cup {r})
      BY <3>2, <1>8, CountMonotone
    <3>4. Cardinality(Stale \cup {r}) <= Cardinality(Stale) + 1
      BY <1>8, CountAdd, RequestSets
    <3>5. Cardinality(Stale) \in Nat /\ Cardinality(Stale') \in Nat
          /\ Cardinality(Stale \cup {r}) \in Nat
      BY <1>8, <3>2, RequestSets
    <3> QED
      BY <3>1, <3>3, <3>4, <3>5 DEF StaleStartsAreExplained, TypeOK
  <2> QED
    BY <2>1, <2>2, <2>3
<1> QED
  BY <1>1, <1>3, <1>5, <1>7, <1>9

\* What a completion does to the history and to the request, sampled or not.
LEMMA CompletedFacts ==
  ASSUME IInv, NEW r \in Requests, NEW after \in {"free", "ready", "issued"},
         Completed(r, after)
  PROVE  /\ rq' \in [Requests -> {"free", "ready", "issued"}]
         /\ issued' \in [Requests -> Nat \cup {Absent}]
         /\ issued'[r] = Absent
         /\ \A u \in Requests : u # r => rq'[u] = rq[u] /\ issued'[u] = issued[u]
         /\ truth' \in [Buckets -> Nat]
         /\ issued[r] = Absent => truth' = truth
         /\ issued[r] # Absent =>
              \A b \in Buckets :
                truth'[b] = truth[b] + IF b = BucketOf(clock - issued[r]) THEN 1 ELSE 0
         /\ complete[r].pc = "none"
<1>1. issued[r] # Absent => BucketOf(clock - issued[r]) \in Buckets
  BY BucketInRange
<1> QED
  BY <1>1 DEF Completed, IInv, TypeOK, Increment, Absent

\* A completion with a sample: of the true time since the issue, or, if no seen
\* issue awaits it, a phantom that takes a start out of the stale ones.
LEMMA CompleteSampledStep ==
  ASSUME IInv, NEW r \in Requests, NEW after \in {"free", "ready", "issued"},
         CompleteSampled(r, after)
  PROVE  IInv'
<1> USE DEF IInv, CompleteSampled
<1> DEFINE b0 == BucketOf(clock - start_ts[r])
<1>1. /\ start_ts[r] # Absent /\ b0 \in Buckets
      /\ complete' = [complete EXCEPT ![r] = [pc |-> "count", b |-> b0]]
      /\ complete[r].pc = "none"
  BY BucketInRange, CompletedFacts DEF iolat_complete
<1> HIDE DEF b0
<1>2. SessionInv(hist)'
  BY DEF SessionInv, SessionTypeOK, sessionVars
<1>3. phantom' \in Nat /\ TypeOK'
  BY <1>1, <1>2, CompletedFacts DEF TypeOK, SessionInv
<1>4. /\ complete'[r] = [pc |-> "count", b |-> b0]
      /\ \A u \in Requests : u # r => complete'[u] = complete[u]
  BY <1>1 DEF TypeOK
<1>5. StartMatchesIssue'
  <2> SUFFICES ASSUME NEW u \in Requests
               PROVE  /\ issued'[u] # Absent =>
                           /\ rq'[u] # "free" /\ complete'[u].pc = "none"
                           /\ issued'[u] <= clock
                           /\ start_ts[u] \in {issued'[u], Absent}
                      /\ complete'[u].pc # "none" => start_ts[u] # Absent
    BY DEF StartMatchesIssue
  <2>1. CASE u = r
    BY <2>1, <1>1, CompletedFacts
  <2>2. CASE u # r
    BY <2>2, <1>4, CompletedFacts DEF StartMatchesIssue
  <2> QED
    BY <2>1, <2>2
<1>6. ASSUME NEW b \in Buckets
      PROVE  /\ Cardinality(Due(b)) \in Nat
             /\ Cardinality(Due(b)') = Cardinality(Due(b)) + IF b = b0 THEN 1 ELSE 0
  <2>1. /\ Due(b) \in SUBSET Requests
        /\ r \notin Due(b)
        /\ Due(b)' = IF b = b0 THEN Due(b) \cup {r} ELSE Due(b)
    BY <1>1, <1>4 DEF Due
  <2> QED
    BY <2>1, CountAdd, RequestSets
<1>7. Stale \in SUBSET Requests /\ Cardinality(Stale) \in Nat
  BY RequestSets DEF Stale
<1>8. CASE issued[r] # Absent
  <2>1. start_ts[r] = issued[r] /\ phantom' = phantom
    BY <1>1, <1>8 DEF StartMatchesIssue
  <2>2. \A b \in Buckets : truth'[b] = truth[b] + IF b = b0 THEN 1 ELSE 0
    BY <1>8, <2>1, CompletedFacts DEF b0
  <2>3. NoSampleInvented' /\ NoSampleLost'
    BY <1>6, <2>1, <2>2 DEF NoSampleInvented, NoSampleLost, TypeOK
  <2>4. Stale' = Stale
    BY <1>4, <1>8, <1>1, CompletedFacts DEF Stale
  <2> QED
    BY <1>2, <1>3, <1>5, <2>1, <2>3, <2>4 DEF StaleStartsAreExplained
<1>9. CASE issued[r] = Absent
  <2>1. truth' = truth /\ phantom' = phantom + 1
    BY <1>9, CompletedFacts
  <2>2. NoSampleInvented' /\ NoSampleLost'
    BY <1>6, <2>1 DEF NoSampleInvented, NoSampleLost, TypeOK
  <2>3. r \in Stale /\ Stale' = Stale \ {r}
    BY <1>1, <1>4, <1>9, CompletedFacts DEF Stale
  <2>4. Cardinality(Stale') = Cardinality(Stale) - 1
    BY <1>7, <2>3, CountRemove
  <2> QED
    BY <1>2, <1>3, <1>5, <1>7, <2>1, <2>2, <2>4 DEF StaleStartsAreExplained, TypeOK
<1> QED
  BY <1>8, <1>9

\* A completion without a sample: a start that is left behind becomes stale
\* and the issue is counted as lost.
LEMMA CompleteUnsampledStep ==
  ASSUME IInv, NEW r \in Requests, NEW after \in {"free", "ready", "issued"},
         NEW runs \in BOOLEAN, CompleteUnsampled(r, after, runs)
  PROVE  IInv'
<1> USE DEF IInv, CompleteUnsampled
<1>1. SessionInv(hist)'
  BY DEF SessionInv, SessionTypeOK, sessionVars
<1>2. lost' = (IF issued[r] # Absent THEN lost + 1 ELSE lost) /\ lost' \in Nat
  BY DEF TypeOK
<1>3. TypeOK'
  BY <1>1, <1>2, CompletedFacts DEF TypeOK, SessionInv
<1>4. StartMatchesIssue'
  BY CompletedFacts DEF StartMatchesIssue
<1>5. ASSUME NEW b \in Buckets
      PROVE  /\ Due(b)' = Due(b) /\ Cardinality(Due(b)) \in Nat
             /\ truth[b] <= truth'[b]
             /\ truth'[b] + lost <= truth[b] + lost'
  <2>1. Due(b)' = Due(b) /\ Due(b) \in SUBSET Requests
    BY DEF Due
  <2> QED
    BY <2>1, <1>2, RequestSets, CompletedFacts DEF TypeOK
<1>6. NoSampleInvented' /\ NoSampleLost'
  BY <1>2, <1>3, <1>5 DEF NoSampleInvented, NoSampleLost, TypeOK
<1>7. /\ Stale \in SUBSET Requests /\ Cardinality(Stale) \in Nat
      /\ Stale' = IF issued[r] # Absent /\ start_ts[r] # Absent THEN Stale \cup {r} ELSE Stale
  BY CompletedFacts, RequestSets DEF Stale
<1>8. Cardinality(Stale \cup {r}) <= Cardinality(Stale) + 1
  BY <1>7, CountAdd
<1>9. Cardinality(Stale \cup {r}) \in Nat
  BY <1>7, CountAdd
<1>10. StaleStartsAreExplained'
  BY <1>2, <1>7, <1>8, <1>9 DEF StaleStartsAreExplained, TypeOK
<1> QED
  BY <1>1, <1>3, <1>4, <1>6, <1>10

\* The atomic add moves one sample from due to counted.
LEMMA CountStep ==
  ASSUME IInv, NEW r \in Requests, CountSample(r)
  PROVE  IInv'
<1> USE DEF IInv, CountSample, blockVars, history
<1> DEFINE b0 == complete[r].b
<1>1. /\ b0 \in Buckets /\ hist' \in [Buckets -> Nat]
      /\ \A b \in Buckets : hist'[b] = hist[b] + IF b = b0 THEN 1 ELSE 0
      /\ complete[r].pc = "count"
  BY DEF TypeOK, Increment
<1>2. /\ complete' \in [Requests -> [pc : {"none", "count", "delete"}, b : Buckets]]
      /\ complete'[r].pc = "delete"
      /\ \A u \in Requests : u # r => complete'[u] = complete[u]
  BY DEF TypeOK
<1>3. SessionInv(hist)'
  <2>1. ASSUME NEW b \in Buckets
        PROVE  hist[b] \in Nat /\ hist'[b] \in Nat /\ hist[b] <= hist'[b]
    <3>1. hist[b] \in Nat
      BY DEF TypeOK
    <3>2. hist'[b] = hist[b] \/ hist'[b] = hist[b] + 1
      BY <1>1, <3>1
    <3> QED
      BY <3>1, <3>2
  <2>2. \A b \in Buckets : counts[b] \in Nat /\ atWake[b] \in Nat
    BY DEF SessionInv, SessionTypeOK
  <2> QED
    BY <2>1, <2>2 DEF SessionInv, SessionTypeOK, sessionVars
<1>4. TypeOK'
  BY <1>1, <1>2, <1>3 DEF TypeOK, SessionInv
<1>5. StartMatchesIssue'
  BY <1>1, <1>2 DEF StartMatchesIssue
<1>6. ASSUME NEW b \in Buckets
      PROVE  /\ Cardinality(Due(b)) \in Nat
             /\ Cardinality(Due(b)') = Cardinality(Due(b)) - IF b = b0 THEN 1 ELSE 0
  <2>1. /\ Due(b) \in SUBSET Requests
        /\ b = b0 => r \in Due(b)
        /\ Due(b)' = IF b = b0 THEN Due(b) \ {r} ELSE Due(b)
    BY <1>1, <1>2 DEF Due
  <2> QED
    BY <2>1, CountRemove, RequestSets
<1>7. NoSampleInvented' /\ NoSampleLost'
  BY <1>1, <1>6 DEF NoSampleInvented, NoSampleLost, TypeOK
<1>8. Stale' = Stale
  BY <1>1, <1>2 DEF Stale
<1> QED
  BY <1>3, <1>4, <1>5, <1>7, <1>8 DEF StaleStartsAreExplained

\* The delete ends the program with its start gone.
LEMMA DeleteStep ==
  ASSUME IInv, NEW r \in Requests, DeleteStart(r)
  PROVE  IInv'
<1> USE DEF IInv, DeleteStart, end_start, MapDelete, blockVars, history
<1>1. SessionInv(hist)'
  BY DEF SessionInv, SessionTypeOK, sessionVars
<1>2. /\ start_ts' \in [Requests -> Nat \cup {Absent}] /\ start_ts'[r] = Absent
      /\ complete' \in [Requests -> [pc : {"none", "count", "delete"}, b : Buckets]]
      /\ complete'[r].pc = "none"
      /\ \A u \in Requests : u # r => complete'[u] = complete[u] /\ start_ts'[u] = start_ts[u]
      /\ issued[r] = Absent
  BY SlotsAssumption DEF TypeOK, NoProgram, Buckets, StartMatchesIssue
<1>3. TypeOK'
  BY <1>1, <1>2 DEF TypeOK, SessionInv
<1>4. StartMatchesIssue'
  BY <1>2 DEF StartMatchesIssue
<1>5. \A b \in Buckets : Due(b)' = Due(b)
  BY <1>2 DEF Due
<1>6. Stale' = Stale
  BY <1>2 DEF Stale
<1> QED
  BY <1>1, <1>3, <1>4, <1>5, <1>6 DEF NoSampleInvented, NoSampleLost, StaleStartsAreExplained

\* Every step keeps IInv: one case per disjunct of Next.
LEMMA NextIInv == IInv /\ [Next]_vars => IInv'
<1> SUFFICES ASSUME IInv, [Next]_vars PROVE IInv'
  OBVIOUS
<1>1. CASE Tick
  BY <1>1, TickStep
<1>2. CASE \E r \in Requests : Allocate(r) \/ Requeue(r)
  BY <1>2, RequestStep
<1>3. CASE \E r \in Requests, runs \in BOOLEAN : Issue(r, runs)
  BY <1>3, IssueStep
<1>4. CASE \E r \in Requests, after \in {"free", "ready", "issued"} : CompleteSampled(r, after)
  BY <1>4, CompleteSampledStep
<1>5. CASE \E r \in Requests, after \in {"free", "ready", "issued"}, runs \in BOOLEAN :
             CompleteUnsampled(r, after, runs)
  BY <1>5, CompleteUnsampledStep
<1>6. CASE \E r \in Requests : CountSample(r)
  BY <1>6, CountStep
<1>7. CASE \E r \in Requests : DeleteStart(r)
  BY <1>7, DeleteStep
<1>8. CASE main
  BY <1>8, MainStep
<1>9. CASE UNCHANGED vars
  <2>1. SessionInv(hist)'
    BY <1>9 DEF IInv, SessionInv, SessionTypeOK, sessionVars, vars
  <2> QED
    BY <1>9, <2>1, ProbeUnchanged DEF vars, IInv, TypeOK
<1> QED
  BY <1>1, <1>2, <1>3, <1>4, <1>5, <1>6, <1>7, <1>8, <1>9 DEF Next, Finished

----------------------------------------------------------------------------

\* The invariant that the theorems below are parts of: it covers both programs
\* of iolat.bpf.c, every life of a request and every step of main().
THEOREM IoLatInvariant == Spec => []IInv
BY InitIInv, NextIInv, PTL DEF Spec

\* The variables keep their types; in particular b always indexes hist, so the
\* null check of iolat_complete on cnt never fails.
THEOREM IoLatTypes == Spec => []TypeOK
<1>1. IInv => TypeOK
  BY DEF IInv
<1> QED
  BY <1>1, IoLatInvariant, PTL

\* No bucket of hist counts more than the completions that truly took that
\* long since the last issue of their request, and the phantoms.
THEOREM IoLatNoSampleInvented == Spec => []NoSampleInvented
<1>1. IInv => NoSampleInvented
  BY DEF IInv
<1> QED
  BY <1>1, IoLatInvariant, PTL

\* Every completion of a seen issue is counted in its true bucket by
\* iolat_complete, but for those counted as lost.
THEOREM IoLatNoSampleLost == Spec => []NoSampleLost
<1>1. IInv => NoSampleLost
  BY DEF IInv
<1> QED
  BY <1>1, IoLatInvariant, PTL

\* Starts that outlive their request in start_ts, and samples taken from such
\* starts, are together no more than the issues that lost their sample, those
\* that found start_ts full included.
THEOREM IoLatStaleStarts == Spec => []StaleStartsAreExplained
<1>1. IInv => StaleStartsAreExplained
  BY DEF IInv
<1> QED
  BY <1>1, IoLatInvariant, PTL

\* Requeues and reuse of an address never leave the start of another issue for
\* a request whose issue iolat_issue recorded.
THEOREM IoLatStartMatchesIssue == Spec => []StartMatchesIssue
<1>1. IInv => StartMatchesIssue
  BY DEF IInv
<1> QED
  BY <1>1, IoLatInvariant, PTL

\* Each bucket main() reports lies between the end of the sleep and now.
THEOREM IoLatReport == Spec => []ReportWithinCollection
<1>1. IInv => ReportWithinCollection
  BY DEF IInv, SessionInv, ReportWithinCollection
<1> QED
  BY <1>1, IoLatInvariant, PTL

----------------------------------------------------------------------------
(* Refinement: iolat implements LatencyRecorder.                           *)

\* Taken stands still when neither the histogram nor the samples due change.
LEMMA TakenStill ==
  ASSUME UNCHANGED <<hist, complete>>
  PROVE  Taken' = Taken
<1>1. \A b \in Buckets : Due(b)' = Due(b)
  BY DEF Due
<1> QED
  BY <1>1 DEF Taken

\* A completion with a sample takes one sample, of the bucket it computed.
LEMMA TakenByCompletion ==
  ASSUME IInv, NEW r \in Requests, NEW after \in {"free", "ready", "issued"},
         CompleteSampled(r, after)
  PROVE  /\ BucketOf(clock - start_ts[r]) \in Buckets
         /\ Taken' = [Taken EXCEPT ![BucketOf(clock - start_ts[r])] = @ + 1]
<1> USE DEF IInv, CompleteSampled
<1> DEFINE b0 == BucketOf(clock - start_ts[r])
<1>1. /\ b0 \in Buckets
      /\ complete' = [complete EXCEPT ![r] = [pc |-> "count", b |-> b0]]
      /\ complete[r].pc = "none"
      /\ hist' = hist /\ hist \in [Buckets -> Nat]
  BY BucketInRange, CompletedFacts DEF iolat_complete, TypeOK
<1> HIDE DEF b0
<1>2. /\ complete'[r] = [pc |-> "count", b |-> b0]
      /\ \A u \in Requests : u # r => complete'[u] = complete[u]
  BY <1>1 DEF TypeOK
<1>3. ASSUME NEW b \in Buckets
      PROVE  /\ Cardinality(Due(b)) \in Nat
             /\ Cardinality(Due(b)') = Cardinality(Due(b)) + IF b = b0 THEN 1 ELSE 0
  <2>1. /\ Due(b) \in SUBSET Requests
        /\ r \notin Due(b)
        /\ Due(b)' = IF b = b0 THEN Due(b) \cup {r} ELSE Due(b)
    BY <1>1, <1>2 DEF Due
  <2> QED
    BY <2>1, CountAdd, RequestSets
<1>4. \A b \in Buckets : hist'[b] + Cardinality(Due(b)') =
                          hist[b] + Cardinality(Due(b)) + IF b = b0 THEN 1 ELSE 0
  BY <1>1, <1>3
<1>5. Taken' = [b \in Buckets |-> Taken[b] + IF b = b0 THEN 1 ELSE 0]
  BY <1>4 DEF Taken
<1>6. \A b \in Buckets : Taken[b] \in Nat
  BY <1>1, <1>3 DEF Taken
<1>7. DOMAIN Taken = Buckets /\ Taken = [b \in Buckets |-> Taken[b]]
  BY DEF Taken
<1>8. Taken' = [Taken EXCEPT ![b0] = @ + 1]
  BY <1>1, <1>5, <1>6, <1>7
<1> QED
  BY <1>1, <1>8 DEF b0

\* The atomic add moves a sample from due to counted: none is taken, and there
\* was one to publish.
LEMMA TakenByCount ==
  ASSUME IInv, NEW r \in Requests, CountSample(r)
  PROVE  /\ complete[r].b \in Buckets
         /\ hist' = [hist EXCEPT ![complete[r].b] = @ + 1]
         /\ hist[complete[r].b] < Taken[complete[r].b]
         /\ Taken' = Taken
<1> USE DEF IInv, CountSample
<1> DEFINE b0 == complete[r].b
<1>1. /\ b0 \in Buckets /\ hist \in [Buckets -> Nat]
      /\ hist' = [hist EXCEPT ![b0] = @ + 1]
      /\ complete[r].pc = "count" /\ complete'[r].pc = "delete"
      /\ \A u \in Requests : u # r => complete'[u] = complete[u]
  BY DEF TypeOK, Increment
<1>2. ASSUME NEW b \in Buckets
      PROVE  /\ Cardinality(Due(b)) \in Nat
             /\ Cardinality(Due(b)') = Cardinality(Due(b)) - IF b = b0 THEN 1 ELSE 0
             /\ Cardinality(Due(b)') \in Nat
  <2>1. /\ Due(b) \in SUBSET Requests
        /\ Due(b)' = IF b = b0 THEN Due(b) \ {r} ELSE Due(b)
        /\ b = b0 => r \in Due(b)
        /\ Due(b)' \in SUBSET Requests
    BY <1>1 DEF Due
  <2> QED
    BY <2>1, CountRemove, RequestSets
<1>3. \A b \in Buckets : hist'[b] + Cardinality(Due(b)') = hist[b] + Cardinality(Due(b))
  BY <1>1, <1>2
<1>4. Taken' = Taken
  BY <1>3 DEF Taken
<1>5. hist[b0] < Taken[b0]
  BY <1>1, <1>2 DEF Taken
<1> QED
  BY <1>1, <1>4, <1>5

\* As long as some start is stale, a lost issue is left to explain a stray.
LEMMA StrayIsExplained ==
  ASSUME IInv, NEW r \in Stale
  PROVE  phantom < lost
<1>1. Cardinality(Stale) \in Nat /\ Cardinality(Stale) # 0
  BY RequestSets, FS_EmptySet DEF Stale
<1>2. Cardinality(Stale) + phantom <= lost /\ phantom \in Nat /\ lost \in Nat
  BY DEF IInv, StaleStartsAreExplained, TypeOK
<1> QED
  BY <1>1, <1>2

\* Every step of iolat is a step of the recorder or changes nothing of it.
LEMMA NextRecords ==
  ASSUME IInv, [Next]_vars
  PROVE  [Recorder!Next]_(Recorder!vars)
<1> USE DEF Recorder!vars
<1>1. CASE Tick
  <2>1. Recorder!Tick
    BY <1>1, TakenStill DEF Tick, blockVars, history, Recorder!Tick, IInv, TypeOK
  <2> QED
    BY <2>1 DEF Recorder!Next
<1>2. CASE main \/ UNCHANGED vars
  BY <1>2, TakenStill DEF main, vars, blockVars, history
<1>3. ASSUME NEW r \in Requests, Allocate(r) \/ Requeue(r) \/ DeleteStart(r)
      PROVE  UNCHANGED Recorder!vars
  <2>1. CASE Allocate(r) \/ Requeue(r)
    BY <2>1, TakenStill DEF Allocate, Requeue, history
  <2>2. CASE DeleteStart(r)
    <3>1. \A b \in Buckets : Due(b)' = Due(b)
      BY <2>2 DEF DeleteStart, Due, NoProgram, IInv, TypeOK
    <3> QED
      BY <2>2, <3>1 DEF DeleteStart, Taken, blockVars, history
  <2> QED
    BY <1>3, <2>1, <2>2
<1>4. ASSUME NEW r \in Requests, NEW runs \in BOOLEAN, Issue(r, runs)
      PROVE  Recorder!Begin(r) \/ Recorder!Drop(r) \/ UNCHANGED Recorder!vars
  <2> USE <1>4 DEF Issue
  <2>1. Taken' = Taken
    BY TakenStill
  <2>2. CASE issued' = [issued EXCEPT ![r] = clock] /\ lost' = lost
    BY <2>1, <2>2 DEF Recorder!Begin
  <2>3. CASE issued' = [issued EXCEPT ![r] = Absent] /\ issued[r] # Absent /\ lost' = lost + 1
    BY <2>1, <2>3 DEF Recorder!Drop, Recorder!Closed, Absent
  <2>4. CASE issued' = [issued EXCEPT ![r] = Absent] /\ issued[r] = Absent /\ lost' = lost
    <3>1. issued' = issued
      BY <2>4 DEF IInv, TypeOK
    <3> QED
      BY <2>1, <2>4, <3>1
  <2> QED
    BY <2>2, <2>3, <2>4
<1>5. ASSUME NEW r \in Requests, NEW after \in {"free", "ready", "issued"},
             CompleteSampled(r, after)
      PROVE  Recorder!End(r) \/ Recorder!Stray
  <2> USE <1>5 DEF CompleteSampled, Completed
  <2> DEFINE b0 == BucketOf(clock - start_ts[r])
  <2>1. b0 \in Buckets /\ Taken' = [Taken EXCEPT ![b0] = @ + 1]
    BY TakenByCompletion
  <2>2. start_ts[r] # Absent
    BY DEF iolat_complete
  <2>3. CASE issued[r] # Absent
    <3>1. b0 \in RightBucket(clock - issued[r])
      BY <2>2, <2>3 DEF IInv, StartMatchesIssue, RightBucket
    <3> QED
      BY <2>1, <2>3, <3>1 DEF Recorder!End, Recorder!Sample, Recorder!Closed, Absent
  <2>4. CASE issued[r] = Absent
    <3>1. r \in Stale
      BY <2>2, <2>4 DEF Stale
    <3>3. phantom < lost
      BY <3>1, StrayIsExplained
    <3>4. issued' = issued
      BY <2>4 DEF IInv, TypeOK
    <3> QED
      BY <2>1, <2>4, <3>3, <3>4 DEF Recorder!Stray, Recorder!Sample
  <2> QED
    BY <2>3, <2>4
<1>6. ASSUME NEW r \in Requests, NEW after \in {"free", "ready", "issued"},
             NEW runs \in BOOLEAN, CompleteUnsampled(r, after, runs)
      PROVE  Recorder!Drop(r) \/ UNCHANGED Recorder!vars
  <2> USE <1>6 DEF CompleteUnsampled, Completed
  <2>1. Taken' = Taken
    BY TakenStill
  <2>2. CASE issued[r] # Absent
    BY <2>1, <2>2 DEF Recorder!Drop, Recorder!Closed, Absent
  <2>3. CASE issued[r] = Absent
    <3>1. issued' = issued
      BY <2>3 DEF IInv, TypeOK
    <3> QED
      BY <2>1, <2>3, <3>1
  <2> QED
    BY <2>2, <2>3
<1>7. ASSUME NEW r \in Requests, CountSample(r)
      PROVE  \E b \in Buckets : Recorder!Publish(b)
  <2>1. Recorder!Publish(complete[r].b)
    BY <1>7, TakenByCount DEF CountSample, blockVars, history, Recorder!Publish
  <2> QED
    BY <2>1, <1>7, TakenByCount
<1> QED
  BY <1>1, <1>2, <1>3, <1>4, <1>5, <1>6, <1>7 DEF Next, Finished, Recorder!Next

\* Nothing has begun and nothing is taken at the start.
LEMMA InitRecords == Init => Recorder!Init
<1> SUFFICES ASSUME Init PROVE Recorder!Init
  OBVIOUS
<1>1. \A b \in Buckets : Due(b) = {}
  BY DEF Init, Due, NoProgram
<1>2. Taken = [b \in Buckets |-> 0]
  BY <1>1, FS_EmptySet DEF Taken, Init
<1> QED
  BY <1>2 DEF Init, Recorder!Init, Recorder!Closed, Absent

\* iolat implements the abstract recorder, for every number of addresses,
\* buckets and start_ts elements.
THEOREM IoLatRecords == Spec => RecordsFaithfully
<1>1. IInv /\ [Next]_vars => [Recorder!Next]_(Recorder!vars)
  BY NextRecords
<1> QED
  BY <1>1, InitRecords, IoLatInvariant, PTL DEF Spec, RecordsFaithfully, Recorder!Spec
=============================================================================
