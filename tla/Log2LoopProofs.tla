--------------------------- MODULE Log2LoopProofs ---------------------------
(***************************************************************************)
(* The bucket loops for words, and histograms, of every size: LoopInv of   *)
(* Log2Loop is inductive, so that each loop returns the floor of the       *)
(* logarithm, and the operators of Log2Buckets are what the loops compute. *)
(***************************************************************************)
EXTENDS Log2Loop, SumsAndPowers

\* The quotient and the remainder determine each other.
LEMMA DivUnique ==
  ASSUME NEW x \in Nat, NEW p \in Nat \ {0}, NEW q \in Nat, p * q <= x, x < p * q + p
  PROVE  x \div p = q
<1> DEFINE u == x \div p
<1>1. u \in Nat /\ p * u <= x /\ x < p * u + p
  BY DivBounds
<1> HIDE DEF u
<1>2. ASSUME NEW m \in Nat, NEW n \in Nat, m < n PROVE p * m + p <= p * n
  <2>1. PICK k \in Nat : n = m + 1 + k
    <3>1. n - m - 1 \in Nat /\ n = m + 1 + (n - m - 1)
      BY <1>2
    <3> QED
      BY <3>1
  <2>2. p * n = p * m + p + p * k
    BY <2>1
  <2>3. p * k \in Nat /\ p * m \in Nat
    OBVIOUS
  <2> QED
    BY <2>2, <2>3
<1>3. ~(u < q) /\ ~(q < u)
  <2>1. p * u \in Nat /\ p * q \in Nat
    BY <1>1
  <2> QED
    BY <1>1, <1>2, <2>1
<1> QED
  BY <1>1, <1>3 DEF u

\* A shift leaves a natural number, and something if the value is that large.
LEMMA ShrFacts ==
  ASSUME NEW x \in Nat, NEW n \in Nat
  PROVE  /\ Shr(x, n) \in 0 .. x
         /\ Shr(x, n) > 0 <=> 2 ^ n <= x
         /\ Shr(x, n) > 1 <=> 2 ^ (n + 1) <= x
         /\ Shr(x, n) = 1 <=> InBucket(x, n)
<1> DEFINE p == 2 ^ n
           q == x \div p
<1>1. p \in Nat \ {0} /\ 2 ^ (n + 1) = 2 * p
  BY PowerPositive, PowerStep
<1>2. Shr(x, n) = q
  BY DEF Shr
<1>3. q \in Nat /\ p * q <= x /\ x < p * q + p
  BY <1>1, DivBounds
<1> HIDE DEF p, q
<1>4. /\ q = 0 => p * q = 0
      /\ q = 1 => p * q = p
      /\ q > 0 => p * q >= p /\ p * q >= q
      /\ q > 1 => p * q >= 2 * p
  <2>1. CASE q = 0 \/ q = 1
    BY <1>1, <2>1
  <2>2. CASE q > 1
    <3>1. PICK k \in Nat : q = k + 2
      <4>1. q - 2 \in Nat /\ q = (q - 2) + 2
        BY <1>3, <2>2
      <4> QED
        BY <4>1
    <3>2. PICK j \in Nat : p = j + 1
      <4>1. p - 1 \in Nat /\ p = (p - 1) + 1
        BY <1>1
      <4> QED
        BY <4>1
    <3>3. p * q = p * k + 2 * p /\ p * q = j * q + q
      BY <3>1, <3>2, <1>1, <1>3
    <3>4. p * k \in Nat /\ j * q \in Nat
      BY <3>1, <3>2, <1>1, <1>3
    <3> QED
      BY <1>1, <1>3, <2>2, <3>3, <3>4
  <2> QED
    BY <1>3, <2>1, <2>2
<1>5. p * q \in Nat
  BY <1>1, <1>3
<1>6. q <= x
  BY <1>3, <1>4, <1>5
<1>7. q > 0 <=> p <= x
  BY <1>1, <1>3, <1>4, <1>5
<1>8. q > 1 <=> 2 * p <= x
  BY <1>1, <1>3, <1>4, <1>5
<1>9. q = 1 <=> p <= x /\ x < 2 * p
  BY <1>1, <1>3, <1>7, <1>8
<1> QED
  BY <1>1, <1>2, <1>3, <1>6, <1>7, <1>8, <1>9 DEF InBucket, p

\* One bit after n bits is n + 1 bits.
LEMMA ShrOnce ==
  ASSUME NEW x \in Nat, NEW n \in Nat
  PROVE  Shr(Shr(x, n), 1) = Shr(x, n + 1)
<1> DEFINE p == 2 ^ n
           q == x \div p
           w == q \div 2
<1>1. p \in Nat \ {0} /\ 2 ^ (n + 1) = 2 * p /\ 2 ^ 1 = 2
  BY PowerPositive, PowerStep
<1>2. q \in Nat /\ p * q <= x /\ x < p * q + p
  BY <1>1, DivBounds
<1> HIDE DEF q
<1>3. w \in Nat /\ (q = 2 * w \/ q = 2 * w + 1)
  <2>1. w \in Nat /\ 2 * w <= q /\ q < 2 * w + 2
    BY <1>2, DivBounds
  <2> HIDE DEF w
  <2> QED
    BY <2>1, <1>2
<1> HIDE DEF p, w
<1>4. (2 * p) * w <= x /\ x < (2 * p) * w + 2 * p
  <2>1. p * (2 * w) = (2 * p) * w /\ p * (2 * w + 1) = (2 * p) * w + p
    BY <1>1, <1>3
  <2>2. (2 * p) * w \in Nat
    BY <1>1, <1>3
  <2> QED
    BY <1>1, <1>2, <1>3, <2>1, <2>2
<1>5. x \div (2 * p) = w
  <2>1. 2 * p \in Nat \ {0}
    BY <1>1
  <2> QED
    BY <1>3, <1>4, <2>1, DivUnique
<1> QED
  BY <1>1, <1>5 DEF Shr, p, q, w

\* The bucket of a value is the only one whose range holds it.
LEMMA BucketOrder ==
  ASSUME NEW x \in Nat, NEW n \in Nat, InBucket(x, n), NEW m \in Nat
  PROVE  2 ^ m <= x <=> m <= n
<1>1. 2 ^ n <= x /\ x < 2 ^ (n + 1)
  BY DEF InBucket
<1>2. 2 ^ n \in Nat /\ 2 ^ (n + 1) \in Nat /\ 2 ^ m \in Nat
  BY PowerStep
<1>3. CASE m <= n
  <2>1. ~(n < m)
    BY <1>3
  <2>2. ~(2 ^ n < 2 ^ m)
    BY <2>1, PowerMonotone
  <2> QED
    BY <1>1, <1>2, <1>3, <2>2
<1>4. CASE ~(m <= n)
  <2>1. ~(m < n + 1)
    BY <1>4
  <2>2. ~(2 ^ m < 2 ^ (n + 1))
    BY <2>1, PowerMonotone
  <2> QED
    BY <1>1, <1>2, <1>4, <2>2
<1> QED
  BY <1>3, <1>4

\* A word that is not zero has a highest bit.
LEMMA BucketExists ==
  ASSUME NEW x \in Words, x > 0
  PROVE  \E n \in 0 .. WORD_BITS - 1 : InBucket(x, n)
<1>1. x \in Nat /\ x < 2 ^ WORD_BITS
  BY WordAssumption, PowerStep DEF Words
<1> DEFINE T == {n \in Nat : x < 2 ^ (n + 1)}
<1>2. WORD_BITS - 1 \in T
  BY <1>1, WordAssumption
<1>3. PICK n \in T : \A y \in T : n <= y
  BY <1>2, NatMinimum
<1>4. n \in 0 .. WORD_BITS - 1 /\ x < 2 ^ (n + 1)
  BY <1>2, <1>3, WordAssumption
<1>5. 2 ^ n <= x
  <2>1. CASE n = 0
    BY <1>1, <2>1, PowerZero
  <2>2. CASE n # 0
    <3>1. n - 1 \in Nat /\ n - 1 \notin T
      BY <1>3, <2>2
    <3>2. (n - 1) + 1 = n /\ 2 ^ n \in Nat
      BY <1>4, PowerStep
    <3> QED
      BY <1>1, <3>1, <3>2
  <2> QED
    BY <2>1, <2>2
<1> QED
  BY <1>4, <1>5 DEF InBucket

----------------------------------------------------------------------------
(* The loops.                                                              *)

\* Each histogram has two slots at least; a step does not change the probe.
LEMMA SlotsOfProbe ==
  ASSUME probe \in {"memlat", "runqlat", "iolat"}
  PROVE  MAX_SLOTS \in Nat \ {0, 1} /\ (probe' = probe => MAX_SLOTS' = MAX_SLOTS)
BY LoopAssumption DEF MAX_SLOTS

\* LoopInv holds when a loop starts: no bit is shifted out yet.
LEMMA InitLoop == Init => LoopInv
<1> SUFFICES ASSUME Init PROVE LoopInv
  OBVIOUS
<1>1. input \in Nat /\ v = input /\ b = 0 /\ i = 0 /\ MAX_SLOTS \in Nat \ {0, 1}
  BY WordAssumption, PowerStep, SlotsOfProbe DEF Init, Words
<1>2. 2 ^ 0 = 1 /\ Shr(input, 0) = input
  BY <1>1, PowerZero DEF Shr
<1> QED
  BY <1>1, <1>2, WordAssumption DEF Init, LoopInv

\* Every iteration of memlat's loop counts the bit it shifts out, or the value
\* was one.
LEMMA MemLatIteration ==
  ASSUME LoopInv, pc = "loop", probe = "memlat", memlat_iteration, UNCHANGED <<probe, input>>
  PROVE  LoopInv'
<1>1. /\ input \in Words /\ input \in Nat /\ input > 0 /\ b \in Nat /\ MAX_SLOTS \in Nat \ {0, 1}
      /\ MAX_SLOTS' = MAX_SLOTS /\ Words' = Words
      /\ v = Shr(input, b) /\ v > 0 /\ b < MAX_SLOTS - 1 /\ i \in 0 .. WORD_BITS - 1
  BY WordAssumption, PowerStep, SlotsOfProbe DEF LoopInv, Words
<1>2. v' = Shr(input, b + 1) /\ v' \in 0 .. input /\ i' = i
  BY <1>1, ShrOnce, ShrFacts DEF memlat_iteration
<1>3. CASE v' = 0
  <2>1. ~(Shr(input, b + 1) > 0) /\ 2 ^ b <= input
    BY <1>1, <1>2, <1>3, ShrFacts
  <2>2. ~(2 ^ (b + 1) <= input) /\ 2 ^ (b + 1) \in Nat
    BY <1>1, <2>1, ShrFacts, PowerStep
  <2>3. InBucket(input, b)
    BY <1>1, <2>1, <2>2 DEF InBucket
  <2> QED
    BY <1>1, <1>2, <1>3, <2>3 DEF LoopInv, memlat_iteration
<1>4. CASE v' > 0
  <2>1. b' = b + 1 /\ b' \in 0 .. MAX_SLOTS - 1 /\ 2 ^ b' <= input
    BY <1>1, <1>2, <1>4, ShrFacts DEF memlat_iteration
  <2>2. pc' = IF b' = MAX_SLOTS - 1 THEN "return" ELSE "loop"
    BY <1>1, <1>4, <2>1 DEF memlat_iteration
  <2> QED
    BY <1>1, <1>2, <1>4, <2>1, <2>2 DEF LoopInv
<1> QED
  BY <1>2, <1>3, <1>4

\* After runqlat has tried a distance, b is the highest bit among those tried.
LEMMA RunqLatIteration ==
  ASSUME LoopInv, pc = "loop", probe = "runqlat", runqlat_iteration, UNCHANGED <<probe, input>>
  PROVE  LoopInv'
<1>1. /\ input \in Words /\ input \in Nat /\ input > 0 /\ input < 2 ^ WORD_BITS
      /\ b \in Nat /\ Words' = Words /\ v = input /\ i \in 0 .. WORD_BITS - 1
      /\ 2 ^ b <= v /\ b <= i /\ (b < i => InBucket(v, b))
  BY WordAssumption, PowerStep DEF LoopInv, Words
<1>2. CASE i < WORD_BITS - 1
  <2>1. /\ b' = (IF Shr(v, i + 1) # 0 THEN i + 1 ELSE b)
        /\ i' = i + 1 /\ v' = v /\ pc' = "loop" /\ i' \in 0 .. WORD_BITS - 1
    BY <1>1, <1>2, WordAssumption DEF runqlat_iteration
  <2>2. /\ Shr(v, i + 1) \in Nat /\ 2 ^ (i + 1) \in Nat
        /\ Shr(v, i + 1) > 0 <=> 2 ^ (i + 1) <= v
    BY <1>1, ShrFacts, PowerStep
  <2>3. CASE Shr(v, i + 1) # 0
    BY <1>1, <2>1, <2>2, <2>3 DEF LoopInv
  <2>4. CASE Shr(v, i + 1) = 0
    <3>1. b = i => InBucket(v, b)
      BY <1>1, <2>2, <2>4 DEF InBucket
    <3>2. InBucket(v, b)
      BY <1>1, <3>1
    <3> QED
      BY <1>1, <2>1, <2>4, <3>2 DEF LoopInv
  <2> QED
    BY <2>3, <2>4
<1>3. CASE ~(i < WORD_BITS - 1)
  <2>1. pc' = "clamp" /\ UNCHANGED <<v, b, i>> /\ i + 1 = WORD_BITS
    BY <1>1, <1>3, WordAssumption DEF runqlat_iteration
  <2>2. InBucket(input, b)
    <3>1. b = i => InBucket(input, b)
      BY <1>1, <2>1 DEF InBucket
    <3> QED
      BY <1>1, <3>1
  <2> QED
    BY <1>1, <2>1, <2>2 DEF LoopInv
<1> QED
  BY <1>2, <1>3

\* iolat's loop ends with the value one: a word has no more bits to halve than
\* the loop has iterations.
LEMMA IoLatIteration ==
  ASSUME LoopInv, pc = "loop", probe = "iolat", iolat_iteration, UNCHANGED <<probe, input>>
  PROVE  LoopInv'
<1>1. /\ input \in Words /\ input \in Nat /\ input > 0 /\ input < 2 ^ WORD_BITS
      /\ b \in Nat /\ Words' = Words /\ b = i /\ i \in 0 .. WORD_BITS - 1
      /\ v = Shr(input, b) /\ v > 0 /\ v \in 0 .. input
  BY WordAssumption, PowerStep DEF LoopInv, Words
<1>2. CASE i < WORD_BITS - 1 /\ v > 1
  <2>1. /\ v' = Shr(v, 1) /\ b' = b + 1 /\ i' = i + 1 /\ pc' = "loop"
        /\ i' \in 0 .. WORD_BITS - 1
    BY <1>1, <1>2, WordAssumption DEF iolat_iteration
  <2>2. v' = Shr(input, b + 1)
    BY <1>1, <2>1, ShrOnce
  <2>3. 2 ^ (b + 1) <= input
    BY <1>1, <1>2, ShrFacts
  <2>4. v' > 0 /\ v' \in 0 .. input
    BY <1>1, <2>2, <2>3, ShrFacts
  <2> QED
    BY <1>1, <2>1, <2>2, <2>4 DEF LoopInv
<1>3. CASE ~(i < WORD_BITS - 1 /\ v > 1)
  <2>1. pc' = "clamp" /\ UNCHANGED <<v, b, i>>
    BY <1>3 DEF iolat_iteration
  <2>2. v = 1
    <3>1. CASE i < WORD_BITS - 1
      BY <1>1, <1>3, <3>1
    <3>2. CASE ~(i < WORD_BITS - 1)
      <4>1. b + 1 = WORD_BITS
        BY <1>1, <3>2, WordAssumption
      <4>2. ~(2 ^ (b + 1) <= input)
        BY <1>1, <4>1, PowerStep
      <4>3. ~(v > 1)
        BY <1>1, <4>2, ShrFacts
      <4> QED
        BY <1>1, <4>3
    <3> QED
      BY <3>1, <3>2
  <2>3. InBucket(input, b)
    BY <1>1, <2>2, ShrFacts
  <2> QED
    BY <1>1, <2>1, <2>3 DEF LoopInv
<1> QED
  BY <1>2, <1>3

\* The clamp moves what is above the last slot into it.
LEMMA ClampStep == ASSUME LoopInv, Clamp PROVE LoopInv'
<1>1. /\ input \in Words /\ input \in Nat /\ input > 0 /\ b \in Nat /\ Words' = Words
      /\ MAX_SLOTS \in Nat \ {0, 1} /\ MAX_SLOTS' = MAX_SLOTS /\ InBucket(input, b)
  BY WordAssumption, PowerStep, SlotsOfProbe DEF LoopInv, Words, Clamp
<1>2. b' = (IF b >= MAX_SLOTS THEN MAX_SLOTS - 1 ELSE b) /\ b' \in 0 .. MAX_SLOTS - 1
  BY <1>1 DEF Clamp, clamped
<1>3. CASE b >= MAX_SLOTS
  <2>1. 2 ^ b' <= input
    BY <1>1, <1>2, <1>3, BucketOrder
  <2> QED
    BY <1>1, <1>2, <1>3, <2>1 DEF LoopInv, Clamp
<1>4. CASE ~(b >= MAX_SLOTS)
  BY <1>1, <1>2, <1>4 DEF LoopInv, Clamp
<1> QED
  BY <1>3, <1>4

\* Every step keeps LoopInv.
LEMMA NextLoop == LoopInv /\ [Next]_vars => LoopInv'
<1> SUFFICES ASSUME LoopInv, [Next]_vars PROVE LoopInv'
  OBVIOUS
<1>1. CASE Iterate
  BY <1>1, MemLatIteration, RunqLatIteration, IoLatIteration DEF Iterate
<1>2. CASE Clamp
  BY <1>2, ClampStep
<1>3. CASE UNCHANGED vars
  BY <1>3, SlotsOfProbe DEF vars, LoopInv, Words
<1> QED
  BY <1>1, <1>2, <1>3 DEF Next, Finished

\* LoopInv covers every iteration of the three loops, on every word.
THEOREM Log2LoopInvariant == Spec => []LoopInv
BY InitLoop, NextLoop, PTL DEF Spec

\* Every iteration of each loop uses up a step of its bound, whatever the word
\* and the number of slots; so, the scheduling apart, a call returns.
THEOREM Log2LoopBounded == Spec => LoopsAreBounded
<1>1. ASSUME LoopInv, LoopInv', [Next]_vars
      PROVE  [StepsLeft' \in Nat /\ StepsLeft' < StepsLeft]_vars
  <2>1. /\ b \in Nat /\ i \in 0 .. WORD_BITS - 1 /\ b' \in Nat /\ i' \in 0 .. WORD_BITS - 1
        /\ MAX_SLOTS \in Nat \ {0, 1} /\ WORD_BITS \in Nat \ {0}
        /\ probe' = probe => MAX_SLOTS' = MAX_SLOTS
    BY <1>1, WordAssumption, SlotsOfProbe DEF LoopInv
  <2>2. CASE Iterate /\ probe = "memlat"
    <3>1. /\ pc = "loop" /\ probe' = probe /\ StepsLeft = MAX_SLOTS - 1 - b
          /\ b < MAX_SLOTS - 1 /\ pc' \in {"loop", "return"}
      BY <1>1, <2>2 DEF Iterate, memlat_iteration, StepsLeft, LoopInv
    <3>2. CASE pc' = "return"
      BY <2>1, <3>1, <3>2 DEF StepsLeft
    <3>3. CASE pc' = "loop"
      <4>1. b' = b + 1 /\ b' < MAX_SLOTS - 1
        BY <2>1, <2>2, <3>1, <3>3 DEF Iterate, memlat_iteration
      <4>2. StepsLeft' = MAX_SLOTS' - 1 - b'
        BY <2>2, <3>1, <3>3 DEF StepsLeft
      <4> QED
        BY <2>1, <3>1, <4>1, <4>2
    <3> QED
      BY <3>1, <3>2, <3>3
  <2>3. CASE Iterate /\ probe # "memlat"
    <3>1. pc = "loop" /\ probe' = probe /\ StepsLeft = WORD_BITS + 1 - i
      BY <2>3 DEF Iterate, StepsLeft
    <3>2. \/ pc' = "clamp"
          \/ pc' = "loop" /\ i' = i + 1
      BY <2>3, <3>1 DEF Iterate, runqlat_iteration, iolat_iteration
    <3>3. StepsLeft' = IF pc' = "clamp" THEN 1 ELSE WORD_BITS + 1 - i'
      BY <2>3, <3>1, <3>2 DEF StepsLeft
    <3>4. WORD_BITS \in Nat \ {0} /\ i \in 0 .. WORD_BITS - 1 /\ i' \in 0 .. WORD_BITS - 1
      BY <2>1
    <3>5. CASE pc' = "clamp"
      BY <3>1, <3>3, <3>4, <3>5
    <3>6. CASE pc' # "clamp"
      <4>1. i' = i + 1 /\ StepsLeft' = WORD_BITS + 1 - i'
        BY <3>2, <3>3, <3>6
      <4>2. WORD_BITS + 1 - i' \in Nat /\ WORD_BITS + 1 - i' < WORD_BITS + 1 - i
        BY <3>4, <4>1
      <4> QED
        BY <3>1, <4>1, <4>2
    <3> QED
      BY <3>5, <3>6
  <2>4. CASE Clamp
    <3>1. StepsLeft = 1 /\ StepsLeft' = 0
      BY <2>4 DEF Clamp, StepsLeft
    <3> QED
      BY <3>1
  <2> QED
    BY <1>1, <2>2, <2>3, <2>4 DEF Next, Finished
<1> QED
  BY <1>1, Log2LoopInvariant, PTL DEF Spec, LoopsAreBounded

\* The variables of the loops keep their types, and whatever a loop returns
\* indexes the histogram of its probe.
THEOREM Log2LoopTypeOK == Spec => []TypeOK
<1>1. LoopInv => TypeOK
  <2> SUFFICES ASSUME LoopInv PROVE TypeOK
    OBVIOUS
  <2>1. /\ input \in Words /\ input \in Nat /\ input < 2 ^ WORD_BITS
        /\ v \in Words /\ b \in Nat /\ i \in 0 .. WORD_BITS
    BY WordAssumption, PowerStep DEF LoopInv, Words
  <2>2. b # 0 => 2 ^ b <= input
    BY <2>1, ShrFacts DEF LoopInv, InBucket
  <2>3. b <= WORD_BITS
    <3>1. b # 0 => 2 ^ b < 2 ^ WORD_BITS
      BY <2>1, <2>2, PowerStep, WordAssumption
    <3>2. b # 0 => b < WORD_BITS
      BY <2>1, <3>1, PowerMonotone, WordAssumption
    <3> QED
      BY <2>1, <3>2, WordAssumption
  <2> QED
    BY <2>1, <2>3, WordAssumption DEF LoopInv, TypeOK
<1> QED
  BY <1>1, Log2LoopInvariant, PTL

\* The bucket each loop returns is the one whose printed range holds the value,
\* for words and histograms of every size.
THEOREM Log2LoopFloor == Spec => []BucketIsFloorLog2
<1>1. LoopInv => BucketIsFloorLog2
  <2> SUFFICES ASSUME LoopInv, pc = "return" PROVE BucketIsFloorLog2
    BY DEF BucketIsFloorLog2
  <2>1. /\ input \in Nat /\ b \in Nat /\ MAX_SLOTS \in Nat \ {0, 1}
    BY WordAssumption, PowerStep, SlotsOfProbe DEF LoopInv, Words
  <2>2. CASE b = MAX_SLOTS - 1 /\ 2 ^ b <= input
    <3>1. (MAX_SLOTS - 1) + 1 = MAX_SLOTS /\ 2 ^ MAX_SLOTS \in Nat
      BY <2>1, PowerStep
    <3>2. input < 2 ^ MAX_SLOTS => InBucket(input, b)
      BY <2>2, <3>1 DEF InBucket
    <3> QED
      BY <2>1, <2>2, <3>1, <3>2 DEF BucketIsFloorLog2
  <2> QED
    BY <2>2 DEF LoopInv, BucketIsFloorLog2
<1> QED
  BY <1>1, Log2LoopInvariant, PTL

----------------------------------------------------------------------------
(* The operators.                                                          *)

\* The first n of m numbers.
LEMMA FirstOf ==
  ASSUME NEW n \in Nat, NEW m \in Nat
  PROVE  Cardinality({k \in 1 .. m : k <= n}) = IF n <= m THEN n ELSE m
<1> DEFINE least == IF n <= m THEN n ELSE m
<1>1. least \in Nat /\ {k \in 1 .. m : k <= n} = 1 .. least
  OBVIOUS
<1>2. Cardinality(1 .. least) = least
  BY <1>1, FS_Interval
<1> QED
  BY <1>1, <1>2

\* Min chooses the smaller of two numbers.
LEMMA MinOfTwo ==
  ASSUME NEW n \in Nat, NEW m \in Nat
  PROVE  Min({n, m}) = IF n <= m THEN n ELSE m
<1>1. \E x \in {n, m} : \A y \in {n, m} : x <= y
  OBVIOUS
<1>2. Min({n, m}) \in {n, m} /\ \A y \in {n, m} : Min({n, m}) <= y
  BY <1>1 DEF Min
<1> QED
  BY <1>2

\* What the operators of Log2Buckets make of a word: the floor of its logarithm
\* or the last slot, whichever comes first, and zero of zero.
LEMMA OperatorsFloor ==
  ASSUME NEW x \in Words, NEW n \in 0 .. WORD_BITS - 1, InBucket(x, n) \/ (x = 0 /\ n = 0),
         NEW slots \in Nat \ {0}
  PROVE  LET least == IF n <= slots - 1 THEN n ELSE slots - 1
         IN  /\ memlat_log2_bucket_u64(x, slots) = least
             /\ runqlat_log2_bucket_u64(x, slots) = least
             /\ iolat_log2_bucket(x, slots) = least
<1> DEFINE least == IF n <= slots - 1 THEN n ELSE slots - 1
<1>1. /\ x \in Nat /\ WORD_BITS - 1 \in Nat /\ slots - 1 \in Nat /\ n \in Nat
      /\ n <= WORD_BITS - 1
  BY WordAssumption, PowerStep DEF Words
<1>2. \A k \in Nat : 2 ^ (k + 1) <= x <=> k + 1 <= n
  <2>1. CASE InBucket(x, n)
    BY <1>1, <2>1, BucketOrder
  <2>2. CASE x = 0 /\ n = 0
    BY <2>2, PowerPositive
  <2> QED
    BY <2>1, <2>2
<1>3. \A k \in Nat \ {0} : Shr(x, k) # 0 <=> k <= n
  <2> SUFFICES ASSUME NEW k \in Nat \ {0} PROVE Shr(x, k) # 0 <=> k <= n
    OBVIOUS
  <2>1. k - 1 \in Nat /\ (k - 1) + 1 = k
    OBVIOUS
  <2>2. 2 ^ k <= x <=> k <= n
    BY <1>2, <2>1
  <2>3. k \in Nat /\ Shr(x, k) \in 0 .. x /\ (Shr(x, k) > 0 <=> 2 ^ k <= x)
    BY <1>1, ShrFacts
  <2> QED
    BY <2>2, <2>3
<1>4. \A k \in Nat : Shr(x, k) > 1 <=> k + 1 <= n
  BY <1>1, <1>2, ShrFacts
<1>5. memlat_log2_bucket_u64(x, slots) = least
  <2>1. {k \in 1 .. slots - 1 : Shr(x, k) # 0} = {k \in 1 .. slots - 1 : k <= n}
    BY <1>1, <1>3
  <2>2. Cardinality({k \in 1 .. slots - 1 : k <= n}) = least
    BY <1>1, FirstOf
  <2> QED
    BY <2>1, <2>2 DEF memlat_log2_bucket_u64
<1>6. runqlat_log2_bucket_u64(x, slots) = least
  <2>1. {k \in 1 .. WORD_BITS - 1 : Shr(x, k) # 0} = {k \in 1 .. WORD_BITS - 1 : k <= n}
    BY <1>1, <1>3
  <2>2. Cardinality({k \in 1 .. WORD_BITS - 1 : k <= n}) = n
    BY <1>1, FirstOf
  <2>3. runqlat_log2_bucket_u64(x, slots) = Min({slots - 1, n})
    BY <2>1, <2>2 DEF runqlat_log2_bucket_u64
  <2>4. Min({slots - 1, n}) = least
    BY <1>1, MinOfTwo
  <2> QED
    BY <2>3, <2>4
<1>7. iolat_log2_bucket(x, slots) = least
  <2>1. \A k \in 0 .. WORD_BITS - 2 : Shr(x, k) > 1 <=> k <= n - 1
    BY <1>1, <1>4
  <2>2. {k \in 0 .. WORD_BITS - 2 : Shr(x, k) > 1} = {k \in 0 .. WORD_BITS - 2 : k <= n - 1}
    BY <2>1
  <2>3. {k \in 0 .. WORD_BITS - 2 : k <= n - 1} = 0 .. n - 1
    BY <1>1, WordAssumption
  <2>4. Cardinality(0 .. n - 1) = n
    BY <1>1, FS_Interval
  <2>5. iolat_log2_bucket(x, slots) = Min({slots - 1, n})
    BY <2>2, <2>3, <2>4 DEF iolat_log2_bucket
  <2>6. Min({slots - 1, n}) = least
    BY <1>1, MinOfTwo
  <2> QED
    BY <2>5, <2>6
<1> QED
  BY <1>5, <1>6, <1>7

\* What each loop returns is what the operator of its probe says, so the proofs
\* about the probes, which use the operators, are about the loops.
THEOREM Log2LoopOperators == Spec => []LoopsComputeOperators
<1>1. LoopInv => LoopsComputeOperators
  <2> SUFFICES ASSUME LoopInv, pc = "return" PROVE LoopsComputeOperators
    BY DEF LoopsComputeOperators
  <2>1. /\ input \in Words /\ input \in Nat /\ b \in Nat /\ MAX_SLOTS \in Nat \ {0}
        /\ b <= MAX_SLOTS - 1 /\ probe \in {"memlat", "runqlat", "iolat"}
    BY WordAssumption, PowerStep, SlotsOfProbe DEF LoopInv, Words
  <2>2. PICK n \in 0 .. WORD_BITS - 1 : InBucket(input, n) \/ (input = 0 /\ n = 0)
    BY <2>1, BucketExists, WordAssumption
  <2>3. b = IF n <= MAX_SLOTS - 1 THEN n ELSE MAX_SLOTS - 1
    <3>1. CASE InBucket(input, b)
      <4>1. 2 ^ b <= input /\ input # 0
        BY <2>1, <3>1, PowerPositive DEF InBucket
      <4>2. 2 ^ n <= input
        BY <4>1, <2>2 DEF InBucket
      <4>3. b <= n /\ n <= b
        BY <2>1, <2>2, <3>1, <4>1, <4>2, BucketOrder
      <4> QED
        BY <2>1, <4>3
    <3>2. CASE b = MAX_SLOTS - 1 /\ 2 ^ b <= input
      <4>1. input # 0
        BY <2>1, <3>2, PowerPositive
      <4>2. b <= n
        BY <2>1, <2>2, <3>2, <4>1, BucketOrder
      <4> QED
        BY <2>1, <3>2, <4>2
    <3>3. CASE b = 0 /\ input = 0
      <4>1. ~InBucket(input, n)
        BY <2>1, <3>3, PowerPositive DEF InBucket
      <4> QED
        BY <2>1, <2>2, <3>3, <4>1
    <3> QED
      BY <3>1, <3>2, <3>3 DEF LoopInv
  <2>4. /\ memlat_log2_bucket_u64(input, MAX_SLOTS) = b
        /\ runqlat_log2_bucket_u64(input, MAX_SLOTS) = b
        /\ iolat_log2_bucket(input, MAX_SLOTS) = b
    BY <2>1, <2>2, <2>3, OperatorsFloor
  <2> QED
    BY <2>1, <2>4 DEF LoopsComputeOperators
<1> QED
  BY <1>1, Log2LoopInvariant, PTL

\* The three loops were written apart, and yet give every latency that all of
\* them can meet the same bucket in histograms of the same size.
THEOREM BucketsAgree ==
  \A x \in Words, slots \in Nat \ {0} :
    /\ memlat_log2_bucket_u64(x, slots) = runqlat_log2_bucket_u64(x, slots)
    /\ runqlat_log2_bucket_u64(x, slots) = iolat_log2_bucket(x, slots)
<1> SUFFICES ASSUME NEW x \in Words, NEW slots \in Nat \ {0}
             PROVE  /\ memlat_log2_bucket_u64(x, slots) = runqlat_log2_bucket_u64(x, slots)
                    /\ runqlat_log2_bucket_u64(x, slots) = iolat_log2_bucket(x, slots)
  OBVIOUS
<1>1. PICK n \in 0 .. WORD_BITS - 1 : InBucket(x, n) \/ (x = 0 /\ n = 0)
  <2>1. x \in Nat
    BY WordAssumption, PowerStep DEF Words
  <2> QED
    BY <2>1, BucketExists, WordAssumption
<1> QED
  BY <1>1, OperatorsFloor
=============================================================================
