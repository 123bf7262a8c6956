------------------------------ MODULE Log2Loop ------------------------------
(***************************************************************************)
(* The bucket loops of the three probes, one iteration at a time, on every *)
(* value of a word.  The verifier wants each loop bounded, so each probe   *)
(* has one of its own: memlat shifts a value that is never zero and stops  *)
(* at the last slot, runqlat tries every shift distance, iolat halves.     *)
(***************************************************************************)
EXTENDS Log2Buckets

CONSTANTS                       \* MAX_SLOTS of each probe: 64, 64 and 26
  MEMLAT_SLOTS, RUNQLAT_SLOTS, IOLAT_SLOTS

ASSUME LoopAssumption == {MEMLAT_SLOTS, RUNQLAT_SLOTS, IOLAT_SLOTS} \subseteq Nat \ {0, 1}

VARIABLES
  probe,      \* whose loop runs
  input,      \* history: the argument
  v, b, i,    \* the variables of the loop
  pc          \* "loop", "clamp" or "return"

vars == <<probe, input, v, b, i, pc>>

MAX_SLOTS == CASE probe = "memlat"  -> MEMLAT_SLOTS
               [] probe = "runqlat" -> RUNQLAT_SLOTS
               [] probe = "iolat"   -> IOLAT_SLOTS

Words == 0 .. 2 ^ WORD_BITS - 1

\* memlat_exit never passes zero.
Init ==
  /\ probe \in {"memlat", "runqlat", "iolat"}
  /\ input \in Words
  /\ probe = "memlat" => input > 0
  /\ v = input
  /\ b = 0
  /\ i = 0
  /\ pc = IF input = 0 THEN "return" ELSE "loop"

\* while (v >>= 1) { b++; if (b >= MAX_SLOTS - 1) break; }  (The mutant tests
\* the bound before it counts.)
memlat_iteration_late ==
  /\ v' = Shr(v, 1)
  /\ b' = IF v' = 0 THEN b ELSE b + 1
  /\ pc' = IF v' = 0 \/ b >= MAX_SLOTS - 1 THEN "return" ELSE "loop"
  /\ i' = i
memlat_iteration ==
  /\ v' = Shr(v, 1)
  /\ b' = IF v' = 0 THEN b ELSE b + 1
  /\ pc' = IF v' = 0 \/ b' >= MAX_SLOTS - 1 THEN "return" ELSE "loop"
  /\ i' = i

\* for (i = 0; i < 63; i++) if (v >> (i + 1)) b = i + 1;  (The mutant stops one
\* distance early.)
runqlat_iteration_short ==
  IF i < WORD_BITS - 2
    THEN /\ b' = IF Shr(v, i + 1) # 0 THEN i + 1 ELSE b
         /\ i' = i + 1 /\ v' = v /\ pc' = pc
    ELSE pc' = "clamp" /\ UNCHANGED <<v, b, i>>
runqlat_iteration ==
  IF i < WORD_BITS - 1
    THEN /\ b' = IF Shr(v, i + 1) # 0 THEN i + 1 ELSE b
         /\ i' = i + 1 /\ v' = v /\ pc' = pc
    ELSE pc' = "clamp" /\ UNCHANGED <<v, b, i>>

\* for (i = 0; i < 63; i++) if (v > 1) { v >>= 1; b++; } else break;  (The
\* mutant does not break and never ends.)
iolat_iteration_stuck ==
  IF i < WORD_BITS - 1 /\ v > 1
    THEN v' = Shr(v, 1) /\ b' = b + 1 /\ i' = i + 1 /\ pc' = pc
    ELSE UNCHANGED <<v, b, i, pc>>
iolat_iteration ==
  IF i < WORD_BITS - 1 /\ v > 1
    THEN v' = Shr(v, 1) /\ b' = b + 1 /\ i' = i + 1 /\ pc' = pc
    ELSE pc' = "clamp" /\ UNCHANGED <<v, b, i>>

Iterate ==
  /\ pc = "loop"
  /\ \/ probe = "memlat" /\ memlat_iteration
     \/ probe = "runqlat" /\ runqlat_iteration
     \/ probe = "iolat" /\ iolat_iteration
  /\ UNCHANGED <<probe, input>>

\* if (b >= MAX_SLOTS) b = MAX_SLOTS - 1;  (The mutant lets b = MAX_SLOTS pass.)
clamped_late == IF b > MAX_SLOTS THEN MAX_SLOTS - 1 ELSE b
clamped == IF b >= MAX_SLOTS THEN MAX_SLOTS - 1 ELSE b

Clamp ==
  /\ pc = "clamp"
  /\ b' = clamped
  /\ pc' = "return"
  /\ UNCHANGED <<probe, input, v, i>>

Finished == pc = "return" /\ UNCHANGED vars

Next == Iterate \/ Clamp \/ Finished

\* A program runs its loop to the end once it has started it.
Spec == Init /\ [][Next]_vars /\ WF_vars(Iterate \/ Clamp)

----------------------------------------------------------------------------
(* Properties                                                              *)

\* The variables have the types their declarations give; what is returned
\* indexes the histogram, so the lookup of hist[b] finds a count.
TypeOK ==
  /\ probe \in {"memlat", "runqlat", "iolat"}
  /\ {input, v} \subseteq Words
  /\ {b, i} \subseteq 0 .. WORD_BITS
  /\ pc \in {"loop", "clamp", "return"}
  /\ pc = "return" => b \in 0 .. MAX_SLOTS - 1

\* Three loops, one bucketing: the value lies in the range that main() prints
\* and saves for the bucket, except that the last slot takes all that is above
\* it and that zero goes to bucket zero.
BucketIsFloorLog2 ==
  pc = "return" =>
    \/ InBucket(input, b)
    \/ b = MAX_SLOTS - 1 /\ input >= 2 ^ MAX_SLOTS
    \/ b = 0 /\ input = 0 /\ probe # "memlat"

\* The operators that the probe modules use are what the loops compute.
LoopsComputeOperators ==
  pc = "return" =>
    b = CASE probe = "memlat"  -> memlat_log2_bucket_u64(input, MAX_SLOTS)
          [] probe = "runqlat" -> runqlat_log2_bucket_u64(input, MAX_SLOTS)
          [] probe = "iolat"   -> iolat_log2_bucket(input, MAX_SLOTS)

\* The inductive invariant: memlat and iolat have shifted the input by as many
\* bits as they have counted, runqlat has the highest bit among those it tried,
\* and what a loop leaves is the highest bit of the input or the last slot.
LoopInv ==
  /\ probe \in {"memlat", "runqlat", "iolat"}
  /\ input \in Words /\ v \in 0 .. input
  /\ b \in Nat /\ i \in 0 .. WORD_BITS - 1
  /\ pc \in {"loop", "clamp", "return"}
  /\ probe = "memlat" \/ pc # "return" => input > 0
  /\ pc = "loop" =>
       \/ probe = "memlat" /\ v = Shr(input, b) /\ v > 0 /\ b < MAX_SLOTS - 1
       \/ probe = "runqlat" /\ v = input /\ 2 ^ b <= v /\ b <= i /\ (b < i => InBucket(v, b))
       \/ probe = "iolat" /\ v = Shr(input, b) /\ v > 0 /\ b = i
  /\ pc = "clamp" => InBucket(input, b)
  /\ pc = "return" =>
       /\ b \in 0 .. MAX_SLOTS - 1
       /\ \/ InBucket(input, b)
          \/ b = MAX_SLOTS - 1 /\ 2 ^ b <= input
          \/ b = 0 /\ input = 0

\* The most iterations, with the clamp, that a call may still take: memlat has
\* the slots above b left to count through, the others the distances above i.
StepsLeft ==
  CASE pc = "return" -> 0
    [] pc = "clamp"  -> 1
    [] pc = "loop" /\ probe = "memlat" -> MAX_SLOTS - 1 - b
    [] OTHER -> WORD_BITS + 1 - i

\* The verifier's demand: each of the three loops is bounded, by its slots or by
\* the bits of a word, as every iteration uses up one of the steps left.
LoopsAreBounded == [][StepsLeft' \in Nat /\ StepsLeft' < StepsLeft]_vars

\* Every call returns: a loop that did not would hold up the kernel.
Returns == <>(pc = "return")
============================================================================
