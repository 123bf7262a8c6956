---------------------------- MODULE Log2Buckets ----------------------------
(***************************************************************************)
(* The three functions that turn a latency into a histogram bucket.  Each  *)
(* probe has a loop of its own; here each is what its loop computes.       *)
(***************************************************************************)
EXTENDS Integers, FiniteSets, FiniteSetsExt

\* WORD_BITS is the width of the C type __u64; small in the checked instances.
CONSTANT WORD_BITS

ASSUME WordAssumption == WORD_BITS \in Nat \ {0}

\* v >> i
Shr(v, i) == v \div 2 ^ i

\* memlat: shift right until nothing is left or the last slot is reached, one
\* more bucket for each shift that leaves something.
\* (The mutant counts before it shifts.)
memlat_log2_bucket_u64_preshift(v, slots) ==
  Cardinality({i \in 0 .. slots - 1 : Shr(v, i) # 0})
memlat_log2_bucket_u64(v, slots) ==
  Cardinality({i \in 1 .. slots - 1 : Shr(v, i) # 0})

\* runqlat: one more bucket for each shift distance that leaves something (they
\* come before those that do not), clamped.  (The mutant does not clamp.)
runqlat_log2_bucket_u64_noclamp(v, slots) ==
  Cardinality({i \in 1 .. WORD_BITS - 1 : Shr(v, i) # 0})
runqlat_log2_bucket_u64(v, slots) ==
  Min({slots - 1, Cardinality({i \in 1 .. WORD_BITS - 1 : Shr(v, i) # 0})})

\* iolat: one more bucket for each halving of a value above 1, clamped.  (The
\* mutant does not clamp.)
iolat_log2_bucket_noclamp(v, slots) ==
  Cardinality({i \in 0 .. WORD_BITS - 2 : Shr(v, i) > 1})
iolat_log2_bucket(v, slots) ==
  Min({slots - 1, Cardinality({i \in 0 .. WORD_BITS - 2 : Shr(v, i) > 1})})

\* The value printed, saved and documented for bucket b is [2^b, 2^(b+1)).
InBucket(v, b) == 2 ^ b <= v /\ v < 2 ^ (b + 1)
============================================================================
