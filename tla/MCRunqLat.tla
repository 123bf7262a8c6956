----------------------------- MODULE MCRunqLat -----------------------------
(***************************************************************************)
(* runqlat on two tids with two buckets: on two CPUs, each start having    *)
(* room, and on one CPU with a start_ts that holds one start.              *)
(***************************************************************************)
EXTENDS RunqLat, TLC

CONSTANTS c1, c2, t1, t2, idle

Symmetry == Permutations({c1, c2}) \cup Permutations({t1, t2})

TaskSymmetry == Permutations({t1, t2})
============================================================================
