----------------------------- MODULE MCMemLat -----------------------------
(***************************************************************************)
(* memlat on two threads of one process, a start_ts that holds one start,  *)
(* one kretprobe instance, two buckets.                                    *)
(***************************************************************************)
EXTENDS MemLat

CONSTANTS t1, t2

OneProcess == [t \in {t1, t2} |-> "p"]
============================================================================
