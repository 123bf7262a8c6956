------------------------------ MODULE MCIoLat ------------------------------
(***************************************************************************)
(* iolat on two request addresses and a start_ts that holds one start,     *)
(* with two buckets and a unit of two clock ticks.                         *)
(***************************************************************************)
EXTENDS IoLat, TLC

CONSTANTS r1, r2

Symmetry == Permutations({r1, r2})
============================================================================
