------------------------------ MODULE MCOutput ------------------------------
(***************************************************************************)
(* Model values for Output: words of 3 bits, so that the last bucket of    *)
(* memlat and runqlat is the last of a word, as 63 is of 64 bits, and the  *)
(* histogram of iolat ends before it.                                      *)
(***************************************************************************)
EXTENDS Output

ThreeTools == [memlat |-> 3, runqlat |-> 3, iolat |-> 2]
=============================================================================
