--------------------------- MODULE SessionProofs ---------------------------
(***************************************************************************)
(* What main() keeps, whatever the histogram it reads: facts about Session *)
(* that the proofs about the probes share.                                 *)
(***************************************************************************)
EXTENDS Session, TLAPS

\* SessionInv holds when main() starts.
LEMMA SessionStart ==
  ASSUME NEW h, h = [b \in Buckets |-> 0], SessionInit
  PROVE  SessionInv(h)
BY SlotsAssumption DEF SessionInit, SessionInv, SessionTypeOK, Stages, Buckets

\* Every step of main() keeps SessionInv of a histogram that stands still.
LEMMA SessionStep ==
  ASSUME NEW h \in [Buckets -> Nat], SessionInv(h), NEW stages,
         \/ LoadObjects \/ AttachFirst \/ AttachSecond \/ WakeUp(h)
         \/ ReadBucket(h[cursor]) \/ Report \/ Close \/ Fatal(stages)
  PROVE  /\ SessionTypeOK'
         /\ \A b \in Buckets : b < cursor' => atWake'[b] <= counts'[b] /\ counts'[b] <= h[b]
         /\ \A b \in Buckets : atWake'[b] <= h[b]
         /\ loader' \in {"started", "loaded", "first", "collecting"} => cursor' = 0
<1> USE DEF SessionInv, SessionTypeOK, Stages
<1>1. CASE LoadObjects \/ AttachFirst \/ AttachSecond
  BY <1>1 DEF LoadObjects, AttachFirst, AttachSecond, Advance
<1>2. CASE WakeUp(h)
  BY <1>2 DEF WakeUp, Advance, Buckets
<1>3. CASE ReadBucket(h[cursor])
  <2>1. cursor \in Buckets /\ h[cursor] \in Nat /\ atWake[cursor] <= h[cursor]
    BY <1>3, SlotsAssumption DEF ReadBucket, Buckets
  <2>2. /\ counts' \in [Buckets -> Nat] /\ cursor' = cursor + 1 /\ cursor' \in 0 .. MAX_SLOTS
        /\ loader' = loader /\ loader = "reading" /\ atWake' = atWake
    BY <1>3, <2>1, SlotsAssumption DEF ReadBucket, Buckets
  <2>3. ASSUME NEW b \in Buckets, b < cursor'
        PROVE  atWake[b] <= counts'[b] /\ counts'[b] <= h[b]
    <3>1. CASE b = cursor
      BY <3>1, <1>3, <2>1 DEF ReadBucket
    <3>2. CASE b # cursor
      BY <3>2, <2>1, <2>2, <2>3, <1>3 DEF ReadBucket, Buckets
    <3> QED
      BY <3>1, <3>2
  <2> QED
    BY <2>2, <2>3
<1>4. CASE Report \/ Close \/ Fatal(stages)
  BY <1>4 DEF Report, Close, Fatal, Advance
<1> QED
  BY <1>1, <1>2, <1>3, <1>4
=============================================================================
