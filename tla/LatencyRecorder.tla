-------------------------- MODULE LatencyRecorder --------------------------
(***************************************************************************)
(* What a latency probe promises, whatever map keys, programs and CPUs it  *)
(* is made of.  Operations begin and end; the end of one that was seen to  *)
(* begin gives one sample of its true duration, which reaches the          *)
(* histogram later and once, or is one more mishap.  A sample that is no   *)
(* operation's, a stray, is allowed only against a mishap of its own.      *)
(***************************************************************************)
EXTENDS Integers

CONSTANTS
  Ops,            \* what can be in progress: threads, tasks, requests
  Places,         \* where a sample can be counted
  PlacesOf(_)     \* the places that are right for a duration

VARIABLES
  now,            \* the time
  open,           \* when each operation in progress began, if it was seen to
  taken,          \* samples taken, by place
  shown,          \* samples the histogram shows, by place
  mishaps,        \* events that were not seen as they should have been
  strays          \* samples of no operation that was seen to begin

vars == <<now, open, taken, shown, mishaps, strays>>

Closed == -1

Sample(places) == \E p \in places : taken' = [taken EXCEPT ![p] = @ + 1]

Init ==
  /\ now = 0
  /\ open = [o \in Ops |-> Closed]
  /\ taken = [p \in Places |-> 0]
  /\ shown = [p \in Places |-> 0]
  /\ mishaps = 0
  /\ strays = 0

Tick == now' > now /\ UNCHANGED <<open, taken, shown, mishaps, strays>>

\* An operation begins, perhaps for the second time before it ends.
Begin(o) ==
  /\ open' = [open EXCEPT ![o] = now]
  /\ UNCHANGED <<now, taken, shown, mishaps, strays>>

\* It ends and its duration is taken.
End(o) ==
  /\ open[o] # Closed
  /\ Sample(PlacesOf(now - open[o]))
  /\ open' = [open EXCEPT ![o] = Closed]
  /\ UNCHANGED <<now, shown, mishaps, strays>>

\* It ends, or is given up, and nothing is taken.
Drop(o) ==
  /\ open[o] # Closed
  /\ open' = [open EXCEPT ![o] = Closed]
  /\ mishaps' = mishaps + 1
  /\ UNCHANGED <<now, taken, shown, strays>>

\* An event is taken for a beginning and is none.
Mishap ==
  /\ mishaps' = mishaps + 1
  /\ UNCHANGED <<now, open, taken, shown, strays>>

\* The sample that an earlier mishap made possible.
Stray ==
  /\ strays < mishaps
  /\ strays' = strays + 1
  /\ Sample(Places)
  /\ UNCHANGED <<now, open, shown, mishaps>>

\* A sample that was taken reaches the histogram.
Publish(p) ==
  /\ shown[p] < taken[p]
  /\ shown' = [shown EXCEPT ![p] = @ + 1]
  /\ UNCHANGED <<now, open, taken, mishaps, strays>>

Next ==
  \/ Tick
  \/ \E o \in Ops : Begin(o) \/ End(o) \/ Drop(o)
  \/ Mishap
  \/ Stray
  \/ \E p \in Places : Publish(p)

Spec == Init /\ [][Next]_vars
============================================================================
