-------------------------- MODULE CollectionProofs --------------------------
(***************************************************************************)
(* IInv of Collection is inductive for any number of busy loops, runs and  *)
(* iterations, and with it the safety properties of the scripts.           *)
(***************************************************************************)
EXTENDS Collection, TLAPS

\* The times that sleep and python take are times, or none.
LEMMA Times ==
  /\ ProbeTime \in Nat /\ Iterations \in Nat /\ MaxRuns \in Nat /\ MaxRuns > 0
  /\ \A d : SleepTime(d) \in Nat \cup {Invalid} /\ MemTime(d) \in Nat \cup {Invalid}
  /\ \A n \in Nat \cup {Invalid} : Less(n) \in Nat \cup {Invalid}
BY CollectionAssumption DEF SleepTime, MemTime, dur_s, Invalid, Less

LEMMA InitIInv == Init => IInv
<1> SUFFICES ASSUME Init PROVE IInv
  OBVIOUS
<1> USE Times DEF Init
<1>1. TypeOK
  <2>1. early \in BOOLEAN
    BY Zenon
  <2>2. NoLoad \in Loads
    BY DEF NoLoad, Loads
  <2>3. load \in [Runs -> Loads] /\ \A w \in Runs : load[w].termed \subseteq load[w].kids
    BY <2>2 DEF NoLoad
  <2>4. run \in 0 .. MaxRuns /\ iteration \in 0 .. Iterations /\ left \in 0 .. ProbeTime
    OBVIOUS
  <2> QED
    BY <2>1, <2>3, <2>4 DEF TypeOK, NoFiles
<1>2. FilesInv
  BY DEF FilesInv, CollectionIsPrefix, NoFiles
<1>3. RunsInv /\ KidsInv
  BY DEF RunsInv, KidsInv, Runs, NoLoad, Live
<1>4. EarlyInv
  BY DEF EarlyInv
<1> QED
  BY <1>1, <1>2, <1>3, <1>4 DEF IInv

----------------------------------------------------------------------------
(* The foreground scripts leave the workloads alone                        *)

\* The next run finds a directory and a workload that were never used.
LEMMA NextRunIInv ==
  ASSUME IInv, NEW i \in 1 .. Iterations, NEW d \in Durations \cup {"30s"},
         NextRun(i, d), week \in {"idle", "waiting"},
         run \in Runs => ~ Live(run) \/ run \in abandoned,
         UNCHANGED <<collectVars, load, abandoned>>
  PROVE  IInv'
<1> USE Times DEF IInv, NextRun, collectVars
<1>1. run' = run + 1 /\ run' \in Runs /\ phase = "none"
  BY DEF TypeOK, FilesInv, Runs
<1>2. TypeOK'
  BY DEF TypeOK, Runs, NoFiles, Loads
<1>3. FilesInv'
  BY <1>1 DEF FilesInv, CollectionIsPrefix, NoFiles, TypeOK
<1>4. RunsInv'
  BY <1>1 DEF RunsInv, TypeOK, Runs, Live
<1>5. KidsInv'
  BY <1>1 DEF KidsInv, RunsInv, TypeOK, Runs
<1>6. EarlyInv'
  BY <1>1 DEF EarlyInv
<1> QED
  BY <1>2, <1>3, <1>4, <1>5, <1>6

\* Whatever ends the collection, its run is abandoned and its files are those
\* of the first probes.
LEMMA AbandonIInv ==
  ASSUME IInv, Abandon, week # "idle",
         files' = files \/ (phase # "none" /\ \E saved \in {"none", "csv", "both"} :
                              files' = [files EXCEPT ![probe] = saved])
  PROVE  IInv'
<1> USE Times DEF IInv, Abandon
<1>1. run \in Runs
  BY DEF RunsInv, TypeOK, Runs
<1>2. TypeOK'
  <2>1. early' \in BOOLEAN
    BY Zenon
  <2>2. files' \in [1 .. 3 -> {"none", "csv", "both"}]
    BY DEF TypeOK
  <2>3. abandoned' \subseteq Runs
    BY <1>1 DEF TypeOK
  <2> QED
    BY <2>1, <2>2, <2>3 DEF TypeOK
<1>3. FilesInv'
  BY DEF FilesInv, CollectionIsPrefix, TypeOK, NoFiles
<1>4. RunsInv'
  BY <1>1 DEF RunsInv, TypeOK, Runs, Live
<1>5. KidsInv' /\ EarlyInv'
  BY DEF KidsInv, EarlyInv
<1> QED
  BY <1>2, <1>3, <1>4, <1>5

\* The script goes on, or is started.
LEMMA WeekIInv ==
  ASSUME IInv, (\E d \in Durations : Start(d)) \/ SaveMeta \/ MetaFails \/ WaitEnds \/ Interrupt
  PROVE  IInv'
<1> USE Times
<1>1. CASE \E d \in Durations : Start(d)
  <2> PICK d \in Durations : Start(d)
    BY <1>1
  <2>1. 1 \in 1 .. Iterations
    BY CollectionAssumption
  <2>2. run \in Runs => ~ Live(run) \/ run \in abandoned
    BY DEF IInv, RunsInv, Start
  <2> QED
    BY <2>1, <2>2, NextRunIInv DEF Start
<1>2. CASE SaveMeta
  <2> USE <1>2 DEF IInv, SaveMeta
  <2>1. run \in Runs /\ load[run].script = "off"
    BY DEF RunsInv, TypeOK, Runs
  <2>2. /\ load' \in [Runs -> Loads]
        /\ \A w \in Runs : /\ load'[w].kids = load[w].kids /\ load'[w].termed = load[w].termed
                           /\ load'[w].script = IF w = run THEN "starting" ELSE load[w].script
                           /\ load'[w].rest = load[w].rest
    BY <2>1 DEF TypeOK, Loads
  <2>3. TypeOK'
    <3>1. early' \in BOOLEAN
      BY Zenon
    <3> QED
      BY <2>2, <3>1 DEF TypeOK
  <2>4. FilesInv'
    BY DEF FilesInv, CollectionIsPrefix, NoFiles
  <2>5. RunsInv'
    BY <2>1, <2>2 DEF RunsInv, TypeOK, Runs, Live
  <2>6. KidsInv'
    BY <2>1, <2>2 DEF KidsInv
  <2>7. EarlyInv'
    BY DEF EarlyInv
  <2> QED
    BY <2>3, <2>4, <2>5, <2>6, <2>7
<1>3. CASE MetaFails
  BY <1>3, AbandonIInv DEF MetaFails
<1>4. CASE WaitEnds
  <2>1. ~ Live(run) /\ phase = "none"
    BY <1>4 DEF WaitEnds, WaitOver, Live, IInv, FilesInv
  <2>2. CASE iteration < Iterations
    <3>1. run \in Runs
      BY <1>4 DEF WaitEnds, IInv, RunsInv, TypeOK, Runs
    <3>2. iteration + 1 \in 1 .. Iterations /\ dur[run] \in Durations \cup {"30s"}
      BY <2>2, <3>1 DEF IInv, TypeOK
    <3> QED
      BY <1>4, <2>1, <2>2, <3>2, NextRunIInv DEF WaitEnds
  <2>3. CASE ~ iteration < Iterations
    <3> USE <1>4, <2>1, <2>3 DEF WaitEnds, IInv, collectVars
    <3>1. TypeOK' /\ FilesInv'
      BY DEF TypeOK, FilesInv, CollectionIsPrefix
    <3>2. RunsInv'
      BY DEF RunsInv, TypeOK, Runs, Live
    <3>3. KidsInv' /\ EarlyInv'
      BY DEF KidsInv, EarlyInv
    <3> QED
      BY <3>1, <3>2, <3>3
  <2> QED
    BY <2>2, <2>3
<1>5. CASE Interrupt
  BY <1>5, AbandonIInv DEF Interrupt
<1> QED
  BY <1>1, <1>2, <1>3, <1>4, <1>5

\* A probe takes a step of its own.
LEMMA ProbeIInv == IInv /\ ProbeSteps => IInv'
<1> SUFFICES ASSUME IInv, ProbeSteps PROVE IInv'
  OBVIOUS
<1> USE Times
<1>1. CASE Attach
  <2> USE <1>1 DEF Attach, weekVars, IInv
  <2>1. TypeOK' /\ KidsInv'
    BY DEF TypeOK, KidsInv
  <2>2. FilesInv'
    BY DEF FilesInv, CollectionIsPrefix
  <2>3. RunsInv'
    BY DEF RunsInv, Live
  <2>4. EarlyInv'
    BY DEF EarlyInv, MemlatTime
  <2> QED
    BY <2>1, <2>2, <2>3, <2>4
<1>2. CASE SaveFiles
  <2> USE <1>2 DEF SaveFiles, IInv
  <2>1. TypeOK' /\ KidsInv'
    BY DEF TypeOK, KidsInv
  <2>2. FilesInv'
    BY DEF FilesInv, CollectionIsPrefix, TypeOK, NoFiles
  <2>3. RunsInv'
    BY DEF RunsInv, Live, FilesInv
  <2>4. EarlyInv'
    BY DEF EarlyInv, MemlatTime, TypeOK
  <2> QED
    BY <2>1, <2>2, <2>3, <2>4
<1>3. CASE \E saved \in {"none", "csv"} : ProbeFails(saved)
  <2>1. week # "idle"
    BY <1>3 DEF ProbeFails, IInv, FilesInv
  <2> QED
    BY <1>3, <2>1, AbandonIInv DEF ProbeFails
<1> QED
  BY <1>1, <1>2, <1>3 DEF ProbeSteps

----------------------------------------------------------------------------
(* The workloads leave the foreground scripts alone                        *)

\* A workload that is running goes on; its sleep has as much time as before.
LEMMA LoadIInv ==
  ASSUME IInv, NEW w \in Runs, NEW l \in Loads, load' = [load EXCEPT ![w] = l],
         l.termed \subseteq l.kids, l.rest = load[w].rest,
         \/ l.script = load[w].script
         \/ load[w].script # "off" /\ l.script \in {"waiting", "ended", "died"},
         l.script = "waiting" => load[w].script \in {"sleeping", "waiting"},
         l.kids # {} => load[w].kids # {},
         l.script = "ended" => l.kids = {},
         l.script = "died" /\ l.kids # {} => SleepTime(dur[w]) = Invalid,
         UNCHANGED <<weekVars, collectVars, files, abandoned>>
  PROVE  IInv'
<1> USE Times DEF IInv, weekVars, collectVars
<1>1. /\ load' \in [Runs -> Loads]
      /\ \A v \in Runs : v # w => load'[v] = load[v]
      /\ load'[w] = l
  BY DEF TypeOK
<1>2. TypeOK'
  BY <1>1 DEF TypeOK
<1>3. FilesInv'
  BY DEF FilesInv, CollectionIsPrefix
<1>4. RunsInv'
  BY <1>1 DEF RunsInv, Live
<1>5. KidsInv'
  BY <1>1 DEF KidsInv
<1>6. EarlyInv'
  BY <1>1 DEF EarlyInv, MemlatTime, FilesInv, RunsInv, TypeOK, Runs
<1> QED
  BY <1>2, <1>3, <1>4, <1>5, <1>6

\* run_workload.sh and its jobs take a step.
LEMMA ScriptIInv ==
  ASSUME IInv, NEW w \in Runs, ScriptSteps(w)
  PROVE  IInv'
<1> USE Times
<1>0. /\ load \in [Runs -> Loads] /\ load[w] \in Loads
      /\ load[w].termed \subseteq load[w].kids
  BY DEF IInv, TypeOK
<1>1. CASE StartJobs(w)
  <2> USE <1>1 DEF StartJobs, weekVars, IInv
  <2> DEFINE l == [load[w] EXCEPT !.script = "sleeping", !.kids = Jobs, !.work = {"dd"},
                                  !.rest = SleepTime(dur[w])]
  <2>1. /\ l \in Loads /\ l.script = "sleeping" /\ l.rest = SleepTime(dur[w])
        /\ l.termed = load[w].termed /\ l.kids = Jobs
    BY <1>0 DEF Loads
  <2>2. load' = [load EXCEPT ![w] = l]
    OBVIOUS
  <2> HIDE DEF l
  <2>3. /\ load' \in [Runs -> Loads] /\ load'[w] = l
        /\ \A v \in Runs : v # w => load'[v] = load[v]
    BY <1>0, <2>1, <2>2
  <2>4. TypeOK'
    <3>1. early' \in BOOLEAN
      BY Zenon DEF TypeOK
    <3>2. \A v \in Runs : load'[v].termed \subseteq load'[v].kids
      BY <1>0, <2>1, <2>3 DEF TypeOK, Loads
    <3> QED
      BY <2>3, <3>1, <3>2 DEF TypeOK
  <2>5. FilesInv'
    BY DEF FilesInv, CollectionIsPrefix
  <2>6. RunsInv'
    BY <2>1, <2>3 DEF RunsInv, Live
  <2>7. KidsInv'
    BY <2>1, <2>3 DEF KidsInv
  <2>8. EarlyInv'
    <3>1. CASE w = run /\ probe = 1 /\ phase = "starting"
      BY <2>1, <2>3, <3>1 DEF EarlyInv, MemlatTime, TypeOK
    <3>2. CASE ~ (w = run /\ probe = 1 /\ phase = "starting")
      <4>1. early' = early
        BY <3>2, Zenon DEF TypeOK
      <4>2. early /\ phase # "none" => w # run
        BY DEF EarlyInv
      <4>3. phase # "none" => run \in Runs
        BY DEF TypeOK, FilesInv, RunsInv, Runs
      <4> QED
        BY <2>3, <4>1, <4>2, <4>3 DEF EarlyInv, MemlatTime
    <3> QED
      BY <3>1, <3>2
  <2> QED
    BY <2>4, <2>5, <2>6, <2>7, <2>8
<1>2. CASE OutputFails(w)
  <2> DEFINE l == [load[w] EXCEPT !.script = "died"]
  <2>1. /\ l \in Loads /\ l.script = "died" /\ l.kids = load[w].kids
        /\ l.termed = load[w].termed /\ l.rest = load[w].rest /\ load' = [load EXCEPT ![w] = l]
    BY <1>0, <1>2 DEF Loads, OutputFails
  <2>2. l.kids = {}
    BY <1>2, <2>1 DEF OutputFails, IInv, KidsInv
  <2> HIDE DEF l
  <2> QED
    BY <1>0, <1>2, <2>1, <2>2, LoadIInv DEF OutputFails
<1>3. CASE SleepEnds(w)
  <2>1. CASE load[w].rest = Invalid
    <3> DEFINE l == [load[w] EXCEPT !.script = "died"]
    <3>1. /\ l \in Loads /\ l.script = "died" /\ l.kids = load[w].kids
          /\ l.termed = load[w].termed /\ l.rest = load[w].rest
          /\ load' = [load EXCEPT ![w] = l]
      BY <1>0, <1>3, <2>1 DEF Loads, SleepEnds, Invalid
    <3>2. SleepTime(dur[w]) = Invalid
      BY <1>3, <2>1 DEF SleepEnds, IInv, KidsInv
    <3>3. load[w].script = "sleeping" /\ UNCHANGED <<weekVars, collectVars, files, abandoned>>
      BY <1>3 DEF SleepEnds
    <3> HIDE DEF l
    <3> QED
      BY <1>0, <3>1, <3>2, <3>3, LoadIInv
  <2>2. CASE load[w].rest # Invalid
    <3> DEFINE l == [load[w] EXCEPT !.script = "waiting", !.termed = Recorded(load[w].kids)]
    <3>1. /\ l \in Loads /\ l.script = "waiting" /\ l.kids = load[w].kids
          /\ l.termed = load[w].kids /\ l.rest = load[w].rest
          /\ load' = [load EXCEPT ![w] = l]
      BY <1>0, <1>3, <2>2 DEF Loads, SleepEnds, Recorded
    <3> HIDE DEF l
    <3> QED
      BY <1>0, <1>3, <3>1, LoadIInv DEF SleepEnds
  <2> QED
    BY <2>1, <2>2
<1>4. CASE ScriptEnds(w)
  <2> DEFINE l == [load[w] EXCEPT !.script = "ended"]
  <2>1. /\ l \in Loads /\ l.script = "ended" /\ l.kids = load[w].kids
        /\ l.termed = load[w].termed /\ l.rest = load[w].rest /\ load' = [load EXCEPT ![w] = l]
    BY <1>0, <1>4 DEF Loads, ScriptEnds
  <2> HIDE DEF l
  <2> QED
    BY <1>0, <1>4, <2>1, LoadIInv DEF ScriptEnds, ChildrenGone
<1> QED
  BY <1>1, <1>2, <1>3, <1>4 DEF ScriptSteps

LEMMA JobIInv ==
  ASSUME IInv, NEW w \in Runs, NEW j \in Jobs, JobSteps(w, j)
  PROVE  IInv'
<1>0. /\ load \in [Runs -> Loads] /\ load[w] \in Loads
      /\ load[w].termed \subseteq load[w].kids
      /\ load[w].script \in {"off", "starting", "ended"} => load[w].kids = {}
      /\ load[w].script = "died" /\ load[w].kids # {} => SleepTime(dur[w]) = Invalid
  BY DEF IInv, TypeOK, KidsInv
<1>1. ASSUME NEW l \in Loads, load' = [load EXCEPT ![w] = l],
             l.script = load[w].script, l.rest = load[w].rest,
             l.kids \subseteq load[w].kids, l.termed \subseteq l.kids,
             UNCHANGED <<weekVars, collectVars, files, abandoned>>
      PROVE  IInv'
  BY <1>0, <1>1, LoadIInv
<1>2. CASE JobDies(w, j)
  <2> DEFINE l == [load[w] EXCEPT !.kids = @ \ {j}, !.termed = @ \ {j}]
  <2>1. /\ l \in Loads /\ load' = [load EXCEPT ![w] = l]
        /\ l.script = load[w].script /\ l.rest = load[w].rest
        /\ l.kids = load[w].kids \ {j} /\ l.termed = load[w].termed \ {j}
    BY <1>0, <1>2 DEF JobDies, Loads
  <2> HIDE DEF l
  <2> QED
    BY <1>0, <1>1, <1>2, <2>1 DEF JobDies
<1>3. CASE WorkEnds(w, j)
  <2> DEFINE l == [load[w] EXCEPT !.work = @ \ {j}, !.kids = @ \ {j}, !.termed = @ \ {j}]
  <2>1. /\ l \in Loads /\ load' = [load EXCEPT ![w] = l]
        /\ l.script = load[w].script /\ l.rest = load[w].rest
        /\ l.kids = load[w].kids \ {j} /\ l.termed = load[w].termed \ {j}
    BY <1>0, <1>3 DEF WorkEnds, Loads
  <2> HIDE DEF l
  <2> QED
    BY <1>0, <1>1, <1>3, <2>1 DEF WorkEnds
<1>4. CASE /\ MemStarts(w)
          /\ load' = [load EXCEPT ![w].kids = @ \ {"mem"}, ![w].termed = @ \ {"mem"}]
  <2> DEFINE l == [load[w] EXCEPT !.kids = @ \ {"mem"}, !.termed = @ \ {"mem"}]
  <2>1. /\ l \in Loads /\ load' = [load EXCEPT ![w] = l]
        /\ l.script = load[w].script /\ l.rest = load[w].rest
        /\ l.kids = load[w].kids \ {"mem"} /\ l.termed = load[w].termed \ {"mem"}
    <3>1. l \in Loads
      BY <1>0 DEF Loads
    <3>2. load' = [load EXCEPT ![w] = l]
      BY <1>4
    <3>3. /\ l.script = load[w].script /\ l.rest = load[w].rest
          /\ l.kids = load[w].kids \ {"mem"} /\ l.termed = load[w].termed \ {"mem"}
      BY <1>0 DEF Loads
    <3> QED
      BY <3>1, <3>2, <3>3
  <2> HIDE DEF l
  <2> QED
    BY <1>0, <1>1, <1>4, <2>1 DEF MemStarts
<1>5. CASE /\ MemStarts(w)
          /\ load' = [load EXCEPT ![w].work = @ \cup {"mem"}, ![w].memRest = MemTime(dur[w])]
  <2> DEFINE l == [load[w] EXCEPT !.work = @ \cup {"mem"}, !.memRest = MemTime(dur[w])]
  <2>1. /\ l \in Loads /\ load' = [load EXCEPT ![w] = l]
        /\ l.script = load[w].script /\ l.rest = load[w].rest
        /\ l.kids = load[w].kids /\ l.termed = load[w].termed
    <3>1. l \in Loads
      BY <1>0, Times DEF Loads
    <3>2. load' = [load EXCEPT ![w] = l]
      BY <1>5
    <3>3. /\ l.script = load[w].script /\ l.rest = load[w].rest
          /\ l.kids = load[w].kids /\ l.termed = load[w].termed
      BY <1>0 DEF Loads
    <3> QED
      BY <3>1, <3>2, <3>3
  <2> HIDE DEF l
  <2> QED
    BY <1>0, <1>1, <1>5, <2>1 DEF MemStarts
<1>6. CASE /\ MemStarts(w)
          /\ load' = [load EXCEPT ![w].work = @ \cup {"mem"}]
  <2> DEFINE l == [load[w] EXCEPT !.work = @ \cup {"mem"}]
  <2>1. /\ l \in Loads /\ load' = [load EXCEPT ![w] = l]
        /\ l.script = load[w].script /\ l.rest = load[w].rest
        /\ l.kids = load[w].kids /\ l.termed = load[w].termed
    <3>1. l \in Loads
      BY <1>0 DEF Loads
    <3>2. load' = [load EXCEPT ![w] = l]
      BY <1>6
    <3>3. /\ l.script = load[w].script /\ l.rest = load[w].rest
          /\ l.kids = load[w].kids /\ l.termed = load[w].termed
      BY <1>0 DEF Loads
    <3> QED
      BY <3>1, <3>2, <3>3
  <2> HIDE DEF l
  <2> QED
    BY <1>0, <1>1, <1>6, <2>1 DEF MemStarts
<1> QED
  BY <1>2, <1>3, <1>4, <1>5, <1>6 DEF JobSteps, MemStarts

----------------------------------------------------------------------------
\* Time passes for the probe and for the sleep beside it alike.
LEMMA TickIInv == IInv /\ Tick => IInv'
<1> SUFFICES ASSUME IInv, Tick PROVE IInv'
  OBVIOUS
<1> USE Times DEF IInv, weekVars
<1>0. left' = Less(left) /\ UNCHANGED <<weekVars, probe, phase, early, files, abandoned>>
  BY DEF Tick
<1> USE <1>0
<1>1. \A w \in Runs :
        /\ load'[w] \in Loads
        /\ load'[w].script = load[w].script /\ load'[w].kids = load[w].kids
        /\ load'[w].termed = load[w].termed /\ load'[w].rest = Less(load[w].rest)
  <2> TAKE w \in Runs
  <2>1. load[w] \in Loads
    BY DEF TypeOK
  <2> DEFINE rest == Less(load[w].rest)
             memRest == Less(load[w].memRest)
  <2>2. load'[w] = [load[w] EXCEPT !.rest = rest, !.memRest = memRest]
    BY DEF Tick
  <2>3. rest \in Nat \cup {Invalid} /\ memRest \in Nat \cup {Invalid}
    BY <2>1 DEF Loads
  <2>4. rest = Less(load[w].rest)
    OBVIOUS
  <2> HIDE DEF rest, memRest
  <2> QED
    BY <2>1, <2>2, <2>3, <2>4 DEF Loads
<1>2. load' \in [Runs -> Loads]
  BY <1>1 DEF Tick
<1>3. left' \in 0 .. ProbeTime
  BY DEF TypeOK, Less
<1>4. TypeOK'
  BY <1>1, <1>2, <1>3 DEF TypeOK
<1>5. FilesInv'
  BY DEF FilesInv, CollectionIsPrefix
<1>6. RunsInv'
  BY <1>1 DEF RunsInv, Live
<1>7. KidsInv'
  <2>1. \A n \in Nat \cup {Invalid} : Less(n) = Invalid => n = Invalid
    BY DEF Less, Invalid
  <2>2. \A w \in Runs : load[w].rest \in Nat \cup {Invalid}
    BY DEF TypeOK, Loads
  <2> QED
    BY <1>1, <2>1, <2>2 DEF KidsInv
<1>8. EarlyInv'
  <2> SUFFICES ASSUME early, phase # "none"
               PROVE  /\ load'[run].script \notin {"off", "starting"}
                      /\ SleepTime(dur[run]) = ProbeTime => load'[run].rest \in 0 .. MemlatTime'
    BY DEF EarlyInv
  <2>1. run \in Runs
    BY DEF TypeOK, FilesInv, RunsInv, Runs
  <2>2. \A n, m \in Nat : n <= m => Less(n) \in 0 .. Less(m) /\ Less(n) \in 0 .. m
    BY DEF Less
  <2>3. /\ load[run].script \notin {"off", "starting"}
        /\ SleepTime(dur[run]) = ProbeTime => load[run].rest \in 0 .. MemlatTime
    BY DEF EarlyInv
  <2>4. MemlatTime \in Nat /\ MemlatTime' \in {MemlatTime, Less(MemlatTime)}
    BY DEF MemlatTime, TypeOK
  <2> QED
    BY <1>1, <2>1, <2>2, <2>3, <2>4
<1> QED
  BY <1>4, <1>5, <1>6, <1>7, <1>8

LEMMA NextIInv == IInv /\ [Next]_vars => IInv'
<1> SUFFICES ASSUME IInv, [Next]_vars PROVE IInv'
  OBVIOUS
<1>1. CASE (\E d \in Durations : Start(d)) \/ WeekSteps \/ Interrupt
  BY <1>1, WeekIInv DEF WeekSteps
<1>2. CASE ProbeSteps
  BY <1>2, ProbeIInv
<1>3. CASE \E w \in Runs : ScriptSteps(w) \/ \E j \in Jobs : JobSteps(w, j)
  BY <1>3, ScriptIInv, JobIInv
<1>4. CASE Tick
  BY <1>4, TickIInv
<1>5. CASE UNCHANGED vars
  <2> USE <1>5 DEF vars, weekVars, collectVars
  <2>1. TypeOK' /\ FilesInv'
    BY DEF IInv, TypeOK, FilesInv, CollectionIsPrefix
  <2>2. RunsInv' /\ KidsInv' /\ EarlyInv'
    BY DEF IInv, RunsInv, KidsInv, EarlyInv, Live, MemlatTime
  <2> QED
    BY <2>1, <2>2 DEF IInv
<1> QED
  BY <1>1, <1>2, <1>3, <1>4, <1>5 DEF Next

\* IInv is inductive.
THEOREM CollectionInvariant == Spec => []IInv
BY InitIInv, NextIInv, PTL DEF Spec

\* The scripts' variables keep their types.
THEOREM CollectionTypes == Spec => []TypeOK
<1>1. IInv => TypeOK
  BY DEF IInv
<1> QED
  BY <1>1, CollectionInvariant, PTL

\* collect_all.sh under set -e leaves both files of every probe before the one
\* it stopped at.
THEOREM CollectionFilesArePrefix == Spec => []CollectionIsPrefix
<1>1. IInv => CollectionIsPrefix
  BY DEF IInv, FilesInv
<1> QED
  BY <1>1, CollectionInvariant, PTL

\* Two run_workload.sh are alive at once only when week3_run3.sh abandoned the
\* earlier one.
THEOREM CollectionOneWorkload == Spec => []OneWorkload
<1>1. IInv => OneWorkload
  BY DEF IInv, RunsInv, OneWorkload
<1> QED
  BY <1>1, CollectionInvariant, PTL

\* Busy loops outlive run_workload.sh only when sleep refused its argument.
THEOREM CollectionSpinners == Spec => []SpinnersOutliveOnlyBadSleep
<1>1. IInv => SpinnersOutliveOnlyBadSleep
  BY DEF IInv, KidsInv, SpinnersOutliveOnlyBadSleep
<1> QED
  BY <1>1, CollectionInvariant, PTL

\* A workload that began before memlat collected has slept its time before
\* runqlat starts.
THEOREM CollectionLoadEnds == Spec => []LoadEndsWithMemlat
<1>1. IInv => LoadEndsWithMemlat
  BY DEF IInv, EarlyInv, LoadEndsWithMemlat, MemlatTime
<1> QED
  BY <1>1, CollectionInvariant, PTL
=============================================================================
