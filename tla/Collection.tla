---------------------------- MODULE Collection ----------------------------
(***************************************************************************)
(* The collection scripts.  week3_run3.sh runs Iterations times            *)
(* run_workload.sh in the background and collect_all.sh in the foreground, *)
(* and then waits for the workload.  collect_all.sh runs the three probes  *)
(* one after the other.  run_workload.sh starts CPU, I/O and memory jobs,  *)
(* sleeps, and kills the subshells it started.  All are under set -e; the  *)
(* user may interrupt week3_run3.sh and may start it again after it has    *)
(* ended.  Time is what sleeps and collections take; between two timed     *)
(* waits a process may be delayed for any time.                            *)
(***************************************************************************)
EXTENDS Integers, FiniteSets

CONSTANTS
  Spinners,       \* the CPU_JOBS busy loops
  Iterations,     \* runs of the loop in week3_run3.sh: 3
  MaxRuns,        \* bound: runs in one behaviour, over all starts of the script
  Durations,      \* the DUR the user passes: see the three conversions
  ProbeTime       \* how long a probe collects for any of them

ASSUME CollectionAssumption ==
  /\ IsFiniteSet(Spinners) /\ {"dd", "mem"} \cap Spinners = {}
  /\ {Iterations, MaxRuns, ProbeTime} \subseteq Nat \ {0}
  /\ Durations \subseteq {"30s", "2m", "1m30s", "500ms"}

VARIABLES
  week,        \* week3_run3.sh: "idle", "meta", "collecting" or "waiting"
  iteration,   \* i of its loop
  run,         \* the current run, numbered over all starts
  dur,         \* DUR of each run
  probe,       \* collect_all.sh: the probe it is at
  phase,       \* of that probe: "none", "starting" or "collecting"
  left,        \* time that probe still collects
  early,       \* history: this run's workload began before memlat collected
  files,       \* those of each probe in the current run's directory
  load,        \* run -> state of its run_workload.sh
  abandoned    \* history: runs whose collection failed or was interrupted

weekVars == <<week, iteration, run, dur>>
collectVars == <<probe, phase, left, early>>
vars == <<weekVars, collectVars, files, load, abandoned>>

Runs == 1 .. MaxRuns
Probes == <<"memlat", "runqlat", "iolat">>
Jobs == Spinners \cup {"dd", "mem"}
Invalid == -1

\* dur_s="${DUR%s}", which run_workload.sh gets.
dur_s(d) == CASE d = "30s" -> "30"
              [] d = "1m30s" -> "1m30"
              [] d = "500ms" -> "500m"
              [] OTHER -> d

\* sleep takes 500m for minutes, which no probe collects for, and refuses 1m30.
SleepTime(d) == CASE dur_s(d) = "500m" -> 2 * ProbeTime
                  [] dur_s(d) = "1m30" -> Invalid
                  [] OTHER -> ProbeTime

\* int("${DUR}") of workload_pf.sh, which only takes a number.
MemTime(d) == IF dur_s(d) = "30" THEN ProbeTime ELSE Invalid

\* script: "off", "starting", "sleeping", "waiting", "ended" or "died"; kids: the
\* subshells it started that are alive; termed: those with a signal pending;
\* work: the dd and python processes below them; rest and memRest: the time
\* its sleep and python take yet.
NoLoad == [script |-> "off", kids |-> {}, termed |-> {}, work |-> {},
           rest |-> 0, memRest |-> 0]

NoFiles == [p \in 1 .. 3 |-> "none"]

Init ==
  /\ week = "idle" /\ iteration = 0 /\ run = 0
  /\ dur = [w \in Runs |-> "30s"]
  /\ probe = 1 /\ phase = "none" /\ left = 0 /\ early = FALSE
  /\ files = NoFiles
  /\ load = [w \in Runs |-> NoLoad]
  /\ abandoned = {}

----------------------------------------------------------------------------
(* week3_run3.sh                                                           *)

\* The next run, in a directory of its own.
NextRun(i, d) ==
  /\ run < MaxRuns
  /\ run' = run + 1
  /\ dur' = [dur EXCEPT ![run + 1] = d]
  /\ iteration' = i
  /\ week' = "meta"
  /\ files' = NoFiles

\* The user starts the script.
Start(d) ==
  /\ week = "idle"
  /\ NextRun(1, d)
  /\ UNCHANGED <<collectVars, load, abandoned>>

\* save_meta.sh succeeds, the workload goes to the background, collect_all.sh
\* begins with the first probe.  (The mutant overwrites DUR, of which the probes
\* and the next run get theirs, with dur_s.)
SaveMeta_overwrites ==
  /\ week = "meta"
  /\ week' = "collecting"
  /\ dur' = [dur EXCEPT ![run] = dur_s(@)]
  /\ load' = [load EXCEPT ![run].script = "starting"]
  /\ probe' = 1 /\ phase' = "starting" /\ left' = 0 /\ early' = FALSE
  /\ UNCHANGED <<iteration, run, files, abandoned>>
SaveMeta ==
  /\ week = "meta"
  /\ week' = "collecting"
  /\ load' = [load EXCEPT ![run].script = "starting"]
  /\ probe' = 1 /\ phase' = "starting" /\ left' = 0 /\ early' = FALSE
  /\ UNCHANGED <<iteration, run, dur, files, abandoned>>

\* set -e, or the user's interrupt, which background jobs ignore.
Abandon ==
  /\ week' = "idle" /\ phase' = "none" /\ left' = 0 /\ early' = FALSE
  /\ abandoned' = abandoned \cup {run}
  /\ UNCHANGED <<iteration, run, dur, probe, load>>

MetaFails == week = "meta" /\ Abandon /\ UNCHANGED files

\* wait "$WL_PID": the workload of this run has ended, however it did.  (The
\* mutant does not wait.)
WaitOver_at_once == TRUE
WaitOver == load[run].script \in {"ended", "died"}

WaitEnds ==
  /\ week = "waiting" /\ WaitOver
  /\ IF iteration < Iterations
       THEN NextRun(iteration + 1, dur[run])
       ELSE week' = "idle" /\ UNCHANGED <<iteration, run, dur, files>>
  /\ UNCHANGED <<collectVars, load, abandoned>>

\* Ctrl-C ends the script and the probe it is at, wherever that stands.
Interrupt ==
  /\ week # "idle"
  /\ Abandon
  /\ \/ UNCHANGED files
     \/ /\ phase = "collecting" /\ left = 0
        /\ \E saved \in {"csv", "both"} : files' = [files EXCEPT ![probe] = saved]

----------------------------------------------------------------------------
(* collect_all.sh                                                          *)

\* The probe loads and attaches its programs, and collects for its duration.
\* (The mutant does not.)
Attach_no_wait ==
  /\ phase = "starting"
  /\ phase' = "collecting" /\ left' = 0
  /\ UNCHANGED <<weekVars, probe, early, files, load, abandoned>>
Attach ==
  /\ phase = "starting"
  /\ phase' = "collecting" /\ left' = ProbeTime
  /\ UNCHANGED <<weekVars, probe, early, files, load, abandoned>>

\* Its time is up: it saves its files, and the next probe has its turn.
SaveFiles ==
  /\ phase = "collecting" /\ left = 0
  /\ files' = [files EXCEPT ![probe] = "both"]
  /\ IF probe < 3
       THEN probe' = probe + 1 /\ phase' = "starting" /\ UNCHANGED week
       ELSE phase' = "none" /\ week' = "waiting" /\ UNCHANGED probe
  /\ UNCHANGED <<iteration, run, dur, left, early, load, abandoned>>

\* It exits with an error: nothing attached, or one file or none saved; set -e
\* ends collect_all.sh and the script that called it.  (The mutant goes on
\* with the next probe.)
ProbeFails_goes_on(saved) ==
  /\ IF phase = "collecting" THEN left = 0 ELSE phase = "starting" /\ saved = "none"
  /\ files' = [files EXCEPT ![probe] = saved]
  /\ IF probe < 3
       THEN probe' = probe + 1 /\ phase' = "starting" /\ UNCHANGED week
       ELSE phase' = "none" /\ week' = "waiting" /\ UNCHANGED probe
  /\ left' = 0
  /\ UNCHANGED <<iteration, run, dur, early, load, abandoned>>
ProbeFails(saved) ==
  /\ IF phase = "collecting" THEN left = 0 ELSE phase = "starting" /\ saved = "none"
  /\ files' = [files EXCEPT ![probe] = saved]
  /\ Abandon

----------------------------------------------------------------------------
(* run_workload.sh of run w                                                *)

\* The children whose pid is recorded.  (The mutant assigns where it should
\* append.)
Recorded_last(kids) == kids \cap {"mem"}
Recorded(kids) == kids

\* The jobs are started, and their pids recorded; or there is no directory for
\* the output.
StartJobs(w) ==
  /\ load[w].script = "starting"
  /\ load' = [load EXCEPT ![w] =
       [@ EXCEPT !.script = "sleeping", !.kids = Jobs, !.work = {"dd"},
                 !.rest = SleepTime(dur[w])]]
  /\ early' = (early \/ (w = run /\ probe = 1 /\ phase = "starting"))
  /\ UNCHANGED <<weekVars, probe, phase, left, files, abandoned>>

OutputFails(w) ==
  /\ load[w].script = "starting"
  /\ load' = [load EXCEPT ![w].script = "died"]
  /\ UNCHANGED <<weekVars, collectVars, files, abandoned>>

\* sleep returns, and every recorded subshell that is still there gets a
\* signal; if sleep refuses its argument, set -e ends the script.
SleepEnds(w) ==
  /\ load[w].script = "sleeping"
  /\ \/ /\ load[w].rest = Invalid
        /\ load' = [load EXCEPT ![w].script = "died"]
     \/ /\ load[w].rest = 0
        /\ load' = [load EXCEPT ![w].script = "waiting",
                                ![w].termed = Recorded(load[w].kids)]
  /\ UNCHANGED <<weekVars, collectVars, files, abandoned>>

\* wait, for all its children.  (The mutant does not.)
ChildrenGone_unchecked(w) == TRUE
ChildrenGone(w) == load[w].kids = {}

ScriptEnds(w) ==
  /\ load[w].script = "waiting" /\ ChildrenGone(w)
  /\ load' = [load EXCEPT ![w].script = "ended"]
  /\ UNCHANGED <<weekVars, collectVars, files, abandoned>>

\* A signal ends a subshell, not the dd or python it waits for.
JobDies(w, j) ==
  /\ j \in load[w].termed
  /\ load' = [load EXCEPT ![w].kids = @ \ {j}, ![w].termed = @ \ {j}]
  /\ UNCHANGED <<weekVars, collectVars, files, abandoned>>

\* workload_pf.sh starts python, which refuses a DUR that is no number; without
\* workload_pf.sh, dd and cat take no DUR and are done when they are done.
MemStarts(w) ==
  /\ "mem" \in load[w].kids \ load[w].work /\ load[w].memRest = 0
  /\ \/ load' = [load EXCEPT ![w].work = @ \cup {"mem"}]
     \/ /\ MemTime(dur[w]) = Invalid
        /\ load' = [load EXCEPT ![w].kids = @ \ {"mem"}, ![w].termed = @ \ {"mem"}]
     \/ /\ MemTime(dur[w]) # Invalid
        /\ load' = [load EXCEPT ![w].work = @ \cup {"mem"}, ![w].memRest = MemTime(dur[w])]
  /\ UNCHANGED <<weekVars, collectVars, files, abandoned>>

\* dd has written its file, or python's time is up; its subshell, if it is
\* still there, ends with it.
WorkEnds(w, j) ==
  /\ j \in load[w].work /\ (j = "mem" => load[w].memRest = 0)
  /\ load' = [load EXCEPT ![w].work = @ \ {j}, ![w].kids = @ \ {j}, ![w].termed = @ \ {j}]
  /\ UNCHANGED <<weekVars, collectVars, files, abandoned>>

----------------------------------------------------------------------------
\* Time passes for every process that waits for it.
Less(n) == IF n > 0 THEN n - 1 ELSE n

Tick ==
  /\ left > 0 \/ \E w \in Runs : load[w].rest > 0 \/ load[w].memRest > 0
  /\ left' = Less(left)
  /\ load' = [w \in Runs |-> [load[w] EXCEPT
       !.rest = Less(@), !.memRest = Less(@)]]
  /\ UNCHANGED <<weekVars, probe, phase, early, files, abandoned>>

\* Everything week3_run3.sh, collect_all.sh and the workload of run w do.
WeekSteps == SaveMeta \/ MetaFails \/ WaitEnds
ProbeSteps == Attach \/ SaveFiles \/ \E saved \in {"none", "csv"} : ProbeFails(saved)
ScriptSteps(w) ==
  StartJobs(w) \/ OutputFails(w) \/ SleepEnds(w) \/ ScriptEnds(w)
JobSteps(w, j) == JobDies(w, j) \/ WorkEnds(w, j) \/ (j = "mem" /\ MemStarts(w))

Next ==
  \/ \E d \in Durations : Start(d)
  \/ Interrupt
  \/ WeekSteps
  \/ ProbeSteps
  \/ \E w \in Runs : ScriptSteps(w) \/ \E j \in Jobs : JobSteps(w, j)
  \/ Tick

\* Each process goes on when it can, and time passes; nobody need start the
\* script or interrupt it.
Fairness ==
  /\ WF_vars(WeekSteps) /\ WF_vars(ProbeSteps) /\ WF_vars(Tick)
  /\ \A w \in Runs : WF_vars(ScriptSteps(w)) /\ \A j \in Jobs : WF_vars(JobSteps(w, j))

Spec == Init /\ [][Next]_vars /\ Fairness

----------------------------------------------------------------------------
(* Properties                                                              *)

Loads ==
  [script : {"off", "starting", "sleeping", "waiting", "ended", "died"},
   kids : SUBSET Jobs, termed : SUBSET Jobs, work : SUBSET {"dd", "mem"},
   rest : Nat \cup {Invalid}, memRest : Nat \cup {Invalid}]

\* The variables have the types their declarations give: every run has a DUR that
\* the user can pass, and only live subshells have a signal pending.
TypeOK ==
  /\ week \in {"idle", "meta", "collecting", "waiting"}
  /\ iteration \in 0 .. Iterations /\ run \in 0 .. MaxRuns
  /\ dur \in [Runs -> Durations \cup {"30s"}]
  /\ probe \in 1 .. 3 /\ phase \in {"none", "starting", "collecting"}
  /\ left \in 0 .. ProbeTime /\ early \in BOOLEAN
  /\ files \in [1 .. 3 -> {"none", "csv", "both"}]
  /\ load \in [Runs -> Loads]
  /\ abandoned \subseteq Runs
  /\ \A w \in Runs : load[w].termed \subseteq load[w].kids

\* set -e: a directory with files of a probe has both files of every earlier
\* one, and a run that only waits to be reported done has all six, whatever
\* failed, was interrupted or was started again.
CollectionIsPrefix ==
  /\ \A p \in 2 .. 3 : files[p] # "none" => files[p - 1] = "both"
  /\ week = "waiting" => files[3] = "both"

Live(w) == load[w].script \in {"starting", "sleeping", "waiting"}

\* Only one workload script runs at a time, unless a collection failed or was
\* interrupted: only then is its workload not waited for, and a script started
\* again measures under two.
OneWorkload == \A w \in Runs : Live(w) /\ w < run => w \in abandoned

\* Busy loops outlive the script that started them only when sleep refused the
\* duration: in every other case the kill loop and the wait have ended them.
\* dd and python may outlive it, for the kill ends only their subshells.
SpinnersOutliveOnlyBadSleep ==
  \A w \in Runs : load[w].script \in {"ended", "died"} /\ load[w].kids \cap Spinners # {}
                    => SleepTime(dur[w]) = Invalid

\* The workload lasts for one probe, the collection for three: when a workload
\* whose sleep began before memlat collected is as long as its collection, its
\* time is up before runqlat or iolat collect, however the processes are
\* scheduled.
LoadEndsWithMemlat ==
  probe > 1 /\ phase # "none" /\ early /\ SleepTime(dur[run]) = ProbeTime
    => load[run].rest = 0

\* The inductive invariant.  A probe only runs in a collection, after those
\* before it have saved both files;
FilesInv ==
  /\ (phase # "none") = (week = "collecting")
  /\ week = "meta" => files = NoFiles
  /\ week = "collecting" => \A p \in 1 .. 3 : files[p] = IF p < probe THEN "both" ELSE "none"
  /\ CollectionIsPrefix

\* workloads are started in the order of the runs, and what the script no
\* longer waits for was abandoned;
RunsInv ==
  /\ week # "idle" => run > 0
  /\ \A w \in Runs :
       /\ w > run \/ (w = run /\ week = "meta") => load[w].script = "off"
       /\ Live(w) /\ (w < run \/ week = "idle") => w \in abandoned

\* a workload script that ended without its children stopped at sleep;
KidsInv ==
  \A w \in Runs :
    /\ load[w].script \in {"off", "starting", "ended"} => load[w].kids = {}
    /\ load[w].script = "sleeping" /\ load[w].rest = Invalid => SleepTime(dur[w]) = Invalid
    /\ load[w].script = "died" /\ load[w].kids # {} => SleepTime(dur[w]) = Invalid

\* and one that began first never has more to sleep than memlat to collect.
MemlatTime == IF probe > 1 THEN 0 ELSE IF phase = "starting" THEN ProbeTime ELSE left
EarlyInv ==
  early /\ phase # "none" =>
    /\ load[run].script \notin {"off", "starting"}
    /\ SleepTime(dur[run]) = ProbeTime => load[run].rest \in 0 .. MemlatTime

IInv == TypeOK /\ FilesInv /\ RunsInv /\ KidsInv /\ EarlyInv

\* Once started, a workload whose sleep takes its duration is gone at last,
\* with every process below it, whatever becomes of the collection.
LoadsEnd ==
  \A w \in Runs :
    load[w].script # "off" /\ SleepTime(dur[w]) # Invalid
      ~> load[w].script \in {"ended", "died"} /\ load[w].kids = {} /\ load[w].work = {}
============================================================================
