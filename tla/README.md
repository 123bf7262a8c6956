# Verification of ebpf-toy

TLA+ models of the three latency probes of this repository, their loaders and
the scripts that run them, the TLC runs that check them on small instances, and
TLAPS proofs for every value of the constants. The repository is `src/` in the paths below.

## The system

Three tools share one shape. A BPF program records the start of an operation in
the hash map `start_ts`; another finds the start when the operation ends, turns
the time between into a log2 bucket and adds one to the array `hist`; a Go
loader attaches both, sleeps, reads `hist` and reports.

| component | source | state | operations | what makes it hard |
|---|---|---|---|---|
| memlat probe | `bpf/memlat.bpf.c` | `start_ts` by thread, shared `hist` | `memlat_entry`, `memlat_exit` | parallel threads, unseen entries and returns, full map |
| runqlat probe | `bpf/runqlat.bpf.c` | `start_ts` by tid, per-CPU `hist` | `runqlat_wakeup`, `runqlat_switch` | a wakeup before the task has left its CPU, reuse of tids, an increment that is not atomic |
| iolat probe | `bpf/iolat.bpf.c` | `start_ts` by request address, shared `hist` | `iolat_issue`, `iolat_complete` | requeues, completion in parts, reuse of addresses |
| bucket functions | the three `.bpf.c` | locals | three different loops | boundaries, zero, clamping, termination |
| loaders | `cmd/*/main.go` | the attached programs, the counts read | load, attach twice, sleep, read, save, detach | the programs run while it attaches, reads and detaches; error exits |
| collection scripts | `scripts/*.sh` | processes, files | run the probes in turn, a workload beside them | who runs when, early exits, orphans |
| bindings, `vmlinux.h`, Makefile | generated or build | none | none | not modelled |

They interact through the kernel only: the programs of a probe share their maps
with each other and with their loader, which reads them by system call. There is
no locking: correctness rests on who may touch a key (a thread, the holder of a
run queue lock, the owner of a request), on atomic or per-CPU counting, and on
the order in which programs are attached.

What makes each component correct:

* a probe: a count in a bucket stands for an operation that took that long
  (nothing invented); an operation that was seen to start is counted (nothing
  lost) or its absence has a cause; a start does not outlive its operation;
* the bucket functions: the bucket's range contains the value, and it is a slot;
* a loader: the report is the histogram of the collection, bucket by bucket,
  and the two files it saves belong together;
* the scripts: a directory holds the files of the first probes, one workload
  runs at a time, and nothing of it survives, with the exceptions the
  properties name.

The hazards, each at its line, are listed in `PROJECT.json`.

## Modules

| module | models | depends on |
|---|---|---|
| `BpfMaps` | the map helpers as the probes use them (external: the kernel) | |
| `Log2Buckets` | the three bucket functions as operators, and a bucket's range | |
| `Log2Loop` | the three loops, an iteration at a time | `Log2Buckets` |
| `Session` | `main()` of the loaders, whatever the histogram | |
| `LatencyRecorder` | what a probe promises: the abstract specification | |
| `MemLat`, `RunqLat`, `IoLat` | a probe, its loader and its part of the kernel; `Recorder`, its refinement mapping | `Session`, `BpfMaps`, `Log2Buckets`, `LatencyRecorder` |
| `Output` | the files the loaders save | |
| `Collection` | the scripts as processes | |
| `MCMemLat`, `MCRunqLat`, `MCIoLat`, `MCOutput` | instances for TLC | the modules they name |
| `SumsAndPowers` | facts about sums of functions and powers of two, for the proofs | |
| `SessionProofs`, `MemLatProofs`, `RunqLatProofs`, `IoLatProofs`, `Log2LoopProofs`, `OutputProofs`, `CollectionProofs` | proofs | the modules they prove about, `SumsAndPowers` |

`MemLat`: a thread is outside `handle_mm_fault`, in it, or in the exit program
between its delete and its add. Entering and leaving run the programs if they
are attached and the kernel does run them; a kretprobe follows a call only if it
was attached when the call entered and an instance was free. `memlat_exit` is
two steps, because another CPU can add to the same cell in between; the lookup,
delete and conversion touch only the thread's own element and are one.

`RunqLat`: tasks are asleep, queued, running or dead, and `sleepy` when their
state is not `TASK_RUNNING`, which is what `try_to_wake_up` tests. So a wakeup
can find a task asleep, preempted on its way to sleep, or still on its CPU, and
`sched_wakeup` is traced in all three. A tid of a dead task can be forked again,
with `sched_wakeup_new`, which nothing traces. `runqlat_switch` takes four
steps per CPU: up to the bucket, load, store, delete. While it has a task in hand its CPU
holds the run queue lock, so nothing else happens to that task.

`IoLat`: a request address is free, ready or issued. A completion may be of a
part of the request, after which it is still issued or requeued. Before it is
issued a request can only fail as a whole. `iolat_complete` is three steps: up to the
bucket, add, delete.

`LatencyRecorder`: operations begin and end; one that was seen to begin gives
one sample of its true duration, or is a mishap; a sample is published in the
histogram once, and later; a sample of no such operation uses up a mishap. In
the refinement a call between the entry and the exit program, a wait since a
seen wakeup, a request since its last seen issue are the open operations;
`taken` is the histogram and the samples that a program has in hand; `lost`,
with `spurious` in `RunqLat`, is `mishaps`, and `phantom` is `strays`.

`Output`: a run of a program takes its target and a histogram, then makes the
directory, truncates the CSV, writes it row by row, truncates the summary and
writes that. A summary states the total; `OfRunqlat` adds the tail and the last
bucket to runqlat's, for the `Summary` of memlat and of iolat has neither.
`MkdirAll`, `Create` and `WriteFile` can fail and end the program;
`Fprintf` can fail and nobody notices; the process can be killed between any
two steps. The files stay, and a later run, perhaps of another program on a
target that shares a file, finds them: `memlat` uses `--out` as it is, the others
add `.csv` where it is missing and cut it off for the summary. The model keeps
the number of `.csv` suffixes of a name, and shifts in words of `WordBits`.

`Collection`: `week3_run3.sh` and `collect_all.sh` are one process in the
foreground; every run has a workload script in the background, with its
subshells and the `dd` and `python3` below them. Under `set -e` a failing probe
ends both foreground scripts; so does Ctrl-C, which background jobs ignore; the
user may then start again. A duration is read in three ways: by the probes, by
`sleep` after `${DUR%s}` (`dur_s`), by `int()` in `workload_pf.sh`; `SleepTime` and
`MemTime` say what becomes of it. The kill loop is one step: the subshells die
one by one afterwards, and `dd` and `python3` do not die of it. The memory job is
`workload_pf.sh` or, in a checkout without it, `dd` and `cat`, which take no
duration; the two are one process in turn.

History variables carry what the code does not know: `truth` (true durations of
operations that were seen to start), `lost` (those that gave no sample),
`phantom` (samples that end no operation seen to start), `spurious` (wakeups of
a task on a CPU), `slow` (samples above the tail threshold), `atWake` (the
histogram when the sleep ended). In `RunqLat` and `IoLat`, `woken` and `issued`
hold the true start of the operation in progress, or `Absent`.

Two abstractions are used throughout. The fatal errors of a loader lead to
`exited` whatever the message. `Lookup` of a per-CPU element is one step: the
kernel copies the CPUs' values one by one, but each grows by one at a time, so
the sum it yields is the sum at some moment of the copy.

## Runs

| run | shows | bounds |
|---|---|---|
| `memlat` | types, nothing invented, nothing lost, stale starts explained, report within the collection | 2 threads of one process, 2 buckets, 1 start, 1 kretprobe instance, clock to 4, 3 calls |
| `memlat_stale` | **violation**: a call that enters between the attachments leaves a start | as `memlat` |
| `runqlat` | nothing invented or lost with two CPUs counting at once, and the account over both is exact; the report; each start is its wait's | 2 CPUs, 2 tids, 2 buckets, 2 starts, clock 0 and 4, 2 seen wakeups |
| `runqlat_full` | the same accounting when one start fills the map; types; stale starts explained | 1 CPU, 2 tids, 1 start, clock 0, 1 and 4 |
| `runqlat_oncpu` | **violation**: with every switch seen, a sample that is no wait | as `runqlat_full` |
| `runqlat_tail` | **violation**: a tail event shorter than the threshold | as `runqlat_full` |
| `iolat` | the accounting under requeues, partial completions and reuse of addresses | 2 addresses, 2 buckets, 1 start, clock 0, 3 and 8, 3 seen issues |
| `iolat_stale` | **violation**: a request issued and completed between the attachments leaves a start | as `iolat` |
| `iolat_partial` | **violation**: a sample of a request with work left | as `iolat` |
| `output` | the row loop of a summary's CSV had ended, or the CSV is of a later run; "saved" means both files; unless a row was lost they agree, on the total for every tool, on tail and last bucket for runqlat; the rows tile the values | 2 runs of any program on `x` or `x.csv`, 3-bit words, 3, 3 and 2 buckets, counts 0 and 1 |
| `collection` | files of the first probes; one workload; what outlives a script and when; which probes see the workload; the workload ends | 2 runs in one start or two, 1 busy loop, durations `30s` and `1m30s`, one tick per collection |
| `log2` | the three loops return floor(log2) clamped, agree with the operators, use up a bound with every iteration, and end | every 8-bit value; 6 buckets for memlat, so that its `break` is reached, 8 for runqlat, one per bit as in the code, 4 for iolat, so that its clamp is |

`memlat`, `runqlat_full` and `iolat` also check `RecordsFaithfully`, that the probe
implements `LatencyRecorder`.

Why the bounds are enough for the cases that matter: two operations are what it
takes for one to interfere with another's key, map element or cell; a map of one
start is full as soon as one is stored; two buckets separate the lowest from the
clamped one, and the clock values reach a latency above the last bucket; three
calls, or two wakeups and any number of unseen events, let a start go stale, be
replaced, and be taken by a later operation. Unseen events are not bounded in
`RunqLat` and `IoLat`. Tids, CPUs and addresses are interchangeable, which
justifies the symmetry sets; no run with symmetry checks liveness, and the
abstract specification does not tell them apart either. In `output`, two runs
are what it takes for one to leave files to another, and the last bucket of a
3-bit word stands where bucket 63 does. In `collection`, two runs are what it
takes for a workload to meet the next one; `30s` is taken by every process,
`1m30s` is refused by `sleep` and by `int()`.

The five violations are disagreements between a document and the code, each
quoted under `findings`: start before end attachment (`memlat_design.md` and
`iolat_design.md`), on-CPU wakeups and the unit of the buckets
(`runqlat_design.md`, `runqlat/main.go`), partial completions (`iolat_design.md`).
In the saved summaries under `results/`, `tail_events` of runqlat equals
`total_events`, as `runqlat_tail` predicts.

Two more disagreements are plain in a definition and have no run of their own.
`runqlat_design.md:103-106` and `iolat_design.md:163-170` promise one schema for
all summaries, with `tail_events` and `max_bucket`; only runqlat's `Summary` has
them (`OfRunqlat`), so `SummaryFitsRows` speaks of them for runqlat alone.
`week3_run3.sh:21` says that the workload runs for the duration; `${DUR%s}` turns
`500ms` into `500m`, and `sleep` takes minutes (`dur_s`, `SleepTime`), for which
`LoadEndsWithMemlat` makes an exception.

What passes is weaker than those promises, and says by how much. Stale starts and
phantom samples are bounded by `lost`, which counts operations that found
`start_ts` full as well as unseen events, and in `RunqLat` by `spurious`. A failed
`Lookup` of runqlat may report zero; a row that `Fprintf` did not write is
nobody's error, and no property says that a saved CSV has every row; an older
summary may stay beside a newer CSV; a script started again after a failure
may meet the workload of the run that failed.

Each property of a passing run is tested by a mutant: a definition is replaced
by one with a plausible bug, kept next to it in its module, and TLC finds the property violated.

**Fairness.** `Log2Loop` assumes weak fairness of the loop's own steps, because a
BPF program runs to its end once started. `Collection` assumes it of each
process and of time, since the kernel schedules every process and `dd` writes a
bounded file; not of the user, who need not start or interrupt anything. The
probe specifications and `Output` have none, since page faults, wakeups and I/O need not
happen and the sleep may be of any length; they state safety only.

## Proofs

Every safety property that a passing run checks is also a theorem, for every
value of the constants.

`MemLatProofs`, `RunqLatProofs` and `IoLatProofs` prove, for any finite set of
threads, CPUs and tasks, or addresses and any number of buckets, elements and
(memlat) kretprobe instances, that `IInv` is inductive, and from it every
property of the probes' runs; and that each probe implements `LatencyRecorder`.
`Log2LoopProofs` proves the properties of the `log2` run but for `Returns`, for
words and histograms of any size, and `BucketsAgree`: the three bucket functions
are one. `OutputProofs` proves every property of the `output` run for any number
of runs, buckets and counts, `CollectionProofs` every safety property of the
`collection` run for any number of runs, iterations and busy loops. The
assumptions are the ones named in the modules: finite sets, natural bounds, a
positive unit, at least two slots.

The argument. The accounting properties are not inductive by themselves: whether
the next sample is true depends on what `start_ts` holds. The strengthening
(`StartMatchesCall`, `StartMatchesWait`, `StartMatchesIssue`) says that while an operation seen to
start is in progress, its element is its own start or absent for want of
room. Then a sample either falls in the bucket of the true duration, so `truth`
and `hist` advance together, or its operation was not seen to start, and its
start was a stale one, which the sample uses up: `phantom` grows by one while
`Stale` shrinks by one. A start becomes stale only when `lost` grows.
In `MemLat` the other half is that two threads never share a key (`KeyIsThread`).
In `RunqLat` it is that a task is current on one CPU only, so the program that
deletes a start is the one that read it, and that the count a CPU loaded is
still in its cell when it stores, because only it writes its row; a dead task is
never `sleepy`, so none waits; and a start becomes stale also by a wakeup of a
task on a CPU (`spurious`).
The report of memlat and iolat is handled once for both in `SessionProofs`: a
bucket is between the histogram when the sleep ended and the histogram now,
because it only grows. That of runqlat adds a bucket over the CPUs and skips
buckets it cannot read. `ReportInv` says so, with `BucketTotal` for the sum;
that it is a natural number and only grows comes from the sums of
`SumsAndPowers`. `SamplesAddUp` follows step by step from `IInv`: a sample taken
adds one in one cell of `Taken`, and one to `phantom` or in the same cell of
`Ended`; a store changes neither, because the count it loaded is still there.
`ReportAddsUp` then needs the sum of a table to be the sum of its columns, as
main() adds by bucket what the programs count by CPU.

The refinement needs `IInv` where a sample is taken: it is what makes the bucket
a right one for the open operation, and a stale start one that a mishap pays for.
Each action of a probe is then one step of `LatencyRecorder` or a stutter; the
load of a per-CPU cell, for one, is a stutter, and its store the publication.

For `Log2Loop` the strengthening (`LoopInv`) is what each loop has found so far:
memlat and iolat have shifted the input by the bits they counted, so what is
left is positive exactly while `2^b` is at most the input; runqlat has the
highest bit among the distances it tried. When a loop ends the input is in
`[2^b, 2^(b+1))`, or in memlat's last slot, and the clamp moves what is above.
`Log2LoopBounded` is the safety half of termination: `StepsLeft` gets smaller
with every step.

For `Output` the strengthening (`StepInv`) is that every summary is of an earlier run
until the CSV of the run in progress has all its rows, so that truncating a CSV
only ever leaves older summaries beside it. `ContentInv` adds what the files say: the
rows printed are the buckets below the one in progress, each with its range and
the count of its run, and a whole summary fits the rows of its CSV. For `Collection` it is that a
workload of a run to come was never started and one of an earlier run is over or
abandoned (`RunsInv`), that a script ended without its children only at `sleep`
(`KidsInv`), and that a workload that began first has no more time left than the
probe beside it (`EarlyInv`).

Sums and powers are where the provers need help: both are defined by recursion,
and the library's induction theorems take a predicate, which none of the
backends can supply. `SumsAndPowers` uses sets instead. The set of the numbers
that have a property is all of `Nat` if it is closed, since the library proves
`Nat` well founded and a smallest number outside would have no predecessor
(`NatSetInduction`), and likewise for the subsets of a finite set
(`SubsetInduction`). From these follow that the fold behind `SumFunctionOnSet`
has one solution and takes its elements in any order (`SumRemove`), and that
`2^n` doubles (`PowerStep`), from the number of subsets of a set.

Only model-checked: liveness, `Returns` of `Log2Loop` and `LoadsEnd` of
`Collection`, which is out of the prover's reach, and that the five violations
are reached.

## Not modelled

The type dump, generated bindings and build rules, which have no behaviour of
their own. `vmlinux.h` is 150336 of the 150575 lines of C in the repository, so
the share of them that is modelled says nothing: of the 239 lines of the three
programs, all but includes, declarations and blank lines are. The loaders are
Go and the scripts shell.

Also left out: formatting of the tables; `pid_tgid` and `comm` in `struct
iolat_start`, which nothing reads; the width of the 64-bit counters, since no
run of the tools comes near 2^64 events or nanoseconds; what a power failure
does to files that were never synced; two loaders at the same time, which no
script starts; what `save_meta.sh` writes, beyond its success or
failure; the names of the directories, two runs in the same second included, as
a collection takes longer.

## Plan

Done: the three probes with their loaders, the bucket loops, the files, the
scripts, the abstract specification with its three refinements, and proofs of
every safety property. Left:

1. Accounts like `SamplesAddUp` and `ReportAddsUp` for memlat and iolat, with the
   same lemmas about sums.
2. What `LatencyRecorder` promises by itself (no more shown than taken, no more
   strays than mishaps), so that the probes inherit it through their refinement.
