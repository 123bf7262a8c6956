------------------------------- MODULE Output -------------------------------
(***************************************************************************)
(* What the three programs save when --out is given: a CSV with a row for  *)
(* every bucket, then a summary in JSON.  The files outlive the process;   *)
(* programs are run one after the other on targets that may share files,   *)
(* each of their system calls may fail, and they may be killed between any *)
(* two.  A file name is the stem of --out with some number of ".csv".      *)
(***************************************************************************)
EXTENDS Integers, FiniteSets, Functions

CONSTANTS
  WordBits,      \* bits of a uint64: 64
  MAX_SLOTS,     \* tool -> its histogram's buckets: 64, 64 and 26
  TailThreshold, \* tailThresholdUs of runqlat: 8
  MaxCount,      \* bound: events in a bucket
  MaxRuns        \* bound: runs of the programs

Tools == {"memlat", "runqlat", "iolat"}

ASSUME OutputAssumption ==
  /\ {WordBits, TailThreshold} \subseteq Nat \ {0} /\ {MaxCount, MaxRuns} \subseteq Nat
  /\ MAX_SLOTS \in [Tools -> 1 .. WordBits]

VARIABLES
  tool,      \* the program that runs, or ran last
  suffixes,  \* ".csv" suffixes of its --out: 0 or 1
  counts,    \* the histogram it has read
  step,      \* where it stands in saving, or how it ended
  run,       \* its number
  csv,       \* name -> content of the CSV
  summary    \* name -> content of the .summary.json

vars == <<tool, suffixes, counts, step, run, csv, summary>>

Names == 0 .. 2
Stopped == {"none", "saved", "failed", "killed"}
Buckets(t) == 0 .. MAX_SLOTS[t] - 1

\* run: whose content it is, 0 when there is no file; tool: that run's; rows:
\* what is in the file; next: the bucket whose row is written next.
NoCsv == [run |-> 0, tool |-> "memlat", rows |-> {}, next |-> 0]
\* csv: the name of the CSV that run made; text: "none" (created, not
\* written), "torn" or "whole".
\* tail and max_bucket: Missing where the tool's Summary has no such field.
Missing == -2
NoSummary == [run |-> 0, csv |-> 0, text |-> "none",
              total |-> 0, tail |-> Missing, max_bucket |-> Missing]

Init ==
  /\ tool = "memlat" /\ suffixes = 0 /\ counts = [b \in Buckets("memlat") |-> 0]
  /\ step = "none" /\ run = 0
  /\ csv = [n \in Names |-> NoCsv] /\ summary = [n \in Names |-> NoSummary]

----------------------------------------------------------------------------
\* memlat takes --out as it is; the others append ".csv" where it is missing.
\* (The mutant always appends it.)
normalize_always(t, n) == IF t = "memlat" THEN n ELSE n + 1
normalize(t, n) == IF t = "memlat" THEN n ELSE 1

\* memlat appends ".summary.json" to --out; the others cut ".csv" off first.
SummaryName(t, n) == IF t = "memlat" THEN n ELSE normalize(t, n) - 1

\* uint64(1) << uint(n), and 1 << 64 = 0.  (The mutant is wider.)
Shl_wide(n) == 2 ^ n
Shl(n) == 2 ^ n % 2 ^ WordBits

\* lo and hi of a row.  (The mutant prints an inclusive bound.)
bucketRangeUs_closed(b) == <<Shl(b), Shl(b + 1) - 1>>
bucketRangeUs(b) == <<Shl(b), Shl(b + 1)>>

\* The first bucket of the tail: the loop stops at MAX_SLOTS at the latest.
tailStart ==
  CHOOSE i \in 0 .. MAX_SLOTS["runqlat"] :
    /\ i < MAX_SLOTS["runqlat"] => Shl(i) >= TailThreshold
    /\ \A j \in 0 .. i - 1 : Shl(j) < TailThreshold
sumTail == SumFunctionOnSet(counts, {b \in DOMAIN counts : b >= tailStart})

\* The last bucket that counted, or -1.  (The mutant stops at the first.)
maxBucket_first == IF SumFunction(counts) = 0 THEN -1 ELSE
  CHOOSE b \in DOMAIN counts : counts[b] > 0 /\ \A d \in DOMAIN counts : d < b => counts[d] = 0
maxBucket == IF SumFunction(counts) = 0 THEN -1 ELSE
  CHOOSE b \in DOMAIN counts : counts[b] > 0 /\ \A d \in DOMAIN counts : d > b => counts[d] = 0

CsvFile == normalize(tool, suffixes)
SummaryFile == SummaryName(tool, suffixes)

----------------------------------------------------------------------------
\* A program is run and has read its histogram.
Collect(t, n, c) ==
  /\ step \in Stopped /\ run < MaxRuns
  /\ tool' = t /\ suffixes' = n /\ counts' = c
  /\ run' = run + 1
  /\ step' = "dir"
  /\ UNCHANGED <<csv, summary>>

MkdirAll ==
  /\ step = "dir"
  /\ step' = "csv"
  /\ UNCHANGED <<tool, suffixes, counts, run, csv, summary>>

\* os.Create truncates the CSV.
CreateCsv ==
  /\ step = "csv"
  /\ step' = "rows"
  /\ csv' = [csv EXCEPT ![CsvFile] = [NoCsv EXCEPT !.run = run, !.tool = tool]]
  /\ UNCHANGED <<tool, suffixes, counts, run, summary>>

\* The next row is written, or is not: the error of Fprintf is ignored.
Bucket == csv[CsvFile].next
Row == [bucket |-> Bucket, lo |-> bucketRangeUs(Bucket)[1], hi |-> bucketRangeUs(Bucket)[2],
        count |-> counts[Bucket]]

PrintRow ==
  /\ step = "rows" /\ Bucket < MAX_SLOTS[tool]
  /\ \E written \in {{}, {Row}} :
       csv' = [csv EXCEPT ![CsvFile].rows = @ \cup written, ![CsvFile].next = @ + 1]
  /\ UNCHANGED <<tool, suffixes, counts, step, run, summary>>

\* The loop over the buckets has ended.  (The mutant leaves out the last one.)
RowsPrinted_short == Bucket = MAX_SLOTS[tool] - 1
RowsPrinted == Bucket = MAX_SLOTS[tool]

CloseCsv ==
  /\ step = "rows" /\ RowsPrinted
  /\ step' = "summary"
  /\ UNCHANGED <<tool, suffixes, counts, run, csv, summary>>

\* os.WriteFile truncates the summary, and then writes it.
CreateSummary ==
  /\ step = "summary"
  /\ step' = "text"
  /\ summary' = [summary EXCEPT ![SummaryFile] =
       [NoSummary EXCEPT !.run = run, !.csv = CsvFile]]
  /\ UNCHANGED <<tool, suffixes, counts, run, csv>>

\* The Summary of runqlat has a tail and a last bucket; those of memlat and iolat
\* have neither, though the design documents promise both for every tool.
OfRunqlat(value) == IF tool = "runqlat" THEN value ELSE Missing

Summarise(text) ==
  summary' = [summary EXCEPT ![SummaryFile] =
    [@ EXCEPT !.text = text, !.total = SumFunction(counts),
              !.tail = OfRunqlat(sumTail), !.max_bucket = OfRunqlat(maxBucket)]]

\* The JSON is written and the program prints "saved".
WriteSummary ==
  /\ step = "text"
  /\ Summarise("whole")
  /\ step' = "saved"
  /\ UNCHANGED <<tool, suffixes, counts, run, csv>>

\* A step whose error is checked fails: os.Exit(1).
Fails ==
  /\ step \in {"dir", "csv", "summary", "text"}
  /\ step' = "failed"
  /\ \/ UNCHANGED summary
     \/ step = "text" /\ Summarise("torn")
  /\ UNCHANGED <<tool, suffixes, counts, run, csv>>

\* The process is killed.
Kill ==
  /\ step \notin Stopped
  /\ step' = "killed"
  /\ UNCHANGED <<tool, suffixes, counts, run, csv, summary>>

Next ==
  \/ \E t \in Tools, n \in 0 .. 1 : \E c \in [Buckets(t) -> 0 .. MaxCount] : Collect(t, n, c)
  \/ MkdirAll \/ CreateCsv \/ PrintRow \/ CloseCsv
  \/ CreateSummary \/ WriteSummary \/ Fails \/ Kill

Spec == Init /\ [][Next]_vars

----------------------------------------------------------------------------
(* Properties                                                              *)

Words == 0 .. 2 ^ WordBits - 1

\* The variables have the types their declarations give; every bound in a CSV
\* is a uint64.
TypeOK ==
  /\ tool \in Tools /\ suffixes \in 0 .. 1 /\ run \in 0 .. MaxRuns
  /\ counts \in [Buckets(tool) -> 0 .. MaxCount]
  /\ step \in Stopped \cup {"dir", "csv", "rows", "summary", "text"}
  /\ \A n \in Names :
       /\ csv[n].run \in 0 .. MaxRuns /\ csv[n].tool \in Tools
       /\ csv[n].next \in 0 .. MAX_SLOTS[csv[n].tool]
       /\ csv[n].rows \subseteq [bucket : Nat, lo : Words, hi : Words, count : 0 .. MaxCount]
       /\ summary[n].run \in 0 .. MaxRuns /\ summary[n].csv \in Names
       /\ summary[n].text \in {"none", "torn", "whole"}
       /\ summary[n].max_bucket \in {Missing} \cup -1 .. WordBits - 1

\* A summary vouches for its CSV: once a run has a summary, whole or not, the
\* loop over the rows of the CSV it made had ended, until a later run truncates
\* it; a kill or an error never leaves a summary beside a CSV of the same run
\* that was cut short, or beside one of an earlier run.
SummaryAfterCsv ==
  \A n \in Names : summary[n].run # 0 =>
    LET c == csv[summary[n].csv]
    IN \/ c.run > summary[n].run
       \/ c.run = summary[n].run /\ c.next = MAX_SLOTS[c.tool]

\* A run that says "saved" and exits with 0 has replaced both of its files,
\* whatever earlier runs left under their names, and runqlat and iolat have
\* done so at x.csv and x.summary.json for --out x and for --out x.csv.
SavedOnSuccess ==
  step = "saved" =>
    /\ csv[CsvFile].run = run
    /\ summary[SummaryFile].run = run /\ summary[SummaryFile].text = "whole"
    /\ tool # "memlat" => csv[1].run = run /\ summary[0].run = run

\* What a summary says of the rows of a CSV.
Fits(s, c) ==
  LET Sum(rows) == SumFunction([r \in rows |-> r.count])
  IN  /\ s.total = Sum(c.rows)
      /\ c.tool = "runqlat" =>
           /\ s.tail = Sum({r \in c.rows : r.lo >= TailThreshold})
           /\ \A r \in c.rows : r.bucket = s.max_bucket => r.count > 0
           /\ \A r \in c.rows : r.bucket > s.max_bucket => r.count = 0

\* A whole summary agrees with its CSV: while both are of the same run and no
\* row was lost, the total of each tool is the sum of the counts, and in
\* runqlat's, tail is that of the rows whose lo_us is at least the threshold and
\* max_bucket is the last row with a count.
SummaryFitsRows ==
  \A n \in Names :
    LET s == summary[n]
        c == csv[s.csv]
    IN s.text = "whole" /\ c.run = s.run /\ Cardinality(c.rows) = MAX_SLOTS[c.tool] => Fits(s, c)

\* The rows of a CSV divide the values without a gap or an overlap, also when
\* others between them were lost; only the last bucket of a word has no upper
\* bound, and says 0.
RowsTile ==
  \A n \in Names : \A r, q \in csv[n].rows :
    /\ r.bucket < q.bucket => r.hi <= q.lo
    /\ q.bucket = r.bucket + 1 => r.hi = q.lo
    /\ r.lo < r.hi \/ (r.bucket = WordBits - 1 /\ r.hi = 0)

IsCsv(c) == c = [f \in {"run", "tool", "rows", "next"} |-> c[f]]
IsSummary(s) == s = [f \in {"run", "csv", "text", "total", "tail", "max_bucket"} |-> s[f]]

\* The inductive invariant.  The variables are as far typed as it needs:
\* files are records, and none is of a run to come;
FilesInv ==
  /\ tool \in Tools /\ suffixes \in 0 .. 1 /\ run \in Nat
  /\ csv = [n \in Names |-> csv[n]] /\ summary = [n \in Names |-> summary[n]]
  /\ \A n \in Names :
       LET c == csv[n]
           s == summary[n]
       IN /\ IsCsv(c) /\ IsSummary(s)
          /\ c.run \in 0 .. run /\ c.tool \in Tools /\ c.next \in Nat
          /\ s.run \in 0 .. run /\ s.csv \in Names

\* a run leaves the summaries alone until its CSV has all rows.
StepInv ==
  /\ step \in {"dir", "csv"} => \A n \in Names : csv[n].run < run
  /\ step \in {"dir", "csv", "rows", "summary"} => \A n \in Names : summary[n].run < run
  /\ step \in {"rows", "summary", "text", "saved"} =>
       csv[CsvFile].run = run /\ csv[CsvFile].tool = tool
  /\ step \in {"summary", "text"} => csv[CsvFile].next = MAX_SLOTS[tool]
  /\ step \in {"text", "saved"} => summary[SummaryFile].run = run
  /\ step = "saved" => summary[SummaryFile].text = "whole"

IInv == FilesInv /\ StepInv /\ SummaryAfterCsv

\* What the files contain, inductively: the rows of a CSV are of different
\* buckets, all before next;
RowsOf(c) ==
  /\ c.next <= MAX_SLOTS[c.tool]
  /\ \A r \in c.rows :
       /\ r \in [bucket : 0 .. c.next - 1, lo : Words, hi : Words, count : 0 .. MaxCount]
       /\ r.lo = Shl(r.bucket) /\ r.hi = Shl(r.bucket + 1)
  /\ \A r, q \in c.rows : r.bucket = q.bucket => r = q

RowsInv == \A n \in Names : RowsOf(csv[n])

\* until its summary is written, the CSV of the run in progress holds the counts
\* that the summary will add up;
CountsInv ==
  /\ run <= MaxRuns /\ counts \in [Buckets(tool) -> 0 .. MaxCount]
  /\ step \in {"rows", "summary", "text"} =>
       \A r \in csv[CsvFile].rows : r.count = counts[r.bucket]
  /\ step = "text" => summary[SummaryFile].csv = CsvFile

\* and a summary names a bucket of some tool, or none.
SummariesInv ==
  /\ step \in Stopped \cup {"dir", "csv", "rows", "summary", "text"}
  /\ \A n \in Names : /\ summary[n].text \in {"none", "torn", "whole"}
                      /\ summary[n].max_bucket \in {Missing} \cup -1 .. WordBits - 1

ContentInv == RowsInv /\ CountsInv /\ SummariesInv /\ SummaryFitsRows
=============================================================================
