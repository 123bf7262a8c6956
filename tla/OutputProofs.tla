---------------------------- MODULE OutputProofs ----------------------------
(***************************************************************************)
(* IInv and ContentInv of Output are inductive for any number of runs,     *)
(* buckets and counts: what a summary says of the CSV beside it, whatever  *)
(* was killed or failed between the two, and what is in both.              *)
(***************************************************************************)
EXTENDS Output, SumsAndPowers

\* The files of --out are among Names.
LEMMA FileNames ==
  ASSUME tool \in Tools, suffixes \in 0 .. 1
  PROVE  /\ CsvFile \in Names /\ SummaryFile \in Names
         /\ tool # "memlat" => CsvFile = 1 /\ SummaryFile = 0
BY DEF CsvFile, SummaryFile, normalize, SummaryName, Names, Tools

LEMMA InitIInv == Init => IInv
<1>1. /\ IsCsv(NoCsv)
      /\ IsSummary(NoSummary)
  BY DEF NoCsv, NoSummary, IsCsv, IsSummary
<1> QED
  BY <1>1 DEF Init, IInv, FilesInv, StepInv, SummaryAfterCsv, NoCsv, NoSummary, Names, Tools

\* A step that touches neither file and keeps the run in progress.
LEMMA FilesStill ==
  ASSUME IInv, StepInv', UNCHANGED <<tool, suffixes, run, csv, summary>>
  PROVE  IInv'
BY DEF IInv, FilesInv, SummaryAfterCsv

\* The CSV of the run in progress is replaced while all summaries are of
\* earlier runs.
LEMMA CsvChanges ==
  ASSUME IInv, NEW c, csv' = [csv EXCEPT ![CsvFile] = c],
         IsCsv(c), c.run = run, c.tool = tool, c.next \in Nat,
         step \in {"csv", "rows"}, step' = "rows",
         UNCHANGED <<tool, suffixes, run, summary>>
  PROVE  IInv'
<1> USE FileNames DEF IInv
<1>1. CsvFile \in Names /\ CsvFile' = CsvFile /\ SummaryFile' = SummaryFile
  BY DEF FilesInv, CsvFile, SummaryFile
<1>2. /\ csv' = [n \in Names |-> csv'[n]] /\ csv'[CsvFile] = c
      /\ \A n \in Names : n # CsvFile => csv'[n] = csv[n]
  BY <1>1 DEF FilesInv
<1> HIDE DEF IInv
<1>4. FilesInv'
  BY <1>1, <1>2 DEF FilesInv, IInv
<1>5. StepInv'
  BY <1>1, <1>2 DEF StepInv, IInv
<1>6. SummaryAfterCsv'
  <2> SUFFICES ASSUME NEW n \in Names, summary[n].run # 0
               PROVE  \/ csv'[summary[n].csv].run > summary[n].run
                      \/ /\ csv'[summary[n].csv].run = summary[n].run
                         /\ csv'[summary[n].csv].next = MAX_SLOTS[csv'[summary[n].csv].tool]
    BY DEF SummaryAfterCsv
  <2>1. summary[n].csv \in Names /\ summary[n].run \in 0 .. run /\ summary[n].run < run
    BY DEF IInv, FilesInv, StepInv
  <2>2. CASE summary[n].csv = CsvFile
    BY <1>2, <2>1, <2>2 DEF IInv, FilesInv
  <2>3. CASE summary[n].csv # CsvFile
    BY <1>2, <2>1, <2>3 DEF IInv, SummaryAfterCsv
  <2> QED
    BY <2>2, <2>3
<1> QED
  BY <1>4, <1>5, <1>6 DEF IInv

\* The summary of the run in progress is replaced beside its CSV.
LEMMA SummaryChanges ==
  ASSUME IInv, NEW s, summary' = [summary EXCEPT ![SummaryFile] = s],
         IsSummary(s), s.run = run,
         s.csv = CsvFile \/ (s.csv = summary[SummaryFile].csv /\ step = "text"),
         step \in {"summary", "text"}, step' \in {"text", "saved", "failed"},
         step' = "saved" => s.text = "whole",
         UNCHANGED <<tool, suffixes, run, csv>>
  PROVE  IInv'
<1>1. /\ CsvFile \in Names /\ SummaryFile \in Names
      /\ CsvFile' = CsvFile /\ SummaryFile' = SummaryFile
  BY FileNames DEF IInv, FilesInv, CsvFile, SummaryFile
<1>2. /\ summary' = [n \in Names |-> summary'[n]] /\ summary'[SummaryFile] = s
      /\ \A n \in Names : n # SummaryFile => summary'[n] = summary[n]
  BY <1>1 DEF IInv, FilesInv
<1>3. s.run = run /\ s.csv \in Names
  BY <1>1 DEF IInv, FilesInv
<1>4. FilesInv'
  BY <1>1, <1>2, <1>3 DEF FilesInv, IInv
<1>5. StepInv'
  BY <1>1, <1>2, <1>3 DEF StepInv, IInv
<1>6. SummaryAfterCsv'
  BY <1>1, <1>2, <1>3 DEF SummaryAfterCsv, IInv, StepInv
<1> QED
  BY <1>4, <1>5, <1>6 DEF IInv

LEMMA NextIInv == IInv /\ [Next]_vars => IInv'
<1> SUFFICES ASSUME IInv, [Next]_vars PROVE IInv'
  OBVIOUS
<1>0. CsvFile \in Names /\ SummaryFile \in Names
  BY FileNames DEF IInv, FilesInv
<1>1. CASE \E t \in Tools, n \in 0 .. 1 : \E c \in [Buckets(t) -> 0 .. MaxCount] : Collect(t, n, c)
  <2> PICK t \in Tools, n \in 0 .. 1 : \E c \in [Buckets(t) -> 0 .. MaxCount] : Collect(t, n, c)
    BY <1>1
  <2>1. /\ tool' \in Tools /\ suffixes' \in 0 .. 1 /\ run' = run + 1
        /\ step' = "dir" /\ UNCHANGED <<csv, summary>>
    BY DEF Collect
  <2> QED
    BY <2>1 DEF IInv, FilesInv, StepInv, SummaryAfterCsv
<1>2. CASE MkdirAll \/ CloseCsv \/ Kill
  <2>1. StepInv'
    BY <1>2 DEF MkdirAll, CloseCsv, RowsPrinted, Bucket, Kill, IInv, StepInv, CsvFile, SummaryFile
  <2> QED
    BY <1>2, <2>1, FilesStill DEF MkdirAll, CloseCsv, Kill
<1>3. CASE CreateCsv
  <2> PICK c : c = [NoCsv EXCEPT !.run = run, !.tool = tool]
    OBVIOUS
  <2>1. IsCsv(c) /\ c.run = run /\ c.tool = tool /\ c.next \in Nat
    BY DEF NoCsv, IsCsv
  <2>2. csv' = [csv EXCEPT ![CsvFile] = c]
    BY <1>3 DEF CreateCsv
  <2>3. step = "csv" /\ step' = "rows" /\ UNCHANGED <<tool, suffixes, run, summary>>
    BY <1>3 DEF CreateCsv
  <2> QED
    BY <2>1, <2>2, <2>3, CsvChanges
<1>4. CASE PrintRow
  <2> PICK written \in {{}, {Row}} :
        csv' = [csv EXCEPT ![CsvFile].rows = @ \cup written, ![CsvFile].next = @ + 1]
    BY <1>4 DEF PrintRow
  <2> PICK c : c = [csv[CsvFile] EXCEPT !.rows = @ \cup written, !.next = @ + 1]
    OBVIOUS
  <2>1. csv' = [csv EXCEPT ![CsvFile] = c]
    OBVIOUS
  <2>2. /\ IsCsv(csv[CsvFile])
        /\ csv[CsvFile].run = run /\ csv[CsvFile].tool = tool /\ csv[CsvFile].next \in Nat
    BY <1>0, <1>4 DEF PrintRow, IInv, FilesInv, StepInv
  <2>3. /\ IsCsv(c)
        /\ c.run = run /\ c.tool = tool /\ c.next \in Nat
    <3>1. IsCsv(c) /\ c.run = run /\ c.tool = tool /\ c.next = csv[CsvFile].next + 1
      BY <2>2 DEF IsCsv
    <3> QED
      BY <2>2, <3>1
  <2>4. step = "rows" /\ step' = "rows" /\ UNCHANGED <<tool, suffixes, run, summary>>
    BY <1>4 DEF PrintRow
  <2> QED
    BY <2>1, <2>2, <2>3, <2>4, CsvChanges
<1>5. CASE CreateSummary
  <2> PICK s : s = [NoSummary EXCEPT !.run = run, !.csv = CsvFile]
    OBVIOUS
  <2>1. IsSummary(s) /\ s.run = run /\ s.csv = CsvFile
    BY DEF NoSummary, IsSummary
  <2>2. summary' = [summary EXCEPT ![SummaryFile] = s]
    BY <1>5 DEF CreateSummary
  <2>3. step = "summary" /\ step' = "text" /\ UNCHANGED <<tool, suffixes, run, csv>>
    BY <1>5 DEF CreateSummary
  <2> QED
    BY <2>1, <2>2, <2>3, SummaryChanges
<1>6. ASSUME NEW text, Summarise(text), step = "text", step' \in {"saved", "failed"},
             step' = "saved" => text = "whole", UNCHANGED <<tool, suffixes, run, csv>>
      PROVE  IInv'
  <2> PICK total, s :
        s = [summary[SummaryFile] EXCEPT !.text = text, !.total = total,
               !.tail = OfRunqlat(sumTail), !.max_bucket = OfRunqlat(maxBucket)]
        /\ total = SumFunction(counts)
    OBVIOUS
  <2>1. summary' = [summary EXCEPT ![SummaryFile] = s]
    BY <1>6 DEF Summarise
  <2>2. /\ IsSummary(summary[SummaryFile])
        /\ summary[SummaryFile].run = run
    BY <1>0, <1>6 DEF IInv, FilesInv, StepInv
  <2>3. /\ IsSummary(s)
        /\ s.run = run /\ s.csv = summary[SummaryFile].csv /\ s.text = text
    BY <2>2 DEF IsSummary
  <2> QED
    BY <1>6, <2>1, <2>3, SummaryChanges
<1>7. CASE WriteSummary
  BY <1>6, <1>7 DEF WriteSummary
<1>8. CASE Fails
  <2>1. CASE UNCHANGED summary
    <3>1. StepInv'
      BY <1>8 DEF Fails, StepInv
    <3> QED
      BY <1>8, <2>1, <3>1, FilesStill DEF Fails
  <2>2. CASE step = "text" /\ Summarise("torn")
    BY <1>6, <1>8, <2>2 DEF Fails
  <2> QED
    BY <1>8, <2>1, <2>2 DEF Fails
<1>9. CASE UNCHANGED vars
  <2>1. StepInv'
    BY <1>9 DEF vars, IInv, StepInv, CsvFile, SummaryFile
  <2> QED
    BY <1>9, <2>1, FilesStill DEF vars
<1> QED
  BY <1>1, <1>2, <1>3, <1>4, <1>5, <1>7, <1>8, <1>9 DEF Next

\* IInv is inductive.
THEOREM OutputInvariant == Spec => []IInv
BY InitIInv, NextIInv, PTL DEF Spec

\* A summary on the disk never vouches for a CSV that saveCSV of its run did
\* not finish, or for one of an earlier run.
THEOREM OutputSummaryAfterCsv == Spec => []SummaryAfterCsv
<1>1. IInv => SummaryAfterCsv
  BY DEF IInv
<1> QED
  BY <1>1, OutputInvariant, PTL

\* When main() prints "saved", both files are this run's.
THEOREM OutputSavedOnSuccess == Spec => []SavedOnSuccess
<1>1. IInv => SavedOnSuccess
  BY FileNames DEF IInv, FilesInv, StepInv, SavedOnSuccess
<1> QED
  BY <1>1, OutputInvariant, PTL

----------------------------------------------------------------------------
(* Rows and sums.                                                          *)

\* A histogram has a bucket at least, and no more of them than a word has bits.
LEMMA Slots ==
  ASSUME NEW t \in Tools
  PROVE  /\ MAX_SLOTS[t] \in 1 .. WordBits /\ MAX_SLOTS[t] \in Nat
         /\ WordBits \in Nat /\ TailThreshold \in Nat
         /\ IsFiniteSet(Buckets(t)) /\ Cardinality(Buckets(t)) = MAX_SLOTS[t]
<1>1. MAX_SLOTS[t] \in 1 .. WordBits /\ WordBits \in Nat /\ TailThreshold \in Nat
  BY OutputAssumption
<1>2. IsFiniteSet(0 .. MAX_SLOTS[t] - 1) /\ Cardinality(0 .. MAX_SLOTS[t] - 1) = MAX_SLOTS[t]
  BY <1>1, FS_Interval
<1> QED
  BY <1>1, <1>2 DEF Buckets

\* Below the width of a word a shift is a power of two; at the width it is zero.
LEMMA ShlFacts ==
  ASSUME NEW b \in 0 .. WordBits
  PROVE  /\ Shl(b) \in Words
         /\ b < WordBits => Shl(b) = 2 ^ b
         /\ b = WordBits => Shl(b) = 0
<1>1. WordBits \in Nat /\ b \in Nat /\ b <= WordBits
  BY OutputAssumption
<1> DEFINE x == 2 ^ b
           p == 2 ^ WordBits
<1>2. x \in Nat /\ p \in Nat \ {0}
  BY <1>1, PowerPositive
<1>3. b < WordBits => x < p
  BY <1>1, PowerMonotone
<1>4. b = WordBits => x = p
  OBVIOUS
<1> HIDE DEF x, p
<1>5. x % p \in 0 .. p - 1
  BY <1>2
<1>6. x < p => x % p = x
  BY <1>2
<1>7. x = p => x % p = 0
  BY <1>2
<1>8. Shl(b) = x % p /\ Words = 0 .. p - 1
  BY DEF Shl, Words, x, p
<1>9. b < WordBits => Shl(b) = 2 ^ b
  BY <1>3, <1>6, <1>8 DEF x
<1> QED
  BY <1>4, <1>5, <1>7, <1>8, <1>9

\* The tail begins at the first bucket that begins at the threshold or above.
LEMMA TailStart ==
  ASSUME NEW b \in Buckets("runqlat")
  PROVE  tailStart \in Nat /\ (b >= tailStart <=> Shl(b) >= TailThreshold)
<1> DEFINE m == MAX_SLOTS["runqlat"]
           T == {i \in 0 .. m : i < m => Shl(i) >= TailThreshold}
           IsStart(i) == /\ i < m => Shl(i) >= TailThreshold
                         /\ \A j \in 0 .. i - 1 : Shl(j) < TailThreshold
<1>1. m \in 1 .. WordBits /\ m \in Nat /\ WordBits \in Nat /\ TailThreshold \in Nat
  BY Slots DEF Tools
<1>2. \A j \in 0 .. m : Shl(j) \in Nat
  <2>1. \A j \in 0 .. m : j \in 0 .. WordBits
    BY <1>1
  <2>2. Words \subseteq Nat
    BY <1>1, PowerStep DEF Words
  <2> QED
    BY <2>1, <2>2, ShlFacts
<1>3. \E i \in 0 .. m : IsStart(i)
  <2>1. T \in SUBSET Nat /\ m \in T
    BY <1>1
  <2>2. PICK i \in T : \A y \in T : i <= y
    BY <2>1, NatMinimum
  <2>3. ASSUME NEW j \in 0 .. i - 1 PROVE Shl(j) < TailThreshold
    <3>1. j \in 0 .. m /\ j < m /\ j \notin T
      BY <1>1, <2>2
    <3> QED
      BY <1>1, <1>2, <3>1
  <2> QED
    BY <2>2, <2>3
<1>4. tailStart \in 0 .. m /\ IsStart(tailStart)
  BY <1>3 DEF tailStart
<1>5. b \in 0 .. m - 1
  BY DEF Buckets
<1>6. CASE b < tailStart
  BY <1>1, <1>2, <1>4, <1>5, <1>6
<1>7. CASE b >= tailStart
  <2>1. tailStart < m /\ tailStart < WordBits /\ tailStart \in 0 .. WordBits
        /\ b \in 0 .. WordBits /\ b < WordBits
    BY <1>1, <1>4, <1>5, <1>7
  <2>2. Shl(tailStart) = 2 ^ tailStart /\ Shl(b) = 2 ^ b
    BY <2>1, ShlFacts
  <2>3. ~(2 ^ b < 2 ^ tailStart) /\ 2 ^ b \in Nat /\ 2 ^ tailStart \in Nat
    <3>1. ~(b < tailStart) /\ b \in Nat /\ tailStart \in Nat
      BY <1>4, <1>5, <1>7
    <3> QED
      BY <3>1, PowerMonotone, PowerStep
  <2> QED
    BY <1>1, <1>4, <1>7, <2>1, <2>2, <2>3
<1> QED
  BY <1>1, <1>4, <1>5, <1>6, <1>7

\* max_bucket is the last bucket that counted, or -1 when none did.
LEMMA MaxBucket ==
  ASSUME tool \in Tools, counts \in [Buckets(tool) -> 0 .. MaxCount]
  PROVE  /\ maxBucket \in -1 .. MAX_SLOTS[tool] - 1
         /\ maxBucket # -1 => counts[maxBucket] > 0
         /\ \A b \in Buckets(tool) : b > maxBucket => counts[b] = 0
<1> DEFINE m == MAX_SLOTS[tool]
           T == {d \in 0 .. m - 1 : counts[m - 1 - d] > 0}
           IsLast(b) == counts[b] > 0 /\ \A d \in DOMAIN counts : d > b => counts[d] = 0
<1>1. m \in Nat \ {0} /\ Buckets(tool) = 0 .. m - 1 /\ IsFiniteSet(Buckets(tool))
  BY Slots DEF Buckets
<1>2. DOMAIN counts = 0 .. m - 1 /\ \A b \in 0 .. m - 1 : counts[b] \in Nat
  BY <1>1, OutputAssumption
<1>3. SumFunction(counts) = 0 <=> \A b \in 0 .. m - 1 : counts[b] = 0
  BY <1>1, <1>2, SumZero DEF SumFunction
<1>4. CASE SumFunction(counts) = 0
  <2>1. maxBucket = -1
    BY <1>4 DEF maxBucket
  <2> QED
    BY <1>1, <1>3, <1>4, <2>1
<1>5. CASE SumFunction(counts) # 0
  <2>1. PICK e \in 0 .. m - 1 : counts[e] # 0
    BY <1>3, <1>5
  <2>2. m - 1 - e \in T
    <3>1. m - 1 - (m - 1 - e) = e /\ m - 1 - e \in 0 .. m - 1 /\ counts[e] > 0
      BY <1>1, <1>2, <2>1
    <3> QED
      BY <3>1
  <2>3. PICK d \in T : \A y \in T : d <= y
    <3>1. T \in SUBSET Nat
      BY <1>1
    <3> QED
      BY <2>2, <3>1, NatMinimum
  <2>4. m - 1 - d \in 0 .. m - 1 /\ counts[m - 1 - d] > 0
    BY <1>1, <2>3
  <2>5. ASSUME NEW b \in 0 .. m - 1, b > m - 1 - d PROVE counts[b] = 0
    <3>1. m - 1 - b \in 0 .. m - 1 /\ m - 1 - b < d /\ m - 1 - (m - 1 - b) = b
      BY <1>1, <2>3, <2>5
    <3>2. m - 1 - b \notin T
      BY <2>3, <3>1
    <3> QED
      BY <1>2, <3>1, <3>2
  <2>6. \E b \in DOMAIN counts : IsLast(b)
    BY <1>2, <2>4, <2>5
  <2>7. maxBucket = CHOOSE b \in DOMAIN counts : IsLast(b)
    BY <1>5 DEF maxBucket
  <2>8. maxBucket \in DOMAIN counts /\ IsLast(maxBucket)
    BY <2>6, <2>7
  <2> QED
    BY <1>1, <1>2, <2>8
<1> QED
  BY <1>4, <1>5

\* Rows and buckets that belong together have the same sum.
LEMMA SumOfRows ==
  ASSUME NEW R, NEW B, IsFiniteSet(R),
         \A r, q \in R : r.bucket = q.bucket => r = q,
         \A b \in B : \E r \in R : r.bucket = b,
         \A r \in R : r.bucket \in B /\ r.count = counts[r.bucket] /\ r.count \in Nat
  PROVE  SumFunction([r \in R |-> r.count]) = SumFunctionOnSet(counts, B)
<1> DEFINE f == [r \in R |-> r.count]
           p == [r \in R |-> r.bucket]
<1>1. /\ p \in [R -> B]
      /\ \A r, q \in R : p[r] = p[q] => r = q
      /\ \A b \in B : \E r \in R : p[r] = b
      /\ \A r \in R : f[r] \in Nat /\ counts[p[r]] = f[r]
  OBVIOUS
<1> HIDE DEF p
<1>2. SumFunctionOnSet(f, R) = SumFunctionOnSet(counts, B)
  BY <1>1, SumReindex
<1> QED
  BY <1>2 DEF SumFunction

\* A CSV with as many rows as its tool has buckets has a row of every bucket.
LEMMA RowsComplete ==
  ASSUME NEW c, c.tool \in Tools, c.next \in Nat, RowsOf(c),
         Cardinality(c.rows) = MAX_SLOTS[c.tool]
  PROVE  /\ IsFiniteSet(c.rows)
         /\ \A b \in Buckets(c.tool) : \E r \in c.rows : r.bucket = b
         /\ \A r \in c.rows : r.bucket \in Buckets(c.tool)
<1> DEFINE B == Buckets(c.tool)
           p == [r \in c.rows |-> r.bucket]
<1>1. \A r \in c.rows : r.bucket \in B
  BY Slots DEF RowsOf, Buckets
<1>2. p \in Injection(c.rows, B)
  BY <1>1 DEF RowsOf, Injection, IsInjective
<1>3. IsFiniteSet(B) /\ Cardinality(B) = Cardinality(c.rows)
  BY Slots
<1>4. IsFiniteSet(c.rows) /\ p \in Surjection(c.rows, B)
  BY <1>2, <1>3, FS_Injection
<1>5. \A b \in B : \E r \in c.rows : p[r] = b
  BY <1>4 DEF Surjection
<1> QED
  BY <1>1, <1>4, <1>5

\* The rows with a lo_us of at least the threshold are those of the tail.
LEMMA TailOfRows ==
  ASSUME NEW c, c.tool = "runqlat", c.next \in Nat, RowsOf(c), NEW r \in c.rows
  PROVE  r.bucket \in Buckets("runqlat") /\ (r.lo >= TailThreshold <=> r.bucket >= tailStart)
<1>1. r.bucket \in Buckets("runqlat") /\ r.lo = Shl(r.bucket)
  BY Slots DEF RowsOf, Buckets, Tools
<1> QED
  BY <1>1, TailStart

----------------------------------------------------------------------------
(* What the files contain.                                                 *)

\* Before the first run there are no files.
LEMMA InitContent == Init => ContentInv
<1> SUFFICES ASSUME Init PROVE ContentInv
  OBVIOUS
<1>1. \A t \in Tools : MAX_SLOTS[t] \in Nat /\ MAX_SLOTS[t] >= 0
  BY Slots
<1>2. RowsInv
  BY <1>1 DEF Init, RowsInv, RowsOf, NoCsv, Tools
<1>3. CountsInv /\ SummariesInv /\ SummaryFitsRows
  BY OutputAssumption
     DEF Init, CountsInv, SummariesInv, SummaryFitsRows, NoSummary, Stopped
<1> QED
  BY <1>2, <1>3 DEF ContentInv

\* A step that touches neither file, in a run or between two.
LEMMA ContentStill ==
  ASSUME ContentInv, UNCHANGED <<csv, summary>>,
         step' \in Stopped \cup {"dir", "csv", "rows", "summary", "text"}, CountsInv'
  PROVE  ContentInv'
<1>1. RowsInv'
  BY DEF ContentInv, RowsInv, RowsOf
<1>2. SummariesInv'
  BY DEF ContentInv, SummariesInv, Stopped
<1>3. SummaryFitsRows'
  BY DEF ContentInv, SummaryFitsRows, Fits
<1> QED
  BY <1>1, <1>2, <1>3 DEF ContentInv

\* The CSV of the run in progress is written while no summary is of that run.
LEMMA CsvContent ==
  ASSUME IInv, ContentInv, NEW c, csv' = [csv EXCEPT ![CsvFile] = c],
         c.run = run, RowsOf(c), \A r \in c.rows : r.count = counts[r.bucket],
         step \in {"csv", "rows"}, step' = "rows",
         UNCHANGED <<tool, suffixes, counts, run, summary>>
  PROVE  ContentInv'
<1>1. /\ CsvFile \in Names /\ CsvFile' = CsvFile
      /\ csv' = [n \in Names |-> csv'[n]] /\ csv'[CsvFile] = c
      /\ \A n \in Names : n # CsvFile => csv'[n] = csv[n]
  BY FileNames DEF IInv, FilesInv, CsvFile
<1>2. RowsInv'
  BY <1>1 DEF ContentInv, RowsInv, RowsOf
<1>3. CountsInv'
  BY <1>1 DEF ContentInv, CountsInv, Buckets
<1>4. SummariesInv'
  BY DEF ContentInv, SummariesInv
<1>5. SummaryFitsRows'
  <2> SUFFICES ASSUME NEW n \in Names, summary[n].text = "whole",
                      csv'[summary[n].csv].run = summary[n].run,
                      Cardinality(csv'[summary[n].csv].rows) = MAX_SLOTS[csv'[summary[n].csv].tool]
               PROVE  Fits(summary[n], csv'[summary[n].csv])
    BY DEF SummaryFitsRows, Fits
  <2>1. summary[n].csv \in Names /\ summary[n].run \in 0 .. run /\ summary[n].run < run
    BY DEF IInv, FilesInv, StepInv
  <2>2. summary[n].csv # CsvFile
    BY <1>1, <2>1 DEF IInv, FilesInv
  <2> QED
    BY <1>1, <2>1, <2>2 DEF ContentInv, SummaryFitsRows
<1> QED
  BY <1>2, <1>3, <1>4, <1>5 DEF ContentInv

\* The summary of the run in progress is written; when it is whole, it fits.
LEMMA SummaryContent ==
  ASSUME IInv, ContentInv, NEW s, summary' = [summary EXCEPT ![SummaryFile] = s],
         s.text \in {"none", "torn", "whole"},
         s.max_bucket \in {Missing} \cup -1 .. WordBits - 1,
         step' = "text" => s.csv = CsvFile,
         s.text = "whole" =>
           /\ s.csv = CsvFile
           /\ Cardinality(csv[CsvFile].rows) = MAX_SLOTS[csv[CsvFile].tool] => Fits(s, csv[CsvFile]),
         step \in {"summary", "text"}, step' \in {"text", "saved", "failed"},
         UNCHANGED <<tool, suffixes, counts, run, csv>>
  PROVE  ContentInv'
<1>1. /\ SummaryFile \in Names /\ CsvFile' = CsvFile /\ SummaryFile' = SummaryFile
      /\ summary' = [n \in Names |-> summary'[n]] /\ summary'[SummaryFile] = s
      /\ \A n \in Names : n # SummaryFile => summary'[n] = summary[n]
  BY FileNames DEF IInv, FilesInv, CsvFile, SummaryFile
<1>2. RowsInv'
  BY DEF ContentInv, RowsInv, RowsOf
<1>3. CountsInv'
  BY <1>1 DEF ContentInv, CountsInv, Buckets
<1>4. SummariesInv'
  BY <1>1 DEF ContentInv, SummariesInv, Stopped
<1>5. SummaryFitsRows'
  <2> SUFFICES ASSUME NEW n \in Names, summary'[n].text = "whole",
                      csv[summary'[n].csv].run = summary'[n].run,
                      Cardinality(csv[summary'[n].csv].rows) = MAX_SLOTS[csv[summary'[n].csv].tool]
               PROVE  Fits(summary'[n], csv[summary'[n].csv])
    BY DEF SummaryFitsRows, Fits
  <2>1. CASE n = SummaryFile
    BY <1>1, <2>1
  <2>2. CASE n # SummaryFile
    BY <1>1, <2>2 DEF ContentInv, SummaryFitsRows
  <2> QED
    BY <2>1, <2>2
<1> QED
  BY <1>2, <1>3, <1>4, <1>5 DEF ContentInv

\* The row that is printed next is well formed and of a new bucket.
LEMMA RowPrinted ==
  ASSUME IInv, ContentInv, step = "rows", Bucket < MAX_SLOTS[tool],
         NEW written \in {{}, {Row}}, NEW c,
         c = [csv[CsvFile] EXCEPT !.rows = @ \cup written, !.next = @ + 1]
  PROVE  RowsOf(c) /\ \A r \in c.rows : r.count = counts[r.bucket]
<1> DEFINE o == csv[CsvFile]
<1>1. CsvFile \in Names /\ o.tool = tool /\ tool \in Tools /\ IsCsv(o) /\ o.next \in Nat
  BY FileNames DEF IInv, FilesInv, StepInv
<1>2. RowsOf(o) /\ \A r \in o.rows : r.count = counts[r.bucket]
  BY <1>1 DEF ContentInv, RowsInv, CountsInv
<1>3. Bucket = o.next
  BY DEF Bucket
<1>4. MAX_SLOTS[tool] \in 1 .. WordBits /\ WordBits \in Nat
  BY <1>1, Slots
<1> HIDE DEF o
<1>5. c.rows = o.rows \cup written /\ c.next = o.next + 1 /\ c.tool = tool
  BY <1>1 DEF IsCsv, o
<1>6. /\ Row.bucket = o.next /\ Row.count = counts[o.next]
      /\ Row.lo = Shl(o.next) /\ Row.hi = Shl(o.next + 1)
      /\ Row \in [bucket : 0 .. o.next, lo : Words, hi : Words, count : 0 .. MaxCount]
  <2>1. o.next \in 0 .. WordBits /\ o.next + 1 \in 0 .. WordBits
    BY <1>1, <1>3, <1>4
  <2>2. Shl(o.next) \in Words /\ Shl(o.next + 1) \in Words
    BY <2>1, ShlFacts
  <2>3. counts[o.next] \in 0 .. MaxCount
    BY <1>1, <1>3, <1>4 DEF ContentInv, CountsInv, Buckets
  <2> QED
    BY <1>1, <1>3, <2>2, <2>3 DEF Row, bucketRangeUs
<1>7. \A r \in o.rows :
        /\ r \in [bucket : 0 .. o.next - 1, lo : Words, hi : Words, count : 0 .. MaxCount]
        /\ r.lo = Shl(r.bucket) /\ r.hi = Shl(r.bucket + 1)
        /\ r.bucket # o.next
  BY <1>1, <1>2 DEF RowsOf
<1>8. \A r \in c.rows :
        /\ r \in [bucket : 0 .. c.next - 1, lo : Words, hi : Words, count : 0 .. MaxCount]
        /\ r.lo = Shl(r.bucket) /\ r.hi = Shl(r.bucket + 1)
        /\ r.count = counts[r.bucket]
  <2> SUFFICES ASSUME NEW r \in c.rows
               PROVE  /\ r \in [bucket : 0 .. c.next - 1, lo : Words, hi : Words, count : 0 .. MaxCount]
                      /\ r.lo = Shl(r.bucket) /\ r.hi = Shl(r.bucket + 1)
                      /\ r.count = counts[r.bucket]
    OBVIOUS
  <2>1. 0 .. o.next - 1 \subseteq 0 .. c.next - 1 /\ c.next - 1 = o.next
    BY <1>1, <1>5
  <2>2. CASE r \in o.rows
    BY <1>2, <1>7, <2>1, <2>2
  <2>3. CASE r = Row
    BY <1>6, <2>1, <2>3
  <2> QED
    BY <1>5, <2>2, <2>3
<1>9. \A r, q \in c.rows : r.bucket = q.bucket => r = q
  BY <1>2, <1>5, <1>6, <1>7 DEF RowsOf
<1>10. c.next <= MAX_SLOTS[c.tool]
  BY <1>1, <1>3, <1>4, <1>5
<1> QED
  BY <1>8, <1>9, <1>10 DEF RowsOf

\* The summary of the counts fits the CSV of the run, if no row was lost.
LEMMA SummaryFits ==
  ASSUME IInv, ContentInv, step = "text", NEW s,
         s.total = SumFunction(counts),
         s.tail = OfRunqlat(sumTail), s.max_bucket = OfRunqlat(maxBucket),
         Cardinality(csv[CsvFile].rows) = MAX_SLOTS[csv[CsvFile].tool]
  PROVE  Fits(s, csv[CsvFile])
<1> DEFINE c == csv[CsvFile]
           B == Buckets(tool)
<1>1. CsvFile \in Names /\ c.tool = tool /\ tool \in Tools /\ c.next \in Nat
  BY FileNames DEF IInv, FilesInv, StepInv
<1>2. /\ RowsOf(c) /\ \A r \in c.rows : r.count = counts[r.bucket]
      /\ counts \in [B -> 0 .. MaxCount]
  BY <1>1 DEF ContentInv, RowsInv, CountsInv
<1>3. Cardinality(c.rows) = MAX_SLOTS[c.tool]
  OBVIOUS
<1> HIDE DEF c
<1>4. /\ IsFiniteSet(c.rows)
      /\ \A b \in B : \E r \in c.rows : r.bucket = b
      /\ \A r \in c.rows : r.bucket \in B
  BY <1>1, <1>2, <1>3, RowsComplete
<1>5. \A r, q \in c.rows : r.bucket = q.bucket => r = q
  BY <1>2 DEF RowsOf
<1>6. \A r \in c.rows : r.bucket \in B /\ r.count = counts[r.bucket] /\ r.count \in Nat
  BY <1>2, <1>4, OutputAssumption
<1>7. s.total = SumFunction([r \in c.rows |-> r.count])
  <2>1. SumFunction([r \in c.rows |-> r.count]) = SumFunctionOnSet(counts, B)
    BY <1>4, <1>5, <1>6, SumOfRows
  <2>2. DOMAIN counts = B
    BY <1>2
  <2> QED
    BY <2>1, <2>2 DEF SumFunction
<1>8. ASSUME c.tool = "runqlat"
      PROVE  s.tail = SumFunction([r \in {q \in c.rows : q.lo >= TailThreshold} |-> r.count])
  <2> DEFINE R == {q \in c.rows : q.lo >= TailThreshold}
             L == {b \in B : b >= tailStart}
  <2>1. B = Buckets("runqlat")
    BY <1>1, <1>8
  <2>2. \A r \in c.rows : r.lo >= TailThreshold <=> r.bucket >= tailStart
    BY <1>1, <1>2, <1>8, TailOfRows
  <2>3. IsFiniteSet(R)
    BY <1>4, FS_Subset
  <2>4. \A b \in L : \E r \in R : r.bucket = b
    BY <1>4, <2>2
  <2>5. \A r, q \in R : r.bucket = q.bucket => r = q
    BY <1>5
  <2>6. \A r \in R : r.bucket \in L /\ r.count = counts[r.bucket] /\ r.count \in Nat
    BY <1>6, <2>2
  <2>7. sumTail = SumFunctionOnSet(counts, L)
    <3>1. DOMAIN counts = B
      BY <1>2
    <3> QED
      BY <3>1 DEF sumTail
  <2>9. s.tail = sumTail
    BY <1>1, <1>8 DEF OfRunqlat
  <2> HIDE DEF R, L
  <2>8. SumFunction([r \in R |-> r.count]) = SumFunctionOnSet(counts, L)
    BY <2>3, <2>4, <2>5, <2>6, SumOfRows
  <2> QED
    BY <2>7, <2>8, <2>9 DEF R
<1>9. ASSUME c.tool = "runqlat"
      PROVE  \A r \in c.rows : /\ r.bucket = s.max_bucket => r.count > 0
                               /\ r.bucket > s.max_bucket => r.count = 0
  <2>1. /\ maxBucket # -1 => counts[maxBucket] > 0
        /\ \A b \in B : b > maxBucket => counts[b] = 0
    BY <1>1, <1>2, MaxBucket
  <2>2. \A r \in c.rows : r.bucket # -1
    BY <1>4 DEF Buckets
  <2>3. s.max_bucket = maxBucket
    BY <1>1, <1>9 DEF OfRunqlat
  <2> QED
    BY <1>6, <2>1, <2>2, <2>3
<1> QED
  BY <1>7, <1>8, <1>9 DEF Fits, c

\* Every step keeps ContentInv while IInv holds: one case per action.
LEMMA NextContent ==
  ASSUME IInv, ContentInv, [Next]_vars
  PROVE  ContentInv'
<1>0. /\ CsvFile \in Names /\ SummaryFile \in Names /\ tool \in Tools
      /\ IsCsv(csv[CsvFile]) /\ IsSummary(summary[SummaryFile]) /\ IsCsv(NoCsv) /\ IsSummary(NoSummary)
      /\ run \in Nat
  BY FileNames DEF IInv, FilesInv, IsCsv, IsSummary, NoCsv, NoSummary
<1>1. ASSUME NEW t \in Tools, NEW n \in 0 .. 1, NEW c \in [Buckets(t) -> 0 .. MaxCount],
             Collect(t, n, c)
      PROVE  ContentInv'
  <2>1. CountsInv'
    BY <1>0, <1>1, OutputAssumption DEF Collect, CountsInv, Buckets
  <2> QED
    BY <1>1, <2>1, ContentStill DEF Collect, Stopped
<1>2. CASE MkdirAll \/ CloseCsv \/ Kill \/ UNCHANGED vars
  <2>1. CountsInv'
    BY <1>2 DEF MkdirAll, CloseCsv, Kill, vars, ContentInv, CountsInv, Buckets, CsvFile, SummaryFile
  <2>2. step' \in Stopped \cup {"dir", "csv", "rows", "summary", "text"}
    BY <1>2 DEF MkdirAll, CloseCsv, Kill, vars, ContentInv, SummariesInv, Stopped
  <2> QED
    BY <1>2, <2>1, <2>2, ContentStill DEF MkdirAll, CloseCsv, Kill, vars
<1>3. CASE CreateCsv
  <2> PICK c : c = [NoCsv EXCEPT !.run = run, !.tool = tool]
    OBVIOUS
  <2>1. c.run = run /\ RowsOf(c) /\ c.rows = {}
    BY <1>0, Slots DEF NoCsv, RowsOf
  <2>2. csv' = [csv EXCEPT ![CsvFile] = c] /\ step = "csv" /\ step' = "rows"
        /\ UNCHANGED <<tool, suffixes, counts, run, summary>>
    BY <1>3 DEF CreateCsv
  <2> QED
    BY <2>1, <2>2, CsvContent
<1>4. CASE PrintRow
  <2> PICK written \in {{}, {Row}} :
        csv' = [csv EXCEPT ![CsvFile].rows = @ \cup written, ![CsvFile].next = @ + 1]
    BY <1>4 DEF PrintRow
  <2> PICK c : c = [csv[CsvFile] EXCEPT !.rows = @ \cup written, !.next = @ + 1]
    OBVIOUS
  <2>1. csv' = [csv EXCEPT ![CsvFile] = c]
    OBVIOUS
  <2>2. step = "rows" /\ step' = "rows" /\ Bucket < MAX_SLOTS[tool]
        /\ UNCHANGED <<tool, suffixes, counts, run, summary>>
    BY <1>4 DEF PrintRow
  <2>3. c.run = run
    BY <1>0, <2>2 DEF IsCsv, IInv, StepInv
  <2>4. RowsOf(c) /\ \A r \in c.rows : r.count = counts[r.bucket]
    BY <2>2, RowPrinted
  <2> QED
    BY <2>1, <2>2, <2>3, <2>4, CsvContent
<1>5. CASE CreateSummary
  <2> PICK s : s = [NoSummary EXCEPT !.run = run, !.csv = CsvFile]
    OBVIOUS
  <2>1. s.text = "none" /\ s.max_bucket = Missing /\ s.csv = CsvFile
    BY DEF NoSummary
  <2>2. summary' = [summary EXCEPT ![SummaryFile] = s] /\ step = "summary" /\ step' = "text"
        /\ UNCHANGED <<tool, suffixes, counts, run, csv>>
    BY <1>5 DEF CreateSummary
  <2> QED
    BY <2>1, <2>2, SummaryContent
<1>6. ASSUME NEW text \in {"torn", "whole"}, Summarise(text), step = "text",
             step' \in {"saved", "failed"}, UNCHANGED <<tool, suffixes, counts, run, csv>>
      PROVE  ContentInv'
  <2> PICK s :
        s = [summary[SummaryFile] EXCEPT !.text = text, !.total = SumFunction(counts),
               !.tail = OfRunqlat(sumTail), !.max_bucket = OfRunqlat(maxBucket)]
    OBVIOUS
  <2>1. summary' = [summary EXCEPT ![SummaryFile] = s]
    BY <1>6 DEF Summarise
  <2>2. s.text = text /\ s.total = SumFunction(counts) /\ s.tail = OfRunqlat(sumTail)
        /\ s.max_bucket = OfRunqlat(maxBucket) /\ s.csv = summary[SummaryFile].csv
    BY <1>0 DEF IsSummary
  <2>3. s.csv = CsvFile
    BY <1>6, <2>2 DEF ContentInv, CountsInv
  <2>4. OfRunqlat(maxBucket) \in {Missing} \cup -1 .. WordBits - 1
    <3>1. maxBucket \in -1 .. MAX_SLOTS[tool] - 1
      BY <1>0, MaxBucket DEF ContentInv, CountsInv
    <3> QED
      BY <1>0, <3>1, Slots DEF OfRunqlat
  <2>5. Cardinality(csv[CsvFile].rows) = MAX_SLOTS[csv[CsvFile].tool] => Fits(s, csv[CsvFile])
    BY <1>6, <2>2, SummaryFits
  <2> QED
    BY <1>6, <2>1, <2>2, <2>3, <2>4, <2>5, SummaryContent
<1>7. CASE WriteSummary
  BY <1>6, <1>7 DEF WriteSummary
<1>8. CASE Fails
  <2>1. CASE UNCHANGED summary
    <3>1. CountsInv'
      BY <1>8 DEF Fails, ContentInv, CountsInv, Buckets
    <3> QED
      BY <1>8, <2>1, <3>1, ContentStill DEF Fails, Stopped
  <2>2. CASE step = "text" /\ Summarise("torn")
    BY <1>6, <1>8, <2>2 DEF Fails
  <2> QED
    BY <1>8, <2>1, <2>2 DEF Fails
<1> QED
  BY <1>1, <1>2, <1>3, <1>4, <1>5, <1>7, <1>8 DEF Next

\* ContentInv, with IInv, covers every step of every run.
THEOREM OutputContent == Spec => [](IInv /\ ContentInv)
<1>1. IInv /\ ContentInv /\ [Next]_vars => ContentInv'
  BY NextContent
<1> QED
  BY <1>1, InitContent, OutputInvariant, PTL DEF Spec

\* The variables and what the files say keep their types: every bound that is
\* printed fits a uint64, also that of the last bucket.
THEOREM OutputTypes == Spec => []TypeOK
<1>1. IInv /\ ContentInv => TypeOK
  <2> SUFFICES ASSUME IInv, ContentInv PROVE TypeOK
    OBVIOUS
  <2>1. run \in 0 .. MaxRuns /\ MaxRuns \in Nat
    BY OutputAssumption DEF IInv, FilesInv, ContentInv, CountsInv
  <2>2. ASSUME NEW n \in Names
        PROVE  /\ csv[n].run \in 0 .. MaxRuns /\ csv[n].tool \in Tools
               /\ csv[n].next \in 0 .. MAX_SLOTS[csv[n].tool]
               /\ csv[n].rows \subseteq [bucket : Nat, lo : Words, hi : Words, count : 0 .. MaxCount]
               /\ summary[n].run \in 0 .. MaxRuns /\ summary[n].csv \in Names
    <3>1. /\ csv[n].run \in 0 .. run /\ csv[n].tool \in Tools /\ csv[n].next \in Nat
          /\ summary[n].run \in 0 .. run /\ summary[n].csv \in Names
      BY DEF IInv, FilesInv
    <3>2. /\ csv[n].next <= MAX_SLOTS[csv[n].tool]
          /\ \A r \in csv[n].rows : r \in [bucket : 0 .. csv[n].next - 1, lo : Words,
                                           hi : Words, count : 0 .. MaxCount]
      BY DEF ContentInv, RowsInv, RowsOf
    <3>3. MAX_SLOTS[csv[n].tool] \in Nat
      BY <3>1, Slots
    <3> QED
      BY <2>1, <3>1, <3>2, <3>3
  <2> QED
    BY <2>1, <2>2 DEF IInv, FilesInv, ContentInv, CountsInv, SummariesInv, TypeOK
<1> QED
  BY <1>1, OutputContent, PTL

\* The ranges that saveCSV prints neither overlap nor leave a gap, for words and
\* histograms of every size, whichever rows were lost.
THEOREM OutputRowsTile == Spec => []RowsTile
<1>1. IInv /\ ContentInv => RowsTile
  <2> SUFFICES ASSUME IInv, ContentInv, NEW n \in Names,
                      NEW r \in csv[n].rows, NEW q \in csv[n].rows
               PROVE  /\ r.bucket < q.bucket => r.hi <= q.lo
                      /\ q.bucket = r.bucket + 1 => r.hi = q.lo
                      /\ r.lo < r.hi \/ (r.bucket = WordBits - 1 /\ r.hi = 0)
    BY DEF RowsTile
  <2>1. /\ csv[n].tool \in Tools /\ csv[n].next \in Nat
        /\ csv[n].next <= MAX_SLOTS[csv[n].tool]
        /\ r.bucket \in 0 .. csv[n].next - 1 /\ q.bucket \in 0 .. csv[n].next - 1
        /\ r.lo = Shl(r.bucket) /\ r.hi = Shl(r.bucket + 1) /\ q.lo = Shl(q.bucket)
    BY DEF IInv, FilesInv, ContentInv, RowsInv, RowsOf
  <2>2. /\ WordBits \in Nat
        /\ r.bucket \in 0 .. WordBits /\ r.bucket < WordBits /\ r.bucket + 1 \in 0 .. WordBits
        /\ q.bucket \in 0 .. WordBits /\ q.bucket < WordBits
    BY <2>1, Slots
  <2>3. /\ r.lo = 2 ^ r.bucket /\ q.lo = 2 ^ q.bucket
        /\ r.bucket + 1 < WordBits => r.hi = 2 ^ (r.bucket + 1)
        /\ r.bucket + 1 = WordBits => r.hi = 0
    BY <2>1, <2>2, ShlFacts
  <2>4. /\ 2 ^ r.bucket \in Nat /\ 2 ^ q.bucket \in Nat /\ 2 ^ (r.bucket + 1) \in Nat
        /\ 2 ^ r.bucket < 2 ^ (r.bucket + 1)
        /\ ~(q.bucket < r.bucket + 1) => ~(2 ^ q.bucket < 2 ^ (r.bucket + 1))
    <3>1. r.bucket \in Nat /\ q.bucket \in Nat /\ r.bucket + 1 \in Nat /\ r.bucket < r.bucket + 1
      BY <2>2
    <3> QED
      BY <3>1, PowerStep, PowerMonotone
  <2>5. r.bucket < q.bucket => r.hi <= q.lo
    BY <2>2, <2>3, <2>4
  <2>6. q.bucket = r.bucket + 1 => r.hi = q.lo
    BY <2>1
  <2>7. r.lo < r.hi \/ (r.bucket = WordBits - 1 /\ r.hi = 0)
    BY <2>2, <2>3, <2>4
  <2> QED
    BY <2>5, <2>6, <2>7
<1> QED
  BY <1>1, OutputContent, PTL

\* What a whole summary says is what the rows of its CSV add up to: the total in
\* those of all three tools, the tail and the last bucket in runqlat's, the only
\* one that states them, for any number of buckets, any counts and any threshold.
THEOREM OutputSummaryFitsRows == Spec => []SummaryFitsRows
<1>1. ContentInv => SummaryFitsRows
  BY DEF ContentInv
<1> QED
  BY <1>1, OutputContent, PTL
=============================================================================
