------------------------------- MODULE Measures -------------------------------
(***************************************************************************)
(* What is made of stored runs: aggregateRuns and failureCategoryCounts    *)
(* (packages/evaluator/src/index.ts) for the dashboard, and analyzeRuns    *)
(* (analysis.ts) for the study reports.  Pure definitions.                 *)
(*                                                                         *)
(* A run is [configuration, task, startedAt, latency, terminal, score,     *)
(* category, manual]; cost and tokens are measured as latency is.  Rates   *)
(* are pairs, percentiles are counted in tenths and medians in halves.  A  *)
(* list of numbers is a function of whatever the numbers belong to: what   *)
(* is made of them does not depend on the order they are listed in.        *)
(***************************************************************************)
EXTENDS Integers, Sequences, FiniteSets, SequencesExt

(* The k-th of the values in ascending order. *)
Ranked(values, k) ==
  CHOOSE v \in Range(values) : /\ Cardinality({i \in DOMAIN values : values[i] < v}) < k
                               /\ Cardinality({i \in DOMAIN values : values[i] <= v}) >= k
Sorted(values) == [k \in 1..Cardinality(DOMAIN values) |-> Ranked(values, k)]

Total(values) ==
  LET sum[n \in 0..Len(values)] == IF n = 0 THEN 0 ELSE sum[n - 1] + values[n]
  IN  sum[Len(values)]

Each(f(_), runs) == [i \in DOMAIN runs |-> f(runs[i])]
Latencies(runs) == Each(LAMBDA run : run.latency, runs)

(* Runs are counted by their places. *)
Resolved(runs) == {i \in DOMAIN runs : runs[i].terminal = "resolved"}
Scored(runs) == {i \in DOMAIN runs : runs[i].score # "null"}
Correct(runs) == {i \in DOMAIN runs : runs[i].score = "passed"}
Belonging(configuration, runs) == {i \in DOMAIN runs : runs[i].configuration = configuration}
LatenciesOf(configuration, runs) ==
  [i \in Belonging(configuration, runs) |-> runs[i].latency]
Configurations(runs) == {runs[i].configuration : i \in DOMAIN runs}

-----------------------------------------------------------------------------
(* median, in halves. *)
Median(values) ==
  LET sorted == Sorted(values)
      middle == Len(sorted) \div 2
  IN  IF Len(sorted) % 2 = 0 THEN sorted[middle] + sorted[middle + 1]
      ELSE 2 * sorted[middle + 1]

(* percentile, in tenths, of a quantile in tenths: the value at an index   *)
(* between two places is interpolated.                                     *)
Percentile(sorted, quantile) ==
  LET index == (Len(sorted) - 1) * quantile
      lower == index \div 10
  IN  IF index % 10 = 0 THEN 10 * sorted[lower + 1]
      ELSE 10 * sorted[lower + 1] + (sorted[lower + 2] - sorted[lower + 1]) * (index % 10)

NoSummary == [count |-> 0]

Summarize(values) ==
  LET sorted == Sorted(values)
  IN  IF DOMAIN values = {} THEN NoSummary
      ELSE [count |-> Len(sorted), min |-> 10 * sorted[1], p10 |-> Percentile(sorted, 1),
            median |-> Percentile(sorted, 5), p90 |-> Percentile(sorted, 9),
            max |-> 10 * sorted[Len(sorted)]]

-----------------------------------------------------------------------------
(* The category a run is counted under: a reviewer's, else the automatic   *)
(* one; a correction to no category leaves the automatic one.              *)
Counted(run) ==
  IF run.manual \notin {"absent", "null"} THEN {run.manual} ELSE {run.category} \ {"null"}

FailureCategoryCounts(runs) ==
  [category \in UNION {Counted(runs[i]) : i \in DOMAIN runs} |->
     Cardinality({i \in DOMAIN runs : category \in Counted(runs[i])})]

(* Mutant: runs that have no score count as wrong. *)
CorrectnessOfAll(runs, places) ==
  <<Cardinality(Correct(runs) \cap places), Cardinality(places)>>

(* meanOrNull of the scores: those without one are left out. *)
Correctness(runs, places) ==
  IF Scored(runs) \cap places = {} THEN <<>>
  ELSE <<Cardinality(Correct(runs) \cap places), Cardinality(Scored(runs) \cap places)>>

Tally(runs, places) ==
  [total |-> Cardinality(places), resolved |-> Cardinality(Resolved(runs) \cap places),
   correctness |-> Correctness(runs, places)]

Aggregated(runs) ==
  [overall |-> Tally(runs, DOMAIN runs),
   medianRuntime |-> IF runs = <<>> THEN <<>> ELSE <<Median(Latencies(runs))>>,
   runtime |-> Total(Latencies(runs)),
   categories |-> FailureCategoryCounts(runs),
   byConfiguration |-> [c \in Configurations(runs) |-> Tally(runs, Belonging(c, runs))]]

-----------------------------------------------------------------------------
(* The places of the runs of a configuration that are of the task. *)
Group(runs, configuration, task) ==
  {i \in Belonging(configuration, runs) : runs[i].task = task}

Earlier(runs, i, j) ==
  \/ runs[i].startedAt < runs[j].startedAt
  \/ runs[i].startedAt = runs[j].startedAt /\ i < j

(* Mutant: the runs of a task stay in the order the files were read. *)
OccurrencesAsRead(runs, configuration, task) ==
  LET own == Group(runs, configuration, task)
  IN  [k \in 1..Cardinality(own) |->
         CHOOSE i \in own : Cardinality({j \in own : j < i}) = k - 1]

(* groupByTask: the group in the order its runs were started, those of the *)
(* same moment in the order their files were read.                         *)
Occurrences(runs, configuration, task) ==
  LET own == Group(runs, configuration, task)
  IN  [k \in 1..Cardinality(own) |->
         CHOOSE i \in own : Cardinality({j \in own : Earlier(runs, j, i)}) = k - 1]

(* For each task of the left configuration, the first of its runs with the *)
(* first of the right one, the second with the second, while both have one. *)
Pairs(runs, left, right) ==
  LET tasks == {runs[i].task : i \in Belonging(left, runs)}
      byTask == [c \in {left, right} |-> [task \in tasks |-> Occurrences(runs, c, task)]]
      places == {place \in tasks \X DOMAIN runs :
                   \A c \in {left, right} : place[2] \in DOMAIN byTask[c][place[1]]}
  IN  [place \in places |-> <<byTask[left][place[1]][place[2]],
                              byTask[right][place[1]][place[2]]>>]

(* A comparison of two configurations: the differences, and whether there  *)
(* are pairs enough for an interval.                                       *)
EnoughPairs == 10

Compared(runs, left, right) ==
  LET pairs == Pairs(runs, left, right)
      scored == {place \in DOMAIN pairs : \A n \in {1, 2} : pairs[place][n] \in Scored(runs)}
      Score(i) == IF i \in Correct(runs) THEN 1 ELSE 0
  IN  [pairedTasks |-> Cardinality({place[1] : place \in DOMAIN pairs}),
       latency |-> Summarize([place \in DOMAIN pairs |->
                      runs[pairs[place][2]].latency - runs[pairs[place][1]].latency]),
       score |-> Summarize([place \in scored |->
                      Score(pairs[place][2]) - Score(pairs[place][1])]),
       bootstrap |-> Cardinality(DOMAIN pairs) >= EnoughPairs]

(* Two different configurations are compared once, the one whose name is   *)
(* first on the left; which that is does not matter here.                  *)
Analysed(runs) ==
  [overall |-> Tally(runs, DOMAIN runs),
   latency |-> Summarize(Latencies(runs)),
   byConfiguration |-> [c \in Configurations(runs) |->
                          [tally |-> Tally(runs, Belonging(c, runs)),
                           latency |-> Summarize(LatenciesOf(c, runs))]],
   compared |-> [p \in {q \in Configurations(runs) \X Configurations(runs) : q[1] # q[2]} |->
                   Compared(runs, p[1], p[2])]]
=============================================================================
