-------------------------------- MODULE Baseline --------------------------------
(***************************************************************************)
(* The performance baseline (scripts/run-performance-baseline.ts): runs of *)
(* the script that measure all benchmarks or those of one component,       *)
(* compare with the baseline file and may replace it.  A time is a whole   *)
(* number of units; a benchmark that only fails has the median 0.          *)
(***************************************************************************)
EXTENDS Integers

CONSTANTS
    Benchmarks,
    Component,      \* benchmark -> its component
    Measured,       \* benchmark -> measured runs
    Medians,        \* medians that are measured
    Limit           \* latencyRegressionPercent

WarmUp == 2
Skipped == -1

VARIABLES
    flags,      \* the run of the script: its component and whether it updates
    baseline,   \* BASELINE_PATH: benchmark -> medianMs
    results,    \* benchmark -> its result in this run, when it is there
    named,      \* the regressions the last run named
    good,       \* benchmark -> the last median that an update measured (history)
    lost        \* benchmarks a later update skipped, or saw only fail (history)

vars == <<flags, baseline, results, named, good, lost>>

Nothing == [b \in {} |-> 0]
NoRun == [filter |-> "", update |-> FALSE, on |-> FALSE]

Init ==
    /\ flags = NoRun /\ baseline = Nothing /\ results = Nothing /\ named = {}
    /\ good = [b \in Benchmarks |-> 0] /\ lost = {}

(* measuredRun: the warm-up runs count as errors, not as times.            *)
Counted(warm, measured) == warm + measured

(* benchmark: more than three in ten fail, more than one in ten warns.     *)
Judged(b, count) ==
    CASE 10 * count > 3 * Measured[b] -> "fail"
      [] 10 * count <= 3 * Measured[b] /\ 10 * count > Measured[b] -> "warn"
      [] OTHER -> "pass"

With(b, result) ==
    [c \in DOMAIN results \union {b} |-> IF c = b THEN result ELSE results[c]]

(* What running a benchmark comes to; no time is left when all runs fail.  *)
Measures(b) ==
    \E warm \in 0..WarmUp, failed \in 0..Measured[b], median \in Medians :
        results' = With(b,
            [median |-> IF failed = Measured[b] THEN 0 ELSE median,
             status |-> Judged(b, Counted(warm, failed))])

SkipResult(b) == results' = With(b, [median |-> Skipped, status |-> "pass"])

Begin ==
    /\ ~flags.on /\ results' = Nothing /\ named' = {}
    /\ \E filter \in {""} \union {Component[b] : b \in Benchmarks}, update \in BOOLEAN :
           flags' = [filter |-> filter, update |-> update, on |-> TRUE]
    /\ UNCHANGED <<baseline, good, lost>>

(* benchmark, in any order: they have nothing to do with each other.       *)
Benchmark(b) ==
    /\ flags.on /\ b \notin DOMAIN results
    /\ IF flags.filter \in {"", Component[b]} THEN Measures(b) ELSE SkipResult(b)
    /\ UNCHANGED <<flags, baseline, named, good, lost>>

(* compareWithBaseline.                                                    *)
Silent(b) == b \notin DOMAIN baseline \/ baseline[b] <= 0 \/ results[b].median < 0

Regressions ==
    {b \in Benchmarks :
        ~Silent(b) /\ 100 * (results[b].median - baseline[b]) > Limit * baseline[b]}

Entries(ids) == [b \in ids |-> results[b].median]

(* Mutant: only what passed is saved.                                      *)
Saved_Passed == Entries({b \in Benchmarks : results[b].status = "pass"})

(* saveBaseline: every result, what was skipped as well.                   *)
Saved == Entries(Benchmarks)

(* main: the baseline is compared with before it is replaced.              *)
Main ==
    /\ flags.on /\ DOMAIN results = Benchmarks
    /\ flags' = NoRun /\ results' = Nothing /\ named' = Regressions
    /\ IF flags.update
       THEN /\ baseline' = Saved
            /\ good' = [b \in Benchmarks |->
                          IF results[b].median > 0 THEN results[b].median ELSE good[b]]
            /\ lost' = {b \in Benchmarks : results[b].median <= 0}
       ELSE UNCHANGED <<baseline, good, lost>>

Next == Begin \/ Main \/ \E b \in Benchmarks : Benchmark(b)

Spec == Init /\ [][Next]_vars

-----------------------------------------------------------------------------
(* Properties.                                                             *)

(* A benchmark that is slower, beyond the limit, than the last update      *)
(* measured it is named, unless an update since then has skipped it (it    *)
(* ran for another component) or has only seen it fail: then the file has  *)
(* lost it, and nothing says so.                                           *)
RegressionsNamed ==
    [][flags.on /\ ~flags'.on =>
          \A b \in Benchmarks :
              good[b] > 0 /\ 100 * (results[b].median - good[b]) > Limit * good[b]
                  => b \in named' \/ b \in lost]_vars
=============================================================================
