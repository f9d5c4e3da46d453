------------------------------ MODULE ErrorBudgets ------------------------------
(***************************************************************************)
(* What is made of the tables the other components write: the summaries of *)
(* the SLI collector (slo/sli-collector.ts) and the error budgets          *)
(* (scripts/calculate-error-budget.ts), two judgements of the same rows.   *)
(* Latencies are kept beside them and never judged.                        *)
(*                                                                         *)
(* A table is the tally of its newest rows; which row is the oldest is not *)
(* kept, so that any row may be the one that leaves the window.            *)
(***************************************************************************)
EXTENDS Integers, FiniteSets

CONSTANTS
    Limit,          \* rows that are read (50 in the script)
    BudgetPercent   \* budgetPercentPerWindow, 5 unless the policy says so

Indicators == {"notification", "pickup", "create", "schedule", "audit"}

(* The outcomes that are written, and those that count as a success.       *)
Outcomes ==
    [notification |-> {"sent", "failed", "unknown"},
     pickup   |-> {"running", "waiting_approval", "completed", "failed", "cancelled"},
     create   |-> {"completed", "failed", "cancelled"},
     schedule |-> {"completed", "failed"},
     audit    |-> {"success", "failure"}]

Successes ==
    [notification |-> {"delivered", "sent"}, pickup |-> {"completed", "running"},
     create |-> {"completed"}, schedule |-> {"completed", "success"},
     audit |-> {"success", "ok"}]

VARIABLES
    indicator,  \* the one that is looked at
    passed,     \* rows in the window that pass
    failed      \* rows in the window that fail

vars == <<indicator, passed, failed>>

Count == passed + failed

Init == indicator \in Indicators /\ passed = 0 /\ failed = 0

Row ==
    \E outcome \in Outcomes[indicator] :
        /\ Count < Limit
        /\ IF outcome \in Successes[indicator] THEN passed' = passed + 1 /\ UNCHANGED failed
           ELSE failed' = failed + 1 /\ UNCHANGED passed

(* A task that runs, and has been picked up in time for all that is known, *)
(* ends: its pickup turns into a failure when the task fails.              *)
Ends ==
    /\ indicator = "pickup" /\ passed > 0
    /\ passed' = passed - 1 /\ failed' = failed + 1

(* The window moves on.                                                    *)
Leaves ==
    /\ Count = Limit
    /\ \/ passed > 0 /\ passed' = passed - 1 /\ UNCHANGED failed
       \/ failed > 0 /\ failed' = failed - 1 /\ UNCHANGED passed

Next == (Row \/ Ends \/ Leaves) /\ UNCHANGED indicator

Spec == Init /\ [][Next]_vars

-----------------------------------------------------------------------------
(* computeSliSummary.  The rates are rounded to hundredths of a percent.   *)
AtLeast(permille) == passed * 1000 >= permille * Count

SummaryStatus ==
    CASE Count < 5 -> "insufficient_data"
      [] Count >= 5 /\ AtLeast(995) -> "healthy"
      [] Count >= 5 /\ ~AtLeast(995) /\ AtLeast(950) -> "degraded"
      [] OTHER -> "critical"

SuccessRate == IF Count = 0 THEN 0 ELSE (20000 * passed + Count) \div (2 * Count)

(* Mutant: a share where a percentage is meant.                            *)
Consumed_Share == (10000 - SuccessRate) \div 100

(* In hundredths of a percent of all rows, not of the budget.  The branch  *)
(* for a rate of 100 always meets a target of at most 100.                 *)
Consumed == 10000 - SuccessRate

BudgetStatus ==
    CASE Count = 0 -> "insufficient_data"
      [] Count > 0 /\ Consumed >= 10000 -> "exhausted"
      [] Count > 0 /\ Consumed < 10000 /\ Consumed >= 70 * BudgetPercent -> "warning"
      [] OTHER -> "healthy"

(* The two judgements of the same rows agree at the ends: what the summary *)
(* calls critical has no healthy budget, what it calls healthy has one,    *)
(* and a budget is exhausted when nothing at all has passed and not before.*)
JudgementsAgree ==
    /\ SummaryStatus = "critical" => BudgetStatus \in {"warning", "exhausted"}
    /\ SummaryStatus = "healthy" => BudgetStatus = "healthy"
    /\ BudgetStatus = "exhausted" <=> Count > 0 /\ passed = 0
=============================================================================
