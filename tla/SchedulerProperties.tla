------------------------ MODULE SchedulerProperties ------------------------
(***************************************************************************)
(* What the scheduler engine is expected to satisfy.                       *)
(***************************************************************************)
EXTENDS Scheduler

RunsOf(s) == {r \in RunIds : r <= runs /\ run[r].schedule = s}

(* Type invariant.                                                         *)
SchedulerTypeOK ==
    /\ schedule \in [Schedules -> Row]
    /\ run \in [RunIds -> Run \union {NoRow}]
    /\ status \in [RunIds -> Statuses]
    /\ runs \in 0..MaxRuns
    /\ task \in [RunIds -> {"none", "open", "ended"}]
    /\ tick \in [TickIds -> TickState]
    /\ turn \in TickIds \union {None}
    /\ now \in 0..MaxTime /\ restarts \in 0..MaxRestarts

-----------------------------------------------------------------------------
(* Safety.                                                                 *)

(* A schedule whose policy is 'skip' or 'replace' never has two runs under *)
(* way, even when ticks overlap and work from stale snapshots: pending     *)
(* runs are read in the turn that records the new one.                     *)
OneRunUnderWay ==
    \A s \in Schedules :
        Policy[s] # "queue" => \A q, r \in Pending(s) : q = r

(* A tick that waits for a task has a run of its own that no other tick,   *)
(* completion or replacement has ended: the answer meets the right run, in *)
(* whatever order the answers of overlapping ticks arrive.                 *)
RunsOwned ==
    /\ \A i \in TickIds : tick[i].run # NoRun =>
          /\ tick[i].run \in 1..runs
          /\ task[tick[i].run] = "none"
          /\ status[tick[i].run] \notin Ended
    /\ \A i, j \in TickIds :
          i # j /\ tick[i].run # NoRun => tick[i].run # tick[j].run
    /\ \A r \in RunIds :
          task[r] = "open" => r <= runs /\ status[r] \notin Ended

(* Within a day the counter of a schedule counts its runs: no overlapping  *)
(* tick, pause, failure or deletion loses an increment; only a restart may *)
(* come between a run and its increment.                                   *)
CounterCountsRuns ==
    \A s \in Schedules :
        /\ schedule[s].count <= Cardinality(RunsOf(s))
        /\ Cardinality(RunsOf(s)) <= schedule[s].count + restarts

(* The status of a run that ended is final: neither a later replacement    *)
(* nor the answer to a slow createTask changes it.                         *)
EndedRunStays ==
    [][\A r \in RunIds : status[r] \in Ended
          => status'[r] = status[r] /\ run'[r] = run[r]]_vars

(* A pause is never undone by a tick that read the schedule before it.     *)
PauseSticks ==
    [][\A s \in Schedules :
          ~schedule[s].enabled /\ schedule'[s].enabled
          => UNCHANGED <<tick, turn, run, status, task>>]_vars

(* No tick undoes what came before it, however stale its snapshot: neither *)
(* the end of a run nor an owner's pause.                                  *)
NothingUndone == EndedRunStays /\ PauseSticks

-----------------------------------------------------------------------------
(* Liveness.  The timer fires, createTask answers (the caller's promise    *)
(* settles), tasks end, and the clock goes on.  The event loop serves what *)
(* is ready although ticks take their turns in between: strong fairness.   *)

Fairness ==
    /\ SF_vars(Clock)
    /\ \A i \in TickIds :
          /\ SF_vars(TickStarts(i)) /\ WF_vars(Look(i))
          /\ SF_vars(Answer(i))
    /\ \A r \in RunIds : SF_vars(\E s \in Ended : RunEnds(r, s))

FairSpec == Spec /\ Fairness

(* A due schedule does not stay due: it is run, moved, paused or deleted   *)
(* (or the model's rows are used up).                                      *)
DueIsServed ==
    \A s \in Schedules :
        \A n \in 0..MaxRuns :
            IsDue(s) /\ runs = n ~> ~IsDue(s) \/ runs > n \/ runs = MaxRuns

-----------------------------------------------------------------------------
(* What the documentation says and the engine does not do.                 *)

(* docs/OPENCODE-SCHEDULED-AUTOMATION.md:80, "every 30 minutes": two runs  *)
(* of an interval schedule none of whose runs failed are an interval apart.*)
IntervalApart ==
    \A s \in Schedules :
        Kind[s] = "interval" /\ (\A r \in RunsOf(s) : status[r] # "failed") =>
            \A q, r \in RunsOf(s) :
                q < r => run[r].started >= run[q].started + Every[s]
=============================================================================
