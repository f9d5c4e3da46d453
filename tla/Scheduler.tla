----------------------------- MODULE Scheduler -----------------------------
(***************************************************************************)
(* The scheduler engine (src/scheduler/scheduler-engine.ts) over the       *)
(* schedules and schedule_runs tables (schedule-store.ts).                 *)
(*                                                                         *)
(* A tick reads the due schedules once and then works through that         *)
(* snapshot.  Its only real await is the creation of a task; between two   *)
(* of them it keeps the event loop, which `turn' says.  The timer starts a *)
(* tick whether or not an earlier one has returned.                        *)
(* What happens to the task afterwards is the caller's business: it        *)
(* reports the end once, through handleRunComplete.                        *)
(***************************************************************************)
EXTENDS Naturals, FiniteSets

CONSTANTS
    Schedules,      \* ids of the schedules
    Kind,           \* schedule_type: "once", "interval" or "cron"
    Every,          \* length of the interval, or distance of the cron times
    Policy,         \* concurrency_policy: "skip", "queue" or "replace"
    MaxPerDay,      \* max_runs_per_day
    Retries,        \* retry_max_attempts
    Delay,          \* retry_initial_delay_seconds
    Multiplier,     \* retry_backoff_multiplier
    Barred,         \* writing schedules with approval_policy "never_write"
    Closed,         \* maintenance window: the times of day it covers
    DayLength,      \* units of time in a day
    None,           \* SQL NULL
    Throws,         \* whether createTask may throw
    MaxTicks,       \* bound: ticks that overlap
    MaxRuns,        \* bound: rows of schedule_runs
    MaxTime,        \* bound: the clock
    MaxRestarts     \* bound: restarts of the process

Limit  == 3         \* MAX_CONSECUTIVE_FAILURES
RunIds == 1..MaxRuns
TickIds == 1..MaxTicks
NoRun  == 0
Times  == Nat \union {None}

ASSUME SchedulerAssumption ==
    /\ Kind \in [Schedules -> {"once", "interval", "cron"}]
    /\ Every \in [Schedules -> Nat \ {0}]
    /\ Policy \in [Schedules -> {"skip", "queue", "replace"}]
    /\ MaxPerDay \in [Schedules -> Nat] /\ Retries \in [Schedules -> Nat]
    /\ Delay \in [Schedules -> Nat] /\ Multiplier \in [Schedules -> Nat \ {0}]
    /\ Barred \subseteq Schedules /\ Throws \in BOOLEAN
    /\ DayLength \in Nat \ {0}
    /\ Closed \in [Schedules -> SUBSET (0..(DayLength - 1))]
    /\ MaxTicks \in Nat /\ MaxRuns \in Nat /\ MaxTime \in Nat
    /\ MaxRestarts \in Nat
    /\ None \notin Nat

(* A power of a whole number is one; the provers do not know it.           *)
ASSUME PowersAreWhole ==
    \A s \in Schedules, n \in 0..MaxRuns : Multiplier[s] ^ n \in Nat

VARIABLES
    schedule,       \* schedules table
    run,            \* schedule_runs table: the columns createRun fills
    status,         \* schedule_runs table: column status
    runs,           \* number of its rows
    task,           \* the task of a run, as its executor sees it
    tick,           \* the ticks that have not returned
    turn,           \* the tick that has the event loop, or None
    now,
    restarts

vars == <<schedule, run, status, runs, task, tick, turn, now, restarts>>

Row   == [enabled : BOOLEAN, deleted : BOOLEAN, last : Times, next : Times,
          failures : Nat, count : Nat, date : Times]
Seen  == [id : Schedules, last : Times, next : Nat, failures : Nat, count : Nat]
Ended == {"completed", "failed", "budget_exceeded"}
Run   == [schedule : Schedules, planned : Nat, started : Nat, attempt : Nat]
NoRow == [schedule |-> None]
Statuses == {"none", "running", "skipped"} \union Ended
TickState == [today : Times, seen : SUBSET Seen, at : Seen \union {None},
              run : 0..MaxRuns]
Idle  == [today |-> None, seen |-> {}, at |-> None, run |-> NoRun]

Today == now \div DayLength

-----------------------------------------------------------------------------
(* Statements of the store.                                                *)

(* updateSchedule reads the row again and merges; a deleted row is left.   *)
Updated(table, s, changed) ==
    IF table[s].deleted THEN table ELSE [table EXCEPT ![s] = changed]

IsDue(s) ==
    /\ schedule[s].enabled /\ ~schedule[s].deleted
    /\ schedule[s].next # None /\ schedule[s].next <= now

(* Mutant: the merge starts from what the tick has read.                   *)
Moved_Snapshot(table, x, t) ==
    IF t = None \/ table[x.id].deleted THEN table
    ELSE [table EXCEPT ![x.id].next = t, ![x.id].failures = x.failures,
                       ![x.id].enabled = TRUE]

(* next_run_at := t, unless nothing was calculated.                        *)
Moved(table, x, t) ==
    IF t = None THEN table
    ELSE Updated(table, x.id, [table[x.id] EXCEPT !.next = t])

(* Mutant: the reset clears the counter as if it were a date.              *)
CountersReset_Null ==
    [s \in Schedules |->
        IF schedule[s].deleted \/ schedule[s].date = Today
        THEN schedule[s]
        ELSE [schedule[s] EXCEPT !.count = None, !.date = Today]]

(* resetDailyCounters: a NULL date is not different from today.            *)
CountersReset ==
    [s \in Schedules |->
        IF schedule[s].deleted \/ schedule[s].date \in {None, Today}
        THEN schedule[s]
        ELSE [schedule[s] EXCEPT !.count = 0, !.date = Today]]

(* Mutant: the new count is calculated from what the tick has read.        *)
Counted_Snapshot(table, x, today) ==
    [table EXCEPT ![x.id].count = x.count + 1, ![x.id].date = today]

(* incrementDailyCounter does not ask whether the row is deleted.          *)
Counted(table, x, today) ==
    [table EXCEPT ![x.id].count = @ + 1, ![x.id].date = today]

(* Mutant: a run whose task is not known yet is not pending.               *)
Pending_WithTask(s) ==
    {r \in RunIds : run[r].schedule = s /\ status[r] = "running"
                    /\ task[r] # "none"}

Pending(s) ==
    {r \in RunIds : run[r].schedule = s /\ status[r] = "running"}

-----------------------------------------------------------------------------
(* Calculations of the engine.                                             *)

(* calculateNextRun counts from the last run of the snapshot, that is from *)
(* the run before the one the tick has just started.                       *)
NextRun(x) ==
    LET from == IF x.last = None THEN now ELSE x.last IN
    CASE Kind[x.id] = "once"     -> None
      [] Kind[x.id] = "interval" -> from + Every[x.id]
      [] Kind[x.id] = "cron"     -> ((from \div Every[x.id]) + 1) * Every[x.id]

(* calculateAttemptNumber: after a replacement nothing is pending.         *)
Attempt(s) ==
    LET p == IF Policy[s] = "replace" THEN {} ELSE Pending(s) IN
    IF p = {} THEN 1
    ELSE 1 + run[CHOOSE r \in p : \A q \in p : run[q].attempt <= run[r].attempt].attempt

RetryAt(r, s) == now + Delay[s] * Multiplier[s] ^ (run[r].attempt - 1)

(* handleFailure, for the failures that the caller has read.               *)
Failure(table, s, failures, r) ==
    LET counted == [table[s] EXCEPT !.failures = failures + 1] IN
    Updated(table, s,
        IF run[r].attempt <= Retries[s]
        THEN [counted EXCEPT !.next = RetryAt(r, s)] ELSE counted)

-----------------------------------------------------------------------------
Init ==
    /\ schedule = [s \in Schedules |->
          [enabled |-> TRUE, deleted |-> FALSE, last |-> None, next |-> 0,
           failures |-> 0, count |-> 0, date |-> None]]
    /\ run = [r \in RunIds |-> NoRow]
    /\ status = [r \in RunIds |-> "none"]
    /\ runs = 0
    /\ task = [r \in RunIds |-> "none"]
    /\ tick = [i \in TickIds |-> Idle]
    /\ turn = None
    /\ now = 0
    /\ restarts = 0

-----------------------------------------------------------------------------
(* A tick.                                                                 *)

Snapshot(table, s) ==
    [id |-> s, last |-> table[s].last, next |-> table[s].next,
     failures |-> table[s].failures, count |-> table[s].count]

(* The least free slot stands for the new tick.                            *)
TickStarts(i) ==
    LET due == {s \in Schedules : IsDue(s)} IN
    /\ turn = None /\ tick[i] = Idle /\ \A j \in 1..(i - 1) : tick[j] # Idle
    /\ schedule' = CountersReset
    /\ tick' = [tick EXCEPT ![i] =
          IF due = {} THEN Idle
          ELSE [today |-> Today, at |-> None, run |-> NoRun,
                seen |-> {Snapshot(CountersReset, s) : s \in due}]]
    /\ turn' = IF due = {} THEN None ELSE i
    /\ UNCHANGED <<run, status, runs, task, now, restarts>>

(* x is the next schedule that tick i looks at.                            *)
Head(i, x) ==
    /\ turn = i /\ x \in tick[i].seen
    /\ \A y \in tick[i].seen : x.next <= y.next

(* Mutant: the next schedule inherits the run.                             *)
Left_SameRun(i, x) ==
    LET rest == tick[i].seen \ {x} IN
    IF rest = {} THEN Idle ELSE [tick[i] EXCEPT !.seen = rest]

(* What is left of tick i without x; the loop goes on if something is.     *)
Left(i, x) ==
    LET rest == tick[i].seen \ {x} IN
    IF rest = {} THEN Idle
    ELSE [today |-> tick[i].today, seen |-> rest, at |-> None, run |-> NoRun]

Proceed(i, x) ==
    /\ tick' = [tick EXCEPT ![i] = Left(i, x)]
    /\ turn' = IF Left(i, x) = Idle THEN None ELSE i

(* Barred, in the maintenance window, or enough runs today.                *)
Held(x) ==
    \/ x.id \in Barred
    \/ now % DayLength \in Closed[x.id]
    \/ x.count >= MaxPerDay[x.id]

Tired(x) == x.failures >= Limit

Busy(x) == Policy[x.id] = "skip" /\ Pending(x.id) # {}

Skips(i, x) ==
    /\ Head(i, x) /\ (Held(x) \/ (~Tired(x) /\ Busy(x)))
    /\ schedule' = Moved(schedule, x, NextRun(x))
    /\ Proceed(i, x)
    /\ UNCHANGED <<run, status, runs, task, now, restarts>>

(* Mutant: the pause is announced but not stored.                          *)
AutoPauses_Announced(i, x) ==
    /\ Head(i, x) /\ ~Held(x) /\ Tired(x)
    /\ Proceed(i, x)
    /\ UNCHANGED <<schedule, run, status, runs, task, now, restarts>>

AutoPauses(i, x) ==
    /\ Head(i, x) /\ ~Held(x) /\ Tired(x)
    /\ schedule' = Updated(schedule, x.id,
                           [schedule[x.id] EXCEPT !.enabled = FALSE])
    /\ Proceed(i, x)
    /\ UNCHANGED <<run, status, runs, task, now, restarts>>

Replaced(s) ==
    [r \in RunIds |->
        IF Policy[s] = "replace" /\ r \in Pending(s)
        THEN "skipped" ELSE status[r]]

MayStart(i, x) ==
    /\ Head(i, x) /\ ~Held(x) /\ ~Tired(x) /\ ~Busy(x)
    /\ runs < MaxRuns

Recorded(x) ==
    /\ runs' = runs + 1
    /\ run' = [run EXCEPT ![runs + 1] =
          [schedule |-> x.id, planned |-> x.next, started |-> now,
           attempt |-> Attempt(x.id)]]
    /\ status' = [Replaced(x.id) EXCEPT ![runs + 1] = "running"]

Started(s) == Updated(schedule, s, [schedule[s] EXCEPT !.last = now])

(* The run is recorded and counted, then its task is asked for.            *)
StartsRun(i, x) ==
    /\ MayStart(i, x)
    /\ Recorded(x)
    /\ schedule' = Counted(Started(x.id), x, tick[i].today)
    /\ tick' = [tick EXCEPT ![i] =
          [today |-> tick[i].today, seen |-> tick[i].seen,
           at |-> x, run |-> runs + 1]]
    /\ turn' = None
    /\ UNCHANGED <<task, now, restarts>>

(* createTask answers while no other turn runs.                            *)
Asked(i) == turn = None /\ tick[i].run # NoRun

TaskCreated(i) ==
    LET x == tick[i].at IN
    /\ Asked(i)
    /\ task' = [task EXCEPT ![tick[i].run] = "open"]
    /\ schedule' = Moved(schedule, x, NextRun(x))
    /\ Proceed(i, x)
    /\ UNCHANGED <<run, status, runs, now, restarts>>

TaskRefused(i) ==
    LET x == tick[i].at IN
    /\ Asked(i)
    /\ status' = [status EXCEPT ![tick[i].run] = "failed"]
    /\ schedule' = Failure(schedule, x.id, x.failures, tick[i].run)
    /\ Proceed(i, x)
    /\ UNCHANGED <<run, runs, task, now, restarts>>

(* The catch block of tick only counts: the run stays 'running'.           *)
TaskThrows(i) ==
    /\ Throws
    /\ Asked(i)
    /\ Proceed(i, tick[i].at)
    /\ UNCHANGED <<schedule, run, status, runs, task, now, restarts>>

-----------------------------------------------------------------------------
(* handleRunComplete.  Of a deleted schedule nothing is recorded.          *)
RunEnds(r, s) ==
    LET id == run[r].schedule IN
    /\ turn = None /\ task[r] = "open"
    /\ task' = [task EXCEPT ![r] = "ended"]
    /\ status' = IF schedule[id].deleted THEN status
                 ELSE [status EXCEPT ![r] = s]
    /\ schedule' =
          CASE s = "completed" -> Updated(schedule, id,
                                      [schedule[id] EXCEPT !.failures = 0])
            [] s = "failed" -> Failure(schedule, id, schedule[id].failures, r)
            [] OTHER -> schedule
    /\ UNCHANGED <<run, runs, tick, turn, now, restarts>>

-----------------------------------------------------------------------------
(* The owner of a schedule, and the clock.                                 *)

Owner(s, changed) ==
    /\ turn = None
    /\ schedule' = Updated(schedule, s, changed)
    /\ UNCHANGED <<run, status, runs, task, tick, turn, now, restarts>>

Pause(s)  == Owner(s, [schedule[s] EXCEPT !.enabled = FALSE])
Resume(s) == Owner(s, [schedule[s] EXCEPT !.enabled = TRUE, !.failures = 0])
Delete(s) == Owner(s, [schedule[s] EXCEPT !.deleted = TRUE])

Clock ==
    /\ turn = None /\ now < MaxTime
    /\ now' = now + 1
    /\ UNCHANGED <<schedule, run, status, runs, task, tick, turn, restarts>>

-----------------------------------------------------------------------------
(* The process dies and starts again: ticks are lost, the tables stay, and *)
(* start() looks at neither.  Each statement commits by itself, so a turn  *)
(* may end halfway; a 'pending' run counts as a running one everywhere.    *)

StopsIdle == UNCHANGED <<schedule, run, status, runs, task>>

(* The runs are replaced, or the new one is recorded but not yet counted.  *)
StopsStarting(i, x) ==
    /\ MayStart(i, x)
    /\ \/ status' = Replaced(x.id) /\ UNCHANGED <<schedule, run, runs>>
       \/ /\ Recorded(x)
          /\ schedule' \in {schedule, Started(x.id)}
    /\ UNCHANGED task

(* The end of a run is recorded, the failure not yet.                      *)
StopsEnding(r, s) ==
    /\ turn = None /\ task[r] = "open"
    /\ ~schedule[run[r].schedule].deleted
    /\ status' = [status EXCEPT ![r] = s]
    /\ task' = [task EXCEPT ![r] = "ended"]
    /\ UNCHANGED <<schedule, run, runs>>

Restart ==
    /\ restarts < MaxRestarts
    /\ \/ StopsIdle
       \/ \E i \in TickIds : \E x \in tick[i].seen : StopsStarting(i, x)
       \/ \E r \in RunIds, s \in Ended : StopsEnding(r, s)
    /\ restarts' = restarts + 1
    /\ tick' = [i \in TickIds |-> Idle]
    /\ turn' = None
    /\ UNCHANGED now

Look(i) ==
    \E x \in tick[i].seen : Skips(i, x) \/ AutoPauses(i, x) \/ StartsRun(i, x)

Answer(i) == TaskCreated(i) \/ TaskRefused(i) \/ TaskThrows(i)

Engine == \E i \in TickIds : TickStarts(i) \/ Look(i) \/ Answer(i)

Owners == \E s \in Schedules : Pause(s) \/ Resume(s) \/ Delete(s)

Executor == \E r \in RunIds, s \in Ended : RunEnds(r, s)

Next == Engine \/ Owners \/ Executor \/ Clock \/ Restart

Spec == Init /\ [][Next]_vars
=============================================================================
