----------------------------- MODULE ProjectBudgets -----------------------------
(***************************************************************************)
(* The token budgets of a project (projects/project-budgets.ts): a record  *)
(* of counters in memory that is brought up to date whenever it is looked  *)
(* at, checks before a task is started, and what tasks used when they end. *)
(*                                                                         *)
(* The day is that of UTC.  The week is computed from the date and the day *)
(* of the week of the host, and written as a date of UTC.                  *)
(***************************************************************************)
EXTENDS Integers

CONSTANTS
    DayTicks, DaysOfWeek,   \* the calendar; 24 hours and 7 days in the code
    Hosts,                  \* offsets of hosts from UTC, in ticks
    Daily, Weekly,          \* budgets, [read |-> ..., write |-> ...]
    Estimate,               \* what a check adds (5000 tokens)
    MaxUse,                 \* bound on what a task uses
    Slots,                  \* executions at a time
    Horizon, MaxLives       \* bounds on time and on starts of the server

Kinds == {"read", "write"}
None == [k \in Kinds |-> 0]
NoState == [there |-> FALSE]

VARIABLES
    host,       \* the host's offset
    now,
    state,      \* budgetStates of the project, or NoState
    busy,       \* tasks under way, by kind
    today, week,    \* what was recorded in the day and in the week (history)
    lives       \* starts of the server so far

vars == <<host, now, state, busy, today, week, lives>>

DateKey == now \div DayTicks

(* setDate goes back by the host's day of the week, toISOString to UTC.    *)
WeekKey ==
    LET day == ((now + host) \div DayTicks) % DaysOfWeek
    IN  (now - day * DayTicks) \div DayTicks

(* Mutant: the weekly counters are cleared with the daily ones.            *)
UpToDate_Daily ==
    IF state.there /\ state.date = DateKey THEN state
    ELSE [there |-> TRUE, day |-> None, week |-> None, date |-> DateKey, start |-> WeekKey]

(* getOrCreateState.                                                       *)
UpToDate ==
    IF ~state.there
    THEN [there |-> TRUE, day |-> None, week |-> None, date |-> DateKey, start |-> WeekKey]
    ELSE [state EXCEPT !.day = IF state.date = DateKey THEN @ ELSE None,
                       !.date = DateKey,
                       !.week = IF state.start = WeekKey THEN @ ELSE None,
                       !.start = WeekKey]

(* What a task counts for: a write is a read as well.                      *)
Counts(kind) == {"read"} \union {kind}

Plus(used, kind, n) == [k \in Kinds |-> IF k \in Counts(kind) THEN used[k] + n ELSE used[k]]

(* checkBudget.  Near a limit it asks for an approval as well, which both  *)
(* callers ignore.                                                         *)
Allowed(s, kind) ==
    \A k \in Counts(kind) :
        s.day[k] + Estimate <= Daily[k] /\ s.week[k] + Estimate <= Weekly[k]

Init ==
    /\ host \in Hosts /\ now = 0 /\ state = NoState
    /\ busy = None /\ today = None /\ week = None /\ lives = 1

(* POST /api/tasks, a refusal, and every other look at the counters.       *)
Check ==
    /\ state' = UpToDate
    /\ UNCHANGED <<host, now, busy, today, week, lives>>

(* executeTask goes on.                                                    *)
Start(kind) ==
    /\ busy["read"] + busy["write"] < Slots /\ Allowed(UpToDate, kind)
    /\ state' = UpToDate
    /\ busy' = [busy EXCEPT ![kind] = @ + 1]
    /\ UNCHANGED <<host, now, today, week, lives>>

(* recordUsage; an execution that ends with an exception records nothing.  *)
Record(kind, n) ==
    /\ busy[kind] > 0 /\ busy' = [busy EXCEPT ![kind] = @ - 1]
    /\ state' = [UpToDate EXCEPT !.day = Plus(@, kind, n), !.week = Plus(@, kind, n)]
    /\ today' = Plus(today, kind, n) /\ week' = Plus(week, kind, n)
    /\ UNCHANGED <<host, now, lives>>

Fails(kind) ==
    /\ busy[kind] > 0 /\ busy' = [busy EXCEPT ![kind] = @ - 1]
    /\ UNCHANGED <<host, now, state, today, week, lives>>

Tick ==
    /\ now < Horizon /\ now' = now + 1
    /\ today' = IF now' % DayTicks = 0 THEN None ELSE today
    /\ week' = IF now' % (DayTicks * DaysOfWeek) = 0 THEN None ELSE week
    /\ UNCHANGED <<host, state, busy, lives>>

(* The counters are gone, and the executions with them.                    *)
Restart ==
    /\ lives < MaxLives /\ lives' = lives + 1
    /\ state' = NoState /\ busy' = None
    /\ UNCHANGED <<host, now, today, week>>

Next ==
    \/ Check \/ Tick \/ Restart
    \/ \E kind \in Kinds :
          Start(kind) \/ Fails(kind) \/ \E n \in 1..MaxUse : Record(kind, n)

Spec == Init /\ [][Next]_vars

-----------------------------------------------------------------------------
(* Properties.                                                             *)

(* The tasks that run when a budget is reached may still exceed it, each   *)
(* by what it uses, and the first of them was admitted under an estimate.  *)
AtMost(limit) == limit - Estimate + Slots * MaxUse

(* What is recorded in a day stays within the daily budgets, up to what    *)
(* the tasks admitted last may use, once for each life of the server; so   *)
(* does what is recorded in a week, on a host whose clock is UTC.  On any  *)
(* other host the key of the week changes twice a day and the weekly       *)
(* budgets hold for a part of a day at most.                               *)
SpendBounded ==
    \A k \in Kinds :
        /\ today[k] <= lives * AtMost(Daily[k])
        /\ host = 0 => week[k] <= lives * AtMost(Weekly[k])
=============================================================================
