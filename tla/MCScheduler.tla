---------------------------- MODULE MCScheduler ----------------------------
(***************************************************************************)
(* Instances of Scheduler for TLC: at most two schedules, a and b.         *)
(***************************************************************************)
EXTENDS SchedulerProperties

CONSTANTS a, b

OneEach  == [s \in Schedules |-> 1]
TwoEach  == [s \in Schedules |-> 2]
ManyEach == [s \in Schedules |-> MaxRuns]
NoneForA == [s \in Schedules |-> IF s = a THEN 0 ELSE 1]

AllInterval     == [s \in Schedules |-> "interval"]
IntervalAndCron == [s \in Schedules |-> IF s = a THEN "interval" ELSE "cron"]

AllSkip        == [s \in Schedules |-> "skip"]
SkipAndReplace == [s \in Schedules |-> IF s = a THEN "skip" ELSE "replace"]

NeverClosed == [s \in Schedules |-> {}]
ClosedForA  == [s \in Schedules |-> IF s = a THEN {0} ELSE {}]
=============================================================================
