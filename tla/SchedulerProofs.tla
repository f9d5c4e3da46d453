-------------------------- MODULE SchedulerProofs --------------------------
(***************************************************************************)
(* Proofs about the scheduler engine for any number of schedules, runs,    *)
(* overlapping ticks and restarts: an answer of createTask meets its own   *)
(* run, 'skip' and 'replace' schedules have one run under way, a run that  *)
(* ended stays as it is, and no tick undoes a pause.                       *)
(***************************************************************************)
EXTENDS SchedulerProperties, FiniteSetTheorems, TLAPS

(* The rows recorded so far are the first ones; the rest is untouched.     *)
Rows ==
    /\ runs \in 0..MaxRuns
    /\ DOMAIN run = RunIds /\ DOMAIN tick = TickIds
    /\ status \in [RunIds -> Statuses]
    /\ task \in [RunIds -> {"none", "open", "ended"}]
    /\ \A r \in RunIds : r > runs => status[r] = "none" /\ task[r] = "none"

(* The inductive invariant behind RunsOwned.                               *)
OwnInv == Rows /\ RunsOwned

(* A tick that goes on waits for no run.                                   *)
LEMMA LeftIdle ==
    ASSUME NEW i, NEW x
    PROVE  Left(i, x).run = NoRun
BY DEF Left, Idle

(* Replacing a schedule's runs ends none that had ended, and begins none.  *)
LEMMA ReplacedStatus ==
    ASSUME Rows, NEW s
    PROVE  /\ Replaced(s) \in [RunIds -> Statuses]
           /\ \A r \in RunIds :
                 /\ status[r] # "running" => Replaced(s)[r] = status[r]
                 /\ Replaced(s)[r] \in {status[r], "skipped"}
                 /\ status[r] \notin Ended => Replaced(s)[r] \notin Ended
BY DEF Rows, Replaced, Pending, Statuses, Ended

-----------------------------------------------------------------------------
(* The invariant holds initially.                                          *)
LEMMA OwnInit == ASSUME Init PROVE OwnInv
<1> USE SchedulerAssumption DEF SchedulerAssumption
<1>1. Rows
  BY DEF Init, Rows, Statuses, RunIds
<1>2. RunsOwned
  BY DEF Init, RunsOwned, Idle, NoRun
<1> QED BY <1>1, <1>2 DEF OwnInv

(* Steps that change neither rows nor tasks, and whose ticks wait for the  *)
(* runs they waited for, or for none.                                      *)
LEMMA OwnFrame ==
    ASSUME OwnInv, UNCHANGED <<run, status, runs, task>>,
           DOMAIN tick' = TickIds,
           \A i \in TickIds : tick'[i].run \in {tick[i].run, NoRun}
    PROVE  OwnInv'
BY DEF OwnInv, Rows, RunsOwned, NoRun

(* Proceeding leaves tick i without a run and the others alone.            *)
LEMMA ProceedTicks ==
    ASSUME OwnInv, NEW i \in TickIds, NEW x, Proceed(i, x)
    PROVE  /\ DOMAIN tick' = TickIds
           /\ tick'[i].run = NoRun
           /\ \A j \in TickIds : j # i => tick'[j] = tick[j]
BY LeftIdle DEF OwnInv, Rows, Proceed

(* A new run belongs to the tick that starts it.                           *)
LEMMA OwnStart ==
    ASSUME OwnInv, NEW i \in TickIds, NEW x, StartsRun(i, x)
    PROVE  OwnInv'
<1> USE SchedulerAssumption DEF SchedulerAssumption
<1>1. runs \in Nat /\ runs + 1 \in RunIds /\ runs' = runs + 1
  BY DEF OwnInv, Rows, StartsRun, MayStart, Recorded, RunIds
<1>2. /\ status' = [Replaced(x.id) EXCEPT ![runs + 1] = "running"]
      /\ task' = task /\ DOMAIN run' = RunIds
  BY DEF StartsRun, Recorded, OwnInv, Rows
<1>3. /\ Replaced(x.id) \in [RunIds -> Statuses]
      /\ \A r \in RunIds :
            /\ status[r] # "running" => Replaced(x.id)[r] = status[r]
            /\ status[r] \notin Ended => Replaced(x.id)[r] \notin Ended
  BY ReplacedStatus DEF OwnInv
<1>4. /\ DOMAIN tick' = TickIds /\ tick'[i].run = runs + 1
      /\ \A j \in TickIds : j # i => tick'[j] = tick[j]
  BY DEF StartsRun, OwnInv, Rows
<1>5. Rows'
  BY <1>1, <1>2, <1>3, <1>4 DEF OwnInv, Rows, Statuses, RunIds
<1>6. status'[runs + 1] \notin Ended /\ task[runs + 1] = "none"
  BY <1>1, <1>2, <1>3 DEF OwnInv, Rows, Ended
<1>7. RunsOwned'
  <2>1. ASSUME NEW j \in TickIds, tick'[j].run # NoRun
        PROVE  /\ tick'[j].run \in 1..runs'
               /\ task'[tick'[j].run] = "none"
               /\ status'[tick'[j].run] \notin Ended
    <3>1. CASE j = i
      BY <3>1, <1>1, <1>2, <1>4, <1>6
    <3>2. CASE j # i
      <4>1. /\ tick[j].run \in 1..runs /\ task[tick[j].run] = "none"
            /\ status[tick[j].run] \notin Ended
        BY <3>2, <2>1, <1>4 DEF OwnInv, RunsOwned
      <4>2. status'[tick[j].run] = Replaced(x.id)[tick[j].run]
        BY <4>1, <1>1, <1>2, <1>3 DEF RunIds
      <4> QED BY <3>2, <4>1, <4>2, <1>1, <1>2, <1>3, <1>4 DEF RunIds
    <3> QED BY <3>1, <3>2
  <2>2. ASSUME NEW j \in TickIds, NEW k \in TickIds, j # k, tick'[j].run # NoRun
        PROVE  tick'[j].run # tick'[k].run
    BY <2>2, <1>1, <1>4 DEF OwnInv, RunsOwned, NoRun
  <2>3. ASSUME NEW r \in RunIds, task'[r] = "open"
        PROVE  r <= runs' /\ status'[r] \notin Ended
    <3>1. r <= runs /\ status[r] \notin Ended
      BY <2>3, <1>2 DEF OwnInv, RunsOwned
    <3>2. status'[r] = Replaced(x.id)[r]
      BY <3>1, <1>1, <1>2, <1>3 DEF RunIds
    <3> QED BY <3>1, <3>2, <1>1, <1>3 DEF RunIds
  <2> QED BY <2>1, <2>2, <2>3 DEF RunsOwned
<1> QED BY <1>5, <1>7 DEF OwnInv

(* The answers of createTask.                                              *)
LEMMA OwnAnswer ==
    ASSUME OwnInv, NEW i \in TickIds, Answer(i)
    PROVE  OwnInv'
<1> USE SchedulerAssumption DEF SchedulerAssumption
<1> DEFINE r == tick[i].run
<1>1. /\ r \in RunIds /\ r \in 1..runs /\ task[r] = "none"
      /\ status[r] \notin Ended
      /\ \A j \in TickIds : j # i /\ tick[j].run # NoRun => tick[j].run # r
  <2>1. r # NoRun
    BY DEF Answer, TaskCreated, TaskRefused, TaskThrows, Asked
  <2> QED BY <2>1 DEF OwnInv, Rows, RunsOwned, RunIds, NoRun
<1>2. /\ DOMAIN tick' = TickIds /\ tick'[i].run = NoRun
      /\ \A j \in TickIds : j # i => tick'[j] = tick[j]
  BY ProceedTicks DEF Answer, TaskCreated, TaskRefused, TaskThrows
<1>3. CASE TaskCreated(i)
  <2>1. /\ task' = [task EXCEPT ![r] = "open"]
        /\ UNCHANGED <<run, status, runs>>
    BY <1>3 DEF TaskCreated
  <2>2. Rows'
    BY <2>1, <1>1, <1>2 DEF OwnInv, Rows, RunIds
  <2>3. RunsOwned'
    BY <2>1, <1>1, <1>2 DEF OwnInv, Rows, RunsOwned, NoRun
  <2> QED BY <2>2, <2>3 DEF OwnInv
<1>4. CASE TaskRefused(i)
  <2>1. /\ status' = [status EXCEPT ![r] = "failed"]
        /\ UNCHANGED <<run, task, runs>>
    BY <1>4 DEF TaskRefused
  <2>2. Rows'
    BY <2>1, <1>1, <1>2 DEF OwnInv, Rows, RunIds, Statuses, Ended
  <2>3. /\ task' = task /\ runs' = runs
        /\ \A q \in RunIds : q # r => status'[q] = status[q]
    BY <2>1 DEF OwnInv, Rows
  <2>4. ASSUME NEW j \in TickIds, tick'[j].run # NoRun
        PROVE  /\ tick'[j].run \in 1..runs'
               /\ task'[tick'[j].run] = "none"
               /\ status'[tick'[j].run] \notin Ended
    <3>1. j # i /\ tick'[j] = tick[j]
      BY <2>4, <1>2
    <3>2. /\ tick[j].run \in 1..runs /\ task[tick[j].run] = "none"
          /\ status[tick[j].run] \notin Ended
      BY <3>1, <2>4 DEF OwnInv, RunsOwned
    <3>3. tick[j].run \in RunIds /\ tick[j].run # r
      BY <3>1, <3>2, <2>4, <1>1 DEF OwnInv, Rows, RunIds
    <3> QED BY <3>1, <3>2, <3>3, <2>3
  <2>5. ASSUME NEW j \in TickIds, NEW k \in TickIds, j # k, tick'[j].run # NoRun
        PROVE  tick'[j].run # tick'[k].run
    BY <2>5, <1>2 DEF OwnInv, RunsOwned
  <2>6. ASSUME NEW q \in RunIds, task'[q] = "open"
        PROVE  q <= runs' /\ status'[q] \notin Ended
    BY <2>6, <2>3, <1>1 DEF OwnInv, RunsOwned
  <2>7. RunsOwned'
    BY <2>4, <2>5, <2>6 DEF RunsOwned
  <2> QED BY <2>2, <2>7 DEF OwnInv
<1>5. CASE TaskThrows(i)
  BY <1>5, <1>2, OwnFrame DEF TaskThrows
<1> QED BY <1>3, <1>4, <1>5 DEF Answer

(* handleRunComplete ends the run of an open task only.                    *)
LEMMA OwnEnd ==
    ASSUME OwnInv, NEW r \in RunIds, task[r] = "open",
           NEW s \in Ended, status' \in {status, [status EXCEPT ![r] = s]},
           task' = [task EXCEPT ![r] = "ended"],
           UNCHANGED <<run, runs>>,
           DOMAIN tick' = TickIds,
           \A i \in TickIds : tick'[i].run \in {tick[i].run, NoRun}
    PROVE  OwnInv'
<1> USE SchedulerAssumption DEF SchedulerAssumption
<1>1. r <= runs
  BY DEF OwnInv, RunsOwned
<1>2. Rows'
  BY <1>1 DEF OwnInv, Rows, RunIds, Statuses, Ended
<1>3. /\ runs' = runs
      /\ \A q \in RunIds : q # r => status'[q] = status[q] /\ task'[q] = task[q]
  BY DEF OwnInv, Rows
<1>4. ASSUME NEW j \in TickIds, tick'[j].run # NoRun
      PROVE  /\ tick'[j].run \in 1..runs'
             /\ task'[tick'[j].run] = "none"
             /\ status'[tick'[j].run] \notin Ended
  <2>1. tick'[j].run = tick[j].run
    BY <1>4
  <2>2. /\ tick[j].run \in 1..runs /\ task[tick[j].run] = "none"
        /\ status[tick[j].run] \notin Ended
    BY <2>1, <1>4 DEF OwnInv, RunsOwned
  <2>3. tick[j].run \in RunIds /\ tick[j].run # r
    BY <2>2 DEF OwnInv, Rows, RunIds
  <2> QED BY <2>1, <2>2, <2>3, <1>3
<1>5. ASSUME NEW j \in TickIds, NEW k \in TickIds, j # k, tick'[j].run # NoRun
      PROVE  tick'[j].run # tick'[k].run
  BY <1>5 DEF OwnInv, RunsOwned
<1>6. ASSUME NEW q \in RunIds, task'[q] = "open"
      PROVE  q <= runs' /\ status'[q] \notin Ended
  <2>1. q # r
    BY <1>6 DEF OwnInv, Rows
  <2> QED BY <2>1, <1>6, <1>3 DEF OwnInv, RunsOwned
<1>7. RunsOwned'
  BY <1>4, <1>5, <1>6 DEF RunsOwned
<1> QED BY <1>2, <1>7 DEF OwnInv

(* A restart forgets every tick, wherever it was.                          *)
LEMMA OwnRestart == ASSUME OwnInv, Restart PROVE OwnInv'
<1> USE SchedulerAssumption DEF SchedulerAssumption
<1>1. DOMAIN tick' = TickIds /\ \A i \in TickIds : tick'[i].run = NoRun
  BY DEF Restart, Idle
<1>2. CASE StopsIdle
  BY <1>1, <1>2, OwnFrame DEF StopsIdle
<1>3. ASSUME NEW i \in TickIds, NEW x \in tick[i].seen, StopsStarting(i, x)
      PROVE  OwnInv'
  <2>1. /\ Replaced(x.id) \in [RunIds -> Statuses]
        /\ \A r \in RunIds :
              /\ status[r] # "running" => Replaced(x.id)[r] = status[r]
              /\ status[r] \notin Ended => Replaced(x.id)[r] \notin Ended
    BY ReplacedStatus DEF OwnInv
  <2>2. task' = task
    BY <1>3 DEF StopsStarting
  <2>3. CASE status' = Replaced(x.id) /\ UNCHANGED <<schedule, run, runs>>
    BY <2>1, <2>2, <2>3, <1>1 DEF OwnInv, Rows, RunsOwned
  <2>4. CASE Recorded(x)
    <3>1. runs \in Nat /\ runs + 1 \in RunIds /\ runs' = runs + 1
      BY <1>3, <2>4 DEF OwnInv, Rows, StopsStarting, MayStart, Recorded, RunIds
    <3>2. /\ status' = [Replaced(x.id) EXCEPT ![runs + 1] = "running"]
          /\ DOMAIN run' = RunIds
      BY <2>4 DEF Recorded, OwnInv, Rows
    <3>3. Rows'
      BY <3>1, <3>2, <2>1, <2>2, <1>1 DEF OwnInv, Rows, Statuses, RunIds
    <3>4. ASSUME NEW r \in RunIds, task'[r] = "open"
          PROVE  r <= runs' /\ status'[r] \notin Ended
      <4>1. r <= runs /\ status[r] \notin Ended
        BY <3>4, <2>2 DEF OwnInv, RunsOwned
      <4>2. status'[r] = Replaced(x.id)[r]
        BY <4>1, <3>1, <3>2, <2>1 DEF RunIds
      <4> QED BY <4>1, <4>2, <3>1, <2>1 DEF RunIds
    <3>5. RunsOwned'
      BY <3>4, <1>1 DEF RunsOwned
    <3> QED BY <3>3, <3>5 DEF OwnInv
  <2> QED BY <1>3, <2>3, <2>4 DEF StopsStarting
<1>4. ASSUME NEW r \in RunIds, NEW s \in Ended, StopsEnding(r, s)
      PROVE  OwnInv'
  BY <1>1, <1>4, OwnEnd DEF StopsEnding
<1> QED BY <1>2, <1>3, <1>4 DEF Restart

(* Every step preserves the invariant.                                     *)
LEMMA OwnStep == ASSUME OwnInv, [Next]_vars PROVE OwnInv'
<1> USE SchedulerAssumption DEF SchedulerAssumption
<1>1. ASSUME NEW i \in TickIds, TickStarts(i) PROVE OwnInv'
  <2>1. /\ DOMAIN tick' = TickIds /\ tick'[i].run = NoRun
        /\ \A j \in TickIds : j # i => tick'[j] = tick[j]
    BY <1>1 DEF TickStarts, OwnInv, Rows, Idle
  <2> QED BY <1>1, <2>1, OwnFrame DEF TickStarts
<1>2. ASSUME NEW i \in TickIds, NEW x \in tick[i].seen,
             Skips(i, x) \/ AutoPauses(i, x)
      PROVE  OwnInv'
  BY <1>2, ProceedTicks, OwnFrame DEF Skips, AutoPauses
<1>3. ASSUME NEW i \in TickIds, NEW x \in tick[i].seen, StartsRun(i, x)
      PROVE  OwnInv'
  BY <1>3, OwnStart
<1>4. ASSUME NEW i \in TickIds, Answer(i) PROVE OwnInv'
  BY <1>4, OwnAnswer
<1>5. CASE Owners
  <2>1. UNCHANGED <<run, status, runs, task, tick>>
    BY <1>5 DEF Owners, Pause, Resume, Delete, Owner
  <2> QED BY <2>1, OwnFrame DEF OwnInv, Rows
<1>6. ASSUME NEW r \in RunIds, NEW s \in Ended, RunEnds(r, s) PROVE OwnInv'
  <2>1. /\ task[r] = "open" /\ task' = [task EXCEPT ![r] = "ended"]
        /\ status' \in {status, [status EXCEPT ![r] = s]}
        /\ UNCHANGED <<run, runs, tick>>
    BY <1>6 DEF RunEnds
  <2> QED BY <2>1, OwnEnd DEF OwnInv, Rows
<1>7. CASE Clock
  BY <1>7, OwnFrame DEF Clock, OwnInv, Rows
<1>8. CASE Restart
  BY <1>8, OwnRestart
<1>9. CASE UNCHANGED vars
  BY <1>9, OwnFrame DEF vars, OwnInv, Rows
<1> QED
  BY <1>1, <1>2, <1>3, <1>4, <1>5, <1>6, <1>7, <1>8, <1>9
  DEF Next, Engine, Look, Executor

(* Each waiting tick owns its run: Spec keeps RunsOwned.                   *)
THEOREM RunsAreOwned == Spec => []RunsOwned
<1>1. OwnInv => RunsOwned
  BY DEF OwnInv
<1> QED BY <1>1, OwnInit, OwnStep, PTL DEF Spec

-----------------------------------------------------------------------------
(* What a step does to the rows: it ends or replaces runs that are under   *)
(* way, or it records a run of a schedule that is not busy.                *)
Ends ==
    /\ run' = run
    /\ \A r \in RunIds : status'[r] # status[r]
          => status[r] \notin Ended /\ status'[r] # "running"

Records == \E x : Recorded(x) /\ ~Busy(x) /\ runs < MaxRuns

LEMMA ReplacedEnds ==
    ASSUME OwnInv, NEW s, status' = Replaced(s), run' = run PROVE Ends
<1>1. \A r \in RunIds : /\ status[r] # "running" => Replaced(s)[r] = status[r]
                        /\ Replaced(s)[r] \in {status[r], "skipped"}
  BY ReplacedStatus DEF OwnInv
<1> QED BY <1>1 DEF Ends, Ended

(* One row gets an end that it did not have.                               *)
LEMMA OneEnds ==
    ASSUME OwnInv, NEW r \in RunIds, NEW s \in Ended, status[r] \notin Ended,
           status' \in {status, [status EXCEPT ![r] = s]}, run' = run
    PROVE  Ends
BY DEF OwnInv, Rows, Ends, Ended

LEMMA RowsStep == ASSUME OwnInv, [Next]_vars PROVE Ends \/ Records
<1>1. ASSUME UNCHANGED <<run, status>> PROVE Ends
  BY <1>1 DEF Ends
<1>2. ASSUME NEW i \in TickIds, TickStarts(i) \/ TaskCreated(i) \/ TaskThrows(i)
      PROVE  Ends
  BY <1>1, <1>2 DEF TickStarts, TaskCreated, TaskThrows
<1>3. ASSUME NEW i \in TickIds, NEW x \in tick[i].seen,
             Skips(i, x) \/ AutoPauses(i, x)
      PROVE  Ends
  BY <1>1, <1>3 DEF Skips, AutoPauses
<1>4. ASSUME NEW i \in TickIds, NEW x \in tick[i].seen, StartsRun(i, x)
      PROVE  Records
  BY <1>4 DEF StartsRun, MayStart, Records
<1>5. ASSUME NEW i \in TickIds, TaskRefused(i) PROVE Ends
  <2>1. tick[i].run # NoRun
    BY <1>5 DEF TaskRefused, Asked
  <2>2. tick[i].run \in RunIds /\ status[tick[i].run] \notin Ended
    BY <2>1, SchedulerAssumption
    DEF SchedulerAssumption, OwnInv, Rows, RunsOwned, RunIds
  <2> QED BY <1>5, <2>2, OneEnds DEF TaskRefused, Ended
<1>6. CASE Owners
  BY <1>1, <1>6 DEF Owners, Pause, Resume, Delete, Owner
<1>7. ASSUME NEW r \in RunIds, NEW s \in Ended, RunEnds(r, s) \/ StopsEnding(r, s)
      PROVE  Ends
  <2>1. status[r] \notin Ended
    BY <1>7 DEF RunEnds, StopsEnding, OwnInv, RunsOwned
  <2> QED BY <1>7, <2>1, OneEnds DEF RunEnds, StopsEnding
<1>8. ASSUME NEW i \in TickIds, NEW x \in tick[i].seen, StopsStarting(i, x)
      PROVE  Ends \/ Records
  BY <1>8, ReplacedEnds DEF StopsStarting, MayStart, Records
<1>9. CASE Restart
  BY <1>1, <1>7, <1>8, <1>9 DEF Restart, StopsIdle
<1>10. CASE Clock \/ UNCHANGED vars
  BY <1>1, <1>10 DEF Clock, vars
<1> QED
  BY <1>2, <1>3, <1>4, <1>5, <1>6, <1>7, <1>9, <1>10
  DEF Next, Engine, Look, Answer, Executor

(* A step that records a run leaves the ended ones as they are.            *)
LEMMA RecordsRun ==
    ASSUME OwnInv, NEW x, Recorded(x), runs < MaxRuns
    PROVE  /\ run'[runs + 1].schedule = x.id
           /\ \A r \in RunIds \ {runs + 1} :
                 run'[r] = run[r] /\ status'[r] = Replaced(x.id)[r]
           /\ status[runs + 1] = "none" /\ runs + 1 \in RunIds
<1> USE SchedulerAssumption DEF SchedulerAssumption
<1>1. runs \in Nat /\ runs + 1 \in RunIds /\ runs + 1 > runs
  BY DEF OwnInv, Rows, RunIds
<1>2. Replaced(x.id) \in [RunIds -> Statuses]
  BY ReplacedStatus DEF OwnInv
<1> QED BY <1>1, <1>2 DEF Recorded, OwnInv, Rows

-----------------------------------------------------------------------------
(* 'skip' and 'replace' schedules have at most one run under way.          *)
LEMMA OneStep ==
    ASSUME OwnInv, OneRunUnderWay, [Next]_vars PROVE OneRunUnderWay'
<1>1. CASE Ends
  BY <1>1 DEF Ends, OneRunUnderWay, Pending
<1>2. ASSUME NEW x, Recorded(x), ~Busy(x), runs < MaxRuns
      PROVE  OneRunUnderWay'
  <2>1. /\ run'[runs + 1].schedule = x.id
        /\ \A r \in RunIds \ {runs + 1} :
              run'[r] = run[r] /\ status'[r] = Replaced(x.id)[r]
    BY <1>2, RecordsRun
  <2>2. ASSUME NEW s \in Schedules, Policy[s] # "queue",
               NEW q \in Pending(s)', NEW r \in Pending(s)'
        PROVE  q = r
    <3>1. \A p \in RunIds : Replaced(x.id)[p] = "running" => status[p] = "running"
      BY DEF Replaced
    <3>2. CASE s = x.id
      <4>1. \A p \in RunIds : run[p].schedule = x.id
                              => Replaced(x.id)[p] # "running"
        BY <1>2, <2>2, <3>1, <3>2, SchedulerAssumption
        DEF Replaced, Pending, Busy, SchedulerAssumption
      <4>2. \A p \in Pending(s)' : p = runs + 1
        BY <2>1, <3>2, <4>1 DEF Pending
      <4> QED BY <2>2, <4>2
    <3>3. CASE s # x.id
      <4>1. Pending(s)' \subseteq Pending(s)
        BY <2>1, <3>1, <3>3 DEF Pending
      <4> QED BY <2>2, <4>1 DEF OneRunUnderWay
    <3> QED BY <3>2, <3>3
  <2> QED BY <2>2 DEF OneRunUnderWay
<1> QED BY <1>1, <1>2, RowsStep DEF Records

(* Two runs of such a schedule are never under way together.               *)
THEOREM OneRun == Spec => []OneRunUnderWay
<1>1. Init => OneRunUnderWay
  BY DEF Init, OneRunUnderWay, Pending
<1> QED BY <1>1, OwnInit, OwnStep, OneStep, PTL DEF Spec

-----------------------------------------------------------------------------
(* No step changes a run that ended.                                       *)
LEMMA EndedStep ==
    ASSUME OwnInv, [Next]_vars, NEW r \in RunIds, status[r] \in Ended
    PROVE  status'[r] = status[r] /\ run'[r] = run[r]
<1>1. CASE Ends
  BY <1>1 DEF Ends
<1>2. ASSUME NEW x, Recorded(x), runs < MaxRuns
      PROVE  status'[r] = status[r] /\ run'[r] = run[r]
  <2>1. r # runs + 1
    BY <1>2, RecordsRun DEF Ended
  <2>2. Replaced(x.id)[r] = status[r]
    BY ReplacedStatus DEF OwnInv, Ended
  <2> QED BY <1>2, <2>1, <2>2, RecordsRun
<1> QED BY <1>1, <1>2, RowsStep DEF Records

(* The end of a run is final: Spec keeps EndedRunStays.                    *)
THEOREM EndedFinal == Spec => EndedRunStays
<1>1. ASSUME OwnInv, [Next]_vars
      PROVE  [\A r \in RunIds : status[r] \in Ended
                 => status'[r] = status[r] /\ run'[r] = run[r]]_vars
  BY <1>1, EndedStep
<1> QED BY <1>1, OwnInit, OwnStep, PTL DEF Spec, EndedRunStays

-----------------------------------------------------------------------------
(* The engine disables schedules and never enables one.                    *)
Columns == {"enabled", "deleted", "last", "next", "failures", "count", "date"}

Table(t) == DOMAIN t = Schedules /\ \A s \in Schedules : DOMAIN t[s] = Columns

(* Table u comes from t without enabling a schedule.                       *)
Quieter(u, t) ==
    Table(u) /\ \A s \in Schedules : u[s].enabled => t[s].enabled

LEMMA UpdatedQuieter ==
    ASSUME NEW t, Table(t), NEW s, NEW c,
           s \in Schedules => DOMAIN c = Columns /\ (c.enabled => t[s].enabled)
    PROVE  Quieter(Updated(t, s, c), t)
BY DEF Updated, Table, Quieter

LEMMA MovedQuieter ==
    ASSUME NEW t, Table(t), NEW x, NEW n PROVE Quieter(Moved(t, x, n), t)
<1> DEFINE c == [t[x.id] EXCEPT !.next = n]
<1>1. x.id \in Schedules => DOMAIN c = Columns /\ (c.enabled => t[x.id].enabled)
  BY DEF Table, Columns
<1>2. Quieter(t, t)
  BY DEF Quieter
<1>3. Quieter(Updated(t, x.id, c), t)
  BY <1>1, UpdatedQuieter
<1> QED BY <1>2, <1>3 DEF Moved

LEMMA FailureQuieter ==
    ASSUME NEW t, Table(t), NEW s, NEW f, NEW r
    PROVE  Quieter(Failure(t, s, f, r), t)
<1> DEFINE c == [t[s] EXCEPT !.failures = f + 1]
           d == [c EXCEPT !.next = RetryAt(r, s)]
<1>1. s \in Schedules => /\ DOMAIN c = Columns /\ (c.enabled => t[s].enabled)
                         /\ DOMAIN d = Columns /\ (d.enabled => t[s].enabled)
  BY DEF Table, Columns
<1>2. Quieter(Updated(t, s, c), t)
  BY <1>1, UpdatedQuieter
<1>3. Quieter(Updated(t, s, d), t)
  BY <1>1, UpdatedQuieter
<1>4. Failure(t, s, f, r) = IF run[r].attempt <= Retries[s]
                            THEN Updated(t, s, d) ELSE Updated(t, s, c)
  BY DEF Failure
<1> QED BY <1>2, <1>3, <1>4

LEMMA StartedQuieter ==
    ASSUME Table(schedule), NEW s PROVE Quieter(Started(s), schedule)
<1> DEFINE c == [schedule[s] EXCEPT !.last = now]
<1>1. s \in Schedules => DOMAIN c = Columns /\ (c.enabled => schedule[s].enabled)
  BY DEF Table, Columns
<1> QED BY <1>1, UpdatedQuieter DEF Started

LEMMA CountedQuieter ==
    ASSUME NEW t, Table(t), NEW x, NEW d PROVE Quieter(Counted(t, x, d), t)
BY DEF Counted, Table, Quieter, Columns

LEMMA ResetQuieter ==
    ASSUME Table(schedule) PROVE Quieter(CountersReset, schedule)
BY DEF CountersReset, Table, Quieter, Columns

(* Every step keeps the table's columns, and only an owner's step enables. *)
LEMMA PauseStep ==
    ASSUME Table(schedule), [Next]_vars
    PROVE  /\ Table(schedule)'
           /\ \/ Quieter(schedule', schedule)
              \/ UNCHANGED <<tick, turn, run, status, task>>
<1> DEFINE Goal == Quieter(schedule', schedule)
<1>1. ASSUME schedule' = schedule PROVE Goal
  BY <1>1 DEF Quieter
<1>2. ASSUME NEW s, NEW c, schedule' = Updated(schedule, s, c),
             s \in Schedules => /\ DOMAIN c = Columns
                                /\ c.enabled => schedule[s].enabled
      PROVE  Goal
  BY <1>2, UpdatedQuieter
<1>3. ASSUME NEW i, TickStarts(i) PROVE Goal
  BY <1>3, ResetQuieter DEF TickStarts
<1>4. ASSUME NEW i, NEW x, Skips(i, x) PROVE Goal
  BY <1>4, MovedQuieter DEF Skips
<1>5. ASSUME NEW i, NEW x, AutoPauses(i, x) PROVE Goal
  <2>1. schedule' = Updated(schedule, x.id,
                            [schedule[x.id] EXCEPT !.enabled = FALSE])
    BY <1>5 DEF AutoPauses
  <2> QED BY <2>1, <1>2 DEF Table, Columns
<1>6. ASSUME NEW i, NEW x, StartsRun(i, x) PROVE Goal
  <2>1. Quieter(Started(x.id), schedule)
    BY StartedQuieter
  <2>2. Quieter(Counted(Started(x.id), x, tick[i].today), Started(x.id))
    BY <2>1, CountedQuieter DEF Quieter
  <2> QED BY <1>6, <2>1, <2>2 DEF StartsRun, Quieter
<1>7. ASSUME NEW i, Answer(i) PROVE Goal
  BY <1>1, <1>7, MovedQuieter, FailureQuieter
  DEF Answer, TaskCreated, TaskRefused, TaskThrows
<1>8. ASSUME NEW r, NEW s, RunEnds(r, s) PROVE Goal
  <2> DEFINE id == run[r].schedule
             c == [schedule[id] EXCEPT !.failures = 0]
  <2>1. \/ schedule' = Updated(schedule, id, c)
        \/ schedule' = Failure(schedule, id, schedule[id].failures, r)
        \/ schedule' = schedule
    BY <1>8 DEF RunEnds
  <2>2. id \in Schedules => DOMAIN c = Columns /\ (c.enabled => schedule[id].enabled)
    BY DEF Table, Columns
  <2> QED BY <2>1, <2>2, <1>1, <1>2, FailureQuieter
<1>9. ASSUME Restart PROVE Goal
  <2>1. \/ schedule' = schedule
        \/ \E s : schedule' = Started(s)
    BY <1>9 DEF Restart, StopsIdle, StopsStarting, StopsEnding
  <2>2. CASE schedule' = schedule
    BY <2>2, <1>1
  <2>3. CASE \E s : schedule' = Started(s)
    <3>1. PICK s : schedule' = Started(s)
      BY <2>3
    <3>2. Quieter(Started(s), schedule)
      BY StartedQuieter
    <3> QED BY <3>1, <3>2
  <2> QED BY <2>1, <2>2, <2>3
<1>10. ASSUME NEW s \in Schedules, Pause(s) \/ Resume(s) \/ Delete(s)
       PROVE  Table(schedule)' /\ UNCHANGED <<tick, turn, run, status, task>>
  <2>1. ASSUME NEW c, Owner(s, c), DOMAIN c = Columns
        PROVE  Table(schedule)' /\ UNCHANGED <<tick, turn, run, status, task>>
    BY <2>1 DEF Owner, Updated, Table
  <2>2. DOMAIN schedule[s] = Columns
    BY DEF Table
  <2>3. CASE Pause(s)
    BY <2>1, <2>2, <2>3 DEF Pause
  <2>4. CASE Resume(s)
    BY <2>1, <2>2, <2>4 DEF Resume
  <2>5. CASE Delete(s)
    BY <2>1, <2>2, <2>5 DEF Delete
  <2> QED BY <1>10, <2>3, <2>4, <2>5
<1>11. CASE Clock \/ UNCHANGED vars
  BY <1>1, <1>11 DEF Clock, vars
<1>12. Goal => Table(schedule)'
  BY DEF Quieter, Table
<1> QED
  BY <1>3, <1>4, <1>5, <1>6, <1>7, <1>8, <1>9, <1>10, <1>11, <1>12
  DEF Next, Engine, Look, Owners, Executor

(* No tick undoes a pause: Spec keeps PauseSticks.                         *)
THEOREM PausesStay == Spec => PauseSticks
<1>1. Init => Table(schedule)
  BY DEF Init, Table, Columns
<1>2. Table(schedule) /\ [Next]_vars => Table(schedule)'
  BY PauseStep
<1>3. ASSUME Table(schedule), [Next]_vars
      PROVE  [\A s \in Schedules :
                 ~schedule[s].enabled /\ schedule'[s].enabled
                 => UNCHANGED <<tick, turn, run, status, task>>]_vars
  BY <1>3, PauseStep DEF Quieter
<1> QED BY <1>1, <1>2, <1>3, PTL DEF Spec, PauseSticks

(* No tick undoes the end of a run or an owner's pause.                    *)
THEOREM TicksUndoNothing == Spec => NothingUndone
<1> QED BY EndedFinal, PausesStay DEF NothingUndone

-----------------------------------------------------------------------------
(* A set of natural numbers has a least element: initial segments are      *)
(* finite, and inclusion of finite sets is well founded.                   *)
LEMMA LeastNat ==
    ASSUME NEW S, S \subseteq Nat, S # {}
    PROVE  \E m \in S : \A n \in S : m <= n
<1> DEFINE T == {0..n : n \in S}
           R == StrictSubsetOrdering(Nat)
<1>1. T \subseteq FiniteSubsetsOf(Nat) /\ T # {}
  <2>1. \A n \in S : IsFiniteSet(0..n) /\ 0..n \in SUBSET Nat
    BY FS_Interval
  <2> QED BY <2>1 DEF FiniteSubsetsOf
<1>2. PICK x \in T : \A y \in T : ~(<<y, x>> \in R)
  BY <1>1, FS_StrictSubsetOrderingWellFounded, WFMin
<1>3. PICK m \in S : x = 0..m
  OBVIOUS
<1>4. ASSUME NEW n \in S, n < m PROVE FALSE
  <2>1. 0..n \subseteq x /\ 0..n # x /\ 0..n \subseteq Nat /\ x \subseteq Nat
    BY <1>3, <1>4
  <2>2. <<0..n, x>> \in R
    BY <2>1 DEF StrictSubsetOrdering
  <2> QED BY <2>2, <1>2
<1> QED BY <1>4

(* The numbers the engine calculates with.                                 *)
LEMMA CronTime ==
    ASSUME NEW t \in Nat, NEW e \in Nat \ {0}
    PROVE  t \div e \in Nat /\ ((t \div e) + 1) * e \in Nat
<1>1. t \div e \in Nat
  OBVIOUS
<1> DEFINE q == (t \div e) + 1
<1>2. q \in Nat
  BY <1>1
<1>3. q * e \in Nat
  BY <1>2
<1> QED BY <1>1, <1>3

(* Everything is of its type, and each run under way has an attempt number *)
(* no greater than its own.                                                *)
RunRows ==
    \A r \in RunIds : r <= runs => run[r] \in Run /\ run[r].attempt \in 1..r

Waiting == \A i \in TickIds : tick[i].run # NoRun => tick[i].at \in Seen

Tables == [Schedules -> Row]

TypeInv == OwnInv /\ SchedulerTypeOK /\ RunRows /\ Waiting

LEMMA UpdatedRows ==
    ASSUME NEW t \in Tables, NEW s \in Schedules, NEW c \in Row
    PROVE  Updated(t, s, c) \in Tables
BY DEF Updated, Tables

LEMMA NextRunTime ==
    ASSUME NEW x \in Seen, now \in Nat
    PROVE  NextRun(x) \in Times
<1> USE SchedulerAssumption DEF SchedulerAssumption
<1> DEFINE from == IF x.last = None THEN now ELSE x.last
           e == Every[x.id]
<1>1. x.id \in Schedules /\ from \in Nat /\ e \in Nat \ {0}
  BY DEF Seen, Times
<1>2. Kind[x.id] \in {"once", "interval", "cron"}
  BY <1>1
<1> HIDE DEF from, e
<1>3. from + e \in Nat /\ ((from \div e) + 1) * e \in Nat
  <2> DEFINE q == (from \div e) + 1
  <2>1. q \in Nat
    BY <1>1
  <2> HIDE DEF q
  <2>2. q * e \in Nat /\ from + e \in Nat
    BY <1>1, <2>1
  <2> QED BY <2>2 DEF q
<1>4. CASE Kind[x.id] = "once"
  BY <1>4 DEF NextRun, Times
<1>5. CASE Kind[x.id] = "interval"
  BY <1>5, <1>3 DEF NextRun, Times, from, e
<1>6. CASE Kind[x.id] = "cron"
  BY <1>6, <1>3 DEF NextRun, Times, from, e
<1> QED BY <1>2, <1>4, <1>5, <1>6

LEMMA MovedRows ==
    ASSUME NEW t \in Tables, NEW x \in Seen, NEW n \in Times
    PROVE  Moved(t, x, n) \in Tables
<1>1. x.id \in Schedules
  BY DEF Seen
<1>2. [t[x.id] EXCEPT !.next = n] \in Row
  BY <1>1 DEF Tables, Row
<1> QED BY <1>1, <1>2, UpdatedRows DEF Moved

LEMMA RetryTime ==
    ASSUME TypeInv, NEW r \in RunIds, r <= runs, NEW s \in Schedules
    PROVE  RetryAt(r, s) \in Times
<1> USE SchedulerAssumption DEF SchedulerAssumption
<1> DEFINE n == run[r].attempt - 1
           p == Multiplier[s] ^ n
<1>1. r \in 1..MaxRuns /\ run[r].attempt \in 1..r /\ now \in Nat
  BY DEF TypeInv, RunRows, SchedulerTypeOK, RunIds
<1>2. n \in 0..MaxRuns
  BY <1>1
<1>3. p \in Nat
  BY <1>2, PowersAreWhole
<1> HIDE DEF p
<1>4. Delay[s] * p \in Nat
  BY <1>3
<1>5. now + Delay[s] * p \in Nat
  BY <1>1, <1>4
<1> QED BY <1>5 DEF RetryAt, Times, p

LEMMA FailureRows ==
    ASSUME TypeInv, NEW r \in RunIds, r <= runs, NEW s \in Schedules, NEW f \in Nat
    PROVE  Failure(schedule, s, f, r) \in Tables
<1> DEFINE c == [schedule[s] EXCEPT !.failures = f + 1]
           d == [c EXCEPT !.next = RetryAt(r, s)]
<1>1. schedule \in Tables /\ schedule[s] \in Row
  BY DEF TypeInv, SchedulerTypeOK, Tables
<1>2. c \in Row
  BY <1>1 DEF Row
<1>3. d \in Row
  <2>1. RetryAt(r, s) \in Times
    BY RetryTime
  <2> QED BY <1>2, <2>1 DEF Row
<1>4. Updated(schedule, s, c) \in Tables /\ Updated(schedule, s, d) \in Tables
  BY <1>1, <1>2, <1>3, UpdatedRows
<1> QED BY <1>4 DEF Failure

LEMMA StartedRows ==
    ASSUME TypeInv, NEW s \in Schedules PROVE Started(s) \in Tables
<1>1. schedule \in Tables /\ schedule[s] \in Row /\ now \in Nat
  BY SchedulerAssumption DEF TypeInv, SchedulerTypeOK, Tables, SchedulerAssumption
<1>2. [schedule[s] EXCEPT !.last = now] \in Row
  BY <1>1 DEF Row, Times
<1> QED BY <1>1, <1>2, UpdatedRows DEF Started

LEMMA CountedRows ==
    ASSUME NEW t \in Tables, NEW x \in Seen, NEW d \in Times
    PROVE  Counted(t, x, d) \in Tables
<1>1. x.id \in Schedules /\ t[x.id] \in Row
  BY DEF Seen, Tables
<1> DEFINE n == t[x.id].count + 1
<1>2. n \in Nat
  BY <1>1 DEF Row
<1> HIDE DEF n
<1>3. [t[x.id] EXCEPT !.count = n, !.date = d] \in Row
  BY <1>1, <1>2 DEF Row
<1>4. Counted(t, x, d) = [t EXCEPT ![x.id] = [t[x.id] EXCEPT !.count = n, !.date = d]]
  BY <1>1 DEF Counted, Tables, Row, n
<1> QED BY <1>1, <1>3, <1>4 DEF Tables

LEMMA TodayTime == ASSUME now \in Nat PROVE Today \in Nat
BY CronTime, SchedulerAssumption DEF Today, SchedulerAssumption

LEMMA ResetRows ==
    ASSUME TypeInv PROVE CountersReset \in Tables
<1>1. now \in Nat /\ schedule \in Tables
  BY SchedulerAssumption DEF TypeInv, SchedulerTypeOK, Tables, SchedulerAssumption
<1>2. \A s \in Schedules : [schedule[s] EXCEPT !.count = 0, !.date = Today] \in Row
  BY <1>1, TodayTime DEF Tables, Row, Times
<1> QED BY <1>1, <1>2 DEF CountersReset, Tables

(* The highest attempt of the runs under way is one of theirs.             *)
LEMMA AttemptBounded ==
    ASSUME TypeInv, NEW s \in Schedules
    PROVE  Attempt(s) \in 1..(runs + 1)
<1> USE SchedulerAssumption DEF SchedulerAssumption
<1> DEFINE p == IF Policy[s] = "replace" THEN {} ELSE Pending(s)
           S == {runs - run[r].attempt : r \in p}
<1>1. runs \in Nat /\ runs <= MaxRuns
  BY DEF TypeInv, SchedulerTypeOK
<1>2. ASSUME NEW r \in p PROVE r \in 1..runs /\ run[r].attempt \in 1..r
  <2>1. r \in RunIds /\ status[r] = "running"
    BY DEF Pending
  <2>2. r <= runs
    BY <2>1, <1>1 DEF TypeInv, OwnInv, Rows, RunIds
  <2> QED BY <2>1, <2>2 DEF TypeInv, RunRows, RunIds
<1>3. CASE p = {}
  BY <1>1, <1>3 DEF Attempt
<1>4. CASE p # {}
  <2>1. S \subseteq Nat /\ S # {}
    BY <1>1, <1>2, <1>4
  <2>2. PICK m \in S : \A n \in S : m <= n
    BY <2>1, LeastNat
  <2>3. PICK r \in p : m = runs - run[r].attempt
    BY <2>2
  <2>4. \A q \in p : run[q].attempt <= run[r].attempt
    <3> SUFFICES ASSUME NEW q \in p PROVE run[q].attempt <= run[r].attempt
      OBVIOUS
    <3>1. runs - run[r].attempt <= runs - run[q].attempt
      BY <2>2, <2>3
    <3> QED BY <3>1, <1>1, <1>2
  <2> DEFINE c == CHOOSE r1 \in p : \A q \in p : run[q].attempt <= run[r1].attempt
  <2>5. c \in p
    BY <2>4
  <2>6. Attempt(s) = 1 + run[c].attempt
    BY <1>4 DEF Attempt
  <2> HIDE DEF c, p
  <2> QED BY <2>5, <2>6, <1>1, <1>2
<1> QED BY <1>3, <1>4

(* What is left of a tick, and what a tick reads, is of its type.          *)
LEMMA LeftTick ==
    ASSUME TypeInv, NEW i \in TickIds, NEW x
    PROVE  Left(i, x) \in TickState
<1> USE SchedulerAssumption DEF SchedulerAssumption
<1>1. tick[i] \in TickState
  BY DEF TypeInv, SchedulerTypeOK
<1> QED BY <1>1 DEF Left, TickState, Idle, NoRun, Times

LEMMA SnapshotSeen ==
    ASSUME NEW t \in Tables, NEW s \in Schedules, t[s].next \in Nat
    PROVE  Snapshot(t, s) \in Seen
BY DEF Tables, Row, Snapshot, Seen

(* Steps that leave runs and tasks alone.                                  *)
LEMMA TypeFrame ==
    ASSUME TypeInv, OwnInv', UNCHANGED <<run, status, runs, task, now, restarts>>,
           schedule' \in Tables, tick' \in [TickIds -> TickState],
           turn' \in TickIds \union {None}, Waiting'
    PROVE  TypeInv'
BY DEF TypeInv, SchedulerTypeOK, RunRows, Tables

(* A tick that proceeds.                                                   *)
LEMMA ProceedTypes ==
    ASSUME TypeInv, NEW i \in TickIds, NEW x, Proceed(i, x)
    PROVE  /\ tick' \in [TickIds -> TickState] /\ turn' \in TickIds \union {None}
           /\ Waiting'
<1>1. tick' = [tick EXCEPT ![i] = Left(i, x)] /\ turn' \in TickIds \union {None}
  BY DEF Proceed
<1>2. tick' \in [TickIds -> TickState]
  BY <1>1, LeftTick DEF TypeInv, SchedulerTypeOK
<1>3. Left(i, x).run = NoRun
  BY LeftIdle
<1>4. Waiting'
  BY <1>1, <1>3 DEF Waiting, TypeInv, SchedulerTypeOK
<1> QED BY <1>1, <1>2, <1>4

LEMMA TypeInit == ASSUME Init PROVE TypeInv
<1> USE SchedulerAssumption DEF SchedulerAssumption
<1>1. OwnInv
  BY OwnInit
<1>2. schedule \in [Schedules -> Row]
  BY DEF Init, Row, Times
<1>3. run \in [RunIds -> Run \union {NoRow}] /\ runs \in 0..MaxRuns
  BY DEF Init
<1>4. tick \in [TickIds -> TickState] /\ Waiting
  BY DEF Init, TickState, Idle, NoRun, Times, Waiting
<1>5. RunRows
  BY DEF Init, RunRows, RunIds
<1>6. turn \in TickIds \union {None} /\ now \in 0..MaxTime /\ restarts \in 0..MaxRestarts
  BY DEF Init
<1> QED
  BY <1>1, <1>2, <1>3, <1>4, <1>5, <1>6
  DEF TypeInv, SchedulerTypeOK, OwnInv, Rows

LEMMA TypeTickStarts ==
    ASSUME TypeInv, OwnInv', NEW i \in TickIds, TickStarts(i) PROVE TypeInv'
<1> USE SchedulerAssumption DEF SchedulerAssumption
<1> DEFINE due == {s \in Schedules : IsDue(s)}
           seen == {Snapshot(CountersReset, s) : s \in due}
<1>1. schedule \in Tables /\ CountersReset \in Tables /\ now \in Nat
  BY ResetRows DEF TypeInv, SchedulerTypeOK, Tables
<1>2. ASSUME NEW s \in due PROVE Snapshot(CountersReset, s) \in Seen
  <2>1. schedule[s].next \in Nat
    BY <1>1 DEF IsDue, Tables, Row, Times
  <2>2. CountersReset[s].next = schedule[s].next
    <3>1. s \in Schedules /\ schedule[s] \in Row
      BY <1>1 DEF Tables
    <3>2. [schedule[s] EXCEPT !.count = 0, !.date = Today].next = schedule[s].next
      BY <3>1 DEF Row
    <3> QED BY <3>1, <3>2 DEF CountersReset
  <2> QED BY <2>1, <2>2, <1>1, SnapshotSeen
<1>3. seen \subseteq Seen
  BY <1>2
<1> HIDE DEF seen
<1> DEFINE state == IF due = {} THEN Idle
                    ELSE [today |-> Today, at |-> None, run |-> NoRun, seen |-> seen]
<1>4. state \in TickState /\ state.run = NoRun
  BY <1>1, <1>3, TodayTime DEF TickState, Idle, NoRun, Times
<1>5. tick' = [tick EXCEPT ![i] = state]
  BY DEF TickStarts, seen
<1> HIDE DEF state
<1>6. tick' \in [TickIds -> TickState] /\ Waiting'
  BY <1>4, <1>5 DEF TypeInv, SchedulerTypeOK, Waiting
<1> QED BY <1>1, <1>6, TypeFrame DEF TickStarts

LEMMA HeadSeen ==
    ASSUME TypeInv, NEW i \in TickIds, NEW x \in tick[i].seen PROVE x \in Seen
BY DEF TypeInv, SchedulerTypeOK, TickState

LEMMA TypeMoves ==
    ASSUME TypeInv, OwnInv', NEW i \in TickIds, NEW x \in tick[i].seen,
           Skips(i, x) \/ AutoPauses(i, x)
    PROVE  TypeInv'
<1>1. x \in Seen /\ schedule \in Tables /\ now \in Nat
  BY HeadSeen, SchedulerAssumption
  DEF TypeInv, SchedulerTypeOK, Tables, SchedulerAssumption
<1>2. Moved(schedule, x, NextRun(x)) \in Tables
  BY <1>1, NextRunTime, MovedRows
<1>3. Updated(schedule, x.id, [schedule[x.id] EXCEPT !.enabled = FALSE]) \in Tables
  <2>1. x.id \in Schedules
    BY <1>1 DEF Seen
  <2>2. [schedule[x.id] EXCEPT !.enabled = FALSE] \in Row
    BY <1>1, <2>1 DEF Tables, Row
  <2> QED BY <1>1, <2>1, <2>2, UpdatedRows
<1>4. schedule' \in Tables /\ Proceed(i, x)
  BY <1>2, <1>3 DEF Skips, AutoPauses
<1> QED BY <1>4, ProceedTypes, TypeFrame DEF Skips, AutoPauses

(* A recorded run is a row, and leaves the others.                         *)
LEMMA RecordedTypes ==
    ASSUME TypeInv, NEW x \in Seen, Recorded(x), runs < MaxRuns
    PROVE  /\ run' \in [RunIds -> Run \union {NoRow}] /\ runs' \in 0..MaxRuns
           /\ RunRows'
<1> USE SchedulerAssumption DEF SchedulerAssumption
<1>1. runs \in Nat /\ runs' = runs + 1 /\ runs + 1 \in RunIds
  BY DEF TypeInv, SchedulerTypeOK, Recorded, RunIds
<1>2. x.id \in Schedules /\ x.next \in Nat /\ now \in Nat
  BY DEF Seen, TypeInv, SchedulerTypeOK
<1> DEFINE row == [schedule |-> x.id, planned |-> x.next, started |-> now,
                   attempt |-> Attempt(x.id)]
<1>3. row \in Run /\ row.attempt \in 1..(runs + 1)
  BY <1>1, <1>2, AttemptBounded DEF Run
<1>4. run' = [run EXCEPT ![runs + 1] = row]
  BY DEF Recorded
<1> HIDE DEF row
<1>5. run' \in [RunIds -> Run \union {NoRow}]
  BY <1>1, <1>3, <1>4 DEF TypeInv, SchedulerTypeOK
<1>6. RunRows'
  <2> SUFFICES ASSUME NEW r \in RunIds, r <= runs + 1
               PROVE  run'[r] \in Run /\ run'[r].attempt \in 1..r
    BY <1>1 DEF RunRows
  <2>1. CASE r = runs + 1
    BY <2>1, <1>1, <1>3, <1>4 DEF TypeInv, SchedulerTypeOK
  <2>2. CASE r # runs + 1
    <3>1. r <= runs
      BY <2>2, <1>1 DEF RunIds
    <3> QED BY <3>1, <2>2, <1>4 DEF TypeInv, SchedulerTypeOK, RunRows
  <2> QED BY <2>1, <2>2
<1> QED BY <1>1, <1>5, <1>6

LEMMA TypeStart ==
    ASSUME TypeInv, OwnInv', NEW i \in TickIds, NEW x \in tick[i].seen, StartsRun(i, x)
    PROVE  TypeInv'
<1> USE SchedulerAssumption DEF SchedulerAssumption
<1>1. x \in Seen /\ x.id \in Schedules /\ runs < MaxRuns /\ Recorded(x)
  BY HeadSeen DEF Seen, StartsRun, MayStart
<1>2. tick[i] \in TickState /\ runs + 1 \in 0..MaxRuns
  BY <1>1 DEF TypeInv, SchedulerTypeOK
<1>3. schedule' \in Tables
  <2>1. tick[i].today \in Times
    BY <1>2 DEF TickState
  <2> QED BY <2>1, <1>1, StartedRows, CountedRows DEF StartsRun
<1> DEFINE state == [today |-> tick[i].today, seen |-> tick[i].seen, at |-> x, run |-> runs + 1]
<1>4. state \in TickState /\ state.at \in Seen
  BY <1>1, <1>2 DEF TickState
<1>5. tick' = [tick EXCEPT ![i] = state]
  BY DEF StartsRun
<1> HIDE DEF state
<1>6. tick' \in [TickIds -> TickState] /\ Waiting'
  BY <1>4, <1>5 DEF TypeInv, SchedulerTypeOK, Waiting
<1> QED
  BY <1>1, <1>3, <1>6, RecordedTypes
  DEF TypeInv, SchedulerTypeOK, OwnInv, Rows, Tables, StartsRun

LEMMA TypeAnswer ==
    ASSUME TypeInv, OwnInv', NEW i \in TickIds, Answer(i) PROVE TypeInv'
<1> USE SchedulerAssumption DEF SchedulerAssumption
<1> DEFINE x == tick[i].at
           r == tick[i].run
<1>1. r # NoRun /\ Proceed(i, x)
  BY DEF Answer, TaskCreated, TaskRefused, TaskThrows, Asked
<1>2. x \in Seen /\ x.id \in Schedules /\ x.failures \in Nat
  <2>1. x \in Seen
    BY <1>1 DEF TypeInv, Waiting
  <2> QED BY <2>1 DEF Seen
<1>3. r \in RunIds /\ r <= runs
  BY <1>1 DEF TypeInv, OwnInv, Rows, RunsOwned, RunIds
<1>4. schedule \in Tables /\ now \in Nat
  BY DEF TypeInv, SchedulerTypeOK, Tables
<1>5. Moved(schedule, x, NextRun(x)) \in Tables
  BY <1>2, <1>4, NextRunTime, MovedRows
<1>6. Failure(schedule, x.id, x.failures, r) \in Tables
  BY <1>2, <1>3, FailureRows
<1>7. schedule' \in Tables /\ UNCHANGED <<run, runs, now, restarts>>
  BY <1>4, <1>5, <1>6 DEF Answer, TaskCreated, TaskRefused, TaskThrows
<1> QED
  BY <1>1, <1>7, ProceedTypes
  DEF TypeInv, SchedulerTypeOK, OwnInv, Rows, RunRows, Tables

LEMMA TypeEnds ==
    ASSUME TypeInv, OwnInv', NEW r \in RunIds, NEW s \in Ended, RunEnds(r, s)
    PROVE  TypeInv'
<1> DEFINE id == run[r].schedule
<1>1. r <= runs /\ schedule \in Tables
  BY DEF TypeInv, OwnInv, RunsOwned, RunEnds, SchedulerTypeOK, Tables
<1>2. id \in Schedules /\ schedule[id] \in Row
  BY <1>1 DEF TypeInv, RunRows, Run, Tables
<1>3. [schedule[id] EXCEPT !.failures = 0] \in Row /\ schedule[id].failures \in Nat
  BY <1>2 DEF Row
<1>4. schedule' \in Tables
  <2>1. Updated(schedule, id, [schedule[id] EXCEPT !.failures = 0]) \in Tables
    BY <1>1, <1>2, <1>3, UpdatedRows
  <2>2. Failure(schedule, id, schedule[id].failures, r) \in Tables
    BY <1>1, <1>2, <1>3, FailureRows
  <2> QED BY <2>1, <2>2, <1>1 DEF RunEnds
<1> QED
  BY <1>4
  DEF TypeInv, SchedulerTypeOK, OwnInv, Rows, RunRows, Tables, RunEnds, Waiting

LEMMA TypeOwners == ASSUME TypeInv, OwnInv', Owners PROVE TypeInv'
<1>1. PICK s \in Schedules : Pause(s) \/ Resume(s) \/ Delete(s)
  BY DEF Owners
<1>2. schedule \in Tables /\ schedule[s] \in Row
  BY DEF TypeInv, SchedulerTypeOK, Tables
<1>3. /\ [schedule[s] EXCEPT !.enabled = FALSE] \in Row
      /\ [schedule[s] EXCEPT !.deleted = TRUE] \in Row
  BY <1>2 DEF Row
<1>4. [schedule[s] EXCEPT !.enabled = TRUE, !.failures = 0] \in Row
  BY <1>2 DEF Row
<1>5. schedule' \in Tables /\ UNCHANGED <<run, status, runs, task, tick, turn, now, restarts>>
  BY <1>1, <1>2, <1>3, <1>4, UpdatedRows DEF Pause, Resume, Delete, Owner
<1> QED BY <1>5 DEF TypeInv, SchedulerTypeOK, RunRows, Tables, Waiting

LEMMA TypeRestart == ASSUME TypeInv, OwnInv', Restart PROVE TypeInv'
<1> USE SchedulerAssumption DEF SchedulerAssumption
<1>1. /\ tick' \in [TickIds -> TickState] /\ Waiting'
      /\ turn' \in TickIds \union {None} /\ now' = now /\ restarts' \in 0..MaxRestarts
  BY DEF Restart, TickState, Idle, NoRun, Times, Waiting, TypeInv, SchedulerTypeOK
<1> DEFINE Goal == /\ schedule' \in Tables /\ runs' \in 0..MaxRuns
                   /\ run' \in [RunIds -> Run \union {NoRow}] /\ RunRows'
<1>2. ASSUME UNCHANGED <<schedule, run, runs>> PROVE Goal
  BY <1>2 DEF TypeInv, SchedulerTypeOK, RunRows, Tables
<1>3. ASSUME NEW i \in TickIds, NEW x \in tick[i].seen, StopsStarting(i, x) PROVE Goal
  <2>1. x \in Seen /\ x.id \in Schedules /\ runs < MaxRuns
    BY <1>3, HeadSeen DEF Seen, StopsStarting, MayStart
  <2>2. CASE Recorded(x) /\ schedule' \in {schedule, Started(x.id)}
    <3>1. schedule' \in Tables
      BY <2>1, <2>2, StartedRows DEF TypeInv, SchedulerTypeOK, Tables
    <3> QED BY <2>1, <2>2, <3>1, RecordedTypes
  <2> QED BY <1>2, <1>3, <2>2 DEF StopsStarting
<1>4. Goal
  BY <1>2, <1>3 DEF Restart, StopsIdle, StopsEnding
<1> QED BY <1>1, <1>4 DEF TypeInv, SchedulerTypeOK, OwnInv, Rows, Tables

LEMMA TypeStep == ASSUME TypeInv, [Next]_vars PROVE TypeInv'
<1>1. OwnInv'
  BY OwnStep DEF TypeInv
<1>2. CASE Clock
  BY <1>1, <1>2, SchedulerAssumption
  DEF Clock, TypeInv, SchedulerTypeOK, RunRows, Waiting, SchedulerAssumption
<1>3. CASE UNCHANGED vars
  BY <1>1, <1>3 DEF vars, TypeInv, SchedulerTypeOK, RunRows, Waiting
<1> QED
  BY <1>1, <1>2, <1>3, TypeTickStarts, TypeMoves, TypeStart, TypeAnswer, TypeEnds,
     TypeOwners, TypeRestart
  DEF Next, Engine, Look, Executor

(* The tables keep their types: Spec keeps SchedulerTypeOK.                *)
THEOREM TypesKept == Spec => []SchedulerTypeOK
<1>1. TypeInv => SchedulerTypeOK
  BY DEF TypeInv
<1> QED BY <1>1, TypeInit, TypeStep, PTL DEF Spec

-----------------------------------------------------------------------------
(* Within a day nothing resets a counter.                                  *)
OneDay == MaxTime < DayLength

Dated ==
    /\ \A s \in Schedules : schedule[s].date \in {None, 0}
    /\ \A i \in TickIds : tick[i].seen # {} => tick[i].today = 0

CountInv == TypeInv /\ Dated /\ CounterCountsRuns

(* Table u counts what t counts.                                           *)
Same(u, t) ==
    \A s \in Schedules : u[s].count = t[s].count /\ u[s].date = t[s].date

LEMMA TodayIsFirst == ASSUME OneDay, TypeInv PROVE Today = 0
<1> USE SchedulerAssumption DEF SchedulerAssumption
<1>1. now \in Nat /\ now < DayLength /\ DayLength \in Nat
  BY DEF OneDay, TypeInv, SchedulerTypeOK
<1> QED BY <1>1 DEF Today

LEMMA UpdatedSame ==
    ASSUME NEW t \in Tables, NEW s \in Schedules, NEW c,
           c.count = t[s].count, c.date = t[s].date
    PROVE  Same(Updated(t, s, c), t)
BY DEF Updated, Same, Tables

LEMMA MovedSame ==
    ASSUME NEW t \in Tables, NEW x \in Seen, NEW n PROVE Same(Moved(t, x, n), t)
<1>1. x.id \in Schedules /\ t[x.id] \in Row
  BY DEF Seen, Tables
<1>2. Same(Updated(t, x.id, [t[x.id] EXCEPT !.next = n]), t)
  BY <1>1, UpdatedSame DEF Row
<1> QED BY <1>2 DEF Moved, Same

LEMMA FailureSame ==
    ASSUME NEW t \in Tables, NEW s \in Schedules, NEW f, NEW r
    PROVE  Same(Failure(t, s, f, r), t)
<1> DEFINE c == [t[s] EXCEPT !.failures = f + 1]
           d == [c EXCEPT !.next = RetryAt(r, s)]
<1>1. t[s] \in Row
  BY DEF Tables
<1>2. c.count = t[s].count /\ c.date = t[s].date
  BY <1>1 DEF Row
<1>3. d.count = t[s].count /\ d.date = t[s].date
  BY <1>1 DEF Row
<1>4. Same(Updated(t, s, c), t) /\ Same(Updated(t, s, d), t)
  BY <1>2, <1>3, UpdatedSame
<1> QED BY <1>4 DEF Failure

LEMMA StartedSame ==
    ASSUME schedule \in Tables, NEW s \in Schedules PROVE Same(Started(s), schedule)
<1>1. schedule[s] \in Row
  BY DEF Tables
<1> QED BY <1>1, UpdatedSame DEF Started, Row

LEMMA RunsFinite ==
    ASSUME TypeInv, NEW s
    PROVE  IsFiniteSet(RunsOf(s)) /\ Cardinality(RunsOf(s)) \in Nat
<1>1. IsFiniteSet(RunIds)
  BY FS_Interval, SchedulerAssumption DEF RunIds, SchedulerAssumption
<1>2. RunsOf(s) \in SUBSET RunIds
  BY DEF RunsOf
<1> QED BY <1>1, <1>2, FS_Subset, FS_CardinalityType

(* A recorded run is one run more of its schedule.                         *)
LEMMA RecordedRuns ==
    ASSUME TypeInv, NEW x, Recorded(x), runs < MaxRuns, NEW s \in Schedules
    PROVE  Cardinality(RunsOf(s)') =
               Cardinality(RunsOf(s)) + IF s = x.id THEN 1 ELSE 0
<1> USE SchedulerAssumption DEF SchedulerAssumption
<1>1. runs \in Nat /\ runs' = runs + 1 /\ runs + 1 \in RunIds
  BY DEF TypeInv, SchedulerTypeOK, Recorded, RunIds
<1>2. /\ run'[runs + 1].schedule = x.id
      /\ \A r \in RunIds \ {runs + 1} : run'[r] = run[r]
  BY RecordsRun DEF TypeInv
<1>3. \A r \in RunIds : r <= runs' <=> r <= runs \/ r = runs + 1
  BY <1>1 DEF RunIds
<1>4. runs + 1 \notin RunsOf(s)
  BY <1>1 DEF RunsOf
<1>5. IsFiniteSet(RunsOf(s))
  BY RunsFinite
<1>6. CASE s = x.id
  <2>1. RunsOf(s)' = RunsOf(s) \union {runs + 1}
    BY <1>1, <1>2, <1>3, <1>6 DEF RunsOf
  <2>2. Cardinality(RunsOf(s) \union {runs + 1}) = Cardinality(RunsOf(s)) + 1
    BY <1>4, <1>5, FS_AddElement
  <2> QED BY <2>1, <2>2, <1>6
<1>7. CASE s # x.id
  <2>1. RunsOf(s)' = RunsOf(s)
    BY <1>1, <1>2, <1>3, <1>7 DEF RunsOf
  <2> QED BY <2>1, <1>5, <1>7, FS_CardinalityType
<1> QED BY <1>6, <1>7

(* Steps that record no run and count none.                                *)
LEMMA CountFrame ==
    ASSUME CountInv, TypeInv', UNCHANGED <<run, runs>>, Same(schedule', schedule),
           restarts' \in {restarts, restarts + 1},
           \A i \in TickIds : tick'[i].seen # {} => tick'[i].today = 0
    PROVE  CountInv'
<1>1. \A s \in Schedules : RunsOf(s)' = RunsOf(s)
  BY DEF RunsOf
<1>2. restarts \in Nat /\ \A s \in Schedules : schedule[s].count \in Nat
  BY SchedulerAssumption
  DEF CountInv, TypeInv, SchedulerTypeOK, SchedulerAssumption, Row
<1>3. CounterCountsRuns'
  <2> SUFFICES ASSUME NEW s \in Schedules
               PROVE  /\ schedule'[s].count <= Cardinality(RunsOf(s)')
                      /\ Cardinality(RunsOf(s)') <= schedule'[s].count + restarts'
    BY DEF CounterCountsRuns
  <2>1. /\ schedule[s].count <= Cardinality(RunsOf(s))
        /\ Cardinality(RunsOf(s)) <= schedule[s].count + restarts
    BY DEF CountInv, CounterCountsRuns
  <2>2. Cardinality(RunsOf(s)) \in Nat
    BY RunsFinite DEF CountInv
  <2>3. schedule'[s].count = schedule[s].count
    BY DEF Same
  <2> QED BY <2>1, <2>2, <2>3, <1>1, <1>2
<1>4. Dated'
  BY DEF CountInv, Dated, Same
<1> QED BY <1>3, <1>4 DEF CountInv

(* What is left of a tick has the day of the tick.                         *)
LEMMA LeftDated ==
    ASSUME CountInv, NEW i \in TickIds, NEW x \in tick[i].seen, Proceed(i, x)
    PROVE  \A j \in TickIds : tick'[j].seen # {} => tick'[j].today = 0
<1>1. DOMAIN tick = TickIds /\ tick[i].today = 0
  BY DEF CountInv, Dated, TypeInv, OwnInv, Rows
<1>2. Left(i, x).seen # {} => Left(i, x).today = 0
  BY <1>1 DEF Left, Idle
<1> QED BY <1>1, <1>2 DEF Proceed, CountInv, Dated

(* The same of a tick that has its answer, whose schedule it still names.  *)
LEMMA AnswerDated ==
    ASSUME CountInv, NEW i \in TickIds, Proceed(i, tick[i].at)
    PROVE  \A j \in TickIds : tick'[j].seen # {} => tick'[j].today = 0
<1>1. DOMAIN tick = TickIds
  BY DEF CountInv, TypeInv, OwnInv, Rows
<1>2. Left(i, tick[i].at).seen # {} => Left(i, tick[i].at).today = 0
  BY <1>1 DEF Left, Idle, CountInv, Dated
<1> QED BY <1>1, <1>2 DEF Proceed, CountInv, Dated

LEMMA CountStart ==
    ASSUME OneDay, CountInv, TypeInv', NEW i \in TickIds, NEW x \in tick[i].seen, StartsRun(i, x)
    PROVE  CountInv'
<1> USE SchedulerAssumption DEF SchedulerAssumption
<1>1. x \in Seen /\ x.id \in Schedules /\ runs < MaxRuns /\ Recorded(x) /\ restarts' = restarts
  BY HeadSeen DEF CountInv, Seen, StartsRun, MayStart
<1>2. tick[i].today = 0 /\ restarts \in Nat /\ schedule \in Tables
  BY DEF CountInv, Dated, TypeInv, SchedulerTypeOK, Tables
<1>3. Same(Started(x.id), schedule) /\ Started(x.id) \in Tables
  BY <1>1, <1>2, StartedSame, StartedRows DEF CountInv
<1>4. \A s \in Schedules :
         /\ schedule'[s].count = schedule[s].count + IF s = x.id THEN 1 ELSE 0
         /\ schedule'[s].date \in {schedule[s].date, 0}
         /\ schedule[s].count \in Nat
  <2>1. schedule' = Counted(Started(x.id), x, 0)
    BY <1>2 DEF StartsRun
  <2>2. \A s \in Schedules : Started(x.id)[s] \in Row /\ schedule[s] \in Row
    BY <1>2, <1>3 DEF Tables
  <2>3. /\ schedule'[x.id].count = Started(x.id)[x.id].count + 1
        /\ schedule'[x.id].date = 0
        /\ \A s \in Schedules : s # x.id => schedule'[s] = Started(x.id)[s]
    BY <2>1, <2>2, <1>1, <1>3 DEF Counted, Tables, Row
  <2> QED BY <2>2, <2>3, <1>1, <1>3 DEF Same, Row
<1>5. CounterCountsRuns'
  <2> SUFFICES ASSUME NEW s \in Schedules
               PROVE  /\ schedule'[s].count <= Cardinality(RunsOf(s)')
                      /\ Cardinality(RunsOf(s)') <= schedule'[s].count + restarts'
    BY DEF CounterCountsRuns
  <2>1. /\ schedule[s].count <= Cardinality(RunsOf(s))
        /\ Cardinality(RunsOf(s)) <= schedule[s].count + restarts
    BY DEF CountInv, CounterCountsRuns
  <2>2. Cardinality(RunsOf(s)) \in Nat
    BY RunsFinite DEF CountInv
  <2>3. Cardinality(RunsOf(s)') = Cardinality(RunsOf(s)) + IF s = x.id THEN 1 ELSE 0
    BY <1>1, RecordedRuns DEF CountInv
  <2> QED BY <2>1, <2>2, <2>3, <1>1, <1>2, <1>4
<1>6. Dated'
  <2>1. /\ tick'[i].today = 0
        /\ \A j \in TickIds : j # i => tick'[j] = tick[j]
    BY <1>2 DEF StartsRun, CountInv, TypeInv, OwnInv, Rows
  <2> QED BY <2>1, <1>4 DEF CountInv, Dated
<1> QED BY <1>5, <1>6 DEF CountInv

LEMMA CountTickStarts ==
    ASSUME OneDay, CountInv, TypeInv', NEW i \in TickIds, TickStarts(i) PROVE CountInv'
<1>1. Today = 0 /\ schedule \in Tables
  BY TodayIsFirst DEF CountInv, TypeInv, SchedulerTypeOK, Tables
<1>2. Same(schedule', schedule)
  <2>1. \A s \in Schedules : CountersReset[s] = schedule[s]
    BY <1>1 DEF CountersReset, CountInv, Dated
  <2> QED BY <2>1 DEF Same, TickStarts
<1>3. \A j \in TickIds : tick'[j].seen # {} => tick'[j].today = 0
  BY <1>1 DEF TickStarts, CountInv, Dated, Idle, TypeInv, OwnInv, Rows
<1> QED BY <1>2, <1>3, CountFrame DEF TickStarts

LEMMA CountMoves ==
    ASSUME CountInv, TypeInv', NEW i \in TickIds, NEW x \in tick[i].seen,
           Skips(i, x) \/ AutoPauses(i, x)
    PROVE  CountInv'
<1>1. x \in Seen /\ x.id \in Schedules /\ schedule \in Tables
  BY HeadSeen DEF CountInv, TypeInv, SchedulerTypeOK, Tables, Seen
<1>2. Same(Moved(schedule, x, NextRun(x)), schedule)
  BY <1>1, MovedSame
<1>3. Same(Updated(schedule, x.id, [schedule[x.id] EXCEPT !.enabled = FALSE]), schedule)
  <2>1. schedule[x.id] \in Row
    BY <1>1 DEF Tables
  <2> QED BY <2>1, <1>1, UpdatedSame DEF Row
<1>4. Same(schedule', schedule) /\ Proceed(i, x) /\ UNCHANGED <<run, runs, restarts>>
  BY <1>2, <1>3 DEF Skips, AutoPauses
<1> QED BY <1>4, LeftDated, CountFrame

LEMMA CountAnswer ==
    ASSUME CountInv, TypeInv', NEW i \in TickIds, Answer(i) PROVE CountInv'
<1> DEFINE x == tick[i].at
<1>1. tick[i].run # NoRun /\ Proceed(i, x)
  BY DEF Answer, TaskCreated, TaskRefused, TaskThrows, Asked
<1>2. x \in Seen /\ x.id \in Schedules /\ schedule \in Tables
  <2>1. x \in Seen
    BY <1>1 DEF CountInv, TypeInv, Waiting
  <2> QED BY <2>1 DEF Seen, CountInv, TypeInv, SchedulerTypeOK, Tables
<1>3. Same(Moved(schedule, x, NextRun(x)), schedule)
  BY <1>2, MovedSame
<1>4. Same(Failure(schedule, x.id, x.failures, tick[i].run), schedule)
  BY <1>2, FailureSame
<1>5. Same(schedule', schedule) /\ UNCHANGED <<run, runs, restarts>>
  BY <1>3, <1>4 DEF Answer, TaskCreated, TaskRefused, TaskThrows, Same
<1> QED BY <1>1, <1>5, AnswerDated, CountFrame

LEMMA CountEnds ==
    ASSUME CountInv, TypeInv', NEW r \in RunIds, NEW s \in Ended, RunEnds(r, s)
    PROVE  CountInv'
<1> DEFINE id == run[r].schedule
<1>1. r <= runs /\ schedule \in Tables
  BY DEF CountInv, TypeInv, OwnInv, RunsOwned, RunEnds, SchedulerTypeOK, Tables
<1>2. id \in Schedules /\ schedule[id] \in Row
  BY <1>1 DEF CountInv, TypeInv, RunRows, Run, Tables
<1>3. Same(Updated(schedule, id, [schedule[id] EXCEPT !.failures = 0]), schedule)
  BY <1>1, <1>2, UpdatedSame DEF Row
<1>4. Same(Failure(schedule, id, schedule[id].failures, r), schedule)
  BY <1>1, <1>2, FailureSame
<1>5. Same(schedule', schedule)
  BY <1>3, <1>4 DEF RunEnds, Same
<1> QED BY <1>5, CountFrame DEF RunEnds, CountInv, Dated

LEMMA CountOwners == ASSUME CountInv, TypeInv', Owners PROVE CountInv'
<1>1. PICK s \in Schedules : Pause(s) \/ Resume(s) \/ Delete(s)
  BY DEF Owners
<1>2. schedule \in Tables /\ schedule[s] \in Row
  BY DEF CountInv, TypeInv, SchedulerTypeOK, Tables
<1>3. ASSUME NEW c, Owner(s, c), c.count = schedule[s].count, c.date = schedule[s].date
      PROVE  CountInv'
  <2>1. Same(schedule', schedule)
    BY <1>2, <1>3, UpdatedSame DEF Owner
  <2> QED BY <1>3, <2>1, CountFrame DEF Owner, CountInv, Dated
<1>4. CASE Pause(s)
  BY <1>2, <1>3, <1>4 DEF Pause, Row
<1>5. CASE Resume(s)
  BY <1>2, <1>3, <1>5 DEF Resume, Row
<1>6. CASE Delete(s)
  BY <1>2, <1>3, <1>6 DEF Delete, Row
<1> QED BY <1>1, <1>4, <1>5, <1>6

(* A restart may come between a run and its increment, once.               *)
LEMMA CountRestart == ASSUME CountInv, TypeInv', Restart PROVE CountInv'
<1> USE SchedulerAssumption DEF SchedulerAssumption
<1>1. (\A j \in TickIds : tick'[j].seen = {}) /\ restarts' = restarts + 1
  BY DEF Restart, Idle
<1>2. ASSUME UNCHANGED <<schedule, run, runs>> PROVE CountInv'
  BY <1>1, <1>2, CountFrame DEF Same
<1>3. ASSUME NEW i \in TickIds, NEW x \in tick[i].seen, StopsStarting(i, x),
             Recorded(x), schedule' \in {schedule, Started(x.id)}
      PROVE  CountInv'
  <2>1. x \in Seen /\ x.id \in Schedules /\ runs < MaxRuns /\ schedule \in Tables
    BY <1>3, HeadSeen
    DEF CountInv, Seen, StopsStarting, MayStart, TypeInv, SchedulerTypeOK, Tables
  <2>2. Same(schedule', schedule)
    BY <2>1, <1>3, StartedSame DEF Same
  <2>3. CounterCountsRuns'
    <3> SUFFICES ASSUME NEW s \in Schedules
                 PROVE  /\ schedule'[s].count <= Cardinality(RunsOf(s)')
                        /\ Cardinality(RunsOf(s)') <= schedule'[s].count + restarts'
      BY DEF CounterCountsRuns
    <3>1. /\ schedule[s].count <= Cardinality(RunsOf(s))
          /\ Cardinality(RunsOf(s)) <= schedule[s].count + restarts
      BY DEF CountInv, CounterCountsRuns
    <3>2. Cardinality(RunsOf(s)) \in Nat /\ restarts \in Nat /\ schedule[s].count \in Nat
      BY <2>1, RunsFinite DEF CountInv, TypeInv, SchedulerTypeOK, Tables, Row
    <3>3. Cardinality(RunsOf(s)') = Cardinality(RunsOf(s)) + IF s = x.id THEN 1 ELSE 0
      BY <2>1, <1>3, RecordedRuns DEF CountInv
    <3>4. schedule'[s].count = schedule[s].count
      BY <2>2 DEF Same
    <3> QED BY <3>1, <3>2, <3>3, <3>4, <1>1
  <2>4. Dated'
    BY <2>2, <1>1 DEF CountInv, Dated, Same
  <2> QED BY <2>3, <2>4 DEF CountInv
<1> QED BY <1>2, <1>3 DEF Restart, StopsIdle, StopsEnding, StopsStarting

LEMMA CountStep == ASSUME OneDay, CountInv, [Next]_vars PROVE CountInv'
<1>1. TypeInv'
  BY TypeStep DEF CountInv
<1>2. CASE Clock
  BY <1>1, <1>2, CountFrame DEF Clock, CountInv, Dated, Same
<1>3. CASE UNCHANGED vars
  BY <1>1, <1>3, CountFrame DEF vars, CountInv, Dated, Same
<1> QED
  BY <1>1, <1>2, <1>3, CountTickStarts, CountMoves, CountStart, CountAnswer,
     CountEnds, CountOwners, CountRestart
  DEF Next, Engine, Look, Executor

LEMMA CountInit == ASSUME Init PROVE CountInv
<1>1. TypeInv
  BY TypeInit
<1>2. \A s \in Schedules : RunsOf(s) = {}
  BY SchedulerAssumption DEF Init, RunsOf, RunIds, SchedulerAssumption
<1>3. CounterCountsRuns
  BY <1>2, FS_EmptySet DEF CounterCountsRuns, Init
<1>4. Dated
  BY DEF Init, Dated, Idle
<1> QED BY <1>1, <1>3, <1>4 DEF CountInv

(* Within one day the counter of a schedule counts its runs, but for one   *)
(* that each restart may come before: Spec keeps CounterCountsRuns.        *)
THEOREM CountersCount == ASSUME OneDay PROVE Spec => []CounterCountsRuns
<1>1. CountInv => CounterCountsRuns
  BY DEF CountInv
<1> QED BY <1>1, CountInit, CountStep, PTL DEF Spec
=============================================================================
