----------------------------- MODULE TaskWorker -----------------------------
(***************************************************************************)
(* The task queue of the remote control server: the HTTP handlers that     *)
(* create, cancel, retry and approve tasks (src/remote-control/server.ts), *)
(* the SQLite rows they write (task-store.ts), the worker that executes    *)
(* queued tasks (task-worker.ts), the approvals it waits for               *)
(* (approval-manager.ts), the OpenCode adapter (its awaits only) and the   *)
(* project lock registry (ProjectLocks).                                   *)
(*                                                                         *)
(* The server is one event loop.  An action is one turn of that loop: a    *)
(* request handler, a timer, or the continuation of an await, up to the    *)
(* next await.  The only points at which other turns interleave with a     *)
(* task's execution are its awaits, and fiber[t] says at which one it is:  *)
(*   "approval"  executeTask awaits waitForDecision                        *)
(*   "session"   execute awaits attachOrCreateSession (listSessions)       *)
(*   "exec"      execute awaits the opencode process                       *)
(* Wall clock time is abstracted to one bit per deadline (lock expiry,     *)
(* approval expiry): an action of the clock sets it, at any moment.        *)
(***************************************************************************)
EXTENDS Naturals, FiniteSets

CONSTANTS
    Projects,       \* ids of the registered project profiles
    Unclassified,   \* lock id used for a task whose profile is not found
    Environments,   \* environments of the profiles
    DefaultEnv,     \* 'local', the environment of a task that names none
    Requests,       \* the bodies clients post to /api/tasks
    Keys, NoKey,    \* idempotency keys; a request without one
    Phantom,        \* lock holder: a task id that was never stored
    None,           \* no task
    NoProfile,      \* getProfile found nothing
    Concurrency,    \* WORKER_CONCURRENCY
    MaxWrite,       \* profile.concurrency.maxWriteTasks, per project
    Exhaustible,    \* the token budgets small enough to be used up
    NoBudget,       \* the token budgets that are zero in the profile
    MaxTasks,       \* bound: rows of the tasks table
    MaxApprovals,   \* bound: rows of the approvals table
    MaxRestarts     \* bound: restarts of the server

BudgetKinds == {"read", "write"}
Budgets     == Projects \X BudgetKinds
TaskIds     == 1..MaxTasks
ApprovalIds == 1..MaxApprovals
LockIds     == Projects \union {Unclassified}

Request == [project : Projects, env : Environments, read : BOOLEAN,
            readOnly : BOOLEAN, risky : BOOLEAN, priority : 0..3,
            byPath : BOOLEAN, key : Keys \union {NoKey}]

ASSUME WorkerAssumption ==
    /\ MaxTasks \in Nat /\ MaxApprovals \in Nat /\ MaxRestarts \in Nat
    /\ Concurrency \in Nat
    /\ MaxWrite \in [Projects -> Nat]
    /\ DefaultEnv \in Environments
    /\ Requests \subseteq Request
    /\ Exhaustible \subseteq Budgets /\ NoBudget \subseteq Budgets
    /\ None \notin TaskIds /\ Phantom \notin TaskIds
    /\ NoProfile \notin Projects

VARIABLES
    row,            \* tasks table: the columns createTask fills
    status,         \* tasks table: column status
    created,        \* number of rows in the tasks table
    approval,       \* approvals table: task, status, expires_at passed
    requested,      \* number of rows in the approvals table
    cancelAudit,    \* audit_log: the tasks with a 'task_cancelled' entry
    running,        \* TaskWorker.running: keys of the map
    projectLocks,   \* TaskWorker.projectLocks
    envLocks,       \* TaskWorker.environmentLocks
    fiber,          \* the await at which executeTask(t) is suspended
    awaiting,       \* the approval executeTask(t) created in this execution
    waiters,        \* ApprovalManager.decisionWaiters: keys of the map
    registry,       \* project-locks.ts: the lock registry
    exhausted,      \* project-budgets.ts: the budgets a check now refuses
    restarts        \* restarts so far

store  == <<row, status, created, approval, requested, cancelAudit>>
memory == <<running, projectLocks, envLocks, fiber, awaiting, waiters,
            registry, exhausted>>
vars   == <<row, status, created, approval, requested, cancelAudit, running,
            projectLocks, envLocks, fiber, awaiting, waiters, registry,
            exhausted, restarts>>

INSTANCE ProjectLocks WITH Holders <- TaskIds \union {Phantom}

NoRow      == [stored |-> FALSE]
Row        == [stored : {TRUE}, project : Projects, env : Environments,
               read : BOOLEAN, risky : BOOLEAN, priority : 0..3,
               byPath : BOOLEAN, profile : Projects \union {NoProfile},
               key : Keys \union {NoKey}]
NoRequest  == [task |-> 0, status |-> "none", due |-> FALSE]
Approval   == [task : TaskIds, due : BOOLEAN,
               status : {"pending", "approved", "rejected", "expired"}]
NoApproval == 0
Terminal   == {"completed", "failed", "cancelled"}
Statuses   == {"absent", "queued", "running"} \union Terminal

-----------------------------------------------------------------------------
(* What the handlers read.                                                 *)

IsWrite(t) == ~row[t].read

(* The registry key: the profile the worker looked up, or 'unclassified'.  *)
LockKey(t) == <<IF row[t].profile = NoProfile THEN Unclassified
                ELSE row[t].profile, row[t].env>>

(* The key of environmentLocks: project_lock and environment of the row.   *)
EnvKey(t) == <<row[t].project, row[t].env>>

WriteLimit(t) ==
    IF row[t].profile = NoProfile THEN 1 ELSE MaxWrite[row[t].profile]

(* checkBudget: a write draws on both budgets of the project.              *)
WithinBudget(p, write) ==
    /\ <<p, "read">> \notin exhausted
    /\ write => <<p, "write">> \notin exhausted

(* nextQueuedTask: priority first, then creation order.                    *)
NextQueued(t) ==
    /\ status[t] = "queued"
    /\ \A u \in TaskIds \ {t} : status[u] = "queued" =>
          \/ row[t].priority < row[u].priority
          \/ row[t].priority = row[u].priority /\ t < u

(* Mutant: a decision reaches every execution that waits for one.          *)
Parked_Anyone(A) == {t \in TaskIds : fiber[t] = "approval" /\ A # {}}

Parked(A) == {t \in TaskIds : fiber[t] = "approval" /\ awaiting[t] \in A}

-----------------------------------------------------------------------------
Init ==
    /\ row = [t \in TaskIds |-> NoRow]
    /\ status = [t \in TaskIds |-> "absent"]
    /\ created = 0
    /\ approval = [a \in ApprovalIds |-> NoRequest]
    /\ requested = 0
    /\ cancelAudit = {}
    /\ running = {}
    /\ projectLocks = [p \in Projects |-> None]
    /\ envLocks = [k \in Projects \X Environments |-> None]
    /\ fiber = [t \in TaskIds |-> "idle"]
    /\ awaiting = [t \in TaskIds |-> NoApproval]
    /\ waiters = {}
    /\ registry = EmptyRegistry
    /\ exhausted = NoBudget
    /\ restarts = 0

-----------------------------------------------------------------------------
(* POST /api/tasks.                                                        *)

KeyTaken(r) ==
    r.key # NoKey /\ \E t \in TaskIds : row[t].stored /\ row[t].key = r.key

Admitted(r) ==
    WithinBudget(r.project, ~r.readOnly) /\ ~KeyTaken(r)

CreateTask(r) ==
    LET t == created + 1 IN
    /\ created < MaxTasks
    /\ ~r.readOnly => CanAcquire(registry, r.project, r.env, t)
    /\ Admitted(r)
    /\ registry' = IF r.readOnly THEN registry
                   ELSE Granted(registry, r.project, r.env, t)
    /\ row' = [row EXCEPT ![t] =
          [stored |-> TRUE, project |-> r.project, env |-> r.env,
           read |-> r.read, risky |-> r.risky, priority |-> r.priority,
           byPath |-> r.byPath, profile |-> r.project, key |-> r.key]]
    /\ status' = [status EXCEPT ![t] = "queued"]
    /\ created' = t
    /\ UNCHANGED <<approval, requested, cancelAudit, running, projectLocks,
                   envLocks, fiber, awaiting, waiters, exhausted, restarts>>

(* 423: another task holds the project; an expired lock may still go.      *)
CreateBlocked(r) ==
    /\ ~r.readOnly /\ ~CanAcquire(registry, r.project, r.env, created + 1)
    /\ registry' = SweepKey(registry, <<r.project, r.env>>)
    /\ UNCHANGED <<store, running, projectLocks, envLocks, fiber, awaiting,
                   waiters, exhausted, restarts>>

(* 429 (budget) or 400 (the key is UNIQUE in the table) after the lock was *)
(* taken for the id of the task that is not stored.  Nobody releases it.   *)
CreateRefused(r) ==
    /\ ~r.readOnly /\ CanAcquire(registry, r.project, r.env, created + 1)
    /\ ~Admitted(r)
    /\ registry' = Granted(registry, r.project, r.env, Phantom)
    /\ UNCHANGED <<store, running, projectLocks, envLocks, fiber, awaiting,
                   waiters, exhausted, restarts>>

-----------------------------------------------------------------------------
(* The worker.                                                             *)

(* The finally block of executeTask, for the tasks T whose execution ends. *)
(* Both maps are cleared at the project's keys, whoever set them; the      *)
(* registry only gives up the task's own lock.                             *)
Finally(T) ==
    /\ running' = running \ T
    /\ projectLocks' = [p \in Projects |->
          IF \E t \in T : row[t].project = p THEN None ELSE projectLocks[p]]
    /\ envLocks' = [k \in Projects \X Environments |->
          IF \E t \in T : EnvKey(t) = k THEN None ELSE envLocks[k]]
    /\ registry' = Released(registry, {<<LockKey(t), t>> : t \in T})
    /\ fiber' = [t \in TaskIds |-> IF t \in T THEN "idle" ELSE fiber[t]]
    /\ awaiting' = [t \in TaskIds |->
          IF t \in T THEN NoApproval ELSE awaiting[t]]

(* The executions of T end and their rows get status s, unconditionally.   *)
EndWith(T, s) ==
    /\ Finally(T)
    /\ status' = [t \in TaskIds |-> IF t \in T THEN s ELSE status[t]]

(* poll found t and a slot is free.                                        *)
Polled(t) == Cardinality(running) < Concurrency /\ NextQueued(t)

(* Mutant: only the environment's lock is looked up, not the project's.    *)
MapsFree_EnvOnly(t) ==
    /\ envLocks[EnvKey(t)] = None
    /\ Cardinality(running) < WriteLimit(t)

(* The checks of executeTask that make a write task wait in the queue.     *)
MapsFree(t) ==
    /\ projectLocks[row[t].project] = None
    /\ envLocks[EnvKey(t)] = None
    /\ Cardinality(running) < WriteLimit(t)

LockFree(t) == CanAcquire(Cleared(registry), LockKey(t)[1], row[t].env, t)

MayStart(t) == IsWrite(t) => MapsFree(t) /\ LockFree(t)

(* The locks executeTask takes for t before it checks the budget.          *)
TakeLocks(t) ==
    IF IsWrite(t)
    THEN /\ registry' = Granted(Cleared(registry), LockKey(t)[1], row[t].env, t)
         /\ projectLocks' = [projectLocks EXCEPT ![row[t].project] = t]
         /\ envLocks' = [envLocks EXCEPT ![EnvKey(t)] = t]
    ELSE /\ registry' = Cleared(registry)
         /\ UNCHANGED <<projectLocks, envLocks>>

BudgetAllows(t) ==
    row[t].profile # NoProfile => WithinBudget(row[t].profile, IsWrite(t))

(* Not now: t stays at the head of the queue.                              *)
PollWaits(t) ==
    /\ Polled(t) /\ ~MayStart(t)
    /\ registry' = Cleared(registry)
    /\ UNCHANGED <<store, running, projectLocks, envLocks, fiber, awaiting,
                   waiters, exhausted, restarts>>

(* Budget exceeded: the row fails and executeTask returns before the try,  *)
(* so no finally block gives the locks back.                               *)
PollOverBudget(t) ==
    /\ Polled(t) /\ MayStart(t) /\ ~BudgetAllows(t)
    /\ TakeLocks(t)
    /\ status' = [status EXCEPT ![t] = "failed"]
    /\ UNCHANGED <<row, created, approval, requested, cancelAudit, running,
                   fiber, awaiting, waiters, exhausted, restarts>>

Starts(t) ==
    /\ Polled(t) /\ MayStart(t) /\ BudgetAllows(t)
    /\ TakeLocks(t)
    /\ running' = running \union {t}
    /\ status' = [status EXCEPT ![t] = "running"]

(* Mutant: nobody asks whether the task needs an approval.                 *)
PollStart_NoGate(t) ==
    /\ Starts(t)
    /\ fiber' = [fiber EXCEPT ![t] = "session"]
    /\ UNCHANGED <<row, created, approval, requested, cancelAudit, awaiting,
                   waiters, exhausted, restarts>>

PollStart(t) ==
    /\ Starts(t) /\ ~row[t].risky
    /\ fiber' = [fiber EXCEPT ![t] = "session"]
    /\ UNCHANGED <<row, created, approval, requested, cancelAudit, awaiting,
                   waiters, exhausted, restarts>>

(* A high-risk task asks for an approval and waits for the decision.       *)
PollStartRisky(t) ==
    LET a == requested + 1 IN
    /\ Starts(t) /\ row[t].risky
    /\ requested < MaxApprovals
    /\ requested' = a
    /\ approval' = [approval EXCEPT ![a] =
          [task |-> t, status |-> "pending", due |-> FALSE]]
    /\ waiters' = waiters \union {a}
    /\ awaiting' = [awaiting EXCEPT ![t] = a]
    /\ fiber' = [fiber EXCEPT ![t] = "approval"]
    /\ UNCHANGED <<row, created, cancelAudit, exhausted, restarts>>

Poll(t) ==
    \/ PollWaits(t) \/ PollOverBudget(t) \/ PollStart(t) \/ PollStartRisky(t)

(* listSessions answered: the process is spawned.                          *)
SessionReady(t) ==
    /\ fiber[t] = "session"
    /\ fiber' = [fiber EXCEPT ![t] = "exec"]
    /\ UNCHANGED <<store, running, projectLocks, envLocks, awaiting, waiters,
                   registry, exhausted, restarts>>

(* listSessions exited non-zero; it has no timeout.                        *)
SessionFails(t) ==
    /\ fiber[t] = "session"
    /\ EndWith({t}, "failed")
    /\ UNCHANGED <<row, created, approval, requested, cancelAudit, waiters,
                   exhausted, restarts>>

(* The process exits 0, and recordUsage may use a budget up.               *)
ExecCompletes(t) ==
    /\ fiber[t] = "exec"
    /\ EndWith({t}, "completed")
    /\ \E spent \in SUBSET {b \in Exhaustible :
             b[1] = row[t].profile /\ (b[2] = "read" \/ IsWrite(t))} :
          exhausted' = exhausted \union spent
    /\ UNCHANGED <<row, created, approval, requested, cancelAudit, waiters,
                   restarts>>

(* The process exits non-zero, or the timeout kills it.                    *)
ExecFails(t) ==
    /\ fiber[t] = "exec"
    /\ EndWith({t}, "failed")
    /\ UNCHANGED <<row, created, approval, requested, cancelAudit, waiters,
                   exhausted, restarts>>

-----------------------------------------------------------------------------
(* POST /api/tasks/:id/cancel.  Every case is answered 200 and audited.    *)

Cancelled(t) == cancelAudit' = cancelAudit \union {t}

(* worker.cancel finds no controller and returns false: the row is left.   *)
CancelQueued(t) ==
    /\ status[t] = "queued"
    /\ Cancelled(t)
    /\ UNCHANGED <<row, status, created, approval, requested, memory, restarts>>

(* The abort rejects the wait for the approval; the row is first set to    *)
(* cancelled, and then to failed by the catch block.                       *)
CancelParked(t) ==
    /\ t \in running /\ fiber[t] = "approval"
    /\ Cancelled(t)
    /\ waiters' = waiters \ {awaiting[t]}
    /\ EndWith({t}, "failed")
    /\ UNCHANGED <<row, created, approval, requested, exhausted, restarts>>

(* Nobody listens to the signal yet: the slot is free, the execution goes  *)
(* on, and the listener added later never fires.                           *)
CancelInSession(t) ==
    /\ t \in running /\ fiber[t] = "session"
    /\ Cancelled(t)
    /\ running' = running \ {t}
    /\ status' = [status EXCEPT ![t] = "cancelled"]
    /\ UNCHANGED <<row, created, approval, requested, projectLocks, envLocks,
                   fiber, awaiting, waiters, registry, exhausted, restarts>>

(* Mutant: the execution ends outside the try, without the finally block.  *)
CancelInExec_KeepsLock(t) ==
    /\ t \in running /\ fiber[t] = "exec"
    /\ Cancelled(t)
    /\ running' = running \ {t}
    /\ fiber' = [fiber EXCEPT ![t] = "idle"]
    /\ awaiting' = [awaiting EXCEPT ![t] = NoApproval]
    /\ status' = [status EXCEPT ![t] = "cancelled"]
    /\ UNCHANGED <<row, created, approval, requested, waiters, projectLocks,
                   envLocks, registry, exhausted, restarts>>

(* The process is killed and the execution ends as cancelled.              *)
CancelInExec(t) ==
    /\ t \in running /\ fiber[t] = "exec"
    /\ Cancelled(t)
    /\ EndWith({t}, "cancelled")
    /\ UNCHANGED <<row, created, approval, requested, waiters, exhausted,
                   restarts>>

CancelTask(t) ==
    \/ CancelQueued(t) \/ CancelParked(t)
    \/ CancelInSession(t) \/ CancelInExec(t)

-----------------------------------------------------------------------------
(* POST /api/tasks/:id/retry: a new row, without a lock, without the       *)
(* environment and the project_id of the original.                         *)
RetryTask(t) ==
    LET u == created + 1 IN
    /\ status[t] \in {"failed", "cancelled"}
    /\ created < MaxTasks
    /\ row' = [row EXCEPT ![u] =
          [row[t] EXCEPT !.env = DefaultEnv, !.key = NoKey,
                         !.profile = IF row[t].byPath THEN NoProfile
                                     ELSE row[t].project]]
    /\ status' = [status EXCEPT ![u] = "queued"]
    /\ created' = u
    /\ UNCHANGED <<approval, requested, cancelAudit, memory, restarts>>

-----------------------------------------------------------------------------
(* Approvals.                                                              *)

Pending(a) == approval[a].status = "pending"

(* Mutant: the statement writes a status the checks do not know.           *)
Decide_Upper(a, s) ==
    approval' = [approval EXCEPT ![a].status = IF s = "approved" THEN "granted"
                                               ELSE s]

Decide(a, s) == approval' = [approval EXCEPT ![a].status = s]

(* approve, in time: the waiter, if there still is one, is resolved and    *)
(* the execution goes on to the session.                                   *)
Approve(a) ==
    /\ Pending(a) /\ ~approval[a].due
    /\ Decide(a, "approved")
    /\ waiters' = waiters \ {a}
    /\ fiber' = [t \in TaskIds |->
          IF t \in Parked({a} \intersect waiters) THEN "session" ELSE fiber[t]]
    /\ UNCHANGED <<row, status, created, requested, cancelAudit, running,
                   projectLocks, envLocks, awaiting, registry, exhausted,
                   restarts>>

(* approve, too late: the row is rejected and the waiter is not told.      *)
ApproveLate(a) ==
    /\ Pending(a) /\ approval[a].due
    /\ Decide(a, "rejected")
    /\ UNCHANGED <<row, status, created, requested, cancelAudit, memory,
                   restarts>>

(* Mutant: reject, like denyApproval, does not look at the status.         *)
Reject_Unchecked(a) ==
    /\ approval[a].status # "none"
    /\ Decide(a, "rejected")
    /\ waiters' = waiters \ {a}
    /\ EndWith(Parked({a} \intersect waiters), "cancelled")
    /\ UNCHANGED <<row, created, requested, cancelAudit, exhausted, restarts>>

(* reject looks at no deadline; the task ends as cancelled.                *)
Reject(a) ==
    /\ Pending(a)
    /\ Decide(a, "rejected")
    /\ waiters' = waiters \ {a}
    /\ EndWith(Parked({a} \intersect waiters), "cancelled")
    /\ UNCHANGED <<row, created, requested, cancelAudit, exhausted, restarts>>

(* expireStaleApprovals *)
Stale == {a \in ApprovalIds : Pending(a) /\ approval[a].due}

Expire == approval' = [a \in ApprovalIds |->
    IF a \in Stale THEN [approval[a] EXCEPT !.status = "expired"]
    ELSE approval[a]]

(* GET /api/approvals expires the stale rows and wakes nobody.             *)
ListApprovals ==
    /\ Stale # {}
    /\ Expire
    /\ UNCHANGED <<row, status, created, requested, cancelAudit, memory,
                   restarts>>

(* The 30 s checker: if it expired a row itself, it wakes every waiter     *)
(* whose row is decided.  Those rows are never 'approved' (WaitersMatch).  *)
ExpiryChecker ==
    LET woken == {a \in waiters : a \in Stale \/ ~Pending(a)} IN
    /\ Stale # {}
    /\ Expire
    /\ waiters' = waiters \ woken
    /\ EndWith(Parked(woken), "cancelled")
    /\ UNCHANGED <<row, created, requested, cancelAudit, exhausted, restarts>>

(* Mutant: the timer leaves its waiter in the map.                         *)
WaitTimesOut_LeavesWaiter(t) ==
    /\ fiber[t] = "approval" /\ approval[awaiting[t]].due
    /\ EndWith({t}, "failed")
    /\ UNCHANGED <<row, created, approval, requested, cancelAudit, waiters,
                   exhausted, restarts>>

(* Mutant: no timer of its own, the waiter relies on the pending row.      *)
WaitTimesOut_IfPending(t) ==
    /\ fiber[t] = "approval" /\ approval[awaiting[t]].due
    /\ Pending(awaiting[t])
    /\ waiters' = waiters \ {awaiting[t]}
    /\ EndWith({t}, "failed")
    /\ UNCHANGED <<row, created, approval, requested, cancelAudit, exhausted,
                   restarts>>

(* The timer of waitForDecision; it does not touch the approval's row.     *)
WaitTimesOut(t) ==
    /\ fiber[t] = "approval" /\ approval[awaiting[t]].due
    /\ waiters' = waiters \ {awaiting[t]}
    /\ EndWith({t}, "failed")
    /\ UNCHANGED <<row, created, approval, requested, cancelAudit, exhausted,
                   restarts>>

-----------------------------------------------------------------------------
(* The clock and the crash.                                                *)

(* 600 s after it was taken, a lock of the registry is expired.            *)
LockAges(k) ==
    /\ registry[k].held /\ ~registry[k].expired
    /\ registry' = Aged(registry, k)
    /\ UNCHANGED <<store, running, projectLocks, envLocks, fiber, awaiting,
                   waiters, exhausted, restarts>>

(* 600 s after the request, in the order of the requests.                  *)
ApprovalAges(a) ==
    /\ approval[a].status # "none" /\ ~approval[a].due
    /\ \A b \in 1..(a - 1) : approval[b].due
    /\ approval' = [approval EXCEPT ![a].due = TRUE]
    /\ UNCHANGED <<row, status, created, requested, cancelAudit, memory,
                   restarts>>

(* A new day or week: some of the counters start again.                    *)
BudgetResets ==
    /\ \E back \in SUBSET (exhausted \ NoBudget) :
          /\ back # {}
          /\ exhausted' = exhausted \ back
    /\ UNCHANGED <<store, running, projectLocks, envLocks, fiber, awaiting,
                   waiters, registry, restarts>>

(* Mutant: nobody recovers the interrupted tasks.                          *)
Restart_NoRecovery ==
    /\ restarts < MaxRestarts
    /\ restarts' = restarts + 1
    /\ running' = {} /\ waiters' = {}
    /\ projectLocks' = [p \in Projects |-> None]
    /\ envLocks' = [k \in Projects \X Environments |-> None]
    /\ fiber' = [t \in TaskIds |-> "idle"]
    /\ awaiting' = [t \in TaskIds |-> NoApproval]
    /\ registry' = EmptyRegistry
    /\ exhausted' = NoBudget
    /\ UNCHANGED <<row, status, created, approval, requested, cancelAudit>>

(* The server stops or crashes and is started again: the memory is gone,   *)
(* and recoverInterrupted puts the running rows back into the queue.       *)
Restart ==
    /\ restarts < MaxRestarts
    /\ restarts' = restarts + 1
    /\ status' = [t \in TaskIds |->
          IF status[t] = "running" THEN "queued" ELSE status[t]]
    /\ running' = {}
    /\ projectLocks' = [p \in Projects |-> None]
    /\ envLocks' = [k \in Projects \X Environments |-> None]
    /\ fiber' = [t \in TaskIds |-> "idle"]
    /\ awaiting' = [t \in TaskIds |-> NoApproval]
    /\ waiters' = {}
    /\ registry' = EmptyRegistry
    /\ exhausted' = NoBudget
    /\ UNCHANGED <<row, created, approval, requested, cancelAudit>>

-----------------------------------------------------------------------------
Client ==
    \/ \E r \in Requests : CreateTask(r) \/ CreateBlocked(r) \/ CreateRefused(r)
    \/ \E t \in TaskIds : CancelTask(t) \/ RetryTask(t)
    \/ \E a \in ApprovalIds : Approve(a) \/ ApproveLate(a) \/ Reject(a)
    \/ ListApprovals

Worker ==
    \/ \E t \in TaskIds :
          \/ Poll(t) \/ SessionReady(t) \/ SessionFails(t)
          \/ ExecCompletes(t) \/ ExecFails(t) \/ WaitTimesOut(t)
    \/ ExpiryChecker

Clock ==
    \/ \E k \in LockKeys : LockAges(k)
    \/ \E a \in ApprovalIds : ApprovalAges(a)
    \/ BudgetResets

Next == Client \/ Worker \/ Clock \/ Restart

Spec == Init /\ [][Next]_vars
=============================================================================
