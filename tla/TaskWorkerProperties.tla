------------------------ MODULE TaskWorkerProperties ------------------------
(***************************************************************************)
(* What TaskWorker is expected to satisfy, the fairness of its timers, and *)
(* the mapping under which it implements TaskLifecycle.                    *)
(***************************************************************************)
EXTENDS TaskWorker

-----------------------------------------------------------------------------
(* Terms the properties share.                                             *)

Live(t) == fiber[t] # "idle"

Writers(p) == {t \in TaskIds : Live(t) /\ IsWrite(t) /\ row[t].project = p}

(* No client posts a 'read' command for p.  Read tasks run without locks   *)
(* but clear the project's locks when they end.                            *)
ReadFree(p) == \A r \in Requests : r.project = p => ~r.read

-----------------------------------------------------------------------------
(* Type invariant: every table, map and counter holds what its declaration *)
(* in task-worker.ts, task-store.ts and project-locks.ts allows.           *)
TypeOK ==
    /\ row \in [TaskIds -> Row \union {NoRow}]
    /\ status \in [TaskIds -> Statuses]
    /\ created \in 0..MaxTasks
    /\ approval \in [ApprovalIds -> Approval \union {NoRequest}]
    /\ requested \in 0..MaxApprovals
    /\ cancelAudit \subseteq TaskIds
    /\ running \subseteq TaskIds
    /\ projectLocks \in [Projects -> TaskIds \union {None}]
    /\ envLocks \in [Projects \X Environments -> TaskIds \union {None}]
    /\ fiber \in [TaskIds -> {"idle", "approval", "session", "exec"}]
    /\ awaiting \in [TaskIds -> ApprovalIds \union {NoApproval}]
    /\ waiters \subseteq ApprovalIds
    /\ registry \in Registries
    /\ exhausted \subseteq Budgets
    /\ restarts \in 0..MaxRestarts

(* The rows of the tasks table are exactly the tasks created so far, and   *)
(* only they are executed.                                                 *)
RowsCreated ==
    \A t \in TaskIds :
        /\ row[t].stored <=> t <= created
        /\ status[t] = "absent" <=> t > created
        /\ Live(t) => t <= created

(* No row of a read-free project is a read: retries copy the command.      *)
ReadFreeRows ==
    \A t \in TaskIds :
        row[t].stored /\ ReadFree(row[t].project) => ~row[t].read

-----------------------------------------------------------------------------
(* Locks.                                                                  *)

(* "One write task per project": two executions of write tasks of the same *)
(* project never overlap, from the first await of executeTask to its       *)
(* finally block, even when the registry's lock has expired meanwhile or   *)
(* a cancel has already taken the task out of the running map.             *)
OneWritePerProject ==
    \A p \in Projects : ReadFree(p) => \A t, u \in Writers(p) : t = u

(* The execution of a write task keeps the worker's own project lock until *)
(* its finally block: nothing else clears it under the task's feet.        *)
WriterHoldsLock ==
    \A p \in Projects : ReadFree(p) =>
        \A t \in Writers(p) : projectLocks[p] = t

(* The inductive invariant behind OneWritePerProject.                      *)
LockInv == TypeOK /\ RowsCreated /\ ReadFreeRows /\ WriterHoldsLock

(* The worker's project lock belongs to a task that is still being         *)
(* executed, so that it will be given back.                                *)
LockHolderAlive ==
    \A p \in Projects : projectLocks[p] # None => Live(projectLocks[p])

(* The registry never holds locks of two tasks for one project, whatever   *)
(* the environments they were taken for.                                   *)
RegistryExclusive ==
    \A j, k \in LockKeys :
        j[1] = k[1] /\ registry[j].held /\ registry[k].held
        => registry[j].holder = registry[k].holder

(* A lock of the registry that has not expired goes only when its holder's *)
(* execution ends or the server restarts: no other task's finally block,   *)
(* create or poll takes it away.                                           *)
LockKept ==
    [][\A k \in LockKeys :
          registry[k].held /\ ~registry[k].expired =>
             \/ registry'[k].held /\ registry'[k].holder = registry[k].holder
             \/ restarts' # restarts
             \/ \E t \in TaskIds : registry[k].holder = t /\ Live(t) /\ ~Live(t)']_vars

-----------------------------------------------------------------------------
(* Approvals.                                                              *)

(* A risky task gets past its approval only if the approval asked for in   *)
(* this very execution is its own and was approved: not an older one from  *)
(* before a restart, one of another task, a rejected or an expired one.    *)
ApprovalGate ==
    \A t \in TaskIds :
        fiber[t] \in {"session", "exec"} /\ row[t].risky =>
            /\ awaiting[t] # NoApproval
            /\ approval[awaiting[t]].task = t
            /\ approval[awaiting[t]].status = "approved"

(* The approvals asked for so far are the rows of the table, and an        *)
(* execution awaits one that was asked for its own task.                   *)
AwaitsOwn ==
    /\ \A a \in ApprovalIds : approval[a].status = "none" <=> a > requested
    /\ \A t \in TaskIds :
          /\ fiber[t] = "approval" => awaiting[t] # NoApproval
          /\ awaiting[t] # NoApproval =>
                awaiting[t] <= requested /\ approval[awaiting[t]].task = t

(* The inductive invariant behind ApprovalGate.                            *)
GateInv == TypeOK /\ RowsCreated /\ AwaitsOwn /\ ApprovalGate

(* The waiters are exactly the approvals an execution is parked on, each   *)
(* by one execution, and none of them is already approved: no wakeup is    *)
(* lost and no waiter is left behind by a cancel or a timeout.             *)
WaitersMatch ==
    /\ waiters = {awaiting[t] : t \in {u \in TaskIds : fiber[u] = "approval"}}
    /\ \A t, u \in TaskIds :
          awaiting[t] = awaiting[u] /\ awaiting[t] # NoApproval => t = u
    /\ \A a \in waiters : approval[a].status # "approved"

(* A decision on an approval is final: no later approve, reject, expiry    *)
(* or timeout changes it.                                                  *)
ApprovalFinal ==
    [][\A a \in ApprovalIds :
          approval[a].status \in {"approved", "rejected", "expired"}
          => approval'[a].status = approval[a].status]_vars

-----------------------------------------------------------------------------
(* The tasks table and the memory of the worker.                           *)

(* The table says 'running' of exactly the tasks in the running map; an    *)
(* execution outside the map was cancelled, is past its approval, and its  *)
(* row does not say that it waits or that it is over with success.         *)
StoreAgreesWithMap ==
    \A t \in TaskIds :
        /\ status[t] = "running" <=> t \in running
        /\ t \in running => Live(t)
        /\ Live(t) /\ t \notin running =>
              status[t] = "cancelled" /\ fiber[t] \in {"session", "exec"}

(* A completed or failed task is never written again: a late cancel, a     *)
(* timeout or a restart finds nothing to change.                           *)
DoneStays ==
    [][\A t \in TaskIds :
          status[t] \in {"completed", "failed"} => status'[t] = status[t]]_vars

(* What was decided or done stays, whatever comes late: an approval's      *)
(* decision, and a task that completed or failed.                          *)
OutcomesStay == ApprovalFinal /\ DoneStays

-----------------------------------------------------------------------------
(* The abstract specification.  A task whose row is cancelled while its    *)
(* execution goes on is still working.                                     *)

phaseBar == [t \in TaskIds |->
    CASE fiber[t] = "approval"            -> "waiting"
      [] fiber[t] \in {"session", "exec"} -> "working"
      [] OTHER -> IF status[t] \in {"absent", "queued"} THEN status[t]
                  ELSE "done"]

kindBar == [t \in TaskIds |->
    IF row[t].stored THEN [project |-> row[t].project, write |-> ~row[t].read,
                           risky |-> row[t].risky]
    ELSE NoRow]

Lifecycle == INSTANCE TaskLifecycle WITH
    Tasks <- TaskIds, Exclusive <- {p \in Projects : ReadFree(p)},
    Kinds <- [project : Projects, write : BOOLEAN, risky : BOOLEAN],
    NoKind <- NoRow, phase <- phaseBar, kind <- kindBar

(* The server implements the life cycle: one execution per task and        *)
(* restart, exclusive writes, approval before work, done for good.         *)
ImplementsLifecycle == Lifecycle!Spec

-----------------------------------------------------------------------------
(* Liveness.  The poll interval, the timer of waitForDecision and the      *)
(* timeout of the process fire whatever happens, and the clock advances.   *)
(* That the session listing answers is an assumption about opencode: the   *)
(* code puts no timeout on it.                                             *)

Fairness ==
    /\ WF_vars(\E t \in TaskIds : Poll(t))
    /\ \A t \in TaskIds :
          /\ WF_vars(WaitTimesOut(t))
          /\ WF_vars(ExecCompletes(t) \/ ExecFails(t))
          /\ WF_vars(SessionReady(t) \/ SessionFails(t))
    /\ \A k \in LockKeys : WF_vars(LockAges(k))
    /\ \A a \in ApprovalIds : WF_vars(ApprovalAges(a))

FairSpec == Spec /\ Fairness

(* Every task that is queued is executed in the end and reaches a final    *)
(* status, through lock waits, expiries, approvals and restarts.           *)
EveryTaskEnds ==
    \A t \in TaskIds : status[t] = "queued" ~> status[t] \in Terminal

(* The worker's project locks come back.                                   *)
LocksReturn ==
    \A p \in Projects : projectLocks[p] # None ~> projectLocks[p] = None

-----------------------------------------------------------------------------
(* What the documentation says and the code does not do.                   *)

(* docs/OPENCODE-MOBILE-REMOTE-CONTROL.md:134, of every project, also of   *)
(* those for which read tasks are posted.                                  *)
OneWriteAlways ==
    \A p \in Projects : \A t, u \in Writers(p) : t = u
=============================================================================
