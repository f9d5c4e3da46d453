-------------------------- MODULE TaskWorkerProofs --------------------------
(***************************************************************************)
(* Theorems about TaskWorker for every set of projects, requests and       *)
(* environments, every limit and every bound.                              *)
(***************************************************************************)
EXTENDS TaskWorkerProperties, TLAPS

-----------------------------------------------------------------------------
(* The lock registry stays a registry under the calls of project-locks.ts. *)

(* Deleting entries of the registry leaves a registry.                     *)
LEMMA WithoutType ==
    ASSUME NEW reg \in Registries, NEW K
    PROVE  Without(reg, K) \in Registries
BY DEF Without, Registries

(* acquireLock yields a registry when it grants a lock to a known holder.  *)
LEMMA GrantedType ==
    ASSUME NEW reg \in Registries, NEW p \in LockIds, NEW e \in Environments,
           NEW t \in TaskIds \union {Phantom}
    PROVE  Granted(reg, p, e, t) \in Registries
<1>1. SweepKey(reg, <<p, e>>) \in Registries
  BY WithoutType DEF SweepKey
<1>2. <<p, e>> \in LockKeys
  BY DEF LockKeys
<1>3. [held |-> TRUE, holder |-> t, expired |-> FALSE] \in Lock
  BY DEF Lock
<1> QED
  BY <1>1, <1>2, <1>3 DEF Granted, Registries

(* The passing of time keeps the registry a registry.                      *)
LEMMA AgedType ==
    ASSUME NEW reg \in Registries, NEW k \in LockKeys, reg[k].held
    PROVE  Aged(reg, k) \in Registries
<1>1. reg[k] \in Lock
  BY DEF Registries, NoLock
<1>2. [reg[k] EXCEPT !.expired = TRUE] \in Lock
  BY <1>1 DEF Lock
<1> QED
  BY <1>2 DEF Aged, Registries

-----------------------------------------------------------------------------
(* Type correctness.                                                       *)

(* The end of executions keeps every map and table well typed.             *)
LEMMA EndWithType ==
    ASSUME TypeOK, NEW T \in SUBSET TaskIds, NEW s \in Terminal, EndWith(T, s)
    PROVE  /\ status' \in [TaskIds -> Statuses]
           /\ running' \subseteq TaskIds
           /\ projectLocks' \in [Projects -> TaskIds \union {None}]
           /\ envLocks' \in [Projects \X Environments -> TaskIds \union {None}]
           /\ fiber' \in [TaskIds -> {"idle", "approval", "session", "exec"}]
           /\ awaiting' \in [TaskIds -> ApprovalIds \union {NoApproval}]
           /\ registry' \in Registries
<1>1. registry' \in Registries
  BY WithoutType DEF EndWith, Finally, Released, TypeOK
<1> QED
  BY <1>1 DEF EndWith, Finally, TypeOK, Statuses, Terminal

(* The locks a poll takes are well typed.                                  *)
LEMMA TakeLocksType ==
    ASSUME TypeOK, RowsCreated, NEW t \in TaskIds, status[t] = "queued",
           TakeLocks(t)
    PROVE  /\ projectLocks' \in [Projects -> TaskIds \union {None}]
           /\ envLocks' \in [Projects \X Environments -> TaskIds \union {None}]
           /\ registry' \in Registries
<1>1. row[t] \in Row
  BY DEF RowsCreated, TypeOK, NoRow, TaskIds
<1>2. LockKey(t)[1] \in LockIds /\ row[t].env \in Environments
  BY <1>1 DEF LockKey, LockIds, Row
<1>3. Cleared(registry) \in Registries
  BY WithoutType DEF Cleared, TypeOK
<1>4. Granted(Cleared(registry), LockKey(t)[1], row[t].env, t) \in Registries
  BY <1>2, <1>3, GrantedType
<1> QED
  BY <1>1, <1>3, <1>4 DEF TakeLocks, TypeOK, EnvKey, Row

(* The initial state is well typed and satisfies the lock invariant.       *)
LEMMA InitLockInv == Init => LockInv
<1> SUFFICES ASSUME Init PROVE LockInv
  OBVIOUS
<1> USE WorkerAssumption DEF Init
<1>1. EmptyRegistry \in Registries
  BY DEF EmptyRegistry, Registries
<1>2. TypeOK
  BY <1>1 DEF TypeOK, Statuses
<1>3. RowsCreated
  BY DEF RowsCreated, NoRow, Live, TaskIds
<1>4. ReadFreeRows
  BY DEF ReadFreeRows, NoRow
<1>5. WriterHoldsLock
  BY DEF WriterHoldsLock, Writers, Live
<1> QED
  BY <1>2, <1>3, <1>4, <1>5 DEF LockInv

(* Every step keeps the types.                                             *)
LEMMA TypeStep ==
    ASSUME TypeOK, RowsCreated, [Next]_vars
    PROVE  TypeOK'
<1> USE WorkerAssumption
<1> USE DEF TypeOK, store, memory
<1>1. ASSUME NEW r \in Requests, CreateTask(r)
      PROVE  TypeOK'
  <2> DEFINE t == created + 1
  <2>1. t \in TaskIds
    BY <1>1 DEF CreateTask, TaskIds
  <2>2. r.project \in LockIds /\ r.env \in Environments
    BY DEF Request, LockIds
  <2>3. Granted(registry, r.project, r.env, t) \in Registries
    BY <2>1, <2>2, GrantedType
  <2>4. [stored |-> TRUE, project |-> r.project, env |-> r.env,
         read |-> r.read, risky |-> r.risky, priority |-> r.priority,
         byPath |-> r.byPath, profile |-> r.project, key |-> r.key] \in Row
    BY DEF Request, Row
  <2> QED
    BY <1>1, <2>1, <2>3, <2>4 DEF CreateTask, Statuses, TaskIds
<1>2. ASSUME NEW r \in Requests, CreateBlocked(r)
      PROVE  TypeOK'
  BY <1>2, WithoutType DEF CreateBlocked, SweepKey
<1>3. ASSUME NEW r \in Requests, CreateRefused(r)
      PROVE  TypeOK'
  <2>1. r.project \in LockIds /\ r.env \in Environments
    BY DEF Request, LockIds
  <2>2. Granted(registry, r.project, r.env, Phantom) \in Registries
    BY <2>1, GrantedType
  <2> QED
    BY <1>3, <2>2 DEF CreateRefused
<1>4. ASSUME NEW t \in TaskIds, PollWaits(t)
      PROVE  TypeOK'
  BY <1>4, WithoutType DEF PollWaits, Cleared
<1>5. ASSUME NEW t \in TaskIds, PollOverBudget(t)
      PROVE  TypeOK'
  BY <1>5, TakeLocksType DEF PollOverBudget, Polled, NextQueued, Statuses, Terminal
<1>6. ASSUME NEW t \in TaskIds, PollStart(t)
      PROVE  TypeOK'
  BY <1>6, TakeLocksType DEF PollStart, Starts, Polled, NextQueued, Statuses
<1>7. ASSUME NEW t \in TaskIds, PollStartRisky(t)
      PROVE  TypeOK'
  <2>1. requested + 1 \in ApprovalIds
    BY <1>7 DEF PollStartRisky, ApprovalIds
  <2>2. [task |-> t, status |-> "pending", due |-> FALSE] \in Approval
    BY DEF Approval
  <2>3. Starts(t)
    BY <1>7 DEF PollStartRisky
  <2>4. /\ projectLocks' \in [Projects -> TaskIds \union {None}]
        /\ envLocks' \in [Projects \X Environments -> TaskIds \union {None}]
        /\ registry' \in Registries
    BY <2>3, TakeLocksType DEF Starts, Polled, NextQueued
  <2> QED
    BY <1>7, <2>1, <2>2, <2>3, <2>4
    DEF PollStartRisky, Starts, Statuses, ApprovalIds
<1>8. ASSUME NEW t \in TaskIds, SessionReady(t)
      PROVE  TypeOK'
  BY <1>8 DEF SessionReady
<1>9. ASSUME NEW t \in TaskIds, SessionFails(t) \/ ExecFails(t)
      PROVE  TypeOK'
  BY <1>9, EndWithType DEF SessionFails, ExecFails, Terminal
<1>10. ASSUME NEW t \in TaskIds, ExecCompletes(t)
       PROVE  TypeOK'
  BY <1>10, EndWithType DEF ExecCompletes, Terminal
<1>11. ASSUME NEW t \in TaskIds, CancelTask(t)
       PROVE  TypeOK'
  BY <1>11, EndWithType
  DEF CancelTask, CancelQueued, CancelParked, CancelInSession, CancelInExec,
      Cancelled, Terminal, Statuses
<1>12. ASSUME NEW t \in TaskIds, RetryTask(t)
       PROVE  TypeOK'
  <2>1. row[t] \in Row
    BY <1>12 DEF RetryTask, RowsCreated, NoRow, TaskIds
  <2>2. [row[t] EXCEPT !.env = DefaultEnv, !.key = NoKey,
                       !.profile = IF row[t].byPath THEN NoProfile
                                   ELSE row[t].project] \in Row
    BY <2>1 DEF Row
  <2>3. created + 1 \in TaskIds
    BY <1>12 DEF RetryTask, TaskIds
  <2> QED
    BY <1>12, <2>2, <2>3 DEF RetryTask, Statuses, TaskIds
<1>13. ASSUME NEW a \in ApprovalIds, Approve(a)
       PROVE  TypeOK'
  BY <1>13 DEF Approve, Decide, Pending, Approval, NoRequest
<1>14. ASSUME NEW a \in ApprovalIds, ApproveLate(a)
       PROVE  TypeOK'
  BY <1>14 DEF ApproveLate, Decide, Pending, Approval, NoRequest
<1>15. ASSUME NEW a \in ApprovalIds, Reject(a)
       PROVE  TypeOK'
  <2>1. approval' \in [ApprovalIds -> Approval \union {NoRequest}]
    BY <1>15 DEF Reject, Decide, Pending, Approval, NoRequest
  <2> QED
    BY <1>15, <2>1, EndWithType DEF Reject, Parked, Terminal
<1>16. ASSUME Expire
       PROVE  approval' \in [ApprovalIds -> Approval \union {NoRequest}]
  BY <1>16 DEF Expire, Stale, Pending, Approval, NoRequest
<1>17. CASE ListApprovals
  BY <1>16, <1>17 DEF ListApprovals
<1>18. CASE ExpiryChecker
  BY <1>16, <1>18, EndWithType DEF ExpiryChecker, Parked, Terminal
<1>19. ASSUME NEW t \in TaskIds, WaitTimesOut(t)
       PROVE  TypeOK'
  BY <1>19, EndWithType DEF WaitTimesOut, Terminal
<1>20. ASSUME NEW k \in LockKeys, LockAges(k)
       PROVE  TypeOK'
  BY <1>20, AgedType DEF LockAges
<1>21. ASSUME NEW a \in ApprovalIds, ApprovalAges(a)
       PROVE  TypeOK'
  <2>1. approval[a] \in Approval
    BY <1>21 DEF ApprovalAges, NoRequest
  <2>2. [approval[a] EXCEPT !.due = TRUE] \in Approval
    BY <2>1 DEF Approval
  <2> QED
    BY <1>21, <2>2 DEF ApprovalAges
<1>22. CASE BudgetResets
  BY <1>22 DEF BudgetResets
<1>23. CASE Restart
  <2>1. EmptyRegistry \in Registries
    BY DEF EmptyRegistry, Registries
  <2> QED
    BY <1>23, <2>1 DEF Restart, Statuses
<1>24. CASE UNCHANGED vars
  BY <1>24 DEF vars
<1> QED
  BY <1>1, <1>2, <1>3, <1>4, <1>5, <1>6, <1>7, <1>8, <1>9, <1>10, <1>11,
     <1>12, <1>13, <1>14, <1>15, <1>17, <1>18, <1>19, <1>20, <1>21, <1>22,
     <1>23, <1>24
  DEF Next, Client, Worker, Clock, Poll

-----------------------------------------------------------------------------
(* The rows of the tasks table.                                            *)

(* Rows appear only through createTask, at the next free id, and only what *)
(* is stored is executed.                                                  *)
LEMMA RowsStep ==
    ASSUME TypeOK, RowsCreated, [Next]_vars
    PROVE  RowsCreated'
<1> USE DEF RowsCreated, Live, store, memory
<1>1. ASSUME NEW r \in Requests, CreateTask(r)
      PROVE  RowsCreated'
  BY <1>1 DEF CreateTask, TypeOK, TaskIds
<1>2. ASSUME NEW t \in TaskIds, RetryTask(t)
      PROVE  RowsCreated'
  <2>1. row[t].stored
    BY <1>2 DEF RetryTask, TypeOK, TaskIds
  <2>2. row[t] \in Row
    BY <2>1 DEF TypeOK, NoRow
  <2>3. [row[t] EXCEPT !.env = DefaultEnv, !.key = NoKey,
                       !.profile = IF row[t].byPath THEN NoProfile
                                   ELSE row[t].project].stored
    BY <2>2 DEF Row
  <2> QED
    BY <1>2, <2>3 DEF RetryTask, TypeOK, TaskIds
<1>3. ASSUME NEW T \in SUBSET {u \in TaskIds : Live(u)}, NEW s \in Terminal,
             EndWith(T, s), UNCHANGED <<row, created>>
      PROVE  RowsCreated'
  BY <1>3 DEF EndWith, Finally, TypeOK, TaskIds, Terminal
<1>4. ASSUME NEW t \in TaskIds, Poll(t)
      PROVE  RowsCreated'
  <2>1. status[t] = "queued" /\ t <= created
    BY <1>4 DEF Poll, PollWaits, PollOverBudget, PollStart, PollStartRisky,
                Starts, Polled, NextQueued, TypeOK, TaskIds
  <2>2. UNCHANGED <<row, created>>
    BY <1>4 DEF Poll, PollWaits, PollOverBudget, PollStart, PollStartRisky
  <2>3. \/ status' = status
        \/ status' = [status EXCEPT ![t] = "failed"]
        \/ status' = [status EXCEPT ![t] = "running"]
    BY <1>4 DEF Poll, PollWaits, PollOverBudget, PollStart, PollStartRisky,
                Starts
  <2>4. \/ fiber' = fiber
        \/ fiber' = [fiber EXCEPT ![t] = "session"]
        \/ fiber' = [fiber EXCEPT ![t] = "approval"]
    BY <1>4 DEF Poll, PollWaits, PollOverBudget, PollStart, PollStartRisky
  <2> QED
    BY <2>1, <2>2, <2>3, <2>4 DEF TypeOK
<1>5. ASSUME NEW t \in TaskIds,
             SessionFails(t) \/ ExecFails(t) \/ ExecCompletes(t)
             \/ WaitTimesOut(t) \/ CancelParked(t) \/ CancelInExec(t)
      PROVE  RowsCreated'
  <2>1. Live(t) /\ UNCHANGED <<row, created>>
    BY <1>5 DEF SessionFails, ExecFails, ExecCompletes, WaitTimesOut,
                CancelParked, CancelInExec
  <2>2. \E s \in Terminal : EndWith({t}, s)
    BY <1>5 DEF SessionFails, ExecFails, ExecCompletes, WaitTimesOut,
                CancelParked, CancelInExec, Terminal
  <2> QED
    BY <1>3, <2>1, <2>2
<1>6. ASSUME NEW A, A \subseteq waiters, EndWith(Parked(A), "cancelled"),
             UNCHANGED <<row, created>>
      PROVE  RowsCreated'
  BY <1>3, <1>6 DEF Parked, Terminal
<1>7. ASSUME NEW a \in ApprovalIds, Reject(a)
      PROVE  RowsCreated'
  BY <1>6, <1>7 DEF Reject
<1>8. CASE ExpiryChecker
  BY <1>6, <1>8 DEF ExpiryChecker
<1>9. ASSUME NEW t \in TaskIds,
             SessionReady(t) \/ CancelQueued(t) \/ CancelInSession(t)
      PROVE  RowsCreated'
  <2>1. CASE SessionReady(t)
    BY <2>1 DEF SessionReady, TypeOK
  <2>2. CASE CancelQueued(t)
    BY <2>2 DEF CancelQueued
  <2>3. CASE CancelInSession(t)
    BY <2>3 DEF CancelInSession, TypeOK, TaskIds
  <2> QED
    BY <1>9, <2>1, <2>2, <2>3
<1>10. ASSUME NEW a \in ApprovalIds, Approve(a)
       PROVE  RowsCreated'
  BY <1>10 DEF Approve, Parked, TypeOK
<1>11. CASE Restart
  BY <1>11 DEF Restart, TypeOK
<1>12. ASSUME UNCHANGED <<row, status, created, fiber>>
       PROVE  RowsCreated'
  BY <1>12
<1>13. ASSUME NEW r \in Requests, CreateBlocked(r) \/ CreateRefused(r)
       PROVE  RowsCreated'
  BY <1>12, <1>13 DEF CreateBlocked, CreateRefused
<1>14. ASSUME NEW a \in ApprovalIds, ApproveLate(a) \/ ApprovalAges(a)
       PROVE  RowsCreated'
  BY <1>12, <1>14 DEF ApproveLate, ApprovalAges
<1>15. CASE ListApprovals \/ BudgetResets \/ UNCHANGED vars
  BY <1>12, <1>15 DEF ListApprovals, BudgetResets, vars
<1>16. ASSUME NEW k \in LockKeys, LockAges(k)
       PROVE  RowsCreated'
  BY <1>12, <1>16 DEF LockAges
<1> QED
  BY <1>1, <1>2, <1>4, <1>5, <1>7, <1>8, <1>9, <1>10, <1>11, <1>13, <1>14,
     <1>15, <1>16
  DEF Next, Client, Worker, Clock, CancelTask

(* A row is never changed once it is stored, and a row that appears has    *)
(* the project and the command of a request or of an earlier row.          *)
LEMMA RowOrigin ==
    ASSUME TypeOK, RowsCreated, [Next]_vars, NEW t \in TaskIds, row'[t].stored
    PROVE  \/ row'[t] = row[t]
           \/ \E r \in Requests : row'[t].project = r.project
                                 /\ row'[t].read = r.read
           \/ \E u \in TaskIds : row[u].stored
                                /\ row'[t].project = row[u].project
                                /\ row'[t].read = row[u].read
<1>1. ASSUME NEW r \in Requests, CreateTask(r), row'[t] # row[t]
      PROVE  row'[t].project = r.project /\ row'[t].read = r.read
  BY <1>1 DEF CreateTask, TypeOK
<1>2. ASSUME NEW u \in TaskIds, RetryTask(u), row'[t] # row[t]
      PROVE  /\ row[u].stored
             /\ row'[t].project = row[u].project
             /\ row'[t].read = row[u].read
  <2> DEFINE copy == [row[u] EXCEPT !.env = DefaultEnv, !.key = NoKey,
                        !.profile = IF row[u].byPath THEN NoProfile
                                    ELSE row[u].project]
  <2>1. row[u].stored
    BY <1>2 DEF RetryTask, RowsCreated, TypeOK, TaskIds
  <2>2. row[u] \in Row
    BY <2>1 DEF TypeOK, NoRow
  <2>3. copy.project = row[u].project /\ copy.read = row[u].read
    BY <2>2 DEF Row
  <2>4. row'[t] = copy
    BY <1>2 DEF RetryTask, TypeOK
  <2> QED
    BY <2>1, <2>3, <2>4
<1>3. CASE UNCHANGED row
  BY <1>3
<1>4. \/ \E r \in Requests : CreateTask(r)
      \/ \E u \in TaskIds : RetryTask(u)
      \/ UNCHANGED row
  BY DEF Next, Client, Worker, Clock, CancelTask, Poll, vars, store, memory,
         CreateBlocked, CreateRefused, PollWaits, PollOverBudget, PollStart,
         PollStartRisky, SessionReady, SessionFails, ExecCompletes, ExecFails,
         CancelQueued, CancelParked, CancelInSession, CancelInExec, Approve,
         ApproveLate, Reject, ListApprovals, ExpiryChecker, WaitTimesOut,
         LockAges, ApprovalAges, BudgetResets, Restart
<1> QED
  BY <1>1, <1>2, <1>3, <1>4

(* Read-free projects stay free of read rows.                              *)
LEMMA ReadFreeStep ==
    ASSUME TypeOK, RowsCreated, ReadFreeRows, [Next]_vars
    PROVE  ReadFreeRows'
BY RowOrigin DEF ReadFreeRows, ReadFree

-----------------------------------------------------------------------------
(* One write per project.                                                  *)

(* A write task that starts finds the project's lock free and takes it.    *)
LEMMA PollKeepsWriterLock ==
    ASSUME LockInv, NEW t \in TaskIds, Poll(t)
    PROVE  WriterHoldsLock'
<1> USE DEF LockInv, WriterHoldsLock, Writers, Live, IsWrite, store
<1>1. CASE PollWaits(t)
  BY <1>1 DEF PollWaits
<1>2. ASSUME MayStart(t), TakeLocks(t), Polled(t), UNCHANGED row,
             \A u \in TaskIds \ {t} : fiber'[u] = fiber[u]
      PROVE  WriterHoldsLock'
  <2>1. row[t] \in Row
    BY <1>2 DEF Polled, NextQueued, RowsCreated, TypeOK, NoRow, TaskIds
  <2>2. CASE row[t].read
    <3>1. UNCHANGED projectLocks
      BY <1>2, <2>2 DEF TakeLocks
    <3>2. ~ReadFree(row[t].project)
      BY <2>1, <2>2 DEF ReadFreeRows, Row
    <3> QED
      BY <1>2, <3>1, <3>2 DEF ReadFree
  <2>3. CASE ~row[t].read
    <3>1. projectLocks[row[t].project] = None
      BY <1>2, <2>3 DEF MayStart, MapsFree
    <3>2. projectLocks' = [projectLocks EXCEPT ![row[t].project] = t]
      BY <1>2, <2>3 DEF TakeLocks
    <3>3. \A u \in Writers(row[t].project) : ~ReadFree(row[t].project)
      BY <2>1, <3>1, WorkerAssumption DEF Row
    <3> QED
      BY <1>2, <2>1, <3>2, <3>3 DEF TypeOK, Row, ReadFree
  <2> QED
    BY <2>2, <2>3, <2>1 DEF Row
<1>3. CASE PollOverBudget(t)
  BY <1>2, <1>3 DEF PollOverBudget
<1>4. CASE PollStart(t)
  BY <1>2, <1>4 DEF PollStart, Starts, TypeOK
<1>5. CASE PollStartRisky(t)
  BY <1>2, <1>5 DEF PollStartRisky, Starts, TypeOK
<1> QED
  BY <1>1, <1>3, <1>4, <1>5 DEF Poll

(* Executions that end give back the locks of their projects, and by the   *)
(* invariant those are their own.                                          *)
LEMMA EndKeepsWriterLock ==
    ASSUME LockInv, NEW T \in SUBSET {u \in TaskIds : Live(u)},
           Finally(T), UNCHANGED row
    PROVE  WriterHoldsLock'
<1> SUFFICES ASSUME NEW p \in Projects, ReadFree(p), NEW u \in Writers(p)'
             PROVE  projectLocks'[p] = u
  BY DEF WriterHoldsLock, ReadFree
<1>1. u \notin T /\ u \in Writers(p)
  BY DEF Writers, Live, IsWrite, Finally, LockInv, TypeOK
<1>2. projectLocks[p] = u
  BY <1>1 DEF LockInv, WriterHoldsLock
<1>3. ASSUME NEW t \in T PROVE row[t].project # p
  <2>1. SUFFICES ASSUME row[t].project = p PROVE FALSE
    OBVIOUS
  <2>2. row[t].stored
    BY DEF LockInv, RowsCreated
  <2>3. t \in Writers(p)
    BY <2>1, <2>2 DEF Writers, IsWrite, LockInv, ReadFreeRows
  <2> QED
    BY <1>1, <1>2, <2>3 DEF LockInv, WriterHoldsLock
<1> QED
  BY <1>2, <1>3 DEF Finally

(* The inductive step of the lock invariant.                               *)
LEMMA WriterLockStep ==
    ASSUME LockInv, [Next]_vars
    PROVE  WriterHoldsLock'
<1> USE DEF store, memory
<1>1. ASSUME UNCHANGED <<projectLocks, fiber>>,
             \A t \in TaskIds : Live(t) => row'[t] = row[t]
      PROVE  WriterHoldsLock'
  BY <1>1 DEF LockInv, WriterHoldsLock, Writers, Live, IsWrite, ReadFree
<1>2. ASSUME NEW r \in Requests,
             CreateTask(r) \/ CreateBlocked(r) \/ CreateRefused(r)
      PROVE  WriterHoldsLock'
  <2>1. CASE CreateTask(r)
    <3>1. \A t \in TaskIds : Live(t) => t # created + 1
      BY DEF LockInv, RowsCreated, TypeOK, TaskIds
    <3> QED
      BY <1>1, <2>1, <3>1 DEF CreateTask, LockInv, TypeOK
  <2> QED
    BY <1>1, <1>2, <2>1 DEF CreateBlocked, CreateRefused
<1>3. ASSUME NEW t \in TaskIds, RetryTask(t)
      PROVE  WriterHoldsLock'
  <2>1. \A u \in TaskIds : Live(u) => u # created + 1
    BY DEF LockInv, RowsCreated, TypeOK, TaskIds
  <2> QED
    BY <1>1, <1>3, <2>1 DEF RetryTask, LockInv, TypeOK
<1>4. ASSUME NEW t \in TaskIds, Poll(t)
      PROVE  WriterHoldsLock'
  BY <1>4, PollKeepsWriterLock
<1>5. ASSUME NEW t \in TaskIds,
             SessionFails(t) \/ ExecFails(t) \/ ExecCompletes(t)
             \/ WaitTimesOut(t) \/ CancelParked(t) \/ CancelInExec(t)
      PROVE  WriterHoldsLock'
  BY <1>5, EndKeepsWriterLock
  DEF SessionFails, ExecFails, ExecCompletes, WaitTimesOut, CancelParked,
      CancelInExec, EndWith, Live
<1>6. ASSUME NEW A, EndWith(Parked(A), "cancelled"), UNCHANGED row
      PROVE  WriterHoldsLock'
  BY <1>6, EndKeepsWriterLock DEF EndWith, Parked, Live
<1>7. ASSUME NEW a \in ApprovalIds, Reject(a)
      PROVE  WriterHoldsLock'
  BY <1>6, <1>7 DEF Reject
<1>8. CASE ExpiryChecker
  BY <1>6, <1>8 DEF ExpiryChecker
<1>9. ASSUME UNCHANGED <<row, projectLocks>>,
             \A t \in TaskIds : Live(t)' => Live(t)
      PROVE  WriterHoldsLock'
  BY <1>9 DEF LockInv, WriterHoldsLock, Writers, Live, IsWrite, ReadFree
<1>10. ASSUME NEW t \in TaskIds,
              SessionReady(t) \/ CancelQueued(t) \/ CancelInSession(t)
       PROVE  WriterHoldsLock'
  BY <1>9, <1>10
  DEF SessionReady, CancelQueued, CancelInSession, Live, LockInv, TypeOK
<1>11. ASSUME NEW a \in ApprovalIds, Approve(a)
       PROVE  WriterHoldsLock'
  BY <1>9, <1>11 DEF Approve, Parked, Live, LockInv, TypeOK
<1>12. ASSUME NEW a \in ApprovalIds, ApproveLate(a) \/ ApprovalAges(a)
       PROVE  WriterHoldsLock'
  BY <1>1, <1>12 DEF ApproveLate, ApprovalAges
<1>13. CASE Restart
  BY <1>13 DEF Restart, WriterHoldsLock, Writers, Live
<1>14. ASSUME NEW k \in LockKeys, LockAges(k)
       PROVE  WriterHoldsLock'
  BY <1>1, <1>14 DEF LockAges
<1>15. CASE ListApprovals \/ BudgetResets \/ UNCHANGED vars
  BY <1>1, <1>15 DEF ListApprovals, BudgetResets, vars
<1> QED
  BY <1>2, <1>3, <1>4, <1>5, <1>7, <1>8, <1>10, <1>11, <1>12, <1>13, <1>14,
     <1>15
  DEF Next, Client, Worker, Clock, CancelTask

(* The lock invariant holds in every reachable state.                      *)
THEOREM LockInvariant == Spec => []LockInv
<1>1. LockInv /\ [Next]_vars => LockInv'
  BY TypeStep, RowsStep, ReadFreeStep, WriterLockStep DEF LockInv
<1> QED
  BY <1>1, InitLockInv, PTL DEF Spec

(* Every table and map of the server is well typed, always.                *)
THEOREM TypeCorrect == Spec => []TypeOK
<1>1. LockInv => TypeOK
  BY DEF LockInv
<1> QED
  BY <1>1, LockInvariant, PTL

(* Whatever the projects, requests, limits and interleavings: in a project *)
(* without read tasks two write tasks are never executed at once.          *)
THEOREM OneWrite == Spec => []OneWritePerProject
<1>1. LockInv => OneWritePerProject
  BY DEF LockInv, WriterHoldsLock, OneWritePerProject
<1> QED
  BY <1>1, LockInvariant, PTL

-----------------------------------------------------------------------------
(* Approvals.                                                              *)

(* A row of the approvals table keeps its task, and a decided row keeps    *)
(* its decision.                                                           *)
LEMMA ApprovalStep ==
    ASSUME TypeOK, AwaitsOwn, [Next]_vars, NEW a \in ApprovalIds,
           approval[a].status # "none"
    PROVE  /\ approval'[a].task = approval[a].task
           /\ approval'[a].status # "none"
           /\ approval[a].status # "pending"
              => approval'[a].status = approval[a].status
<1>1. approval[a] \in Approval
  BY DEF TypeOK, NoRequest
<1>2. \A s \in STRING : /\ [approval[a] EXCEPT !.status = s].task = approval[a].task
                       /\ [approval[a] EXCEPT !.status = s].status = s
  BY <1>1 DEF Approval
<1>3. /\ [approval[a] EXCEPT !.due = TRUE].task = approval[a].task
      /\ [approval[a] EXCEPT !.due = TRUE].status = approval[a].status
  BY <1>1 DEF Approval
<1>4. ASSUME NEW b \in ApprovalIds, Approve(b) \/ ApproveLate(b) \/ Reject(b),
             approval'[a] # approval[a]
      PROVE  approval[a].status = "pending" /\
             \E s \in {"approved", "rejected"} :
                approval'[a] = [approval[a] EXCEPT !.status = s]
  BY <1>4 DEF Approve, ApproveLate, Reject, Decide, Pending, TypeOK
<1>5. ASSUME ListApprovals \/ ExpiryChecker, approval'[a] # approval[a]
      PROVE  /\ approval[a].status = "pending"
             /\ approval'[a] = [approval[a] EXCEPT !.status = "expired"]
  BY <1>5 DEF ListApprovals, ExpiryChecker, Expire, Stale, Pending
<1>6. ASSUME NEW b \in ApprovalIds, ApprovalAges(b), approval'[a] # approval[a]
      PROVE  approval'[a] = [approval[a] EXCEPT !.due = TRUE]
  BY <1>6 DEF ApprovalAges, TypeOK
<1>7. ASSUME NEW t \in TaskIds, PollStartRisky(t)
      PROVE  approval'[a] = approval[a]
  <2>1. a # requested + 1
    BY DEF AwaitsOwn, TypeOK, ApprovalIds
  <2> QED
    BY <1>7, <2>1 DEF PollStartRisky, TypeOK
<1>8. \/ \E b \in ApprovalIds : Approve(b) \/ ApproveLate(b) \/ Reject(b)
      \/ ListApprovals \/ ExpiryChecker
      \/ \E b \in ApprovalIds : ApprovalAges(b)
      \/ \E t \in TaskIds : PollStartRisky(t)
      \/ UNCHANGED approval
  BY DEF Next, Client, Worker, Clock, CancelTask, Poll, vars, store, memory,
         CreateTask, CreateBlocked, CreateRefused, PollWaits, PollOverBudget,
         PollStart, SessionReady, SessionFails, ExecCompletes, ExecFails,
         CancelQueued, CancelParked, CancelInSession, CancelInExec, RetryTask,
         WaitTimesOut, LockAges, BudgetResets, Restart
<1>9. CASE approval'[a] = approval[a]
  BY <1>9
<1>10. CASE \E s \in {"approved", "rejected", "expired"} :
               /\ approval[a].status = "pending"
               /\ approval'[a] = [approval[a] EXCEPT !.status = s]
  BY <1>2, <1>10
<1>11. CASE approval'[a] = [approval[a] EXCEPT !.due = TRUE]
  BY <1>3, <1>11
<1> QED
  BY <1>4, <1>5, <1>6, <1>7, <1>8, <1>9, <1>10, <1>11

(* What one step may do to one execution.                                  *)
LEMMA FiberStep ==
    ASSUME TypeOK, [Next]_vars, NEW t \in TaskIds
    PROVE  \/ fiber'[t] = fiber[t] /\ awaiting'[t] = awaiting[t]
           \/ fiber'[t] = "idle" /\ awaiting'[t] = NoApproval
           \/ /\ fiber[t] = "session" /\ fiber'[t] = "exec"
              /\ awaiting'[t] = awaiting[t]
           \/ /\ fiber[t] = "approval" /\ fiber'[t] = "session"
              /\ awaiting'[t] = awaiting[t]
              /\ \E a \in ApprovalIds : Approve(a) /\ awaiting[t] = a
           \/ PollStart(t) /\ fiber'[t] = "session" /\ awaiting'[t] = awaiting[t]
           \/ /\ PollStartRisky(t) /\ fiber'[t] = "approval"
              /\ awaiting'[t] = requested + 1
<1> USE DEF TypeOK
<1>1. ASSUME UNCHANGED <<fiber, awaiting>>
      PROVE  fiber'[t] = fiber[t] /\ awaiting'[t] = awaiting[t]
  BY <1>1
<1>2. ASSUME NEW T, Finally(T)
      PROVE  \/ fiber'[t] = fiber[t] /\ awaiting'[t] = awaiting[t]
             \/ fiber'[t] = "idle" /\ awaiting'[t] = NoApproval
  BY <1>2 DEF Finally
<1>3. ASSUME NEW u \in TaskIds, SessionReady(u)
      PROVE  \/ fiber'[t] = fiber[t] /\ awaiting'[t] = awaiting[t]
             \/ /\ fiber[t] = "session" /\ fiber'[t] = "exec"
                /\ awaiting'[t] = awaiting[t]
  BY <1>3 DEF SessionReady
<1>4. ASSUME NEW a \in ApprovalIds, Approve(a)
      PROVE  \/ fiber'[t] = fiber[t] /\ awaiting'[t] = awaiting[t]
             \/ /\ fiber[t] = "approval" /\ fiber'[t] = "session"
                /\ awaiting'[t] = awaiting[t] /\ awaiting[t] = a
  BY <1>4 DEF Approve, Parked
<1>5. ASSUME NEW u \in TaskIds, PollStart(u)
      PROVE  \/ fiber'[t] = fiber[t] /\ awaiting'[t] = awaiting[t]
             \/ PollStart(t) /\ fiber'[t] = "session" /\ awaiting'[t] = awaiting[t]
  BY <1>5 DEF PollStart
<1>6. ASSUME NEW u \in TaskIds, PollStartRisky(u)
      PROVE  \/ fiber'[t] = fiber[t] /\ awaiting'[t] = awaiting[t]
             \/ /\ PollStartRisky(t) /\ fiber'[t] = "approval"
                /\ awaiting'[t] = requested + 1
  BY <1>6 DEF PollStartRisky
<1>7. CASE Restart
  BY <1>7 DEF Restart
<1>8. \/ UNCHANGED <<fiber, awaiting>>
      \/ \E T \in SUBSET TaskIds : Finally(T)
      \/ \E u \in TaskIds : SessionReady(u) \/ PollStart(u) \/ PollStartRisky(u)
      \/ \E a \in ApprovalIds : Approve(a)
      \/ Restart
  BY DEF Next, Client, Worker, Clock, CancelTask, Poll, vars, store, memory,
         CreateTask, CreateBlocked, CreateRefused, PollWaits, PollOverBudget,
         SessionFails, ExecCompletes, ExecFails, CancelQueued, CancelParked,
         CancelInSession, CancelInExec, RetryTask, Reject, ApproveLate,
         ListApprovals, ExpiryChecker, WaitTimesOut, LockAges, ApprovalAges,
         BudgetResets, EndWith, Parked
<1> QED
  BY <1>1, <1>2, <1>3, <1>4, <1>5, <1>6, <1>7, <1>8

(* A stored row never changes again but in its status.                     *)
LEMMA RowStays ==
    ASSUME TypeOK, RowsCreated, [Next]_vars, NEW t \in TaskIds, t <= created
    PROVE  row'[t] = row[t]
<1>1. ASSUME NEW r \in Requests, CreateTask(r)
      PROVE  row'[t] = row[t]
  BY <1>1 DEF CreateTask, TypeOK, TaskIds
<1>2. ASSUME NEW u \in TaskIds, RetryTask(u)
      PROVE  row'[t] = row[t]
  BY <1>2 DEF RetryTask, TypeOK, TaskIds
<1>3. \/ \E r \in Requests : CreateTask(r)
      \/ \E u \in TaskIds : RetryTask(u)
      \/ UNCHANGED row
  BY DEF Next, Client, Worker, Clock, CancelTask, Poll, vars, store, memory,
         CreateBlocked, CreateRefused, PollWaits, PollOverBudget, PollStart,
         PollStartRisky, SessionReady, SessionFails, ExecCompletes, ExecFails,
         CancelQueued, CancelParked, CancelInSession, CancelInExec, Approve,
         ApproveLate, Reject, ListApprovals, ExpiryChecker, WaitTimesOut,
         LockAges, ApprovalAges, BudgetResets, Restart
<1> QED
  BY <1>1, <1>2, <1>3

(* Only a task that asks for an approval adds a row to the table.          *)
LEMMA RequestedStep ==
    ASSUME TypeOK, AwaitsOwn, [Next]_vars
    PROVE  /\ requested <= requested'
           /\ \A a \in ApprovalIds : approval'[a].status = "none" <=> a > requested'
<1> USE DEF TypeOK, AwaitsOwn
<1>1. ASSUME NEW t \in TaskIds, PollStartRisky(t)
      PROVE  /\ requested <= requested'
             /\ \A a \in ApprovalIds : approval'[a].status = "none" <=> a > requested'
  BY <1>1 DEF PollStartRisky, ApprovalIds
<1>2. ASSUME NEW a \in ApprovalIds, approval[a].status = "none", UNCHANGED requested
      PROVE  approval'[a].status = "none"
  <2> HIDE DEF TypeOK, AwaitsOwn
  <2>0. \A t \in TaskIds : ~PollStartRisky(t)
    BY <1>2 DEF PollStartRisky, TypeOK
  <2>1. \/ UNCHANGED approval
        \/ \E b \in ApprovalIds : Approve(b) \/ ApproveLate(b) \/ Reject(b)
        \/ Expire
        \/ \E b \in ApprovalIds : ApprovalAges(b)
    BY <2>0 DEF Next, Client, Worker, Clock, CancelTask, Poll, vars, store,
         memory, CreateTask, CreateBlocked, CreateRefused, PollWaits,
         PollOverBudget, PollStart, SessionReady, SessionFails,
         ExecCompletes, ExecFails, CancelQueued, CancelParked, CancelInSession,
         CancelInExec, RetryTask, ListApprovals, ExpiryChecker, WaitTimesOut,
         LockAges, BudgetResets, Restart
  <2>2. approval'[a] = approval[a]
    BY <1>2, <2>1 DEF Approve, ApproveLate, Reject, Decide, Pending, Expire,
         Stale, ApprovalAges, TypeOK
  <2> QED
    BY <1>2, <2>2
<1>3. \/ \E t \in TaskIds : PollStartRisky(t)
      \/ UNCHANGED requested
  BY DEF Next, Client, Worker, Clock, CancelTask, Poll, vars, store, memory,
         CreateTask, CreateBlocked, CreateRefused, PollWaits, PollOverBudget,
         PollStart, SessionReady, SessionFails, ExecCompletes, ExecFails,
         CancelQueued, CancelParked, CancelInSession, CancelInExec, RetryTask,
         Approve, ApproveLate, Reject, ListApprovals, ExpiryChecker,
         WaitTimesOut, LockAges, ApprovalAges, BudgetResets, Restart
<1>4. CASE UNCHANGED requested
  BY <1>2, <1>4, ApprovalStep
<1> QED
  BY <1>1, <1>3, <1>4

(* Every step keeps the executions on approvals of their own.              *)
LEMMA AwaitsOwnStep ==
    ASSUME TypeOK, RowsCreated, AwaitsOwn, [Next]_vars
    PROVE  AwaitsOwn'
<1> SUFFICES ASSUME NEW t \in TaskIds
             PROVE  /\ fiber'[t] = "approval" => awaiting'[t] # NoApproval
                    /\ awaiting'[t] # NoApproval =>
                          /\ awaiting'[t] <= requested'
                          /\ approval'[awaiting'[t]].task = t
  BY RequestedStep DEF AwaitsOwn
<1>1. awaiting[t] # NoApproval =>
         /\ awaiting[t] <= requested'
         /\ approval'[awaiting[t]].task = t
  <2> SUFFICES ASSUME awaiting[t] # NoApproval
               PROVE  /\ awaiting[t] <= requested'
                      /\ approval'[awaiting[t]].task = t
    OBVIOUS
  <2>1. awaiting[t] \in ApprovalIds /\ awaiting[t] <= requested
    BY DEF AwaitsOwn, TypeOK
  <2>2. requested \in Nat /\ requested' \in Nat /\ requested <= requested'
    BY RequestedStep, TypeStep, WorkerAssumption DEF TypeOK
  <2>3. approval[awaiting[t]].status # "none"
    BY <2>1, <2>2 DEF AwaitsOwn, ApprovalIds
  <2>4. approval'[awaiting[t]].task = t
    BY <2>1, <2>3, ApprovalStep DEF AwaitsOwn
  <2> QED
    BY <2>1, <2>2, <2>4 DEF ApprovalIds
<1>2. CASE PollStartRisky(t) /\ awaiting'[t] = requested + 1
  <2>1. requested + 1 \in ApprovalIds /\ requested' = requested + 1
    BY <1>2, WorkerAssumption DEF PollStartRisky, TypeOK, ApprovalIds
  <2>2. approval'[requested + 1].task = t
    BY <1>2, <2>1 DEF PollStartRisky, TypeOK
  <2> QED
    BY <1>2, <2>1, <2>2 DEF NoApproval, TypeOK
<1> QED
  BY <1>1, <1>2, FiberStep DEF AwaitsOwn

(* Every step keeps risky tasks behind their approvals.                    *)
LEMMA GateStep ==
    ASSUME GateInv, [Next]_vars
    PROVE  ApprovalGate'
<1> USE DEF GateInv
<1> SUFFICES ASSUME NEW t \in TaskIds, fiber'[t] \in {"session", "exec"},
                    row'[t].risky
             PROVE  /\ awaiting'[t] # NoApproval
                    /\ approval'[awaiting'[t]].task = t
                    /\ approval'[awaiting'[t]].status = "approved"
  BY DEF ApprovalGate
<1>1. AwaitsOwn'
  BY AwaitsOwnStep
<1>2. CASE fiber[t] \in {"session", "exec"} /\ awaiting'[t] = awaiting[t]
  <2>1. row'[t] = row[t]
    BY <1>2, RowStays DEF RowsCreated, Live
  <2>2. /\ awaiting[t] \in ApprovalIds
        /\ approval[awaiting[t]].status = "approved"
    BY <1>2, <2>1 DEF ApprovalGate, TypeOK
  <2> QED
    BY <1>1, <1>2, <2>2, ApprovalStep DEF AwaitsOwn, TypeOK, NoApproval, ApprovalIds
<1>3. CASE /\ fiber[t] = "approval" /\ awaiting'[t] = awaiting[t]
           /\ \E a \in ApprovalIds : Approve(a) /\ awaiting[t] = a
  <2>1. PICK a \in ApprovalIds : Approve(a) /\ awaiting[t] = a
    BY <1>3
  <2>2. approval[a] \in Approval
    BY <2>1 DEF Approve, Pending, TypeOK, NoRequest
  <2>3. approval'[a].status = "approved"
    BY <2>1, <2>2 DEF Approve, Decide, TypeOK, Approval
  <2> QED
    BY <1>1, <1>3, <2>1, <2>3 DEF AwaitsOwn, NoApproval, ApprovalIds
<1>4. CASE PollStart(t)
  <2>1. t <= created
    BY <1>4 DEF PollStart, Starts, Polled, NextQueued, RowsCreated, TypeOK, TaskIds
  <2>2. ~row'[t].risky
    BY <1>4, <2>1, RowStays DEF PollStart
  <2> QED
    BY <2>2
<1> QED
  BY <1>2, <1>3, <1>4, FiberStep DEF TypeOK

(* The initial state satisfies the approval invariant.                     *)
LEMMA InitGateInv == Init => GateInv
<1> SUFFICES ASSUME Init PROVE GateInv
  OBVIOUS
<1>1. TypeOK /\ RowsCreated
  BY InitLockInv DEF LockInv
<1>2. AwaitsOwn
  BY WorkerAssumption DEF Init, AwaitsOwn, NoRequest, ApprovalIds
<1>3. ApprovalGate
  BY DEF Init, ApprovalGate
<1> QED
  BY <1>1, <1>2, <1>3 DEF GateInv

(* A risky task is only ever executed behind the approval that was asked   *)
(* for in this execution, and that was approved, whatever is cancelled,    *)
(* expired, rejected or restarted meanwhile.                               *)
THEOREM ApprovalGateHolds == Spec => []ApprovalGate
<1>1. GateInv /\ [Next]_vars => GateInv'
  BY TypeStep, RowsStep, AwaitsOwnStep, GateStep DEF GateInv
<1>2. GateInv => ApprovalGate
  BY DEF GateInv
<1> QED
  BY <1>1, <1>2, InitGateInv, PTL DEF Spec

(* A decision on an approval is final.                                     *)
THEOREM DecisionsFinal == Spec => ApprovalFinal
<1>1. GateInv /\ [Next]_vars => GateInv'
  BY TypeStep, RowsStep, AwaitsOwnStep, GateStep DEF GateInv
<1>2. GateInv /\ [Next]_vars =>
         [\A a \in ApprovalIds :
            approval[a].status \in {"approved", "rejected", "expired"}
            => approval'[a].status = approval[a].status]_vars
  BY ApprovalStep DEF GateInv
<1> QED
  BY <1>1, <1>2, InitGateInv, PTL DEF Spec, ApprovalFinal

-----------------------------------------------------------------------------
(* The tasks table and the running map.                                    *)

(* Every step keeps the table and the map in agreement.                    *)
LEMMA StoreStep ==
    ASSUME TypeOK, RowsCreated, StoreAgreesWithMap, [Next]_vars
    PROVE  StoreAgreesWithMap'
<1> USE DEF Live, store, memory
<1>1. ASSUME UNCHANGED <<status, running, fiber>>
      PROVE  StoreAgreesWithMap'
  BY <1>1 DEF StoreAgreesWithMap
<1>2. ASSUME NEW t \in TaskIds, status[t] = "absent", UNCHANGED <<running, fiber>>,
             status' = [status EXCEPT ![t] = "queued"]
      PROVE  StoreAgreesWithMap'
  <2>1. fiber[t] = "idle"
    BY <1>2 DEF RowsCreated, TypeOK, TaskIds
  <2> QED
    BY <1>2, <2>1 DEF StoreAgreesWithMap, TypeOK
<1>3. created < MaxTasks => created + 1 \in TaskIds /\ status[created + 1] = "absent"
  BY WorkerAssumption DEF RowsCreated, TypeOK, TaskIds
<1>4. ASSUME NEW T \in SUBSET TaskIds, NEW s \in Terminal, EndWith(T, s)
      PROVE  StoreAgreesWithMap'
  BY <1>4 DEF EndWith, Finally, StoreAgreesWithMap, TypeOK, Terminal
<1>5. ASSUME NEW t \in TaskIds, Poll(t)
      PROVE  StoreAgreesWithMap'
  <2>1. status[t] = "queued" /\ t \notin running /\ fiber[t] = "idle"
    BY <1>5 DEF Poll, PollWaits, PollOverBudget, PollStart, PollStartRisky,
                Starts, Polled, NextQueued, StoreAgreesWithMap
  <2>2. CASE PollWaits(t)
    BY <1>1, <2>2 DEF PollWaits
  <2>3. CASE PollOverBudget(t)
    BY <2>1, <2>3 DEF PollOverBudget, StoreAgreesWithMap, TypeOK
  <2>4. CASE PollStart(t) \/ PollStartRisky(t)
    <3>1. /\ running' = running \union {t}
          /\ status' = [status EXCEPT ![t] = "running"]
          /\ \E w \in {"session", "approval"} : fiber' = [fiber EXCEPT ![t] = w]
      BY <2>4 DEF PollStart, PollStartRisky, Starts
    <3> QED
      BY <2>1, <3>1 DEF StoreAgreesWithMap, TypeOK
  <2> QED
    BY <1>5, <2>2, <2>3, <2>4 DEF Poll
<1>6. ASSUME NEW t \in TaskIds, SessionReady(t)
      PROVE  StoreAgreesWithMap'
  BY <1>6 DEF SessionReady, StoreAgreesWithMap, TypeOK
<1>7. ASSUME NEW t \in TaskIds, CancelInSession(t)
      PROVE  StoreAgreesWithMap'
  BY <1>7 DEF CancelInSession, StoreAgreesWithMap, TypeOK
<1>8. ASSUME NEW a \in ApprovalIds, Approve(a)
      PROVE  StoreAgreesWithMap'
  BY <1>8 DEF Approve, Parked, StoreAgreesWithMap, TypeOK
<1>9. CASE Restart
  BY <1>9 DEF Restart, StoreAgreesWithMap, TypeOK
<1>10. \/ UNCHANGED <<status, running, fiber>>
       \/ \E t \in TaskIds :
             \/ status[t] = "absent" /\ status' = [status EXCEPT ![t] = "queued"]
                /\ UNCHANGED <<running, fiber>>
             \/ Poll(t) \/ SessionReady(t) \/ CancelInSession(t)
       \/ \E T \in SUBSET TaskIds, s \in Terminal : EndWith(T, s)
       \/ \E a \in ApprovalIds : Approve(a)
       \/ Restart
  BY <1>3 DEF Next, Client, Worker, Clock, CancelTask, vars, CreateTask,
     CreateBlocked, CreateRefused, SessionFails, ExecCompletes, ExecFails,
     CancelQueued, CancelParked, CancelInExec, RetryTask, ApproveLate, Reject,
     ListApprovals, ExpiryChecker, WaitTimesOut, LockAges, ApprovalAges,
     BudgetResets, Parked, Terminal
<1> QED
  BY <1>1, <1>2, <1>4, <1>5, <1>6, <1>7, <1>8, <1>9, <1>10

(* The table says 'running' of exactly the executions in the map, and an   *)
(* execution outside the map belongs to a cancelled row.                   *)
THEOREM StoreAgrees == Spec => []StoreAgreesWithMap
<1> DEFINE I == TypeOK /\ RowsCreated /\ StoreAgreesWithMap
<1>1. Init => I
  BY InitLockInv DEF LockInv, Init, StoreAgreesWithMap, Live
<1>2. I /\ [Next]_vars => I'
  BY TypeStep, RowsStep, StoreStep
<1>3. I => StoreAgreesWithMap
  OBVIOUS
<1> QED
  BY <1>1, <1>2, <1>3, PTL DEF Spec

-----------------------------------------------------------------------------
(* The lock registry.                                                      *)

(* A lock is held by a task that was created or by one that was refused.   *)
HoldersKnown ==
    \A k \in LockKeys : registry[k].held =>
        registry[k].holder = Phantom \/ registry[k].holder \in 1..created

RegistryInv == TypeOK /\ RowsCreated /\ RegistryExclusive /\ HoldersKnown

(* acquireLock grants a lock only where the project has none but the       *)
(* task's own; the other entries stay or were expired at the very key.     *)
LEMMA GrantedAlone ==
    ASSUME NEW reg \in Registries, NEW p \in LockIds, NEW e \in Environments, NEW t, NEW h,
           CanAcquire(reg, p, e, t)
    PROVE  /\ \A k \in LockKeys : k[1] = p /\ k # <<p, e>> =>
                 Granted(reg, p, e, h)[k] = reg[k] /\ (reg[k].held => reg[k].holder = t)
           /\ reg[<<p, e>>].held /\ ~reg[<<p, e>>].expired => reg[<<p, e>>].holder = t
           /\ \A k \in LockKeys : k # <<p, e>> => Granted(reg, p, e, h)[k] = reg[k]
           /\ Granted(reg, p, e, h)[<<p, e>>] = [held |-> TRUE, holder |-> h, expired |-> FALSE]
<1> DEFINE swept == SweepKey(reg, <<p, e>>)
<1>1. <<p, e>> \in LockKeys
  BY DEF LockKeys
<1>2. /\ swept = [k \in LockKeys |-> swept[k]]
      /\ \A k \in LockKeys : k # <<p, e>> => swept[k] = reg[k]
      /\ reg[<<p, e>>].held /\ ~reg[<<p, e>>].expired => swept[<<p, e>>] = reg[<<p, e>>]
  BY <1>1 DEF SweepKey, Without, Expired, NoLock
<1>3. \A x \in Environments : swept[<<p, x>>].held => swept[<<p, x>>].holder = t
  BY DEF CanAcquire, BlockedFor
<1>4. Granted(reg, p, e, h) =
         [swept EXCEPT ![<<p, e>>] = [held |-> TRUE, holder |-> h, expired |-> FALSE]]
  BY DEF Granted
<1> HIDE DEF swept
<1>5. \A k \in LockKeys : k # <<p, e>> => Granted(reg, p, e, h)[k] = reg[k]
  BY <1>2, <1>4
<1>6. Granted(reg, p, e, h)[<<p, e>>] = [held |-> TRUE, holder |-> h, expired |-> FALSE]
  BY <1>1, <1>2, <1>4
<1>7. ASSUME NEW k \in LockKeys, k[1] = p, k # <<p, e>>, reg[k].held
      PROVE  reg[k].holder = t
  <2>1. k[2] \in Environments /\ k = <<p, k[2]>>
    BY <1>7 DEF LockKeys
  <2> QED BY <1>2, <1>3, <1>7, <2>1
<1> QED BY <1>2, <1>3, <1>5, <1>6, <1>7

(* An entry is added for h where t may have one.                           *)
Adds(t, h) ==
    \E reg \in {registry, Cleared(registry)}, p \in LockIds, e \in Environments :
        CanAcquire(reg, p, e, t) /\ registry' = Granted(reg, p, e, h)

(* Entries go that are expired, or whose holder's execution ends.          *)
Removes ==
    \E K \in SUBSET LockKeys :
        /\ registry' = Without(registry, K)
        /\ \A k \in K : \/ Expired(registry, k)
                       \/ \E t \in TaskIds : registry[k].holder = t /\ Live(t) /\ ~Live(t)'

(* What one step may do to the registry.                                   *)
LEMMA RegistryStep ==
    ASSUME TypeOK, RowsCreated, [Next]_vars
    PROVE  \/ Removes \/ registry' = registry
           \/ restarts' # restarts /\ registry' = Without(registry, LockKeys)
           \/ \E k \in LockKeys : registry[k].held /\ registry' = Aged(registry, k)
           \/ \E t \in 1..created' : Adds(t, t)
           \/ Adds(created + 1, Phantom)
<1> USE WorkerAssumption DEF store, memory
<1>1. ASSUME NEW r \in Requests
      PROVE  r.project \in LockIds /\ r.env \in Environments
  BY DEF Request, LockIds
<1>2. ASSUME NEW r \in Requests, CreateTask(r)
      PROVE  registry' = registry \/ \E t \in 1..created' : Adds(t, t)
  <2>1. created + 1 \in 1..created'
    BY <1>2 DEF CreateTask, TypeOK
  <2> QED BY <1>1, <1>2, <2>1 DEF CreateTask, Adds
<1>3. ASSUME NEW r \in Requests, CreateBlocked(r)
      PROVE  Removes
  <2>1. {j \in {<<r.project, r.env>>} : Expired(registry, j)} \in SUBSET LockKeys
    BY <1>1 DEF LockKeys
  <2> QED BY <1>3, <2>1 DEF CreateBlocked, SweepKey, Removes
<1>4. ASSUME NEW r \in Requests, CreateRefused(r)
      PROVE  Adds(created + 1, Phantom)
  BY <1>1, <1>4 DEF CreateRefused, Adds
<1>5. Cleared(registry) = Without(registry, {k \in LockKeys : Expired(registry, k)})
  BY DEF Cleared
<1>6. ASSUME NEW t \in TaskIds, PollWaits(t)
      PROVE  Removes
  BY <1>5, <1>6 DEF PollWaits, Removes
<1>7. ASSUME NEW t \in TaskIds, PollOverBudget(t) \/ Starts(t)
      PROVE  \/ Removes
             \/ Adds(t, t)
  <2>1. Polled(t) /\ MayStart(t) /\ TakeLocks(t)
    BY <1>7 DEF PollOverBudget, Starts
  <2>2. row[t] \in Row
    BY <2>1 DEF Polled, NextQueued, RowsCreated, TypeOK, NoRow, TaskIds
  <2>3. LockKey(t)[1] \in LockIds /\ row[t].env \in Environments
    BY <2>2 DEF LockKey, LockIds, Row
  <2>4. CASE IsWrite(t)
    BY <2>1, <2>3, <2>4 DEF MayStart, LockFree, TakeLocks, Adds
  <2>5. CASE ~IsWrite(t)
    BY <1>5, <2>1, <2>5 DEF TakeLocks, Removes
  <2> QED BY <2>4, <2>5
<1>8. ASSUME NEW t \in TaskIds, PollOverBudget(t) \/ Starts(t), created' = created
      PROVE  \/ Removes
             \/ \E u \in 1..created' : Adds(u, u)
  <2>1. t \in 1..created'
    BY <1>8 DEF PollOverBudget, Starts, Polled, NextQueued, RowsCreated, TypeOK, TaskIds
  <2> QED BY <1>7, <1>8, <2>1
<1>9. ASSUME NEW T \in SUBSET TaskIds, Finally(T), \A t \in T : Live(t)
      PROVE  Removes
  <2> DEFINE K == {k \in LockKeys : \E x \in {<<LockKey(t), t>> : t \in T} :
                       x[1] = k /\ HeldBy(registry, k, x[2])}
  <2>1. ASSUME NEW k \in K
        PROVE  \E t \in TaskIds : registry[k].holder = t /\ Live(t) /\ ~Live(t)'
    <3>1. PICK t \in T : HeldBy(registry, k, t)
      OBVIOUS
    <3> QED BY <1>9, <3>1 DEF HeldBy, Finally, Live
  <2>2. registry' = Without(registry, K)
    BY <1>9 DEF Finally, Released
  <2> QED BY <2>1, <2>2 DEF Removes
<1>10. ASSUME Restart
       PROVE  restarts' # restarts /\ registry' = Without(registry, LockKeys)
  <2>1. registry' = Without(registry, LockKeys)
    BY <1>10 DEF Restart, EmptyRegistry, Without
  <2>2. restarts' # restarts
    BY <1>10 DEF Restart, TypeOK
  <2> QED BY <2>1, <2>2
<1>11. ASSUME NEW k \in LockKeys, LockAges(k)
       PROVE  registry[k].held /\ registry' = Aged(registry, k)
  BY <1>11 DEF LockAges
<1>12. \/ registry' = registry
       \/ \E r \in Requests : CreateTask(r) \/ CreateBlocked(r) \/ CreateRefused(r)
       \/ \E t \in TaskIds : PollWaits(t)
       \/ \E t \in TaskIds : (PollOverBudget(t) \/ Starts(t)) /\ created' = created
       \/ \E T \in SUBSET TaskIds : Finally(T) /\ \A t \in T : Live(t)
       \/ \E k \in LockKeys : LockAges(k)
       \/ Restart
  BY DEF Next, Client, Worker, Clock, CancelTask, Poll, vars, PollOverBudget, PollStart,
         PollStartRisky, SessionReady, SessionFails, ExecCompletes, ExecFails, CancelQueued,
         CancelParked, CancelInSession, CancelInExec, RetryTask, Approve, ApproveLate, Reject,
         ListApprovals, ExpiryChecker, WaitTimesOut, ApprovalAges, BudgetResets, EndWith, Parked, Live
<1> QED BY <1>2, <1>3, <1>4, <1>6, <1>8, <1>9, <1>10, <1>11, <1>12

(* Clearing and aging keep the holders that are left.                      *)
LEMMA FewerHolders ==
    ASSUME RegistryInv, NEW reg \in Registries,
           \A k \in LockKeys : reg[k].held => registry[k].held /\ reg[k].holder = registry[k].holder
    PROVE  /\ \A j, k \in LockKeys :
                 j[1] = k[1] /\ reg[j].held /\ reg[k].held => reg[j].holder = reg[k].holder
           /\ \A k \in LockKeys : reg[k].held =>
                 reg[k].holder = Phantom \/ reg[k].holder \in 1..created
  BY DEF RegistryInv, RegistryExclusive, HoldersKnown

(* Entries that are left are as they were.                                 *)
LEMMA WithoutHolders ==
    ASSUME TypeOK, NEW K
    PROVE  \A k \in LockKeys : Without(registry, K)[k].held =>
               registry[k].held /\ Without(registry, K)[k] = registry[k]
  BY DEF Without, NoLock

(* Every step keeps the registry exclusive.                                *)
LEMMA RegistryKept ==
    ASSUME RegistryInv, [Next]_vars
    PROVE  RegistryExclusive' /\ HoldersKnown'
<1>1. TypeOK /\ RowsCreated /\ TypeOK' /\ RowsCreated'
  BY TypeStep, RowsStep DEF RegistryInv
<1>2. created' \in Nat /\ created \in Nat /\ 1..created \subseteq 1..created'
  <2>1. created' = created \/ created' = created + 1
    BY DEF Next, Client, Worker, Clock, CancelTask, Poll, vars, store, memory, Starts,
       CreateTask, CreateBlocked, CreateRefused, PollWaits, PollOverBudget, PollStart,
       PollStartRisky, SessionReady, SessionFails, ExecCompletes, ExecFails, CancelQueued,
       CancelParked, CancelInSession, CancelInExec, RetryTask, Approve, ApproveLate, Reject,
       ListApprovals, ExpiryChecker, WaitTimesOut, ApprovalAges, LockAges, BudgetResets, Restart
  <2> QED BY <1>1, <2>1, WorkerAssumption DEF TypeOK
<1>3. registry' \in Registries
  BY <1>1 DEF TypeOK
<1>4. ASSUME \A k \in LockKeys : registry'[k].held =>
                 registry[k].held /\ registry'[k].holder = registry[k].holder
      PROVE  RegistryExclusive' /\ HoldersKnown'
  BY <1>2, <1>3, <1>4, FewerHolders DEF RegistryExclusive, HoldersKnown
<1>5. ASSUME NEW K \in SUBSET LockKeys, registry' = Without(registry, K)
      PROVE  RegistryExclusive' /\ HoldersKnown'
  BY <1>1, <1>4, <1>5, WithoutHolders
<1>6. ASSUME NEW k \in LockKeys, registry[k].held, registry' = Aged(registry, k)
      PROVE  RegistryExclusive' /\ HoldersKnown'
  <2>1. registry[k] \in Lock
    BY <1>1, <1>6 DEF TypeOK, Registries, NoLock
  <2>2. \A j \in LockKeys : registry'[j].held =>
            registry[j].held /\ registry'[j].holder = registry[j].holder
    BY <1>1, <1>6, <2>1 DEF Aged, TypeOK, Registries, Lock
  <2> QED BY <1>4, <2>2
<1>7. ASSUME NEW t, NEW h, Adds(t, h), h = Phantom \/ h \in 1..created',
             \A k \in LockKeys : registry[k].held /\ registry[k].holder = t => h = t
      PROVE  RegistryExclusive' /\ HoldersKnown'
  <2>1. PICK reg \in {registry, Cleared(registry)}, p \in LockIds, e \in Environments :
               CanAcquire(reg, p, e, t) /\ registry' = Granted(reg, p, e, h)
    BY <1>7 DEF Adds
  <2>2. reg \in Registries
    BY <1>1, WithoutType DEF Cleared, TypeOK
  <2>3. \A k \in LockKeys : reg[k].held =>
            registry[k].held /\ reg[k].holder = registry[k].holder
    BY <1>1, WithoutHolders DEF Cleared
  <2>4. /\ \A k \in LockKeys : k[1] = p /\ k # <<p, e>> => (reg[k].held => reg[k].holder = t)
        /\ \A k \in LockKeys : k # <<p, e>> => registry'[k] = reg[k]
        /\ registry'[<<p, e>>] = [held |-> TRUE, holder |-> h, expired |-> FALSE]
    BY <2>1, <2>2, GrantedAlone
  <2>5. \A j, k \in LockKeys :
            j[1] = k[1] /\ reg[j].held /\ reg[k].held => reg[j].holder = reg[k].holder
    BY <2>2, <2>3, FewerHolders
  <2>6. \A k \in LockKeys : k[1] = p /\ registry'[k].held => registry'[k].holder = h
    BY <1>7, <2>3, <2>4
  <2>7. RegistryExclusive'
    BY <2>4, <2>5, <2>6 DEF RegistryExclusive
  <2>8. \A k \in LockKeys : reg[k].held =>
            reg[k].holder = Phantom \/ reg[k].holder \in 1..created'
    BY <1>2, <2>2, <2>3, FewerHolders
  <2>9. HoldersKnown'
    BY <1>7, <2>4, <2>8 DEF HoldersKnown
  <2> QED BY <2>7, <2>9
<1>8. ASSUME NEW t \in 1..created', Adds(t, t)
      PROVE  RegistryExclusive' /\ HoldersKnown'
  BY <1>7, <1>8
<1>9. ASSUME Adds(created + 1, Phantom)
      PROVE  RegistryExclusive' /\ HoldersKnown'
  <2>1. \A k \in LockKeys : registry[k].held /\ registry[k].holder = created + 1 =>
            Phantom = created + 1
    BY <1>2 DEF RegistryInv, HoldersKnown
  <2> QED BY <1>7, <1>9, <2>1
<1>10. CASE registry' = registry
  BY <1>4, <1>10
<1> QED BY <1>1, <1>5, <1>6, <1>8, <1>9, <1>10, RegistryStep DEF Removes

(* The registry (acquireLock, releaseLock, clearExpiredLocks) never holds  *)
(* the locks of two tasks for one project, in whatever environments, and   *)
(* also when a lock is taken for a task that is then refused.              *)
THEOREM OneHolder == Spec => []RegistryExclusive
<1>1. Init => RegistryInv
  BY InitLockInv DEF LockInv, Init, RegistryInv, RegistryExclusive, HoldersKnown,
                     EmptyRegistry, NoLock
<1>2. RegistryInv /\ [Next]_vars => RegistryInv'
  BY TypeStep, RowsStep, RegistryKept DEF RegistryInv
<1>3. RegistryInv => RegistryExclusive
  BY DEF RegistryInv
<1> QED BY <1>1, <1>2, <1>3, PTL DEF Spec

(* A lock that has not expired goes only with its holder's execution or in *)
(* a restart: releaseLock, the sweeps and acquireLock spare it.            *)
THEOREM LocksAreKept == Spec => LockKept
<1>1. Init => RegistryInv
  BY InitLockInv DEF LockInv, Init, RegistryInv, RegistryExclusive, HoldersKnown,
                     EmptyRegistry, NoLock
<1>2. RegistryInv /\ [Next]_vars => RegistryInv'
  BY TypeStep, RowsStep, RegistryKept DEF RegistryInv
<1> DEFINE Spared(k) ==
      \/ registry'[k].held /\ registry'[k].holder = registry[k].holder
      \/ restarts' # restarts
      \/ \E t \in TaskIds : registry[k].holder = t /\ Live(t) /\ ~Live(t)'
<1>3. ASSUME RegistryInv, [Next]_vars, NEW k \in LockKeys,
             registry[k].held, ~registry[k].expired
      PROVE  Spared(k)
  <2>1. TypeOK /\ RowsCreated /\ created \in Nat
    BY <1>3 DEF RegistryInv, TypeOK
  <2>2. CASE Removes
    BY <1>3, <2>2 DEF Removes, Without, Expired
  <2>3. ASSUME NEW j \in LockKeys, registry[j].held, registry' = Aged(registry, j)
        PROVE  Spared(k)
    <3>1. registry[j] \in Lock
      BY <2>1, <2>3 DEF TypeOK, Registries, NoLock
    <3> QED BY <1>3, <2>1, <2>3, <3>1 DEF Aged, TypeOK, Registries, Lock
  <2>4. ASSUME NEW t, NEW h, Adds(t, h), registry[k].holder = t => h = t
        PROVE  Spared(k)
    <3>1. PICK reg \in {registry, Cleared(registry)}, p \in LockIds, e \in Environments :
                 CanAcquire(reg, p, e, t) /\ registry' = Granted(reg, p, e, h)
      BY <2>4 DEF Adds
    <3>2. reg \in Registries
      BY <2>1, WithoutType DEF Cleared, TypeOK
    <3>3. reg[k] = registry[k]
      BY <1>3 DEF Cleared, Without, Expired
    <3>4. /\ reg[<<p, e>>].held /\ ~reg[<<p, e>>].expired => reg[<<p, e>>].holder = t
          /\ k # <<p, e>> => registry'[k] = reg[k]
          /\ registry'[<<p, e>>] = [held |-> TRUE, holder |-> h, expired |-> FALSE]
      BY <3>1, <3>2, GrantedAlone
    <3>5. registry'[k].held /\ registry'[k].holder = registry[k].holder
      BY <1>3, <2>4, <3>3, <3>4
    <3> QED BY <3>5
  <2>5. ASSUME Adds(created + 1, Phantom)
        PROVE  Spared(k)
    <3>1. registry[k].holder = created + 1 => Phantom = created + 1
      BY <1>3, <2>1 DEF RegistryInv, HoldersKnown
    <3> QED BY <2>4, <2>5, <3>1
  <2>6. ASSUME NEW t \in 1..created', Adds(t, t)
        PROVE  Spared(k)
    BY <2>4, <2>6
  <2> QED BY <1>3, <2>1, <2>2, <2>3, <2>5, <2>6, RegistryStep
<1>4. RegistryInv /\ [Next]_vars =>
         [\A k \in LockKeys : registry[k].held /\ ~registry[k].expired => Spared(k)]_vars
  BY <1>3
<1> QED BY <1>1, <1>2, <1>4, PTL DEF Spec, LockKept

-----------------------------------------------------------------------------
(* The worker's project locks.                                             *)

(* The lock of a live write task is cleared by nobody else: executions     *)
(* that might do so would be writers of the project and hold it as well.   *)
THEOREM WriterKeepsLock == Spec => []WriterHoldsLock
<1>1. LockInv => WriterHoldsLock
  BY DEF LockInv
<1> QED BY <1>1, LockInvariant, PTL

(* A project lock is held for a task of the project that is executed.      *)
HolderInv ==
    /\ exhausted = {}
    /\ \A p \in Projects : projectLocks[p] # None =>
          /\ projectLocks[p] \in 1..created
          /\ Live(projectLocks[p]) /\ row[projectLocks[p]].project = p

(* Every step keeps the locks with executions, if no budget runs out.      *)
LEMMA HolderStep ==
    ASSUME Exhaustible = {}, NoBudget = {},
           TypeOK, RowsCreated, HolderInv, [Next]_vars
    PROVE  HolderInv'
<1> USE WorkerAssumption DEF store, memory
<1> DEFINE Kept(p) ==
      projectLocks[p] # None =>
          /\ projectLocks[p] \in TaskIds /\ projectLocks[p] \in 1..created
          /\ Live(projectLocks[p]) /\ row[projectLocks[p]].project = p
<1>1. \A p \in Projects : Kept(p)
  BY DEF HolderInv, TypeOK
<1>2. created' \in Nat /\ created \in Nat /\ 1..created \subseteq 1..created'
  <2>1. TypeOK'
    BY TypeStep
  <2>2. created' = created \/ created' = created + 1
    BY DEF Next, Client, Worker, Clock, CancelTask, Poll, vars, Starts,
       CreateTask, CreateBlocked, CreateRefused, PollWaits, PollOverBudget, PollStart,
       PollStartRisky, SessionReady, SessionFails, ExecCompletes, ExecFails, CancelQueued,
       CancelParked, CancelInSession, CancelInExec, RetryTask, Approve, ApproveLate, Reject,
       ListApprovals, ExpiryChecker, WaitTimesOut, ApprovalAges, LockAges, BudgetResets, Restart
  <2> QED BY <2>1, <2>2 DEF TypeOK
<1>3. \A t \in 1..created : row'[t] = row[t]
  BY RowStays DEF TypeOK, TaskIds
<1>4. exhausted' = {}
  BY DEF HolderInv, Next, Client, Worker, Clock, CancelTask, Poll, vars, Starts,
     CreateTask, CreateBlocked, CreateRefused, PollWaits, PollOverBudget, PollStart,
     PollStartRisky, SessionReady, SessionFails, ExecCompletes, ExecFails, CancelQueued,
     CancelParked, CancelInSession, CancelInExec, RetryTask, Approve, ApproveLate, Reject,
     ListApprovals, ExpiryChecker, WaitTimesOut, ApprovalAges, LockAges, BudgetResets, Restart
<1>5. ASSUME UNCHANGED projectLocks, \A t \in TaskIds : Live(t) => Live(t)'
      PROVE  HolderInv'
  BY <1>1, <1>2, <1>3, <1>4, <1>5 DEF HolderInv
<1>6. ASSUME NEW T \in SUBSET TaskIds, Finally(T)
      PROVE  HolderInv'
  BY <1>1, <1>2, <1>3, <1>4, <1>6 DEF HolderInv, Finally, Live, TypeOK
<1>7. ASSUME NEW t \in TaskIds, Starts(t), \E w \in {"session", "approval"} : fiber' = [fiber EXCEPT ![t] = w]
      PROVE  HolderInv'
  <2>1. t \in 1..created /\ row[t].project \in Projects
    <3>1. t \in 1..created /\ row[t].stored
      BY <1>7 DEF Starts, Polled, NextQueued, RowsCreated, TypeOK, TaskIds
    <3>2. row[t] \in Row
      BY <3>1 DEF TypeOK, NoRow
    <3> QED BY <3>1, <3>2 DEF Row
  <2>2. projectLocks' = projectLocks \/ projectLocks' = [projectLocks EXCEPT ![row[t].project] = t]
    BY <1>7 DEF Starts, TakeLocks
  <2>3. fiber'[t] # "idle" /\ \A u \in TaskIds : Live(u) => Live(u)'
    BY <1>7 DEF Live, TypeOK
  <2>4. CASE projectLocks' = projectLocks
    BY <1>5, <2>3, <2>4
  <2>5. CASE projectLocks' = [projectLocks EXCEPT ![row[t].project] = t]
    <3>1. \A p \in Projects :
             projectLocks'[p] = IF p = row[t].project THEN t ELSE projectLocks[p]
      BY <2>5 DEF TypeOK
    <3> QED BY <1>1, <1>2, <1>3, <1>4, <2>1, <2>3, <3>1 DEF HolderInv, Live
  <2> QED BY <2>2, <2>4, <2>5
<1>8. ASSUME NEW t \in TaskIds, PollOverBudget(t)
      PROVE  HolderInv'
  BY <1>8 DEF PollOverBudget, BudgetAllows, WithinBudget, HolderInv
<1>9. CASE Restart
  BY <1>4, <1>9 DEF Restart, HolderInv
<1>10. ASSUME NEW a \in ApprovalIds, Approve(a)
       PROVE  HolderInv'
  <2>1. \A t \in TaskIds : Live(t) => Live(t)'
    BY <1>10 DEF Approve, Live
  <2> QED BY <1>5, <1>10, <2>1 DEF Approve
<1>11. ASSUME NEW t \in TaskIds, SessionReady(t)
       PROVE  HolderInv'
  <2>1. \A u \in TaskIds : Live(u) => Live(u)'
    BY <1>11 DEF SessionReady, Live, TypeOK
  <2> QED BY <1>5, <1>11, <2>1 DEF SessionReady
<1>12. ASSUME UNCHANGED <<projectLocks, fiber>>
       PROVE  HolderInv'
  BY <1>5, <1>12 DEF Live
<1>13. \/ UNCHANGED <<projectLocks, fiber>>
       \/ \E t \in TaskIds : PollOverBudget(t) \/ SessionReady(t)
       \/ \E t \in TaskIds : Starts(t) /\ \E w \in {"session", "approval"} : fiber' = [fiber EXCEPT ![t] = w]
       \/ \E T \in SUBSET TaskIds : Finally(T)
       \/ \E a \in ApprovalIds : Approve(a)
       \/ Restart
  BY DEF Next, Client, Worker, Clock, CancelTask, Poll, vars, CreateTask, CreateBlocked,
         CreateRefused, PollWaits, PollStart, PollStartRisky, SessionFails, ExecCompletes,
         ExecFails, CancelQueued, CancelParked, CancelInSession, CancelInExec, RetryTask,
         ApproveLate, Reject, ListApprovals, ExpiryChecker, WaitTimesOut, ApprovalAges,
         LockAges, BudgetResets, EndWith, Parked
<1> QED BY <1>6, <1>7, <1>8, <1>9, <1>10, <1>11, <1>12, <1>13

(* Unless a budget runs out, in which case executeTask returns without its *)
(* finally block, the worker's project lock belongs to an execution that   *)
(* is under way and will give it back.                                     *)
THEOREM LockHoldersLive ==
    ASSUME Exhaustible = {}, NoBudget = {}
    PROVE  Spec => []LockHolderAlive
<1> DEFINE I == TypeOK /\ RowsCreated /\ HolderInv
<1>1. Init => I
  BY InitLockInv DEF LockInv, Init, HolderInv
<1>2. I /\ [Next]_vars => I'
  BY TypeStep, RowsStep, HolderStep
<1>3. I => LockHolderAlive
  BY DEF HolderInv, LockHolderAlive
<1> QED BY <1>1, <1>2, <1>3, PTL DEF Spec

-----------------------------------------------------------------------------
(* Waiters, and rows that are done.                                        *)

(* What EndWith is used for: executions that are under way.                *)
LEMMA EndersLive ==
    ASSUME TypeOK, [Next]_vars, status' # status
    PROVE  \/ \E t \in TaskIds : (status[t] = "queued" \/ t \in running) /\
                 \E s \in Statuses : status' = [status EXCEPT ![t] = s]
           \/ Restart
           \/ \E T \in SUBSET TaskIds, s \in Terminal :
                 EndWith(T, s) /\ \A t \in T : Live(t)
           \/ created < MaxTasks /\ status' = [status EXCEPT ![created + 1] = "queued"]
<1> DEFINE Ended == \E T \in SUBSET TaskIds, s \in Terminal :
                       EndWith(T, s) /\ \A t \in T : Live(t)
<1>1. ASSUME NEW t \in TaskIds, NEW s \in Terminal, EndWith({t}, s), Live(t)
      PROVE  Ended
  BY <1>1
<1>2. ASSUME NEW A, EndWith(Parked(A), "cancelled")
      PROVE  Ended
  BY <1>2 DEF Parked, Live, Terminal
<1>3. ASSUME NEW t \in TaskIds,
             \/ SessionFails(t) \/ ExecCompletes(t) \/ ExecFails(t) \/ WaitTimesOut(t)
             \/ CancelParked(t) \/ CancelInExec(t)
      PROVE  \E s \in Terminal : EndWith({t}, s) /\ Live(t)
  BY <1>3 DEF SessionFails, ExecCompletes, ExecFails, WaitTimesOut, CancelParked, CancelInExec,
              Live, Terminal
<1>4. ASSUME NEW t \in TaskIds, PollOverBudget(t) \/ Starts(t) \/ CancelInSession(t)
      PROVE  (status[t] = "queued" \/ t \in running) /\
             \E s \in Statuses : status' = [status EXCEPT ![t] = s]
  BY <1>4 DEF PollOverBudget, Starts, Polled, NextQueued, CancelInSession, Statuses, Terminal
<1>5. \/ \E r \in Requests : CreateTask(r)
      \/ Restart
      \/ \E t \in TaskIds : RetryTask(t) \/ PollOverBudget(t) \/ Starts(t) \/ CancelInSession(t)
      \/ \E t \in TaskIds :
            \/ SessionFails(t) \/ ExecCompletes(t) \/ ExecFails(t) \/ WaitTimesOut(t)
            \/ CancelParked(t) \/ CancelInExec(t)
      \/ \E A : EndWith(Parked(A), "cancelled")
  BY DEF Next, Client, Worker, Clock, CancelTask, Poll, vars, store, memory, CreateBlocked,
     CreateRefused, PollWaits, PollStart, PollStartRisky, SessionReady, CancelQueued, Approve,
     ApproveLate, Reject, ListApprovals, ExpiryChecker, LockAges, ApprovalAges, BudgetResets
<1> QED BY <1>1, <1>2, <1>3, <1>4, <1>5 DEF CreateTask, RetryTask

StoreInv == TypeOK /\ RowsCreated /\ StoreAgreesWithMap

(* No step writes a row that is completed or failed.                       *)
LEMMA DoneStep ==
    ASSUME StoreInv, [Next]_vars, NEW t \in TaskIds, status[t] \in {"completed", "failed"}
    PROVE  status'[t] = status[t]
<1>1. TypeOK /\ ~Live(t) /\ t \notin running
  BY DEF StoreInv, StoreAgreesWithMap
<1>2. created < MaxTasks => created + 1 # t
  BY DEF StoreInv, RowsCreated, TypeOK
<1>3. CASE Restart
  BY <1>1, <1>3 DEF Restart, TypeOK
<1>4. ASSUME NEW T \in SUBSET TaskIds, NEW s \in Terminal, EndWith(T, s), \A u \in T : Live(u)
      PROVE  status'[t] = status[t]
  BY <1>1, <1>4 DEF EndWith
<1>5. ASSUME NEW u, u # t, NEW s, status' = [status EXCEPT ![u] = s]
      PROVE  status'[t] = status[t]
  BY <1>1, <1>5 DEF TypeOK
<1> QED BY <1>1, <1>2, <1>3, <1>4, <1>5, EndersLive

LEMMA StoreInvHolds == Spec => []StoreInv
<1>1. Init => StoreInv
  BY InitLockInv DEF LockInv, Init, StoreAgreesWithMap, Live, StoreInv
<1>2. StoreInv /\ [Next]_vars => StoreInv'
  BY TypeStep, RowsStep, StoreStep DEF StoreInv
<1> QED BY <1>1, <1>2, PTL DEF Spec

(* A completed or failed task is never written again, by a late cancel, a  *)
(* timeout, a decision or the recovery.                                    *)
THEOREM DoneIsDone == Spec => DoneStays
<1>1. StoreInv /\ [Next]_vars =>
         [\A t \in TaskIds : status[t] \in {"completed", "failed"} => status'[t] = status[t]]_vars
  BY DoneStep
<1> QED BY <1>1, StoreInvHolds, PTL DEF Spec, DoneStays

(* WaitersMatch without the set it builds.                                 *)
WaitersInv ==
    /\ StoreInv /\ AwaitsOwn
    /\ \A a \in waiters : \E t \in TaskIds : fiber[t] = "approval" /\ awaiting[t] = a
    /\ \A t \in TaskIds : fiber[t] = "approval" => awaiting[t] \in waiters
    /\ \A t, u \in TaskIds :
          awaiting[t] = awaiting[u] /\ awaiting[t] # NoApproval => t = u
    /\ \A a \in waiters : approval[a].status # "approved"

LEMMA WaitersEnd ==
    ASSUME WaitersInv, [Next]_vars, NEW T \in SUBSET TaskIds, Finally(T),
           waiters' = waiters \ {awaiting[t] : t \in {u \in T : fiber[u] = "approval"}},
           \A a \in waiters' : approval'[a].status # "approved"
    PROVE  WaitersInv'
<1>1. StoreInv' /\ AwaitsOwn'
  BY TypeStep, RowsStep, StoreStep, AwaitsOwnStep DEF WaitersInv, StoreInv
<1>2. \A t \in TaskIds :
         /\ fiber'[t] = IF t \in T THEN "idle" ELSE fiber[t]
         /\ awaiting'[t] = IF t \in T THEN NoApproval ELSE awaiting[t]
  BY DEF Finally
<1>3. ASSUME NEW a \in waiters'
      PROVE  \E t \in TaskIds : fiber'[t] = "approval" /\ awaiting'[t] = a
  BY <1>2 DEF WaitersInv
<1>4. ASSUME NEW t \in TaskIds, fiber'[t] = "approval"
      PROVE  awaiting'[t] \in waiters'
  <2>1. t \notin T /\ fiber[t] = "approval" /\ awaiting'[t] = awaiting[t]
    BY <1>2, <1>4
  <2>2. awaiting[t] # NoApproval
    BY <2>1 DEF WaitersInv, AwaitsOwn
  <2> QED BY <2>1, <2>2 DEF WaitersInv
<1>5. \A t, u \in TaskIds :
         awaiting'[t] = awaiting'[u] /\ awaiting'[t] # NoApproval => t = u
  BY <1>2 DEF WaitersInv
<1> QED BY <1>1, <1>3, <1>4, <1>5 DEF WaitersInv

(* Nothing but approve makes a row approved.                               *)
LEMMA NotApproved ==
    ASSUME TypeOK, NEW a \in ApprovalIds, approval[a].status \notin {"none", "approved"},
           \/ ListApprovals \/ ExpiryChecker
           \/ \E b \in ApprovalIds : ApproveLate(b) \/ Reject(b) \/ ApprovalAges(b)
    PROVE  approval'[a].status # "approved"
<1>1. approval[a] \in Approval
  BY DEF TypeOK, NoRequest
<1>2. CASE ListApprovals \/ ExpiryChecker
  BY <1>1, <1>2 DEF ListApprovals, ExpiryChecker, Expire, Approval
<1>3. ASSUME NEW b \in ApprovalIds, ApproveLate(b) \/ Reject(b)
      PROVE  approval'[a].status # "approved"
  <2>1. approval' = [approval EXCEPT ![b].status = "rejected"]
    BY <1>3 DEF ApproveLate, Reject, Decide
  <2>2. CASE b = a
    <3>1. approval'[a] = [approval[a] EXCEPT !.status = "rejected"]
      BY <2>1, <2>2 DEF TypeOK
    <3> QED BY <1>1, <3>1 DEF Approval
  <2>3. CASE b # a
    BY <2>1, <2>3 DEF TypeOK
  <2> QED BY <2>2, <2>3
<1>4. ASSUME NEW b \in ApprovalIds, ApprovalAges(b)
      PROVE  approval'[a].status # "approved"
  <2>1. approval'[a] = approval[a] \/ approval'[a] = [approval[a] EXCEPT !.due = TRUE]
    BY <1>4 DEF ApprovalAges, TypeOK
  <2> QED BY <1>1, <2>1 DEF Approval
<1> QED BY <1>2, <1>3, <1>4

(* Every step keeps waiters and parked executions in agreement.            *)
LEMMA WaitersStep ==
    ASSUME WaitersInv, [Next]_vars
    PROVE  WaitersInv'
<1> USE WorkerAssumption DEF store, memory
<1>1. StoreInv' /\ AwaitsOwn' /\ TypeOK /\ TypeOK' /\ AwaitsOwn
  BY TypeStep, RowsStep, StoreStep, AwaitsOwnStep DEF WaitersInv, StoreInv
<1>2. \A a \in waiters : a \in ApprovalIds /\ approval[a].status \notin {"none", "approved"}
  <2> SUFFICES ASSUME NEW a \in waiters
               PROVE  a \in ApprovalIds /\ approval[a].status \notin {"none", "approved"}
    OBVIOUS
  <2>1. PICK t \in TaskIds : fiber[t] = "approval" /\ awaiting[t] = a
    BY DEF WaitersInv
  <2>2. a \in ApprovalIds /\ a <= requested
    BY <1>1, <2>1 DEF AwaitsOwn, TypeOK
  <2> QED BY <1>1, <2>2 DEF AwaitsOwn, TypeOK, ApprovalIds, WaitersInv
<1>3. ASSUME \/ ListApprovals \/ ExpiryChecker
             \/ \E b \in ApprovalIds : ApproveLate(b) \/ Reject(b) \/ ApprovalAges(b)
      PROVE  \A a \in waiters : approval'[a].status # "approved"
  BY <1>1, <1>2, <1>3, NotApproved
<1>4. ASSUME UNCHANGED <<waiters, fiber, awaiting>>,
             \A a \in waiters : approval'[a].status # "approved"
      PROVE  WaitersInv'
  BY <1>1, <1>4 DEF WaitersInv
<1>5. ASSUME NEW t \in TaskIds, fiber[t] # "approval", NEW w \in {"session", "exec"},
             fiber' = [fiber EXCEPT ![t] = w], UNCHANGED <<waiters, awaiting, approval>>
      PROVE  WaitersInv'
  BY <1>1, <1>5 DEF WaitersInv, TypeOK
<1>6. ASSUME NEW t \in TaskIds, Starts(t)
      PROVE  fiber[t] = "idle"
  BY <1>6 DEF Starts, Polled, NextQueued, WaitersInv, StoreInv, StoreAgreesWithMap, Live
<1>7. ASSUME NEW t \in TaskIds, PollStart(t)
      PROVE  WaitersInv'
  BY <1>5, <1>6, <1>7 DEF PollStart
<1>8. ASSUME NEW t \in TaskIds, PollStartRisky(t)
      PROVE  WaitersInv'
  <2>1. /\ waiters' = waiters \union {requested + 1}
        /\ fiber[t] = "idle" /\ requested + 1 \in ApprovalIds
        /\ \A u \in TaskIds : fiber'[u] = IF u = t THEN "approval" ELSE fiber[u]
        /\ \A u \in TaskIds : awaiting'[u] = IF u = t THEN requested + 1 ELSE awaiting[u]
        /\ approval'[requested + 1].status = "pending"
        /\ \A a \in ApprovalIds : a # requested + 1 => approval'[a] = approval[a]
    BY <1>1, <1>6, <1>8 DEF PollStartRisky, TypeOK, ApprovalIds
  <2>2. \A u \in TaskIds : awaiting[u] # requested + 1
    BY <1>1 DEF AwaitsOwn, TypeOK, NoApproval, ApprovalIds
  <2>3. \A a \in waiters' : \E u \in TaskIds : fiber'[u] = "approval" /\ awaiting'[u] = a
    <3>1. ASSUME NEW a \in waiters
          PROVE  \E u \in TaskIds : fiber'[u] = "approval" /\ awaiting'[u] = a
      <4>1. PICK u \in TaskIds : fiber[u] = "approval" /\ awaiting[u] = a
        BY DEF WaitersInv
      <4>2. u # t
        BY <2>1, <4>1
      <4> QED BY <2>1, <4>1, <4>2
    <3> QED BY <2>1, <3>1
  <2>4. \A u \in TaskIds : fiber'[u] = "approval" => awaiting'[u] \in waiters'
    BY <2>1 DEF WaitersInv
  <2>5. \A u, v \in TaskIds :
           awaiting'[u] = awaiting'[v] /\ awaiting'[u] # NoApproval => u = v
    BY <2>1, <2>2 DEF WaitersInv
  <2>6. \A a \in waiters' : approval'[a].status # "approved"
    BY <1>2, <2>1
  <2> QED BY <1>1, <2>3, <2>4, <2>5, <2>6 DEF WaitersInv
<1>9. ASSUME NEW a \in ApprovalIds, Approve(a)
      PROVE  WaitersInv'
  <2>1. /\ waiters' = waiters \ {a} /\ awaiting' = awaiting
        /\ \A t \in TaskIds : fiber'[t] =
              IF fiber[t] = "approval" /\ awaiting[t] = a THEN "session" ELSE fiber[t]
        /\ \A b \in ApprovalIds : b # a => approval'[b] = approval[b]
    BY <1>1, <1>9 DEF Approve, Parked, Decide, TypeOK, WaitersInv
  <2>2. \A b \in waiters' : approval'[b].status # "approved"
    BY <1>2, <2>1
  <2> QED BY <1>1, <2>1, <2>2 DEF WaitersInv
<1>10. ASSUME NEW T \in SUBSET TaskIds, Finally(T),
              \A a \in waiters : approval'[a].status # "approved",
              waiters' = waiters \ {awaiting[t] : t \in {u \in T : fiber[u] = "approval"}}
       PROVE  WaitersInv'
  BY <1>10, WaitersEnd
<1>11. ASSUME NEW t \in TaskIds,
              \/ SessionFails(t) \/ ExecCompletes(t) \/ ExecFails(t) \/ CancelInExec(t)
              \/ CancelParked(t) \/ WaitTimesOut(t)
       PROVE  WaitersInv'
  <2>1. Finally({t}) /\ approval' = approval
        /\ waiters' = waiters \ {awaiting[u] : u \in {v \in {t} : fiber[v] = "approval"}}
    BY <1>11 DEF SessionFails, ExecCompletes, ExecFails, CancelInExec, CancelParked,
                 WaitTimesOut, EndWith
  <2>2. \A a \in waiters' : approval'[a].status # "approved"
    BY <1>2, <2>1
  <2> QED BY <2>1, <2>2, WaitersEnd
<1>12. ASSUME NEW A \in SUBSET waiters, EndWith(Parked(A), "cancelled"),
              waiters' = waiters \ A,
              \A a \in waiters : approval'[a].status # "approved"
       PROVE  WaitersInv'
  <2>1. {awaiting[t] : t \in {u \in Parked(A) : fiber[u] = "approval"}} = A
    BY DEF Parked, WaitersInv
  <2>2. Parked(A) \in SUBSET TaskIds /\ Finally(Parked(A))
    BY <1>12 DEF Parked, EndWith
  <2> QED BY <1>10, <1>12, <2>1, <2>2
<1>13. ASSUME NEW a \in ApprovalIds, Reject(a)
       PROVE  WaitersInv'
  <2>1. waiters' = waiters \ ({a} \intersect waiters) /\ {a} \intersect waiters \in SUBSET waiters
    BY <1>13 DEF Reject
  <2> QED BY <1>3, <1>12, <1>13, <2>1 DEF Reject
<1>14. CASE ExpiryChecker
  BY <1>3, <1>12, <1>14 DEF ExpiryChecker
<1>15. CASE Restart
  BY <1>1, <1>15 DEF Restart, WaitersInv
<1>16. ASSUME NEW t \in TaskIds, SessionReady(t)
       PROVE  WaitersInv'
  BY <1>5, <1>16 DEF SessionReady
<1>17. ASSUME ListApprovals \/ (\E a \in ApprovalIds : ApproveLate(a) \/ ApprovalAges(a))
       PROVE  WaitersInv'
  BY <1>3, <1>4, <1>17 DEF ListApprovals, ApproveLate, ApprovalAges
<1>18. ASSUME UNCHANGED <<waiters, fiber, awaiting, approval>>
       PROVE  WaitersInv'
  BY <1>1, <1>18 DEF WaitersInv
<1> QED
  BY <1>7, <1>8, <1>9, <1>11, <1>13, <1>14, <1>15, <1>16, <1>17, <1>18
     DEF Next, Client, Worker, Clock, CancelTask, Poll, vars, CreateTask, CreateBlocked,
         CreateRefused, PollWaits, PollOverBudget, CancelQueued, CancelInSession, RetryTask,
         LockAges, BudgetResets

(* The waiters of the approval manager are exactly the approvals some      *)
(* execution is parked on, one each, none approved: no wakeup is lost, and *)
(* no waiter outlives a cancel, a timeout, an expiry or a decision.        *)
THEOREM NoLostWakeup == Spec => []WaitersMatch
<1>1. Init => WaitersInv
  <2> SUFFICES ASSUME Init PROVE WaitersInv
    OBVIOUS
  <2>1. GateInv /\ StoreAgreesWithMap
    BY InitGateInv DEF Init, StoreAgreesWithMap, Live
  <2> QED BY <2>1 DEF GateInv, Init, WaitersInv, StoreInv
<1>2. WaitersInv /\ [Next]_vars => WaitersInv'
  BY WaitersStep
<1>3. WaitersInv => WaitersMatch
  BY DEF WaitersInv, WaitersMatch
<1> QED BY <1>1, <1>2, <1>3, PTL DEF Spec

(* Decisions and outcomes stay (decide, cancelTask, recoverInterrupted).   *)
THEOREM OutcomesAreFinal == Spec => OutcomesStay
<1> QED BY DecisionsFinal, DoneIsDone DEF OutcomesStay
=============================================================================
