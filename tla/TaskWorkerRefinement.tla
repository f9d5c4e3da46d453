------------------------ MODULE TaskWorkerRefinement ------------------------
(***************************************************************************)
(* TaskWorker implements TaskLifecycle: the initial states map to initial  *)
(* states, and every step maps to a step of the life cycle or a stutter.   *)
(***************************************************************************)
EXTENDS TaskWorkerProofs

(* What the mapping needs to know of a reachable state.                    *)
ImplInv == LockInv /\ AwaitsOwn /\ StoreAgreesWithMap

(* The invariant of the mapping is kept by every step.                     *)
LEMMA ImplInvStep == ImplInv /\ [Next]_vars => ImplInv'
<1> SUFFICES ASSUME ImplInv, [Next]_vars PROVE ImplInv'
  OBVIOUS
<1>1. LockInv'
  BY TypeStep, RowsStep, ReadFreeStep, WriterLockStep DEF LockInv, ImplInv
<1>2. AwaitsOwn'
  BY AwaitsOwnStep DEF LockInv, ImplInv
<1>3. StoreAgreesWithMap'
  BY StoreStep DEF LockInv, ImplInv
<1> QED
  BY <1>1, <1>2, <1>3 DEF ImplInv

-----------------------------------------------------------------------------
(* The mapping, case by case.                                              *)

(* The phase of a task in the four situations the mapping tells apart.     *)
LEMMA PhaseOf ==
    ASSUME NEW t \in TaskIds
    PROVE  /\ fiber[t] = "approval" => phaseBar[t] = "waiting"
           /\ fiber[t] \in {"session", "exec"} => phaseBar[t] = "working"
           /\ fiber[t] = "idle" /\ status[t] \in {"absent", "queued"}
              => phaseBar[t] = status[t]
           /\ fiber[t] = "idle" /\ status[t] \notin {"absent", "queued"}
              => phaseBar[t] = "done"
BY DEF phaseBar

(* The same of the next state.                                             *)
LEMMA PhaseOfNext ==
    ASSUME NEW t \in TaskIds
    PROVE  /\ fiber'[t] = "approval" => phaseBar'[t] = "waiting"
           /\ fiber'[t] \in {"session", "exec"} => phaseBar'[t] = "working"
           /\ fiber'[t] = "idle" /\ status'[t] \in {"absent", "queued"}
              => phaseBar'[t] = status'[t]
           /\ fiber'[t] = "idle" /\ status'[t] \notin {"absent", "queued"}
              => phaseBar'[t] = "done"
BY DEF phaseBar

(* Where neither the await nor the status changes, neither does the phase. *)
LEMMA PhaseKept ==
    ASSUME TypeOK, NEW t \in TaskIds, fiber'[t] = fiber[t],
           fiber[t] # "idle" \/ status'[t] = status[t]
    PROVE  phaseBar'[t] = phaseBar[t]
<1>1. CASE status'[t] = status[t]
  BY <1>1 DEF phaseBar
<1>2. CASE fiber[t] \in {"approval", "session", "exec"}
  BY <1>2, PhaseOf, PhaseOfNext
<1> QED
  BY <1>1, <1>2 DEF TypeOK

(* Active tasks of the life cycle are the live executions.                 *)
LEMMA ActiveIsLive ==
    ASSUME TypeOK
    PROVE  Lifecycle!Active = {t \in TaskIds : Live(t)}
<1>1. ASSUME NEW t \in TaskIds
      PROVE  phaseBar[t] \in {"waiting", "working"} <=> Live(t)
  BY PhaseOf DEF Live, TypeOK
<1> QED
  BY <1>1 DEF Lifecycle!Active

-----------------------------------------------------------------------------
(* Each kind of step is a step of the life cycle or a stutter.             *)

(* A step that changes no row, await or status is a stutter.               *)
LEMMA StutterStep ==
    ASSUME TypeOK, UNCHANGED row,
           \A t \in TaskIds :
              \/ fiber'[t] = fiber[t] /\ (Live(t) \/ status'[t] = status[t])
              \/ {fiber[t], fiber'[t]} \subseteq {"session", "exec"}
    PROVE  UNCHANGED Lifecycle!vars
<1>1. ASSUME NEW t \in TaskIds
      PROVE  phaseBar'[t] = phaseBar[t]
  <2>1. CASE fiber'[t] = fiber[t] /\ (Live(t) \/ status'[t] = status[t])
    BY <2>1, PhaseKept DEF Live
  <2>2. CASE {fiber[t], fiber'[t]} \subseteq {"session", "exec"}
    BY <2>2, PhaseOf, PhaseOfNext
  <2> QED
    BY <2>1, <2>2
<1>2. phaseBar' = phaseBar
  BY <1>1 DEF phaseBar
<1>3. kindBar' = kindBar
  BY DEF kindBar
<1> QED
  BY <1>2, <1>3 DEF Lifecycle!vars

(* A function that differs from another at one argument only is an update. *)
LEMMA OnePoint ==
    ASSUME NEW f, NEW g, NEW t \in TaskIds, NEW v,
           f = [u \in TaskIds |-> f[u]], g = [u \in TaskIds |-> g[u]],
           g[t] = v, \A u \in TaskIds \ {t} : g[u] = f[u]
    PROVE  g = [f EXCEPT ![t] = v]
OBVIOUS

(* A row that createTask adds is a submission.                             *)
LEMMA SubmitStep ==
    ASSUME TypeOK, RowsCreated, NEW t \in TaskIds, t = created + 1, NEW x \in Row,
           row' = [row EXCEPT ![t] = x],
           status' = [status EXCEPT ![t] = "queued"], UNCHANGED fiber
    PROVE  Lifecycle!Submit(t)
<1>1. status[t] = "absent" /\ fiber[t] = "idle"
  BY DEF RowsCreated, Live, TypeOK, TaskIds
<1>2. phaseBar[t] = "absent"
  BY <1>1, PhaseOf
<1>3. phaseBar' = [phaseBar EXCEPT ![t] = "queued"]
  <2>1. phaseBar'[t] = "queued"
    BY <1>1, PhaseOfNext DEF TypeOK
  <2>2. ASSUME NEW u \in TaskIds \ {t}
        PROVE  phaseBar'[u] = phaseBar[u]
    BY PhaseKept DEF TypeOK
  <2>3. /\ phaseBar = [u \in TaskIds |-> phaseBar[u]]
        /\ phaseBar' = [u \in TaskIds |-> phaseBar'[u]]
    BY DEF phaseBar
  <2> QED
    BY <2>1, <2>2, <2>3, OnePoint
<1>4. \E k \in [project : Projects, write : BOOLEAN, risky : BOOLEAN] :
         kindBar' = [kindBar EXCEPT ![t] = k]
  <2> DEFINE k == [project |-> x.project, write |-> ~x.read, risky |-> x.risky]
  <2>1. k \in [project : Projects, write : BOOLEAN, risky : BOOLEAN]
    BY DEF Row
  <2>2. x.stored
    BY DEF Row
  <2>3. kindBar' = [kindBar EXCEPT ![t] = k]
    <3>1. row'[t] = x /\ \A u \in TaskIds \ {t} : row'[u] = row[u]
      BY DEF TypeOK
    <3>2. kindBar'[t] = k
      BY <2>2, <3>1 DEF kindBar
    <3>3. \A u \in TaskIds \ {t} : kindBar'[u] = kindBar[u]
      BY <3>1 DEF kindBar
    <3>4. /\ kindBar = [u \in TaskIds |-> kindBar[u]]
          /\ kindBar' = [u \in TaskIds |-> kindBar'[u]]
      BY DEF kindBar
    <3> QED
      BY <3>2, <3>3, <3>4, OnePoint
  <2> QED
    BY <2>1, <2>3
<1> QED
  BY <1>2, <1>3, <1>4 DEF Lifecycle!Submit

(* A poll that starts a task starts it in the life cycle: no execution in  *)
(* progress conflicts with it.                                             *)
LEMMA StartStep ==
    ASSUME ImplInv, NEW t \in TaskIds, PollStart(t) \/ PollStartRisky(t)
    PROVE  Lifecycle!Start(t)
<1> USE DEF ImplInv, LockInv
<1>1. /\ Polled(t) /\ MayStart(t) /\ UNCHANGED row
      /\ status' = [status EXCEPT ![t] = "running"]
      /\ fiber' = [fiber EXCEPT ![t] = IF row[t].risky THEN "approval"
                                       ELSE "session"]
  BY DEF PollStart, PollStartRisky, Starts
<1>2. status[t] = "queued" /\ fiber[t] = "idle" /\ row[t].stored
  BY <1>1 DEF Polled, NextQueued, StoreAgreesWithMap, Live, RowsCreated,
     TypeOK, TaskIds
<1>3. row[t] \in Row
  BY <1>2 DEF TypeOK, NoRow
<1>4. phaseBar[t] = "queued"
  BY <1>2, PhaseOf
<1>5. ASSUME NEW u \in Lifecycle!Active
      PROVE  ~Lifecycle!Conflict(t, u)
  <2>1. u \in TaskIds /\ Live(u)
    BY <1>5, ActiveIsLive
  <2>2. row[u].stored
    BY <2>1 DEF RowsCreated
  <2>3. row[u] \in Row
    BY <2>1, <2>2 DEF TypeOK, NoRow
  <2>4. SUFFICES ASSUME ~row[t].read, ~row[u].read,
                        row[t].project = row[u].project,
                        ReadFree(row[t].project)
                 PROVE  FALSE
    BY <1>2, <2>1, <2>2 DEF Lifecycle!Conflict, kindBar
  <2>5. u \in Writers(row[t].project)
    BY <2>1, <2>4 DEF Writers, IsWrite
  <2>6. projectLocks[row[t].project] = u
    BY <1>3, <2>4, <2>5 DEF WriterHoldsLock, Row
  <2>7. projectLocks[row[t].project] = None
    BY <1>1, <2>4 DEF MayStart, MapsFree, IsWrite
  <2> QED
    BY <2>1, <2>6, <2>7, WorkerAssumption
<1>6. phaseBar' = [phaseBar EXCEPT ![t] = IF kindBar[t].risky THEN "waiting"
                                          ELSE "working"]
  <2>1. kindBar[t].risky = row[t].risky
    BY <1>2 DEF kindBar
  <2>2. phaseBar'[t] = IF row[t].risky THEN "waiting" ELSE "working"
    BY <1>1, PhaseOfNext DEF TypeOK
  <2>3. ASSUME NEW u \in TaskIds \ {t}
        PROVE  phaseBar'[u] = phaseBar[u]
    BY <1>1, PhaseKept DEF TypeOK
  <2> QED
    BY <2>1, <2>2, <2>3 DEF phaseBar
<1>7. UNCHANGED kindBar
  BY <1>1 DEF kindBar
<1> QED
  BY <1>4, <1>5, <1>6, <1>7 DEF Lifecycle!Start

(* A task refused for its budget leaves the queue without an execution.    *)
LEMMA RefuseStep ==
    ASSUME ImplInv, NEW t \in TaskIds, PollOverBudget(t)
    PROVE  Lifecycle!Refuse(t)
<1> USE DEF ImplInv, LockInv
<1>1. status[t] = "queued" /\ fiber[t] = "idle"
  BY DEF PollOverBudget, Polled, NextQueued, StoreAgreesWithMap, Live
<1>2. /\ UNCHANGED <<row, fiber>>
      /\ status' = [status EXCEPT ![t] = "failed"]
  BY DEF PollOverBudget
<1>3. phaseBar[t] = "queued"
  BY <1>1, PhaseOf
<1>4. phaseBar' = [phaseBar EXCEPT ![t] = "done"]
  <2>1. phaseBar'[t] = "done"
    BY <1>1, <1>2, PhaseOfNext DEF TypeOK
  <2>2. ASSUME NEW u \in TaskIds \ {t}
        PROVE  phaseBar'[u] = phaseBar[u]
    BY <1>2, PhaseKept DEF TypeOK
  <2> QED
    BY <2>1, <2>2 DEF phaseBar
<1>5. UNCHANGED kindBar
  BY <1>2 DEF kindBar
<1> QED
  BY <1>3, <1>4, <1>5 DEF Lifecycle!Refuse

(* Executions that end together finish together.                           *)
LEMMA FinishStep ==
    ASSUME TypeOK, NEW T \in SUBSET {t \in TaskIds : Live(t)},
           NEW s \in Terminal, EndWith(T, s), UNCHANGED row
    PROVE  Lifecycle!Finish
<1>1. T \in SUBSET Lifecycle!Active
  BY ActiveIsLive
<1>2. ASSUME NEW t \in T
      PROVE  phaseBar'[t] = "done"
  BY PhaseOfNext DEF EndWith, Finally, Terminal
<1>3. ASSUME NEW t \in TaskIds \ T
      PROVE  phaseBar'[t] = phaseBar[t]
  BY PhaseKept DEF EndWith, Finally
<1>4. phaseBar' = [t \in TaskIds |-> IF t \in T THEN "done" ELSE phaseBar[t]]
  BY <1>2, <1>3 DEF phaseBar
<1>5. UNCHANGED kindBar
  BY DEF kindBar
<1> QED
  BY <1>1, <1>4, <1>5 DEF Lifecycle!Finish

(* An approval grants the one execution that waits for it, or nobody.      *)
LEMMA GrantStep ==
    ASSUME TypeOK, AwaitsOwn, NEW a \in ApprovalIds, Approve(a)
    PROVE  (\E t \in TaskIds : Lifecycle!Grant(t)) \/ UNCHANGED Lifecycle!vars
<1> DEFINE P == Parked({a} \intersect waiters)
<1>1. /\ UNCHANGED <<row, status>>
      /\ fiber' = [t \in TaskIds |-> IF t \in P THEN "session" ELSE fiber[t]]
  BY DEF Approve
<1>2. CASE P = {}
  BY <1>1, <1>2, StutterStep DEF TypeOK
<1>3. ASSUME NEW t \in P
      PROVE  Lifecycle!Grant(t)
  <2>1. t \in TaskIds /\ fiber[t] = "approval" /\ awaiting[t] = a
    BY <1>3 DEF Parked
  <2>2. \A u \in P : u = t
    BY <2>1 DEF Parked, AwaitsOwn, NoApproval, ApprovalIds
  <2>3. phaseBar[t] = "waiting" /\ phaseBar'[t] = "working"
    BY <1>1, <1>3, <2>1, PhaseOf, PhaseOfNext
  <2>4. ASSUME NEW u \in TaskIds \ {t}
        PROVE  phaseBar'[u] = phaseBar[u]
    BY <1>1, <2>2, PhaseKept
  <2>5. phaseBar' = [phaseBar EXCEPT ![t] = "working"]
    BY <2>3, <2>4 DEF phaseBar
  <2>6. UNCHANGED kindBar
    BY <1>1 DEF kindBar
  <2> QED
    BY <2>3, <2>5, <2>6 DEF Lifecycle!Grant
<1> QED
  BY <1>2, <1>3 DEF Parked

(* A restart is a crash: cancelled executions are done, the others are     *)
(* queued again.                                                           *)
LEMMA CrashStep ==
    ASSUME TypeOK, StoreAgreesWithMap, Restart
    PROVE  Lifecycle!Crash
<1> DEFINE Ended == {t \in TaskIds : Live(t) /\ t \notin running}
<1>1. Ended \in SUBSET Lifecycle!Active
  BY ActiveIsLive
<1>2. ASSUME NEW t \in TaskIds
      PROVE  phaseBar'[t] = IF t \in Ended THEN "done"
                            ELSE IF t \in Lifecycle!Active THEN "queued"
                            ELSE phaseBar[t]
  <2>1. fiber'[t] = "idle"
    BY DEF Restart
  <2>2. CASE t \in Ended
    BY <2>1, <2>2, PhaseOfNext DEF Restart, StoreAgreesWithMap
  <2>3. CASE t \in running
    BY <1>2, <2>1, <2>3, PhaseOfNext, ActiveIsLive DEF Restart, StoreAgreesWithMap
  <2>4. CASE ~Live(t)
    <3>1. status'[t] = status[t]
      BY <2>4 DEF Restart, StoreAgreesWithMap
    <3> QED
      BY <2>1, <2>4, <3>1, PhaseKept, ActiveIsLive DEF Live
  <2> QED
    BY <2>2, <2>3, <2>4
<1>3. phaseBar' = [t \in TaskIds |-> IF t \in Ended THEN "done"
                                     ELSE IF t \in Lifecycle!Active THEN "queued"
                                     ELSE phaseBar[t]]
  BY <1>2 DEF phaseBar
<1>4. UNCHANGED kindBar
  BY DEF Restart, kindBar
<1> QED
  BY <1>1, <1>3, <1>4 DEF Lifecycle!Crash

-----------------------------------------------------------------------------
(* The initial states map to the initial state.                            *)
LEMMA InitMaps == Init => Lifecycle!Init
<1> SUFFICES ASSUME Init PROVE Lifecycle!Init
  OBVIOUS
<1>1. \A t \in TaskIds : phaseBar[t] = "absent"
  BY PhaseOf DEF Init
<1>2. phaseBar = [t \in TaskIds |-> "absent"]
  BY <1>1 DEF phaseBar
<1>3. kindBar = [t \in TaskIds |-> NoRow]
  BY DEF Init, kindBar, NoRow
<1> QED
  BY <1>2, <1>3 DEF Lifecycle!Init

(* Every step maps to a step of the life cycle or a stutter.               *)
LEMMA StepMaps ==
    ASSUME ImplInv, [Next]_vars
    PROVE  [Lifecycle!Next]_(Lifecycle!vars)
<1> USE DEF ImplInv, LockInv, Lifecycle!Next, store, memory
<1>1. ASSUME NEW r \in Requests, CreateTask(r)
      PROVE  [Lifecycle!Next]_(Lifecycle!vars)
  <2>1. created + 1 \in TaskIds
    BY <1>1, WorkerAssumption DEF CreateTask, TypeOK, TaskIds
  <2>2. [stored |-> TRUE, project |-> r.project, env |-> r.env,
         read |-> r.read, risky |-> r.risky, priority |-> r.priority,
         byPath |-> r.byPath, profile |-> r.project, key |-> r.key] \in Row
    BY WorkerAssumption DEF Request, Row
  <2>3. Lifecycle!Submit(created + 1)
    BY <1>1, <2>1, <2>2, SubmitStep DEF CreateTask
  <2> QED
    BY <2>1, <2>3
<1>2. ASSUME NEW t \in TaskIds, RetryTask(t)
      PROVE  [Lifecycle!Next]_(Lifecycle!vars)
  <2> DEFINE copy == [row[t] EXCEPT !.env = DefaultEnv, !.key = NoKey,
                        !.profile = IF row[t].byPath THEN NoProfile
                                    ELSE row[t].project]
  <2>1. created + 1 \in TaskIds
    BY <1>2, WorkerAssumption DEF RetryTask, TypeOK, TaskIds
  <2>2. row[t] \in Row
    BY <1>2 DEF RetryTask, RowsCreated, TypeOK, NoRow, TaskIds
  <2>3. copy \in Row
    BY <2>2, WorkerAssumption DEF Row
  <2>4. Lifecycle!Submit(created + 1)
    BY <1>2, <2>1, <2>3, SubmitStep DEF RetryTask
  <2> QED
    BY <2>1, <2>4
<1>3. ASSUME NEW t \in TaskIds, Poll(t)
      PROVE  [Lifecycle!Next]_(Lifecycle!vars)
  <2>1. CASE PollWaits(t)
    BY <2>1, StutterStep DEF PollWaits
  <2>2. CASE PollOverBudget(t)
    BY <2>2, RefuseStep
  <2>3. CASE PollStart(t) \/ PollStartRisky(t)
    BY <2>3, StartStep
  <2> QED
    BY <1>3, <2>1, <2>2, <2>3 DEF Poll
<1>4. ASSUME NEW t \in TaskIds, SessionReady(t) \/ CancelInSession(t)
      PROVE  [Lifecycle!Next]_(Lifecycle!vars)
  <2>1. UNCHANGED row
    BY <1>4 DEF SessionReady, CancelInSession
  <2>2. ASSUME NEW u \in TaskIds
        PROVE  \/ fiber'[u] = fiber[u] /\ (Live(u) \/ status'[u] = status[u])
               \/ {fiber[u], fiber'[u]} \subseteq {"session", "exec"}
    BY <1>4 DEF SessionReady, CancelInSession, Live, TypeOK
  <2> QED
    BY <2>1, <2>2, StutterStep
<1>5. ASSUME NEW t \in TaskIds,
             SessionFails(t) \/ ExecFails(t) \/ ExecCompletes(t)
             \/ WaitTimesOut(t) \/ CancelParked(t) \/ CancelInExec(t)
      PROVE  [Lifecycle!Next]_(Lifecycle!vars)
  <2>1. Live(t) /\ UNCHANGED row /\ \E s \in Terminal : EndWith({t}, s)
    BY <1>5 DEF SessionFails, ExecFails, ExecCompletes, WaitTimesOut,
                CancelParked, CancelInExec, Live, Terminal
  <2> QED
    BY <2>1, FinishStep
<1>6. CASE ExpiryChecker \/ \E a \in ApprovalIds : Reject(a)
  <2>1. \E A : EndWith(Parked(A), "cancelled") /\ UNCHANGED row
    BY <1>6 DEF ExpiryChecker, Reject
  <2>2. \A A : Parked(A) \in SUBSET {t \in TaskIds : Live(t)}
    BY DEF Parked, Live
  <2>3. "cancelled" \in Terminal
    BY DEF Terminal
  <2> QED
    BY <2>1, <2>2, <2>3, FinishStep
<1>7. ASSUME NEW a \in ApprovalIds, Approve(a)
      PROVE  [Lifecycle!Next]_(Lifecycle!vars)
  BY <1>7, GrantStep
<1>8. CASE Restart
  BY <1>8, CrashStep
<1>9. CASE UNCHANGED <<row, status, fiber>>
  BY <1>9, StutterStep
<1>10. \/ UNCHANGED <<row, status, fiber>>
       \/ \E r \in Requests : CreateTask(r)
       \/ \E t \in TaskIds :
             \/ RetryTask(t) \/ Poll(t) \/ SessionReady(t) \/ CancelInSession(t)
             \/ SessionFails(t) \/ ExecFails(t) \/ ExecCompletes(t)
             \/ WaitTimesOut(t) \/ CancelParked(t) \/ CancelInExec(t)
       \/ \E a \in ApprovalIds : Approve(a) \/ Reject(a)
       \/ ExpiryChecker \/ Restart
  BY DEF Next, Client, Worker, Clock, CancelTask, vars, CreateBlocked,
     CreateRefused, CancelQueued, ApproveLate, ListApprovals, LockAges,
     ApprovalAges, BudgetResets
<1> QED
  BY <1>1, <1>2, <1>3, <1>4, <1>5, <1>6, <1>7, <1>8, <1>9, <1>10

(* The server implements the life cycle of its tasks: executed once per    *)
(* restart, exclusive writes, no work before the approval, done for good,  *)
(* for every set of projects and requests and every limit.                 *)
THEOREM ServerImplementsLifecycle == Spec => ImplementsLifecycle
<1>1. Init => ImplInv
  BY InitLockInv, InitGateInv DEF ImplInv, GateInv, Init, StoreAgreesWithMap, Live
<1> QED
  BY <1>1, ImplInvStep, InitMaps, StepMaps, PTL
  DEF Spec, ImplementsLifecycle, Lifecycle!Spec
=============================================================================
