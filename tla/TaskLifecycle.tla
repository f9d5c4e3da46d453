--------------------------- MODULE TaskLifecycle ---------------------------
(***************************************************************************)
(* What the remote control server promises of its tasks, without locks,    *)
(* maps, approvals tables or timers (docs/OPENCODE-MOBILE-REMOTE-CONTROL,  *)
(* "Task states" and "Project Locks"):                                     *)
(*   - a task is executed once, unless the server restarts under it;       *)
(*   - two write tasks of an exclusive project are never executed at once; *)
(*   - a risky task works only after it waited and was granted;            *)
(*   - a task that is done is never executed again.                        *)
(* TaskWorker is shown to implement it.                                    *)
(***************************************************************************)
CONSTANTS
    Tasks,      \* task ids
    Exclusive,  \* projects in which writes exclude each other
    Kinds,      \* what a task is: its project, whether it writes, is risky
    NoKind      \* the kind of a task that was not submitted

VARIABLES
    phase,      \* [Tasks -> {"absent", "queued", "waiting", "working", "done"}]
    kind        \* [Tasks -> Kinds \union {NoKind}]

vars == <<phase, kind>>

Active == {t \in Tasks : phase[t] \in {"waiting", "working"}}

Conflict(t, u) ==
    /\ kind[t].write /\ kind[u].write
    /\ kind[t].project = kind[u].project
    /\ kind[t].project \in Exclusive

Init ==
    /\ phase = [t \in Tasks |-> "absent"]
    /\ kind = [t \in Tasks |-> NoKind]

Submit(t) ==
    /\ phase[t] = "absent"
    /\ phase' = [phase EXCEPT ![t] = "queued"]
    /\ \E k \in Kinds : kind' = [kind EXCEPT ![t] = k]

Start(t) ==
    /\ phase[t] = "queued"
    /\ \A u \in Active : ~Conflict(t, u)
    /\ phase' = [phase EXCEPT ![t] = IF kind[t].risky THEN "waiting"
                                     ELSE "working"]
    /\ UNCHANGED kind

Grant(t) ==
    /\ phase[t] = "waiting"
    /\ phase' = [phase EXCEPT ![t] = "working"]
    /\ UNCHANGED kind

(* Executions end together when one event ends several of them.            *)
Finish ==
    /\ \E T \in SUBSET Active :
          phase' = [t \in Tasks |-> IF t \in T THEN "done" ELSE phase[t]]
    /\ UNCHANGED kind

Refuse(t) ==
    /\ phase[t] = "queued"
    /\ phase' = [phase EXCEPT ![t] = "done"]
    /\ UNCHANGED kind

(* A restart ends every execution; the ones that were not cancelled are    *)
(* queued again.                                                           *)
Crash ==
    /\ \E Ended \in SUBSET Active :
          phase' = [t \in Tasks |-> IF t \in Ended THEN "done"
                                    ELSE IF t \in Active THEN "queued"
                                    ELSE phase[t]]
    /\ UNCHANGED kind

Next ==
    \/ \E t \in Tasks : Submit(t) \/ Start(t) \/ Grant(t) \/ Refuse(t)
    \/ Finish
    \/ Crash

Spec == Init /\ [][Next]_vars
=============================================================================
