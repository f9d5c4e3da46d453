---------------------------- MODULE MCTaskWorker ----------------------------
(***************************************************************************)
(* Instances of TaskWorker for TLC.  A request of the model is one body    *)
(* that a client may post; each run takes the few that its question needs. *)
(***************************************************************************)
EXTENDS TaskWorkerProperties

CONSTANTS p1, p2, k1

(* A write request for p in environment e.                                 *)
Write(p, e) ==
    [project |-> p, env |-> e, read |-> FALSE, readOnly |-> FALSE,
     risky |-> FALSE, priority |-> 2, byPath |-> FALSE, key |-> NoKey]

Risky(r)   == [r EXCEPT !.risky = TRUE]
Reading(r) == [r EXCEPT !.read = TRUE, !.readOnly = TRUE]
Urgent(r)  == [r EXCEPT !.priority = 0]
ByPath(r)  == [r EXCEPT !.byPath = TRUE]
Keyed(r)   == [r EXCEPT !.key = k1]
(* A write command posted with read_only: it takes no lock when created.   *)
Unlocked(r) == [r EXCEPT !.readOnly = TRUE]

-----------------------------------------------------------------------------
(* Writes of one project in two environments, one without a lock of its    *)
(* own, one risky, next to another project's.                              *)
WriteRequests == {Write(p1, "local"), Risky(Unlocked(Write(p1, "staging"))),
                  ByPath(Write(p2, "local"))}

(* A keyed write, a read, and a write without a lock of its own.           *)
LockRequests == {Keyed(Urgent(Write(p1, "local"))), Reading(Write(p1, "local")),
                 Unlocked(Write(p1, "staging"))}

(* A read command whose prompt names a high-risk operation waits for an    *)
(* approval as well, so that two executions of a project may wait at once. *)
ApprovalRequests == {Write(p1, "local"), Risky(Reading(Write(p1, "local"))),
                     Risky(Unlocked(Write(p1, "local")))}

RiskyRequests == {Risky(Write(p1, "local")), Unlocked(Write(p1, "local"))}

ReadRequests == {Unlocked(Write(p1, "local")), Reading(Write(p1, "local"))}

-----------------------------------------------------------------------------
OneWrite  == [p \in Projects |-> 1]
TwoWrites == [p \in Projects |-> 2]

NoBudgets == {}
WriteBudgets == Projects \X {"write"}
=============================================================================
