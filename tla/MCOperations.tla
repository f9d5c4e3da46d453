----------------------------- MODULE MCOperations -----------------------------
(***************************************************************************)
(* The programs timers run beside the servers: recovery, update, SLI       *)
(* collection.  They share no state that the models keep, so that a        *)
(* behaviour picks one of them at the start and the others stand still.    *)
(***************************************************************************)
EXTENDS RecoveryController, UpdateController

CONSTANTS Collectors, Timer

VARIABLES part,
    lockFile, stale, report, run, seen

C == INSTANCE SliCollector

ASSUME CollectorAssumption == Timer \in Collectors /\ C!NoLock \notin Collectors

cvars == <<lockFile, stale, report, run, seen>>
allvars == <<part, vars, updatevars, cvars>>

OperationsInit ==
    /\ part \in {"recovery", "update", "collector"}
    /\ Init /\ UpdateInit /\ C!Init

Recovery(A) == part = "recovery" /\ A /\ UNCHANGED <<part, updatevars, cvars>>
Update(A) == part = "update" /\ A /\ UNCHANGED <<part, vars, cvars>>
Collector(A) == part = "collector" /\ A /\ UNCHANGED <<part, vars, updatevars>>

OperationsNext == Recovery(Next) \/ Update(UpdateNext) \/ Collector(C!Next)

OperationsSpec ==
    /\ OperationsInit /\ [][OperationsNext]_allvars
    /\ SF_allvars(Recovery(TimerRun)) /\ WF_allvars(Recovery(Run))
    /\ \A c \in Components : WF_allvars(Recovery(CoolingEnds(c)))
    /\ WF_allvars(Collector(C!Ages)) /\ SF_allvars(Collector(C!Look(Timer)))
    /\ \A c \in Collectors : WF_allvars(Collector(C!Progress(c)))

SourcesAddUp == C!SourcesAddUp
DeadLockGoes == C!DeadLockGoes
=============================================================================
