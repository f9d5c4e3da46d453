----------------------------- MODULE SliCollector -----------------------------
(***************************************************************************)
(* The SLI collector: a run takes a lock file, collects, writes the status *)
(* file and removes the lock.  A run that finds the lock leaves; one that  *)
(* finds it older than LOCK_TTL_MS takes it over.                          *)
(*                                                                         *)
(* The timer's runs do not overlap each other, runs started by hand may;   *)
(* looking at the lock and writing it are two steps, and a run that is     *)
(* killed leaves its lock behind.                                          *)
(***************************************************************************)
EXTENDS Naturals, FiniteSets

CONSTANTS
    Collectors,     \* the runs there may be at once
    Timer           \* the one the timer starts; the others are started by hand

VARIABLES
    lockFile,   \* who wrote the lock file, or NoLock
    stale,      \* the lock file is older than LOCK_TTL_MS
    report,     \* STATUS_FILE: lockStatus, and the samples of the last collection
    run,        \* run -> "idle", "taking", "collecting"
    seen        \* run -> the status it has read

vars == <<lockFile, stale, report, run, seen>>

NoLock == "none"
(* CollectorStatus: sources are counted as ok or as failed.                *)
Sources == 7
Status == [lockStatus : {"inactive", "locked", "idle"},
           sourcesTotal : {0, Sources}, sourcesOk : 0..Sources, sourcesFailed : 0..Sources]
NoStatus == [lockStatus |-> "inactive", sourcesTotal |-> 0, sourcesOk |-> 0,
             sourcesFailed |-> 0]

Init ==
    /\ lockFile = NoLock /\ stale = FALSE /\ report = NoStatus
    /\ run = [c \in Collectors |-> "idle"]
    /\ seen = [c \in Collectors |-> NoStatus]

(* acquireLock, its look at the lock file.                                 *)
Look(c) ==
    /\ run[c] = "idle" /\ (lockFile = NoLock \/ stale)
    /\ run' = [run EXCEPT ![c] = "taking"]
    /\ lockFile' = NoLock /\ stale' = FALSE
    /\ UNCHANGED <<report, seen>>

(* The lock is held: the run writes the status it has read, and leaves.    *)
Locked(c) ==
    /\ run[c] = "idle" /\ lockFile # NoLock /\ ~stale
    /\ report' = [report EXCEPT !.lockStatus = "locked"]
    /\ UNCHANGED <<lockFile, stale, run, seen>>

(* acquireLock, its write; the status is read.                             *)
Take(c) ==
    /\ run[c] = "taking"
    /\ run' = [run EXCEPT ![c] = "collecting"]
    /\ lockFile' = c /\ stale' = FALSE
    /\ seen' = [seen EXCEPT ![c] = report]
    /\ UNCHANGED report

(* Mutant: the counters go on from the last run's.                         *)
Collected_NoReset(s, ok) ==
    [s EXCEPT !.sourcesTotal = Sources, !.sourcesOk = ok,
              !.sourcesFailed = s.sourcesFailed + (Sources - ok)]

Collected(s, ok) ==
    [s EXCEPT !.sourcesTotal = Sources, !.sourcesOk = ok, !.sourcesFailed = Sources - ok]

(* The rest of runOnce, with or without an error before the counters are   *)
(* set; the lock is removed whoever it belongs to.                         *)
Finish(c) ==
    /\ run[c] = "collecting"
    /\ \/ \E ok \in {0, Sources - 1, Sources} :
             report' = [Collected(seen[c], ok) EXCEPT !.lockStatus = "idle"]
       \/ report' = [seen[c] EXCEPT !.lockStatus = "idle"]
    /\ run' = [run EXCEPT ![c] = "idle"]
    /\ seen' = [seen EXCEPT ![c] = NoStatus]
    /\ lockFile' = NoLock /\ stale' = FALSE

Killed(c) ==
    /\ run[c] # "idle"
    /\ run' = [run EXCEPT ![c] = "idle"]
    /\ seen' = [seen EXCEPT ![c] = NoStatus]
    /\ UNCHANGED <<lockFile, stale, report>>

(* Mutant: a lock never gets old.                                          *)
MayAge_Never == FALSE

MayAge == lockFile # NoLock /\ ~stale

Ages ==
    /\ MayAge
    /\ stale' = TRUE
    /\ UNCHANGED <<lockFile, report, run, seen>>

Progress(c) == Take(c) \/ Finish(c)

Next == Ages \/ \E c \in Collectors : Look(c) \/ Locked(c) \/ Progress(c) \/ Killed(c)

(* The timer starts runs, a run goes on (systemd ends it after 30 s),      *)
(* locks get older.                                                        *)
Spec ==
    /\ Init /\ [][Next]_vars
    /\ WF_vars(Ages) /\ SF_vars(Look(Timer))
    /\ \A c \in Collectors : WF_vars(Progress(c))

-----------------------------------------------------------------------------
(* Properties.                                                             *)

(* Every source is counted once in the status, as ok or as failed, also    *)
(* when runs overlap, fail, or are killed and the next one starts from the *)
(* status of an older one.                                                 *)
SourcesAddUp == report.sourcesOk + report.sourcesFailed = report.sourcesTotal

(* A lock left behind by a run that was killed does not stop the           *)
(* collection: some run gets past it.                                      *)
DeadLockGoes ==
    \A c \in Collectors : []<>(lockFile # c \/ run[c] # "idle")

=============================================================================
