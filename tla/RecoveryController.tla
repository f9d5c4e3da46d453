------------------------- MODULE RecoveryController -------------------------
(***************************************************************************)
(* The recovery controller: a command that checks the components, counts   *)
(* failures in a state file, restarts what has failed often enough, and    *)
(* gives up after a few attempts.                                          *)
(*                                                                         *)
(* A run looks at its components one after the other.  Evaluating one that *)
(* has failed reads the whole state file and writes it back; a restart and *)
(* its tests lie between the two and take up to minutes, in which the run  *)
(* may die and an operator may reset the file.  Runs do not overlap (the   *)
(* timer starts a oneshot service).                                        *)
(***************************************************************************)
EXTENDS Integers, FiniteSets

CONSTANTS
    Components,     \* COMPONENTS
    Restartable,    \* those with a systemd service of their own
    MaxUpsets       \* bound on crashes, reboots and --reset-state together

WARNING_AFTER == 2
RECOVERY_AFTER == 3
ESCALATE_AFTER == 3
MAX_RECOVERY_ATTEMPTS == 3

NoComponent == "none"

ASSUME RecoveryAssumption ==
    /\ Restartable \subseteq Components /\ NoComponent \notin Components
    /\ MaxUpsets \in Nat

VARIABLES
    health,     \* component -> the failure class a check finds
    file,       \* component -> its entry of the state file
    cooling,    \* the components whose cooldown_until lies ahead
    todo,       \* the components the run has still to look at
    dry,        \* the run is a --dry-run
    acting,     \* the component being restarted, or NoComponent
    loaded,     \* the state file as that run read it
    restarts,   \* component -> recoveries since the last reset (history)
    faults, resets

vars == <<health, file, cooling, todo, dry, acting, loaded, restarts, faults, resets>>

States == {"HEALTHY", "DEGRADED", "FAILURE_SUSPECTED", "RECOVERY_PENDING", "RECOVERED",
           "RECOVERY_FAILED", "COOLDOWN", "ESCALATION_REQUIRED"}

(* consecutive_failures is compared with thresholds only: it stops at the  *)
(* highest.                                                                *)
Entry == [state : States, failures : 0..RECOVERY_AFTER, attempts : Nat]
Fresh == [state |-> "HEALTHY", failures |-> 0, attempts |-> 0]

(* The health checks: of a service by its process and its answer to a      *)
(* request (class 3 or 2, which planRecovery treats alike), of the CLI by  *)
(* whether it runs and what it prints.                                     *)
ServiceClass(process, answer) == IF process /\ answer = "200" THEN 0 ELSE 3

CliClass(ran, printed) ==
    IF ~ran THEN 2 ELSE IF printed = "ok" THEN 0 ELSE 1

Classes(c) ==
    IF c \in Restartable
    THEN {ServiceClass(p, a) : p \in BOOLEAN, a \in {"none", "200", "other"}}
    ELSE {CliClass(r, p) : r \in BOOLEAN, p \in {"ok", "warn", "not ok", "nonsense"}}

(* planRecovery.                                                           *)
Plan(c, class) ==
    CASE class = 0        -> "nothing"
      [] class = 1        -> "fallback"
      [] c \in Restartable -> "restart_systemd"
      [] OTHER            -> "escalate"

Init ==
    /\ health = [c \in Components |-> 0]
    /\ file = [c \in Components |-> Fresh]
    /\ cooling = {} /\ todo = {} /\ dry = FALSE
    /\ acting = NoComponent /\ loaded = [c \in Components |-> Fresh]
    /\ restarts = [c \in Components |-> 0]
    /\ faults = 0 /\ resets = 0

-----------------------------------------------------------------------------
(* evaluateComponent.  The branches for a healthy component and for the    *)
(* classes 0 and 4 are left out: generateReport asks only about failures,  *)
(* and no check answers 4.                                                 *)
Failed(e) == [e EXCEPT !.failures = IF @ < RECOVERY_AFTER THEN @ + 1 ELSE @]

(* Mutant: the attempts are compared after the increment only.             *)
Limited_CooldownOnly(c) == c \in cooling

(* checkRateLimit: its window never says more than the attempts do.        *)
Limited(c) == file[c].attempts >= MAX_RECOVERY_ATTEMPTS \/ c \in cooling

MustAct(c) ==
    /\ Failed(file[c]).failures >= RECOVERY_AFTER
    /\ ~Limited(c) /\ ~dry /\ Plan(c, health[c]) # "escalate"

(* Mutant: the entry of a failure below the threshold keeps its count.     *)
Noted_Uncounted(c) ==
    [file[c] EXCEPT !.state = IF Limited(c) THEN "COOLDOWN" ELSE "DEGRADED"]

(* The entry a failed check leaves when nothing is restarted.              *)
Noted(c) ==
    LET e == Failed(file[c])
        s == CASE e.failures < WARNING_AFTER  -> "DEGRADED"
               [] e.failures < RECOVERY_AFTER -> "FAILURE_SUSPECTED"
               [] e.failures >= RECOVERY_AFTER /\ Limited(c) -> "COOLDOWN"
               [] e.failures >= RECOVERY_AFTER /\ ~Limited(c) /\ ~dry -> "ESCALATION_REQUIRED"
               [] OTHER -> "RECOVERY_PENDING"
    IN  [e EXCEPT !.state = s]

(* The entry after a recovery, by its functional tests.                    *)
Acted(e, passed) ==
    LET n == e.attempts + 1
    IN  [state |-> CASE passed -> "RECOVERED"
                     [] ~passed /\ n >= ESCALATE_AFTER -> "ESCALATION_REQUIRED"
                     [] OTHER -> "RECOVERY_FAILED",
         failures |-> IF passed THEN 0 ELSE Failed(e).failures,
         attempts |-> n]

-----------------------------------------------------------------------------
Idle == todo = {} /\ acting = NoComponent

Start(cs, d) ==
    /\ Idle
    /\ todo' = cs /\ dry' = d
    /\ UNCHANGED <<health, file, cooling, acting, loaded, restarts, faults, resets>>

TimerRun == Start(Components, FALSE)

(* --dry-run, and --recover with a component's name.                       *)
ManualRun ==
    \/ Start(Components, TRUE)
    \/ \E c \in Components : Start({c}, FALSE)

(* The components of a run are independent but for the file: any order.    *)
Skip ==
    /\ acting = NoComponent
    /\ \E c \in todo : health[c] = 0 /\ todo' = todo \ {c}
    /\ dry' = (dry /\ todo' # {})
    /\ UNCHANGED <<health, file, cooling, acting, loaded, restarts, faults,
                   resets>>

(* A dry run writes the file as well.                                      *)
Note ==
    /\ acting = NoComponent
    /\ \E c \in todo :
          /\ health[c] # 0 /\ ~MustAct(c)
          /\ file' = [file EXCEPT ![c] = Noted(c)]
          /\ todo' = todo \ {c}
    /\ dry' = (dry /\ todo' # {})
    /\ UNCHANGED <<health, cooling, acting, loaded, restarts, faults, resets>>

(* systemctl restart, or the CLI's fallback: the component may come back.  *)
Act ==
    /\ acting = NoComponent
    /\ \E c \in todo :
          /\ health[c] # 0 /\ MustAct(c)
          /\ acting' = c /\ todo' = todo \ {c}
          /\ restarts' = [restarts EXCEPT ![c] = @ + 1]
          /\ \E h \in {0, health[c]} : health' = [health EXCEPT ![c] = h]
    /\ loaded' = file
    /\ UNCHANGED <<file, cooling, dry, faults, resets>>

(* runFunctionalTests and the write of what was read before the restart.   *)
Conclude ==
    /\ acting # NoComponent
    /\ \E passed \in BOOLEAN :
          /\ file' = [loaded EXCEPT ![acting] = Acted(@, passed)]
          /\ cooling' = IF passed THEN cooling \union {acting} ELSE cooling
    /\ acting' = NoComponent
    /\ loaded' = [c \in Components |-> Fresh]
    /\ UNCHANGED <<health, todo, dry, restarts, faults, resets>>

(* --reset-state, from another process: cooldown_until is not touched.     *)
Reset ==
    /\ faults + resets < MaxUpsets /\ resets' = resets + 1
    /\ file' = [c \in Components |-> Fresh]
    /\ restarts' = [c \in Components |-> 0]
    /\ UNCHANGED <<health, cooling, todo, dry, acting, loaded, faults>>

(* The run is killed; a reboot also takes the file, which is under /tmp.   *)
Crash ==
    /\ faults + resets < MaxUpsets /\ faults' = faults + 1
    /\ todo' = {} /\ acting' = NoComponent
    /\ loaded' = [c \in Components |-> Fresh]
    /\ \/ UNCHANGED <<file, cooling, restarts>>
       \/ /\ file' = [c \in Components |-> Fresh]
          /\ cooling' = {}
          /\ restarts' = [c \in Components |-> 0]
    /\ dry' = FALSE
    /\ UNCHANGED <<health, resets>>

CoolingEnds(c) ==
    /\ c \in cooling
    /\ cooling' = cooling \ {c}
    /\ UNCHANGED <<health, file, todo, dry, acting, loaded, restarts, faults, resets>>

(* A component fails, gets worse, or comes back by itself.                 *)
HealthChanges(c) ==
    /\ \E h \in Classes(c) \ {health[c]} : health' = [health EXCEPT ![c] = h]
    /\ UNCHANGED <<file, cooling, todo, dry, acting, loaded, restarts, faults, resets>>

Run == Skip \/ Note \/ Act \/ Conclude

Next ==
    \/ TimerRun \/ ManualRun \/ Run \/ Reset \/ Crash
    \/ \E c \in Components : CoolingEnds(c) \/ HealthChanges(c)

(* The timer fires, a run goes on (its commands have timeouts), time       *)
(* passes.                                                                 *)
Spec ==
    /\ Init /\ [][Next]_vars
    /\ SF_vars(TimerRun) /\ WF_vars(Run)
    /\ \A c \in Components : WF_vars(CoolingEnds(c))

-----------------------------------------------------------------------------
(* Properties.                                                             *)

(* Type invariant.                                                         *)
RecoveryTypeOK ==
    /\ health \in [Components -> 0..3]
    /\ file \in [Components -> Entry] /\ loaded \in [Components -> Entry]
    /\ cooling \subseteq Components /\ todo \subseteq Components
    /\ acting \in Components \union {NoComponent} /\ dry \in BOOLEAN
    /\ restarts \in [Components -> Nat]
    /\ faults \in Nat /\ resets \in Nat

(* Between two resets a component is recovered automatically at most       *)
(* MAX_RECOVERY_ATTEMPTS times, and once more for each time a run died     *)
(* between the restart and the write that counts it: no dry run, manual    *)
(* run, cooldown, or reset during a restart gets around the limit.         *)
RestartsBounded ==
    \A c \in Components : restarts[c] <= MAX_RECOVERY_ATTEMPTS + faults

(* The name of the state agrees with the counters it was chosen by: what   *)
(* the update controller's gates and the dashboard read is not a state     *)
(* left over from before a reset or a restart.                             *)
StateMatchesCounters ==
    \A c \in Components :
        /\ file[c].state \in {"HEALTHY", "RECOVERED"} <=> file[c].failures = 0
        /\ file[c].state = "DEGRADED" => file[c].failures < WARNING_AFTER
        /\ file[c].state \in {"RECOVERED", "RECOVERY_FAILED"} => file[c].attempts > 0
        /\ file[c].state \in {"COOLDOWN", "ESCALATION_REQUIRED", "RECOVERY_PENDING"}
              => file[c].failures = RECOVERY_AFTER

(* What the counters in the state file promise, through runs that died and *)
(* runs by hand: a limit on restarts, and a state that fits them.          *)
CountersTell == RestartsBounded /\ StateMatchesCounters

(* The controller gives up on a service that stays down: its attempts are  *)
(* used up in the end and it is left alone, whatever its tests said.       *)
GivesUp ==
    \A c \in Restartable :
        <>[](health[c] # 0) => <>[](file[c].attempts >= MAX_RECOVERY_ATTEMPTS)
=============================================================================
