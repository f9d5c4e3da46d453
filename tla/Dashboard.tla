------------------------------- MODULE Dashboard -------------------------------
(***************************************************************************)
(* The operations dashboard: collectDashboardData reads one section after  *)
(* the other while the system goes on (opencode-dashboard-data.ts), and    *)
(* the server keeps what it collected for a while (dashboard/server.ts).   *)
(* The collection is synchronous: no other request is answered before it   *)
(* ends.  What runs pgrep or curl with `|| true' never sees them fail.     *)
(* Update, SLO, learning and token sections never change the overall       *)
(* status and are left out.                                                *)
(***************************************************************************)
EXTENDS Integers, Sequences

CONSTANTS
    TTL,            \* DASHBOARD_CACHE_TTL
    MaxTime,        \* bound on the clock
    MaxChanges      \* bound on the changes of the system

(* The sections the overall status is made of, in the order they are read. *)
Order == <<"agents", "commands", "skills", "mcp", "akm", "recovery", "ci", "system">>
Sections == {Order[i] : i \in DOMAIN Order}

(* What there is to see: whether the contract can be read and the files it *)
(* names are there, a skill it does not name whose directory is empty, and *)
(* the rest of the system.                                                 *)
Facts ==
    [contract |-> BOOLEAN, agent |-> BOOLEAN, command |-> BOOLEAN, skill |-> BOOLEAN,
     loose |-> BOOLEAN, mcp |-> {"enabled", "disabled", "none"}, akm |-> BOOLEAN,
     recovery |-> {<<>>} \union [1..2 -> {"HEALTHY", "COOLDOWN", "ESCALATION_REQUIRED"}],
     services |-> [1..2 -> {"active", "inactive", "failed"}], dirty |-> BOOLEAN]

VARIABLES
    world,      \* fact -> value
    changes,
    now,
    reading,    \* how many sections are read, or 0 when nothing is collected
    got,        \* what they said: section -> status
    alerts,     \* the alerts that follow
    began,      \* when the collection began
    lasting,    \* sections that have failed ever since (history)
    cache,      \* the last data
    age         \* how old what the last answer told may be (history)

vars == <<world, changes, now, reading, got, alerts, began, lasting, cache, age>>

NoCache == [there |-> FALSE]

-----------------------------------------------------------------------------
(* Statuses.                                                               *)

(* mergeStatus; of no statuses at all it makes "not_run".                  *)
Merged(statuses) ==
    CASE "failed" \in statuses -> "failed"
      [] "failed" \notin statuses /\ "degraded" \in statuses -> "degraded"
      [] statuses \subseteq {"not_run"} -> "not_run"
      [] OTHER -> "healthy"

File(there) == IF there THEN "healthy" ELSE "failed"
Named(w, fact) == IF w.contract THEN {File(w[fact])} ELSE {}
When(condition, status) == IF condition THEN {status} ELSE {}

(* Without the contract every file that is there is one it does not name.  *)
Agents(w) == Merged(Named(w, "agent")
                    \union When(~w.contract /\ w.agent, "healthy"))

Commands(w) == Merged(Named(w, "command"))

Skills(w) == Merged(Named(w, "skill")
                    \union When(~w.contract /\ w.skill, "healthy")
                    \union When(w.loose, "degraded"))

MCP(w) == Merged(When(w.mcp = "enabled", "healthy") \union When(w.mcp = "disabled", "not_run"))

AKM(w) == IF w.akm THEN "healthy" ELSE "degraded"

GivenUp == {"ESCALATION_REQUIRED", "RECOVERY_FAILED"}

(* Mutant: the last component that is not healthy decides.                 *)
Worse_Last(state, worst) ==
    IF state \in GivenUp THEN "failed" ELSE IF state # "HEALTHY" THEN "degraded" ELSE worst

Worse(state, worst) ==
    IF state \in GivenUp THEN "failed"
    ELSE IF state # "HEALTHY" /\ worst # "failed" THEN "degraded" ELSE worst

(* The loop over the components, of which there are two here.              *)
Recovery(w) ==
    IF w.recovery = <<>> THEN "not_run"
    ELSE Worse(w.recovery[2], Worse(w.recovery[1], "healthy"))

Service(state) ==
    CASE state = "active" -> "healthy" [] state = "inactive" -> "not_run" [] OTHER -> "failed"

System(w) == Merged({Service(w.services[i]) : i \in 1..2})

Status(section, w) ==
    CASE section = "agents" -> Agents(w) [] section = "commands" -> Commands(w)
      [] section = "skills" -> Skills(w) [] section = "mcp" -> MCP(w)
      [] section = "akm" -> AKM(w) [] section = "recovery" -> Recovery(w)
      [] section = "system" -> System(w) [] section = "ci" -> "healthy"

Failing(w) == {s \in Sections : Status(s, w) = "failed"}

(* collectAlerts; acknowledging and the times are left out.                *)
Alerts(section, w) ==
    CASE section = "recovery" -> When(\E i \in DOMAIN w.recovery : w.recovery[i] \in GivenUp, "recovery")
      [] section = "system" -> When(System(w) = "failed", "system-degraded")
      [] section = "ci" -> When(w.dirty, "git-dirty")
      [] OTHER -> {}

Overall(statuses) == Merged({statuses[s] : s \in Sections \ {"ci"}})

-----------------------------------------------------------------------------
AllWell ==
    [contract |-> TRUE, agent |-> TRUE, command |-> TRUE, skill |-> TRUE,
     loose |-> FALSE, mcp |-> "enabled", akm |-> TRUE, recovery |-> <<"HEALTHY", "HEALTHY">>,
     services |-> <<"active", "active">>, dirty |-> FALSE]

Unread == [s \in Sections |-> "not_run"]

Init ==
    /\ world = AllWell /\ changes = 0 /\ now = 0
    /\ reading = 0 /\ got = Unread /\ alerts = {} /\ began = 0 /\ lasting = {}
    /\ cache = NoCache /\ age = 0

Change ==
    /\ changes < MaxChanges /\ changes' = changes + 1
    /\ \E fact \in DOMAIN Facts : \E value \in Facts[fact] \ {world[fact]} :
           world' = [world EXCEPT ![fact] = value]
    /\ lasting' = lasting \intersect Failing(world')
    /\ UNCHANGED <<now, reading, got, alerts, began, cache, age>>

Tick ==
    /\ now < MaxTime /\ now' = now + 1
    /\ UNCHANGED <<world, changes, reading, got, alerts, began, lasting, cache, age>>

Live == cache.there /\ now - cache.ts < TTL

(* A request finds the cache, or the collection begins for it.             *)
Serve ==
    /\ reading = 0 /\ Live /\ age' = now - cache.began
    /\ UNCHANGED <<world, changes, now, reading, got, alerts, began, lasting, cache>>

Read(n) ==
    /\ got' = [got EXCEPT ![Order[n]] = Status(Order[n], world)]
    /\ alerts' = alerts \union Alerts(Order[n], world)
    /\ reading' = n
    /\ UNCHANGED <<world, changes, now, cache, age>>

Begin == reading = 0 /\ ~Live /\ Read(1) /\ began' = now /\ lasting' = Failing(world)

Collect == reading \in 1..(Len(Order) - 1) /\ Read(reading + 1) /\ UNCHANGED <<began, lasting>>

(* getCachedData takes the time before it collects.                        *)
Stamp == began

Answer ==
    /\ reading = Len(Order) /\ reading' = 0
    /\ cache' = [there |-> TRUE, ts |-> Stamp, began |-> began, overall |-> Overall(got),
                 alerts |-> alerts, lasting |-> lasting]
    /\ got' = Unread /\ alerts' = {} /\ began' = 0 /\ lasting' = {} /\ age' = 0
    /\ UNCHANGED <<world, changes, now>>

InvalidateCache ==
    /\ reading = 0 /\ cache' = NoCache
    /\ UNCHANGED <<world, changes, now, reading, got, alerts, began, lasting, age>>

Next == Change \/ Tick \/ Serve \/ Begin \/ Collect \/ Answer \/ InvalidateCache

Spec == Init /\ [][Next]_vars

-----------------------------------------------------------------------------
(* Properties.                                                             *)

(* The alerts and the overall status are made of the same readings: an     *)
(* alert about more than uncommitted changes never stands beside an        *)
(* overall status that is not failed, whatever changed meanwhile and       *)
(* whatever the order of the components in the recovery state.             *)
AlertsImplyFailed ==
    cache.there /\ cache.alerts \ {"git-dirty"} # {} => cache.overall = "failed"

(* What fails from the beginning of the collection to its end is told.     *)
LastingFailureTold ==
    cache.there /\ cache.lasting # {} => cache.overall = "failed"

(* Nothing the server tells from its cache was read longer ago than the    *)
(* TTL, however long the collection took; its flag of stale data, which    *)
(* asks for twice the TTL, is never raised.                                *)
ServedFresh == age < TTL

(* What the dashboard serves is true of one moment not long ago: alerts,   *)
(* overall status and age agree.                                           *)
DashboardTells == AlertsImplyFailed /\ LastingFailureTold /\ ServedFresh
=============================================================================
