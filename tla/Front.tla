-------------------------------- MODULE Front --------------------------------
(***************************************************************************)
(* The parts around the task queue that only safety is asked of: confirmed *)
(* writes and agent runs of the AKM server; the checks of requests, the    *)
(* streams, the schedule routes and the token budgets of the remote        *)
(* control server, and the search for the next run; the panel in the       *)
(* browser; the dashboard, the error budgets and the performance baseline; *)
(* the installation of an environment.  They share no state, so that a     *)
(* behaviour picks one of them and the others stand still.                 *)
(***************************************************************************)
EXTENDS Integers, ConfirmedWrites, AkmPanel

CONSTANTS
    Runs, MaxAgentRuns, Flags, MaxFeedback,
    CsrfTokens, TTL, Window, MaxRequests, MaxSeen, MaxTime,
    Tasks, Connections,
    MaxSchedules, MaxRows, MaxRuns,
    HourMinutes, DayHours, MonthDays, Months, WeekDays, Spring, Autumn, Horizon, Bases,
    Expressions,
    Kind,           \* of the files an environment consists of
    CacheTTL, MaxClock, MaxChanges, Limit, BudgetPercent,
    Component, Measured, Medians, Regression,
    DayTicks, DaysOfWeek, Hosts, Daily, Weekly, Estimate, MaxUse, Slots, BudgetHorizon, MaxLives

VARIABLES part,
    server, started, log, reported,
    now, configured, issued, signed, seen, entry, passed, served, reboots,
    clients, alive, got,
    rows, torn, history, halved,
    disk, manifest, mode, stage, installed, created, gap,
    expression, host, zone, base, check, state,
    world, changes, clock, reading, read_, alerts, began, lasting, cache, age,
    indicator, passed_, failed,
    options, baseline, benchmarked, named, good, lost,
    offset, hours, counters, busy, today, week, lives

A == INSTANCE AgentRuns
R == INSTANCE RequestPipeline
     WITH Tokens <- CsrfTokens, restarts <- reboots
S == INSTANCE TaskStreams
F == INSTANCE ScheduleRoutes
B == INSTANCE Bootstrap WITH Files <- DOMAIN Kind
C == INSTANCE CronSearch
D == INSTANCE Dashboard WITH TTL <- CacheTTL, MaxTime <- MaxClock, now <- clock, got <- read_
E == INSTANCE ErrorBudgets WITH passed <- passed_
L == INSTANCE Baseline WITH Benchmarks <- DOMAIN Component, Limit <- Regression,
                            results <- benchmarked, flags <- options
T == INSTANCE ProjectBudgets WITH Horizon <- BudgetHorizon, host <- offset, now <- hours,
                                  state <- counters

ASSUME FrontAssumption ==
    /\ MaxAgentRuns \in Nat \ {0} /\ {TTL, Window} \subseteq Nat \ {0}
    /\ \A l \in R!Limiters : MaxRequests[l] \in Nat \ {0}
    /\ MaxSchedules \in Nat
    /\ {HourMinutes, DayHours, MonthDays, Months, WeekDays} \subseteq Nat \ {0}
    /\ Bases \subseteq Int /\ {Spring, Autumn} \subseteq Int /\ Spring + HourMinutes <= Autumn
    /\ Spring % HourMinutes = 0 /\ Autumn % HourMinutes = 0
    /\ CacheTTL \in Nat \ {0}
    /\ Medians \subseteq Nat /\ Regression \in Nat
    /\ {DayTicks, DaysOfWeek} \subseteq Nat \ {0} /\ {Estimate, MaxUse, Slots} \subseteq Nat
    /\ \A k \in T!Kinds : /\ {Daily[k], Weekly[k]} \subseteq Nat
                          /\ {T!AtMost(Daily[k]), T!AtMost(Weekly[k])} \subseteq Nat
    /\ Hosts \subseteq Int
    /\ IsFiniteSet(DOMAIN Kind) /\ B!NoManifest[1] \notin DOMAIN Kind
    /\ \A f \in DOMAIN Kind : Kind[f] \in B!Kinds

avars == <<server, started, log, reported>>
pvars == <<now, configured, issued, signed, seen, entry, passed, served, reboots>>
svars == <<clients, alive, got>>
fvars == <<rows, torn, history, halved>>
bvars == <<disk, manifest, mode, stage, installed, created, gap>>
cvars == <<expression, host, zone, base, check, state>>
dvars == <<world, changes, clock, reading, read_, alerts, began, lasting, cache, age>>
evars == <<indicator, passed_, failed>>
lvars == <<options, baseline, benchmarked, named, good, lost>>
tvars == <<offset, hours, counters, busy, today, week, lives>>
ovars == <<dvars, evars, lvars, tvars>>
allvars == <<part, vars, avars, pvars, svars, fvars, bvars, panelvars, cvars, ovars>>

Views == {"search", "preview", "buttons", "refresh"}
Parts == {"writes", "runs", "requests", "streams", "routes", "bootstrap", "cron",
          "dashboard", "budgets", "baseline", "tokens"} \union Views

(* Only the part that is picked begins in more than one state.             *)
FrontInit ==
    /\ part \in Parts
    /\ Init /\ A!Init /\ R!Init /\ S!Init /\ F!Init
    /\ part # "runs" => server = "http"
    /\ part # "requests" => configured
    /\ B!Init /\ PanelInit
    /\ part # "bootstrap" => disk = [f \in DOMAIN Kind |-> "none"]
    /\ part # "search" => type = CHOOSE t \in Types : TRUE
    /\ D!Init /\ E!Init /\ L!Init /\ T!Init
    /\ part # "budgets" => indicator = "audit"
    /\ part # "tokens" => offset = 0
    /\ IF part = "cron" THEN C!Init
       ELSE /\ expression = [f \in C!Fields |-> {C!Any}]
            /\ host = "utc" /\ zone = "utc" /\ base = 0 /\ check = 0 /\ state = "parsing"

OperationsNext ==
    \/ part = "dashboard" /\ D!Next /\ UNCHANGED <<evars, lvars, tvars>>
    \/ part = "budgets" /\ E!Next /\ UNCHANGED <<dvars, lvars, tvars>>
    \/ part = "baseline" /\ L!Next /\ UNCHANGED <<dvars, evars, tvars>>
    \/ part = "tokens" /\ T!Next /\ UNCHANGED <<dvars, evars, lvars>>

(* The views of the panel share no state either.                           *)
ViewNext ==
    \/ part = "search" /\ SearchView
    \/ part = "preview" /\ PreviewPane
    \/ part = "buttons" /\ WriteButtons
    \/ part = "refresh" /\ RefreshButton

FrontNext ==
    /\ UNCHANGED part
    /\ \/ part = "writes" /\ Next /\ UNCHANGED <<avars, pvars, svars, fvars, bvars, panelvars, cvars, ovars>>
       \/ part = "runs" /\ A!Next /\ UNCHANGED <<vars, pvars, svars, fvars, bvars, panelvars, cvars, ovars>>
       \/ part = "requests" /\ R!Next /\ UNCHANGED <<vars, avars, svars, fvars, bvars, panelvars, cvars, ovars>>
       \/ part = "streams" /\ S!Next /\ UNCHANGED <<vars, avars, pvars, fvars, bvars, panelvars, cvars, ovars>>
       \/ part = "routes" /\ F!Next /\ UNCHANGED <<vars, avars, pvars, svars, bvars, panelvars, cvars, ovars>>
       \/ part = "bootstrap" /\ B!Next /\ UNCHANGED <<vars, avars, pvars, svars, fvars, panelvars, cvars, ovars>>
       \/ part = "cron" /\ C!Next /\ UNCHANGED <<vars, avars, pvars, svars, fvars, bvars, panelvars, ovars>>
       \/ ViewNext /\ UNCHANGED <<vars, avars, pvars, svars, fvars, bvars, cvars, ovars>>
       \/ OperationsNext /\ UNCHANGED <<vars, avars, pvars, svars, fvars, bvars, panelvars, cvars>>

FrontSpec == FrontInit /\ [][FrontNext]_allvars

RecordsTell == A!RecordsTell
LetThrough == R!LetThrough
SendReachesAll == S!SendReachesAll
RowsSound == F!RowsSound
ManifestAccounts == B!ManifestAccounts
NextIsNext == C!NextIsNext
DashboardTells == D!DashboardTells
JudgementsAgree == E!JudgementsAgree
RegressionsNamed == L!RegressionsNamed
SpendBounded == T!SpendBounded
WeekdaysOnly == C!WeekdaysOnly
=============================================================================
