----------------------------- MODULE ScheduleRoutes -----------------------------
(***************************************************************************)
(* schedule-api.ts: the schedules behind the routes, one JSON file that    *)
(* every operation reads as a whole and saves as a whole, in one turn of   *)
(* the event loop.  The file is written in place: a server that dies in    *)
(* the middle leaves one that cannot be parsed, which reads as empty.      *)
(*                                                                         *)
(* The scheduler engine has a store of its own: it sees none of this.      *)
(***************************************************************************)
EXTENDS Naturals, FiniteSets, Sequences

CONSTANTS
    MaxSchedules,   \* MAX_SCHEDULES
    MaxRows,        \* bound on the rows of the file, deleted ones included
    MaxRuns         \* bound on the rows of the history

VARIABLES
    rows,       \* the schedules in the order they were created
    torn,       \* the file cannot be parsed
    history,    \* the rows of the history file, by schedule
    halved      \* rows a patch gave a type or an expression alone (history)

vars == <<rows, torn, history, halved>>

(* A patch may set any status; the expression by its number of fields.     *)
Statuses == {"active", "paused", "deleted", "anything"}
Timings == {"interval", "cron"}
Fields == {"five or six", "another number"}
Row == [status : Statuses, type : Timings, fields : Fields]
Keep == "undefined"
Patch == [status : Statuses \union {Keep}, type : Timings \union {Keep}, fields : Fields \union {Keep}]

Init == rows = <<>> /\ torn = FALSE /\ history = <<>> /\ halved = {}

-----------------------------------------------------------------------------
(* loadSchedules.                                                          *)
Loaded == IF torn THEN <<>> ELSE rows

(* Mutant: a patch may name a deleted schedule.                            *)
Found_Any(statuses) == DOMAIN Loaded

(* findIndex by id and status.                                             *)
Found(statuses) == {i \in DOMAIN Loaded : Loaded[i].status \in statuses}

Living(rs) == {i \in DOMAIN rs : rs[i].status # "deleted"}

(* saveSchedules: the server may die in it.                                *)
Saved(rs, half) ==
    /\ \/ rows' = rs /\ torn' = FALSE /\ halved' = half \intersect DOMAIN rs
       \/ rows' = <<>> /\ torn' = TRUE /\ halved' = {}
    /\ UNCHANGED history

(* What validateInput refuses, of what a body sends.                       *)
Refuses(type, fields) == type = "cron" /\ fields = "another number"

(* createSchedule, and its refusals.                                       *)
Create(type, fields) ==
    /\ ~Refuses(type, fields) /\ Cardinality(Living(Loaded)) < MaxSchedules
    /\ Len(Loaded) < MaxRows
    /\ Saved(Append(Loaded, [status |-> "active", type |-> type, fields |-> fields]),
             IF torn THEN {} ELSE halved)

CreateRefused(type, fields) ==
    /\ Refuses(type, fields) \/ Cardinality(Living(Loaded)) >= MaxSchedules
    /\ UNCHANGED vars

(* updateSchedule: the patch is laid over the row, whatever it names.      *)
Patched(row, patch) ==
    [f \in DOMAIN row |-> IF patch[f] = Keep THEN row[f] ELSE patch[f]]

Update(patch) ==
    /\ ~Refuses(patch.type, patch.fields)
    /\ \E i \in Found(Statuses \ {"deleted"}) :
          Saved([Loaded EXCEPT ![i] = Patched(@, patch)],
                CASE patch.type = Keep /\ patch.fields = Keep -> halved
                  [] patch.type # Keep /\ patch.fields # Keep -> halved \ {i}
                  [] OTHER -> halved \union {i})

(* deleteSchedule, pauseSchedule, resumeSchedule.                          *)
SetStatus(from, to) ==
    \E i \in Found(from) : Saved([Loaded EXCEPT ![i].status = to], halved)

Delete == SetStatus(Statuses \ {"deleted"}, "deleted")
Pause == SetStatus({"active"}, "paused")
Resume == SetStatus({"paused"}, "active")

(* runNow adds a row that says "running"; nothing runs it, nothing ends    *)
(* the row, and consecutive_failures stays 0.                              *)
RunNow ==
    /\ Len(history) < MaxRuns
    /\ \E i \in Found({"active"}) : history' = Append(history, i)
    /\ UNCHANGED <<rows, torn, halved>>

Next ==
    \/ \E type \in Timings, fields \in Fields : Create(type, fields) \/ CreateRefused(type, fields)
    \/ \E patch \in Patch : Update(patch)
    \/ Delete \/ Pause \/ Resume \/ RunNow

Spec == Init /\ [][Next]_vars

-----------------------------------------------------------------------------
(* There are never more schedules than the limit, which only create looks  *)
(* at: no pause, patch, resume or deletion brings one back above it.       *)
LimitHolds == Cardinality(Living(rows)) <= MaxSchedules

(* A cron schedule whose expression is not one was made so by a patch that *)
(* sent the type or the expression alone.                                  *)
BadCronByHalfPatch ==
    \A i \in DOMAIN rows :
        rows[i].type = "cron" /\ rows[i].fields # "five or six" => i \in halved

(* What a sequence of patches, pauses and deletions cannot make of the     *)
(* file: too many schedules, or a cron schedule that is none in any other  *)
(* way than by half a patch.                                               *)
RowsSound == LimitHolds /\ BadCronByHalfPatch
=============================================================================
