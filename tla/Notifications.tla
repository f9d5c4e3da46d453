--------------------------- MODULE Notifications ---------------------------
(***************************************************************************)
(* The notification queue: emit puts one row per channel in the table,      *)
(* unique by deduplication key and channel; the worker's timer starts a    *)
(* dispatch every 30 seconds, whether or not the last one has returned;    *)
(* another process (the API) emits and resolves on the same database.      *)
(*                                                                         *)
(* A dispatch reads the queued rows once, newest first, and works through  *)
(* what it read.  JavaScript runs to the next real wait: a dispatch that   *)
(* is at "run" keeps the worker's thread, and gives it up only while a     *)
(* provider answers.  The other process may act between any two steps.     *)
(***************************************************************************)
EXTENDS NotificationRules

CONSTANTS
    Keys,           \* deduplication keys
    Expiring,       \* the keys whose notices carry an expiry
    Dispatches,     \* dispatchQueued calls that may overlap
    MaxAttempts,    \* max_attempts (3 unless configured)
    BatchLimit,     \* LIMIT of the read (100 in the code)
    Inputs,         \* key -> what emit is called with under it: severity, family
                    \* (a key begins with the type) and the preferences in force
    MaxRestarts     \* bound on crashes of the worker

ASSUME NotificationsAssumption ==
    /\ MaxAttempts \in Nat \ {0} /\ BatchLimit \in Nat \ {0}
    /\ MaxRestarts \in Nat /\ Expiring \subseteq Keys
    /\ IsFiniteSet(Keys) /\ IsFiniteSet(Dispatches)
    /\ \A k \in Keys : Inputs[k] \subseteq
          [severity : Severities, family : Families, prefs : Preference]

Rows     == Keys \X Channels
Statuses == {"none", "queued", "sending", "sent", "failed", "expired", "resolved"}
Final    == {"sent", "failed", "expired", "resolved"}

VARIABLES
    status,     \* row -> its status, "none" when there is no row
    attempts,   \* row -> attempts of the row
    born,       \* row -> created_at, as a count of inserts
    lapsed,     \* the keys whose expires_at has passed
    pc,         \* dispatch -> "idle", "run" or "wait" (for a provider)
    batch,      \* dispatch -> the rows it read and has not finished
    seen,       \* dispatch -> the attempts it read with them, 0 when not in hand
    current,    \* dispatch -> the row a provider is being asked about
    acked,      \* row -> sends a provider acknowledged (history)
    shared,     \* rows that two dispatches had in hand at once (history)
    orphans,    \* rows that a crash left 'sending' (history)
    restarts

table == <<status, attempts, born>>
vars == <<status, attempts, born, lapsed, pc, batch, seen, current, acked, shared,
          orphans, restarts>>

NoRow == <<"no", "row">>

Init ==
    /\ status = [r \in Rows |-> "none"]
    /\ attempts = [r \in Rows |-> 0]
    /\ born = [r \in Rows |-> 0]
    /\ lapsed = {}
    /\ pc = [d \in Dispatches |-> "idle"]
    /\ batch = [d \in Dispatches |-> {}]
    /\ seen = [d \in Dispatches |-> [r \in Rows |-> 0]]
    /\ current = [d \in Dispatches |-> NoRow]
    /\ acked = [r \in Rows |-> 0]
    /\ shared = {} /\ orphans = {} /\ restarts = 0

-----------------------------------------------------------------------------
(* Emit and resolve, in the server's or the worker's process.              *)

(* Mutant: an upsert, that opens a row that failed or expired again.       *)
Inserted_Upsert(rs) == rs

(* createNotification: the UNIQUE constraint turns an insert of a pair that *)
(* exists into a read of the old row.                                      *)
Inserted(rs) == {r \in rs : status[r] = "none"}

(* The rows emit asks for: the channels of the recipient, less those that  *)
(* quiet hours hold back, less those with a row that has not failed or     *)
(* expired.                                                                *)
Wanted(k, input, quiet) ==
    {r \in {k} \X RecipientChannels(input.severity, input.family, input.prefs) :
        /\ ~Suppressed(input.severity, quiet, r[2])
        /\ status[r] \in {"none", "failed", "expired"}}

Emit(k) ==
    \E input \in Inputs[k], quiet \in BOOLEAN :
        LET new == Inserted(Wanted(k, input, quiet))
        IN  /\ new # {}
            /\ status' = [r \in Rows |-> IF r \in new THEN "queued" ELSE status[r]]
            /\ attempts' = [r \in Rows |-> IF r \in new THEN 0 ELSE attempts[r]]
            /\ born' = [r \in Rows |->
                  IF r \in new THEN 1 + Cardinality({q \in Rows : status[q] # "none"})
                               ELSE born[r]]
            /\ UNCHANGED <<lapsed, pc, batch, seen, current, acked, shared, orphans,
                           restarts>>

(* markResolvedByDedup.                                                    *)
Resolve(k) ==
    /\ \E r \in Rows : r[1] = k /\ status[r] \in {"queued", "sending"}
    /\ status' = [r \in Rows |->
          IF r[1] = k /\ status[r] \in {"queued", "sending"} THEN "resolved" ELSE status[r]]
    /\ UNCHANGED <<attempts, born, lapsed, pc, batch, seen, current, acked, shared,
                   orphans, restarts>>

Lapse(k) ==
    /\ k \in Expiring \ lapsed
    /\ lapsed' = lapsed \union {k}
    /\ UNCHANGED <<table, pc, batch, seen, current, acked, shared, orphans, restarts>>

-----------------------------------------------------------------------------
(* The worker.                                                             *)

ThreadFree(d) == \A e \in Dispatches \ {d} : pc[e] # "run"

Queued == {r \in Rows : status[r] = "queued"}

(* ORDER BY created_at DESC LIMIT: a newest part of the queued rows.       *)
Readable(rs) ==
    /\ rs \subseteq Queued
    /\ Cardinality(rs) = BatchLimit \/ (Cardinality(rs) < BatchLimit /\ rs = Queued)
    /\ \A r \in rs, q \in Queued \ rs : born[r] >= born[q]

(* The timer fires and list() answers with at least one row.               *)
Start(d) ==
    /\ pc[d] = "idle" /\ ThreadFree(d)
    /\ \E rs \in SUBSET Queued \ {{}} :
          /\ Readable(rs)
          /\ batch' = [batch EXCEPT ![d] = rs]
          /\ seen' = [seen EXCEPT ![d] = [r \in Rows |-> IF r \in rs THEN attempts[r] ELSE 0]]
          /\ shared' = shared \union {r \in rs : \E e \in Dispatches \ {d} : r \in batch[e]}
    /\ pc' = [pc EXCEPT ![d] = "run"]
    /\ UNCHANGED <<table, lapsed, current, acked, orphans, restarts>>

(* The next row of the loop: a newest of what is left.                     *)
Upcoming(d) == {r \in batch[d] : \A q \in batch[d] : born[q] <= born[r]}

(* Row r is done with: the loop goes on, or the dispatch returns.          *)
Done(d, r) ==
    /\ batch' = [batch EXCEPT ![d] = @ \ {r}]
    /\ seen' = [seen EXCEPT ![d][r] = 0]
    /\ pc' = [pc EXCEPT ![d] = IF batch[d] = {r} THEN "idle" ELSE "run"]

Expired(r) == r[1] \in Expiring /\ r[1] \in lapsed

(* A row that has expired, or one that was read with all attempts used.    *)
Drop(d) ==
    /\ pc[d] = "run"
    /\ \E r \in Upcoming(d) :
          /\ \/ /\ Expired(r)
                /\ status' = [status EXCEPT ![r] = "expired"]
             \/ /\ ~Expired(r) /\ seen[d][r] >= MaxAttempts
                /\ status' = [status EXCEPT ![r] = "failed"]
          /\ Done(d, r)
    /\ UNCHANGED <<attempts, born, lapsed, current, acked, shared, orphans, restarts>>

(* Mutant: one attempt too many.                                           *)
Sendable_OffByOne(d, r) == ~Expired(r) /\ seen[d][r] <= MaxAttempts

Sendable(d, r) == ~Expired(r) /\ seen[d][r] < MaxAttempts

(* dispatch on an internal channel: the adapter answers without a wait.    *)
SendInternally(d) ==
    /\ pc[d] = "run"
    /\ \E r \in Upcoming(d) :
          /\ Sendable(d, r) /\ r[2] \in Internal
          /\ status' = [status EXCEPT ![r] = "sent"]
          /\ attempts' = [attempts EXCEPT ![r] = @ + 1]
          /\ acked' = [acked EXCEPT ![r] = @ + 1]
          /\ Done(d, r)
    /\ UNCHANGED <<born, lapsed, current, shared, orphans, restarts>>

(* Mutant: incrementAttempts is left out.                                  *)
Send_Uncounted(d) ==
    /\ pc[d] = "run"
    /\ \E r \in Upcoming(d) :
          /\ Sendable(d, r) /\ r[2] \notin Internal
          /\ status' = [status EXCEPT ![r] = "sending"]
          /\ current' = [current EXCEPT ![d] = r]
    /\ pc' = [pc EXCEPT ![d] = "wait"]
    /\ UNCHANGED <<attempts, born, lapsed, batch, seen, acked, shared, orphans, restarts>>

(* dispatch up to the await of the adapter.                                *)
Send(d) ==
    /\ pc[d] = "run"
    /\ \E r \in Upcoming(d) :
          /\ Sendable(d, r) /\ r[2] \notin Internal
          /\ status' = [status EXCEPT ![r] = "sending"]
          /\ attempts' = [attempts EXCEPT ![r] = @ + 1]
          /\ current' = [current EXCEPT ![d] = r]
    /\ pc' = [pc EXCEPT ![d] = "wait"]
    /\ UNCHANGED <<born, lapsed, batch, seen, acked, shared, orphans, restarts>>

(* Mutants: a fatal failure is not written; all that has not failed goes    *)
(* back to the queue.                                                      *)
NextStatus_FatalUnwritten(outcome) ==
    CASE outcome = "ok" -> "sent" [] outcome = "again" -> "queued" [] OTHER -> "sending"
NextStatus_OkQueued(outcome) == IF outcome = "fatal" THEN "failed" ELSE "queued"

(* The rest of dispatch and of the loop's body.  A failure to be tried     *)
(* again puts the row back in the queue, whoever has changed it since.     *)
NextStatus(outcome) ==
    CASE outcome = "ok" -> "sent" [] outcome = "again" -> "queued" [] OTHER -> "failed"

Answer(d) ==
    /\ pc[d] = "wait" /\ ThreadFree(d)
    /\ \E answer \in Answers :
          LET r == current[d]
              o == Outcome(r[2], answer)
          IN  /\ status' = [status EXCEPT ![r] = NextStatus(o)]
              /\ acked' = IF o = "ok" THEN [acked EXCEPT ![r] = @ + 1] ELSE acked
              /\ Done(d, r)
    /\ current' = [current EXCEPT ![d] = NoRow]
    /\ UNCHANGED <<attempts, born, lapsed, shared, orphans, restarts>>

(* The worker dies, or is told to stop and exits after its two seconds, and *)
(* starts again: nothing looks at the rows that were being sent.           *)
Restart ==
    /\ restarts < MaxRestarts
    /\ restarts' = restarts + 1
    /\ orphans' = orphans \union {r \in Rows : status[r] = "sending"}
    /\ pc' = [d \in Dispatches |-> "idle"]
    /\ batch' = [d \in Dispatches |-> {}]
    /\ current' = [d \in Dispatches |-> NoRow]
    /\ seen' = [d \in Dispatches |-> [r \in Rows |-> 0]]
    /\ UNCHANGED <<table, lapsed, acked, shared>>

Step(d) == Drop(d) \/ SendInternally(d) \/ Send(d)

Next ==
    \/ \E k \in Keys : Emit(k) \/ Resolve(k) \/ Lapse(k)
    \/ \E d \in Dispatches : Start(d) \/ Step(d) \/ Answer(d)
    \/ Restart

(* The timer fires again, the thread goes on, and a provider answers or    *)
(* its timeout does.                                                       *)
Spec ==
    /\ Init /\ [][Next]_vars
    /\ \A d \in Dispatches :
          WF_vars(Start(d)) /\ WF_vars(Step(d)) /\ WF_vars(Answer(d))
=============================================================================
