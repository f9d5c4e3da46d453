---------------------------- MODULE RequestPipeline ----------------------------
(***************************************************************************)
(* What a write request of the remote control server passes before its     *)
(* handler acts (src/remote-control/server.ts, csrf-protection.ts): CSRF   *)
(* tokens, each good for one request, and a limit of writes per window.    *)
(*                                                                         *)
(* Time is a number of units; all checks of a request happen in one turn   *)
(* of the event loop.  A token carries the time it was made and a          *)
(* signature; nothing of it is stored until it is used.                    *)
(***************************************************************************)
EXTENDS Integers, Sequences, FiniteSets

CONSTANTS
    Tokens,         \* CSRF tokens, all different (random nonce)
    TTL,            \* TIMESTAMP_TTL_MS, in units of time
    Window,         \* RATE_LIMIT_WINDOW, TEST_WINDOW_MS
    MaxRequests,    \* limiter -> RATE_LIMIT_MAX_WRITE, TEST_RATE_LIMIT
    MaxSeen,        \* tokens seen before old ones are dropped (50 000)
    MaxTime,        \* bound on time
    MaxRestarts     \* bound on restarts of the server

Limiters == {"write", "test"}

Never == -1

VARIABLES
    now,
    configured, \* CSRF_SECRET is set in the environment
    issued,     \* token -> when it was made, or Never
    signed,     \* the tokens made with the secret of this process
    seen,       \* seenTokens: token -> when it was used, or Never
    entry,      \* limiter -> count and resetAt of the client, or NoEntry
    passed,     \* token -> when requests with it were served (history)
    served,     \* limiter -> when, and in which window, requests were served (history)
    restarts

vars == <<now, configured, issued, signed, seen, entry, passed, served, restarts>>

NoEntry == [count |-> 0, resetAt |-> Never]

(* Tasks, approvals, PUT and DELETE on schedules; POST on schedules;       *)
(* notifications and the test of their channels.                           *)
Routes == {"tasks", "new schedule", "acknowledge", "test message"}

(* The limits that a request to a route counts for.                        *)
LimitersOf(route) == {"write"} \union (IF route = "test message" THEN {"test"} ELSE {})

Init ==
    /\ now = 0 /\ configured \in BOOLEAN
    /\ issued = [t \in Tokens |-> Never] /\ signed = {}
    /\ seen = [t \in Tokens |-> Never]
    /\ entry = [l \in Limiters |-> NoEntry]
    /\ passed = [t \in Tokens |-> <<>>]
    /\ served = [l \in Limiters |-> <<>>]
    /\ restarts = 0

-----------------------------------------------------------------------------
(* generateCsrfToken.                                                      *)
Issue(t) ==
    /\ issued[t] = Never
    /\ issued' = [issued EXCEPT ![t] = now] /\ signed' = signed \union {t}
    /\ UNCHANGED <<now, configured, seen, entry, passed, served, restarts>>

(* validateCsrfToken: the time does not run backwards.                     *)
Genuine(t) == t \in signed /\ now - issued[t] <= TTL

(* checkReplay.                                                            *)
Replayed(used, t) == used[t] # Never /\ now - used[t] < TTL

(* Mutant: at the limit everything that was seen is dropped.               *)
Remember_Forgets(used, t) ==
    LET all == [used EXCEPT ![t] = now]
    IN  IF Cardinality({u \in Tokens : all[u] # Never}) <= MaxSeen THEN all
        ELSE [u \in Tokens |-> Never]

(* recordToken, with the tokens it drops when there are too many.          *)
Remember(used, t) ==
    LET all == [used EXCEPT ![t] = now]
    IN  IF Cardinality({u \in Tokens : all[u] # Never}) <= MaxSeen THEN all
        ELSE [u \in Tokens |-> IF all[u] < now - TTL THEN Never ELSE all[u]]

(* isWriteRateLimited and the rateLimit of the notification routes.  The   *)
(* count is compared with the limit only: it stops above it.               *)
Counted(e, l) ==
    IF e = NoEntry \/ now > e.resetAt THEN [count |-> 1, resetAt |-> now + Window]
    ELSE [e EXCEPT !.count = IF @ > MaxRequests[l] THEN @ ELSE @ + 1]

(* The two checks; a request that failed one makes no more.                *)
Csrf(r) ==
    IF ~r.open THEN r
    ELSE IF Replayed(r.seen, r.token) \/ ~Genuine(r.token) THEN [r EXCEPT !.open = FALSE]
    ELSE [r EXCEPT !.seen = Remember(@, r.token)]

Limited(r, l) ==
    IF ~r.open THEN r
    ELSE LET e == Counted(r.entry[l], l)
         IN  [r EXCEPT !.entry[l] = e, !.open = e.count <= MaxRequests[l]]

(* The checks of the routes, in the order the code makes them: POST on     *)
(* schedules repeats what all POSTs had, notifications are exempt at first *)
(* and check for themselves.                                               *)
Outcome(t, route) ==
    LET r == [open |-> TRUE, token |-> t, seen |-> seen, entry |-> entry]
    IN  CASE route = "tasks" -> Limited(Csrf(r), "write")
          [] route = "new schedule" -> Limited(Csrf(Limited(Csrf(r), "write")), "write")
          [] route = "acknowledge" -> Csrf(Limited(r, "write"))
          [] route = "test message" -> Limited(Csrf(Limited(r, "write")), "test")

Asked(t, route) ==
    LET end == Outcome(t, route)
    IN  /\ seen' = end.seen /\ entry' = end.entry
        /\ passed' = IF end.open THEN [passed EXCEPT ![t] = Append(@, now)] ELSE passed
        /\ served' = [l \in Limiters |->
              IF end.open /\ l \in LimitersOf(route)
              THEN Append(served[l], [at |-> now, until |-> end.entry[l].resetAt])
              ELSE served[l]]

Request(t, route) ==
    /\ issued[t] # Never
    /\ Asked(t, route)
    /\ UNCHANGED <<now, configured, issued, signed, restarts>>

(* The timer that drops entries whose window is over.                      *)
DropEntry(l) ==
    /\ entry[l] # NoEntry /\ now > entry[l].resetAt
    /\ entry' = [entry EXCEPT ![l] = NoEntry]
    /\ UNCHANGED <<now, configured, issued, signed, seen, passed, served, restarts>>

Tick ==
    /\ now < MaxTime /\ now' = now + 1
    /\ UNCHANGED <<configured, issued, signed, seen, entry, passed, served, restarts>>

(* Everything is in memory, a secret that is not configured as well.       *)
Restart ==
    /\ restarts < MaxRestarts /\ restarts' = restarts + 1
    /\ signed' = IF configured THEN signed ELSE {}
    /\ seen' = [t \in Tokens |-> Never]
    /\ entry' = [l \in Limiters |-> NoEntry]
    /\ served' = [l \in Limiters |-> <<>>]
    /\ UNCHANGED <<now, configured, issued, passed>>

Next ==
    \/ Tick \/ Restart
    \/ \E t \in Tokens : Issue(t) \/ \E route \in Routes : Request(t, route)
    \/ \E l \in Limiters : DropEntry(l)

Spec == Init /\ [][Next]_vars

-----------------------------------------------------------------------------
(* Properties.                                                             *)

(* A token lets one request through, whatever is dropped from the list of  *)
(* seen tokens, with two exceptions: the list is empty after a restart     *)
(* while a configured secret still vouches for the token, and a token used *)
(* in the unit of time it was made passes once more in the very last unit  *)
(* of its life, when it is no longer a replay and not yet expired.         *)
TokenPassesOnce ==
    \A t \in Tokens : Len(passed[t]) > 1 =>
        \/ configured /\ restarts > 0
        \/ passed[t] = <<issued[t], issued[t] + TTL>>

(* In any stretch of time as long as a window less than twice the limit is *)
(* served, on the border of two windows, for every limiter and through     *)
(* every route.                                                            *)
BurstBounded ==
    \A l \in Limiters : \A first, last \in DOMAIN served[l] :
        last = first + 2 * MaxRequests[l] - 1
        => served[l][last].at > served[l][first].at + Window

(* What the checks let through: a token once, and no burst of writes.      *)
LetThrough == TokenPassesOnce /\ BurstBounded
=============================================================================
