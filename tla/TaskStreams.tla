------------------------------ MODULE TaskStreams ------------------------------
(***************************************************************************)
(* The SSE manager (src/remote-control/sse-manager.ts) and the streams of  *)
(* tasks the server puts into it.                                          *)
(*                                                                         *)
(* The server gives the manager no way to hear of a browser that went      *)
(* away: a dead connection is found when a write to it throws.             *)
(***************************************************************************)
EXTENDS Selection, FiniteSets, SequencesExt

CONSTANTS
    Tasks,
    Connections     \* an id is used again when nothing is left of it

VARIABLES
    clients,        \* task -> its connections, in the order they came
    alive,          \* the connections whose browser is still there
    got             \* the connections the last event was written to (history)

vars == <<clients, alive, got>>

Init ==
    /\ clients = [t \in Tasks |-> <<>>]
    /\ alive = {} /\ got = {}

Listed == UNION {ToSet(clients[t]) : t \in Tasks}

(* GET /api/tasks/:id/events and addClient: what is stored is sent first,  *)
(* in the same turn.                                                       *)
AddClient(t, c) ==
    /\ c \notin alive \union Listed
    /\ clients' = [clients EXCEPT ![t] = Append(@, c)]
    /\ alive' = alive \union {c}
    /\ UNCHANGED got

(* The browser closes the stream; nobody calls removeClient.               *)
Leave(c) ==
    /\ c \in alive
    /\ alive' = alive \ {c}
    /\ UNCHANGED <<clients, got>>

(* Mutant: dead connections are spliced out inside the loop, which then    *)
(* skips the one behind each.                                              *)
Reached_Splicing(conns) ==
    {conns[i] : i \in {j \in DOMAIN conns :
        conns[j] \in alive /\ (j > 1 => conns[j - 1] \in alive)}}

(* The connections the loop of send writes to.                             *)
Reached(conns) == ToSet(conns) \intersect alive

(* removeClient of those that threw, after the loop.                       *)
Kept(conns) == Selected(conns, alive)

(* send, the worker's call at each step of a task.                         *)
Send(t) ==
    /\ clients[t] # <<>>
    /\ got' = Reached(clients[t])
    /\ clients' = [clients EXCEPT ![t] = Kept(@)]
    /\ UNCHANGED alive

Next ==
    \/ \E t \in Tasks : Send(t) \/ \E c \in Connections : AddClient(t, c)
    \/ \E c \in Connections : Leave(c)

Spec == Init /\ [][Next]_vars

-----------------------------------------------------------------------------
(* Whoever is watching a task when something is sent gets it, however many *)
(* dead connections are around it in the list; and afterwards the dead     *)
(* ones are gone.                                                          *)
SendReachesAll ==
    [][\A t \in Tasks : Send(t) =>
          got' = ToSet(clients[t]) \intersect alive /\ ToSet(clients'[t]) \subseteq alive]_vars

=============================================================================
