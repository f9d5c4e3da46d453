---------------------------- MODULE ConfirmedWrites ----------------------------
(***************************************************************************)
(* The write operations of the AKM HTTP server (src/http-server.ts): a     *)
(* confirmation token is prepared, a second request spends it, one write   *)
(* at a time runs the akm command.                                         *)
(*                                                                         *)
(* The command runs in a process of its own.  When the server stops, its   *)
(* tokens and its lock are gone and the command goes on without it.        *)
(***************************************************************************)
EXTENDS Naturals, FiniteSets

CONSTANTS
    Tokens,         \* token ids, never reused (randomUUID)
    Calls,          \* requests that may run a command at a time
    Ops,            \* the write operations that take a token
    Proposals,      \* ids of proposals
    MaxRestarts     \* bound on restarts of the server

NoProposal == "no proposal"
NoToken == "no token"
Free == "free"
OfProposal == {"proposal_accept", "proposal_reject"}
Scanned == {"remember", "lesson_proposal"}

ASSUME ConfirmedAssumption ==
    /\ Ops \subseteq OfProposal \union Scanned \union {"reindex", "sync"}
    /\ NoProposal \notin Proposals /\ NoToken \notin Tokens
    /\ MaxRestarts \in Nat

VARIABLES
    store,      \* token -> its entry of the store, or Absent
    lock,       \* the operation that holds the write lock, or Free
    command,    \* call -> the akm command it waits for, or NoCommand
    prepared,   \* token -> what it was prepared for (history)
    spent,      \* token -> how many commands were started with it (history)
    restarts

vars == <<store, lock, command, prepared, spent, restarts>>

(* Parameters other than a proposal's id are never compared.               *)
Purpose == [op : Ops, proposal : Proposals \union {NoProposal}]
Absent == [there |-> FALSE]
Entry(p, late) == [there |-> TRUE, for |-> p, late |-> late]
NoCommand == [runs |-> FALSE]
Command(op, proposal, token, orphan) ==
    [runs |-> TRUE, op |-> op, proposal |-> proposal, token |-> token, orphan |-> orphan]

Init ==
    /\ store = [t \in Tokens |-> Absent]
    /\ lock = Free
    /\ command = [c \in Calls |-> NoCommand]
    /\ prepared = [t \in Tokens |-> {}]
    /\ spent = [t \in Tokens |-> 0]
    /\ restarts = 0

-----------------------------------------------------------------------------
(* handlePrepare, createConfirmationToken.                                 *)
Prepare(t, p) ==
    /\ prepared[t] = {}
    /\ store' = [store EXCEPT ![t] = Entry(p, FALSE)]
    /\ prepared' = [prepared EXCEPT ![t] = {p}]
    /\ UNCHANGED <<lock, command, spent, restarts>>

(* expiresAt passes; the entry stays until the timer or a request.         *)
Expire(t) ==
    /\ store[t].there /\ ~store[t].late
    /\ store' = [store EXCEPT ![t] = Entry(@.for, TRUE)]
    /\ UNCHANGED <<lock, command, prepared, spent, restarts>>

TimerDeletes(t) ==
    /\ store[t].there /\ store[t].late
    /\ store' = [store EXCEPT ![t] = Absent]
    /\ UNCHANGED <<lock, command, prepared, spent, restarts>>

(* The handlers of proposals pass the id of the body to csrfCheck.         *)
Matches(e, op, proposal) ==
    /\ e.for.op = op
    /\ op \in OfProposal => e.for.proposal = proposal

(* The store after consumeConfirmationToken: an expired token goes, one    *)
(* for something else stays, one that fits is used up.                     *)
AfterConsume(t, op, proposal) ==
    IF store[t].there /\ (store[t].late \/ Matches(store[t], op, proposal))
    THEN [store EXCEPT ![t] = Absent] ELSE store

Valid(t, op, proposal) ==
    store[t].there /\ ~store[t].late /\ Matches(store[t], op, proposal)

(* Mutant: the request that finds the lock taken releases it.              *)
LockAfterBusy_Released == Free

(* writeLockBusyError: the lock stays with the one who has it.             *)
LockAfterBusy == lock

(* A request with a token: csrfCheck, the scan for secrets, the lock and   *)
(* the start of the command are one turn of the event loop.                *)
Refused(t, op, proposal) ==
    /\ ~Valid(t, op, proposal)
    /\ UNCHANGED <<lock, command, spent>>

SecretFound(t, op, proposal) ==
    /\ Valid(t, op, proposal) /\ op \in Scanned
    /\ UNCHANGED <<lock, command, spent>>

Busy(t, op, proposal) ==
    /\ Valid(t, op, proposal) /\ lock # Free
    /\ lock' = LockAfterBusy
    /\ UNCHANGED <<command, spent>>

Starts(c, t, op, proposal) ==
    /\ Valid(t, op, proposal) /\ lock = Free /\ ~command[c].runs
    /\ lock' = op
    /\ command' = [command EXCEPT ![c] = Command(op, proposal, t, FALSE)]
    /\ spent' = [spent EXCEPT ![t] = @ + 1]

Ask(t, op, proposal) ==
    /\ prepared[t] # {}
    /\ op \in OfProposal <=> proposal # NoProposal
    /\ \/ Refused(t, op, proposal) \/ SecretFound(t, op, proposal)
       \/ Busy(t, op, proposal)
       \/ \E c \in Calls : Starts(c, t, op, proposal)
    /\ store' = AfterConsume(t, op, proposal)
    /\ UNCHANGED <<prepared, restarts>>

(* handleFeedback, and the MCP tool: no token and no lock.                 *)
Feedback(c) ==
    /\ ~command[c].runs
    /\ command' = [command EXCEPT ![c] = Command("feedback", NoProposal, NoToken, FALSE)]
    /\ UNCHANGED <<store, lock, prepared, spent, restarts>>

(* The command has ended, well or badly: both paths of the adapter release *)
(* the lock, whoever holds it.                                             *)
Answer(c) ==
    /\ command[c].runs /\ ~command[c].orphan
    /\ lock' = IF command[c].op = "feedback" THEN lock ELSE Free
    /\ command' = [command EXCEPT ![c] = NoCommand]
    /\ UNCHANGED <<store, prepared, spent, restarts>>

OrphanEnds(c) ==
    /\ command[c].runs /\ command[c].orphan
    /\ command' = [command EXCEPT ![c] = NoCommand]
    /\ UNCHANGED <<store, lock, prepared, spent, restarts>>

Orphaned(m) == Command(m.op, m.proposal, m.token, TRUE)

Restart ==
    /\ restarts < MaxRestarts /\ restarts' = restarts + 1
    /\ store' = [t \in Tokens |-> Absent]
    /\ lock' = Free
    /\ command' = [c \in Calls |-> IF command[c].runs
                                   THEN Orphaned(command[c]) ELSE NoCommand]
    /\ UNCHANGED <<prepared, spent>>

Next ==
    \/ \E t \in Tokens : Expire(t) \/ TimerDeletes(t)
    \/ \E t \in Tokens, p \in Purpose : Prepare(t, p)
    \/ \E t \in Tokens, op \in Ops, p \in Proposals \union {NoProposal} : Ask(t, op, p)
    \/ \E c \in Calls : Feedback(c) \/ Answer(c) \/ OrphanEnds(c)
    \/ Restart

Spec == Init /\ [][Next]_vars

-----------------------------------------------------------------------------
(* Properties.                                                             *)

(* The command of a call that still has its server.                        *)
Locked(c) == command[c].runs /\ ~command[c].orphan /\ command[c].op # "feedback"

Entries == [there : {TRUE}, for : Purpose, late : BOOLEAN]
Commands ==
    [runs : {TRUE}, op : Ops \union {"feedback"}, proposal : Proposals \union {NoProposal},
     token : Tokens \union {NoToken}, orphan : BOOLEAN]

(* Type invariant.                                                         *)
ConfirmedTypeOK ==
    /\ store \in [Tokens -> Entries \union {Absent}]
    /\ lock \in Ops \union {Free}
    /\ command \in [Calls -> Commands \union {NoCommand}]
    /\ prepared \in [Tokens -> SUBSET Purpose] /\ spent \in [Tokens -> Nat]
    /\ restarts \in Nat

(* A confirmation starts at most one command in its life, through requests *)
(* that cross, a busy lock and restarts.                                   *)
OneCommandPerToken == \A t \in Tokens : spent[t] <= 1

(* What runs is what was confirmed: the operation, and the proposal, for   *)
(* which its token was prepared.                                           *)
RunsAsPrepared ==
    \A c \in Calls : command[c].runs /\ command[c].op # "feedback" =>
        \E p \in prepared[command[c].token] :
            /\ p.op = command[c].op
            /\ p.op \in OfProposal => p.proposal = command[c].proposal

(* The lock says what runs: it is held exactly while one command of the    *)
(* living server runs under it, although everyone may release it.          *)
LockTellsTheTruth ==
    /\ (lock # Free) <=> \E c \in Calls : Locked(c)
    /\ \A c, d \in Calls : Locked(c) /\ Locked(d) => c = d
    /\ \A c \in Calls : Locked(c) => lock = command[c].op

(* Each command that runs was confirmed, once and for what it does, and is *)
(* the only one: through requests that cross, a busy lock, found secrets,  *)
(* expiries and restarts.                                                  *)
WritesAreConfirmed == OneCommandPerToken /\ RunsAsPrepared /\ LockTellsTheTruth
=============================================================================
