------------------------------- MODULE AgentRuns -------------------------------
(***************************************************************************)
(* The log of agent runs, kept in memory and newest first.  A completion   *)
(* does not change the record of the run: it puts a second one in front,   *)
(* made of the newest it finds and of what the agent reports.  The same    *)
(* functions serve HTTP and MCP, each process with a log of its own; they  *)
(* differ in the count of feedback.                                        *)
(***************************************************************************)
EXTENDS Naturals, Sequences

CONSTANTS
    Runs,           \* run ids
    MaxAgentRuns,   \* config.maxAgentRuns
    Flags,          \* lesson_proposal_created and the like
    MaxFeedback     \* bound on the feedback an agent reports

VARIABLES
    server,     \* "http" or "mcp": whose log it is
    started,    \* the run ids given out
    log,        \* agentRunLog
    reported    \* run -> what completions found in the log have told (history)

vars == <<server, started, log, reported>>

Nothing == [flags |-> {}, feedback |-> <<>>, done |-> FALSE]

Init ==
    /\ server \in {"http", "mcp"}
    /\ started = {} /\ log = <<>>
    /\ reported = [r \in Runs |-> Nothing]

(* recordAgentRun: in front, and what is over the limit falls off the end. *)
Recorded(record) ==
    LET longer == <<record>> \o log
    IN  IF Len(longer) > MaxAgentRuns THEN SubSeq(longer, 1, MaxAgentRuns) ELSE longer

(* handleAgentRunStart; akm_agent_run_start.                               *)
Start(r) ==
    /\ r \notin started
    /\ started' = started \union {r}
    /\ log' = Recorded([run |-> r, flags |-> {}, feedback |-> 0, done |-> FALSE])
    /\ UNCHANGED <<server, reported>>

Places(r) == {i \in DOMAIN log : log[i].run = r}

(* runs.find: the first.                                                   *)
Newest(r) == CHOOSE i \in Places(r) : \A j \in Places(r) : i <= j

(* Mutant: what this completion reports replaces what the last one said.   *)
Completed_Replaced(old, flags, feedback) ==
    [old EXCEPT !.flags = flags, !.feedback = feedback, !.done = TRUE]

(* handleAgentRunComplete; akm_agent_run_complete, where no feedback this  *)
(* time means none at all.                                                 *)
Completed(old, flags, feedback) ==
    [old EXCEPT !.flags = @ \union flags,
                !.feedback = IF feedback # 0 \/ server = "mcp" THEN feedback ELSE @,
                !.done = TRUE]

(* A run the log has forgotten is answered in the same way.                *)
Complete(r, flags, feedback) ==
    /\ IF Places(r) = {} THEN UNCHANGED <<log, reported>>
       ELSE /\ log' = Recorded(Completed(log[Newest(r)], flags, feedback))
            /\ reported' = [reported EXCEPT ![r] =
                  [flags |-> @.flags \union flags,
                   feedback |-> IF feedback = 0 THEN @.feedback ELSE <<feedback>>,
                   done |-> TRUE]]
    /\ UNCHANGED <<server, started>>

Next ==
    \E r \in Runs :
        \/ Start(r)
        \/ r \in started /\ \E flags \in SUBSET Flags, n \in 0..MaxFeedback : Complete(r, flags, n)

Spec == Init /\ [][Next]_vars

-----------------------------------------------------------------------------
(* What a list of runs shows first for a run is everything its completions *)
(* reported, and never its bare start record again: repeated completions,  *)
(* in any order and with other runs in between, lose nothing, but for the  *)
(* feedback in the log of the MCP server.                                  *)
NewestTellsAll ==
    \A r \in Runs : Places(r) # {} =>
        LET e == log[Newest(r)]
        IN  /\ e.flags = reported[r].flags /\ e.done = reported[r].done
            /\ server = "http" /\ reported[r].feedback # <<>> => <<e.feedback>> = reported[r].feedback

(* The records of a run are in the order in which they grew, so that the   *)
(* limit takes the older record of a run before the newer.                 *)
RecordsGrow ==
    \A i, j \in DOMAIN log :
        i < j /\ log[i].run = log[j].run =>
            log[j].flags \subseteq log[i].flags /\ (log[j].done => log[i].done)

(* What completions report is told and stays told.                         *)
RecordsTell == NewestTellsAll /\ RecordsGrow
=============================================================================
