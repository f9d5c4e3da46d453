----------------------------- MODULE ServerProofs -----------------------------
(***************************************************************************)
(* Proofs about the parts of the two servers that Front puts together, for *)
(* any number of tokens, calls, runs, clients, schedules and restarts, and *)
(* any limits.  Each part has an inductive invariant of its own.           *)
(***************************************************************************)
EXTENDS Front, SharedLemmas

-----------------------------------------------------------------------------
(* Confirmed writes: a token starts one command at most, what runs is what *)
(* was confirmed, and the write lock says what runs.                       *)

(* A token in the store has started nothing yet, and it stands for what it *)
(* was prepared for; a token that was never prepared has started nothing.  *)
Unspent ==
    \A t \in Tokens :
        /\ spent[t] \in {0, 1}
        /\ store[t].there => spent[t] = 0 /\ prepared[t] = {store[t].for}
        /\ prepared[t] = {} => spent[t] = 0

(* A command that took a token took one that exists.                       *)
TokenOfCommand ==
    \A c \in Calls : command[c].runs /\ command[c].op # "feedback" =>
        command[c].token \in Tokens

(* The inductive invariant.                                                *)
ConfirmedInv ==
    ConfirmedTypeOK /\ Unspent /\ TokenOfCommand /\ RunsAsPrepared /\ LockTellsTheTruth

-----------------------------------------------------------------------------
(* "feedback" is no operation that takes a token, and no operation is Free. *)
LEMMA OpsKnown == "feedback" \notin Ops /\ Free \notin Ops
BY ConfirmedAssumption DEF ConfirmedAssumption, OfProposal, Scanned, Free

(* An entry of the store, and one that is not there.                       *)
LEMMA EntryFields ==
    ASSUME NEW p, NEW l
    PROVE  /\ Entry(p, l).there /\ Entry(p, l).for = p
           /\ ~Absent.there
BY DEF Entry, Absent

(* What prepare writes is an entry.                                        *)
LEMMA EntriesHave ==
    ASSUME NEW p \in Purpose
    PROVE  Entry(p, TRUE) \in Entries /\ Entry(p, FALSE) \in Entries
BY DEF Entries, Entry

(* What an entry is for.                                                   *)
LEMMA EntriesOf ==
    ASSUME NEW e \in Entries
    PROVE  e.for \in Purpose
BY DEF Entries

(* The fields of a command.                                                *)
LEMMA CommandFields ==
    ASSUME NEW op, NEW q, NEW t
    PROVE  /\ LET m == Command(op, q, t, FALSE)
              IN  m.runs /\ m.op = op /\ m.proposal = q /\ m.token = t /\ ~m.orphan
           /\ LET m == Command(op, q, t, TRUE)
              IN  m.runs /\ m.op = op /\ m.proposal = q /\ m.token = t /\ m.orphan
BY DEF Command

(* No command is none that runs.                                           *)
LEMMA NoneRuns == ~NoCommand.runs
BY DEF NoCommand

(* What a handler starts is a command.                                     *)
LEMMA CommandsHave ==
    ASSUME NEW op \in Ops \union {"feedback"}, NEW q \in Proposals \union {NoProposal},
           NEW t \in Tokens \union {NoToken}
    PROVE  Command(op, q, t, FALSE) \in Commands /\ Command(op, q, t, TRUE) \in Commands
BY DEF Commands, Command

(* The fields of a command have their types.                               *)
LEMMA CommandsOf ==
    ASSUME NEW m \in Commands
    PROVE  /\ m.op \in Ops \union {"feedback"} /\ m.proposal \in Proposals \union {NoProposal}
           /\ m.token \in Tokens \union {NoToken} /\ m.runs
BY DEF Commands

LEMMA ConfirmedInit == ASSUME Init PROVE ConfirmedInv
<1> USE EntryFields, CommandFields, NoneRuns DEF Init
<1>1. ConfirmedTypeOK
  BY DEF ConfirmedTypeOK
<1>2. Unspent /\ TokenOfCommand /\ RunsAsPrepared
  BY DEF Unspent, TokenOfCommand, RunsAsPrepared
<1>3. LockTellsTheTruth
  BY DEF LockTellsTheTruth, Locked
<1> QED BY <1>1, <1>2, <1>3 DEF ConfirmedInv

-----------------------------------------------------------------------------
(* Preparing an operation (handlePrepare).                                 *)
LEMMA ConfirmedPrepare ==
    ASSUME ConfirmedInv, NEW t \in Tokens, NEW p \in Purpose, Prepare(t, p)
    PROVE  ConfirmedInv'
<1>1. ConfirmedTypeOK'
  BY EntriesHave DEF ConfirmedInv, ConfirmedTypeOK, Prepare
<1>2. Unspent'
  <2> SUFFICES ASSUME NEW u \in Tokens
               PROVE  /\ spent'[u] \in {0, 1}
                      /\ store'[u].there => spent'[u] = 0 /\ prepared'[u] = {store'[u].for}
                      /\ prepared'[u] = {} => spent'[u] = 0
    BY DEF Unspent
  <2>1. CASE u = t
    <3>1. spent'[u] = 0 /\ store'[u] = Entry(p, FALSE) /\ prepared'[u] = {p}
      BY <2>1 DEF ConfirmedInv, ConfirmedTypeOK, Unspent, Prepare
    <3>2. store'[u].for = p
      BY <3>1, EntryFields
    <3> QED BY <3>1, <3>2
  <2>2. CASE u # t
    <3>1. spent'[u] = spent[u] /\ store'[u] = store[u] /\ prepared'[u] = prepared[u]
      BY <2>2 DEF ConfirmedInv, ConfirmedTypeOK, Prepare
    <3> QED BY <3>1 DEF ConfirmedInv, Unspent
  <2> QED BY <2>1, <2>2
<1>3. TokenOfCommand' /\ RunsAsPrepared'
  BY DEF ConfirmedInv, TokenOfCommand, RunsAsPrepared, Prepare
<1>4. LockTellsTheTruth'
  BY DEF ConfirmedInv, LockTellsTheTruth, Locked, Prepare
<1> QED BY <1>1, <1>2, <1>3, <1>4 DEF ConfirmedInv

(* An entry that changes and stays in the store keeps its purpose.         *)
LEMMA ConfirmedStore ==
    ASSUME ConfirmedInv, UNCHANGED <<lock, command, prepared, spent, restarts>>,
           store' \in [Tokens -> Entries \union {Absent}],
           \A t \in Tokens : store'[t].there => store[t].there /\ store'[t].for = store[t].for
    PROVE  ConfirmedInv'
<1>1. ConfirmedTypeOK'
  BY DEF ConfirmedInv, ConfirmedTypeOK
<1>2. Unspent'
  BY DEF ConfirmedInv, Unspent
<1>3. TokenOfCommand' /\ RunsAsPrepared'
  BY DEF ConfirmedInv, TokenOfCommand, RunsAsPrepared
<1>4. LockTellsTheTruth'
  BY DEF ConfirmedInv, LockTellsTheTruth, Locked
<1> QED BY <1>1, <1>2, <1>3, <1>4 DEF ConfirmedInv

(* A token gets too old.                                                   *)
LEMMA ConfirmedExpire ==
    ASSUME ConfirmedInv, NEW t \in Tokens, Expire(t)
    PROVE  ConfirmedInv'
<1>1. store[t].there /\ store[t] \in Entries
  BY EntryFields DEF ConfirmedInv, ConfirmedTypeOK, Expire
<1>2. store[t].for \in Purpose
  BY <1>1, EntriesOf
<1>3. /\ store' = [store EXCEPT ![t] = Entry(store[t].for, TRUE)]
      /\ Entry(store[t].for, TRUE) \in Entries
  BY <1>2, EntriesHave DEF Expire
<1>4. store' \in [Tokens -> Entries \union {Absent}]
  BY <1>3 DEF ConfirmedInv, ConfirmedTypeOK
<1>5. \A u \in Tokens : store'[u].there => store[u].there /\ store'[u].for = store[u].for
  <2> TAKE u \in Tokens
  <2>1. CASE u = t
    <3>1. store'[u] = Entry(store[u].for, TRUE)
      BY <2>1, <1>3 DEF ConfirmedInv, ConfirmedTypeOK
    <3>2. Entry(store[u].for, TRUE).for = store[u].for
      BY EntryFields
    <3> QED BY <2>1, <1>1, <3>1, <3>2
  <2>2. CASE u # t
    BY <2>2, <1>3 DEF ConfirmedInv, ConfirmedTypeOK
  <2> QED BY <2>1, <2>2
<1> QED BY <1>4, <1>5, ConfirmedStore DEF Expire

(* The timer of a token removes it.                                        *)
LEMMA ConfirmedTimer ==
    ASSUME ConfirmedInv, NEW t \in Tokens, TimerDeletes(t)
    PROVE  ConfirmedInv'
<1>1. store' \in [Tokens -> Entries \union {Absent}]
  BY DEF ConfirmedInv, ConfirmedTypeOK, TimerDeletes
<1>2. \A u \in Tokens : store'[u].there => store[u].there /\ store'[u].for = store[u].for
  BY EntryFields DEF ConfirmedInv, ConfirmedTypeOK, TimerDeletes
<1> QED BY <1>1, <1>2, ConfirmedStore DEF TimerDeletes

-----------------------------------------------------------------------------
(* A request: the store loses the token it asked with, or is as it was.    *)
LEMMA ConsumedStore ==
    ASSUME ConfirmedInv, NEW t \in Tokens, NEW op, NEW q
    PROVE  /\ AfterConsume(t, op, q) \in [Tokens -> Entries \union {Absent}]
           /\ \A u \in Tokens :
                 AfterConsume(t, op, q)[u].there => AfterConsume(t, op, q)[u] = store[u] /\ store[u].there
           /\ Valid(t, op, q) => ~AfterConsume(t, op, q)[t].there
BY EntryFields DEF AfterConsume, Valid, ConfirmedInv, ConfirmedTypeOK

(* A command starts with a token: the token is spent and the lock held.    *)
LEMMA ConfirmedStarts ==
    ASSUME ConfirmedInv, NEW t \in Tokens, NEW op \in Ops,
           NEW q \in Proposals \union {NoProposal}, NEW c \in Calls,
           Starts(c, t, op, q), store' = AfterConsume(t, op, q),
           UNCHANGED <<prepared, restarts>>
    PROVE  ConfirmedInv'
<1> DEFINE m == Command(op, q, t, FALSE)
<1>1. /\ m.runs /\ m.op = op /\ m.proposal = q /\ m.token = t /\ ~m.orphan
      /\ m \in Commands
  <2>1. m \in Commands
    BY CommandsHave
  <2> QED BY <2>1 DEF Command
<1>2. /\ Valid(t, op, q) /\ lock = Free /\ ~command[c].runs /\ lock' = op
      /\ command' = [command EXCEPT ![c] = m]
      /\ spent' = [spent EXCEPT ![t] = @ + 1]
  BY DEF Starts
<1>3. /\ command'[c] = m
      /\ \A d \in Calls : d # c => command'[d] = command[d]
  BY <1>2 DEF ConfirmedInv, ConfirmedTypeOK
<1>4. /\ store[t].there /\ store[t].for.op = op
      /\ op \in OfProposal => store[t].for.proposal = q
      /\ spent[t] = 0 /\ prepared[t] = {store[t].for}
  BY <1>2 DEF Valid, Matches, ConfirmedInv, Unspent
<1>5. ConfirmedTypeOK'
  <2>1. spent' \in [Tokens -> Nat]
    BY <1>2, <1>4 DEF ConfirmedInv, ConfirmedTypeOK
  <2>2. command' \in [Calls -> Commands \union {NoCommand}]
    BY <1>1, <1>2 DEF ConfirmedInv, ConfirmedTypeOK
  <2> QED BY <1>2, <2>1, <2>2, ConsumedStore DEF ConfirmedInv, ConfirmedTypeOK
<1>6. Unspent'
  <2> SUFFICES ASSUME NEW u \in Tokens
               PROVE  /\ spent'[u] \in {0, 1}
                      /\ store'[u].there => spent'[u] = 0 /\ prepared'[u] = {store'[u].for}
                      /\ prepared'[u] = {} => spent'[u] = 0
    BY DEF Unspent
  <2>1. CASE u = t
    <3>1. spent'[u] = 1 /\ ~store'[u].there /\ prepared'[u] # {}
      BY <2>1, <1>2, <1>4, ConsumedStore DEF ConfirmedInv, ConfirmedTypeOK
    <3> QED BY <3>1
  <2>2. CASE u # t
    <3>1. /\ spent'[u] = spent[u] /\ prepared'[u] = prepared[u]
          /\ store'[u].there => store'[u] = store[u] /\ store[u].there
      BY <2>2, <1>2, ConsumedStore DEF ConfirmedInv, ConfirmedTypeOK
    <3> QED BY <3>1 DEF ConfirmedInv, Unspent
  <2> QED BY <2>1, <2>2
<1>7. TokenOfCommand'
  BY <1>1, <1>3 DEF ConfirmedInv, TokenOfCommand
<1>8. RunsAsPrepared'
  <2> SUFFICES ASSUME NEW d \in Calls, command'[d].runs, command'[d].op # "feedback"
               PROVE  \E p \in prepared'[command'[d].token] :
                          /\ p.op = command'[d].op
                          /\ p.op \in OfProposal => p.proposal = command'[d].proposal
    BY DEF RunsAsPrepared
  <2>1. CASE d = c
    BY <2>1, <1>1, <1>3, <1>4
  <2>2. CASE d # c
    BY <2>2, <1>3 DEF ConfirmedInv, RunsAsPrepared
  <2> QED BY <2>1, <2>2
<1>9. LockTellsTheTruth'
  <2>1. \A d \in Calls : ~Locked(d)
    BY <1>2 DEF ConfirmedInv, LockTellsTheTruth
  <2>2. Locked(c)' /\ \A d \in Calls : Locked(d)' => d = c
    BY <1>1, <1>3, <2>1, OpsKnown DEF Locked
  <2>3. op # Free /\ command'[c].op = op
    BY <1>1, <1>3, OpsKnown
  <2> QED BY <1>2, <2>2, <2>3 DEF LockTellsTheTruth
<1> QED BY <1>5, <1>6, <1>7, <1>8, <1>9 DEF ConfirmedInv

(* A confirmed request, whichever of its checks it stops at.               *)
LEMMA ConfirmedAsk ==
    ASSUME ConfirmedInv, NEW t \in Tokens, NEW op \in Ops,
           NEW q \in Proposals \union {NoProposal}, Ask(t, op, q)
    PROVE  ConfirmedInv'
<1>1. store' = AfterConsume(t, op, q) /\ UNCHANGED <<prepared, restarts>>
  BY DEF Ask
<1>2. CASE Refused(t, op, q) \/ SecretFound(t, op, q) \/ Busy(t, op, q)
  <2>1. UNCHANGED <<lock, command, spent>>
    BY <1>2 DEF Refused, SecretFound, Busy, LockAfterBusy
  <2> QED BY <1>1, <2>1, ConsumedStore, ConfirmedStore
<1>3. CASE \E c \in Calls : Starts(c, t, op, q)
  BY <1>1, <1>3, ConfirmedStarts
<1> QED BY <1>2, <1>3 DEF Ask

-----------------------------------------------------------------------------
(* A command that takes no token comes or one goes that holds no lock.     *)
LEMMA ConfirmedUnlocked ==
    ASSUME ConfirmedInv, UNCHANGED <<store, lock, prepared, spent, restarts>>,
           NEW c \in Calls, NEW m \in Commands \union {NoCommand},
           m.runs => m.op = "feedback", ~Locked(c),
           command' = [command EXCEPT ![c] = m]
    PROVE  ConfirmedInv'
<1>1. /\ command'[c] = m
      /\ \A d \in Calls : d # c => command'[d] = command[d]
  BY DEF ConfirmedInv, ConfirmedTypeOK
<1>2. ConfirmedTypeOK' /\ Unspent'
  BY DEF ConfirmedInv, ConfirmedTypeOK, Unspent
<1>3. TokenOfCommand' /\ RunsAsPrepared'
  BY <1>1 DEF ConfirmedInv, TokenOfCommand, RunsAsPrepared
<1>4. \A d \in Calls : Locked(d)' <=> Locked(d)
  BY <1>1 DEF Locked
<1>5. \A d \in Calls : Locked(d) => command'[d].op = command[d].op
  BY <1>1
<1>6. LockTellsTheTruth'
  BY <1>4, <1>5 DEF ConfirmedInv, LockTellsTheTruth
<1> QED BY <1>2, <1>3, <1>6 DEF ConfirmedInv

(* Feedback, which asks for no confirmation.                               *)
LEMMA ConfirmedFeedback ==
    ASSUME ConfirmedInv, NEW c \in Calls, Feedback(c)
    PROVE  ConfirmedInv'
<1> DEFINE m == Command("feedback", NoProposal, NoToken, FALSE)
<1>1. m \in Commands /\ m.op = "feedback"
  <2>1. m \in Commands
    BY CommandsHave
  <2> QED BY <2>1 DEF Command
<1>2. ~Locked(c)
  BY DEF Feedback, Locked
<1> QED BY <1>1, <1>2, ConfirmedUnlocked DEF Feedback

(* A command of a server that is gone ends.                                *)
LEMMA ConfirmedOrphanEnds ==
    ASSUME ConfirmedInv, NEW c \in Calls, OrphanEnds(c)
    PROVE  ConfirmedInv'
<1>1. ~Locked(c) /\ ~NoCommand.runs
  BY CommandFields, NoneRuns DEF OrphanEnds, Locked
<1> QED BY <1>1, ConfirmedUnlocked DEF OrphanEnds

(* Whoever answers frees the lock, and nobody else held it.                *)
LEMMA ConfirmedAnswer ==
    ASSUME ConfirmedInv, NEW c \in Calls, Answer(c)
    PROVE  ConfirmedInv'
<1>1. CASE command[c].op = "feedback"
  <2>1. ~Locked(c) /\ ~NoCommand.runs
    BY <1>1, CommandFields, NoneRuns DEF Locked
  <2> QED BY <1>1, <2>1, ConfirmedUnlocked DEF Answer
<1>2. CASE command[c].op # "feedback"
  <2>1. /\ Locked(c) /\ lock' = Free /\ command' = [command EXCEPT ![c] = NoCommand]
        /\ UNCHANGED <<store, prepared, spent, restarts>>
    BY <1>2 DEF Answer, Locked
  <2>2. /\ command'[c] = NoCommand /\ ~NoCommand.runs
        /\ \A d \in Calls : d # c => command'[d] = command[d]
    BY <2>1, CommandFields, NoneRuns DEF ConfirmedInv, ConfirmedTypeOK
  <2>3. ConfirmedTypeOK' /\ Unspent'
    BY <2>1 DEF ConfirmedInv, ConfirmedTypeOK, Unspent
  <2>4. TokenOfCommand' /\ RunsAsPrepared'
    BY <2>1, <2>2 DEF ConfirmedInv, TokenOfCommand, RunsAsPrepared
  <2>5. \A d \in Calls : ~Locked(d)'
    BY <2>1, <2>2 DEF ConfirmedInv, LockTellsTheTruth, Locked
  <2>6. LockTellsTheTruth'
    BY <2>1, <2>5 DEF LockTellsTheTruth
  <2> QED BY <2>3, <2>4, <2>6 DEF ConfirmedInv
<1> QED BY <1>1, <1>2

(* The commands go on without their server, its lock and its tokens.       *)
LEMMA ConfirmedRestart == ASSUME ConfirmedInv, Restart PROVE ConfirmedInv'
<1>1. /\ store' = [t \in Tokens |-> Absent] /\ lock' = Free
      /\ command' = [c \in Calls |-> IF command[c].runs THEN Orphaned(command[c]) ELSE NoCommand]
      /\ UNCHANGED <<prepared, spent>> /\ restarts' = restarts + 1
  BY DEF Restart
<1>2. \A c \in Calls : command[c].runs =>
         /\ Orphaned(command[c]) \in Commands /\ Orphaned(command[c]).orphan
         /\ Orphaned(command[c]).op = command[c].op
         /\ Orphaned(command[c]).proposal = command[c].proposal
         /\ Orphaned(command[c]).token = command[c].token
  <2> TAKE c \in Calls
  <2> HAVE command[c].runs
  <2>1. command[c] \in Commands
    BY CommandFields, NoneRuns DEF ConfirmedInv, ConfirmedTypeOK
  <2> DEFINE m == command[c]
  <2>2. /\ m.op \in Ops \union {"feedback"} /\ m.proposal \in Proposals \union {NoProposal}
        /\ m.token \in Tokens \union {NoToken}
    BY <2>1, CommandsOf
  <2>3. Orphaned(m) = Command(m.op, m.proposal, m.token, TRUE)
    BY DEF Orphaned
  <2>4. Orphaned(m) \in Commands
    BY <2>2, <2>3, CommandsHave
  <2> QED BY <2>3, <2>4 DEF Command
<1>3. ConfirmedTypeOK'
  BY <1>1, <1>2 DEF ConfirmedInv, ConfirmedTypeOK
<1>4. Unspent'
  BY <1>1, EntryFields DEF ConfirmedInv, Unspent
<1>5. TokenOfCommand' /\ RunsAsPrepared'
  BY <1>1, <1>2, CommandFields, NoneRuns DEF ConfirmedInv, TokenOfCommand, RunsAsPrepared
<1>6. \A c \in Calls : ~Locked(c)'
  BY <1>1, <1>2, CommandFields, NoneRuns DEF Locked
<1>7. LockTellsTheTruth'
  BY <1>1, <1>6 DEF LockTellsTheTruth
<1> QED BY <1>3, <1>4, <1>5, <1>7 DEF ConfirmedInv

LEMMA ConfirmedStep == ASSUME ConfirmedInv, [Next]_vars PROVE ConfirmedInv'
<1>1. CASE UNCHANGED vars
  BY <1>1 DEF vars, ConfirmedInv, ConfirmedTypeOK, Unspent, TokenOfCommand, RunsAsPrepared,
              LockTellsTheTruth, Locked
<1>2. CASE \E t \in Tokens : Expire(t) \/ TimerDeletes(t)
  BY <1>2, ConfirmedExpire, ConfirmedTimer
<1>3. CASE \E t \in Tokens, p \in Purpose : Prepare(t, p)
  BY <1>3, ConfirmedPrepare
<1>4. CASE \E t \in Tokens, op \in Ops, p \in Proposals \union {NoProposal} : Ask(t, op, p)
  BY <1>4, ConfirmedAsk
<1>5. CASE \E c \in Calls : Feedback(c) \/ Answer(c) \/ OrphanEnds(c)
  BY <1>5, ConfirmedFeedback, ConfirmedAnswer, ConfirmedOrphanEnds
<1> QED BY <1>1, <1>2, <1>3, <1>4, <1>5, ConfirmedRestart DEF Next

(* In every behaviour.                                                     *)
LEMMA ConfirmedInvariant == Spec => []ConfirmedInv
<1>1. Init => ConfirmedInv
  BY ConfirmedInit
<1>2. ConfirmedInv /\ [Next]_vars => ConfirmedInv'
  BY ConfirmedStep
<1> QED BY <1>1, <1>2, PTL DEF Spec

-----------------------------------------------------------------------------
(* The store, the lock and the commands have the types the code gives      *)
(* them (createConfirmationToken, acquireWriteLock, the handlers).         *)
THEOREM ConfirmedTypeCorrect == Spec => []ConfirmedTypeOK
<1>1. ConfirmedInv => ConfirmedTypeOK
  BY DEF ConfirmedInv
<1> QED BY <1>1, ConfirmedInvariant, PTL

(* A confirmation starts one command at most, however requests cross, and  *)
(* whatever a busy lock, a found secret, an expiry or a restart does to it *)
(* (consumeConfirmationToken, csrfCheck).                                  *)
THEOREM OneCommand == Spec => []OneCommandPerToken
<1>1. ConfirmedInv => OneCommandPerToken
  BY DEF ConfirmedInv, Unspent, OneCommandPerToken
<1> QED BY <1>1, ConfirmedInvariant, PTL

(* What runs is the operation, and the proposal, its token was prepared    *)
(* for (handlePrepare, csrfCheck), also when the server is long gone.      *)
THEOREM OnlyWhatWasPrepared == Spec => []RunsAsPrepared
<1>1. ConfirmedInv => RunsAsPrepared
  BY DEF ConfirmedInv
<1> QED BY <1>1, ConfirmedInvariant, PTL

(* The write lock is held exactly while one command of the living server   *)
(* runs under it (write-lock.ts), although anybody may release it.         *)
THEOREM LockTells == Spec => []LockTellsTheTruth
<1>1. ConfirmedInv => LockTellsTheTruth
  BY DEF ConfirmedInv
<1> QED BY <1>1, ConfirmedInvariant, PTL

(* The three together: what runs was confirmed, once, and runs alone.      *)
THEOREM ConfirmedAndAlone == Spec => []WritesAreConfirmed
<1> QED BY OneCommand, OnlyWhatWasPrepared, LockTells, PTL DEF WritesAreConfirmed

-----------------------------------------------------------------------------
(* The log of agent runs: where the newest record of a run is, and what it *)
(* says.                                                                   *)

(* A record of the log.                                                    *)
RunRecord == [run : Runs, flags : SUBSET Flags, feedback : Nat, done : BOOLEAN]

(* A record says what completions have reported of its run.                *)
Tells(e, r) ==
    /\ e.flags = reported[r].flags /\ e.done = reported[r].done
    /\ server = "http" /\ reported[r].feedback # <<>> => <<e.feedback>> = reported[r].feedback

(* The first record of a run, which tells all, and the rest behind it.     *)
First(r, i) == i \in A!Places(r) /\ \A j \in A!Places(r) : i <= j

(* The first record of each run tells what was reported of it, and         *)
(* records behind it are older ones; what has not started has no record.   *)
LogInv ==
    /\ log \in Seq(RunRecord)
    /\ reported = [r \in Runs |-> reported[r]]
    /\ \A i \in DOMAIN log : log[i].run \in started
    /\ \A r \in Runs \ started : reported[r] = A!Nothing
    /\ \A r \in Runs : A!Places(r) # {} => \E i \in A!Places(r) : First(r, i) /\ Tells(log[i], r)
    /\ A!RecordsGrow

(* The newest record of a run is its first.                                *)
LEMMA NewestIsFirst ==
    ASSUME LogInv, NEW r, NEW i, First(r, i)
    PROVE  A!Newest(r) = i
<1>1. A!Places(r) \subseteq Nat
  BY DEF A!Places, LogInv
<1> QED BY <1>1 DEF A!Newest, First

(* A record comes in front, and what is over the limit falls off.          *)
LEMMA RecordedInFront ==
    ASSUME LogInv, NEW e \in RunRecord
    PROVE  LET new == A!Recorded(e)
           IN  /\ new \in Seq(RunRecord) /\ 1 \in DOMAIN new /\ new[1] = e
               /\ \A i \in DOMAIN new : i # 1 => i - 1 \in DOMAIN log /\ new[i] = log[i - 1]
               /\ Len(new) \in Nat /\ DOMAIN new = 1..Len(new)
               /\ \A i \in DOMAIN log : i + 1 <= Len(new) => new[i + 1] = log[i]
<1> DEFINE longer == <<e>> \o log
<1>1. /\ longer \in Seq(RunRecord) /\ Len(longer) = Len(log) + 1 /\ longer[1] = e
      /\ \A i \in 2..Len(longer) : longer[i] = log[i - 1]
      /\ Len(log) \in Nat
  BY DEF LogInv
<1>2. MaxAgentRuns \in Nat /\ MaxAgentRuns >= 1
  BY FrontAssumption DEF FrontAssumption
<1>3. A!Recorded(e) = IF Len(longer) > MaxAgentRuns THEN SubSeq(longer, 1, MaxAgentRuns) ELSE longer
  BY DEF A!Recorded
<1> HIDE DEF longer
<1>6. PICK k \in Nat \ {0} :
         /\ k <= Len(longer) /\ A!Recorded(e) \in Seq(RunRecord) /\ Len(A!Recorded(e)) = k
         /\ \A i \in 1..k : A!Recorded(e)[i] = longer[i]
  <2>1. CASE Len(longer) > MaxAgentRuns
    <3> DEFINE cut == SubSeq(longer, 1, MaxAgentRuns)
    <3>1. /\ cut \in Seq(RunRecord) /\ Len(cut) = MaxAgentRuns
          /\ \A i \in 1..MaxAgentRuns : cut[i] = longer[i]
      BY <1>1, <1>2, <2>1
    <3>2. A!Recorded(e) = cut
      BY <1>3, <2>1
    <3> HIDE DEF cut
    <3> QED BY <1>1, <1>2, <2>1, <3>1, <3>2
  <2>2. CASE ~(Len(longer) > MaxAgentRuns)
    <3>1. A!Recorded(e) = longer /\ Len(longer) \in Nat \ {0}
      BY <1>1, <1>3, <2>2
    <3> QED BY <1>1, <3>1
  <2> QED BY <2>1, <2>2
<1>7. DOMAIN A!Recorded(e) = 1..k /\ DOMAIN log = 1..Len(log)
  BY <1>6 DEF LogInv
<1>8. ASSUME NEW i \in 1..k, i # 1
      PROVE  i - 1 \in DOMAIN log /\ A!Recorded(e)[i] = log[i - 1]
  <2>1. i \in 2..Len(longer) /\ i - 1 \in 1..Len(log)
    BY <1>1, <1>6, <1>8
  <2> QED BY <1>1, <1>6, <1>7, <2>1
<1>9. ASSUME NEW i \in DOMAIN log, i + 1 <= k
      PROVE  A!Recorded(e)[i + 1] = log[i]
  <2>1. i + 1 \in 1..k /\ i + 1 # 1 /\ (i + 1) - 1 = i
    BY <1>1, <1>6, <1>7, <1>9
  <2> QED BY <1>8, <2>1
<1> QED BY <1>1, <1>6, <1>7, <1>8, <1>9

(* What both Start and Complete do to the log.                             *)
LEMMA RecordKeeps ==
    ASSUME LogInv, NEW r \in Runs, NEW e \in RunRecord, e.run = r, r \in started',
           log' = A!Recorded(e), started \subseteq started', UNCHANGED server,
           reported' = [reported EXCEPT ![r] = reported'[r]],
           \A i \in A!Places(r) : log[i].flags \subseteq e.flags /\ (log[i].done => e.done),
           Tells(e, r)'
    PROVE  LogInv'
<1>1. /\ log' \in Seq(RunRecord) /\ 1 \in DOMAIN log' /\ log'[1] = e
      /\ \A i \in DOMAIN log' : i # 1 => i - 1 \in DOMAIN log /\ log'[i] = log[i - 1]
      /\ DOMAIN log' \subseteq Nat \ {0} /\ DOMAIN log \subseteq Nat \ {0}
      /\ \A i \in DOMAIN log' : \A j \in Nat \ {0} : j <= i => j \in DOMAIN log'
      /\ \A i \in DOMAIN log : i + 1 \in DOMAIN log' => log'[i + 1] = log[i]
  <2>1. Len(log') \in Nat /\ DOMAIN log' = 1..Len(log') /\ Len(log) \in Nat /\ DOMAIN log = 1..Len(log)
    BY RecordedInFront DEF LogInv
  <2> QED BY <2>1, RecordedInFront
<1>2. \A i \in DOMAIN log' : log'[i].run \in started'
  BY <1>1 DEF LogInv
<1>3. reported' = [q \in Runs |-> reported'[q]] /\ \A q \in Runs : q # r => reported'[q] = reported[q]
  BY DEF LogInv
<1>4. \A q \in Runs \ started' : reported'[q] = A!Nothing
  BY <1>3 DEF LogInv
<1>5. \A i \in DOMAIN log' : i # 1 => (log'[i].run = log[i - 1].run /\ i \in Nat /\ i - 1 \in Nat)
  BY <1>1
<1>6. ASSUME NEW q \in Runs, A!Places(q)' # {}
      PROVE  \E i \in A!Places(q)' : First(q, i)' /\ Tells(log[i], q)'
  <2>1. CASE q = r
    <3>1. 1 \in A!Places(q)'
      BY <1>1, <2>1 DEF A!Places
    <3>2. First(q, 1)'
      BY <1>1, <3>1 DEF First, A!Places
    <3> QED BY <1>1, <2>1, <3>1, <3>2
  <2>2. CASE q # r
    <3>1. PICK k \in DOMAIN log' : log'[k].run = q
      BY <1>6 DEF A!Places
    <3>2. k # 1 /\ k - 1 \in A!Places(q)
      BY <1>1, <2>2, <3>1 DEF A!Places
    <3>3. PICK i \in A!Places(q) : First(q, i) /\ Tells(log[i], q)
      BY <3>2 DEF LogInv
    <3>4. i \in DOMAIN log /\ i \in Nat \ {0} /\ i <= k - 1
      BY <1>1, <3>2, <3>3 DEF First, A!Places
    <3>5. i + 1 \in DOMAIN log' /\ log'[i + 1] = log[i]
      BY <1>1, <3>4, <3>1
    <3>6. i + 1 \in A!Places(q)'
      BY <3>3, <3>5 DEF A!Places
    <3>7. ASSUME NEW j \in A!Places(q)' PROVE i + 1 <= j
      <4>1. j \in DOMAIN log' /\ log'[j].run = q /\ j # 1
        BY <1>1, <2>2 DEF A!Places
      <4>2. j - 1 \in A!Places(q) /\ j \in Nat
        BY <1>1, <4>1 DEF A!Places
      <4> QED BY <3>3, <3>4, <4>2 DEF First
    <3>8. Tells(log[i + 1], q)'
      BY <1>3, <2>2, <3>3, <3>5 DEF Tells
    <3> QED BY <3>6, <3>7, <3>8 DEF First
  <2> QED BY <2>1, <2>2
<1>7. A!RecordsGrow'
  <2> SUFFICES ASSUME NEW i \in DOMAIN log', NEW j \in DOMAIN log', i < j,
                      log'[i].run = log'[j].run
               PROVE  log'[j].flags \subseteq log'[i].flags /\ (log'[j].done => log'[i].done)
    BY DEF A!RecordsGrow
  <2>1. j # 1 /\ j - 1 \in DOMAIN log /\ log'[j] = log[j - 1]
    BY <1>1
  <2>2. CASE i = 1
    BY <1>1, <2>1, <2>2 DEF A!Places
  <2>3. CASE i # 1
    <3>1. i - 1 \in DOMAIN log /\ log'[i] = log[i - 1] /\ i - 1 < j - 1
      BY <1>1, <2>1, <2>3
    <3> QED BY <2>1, <3>1 DEF LogInv, A!RecordsGrow
  <2> QED BY <2>2, <2>3
<1> QED BY <1>1, <1>2, <1>3, <1>4, <1>6, <1>7 DEF LogInv

LEMMA StartKeepsLog == ASSUME LogInv, NEW r \in Runs, A!Start(r) PROVE LogInv'
<1> DEFINE e == [run |-> r, flags |-> {}, feedback |-> 0, done |-> FALSE]
<1>1. e \in RunRecord /\ e.run = r /\ e.flags = {} /\ ~e.done /\ e.done = FALSE
  BY DEF RunRecord
<1>2. A!Places(r) = {}
  BY DEF LogInv, A!Places, A!Start
<1>3. reported'[r] = A!Nothing /\ reported' = reported
  BY DEF LogInv, A!Start
<1>4. Tells(e, r)'
  BY <1>1, <1>3 DEF Tells, A!Nothing
<1>5. /\ log' = A!Recorded(e) /\ started' = started \union {r} /\ UNCHANGED server
      /\ reported' = [reported EXCEPT ![r] = reported'[r]]
  BY <1>3 DEF A!Start, LogInv
<1> HIDE DEF e
<1> QED BY <1>1, <1>2, <1>4, <1>5, RecordKeeps

(* What a completion makes of a record.                                    *)
LEMMA CompletedIs ==
    ASSUME NEW old \in RunRecord, NEW fs \in SUBSET Flags, NEW n \in Nat
    PROVE  \E e \in RunRecord :
               /\ e = A!Completed(old, fs, n) /\ e.run = old.run
               /\ e.flags = old.flags \union fs /\ e.done = TRUE
               /\ n # 0 => e.feedback = n
               /\ n = 0 /\ server = "http" => e.feedback = old.feedback
<1> DEFINE f == IF n # 0 \/ server = "mcp" THEN n ELSE old.feedback
           e == [old EXCEPT !.flags = old.flags \union fs, !.feedback = f, !.done = TRUE]
<1>1. A!Completed(old, fs, n) = e
  BY DEF A!Completed
<1>2. f \in Nat /\ old.flags \union fs \in SUBSET Flags
  BY DEF RunRecord
<1> HIDE DEF f
<1>3. /\ e \in RunRecord /\ e.run = old.run
      /\ e.flags = old.flags \union fs /\ e.done = TRUE /\ e.feedback = f
  BY <1>2 DEF RunRecord
<1>4. (n # 0 => f = n) /\ (n = 0 /\ server = "http" => f = old.feedback)
  BY DEF f
<1> HIDE DEF e
<1> QED BY <1>1, <1>3, <1>4

(* A completion adds to the newest record, or makes one.                   *)
LEMMA CompleteKeepsLog ==
    ASSUME LogInv, NEW r \in Runs, r \in started, NEW fs \in SUBSET Flags, NEW n \in Nat,
           A!Complete(r, fs, n)
    PROVE  LogInv'
<1>1. CASE A!Places(r) = {}
  BY <1>1 DEF A!Complete, LogInv, A!Places, First, Tells, A!RecordsGrow
<1>2. CASE A!Places(r) # {}
  <2>1. PICK i \in A!Places(r) : First(r, i) /\ Tells(log[i], r)
    BY <1>2 DEF LogInv
  <2>2. A!Newest(r) = i /\ i \in DOMAIN log /\ log[i] \in RunRecord /\ log[i].run = r
    BY <2>1, NewestIsFirst DEF A!Places, LogInv
  <2>3. PICK e \in RunRecord :
           /\ e = A!Completed(log[i], fs, n)
           /\ e.run = r /\ e.flags = log[i].flags \union fs
           /\ e.done = TRUE
           /\ n # 0 => e.feedback = n
           /\ n = 0 /\ server = "http" => e.feedback = log[i].feedback
    <3>1. log[i] \in RunRecord /\ log[i].run = r
      BY <2>2
    <3> DEFINE old == log[i]
    <3> HIDE DEF old
    <3>2. PICK e \in RunRecord :
               /\ e = A!Completed(old, fs, n) /\ e.run = old.run
               /\ e.flags = old.flags \union fs /\ e.done = TRUE
               /\ n # 0 => e.feedback = n
               /\ n = 0 /\ server = "http" => e.feedback = old.feedback
      <4>1. old \in RunRecord
        BY <3>1 DEF old
      <4> QED BY <4>1, CompletedIs
    <3> QED BY <3>1, <3>2 DEF old
  <2>4. /\ log' = A!Recorded(e) /\ UNCHANGED <<server, started>>
        /\ reported' = [reported EXCEPT ![r] =
                  [flags |-> @.flags \union fs,
                   feedback |-> IF n = 0 THEN @.feedback ELSE <<n>>,
                   done |-> TRUE]]
    BY <1>2, <2>2, <2>3 DEF A!Complete
  <2>5. reported'[r] = [flags |-> reported[r].flags \union fs,
                        feedback |-> IF n = 0 THEN reported[r].feedback ELSE <<n>>,
                        done |-> TRUE]
        /\ reported' = [reported EXCEPT ![r] = reported'[r]]
    BY <2>4 DEF LogInv
  <2>6. Tells(e, r)'
    <3>1. server' = server /\ reported'[r].flags = reported[r].flags \union fs
          /\ reported'[r].done = TRUE
          /\ reported'[r].feedback = IF n = 0 THEN reported[r].feedback ELSE <<n>>
      BY <2>4, <2>5
    <3>2. e.flags = reported'[r].flags /\ e.done = reported'[r].done
      BY <2>1, <2>3, <3>1 DEF Tells
    <3>3. server = "http" /\ reported'[r].feedback # <<>> => <<e.feedback>> = reported'[r].feedback
      <4>1. CASE n = 0
        BY <2>1, <2>3, <3>1, <4>1 DEF Tells
      <4>2. CASE n # 0
        BY <2>3, <3>1, <4>2
      <4> QED BY <4>1, <4>2
    <3> QED BY <3>1, <3>2, <3>3 DEF Tells
  <2>7. \A j \in A!Places(r) : log[j].flags \subseteq e.flags /\ (log[j].done => e.done)
    <3> SUFFICES ASSUME NEW j \in A!Places(r) PROVE log[j].flags \subseteq log[i].flags
      BY <2>3
    <3>1. i = j \/ i < j
      BY <2>1, <2>2 DEF First, A!Places, LogInv
    <3> QED BY <2>2, <3>1 DEF LogInv, A!RecordsGrow, A!Places
  <2> QED BY <2>3, <2>4, <2>5, <2>6, <2>7, RecordKeeps
<1> QED BY <1>1, <1>2

(* What completions report is told by the newest record, whatever the      *)
(* limit has taken away: recordAgentRun, handleAgentRunComplete.           *)
THEOREM RunsTold == A!Spec => []RecordsTell
<1>1. A!Init => LogInv
  <2> SUFFICES ASSUME A!Init PROVE LogInv
    OBVIOUS
  <2>1. log = <<>> /\ DOMAIN log = {} /\ log \in Seq(RunRecord)
    BY DEF A!Init
  <2> QED BY <2>1 DEF A!Init, LogInv, A!Places, A!RecordsGrow
<1>2. LogInv /\ [A!Next]_A!vars => LogInv'
  <2> SUFFICES ASSUME LogInv, [A!Next]_A!vars PROVE LogInv'
    OBVIOUS
  <2>1. CASE UNCHANGED A!vars
    BY <2>1 DEF A!vars, LogInv, A!Places, First, Tells, A!RecordsGrow
  <2>2. 0..MaxFeedback \subseteq Nat
    OBVIOUS
  <2> QED BY <2>1, <2>2, StartKeepsLog, CompleteKeepsLog DEF A!Next
<1>3. LogInv => RecordsTell
  <2> SUFFICES ASSUME LogInv PROVE A!NewestTellsAll
    BY DEF RecordsTell, A!RecordsTell, LogInv
  <2> SUFFICES ASSUME NEW r \in Runs, A!Places(r) # {} PROVE Tells(log[A!Newest(r)], r)
    BY DEF A!NewestTellsAll, Tells
  <2>1. PICK i \in A!Places(r) : First(r, i) /\ Tells(log[i], r)
    BY DEF LogInv
  <2> QED BY <2>1, NewestIsFirst
<1> QED BY <1>1, <1>2, <1>3, PTL DEF A!Spec

-----------------------------------------------------------------------------
(* The checks of write requests: CSRF tokens, and limits per window.       *)

Never == R!Never

(* A token of which the time it was made, its last use and the requests it *)
(* let through are known: while the secret vouches for it, it is           *)
(* remembered from the last of them until it expires.                      *)
Remembered(time, used, last) ==
    IF used = Never THEN last + TTL < time ELSE last <= used

TokenTells(time, made, vouched, used, let) ==
    /\ made = Never => let = <<>> /\ ~vouched
    /\ made <= time
    /\ \/ let = <<>>
       \/ \E a \in Int : /\ let = <<a>> /\ made <= a /\ a <= time
                         /\ vouched => Remembered(time, used, a)
       \/ /\ let = <<made, made + TTL>>
          /\ vouched => made + TTL <= time /\ Remembered(time, used, made + TTL)

(* Requests were served in windows that do not overlap, no more in each    *)
(* than the limit, and when as many the first of them opened it.           *)
Served == [at : Int, until : Int]

Windows(q, max, len, time) ==
    /\ \A k \in 1..Len(q) :
          q[k].at \in (q[k].until - len)..q[k].until /\ q[k].at <= time
    /\ \A j, k \in 1..Len(q) :
          j < k => q[j].until = q[k].until \/ q[j].until < q[k].until - len
    /\ \A k \in 1..Len(q) : k + max \in 1..Len(q) => q[k + max].until # q[k].until
    /\ \A k \in 1..Len(q) :
          k + max - 1 \in 1..Len(q) /\ q[k + max - 1].until = q[k].until
          => q[k].at = q[k].until - len

(* The entry of the client counts at least what its window has served.     *)
Counts(q, e, len, time) ==
    IF e = R!NoEntry THEN \A k \in 1..Len(q) : q[k].until < time
    ELSE /\ e.count # 0 /\ e.resetAt - len <= time
         /\ \A k \in 1..Len(q) :
               \/ q[k].until < e.resetAt - len
               \/ /\ q[k].until = e.resetAt /\ k > Len(q) - e.count
                  /\ k = Len(q) - e.count + 1 => q[k].at = e.resetAt - len

(* The entry of a client, as it is kept for a limiter.                     *)
ClientEntry == [count : Nat, resetAt : Int]

(* What was served and the entry of the client agree.                      *)
LimitTells(q, e, max, len, time) ==
    /\ q \in Seq(Served) /\ e \in ClientEntry
    /\ Windows(q, max, len, time) /\ Counts(q, e, len, time)

(* What is known of each token and of each limiter; of a token nothing     *)
(* after a restart with a secret that stays.                               *)
RequestsInv ==
    /\ now \in Nat /\ reboots \in Nat
    /\ seen \in [CsrfTokens -> Int] /\ issued \in [CsrfTokens -> Int]
    /\ signed \subseteq CsrfTokens /\ DOMAIN passed = CsrfTokens
    /\ entry \in [R!Limiters -> ClientEntry] /\ DOMAIN served = R!Limiters
    /\ ~(configured /\ reboots > 0) =>
          \A t \in CsrfTokens : TokenTells(now, issued[t], t \in signed, seen[t], passed[t])
    /\ \A l \in R!Limiters : LimitTells(served[l], entry[l], MaxRequests[l], Window, now)

-----------------------------------------------------------------------------
(* Limits.                                                                 *)

(* The requests served and their times.                                    *)
LEMMA ServedTimes ==
    ASSUME NEW q \in Seq(Served)
    PROVE  /\ Len(q) \in Nat
           /\ \A k \in 1..Len(q) : q[k] \in Served /\ q[k].at \in Int /\ q[k].until \in Int
<1>1. Len(q) \in Nat /\ \A k \in 1..Len(q) : q[k] \in Served
  OBVIOUS
<1>2. \A r \in Served : r.at \in Int /\ r.until \in Int
  BY DEF Served
<1> QED
  BY <1>1, <1>2

(* A request that counts: the window goes on, or a new one begins; and     *)
(* the request is served if it is within the limit.                        *)
LEMMA CountedMore ==
    ASSUME NEW q, NEW e, NEW l \in R!Limiters,
           now \in Nat, Window \in Nat, MaxRequests[l] \in Nat \ {0},
           LimitTells(q, e, MaxRequests[l], Window, now)
    PROVE  LET more == R!Counted(e, l)
           IN  /\ LimitTells(q, more, MaxRequests[l], Window, now)
               /\ more.count <= MaxRequests[l]
                  => LimitTells(Append(q, [at |-> now, until |-> more.resetAt]), more,
                                MaxRequests[l], Window, now)
<1> DEFINE max == MaxRequests[l]
           more == R!Counted(e, l)
           r == [at |-> now, until |-> more.resetAt]
           p == Append(q, r)
<1>1. e \in ClientEntry /\ q \in Seq(Served) /\ Len(q) \in Nat
      /\ \A k \in 1..Len(q) : q[k] \in Served /\ q[k].at \in Int /\ q[k].until \in Int
  <2>1. e \in ClientEntry /\ q \in Seq(Served)
    BY DEF LimitTells
  <2> QED
    BY <2>1, ServedTimes
<1>2. e.count \in Nat /\ e.resetAt \in Int
  BY <1>1 DEF ClientEntry
<1>3. R!NoEntry.count = 0 /\ R!NoEntry \in ClientEntry
  BY DEF R!NoEntry, ClientEntry, R!Never
<1>4. /\ more \in ClientEntry
      /\ e = R!NoEntry \/ now > e.resetAt => more.count = 1 /\ more.resetAt = now + Window
      /\ ~(e = R!NoEntry \/ now > e.resetAt) =>
            /\ more.resetAt = e.resetAt /\ more.count >= e.count
            /\ more.count <= max => more.count = e.count + 1
  <2>1. CASE e = R!NoEntry \/ now > e.resetAt
    BY <2>1 DEF R!Counted, ClientEntry
  <2>2. CASE ~(e = R!NoEntry \/ now > e.resetAt)
    <3>1. more = [e EXCEPT !.count = IF @ > max THEN @ ELSE @ + 1]
      BY <2>2 DEF R!Counted
    <3>2. more.resetAt = e.resetAt /\ more.count = (IF e.count > max THEN e.count ELSE e.count + 1)
          /\ more \in ClientEntry
      BY <3>1, <1>1, <1>2 DEF ClientEntry
    <3> QED
      BY <3>2, <2>2, <1>2
  <2> QED
    BY <2>1, <2>2
<1>5. more # R!NoEntry /\ more.count # 0
  <2>1. CASE e = R!NoEntry \/ now > e.resetAt
    BY <2>1, <1>4, <1>3
  <2>2. CASE ~(e = R!NoEntry \/ now > e.resetAt)
    <3>1. e.count # 0
      BY <2>2 DEF LimitTells, Counts
    <3> QED
      BY <2>2, <3>1, <1>4, <1>3, <1>2 DEF ClientEntry
  <2> QED
    BY <2>1, <2>2
<1>6. more.count \in Nat /\ more.resetAt \in Int
  BY <1>4 DEF ClientEntry
<1> HIDE DEF more, max
(* What the old entry says of what was served, in terms of the new one.    *)
<1>7. /\ more.resetAt - Window <= now
      /\ now <= more.resetAt
      /\ \A k \in 1..Len(q) :
            \/ q[k].until < more.resetAt - Window
            \/ /\ q[k].until = more.resetAt /\ k > Len(q) - more.count
               /\ k = Len(q) - more.count + 1 => q[k].at = more.resetAt - Window
               /\ more.count <= max =>
                     /\ k > Len(q) + 1 - more.count
                     /\ k = Len(q) + 2 - more.count => q[k].at = more.resetAt - Window
  <2>1. CASE e = R!NoEntry
    BY <2>1, <1>1, <1>4 DEF LimitTells, Counts
  <2>2. CASE e # R!NoEntry /\ now > e.resetAt
    <3>1. \A k \in 1..Len(q) : q[k].until <= e.resetAt
      BY <2>2, <1>1, <1>2 DEF LimitTells, Counts
    <3> QED
      BY <3>1, <2>2, <1>1, <1>2, <1>4
  <2>3. CASE e # R!NoEntry /\ ~(now > e.resetAt)
    <3>1. /\ e.resetAt - Window <= now
          /\ \A k \in 1..Len(q) :
                \/ q[k].until < e.resetAt - Window
                \/ /\ q[k].until = e.resetAt /\ k > Len(q) - e.count
                   /\ k = Len(q) - e.count + 1 => q[k].at = e.resetAt - Window
      BY <2>3 DEF LimitTells, Counts
    <3>2. more.resetAt = e.resetAt /\ more.count >= e.count
          /\ (more.count <= max => more.count = e.count + 1)
      BY <2>3, <1>4
    <3>3. now <= e.resetAt
      BY <2>3, <1>2
    <3> QED
      BY <3>1, <3>2, <3>3, <1>1, <1>2, <1>6
  <2> QED
    BY <2>1, <2>2, <2>3
<1>8. LimitTells(q, more, max, Window, now)
  BY <1>7, <1>5, <1>4, <1>1 DEF LimitTells, Counts, max
<1>9. ASSUME more.count <= max
      PROVE  LimitTells(p, more, max, Window, now)
  <2>1. r \in Served /\ r.at = now /\ r.until = more.resetAt
    BY <1>6 DEF Served
  <2>2. /\ p \in Seq(Served) /\ Len(p) = Len(q) + 1
        /\ p[Len(q) + 1] = r /\ \A k \in 1..Len(q) : p[k] = q[k]
    BY <2>1, <1>1
  <2> HIDE DEF p, r
  <2>3. max \in Nat \ {0}
    BY DEF max
  <2>4. \A k \in 1..Len(p) : k \in 1..Len(q) \/ k = Len(q) + 1
    BY <2>2, <1>1
  <2>5. /\ \A k \in 1..Len(q) :
              q[k].at \in (q[k].until - Window)..q[k].until /\ q[k].at <= now
        /\ \A j, k \in 1..Len(q) :
              j < k => q[j].until = q[k].until \/ q[j].until < q[k].until - Window
        /\ \A k \in 1..Len(q) : k + max \in 1..Len(q) => q[k + max].until # q[k].until
        /\ \A k \in 1..Len(q) :
              k + max - 1 \in 1..Len(q) /\ q[k + max - 1].until = q[k].until
              => q[k].at = q[k].until - Window
    BY DEF LimitTells, Windows, max
  <2>6. \A k \in 1..Len(p) :
           p[k].at \in (p[k].until - Window)..p[k].until /\ p[k].at <= now
    BY <2>1, <2>2, <2>4, <2>5, <1>7, <1>6, <1>1
  <2>7. \A j, k \in 1..Len(p) :
           j < k => p[j].until = p[k].until \/ p[j].until < p[k].until - Window
    <3>1. \A j, k \in 1..Len(p) : j < k => j \in 1..Len(q)
      BY <2>2, <1>1
    <3>2. \A j \in 1..Len(q) : p[j].until = r.until \/ p[j].until < r.until - Window
      BY <2>1, <2>2, <1>7
    <3> QED
      BY <3>1, <3>2, <2>2, <2>4, <2>5
  <2>8. \A k \in 1..Len(p) : k + max \in 1..Len(p) => p[k + max].until # p[k].until
    <3> SUFFICES ASSUME NEW k \in 1..Len(p), k + max \in 1..Len(p)
                 PROVE  p[k + max].until # p[k].until
      OBVIOUS
    <3>1. k \in 1..Len(q)
      BY <2>2, <2>3, <1>1
    <3>2. CASE k + max \in 1..Len(q)
      BY <3>1, <3>2, <2>2, <2>5
    <3>3. CASE k + max = Len(q) + 1
      <4>1. ~(k > Len(q) + 1 - more.count)
        BY <3>3, <1>9, <1>6, <2>3, <1>1
      <4>2. q[k].until < more.resetAt - Window
        BY <4>1, <3>1, <1>7, <1>9
      <4> QED
        BY <4>2, <3>1, <3>3, <2>1, <2>2, <1>1, <1>6
    <3> QED
      BY <3>2, <3>3, <2>4
  <2>9. \A k \in 1..Len(p) :
           k + max - 1 \in 1..Len(p) /\ p[k + max - 1].until = p[k].until
           => p[k].at = p[k].until - Window
    <3> SUFFICES ASSUME NEW k \in 1..Len(p), k + max - 1 \in 1..Len(p),
                        p[k + max - 1].until = p[k].until
                 PROVE  p[k].at = p[k].until - Window
      OBVIOUS
    <3>1. CASE k + max - 1 \in 1..Len(q)
      <4>1. k \in 1..Len(q)
        BY <3>1, <2>3, <1>1
      <4> QED
        BY <4>1, <3>1, <2>2, <2>5
    <3>2. CASE k + max - 1 = Len(q) + 1 /\ k = Len(q) + 1
      <4>1. max = 1 /\ more.count = 1
        BY <3>2, <1>9, <1>5, <1>6, <2>3, <1>1
      <4>2. e = R!NoEntry \/ now > e.resetAt
        <5> SUFFICES ASSUME ~(e = R!NoEntry \/ now > e.resetAt) PROVE FALSE
          OBVIOUS
        <5>1. more.count = e.count + 1
          BY <1>4, <1>9 DEF max
        <5>2. e.count # 0
          BY DEF LimitTells, Counts
        <5> QED
          BY <5>1, <5>2, <4>1, <1>2
      <4> QED
        BY <4>2, <3>2, <2>1, <2>2, <1>4
    <3>3. CASE k + max - 1 = Len(q) + 1 /\ k \in 1..Len(q)
      <4>1. q[k].until = more.resetAt
        BY <3>3, <2>1, <2>2
      <4>2. ~(q[k].until < more.resetAt - Window)
        BY <4>1, <1>6
      <4>3. k > Len(q) + 1 - more.count
            /\ (k = Len(q) + 2 - more.count => q[k].at = more.resetAt - Window)
        BY <4>2, <3>3, <1>7, <1>9
      <4>4. k = Len(q) + 2 - more.count
        BY <4>3, <3>3, <1>9, <1>6, <2>3, <1>1
      <4> QED
        BY <4>1, <4>3, <4>4, <3>3, <2>2
    <3> QED
      BY <3>1, <3>2, <3>3, <2>4
  <2>10. \A k \in 1..Len(p) :
            \/ p[k].until < more.resetAt - Window
            \/ /\ p[k].until = more.resetAt /\ k > Len(p) - more.count
               /\ k = Len(p) - more.count + 1 => p[k].at = more.resetAt - Window
    <3>1. ASSUME NEW k \in 1..Len(q)
          PROVE  \/ p[k].until < more.resetAt - Window
                 \/ /\ p[k].until = more.resetAt /\ k > Len(p) - more.count
                    /\ k = Len(p) - more.count + 1 => p[k].at = more.resetAt - Window
      <4>1. Len(p) - more.count = Len(q) + 1 - more.count
            /\ Len(p) - more.count + 1 = Len(q) + 2 - more.count
        BY <2>2, <1>1, <1>6
      <4> QED
        BY <4>1, <3>1, <2>2, <1>7, <1>9
    <3>2. /\ p[Len(q) + 1].until = more.resetAt /\ Len(q) + 1 > Len(p) - more.count
          /\ Len(q) + 1 = Len(p) - more.count + 1 => p[Len(q) + 1].at = more.resetAt - Window
      <4>1. p[Len(q) + 1].until = more.resetAt /\ p[Len(q) + 1].at = now
        BY <2>1, <2>2
      <4>2. Len(q) + 1 > Len(p) - more.count
        BY <2>2, <1>5, <1>6, <1>1
      <4>3. ASSUME Len(q) + 1 = Len(p) - more.count + 1
            PROVE  now = more.resetAt - Window
        <5>1. more.count = 1
          BY <4>3, <2>2, <1>6, <1>1
        <5>2. e = R!NoEntry \/ now > e.resetAt
          <6> SUFFICES ASSUME ~(e = R!NoEntry \/ now > e.resetAt) PROVE FALSE
            OBVIOUS
          <6>1. more.count = e.count + 1
            BY <1>4, <1>9 DEF max
          <6>2. e.count # 0
            BY DEF LimitTells, Counts
          <6> QED
            BY <6>1, <6>2, <5>1, <1>2
        <5> QED
          BY <5>2, <1>4
      <4> QED
        BY <4>1, <4>2, <4>3
    <3> QED
      BY <3>1, <3>2, <2>4
  <2>11. Windows(p, max, Window, now)
    BY <2>6, <2>7, <2>8, <2>9 DEF Windows
  <2>12. Counts(p, more, Window, now)
    BY <2>10, <1>5, <1>7 DEF Counts
  <2> QED
    BY <2>2, <2>11, <2>12, <1>4 DEF LimitTells
<1> QED
  BY <1>8, <1>9 DEF max, more

(* Time goes on, and an entry whose window is over may be dropped.         *)
LEMMA LimitStands ==
    ASSUME NEW q, NEW e, NEW max, NEW time \in Nat, NEW later \in Nat, time <= later,
           Window \in Nat, LimitTells(q, e, max, Window, time)
    PROVE  LimitTells(q, e, max, Window, later)
<1>1. e \in ClientEntry /\ q \in Seq(Served)
  BY DEF LimitTells
<1>2. /\ Len(q) \in Nat /\ e.resetAt \in Int
      /\ \A k \in 1..Len(q) : q[k].at \in Int /\ q[k].until \in Int
  BY <1>1, ServedTimes DEF ClientEntry
<1>3. Windows(q, max, Window, later)
  BY <1>2 DEF LimitTells, Windows
<1>4. Counts(q, e, Window, later)
  BY <1>2 DEF LimitTells, Counts
<1> QED
  BY <1>1, <1>3, <1>4 DEF LimitTells

(* An entry that is dropped after its window stands for nothing.           *)
LEMMA LimitDropped ==
    ASSUME NEW q, NEW e, NEW max, now \in Nat, Window \in Nat, LimitTells(q, e, max, Window, now),
           e # R!NoEntry, now > e.resetAt
    PROVE  LimitTells(q, R!NoEntry, max, Window, now)
<1>1. e \in ClientEntry /\ q \in Seq(Served)
  BY DEF LimitTells
<1>2. /\ Len(q) \in Nat /\ e.resetAt \in Int
      /\ \A k \in 1..Len(q) : q[k].at \in Int /\ q[k].until \in Int
  BY <1>1, ServedTimes DEF ClientEntry
<1>3. \A k \in 1..Len(q) : q[k].until < now
  BY <1>2 DEF LimitTells, Counts
<1> QED
  BY <1>1, <1>3 DEF LimitTells, Counts, ClientEntry, R!NoEntry, R!Never

(* Nothing has been served at first.                                       *)
LEMMA LimitNew ==
    ASSUME NEW max, NEW time \in Nat
    PROVE  LimitTells(<<>>, R!NoEntry, max, Window, time)
BY DEF LimitTells, Windows, Counts, ClientEntry, R!NoEntry, R!Never

(* Two windows, one after the other, are apart.                            *)
LEMMA Apart ==
    ASSUME NEW a \in Int, NEW b \in Int, NEW c \in Int, NEW len \in Nat,
           a < b - len, b = c \/ b < c - len
    PROVE  a < c - len
OBVIOUS

(* A request in a window that comes after one that began with it.          *)
LEMMA Later ==
    ASSUME NEW a \in Int, NEW b \in Int, NEW c \in Int, NEW d \in Int, NEW len \in Nat,
           a < c - len, b \in (a - len)..a, d \in (c - len)..c, b = a - len
    PROVE  d > b + len
OBVIOUS

(* Two requests with a whole window between theirs.                        *)
LEMMA Between ==
    ASSUME NEW a \in Int, NEW b \in Int, NEW c \in Int, NEW d \in Int, NEW m \in Int,
           NEW len \in Nat, b \in (a - len)..a, d \in (c - len)..c,
           a < m - len, m < c - len
    PROVE  d > b + len
OBVIOUS

(* What was served together with the limit before the last began more than *)
(* a window ago: of the two halves the first is either a full window, or   *)
(* in more windows than one.                                               *)
LEMMA LimitBounds ==
    ASSUME NEW q, NEW e, NEW max \in Nat \ {0}, NEW time, Window \in Nat,
           LimitTells(q, e, max, Window, time),
           NEW first \in 1..Len(q), NEW last \in 1..Len(q), last = first + 2 * max - 1
    PROVE  q[last].at > q[first].at + Window
<1> DEFINE middle == first + max - 1
<1>1. q \in Seq(Served)
  BY DEF LimitTells
<1>2. /\ Len(q) \in Nat
      /\ \A k \in 1..Len(q) : q[k].at \in Int /\ q[k].until \in Int
  BY <1>1, ServedTimes
<1>3. middle \in 1..Len(q) /\ middle + max = last /\ first + max \in 1..Len(q)
      /\ middle < last /\ first < first + max /\ first + max <= last /\ first < last
  BY <1>2
<1>4. /\ \A k \in 1..Len(q) : q[k].at \in (q[k].until - Window)..q[k].until
      /\ \A j, k \in 1..Len(q) :
            j < k => q[j].until = q[k].until \/ q[j].until < q[k].until - Window
      /\ \A k \in 1..Len(q) : k + max \in 1..Len(q) => q[k + max].until # q[k].until
      /\ \A k \in 1..Len(q) :
            k + max - 1 \in 1..Len(q) /\ q[k + max - 1].until = q[k].until
            => q[k].at = q[k].until - Window
  BY DEF LimitTells, Windows
<1>8. /\ q[first].at \in Int /\ q[first].until \in Int
      /\ q[last].at \in Int /\ q[last].until \in Int
      /\ q[middle].until \in Int /\ q[first + max].until \in Int
  BY <1>2, <1>3
<1>5. q[last].at \in (q[last].until - Window)..q[last].until
      /\ q[first].at \in (q[first].until - Window)..q[first].until
  BY <1>4
<1>6. CASE q[middle].until = q[first].until
  <2>1. q[first].at = q[first].until - Window
    BY <1>6, <1>3, <1>4
  <2>2. q[first + max].until # q[first].until
    BY <1>3, <1>4
  <2>3. q[first].until < q[first + max].until - Window
    BY <2>2, <1>3, <1>4
  <2>4. first + max = last \/ q[first + max].until = q[last].until
        \/ q[first + max].until < q[last].until - Window
    <3>1. first + max = last \/ first + max < last
      BY <1>3, <1>2
    <3> QED
      BY <3>1, <1>3, <1>4
  <2>5. q[first].until < q[last].until - Window
    BY <2>3, <2>4, <1>8, Apart
  <2> QED
    BY <2>1, <2>5, <1>8, <1>5, Later
<1>7. CASE q[middle].until # q[first].until
  <2>1. first < middle
    <3> SUFFICES ASSUME ~(first < middle) PROVE FALSE
      OBVIOUS
    <3>1. first = middle
      BY <1>2, <1>3
    <3> QED
      BY <3>1, <1>7
  <2>2. q[first].until < q[middle].until - Window
    BY <2>1, <1>3, <1>4, <1>7
  <2>3. q[last].until # q[middle].until
    BY <1>3, <1>4
  <2>4. q[middle].until < q[last].until - Window
    BY <2>3, <1>3, <1>4
  <2> QED
    BY <2>2, <2>4, <1>8, <1>5, Between
<1> QED
  BY <1>6, <1>7

-----------------------------------------------------------------------------
(* Tokens.                                                                 *)

(* The constants that are times and limits.                                *)
LEMMA Times == TTL \in Nat \ {0} /\ Window \in Nat \ {0}
                /\ \A l \in R!Limiters : MaxRequests[l] \in Nat \ {0}
BY FrontAssumption

(* What a request leaves behind, whatever its route.                       *)
LEMMA RememberedIs ==
    ASSUME NEW used \in [CsrfTokens -> Int], NEW t \in CsrfTokens, now \in Nat
    PROVE  /\ R!Remember(used, t) \in [CsrfTokens -> Int]
           /\ R!Remember(used, t)[t] = now
           /\ \A u \in CsrfTokens : u # t =>
                 \/ R!Remember(used, t)[u] = used[u]
                 \/ R!Remember(used, t)[u] = Never /\ used[u] < now - TTL
<1> DEFINE all == [used EXCEPT ![t] = now]
           few == [u \in CsrfTokens |-> IF all[u] < now - TTL THEN R!Never ELSE all[u]]
<1>1. /\ all \in [CsrfTokens -> Int] /\ all[t] = now
      /\ \A u \in CsrfTokens : u # t => all[u] = used[u]
  OBVIOUS
<1>2. R!Remember(used, t) = all \/ R!Remember(used, t) = few
  BY DEF R!Remember
<1>3. R!Never = -1 /\ TTL \in Nat
  BY Times DEF R!Never
<1> HIDE DEF all
<1>4. few \in [CsrfTokens -> Int]
  BY <1>1, <1>3
<1>5. few[t] = now
  BY <1>1, <1>3
<1>6. \A u \in CsrfTokens : u # t =>
         few[u] = used[u] \/ (few[u] = Never /\ used[u] < now - TTL)
  <2> SUFFICES ASSUME NEW u \in CsrfTokens, u # t
               PROVE  few[u] = used[u] \/ (few[u] = Never /\ used[u] < now - TTL)
    OBVIOUS
  <2>1. /\ all[u] = used[u]
        /\ all[u] < now - TTL => few[u] = R!Never
        /\ ~(all[u] < now - TTL) => few[u] = all[u]
    BY <1>1
  <2>2. CASE all[u] < now - TTL
    BY <2>1, <2>2 DEF Never
  <2>3. CASE ~(all[u] < now - TTL)
    BY <2>1, <2>3
  <2> QED
    BY <2>2, <2>3
<1> QED
  BY <1>1, <1>2, <1>4, <1>5, <1>6

(* How far the checks of a request have come: whether they have looked at  *)
(* its token, and which limits they have counted it for.                   *)
Checked == [open : BOOLEAN, token : CsrfTokens, seen : [CsrfTokens -> Int],
            entry : [R!Limiters -> ClientEntry]]

Good(t) == ~R!Replayed(seen, t) /\ R!Genuine(t)

Come(r, t, looked, counted) ==
    /\ r \in Checked /\ r.token = t
    /\ r.seen = seen \/ (r.seen = R!Remember(seen, t) /\ Good(t))
    /\ r.open => IF looked THEN r.seen = R!Remember(seen, t) /\ Good(t) ELSE r.seen = seen
    /\ \A l \in R!Limiters : r.entry[l] = entry[l] \/ r.entry[l] = R!Counted(entry[l], l)
    /\ r.open => \A l \in R!Limiters :
          IF l \in counted
          THEN r.entry[l] = R!Counted(entry[l], l) /\ r.entry[l].count <= MaxRequests[l]
          ELSE r.entry[l] = entry[l]

(* The entry of a client has its type.                                     *)
LEMMA CountedType ==
    ASSUME NEW e \in ClientEntry, NEW l \in R!Limiters, now \in Nat
    PROVE  R!Counted(e, l) \in ClientEntry
<1>1. Window \in Nat
  BY Times
<1>2. CASE e = R!NoEntry \/ now > e.resetAt
  BY <1>1, <1>2 DEF R!Counted, ClientEntry
<1>3. CASE ~(e = R!NoEntry \/ now > e.resetAt)
  <2>1. R!Counted(e, l) = [e EXCEPT !.count = IF @ > MaxRequests[l] THEN @ ELSE @ + 1]
    BY <1>3 DEF R!Counted
  <2>2. (IF e.count > MaxRequests[l] THEN e.count ELSE e.count + 1) \in Nat
    BY DEF ClientEntry
  <2> QED
    BY <2>1, <2>2 DEF ClientEntry
<1> QED
  BY <1>2, <1>3

(* A request whose token is looked at.                                     *)
LEMMA LooksAtToken ==
    ASSUME NEW t \in CsrfTokens, NEW r, NEW counted, Come(r, t, FALSE, counted), now \in Nat
    PROVE  Come(R!Csrf(r), t, TRUE, counted)
<1>1. r \in Checked /\ r.token = t
  BY DEF Come
<1>2. CASE ~r.open
  BY <1>2 DEF Come, R!Csrf
<1>3. CASE r.open /\ (R!Replayed(r.seen, r.token) \/ ~R!Genuine(r.token))
  <2>1. R!Csrf(r) = [r EXCEPT !.open = FALSE]
    BY <1>3 DEF R!Csrf
  <2> HIDE DEF Checked
  <2>2. /\ R!Csrf(r) \in Checked /\ ~R!Csrf(r).open /\ R!Csrf(r).token = t
        /\ R!Csrf(r).seen = r.seen /\ R!Csrf(r).entry = r.entry
    BY <2>1, <1>1 DEF Checked
  <2> QED
    BY <2>2 DEF Come
<1>4. CASE r.open /\ ~R!Replayed(r.seen, r.token) /\ R!Genuine(r.token)
  <2>1. R!Csrf(r) = [r EXCEPT !.seen = R!Remember(r.seen, r.token)]
    BY <1>4 DEF R!Csrf
  <2>2. r.seen = seen /\ Good(t)
    BY <1>4 DEF Come, Good
  <2>3. R!Remember(seen, t) \in [CsrfTokens -> Int]
    BY <2>2, <1>1, RememberedIs DEF Checked
  <2>4. /\ R!Csrf(r) \in Checked /\ R!Csrf(r).open /\ R!Csrf(r).token = t
        /\ R!Csrf(r).seen = R!Remember(seen, t) /\ R!Csrf(r).entry = r.entry
    BY <2>1, <2>2, <2>3, <1>1, <1>4 DEF Checked
  <2> QED
    BY <2>2, <2>4, <1>4 DEF Come
<1> QED
  BY <1>2, <1>3, <1>4

(* A request that a limiter counts.                                        *)
LEMMA CountsForLimit ==
    ASSUME NEW t \in CsrfTokens, NEW r, NEW looked \in BOOLEAN, NEW counted, NEW l \in R!Limiters,
           l \notin counted, Come(r, t, looked, counted), now \in Nat
    PROVE  Come(R!Limited(r, l), t, looked, counted \union {l})
<1> DEFINE e == R!Counted(r.entry[l], l)
           end == R!Limited(r, l)
<1>1. r \in Checked /\ r.token = t /\ r.entry \in [R!Limiters -> ClientEntry]
  BY DEF Come, Checked
<1>2. CASE ~r.open
  BY <1>2 DEF Come, R!Limited
<1>3. CASE r.open
  <2>1. end = [r EXCEPT !.entry[l] = e, !.open = e.count <= MaxRequests[l]]
    BY <1>3 DEF R!Limited
  <2>2. r.entry[l] = entry[l] /\ e = R!Counted(entry[l], l) /\ e \in ClientEntry
    BY <1>1, <1>3, CountedType DEF Come
  <2> HIDE DEF e, end
  <2>3. /\ end.token = t /\ end.seen = r.seen /\ end.entry = [r.entry EXCEPT ![l] = e]
        /\ end.open = (e.count <= MaxRequests[l])
    BY <2>1, <1>1 DEF Checked
  <2>4. end.entry \in [R!Limiters -> ClientEntry] /\ end.entry[l] = e
        /\ \A m \in R!Limiters : m # l => end.entry[m] = r.entry[m]
    BY <2>2, <2>3, <1>1
  <2>5. end = [open |-> end.open, token |-> end.token, seen |-> end.seen, entry |-> end.entry]
    BY <2>1, <1>1 DEF Checked
  <2>7. end.open \in BOOLEAN
    BY <2>3
  <2>6. end \in Checked
    <3>1. end.token \in CsrfTokens /\ end.seen \in [CsrfTokens -> Int]
      BY <2>3, <1>1 DEF Checked
    <3> QED
      BY <2>4, <2>5, <2>7, <3>1 DEF Checked
  <2>8. /\ r.seen = seen \/ (r.seen = R!Remember(seen, t) /\ Good(t))
        /\ IF looked THEN r.seen = R!Remember(seen, t) /\ Good(t) ELSE r.seen = seen
        /\ \A m \in R!Limiters : r.entry[m] = entry[m] \/ r.entry[m] = R!Counted(entry[m], m)
        /\ \A m \in R!Limiters :
              IF m \in counted
              THEN r.entry[m] = R!Counted(entry[m], m) /\ r.entry[m].count <= MaxRequests[m]
              ELSE r.entry[m] = entry[m]
    BY <1>3 DEF Come
  <2>9. \A m \in R!Limiters : end.entry[m] = entry[m] \/ end.entry[m] = R!Counted(entry[m], m)
    BY <2>2, <2>4, <2>8
  <2>10. ASSUME end.open, NEW m \in R!Limiters
         PROVE  IF m \in counted \union {l}
                THEN end.entry[m] = R!Counted(entry[m], m) /\ end.entry[m].count <= MaxRequests[m]
                ELSE end.entry[m] = entry[m]
    <3>1. CASE m = l
      BY <3>1, <2>2, <2>3, <2>4, <2>10
    <3>2. CASE m # l
      BY <3>2, <2>4, <2>8
    <3> QED
      BY <3>1, <3>2
  <2> QED
    BY <2>3, <2>6, <2>8, <2>9, <2>10, <1>1 DEF Come, end
<1> QED
  BY <1>2, <1>3

(* A token that was just remembered is a replay.                           *)
LEMMA LooksTwice ==
    ASSUME NEW t \in CsrfTokens, NEW r, NEW counted, Come(r, t, TRUE, counted), now \in Nat,
           seen \in [CsrfTokens -> Int]
    PROVE  Come(R!Csrf(r), t, TRUE, counted) /\ ~R!Csrf(r).open
<1>1. r \in Checked /\ r.token = t
  BY DEF Come
<1>2. CASE ~r.open
  BY <1>2 DEF Come, R!Csrf
<1>3. CASE r.open
  <2>1. r.seen = R!Remember(seen, t) /\ r.seen[t] = now
    BY <1>3, RememberedIs DEF Come
  <2>2. R!Replayed(r.seen, r.token)
    BY <2>1, <1>1, Times DEF R!Replayed, R!Never
  <2>3. R!Csrf(r) = [r EXCEPT !.open = FALSE]
    BY <2>2, <1>3 DEF R!Csrf
  <2>4. /\ R!Csrf(r) \in Checked /\ ~R!Csrf(r).open /\ R!Csrf(r).token = t
        /\ R!Csrf(r).seen = r.seen /\ R!Csrf(r).entry = r.entry
    BY <2>3, <1>1 DEF Checked
  <2> QED
    BY <2>4 DEF Come
<1> QED
  BY <1>2, <1>3

(* What becomes of a request on each route: its token is looked at once,   *)
(* and the limiters of the route count it.                                 *)
LEMMA OutcomeComes ==
    ASSUME NEW t \in CsrfTokens, NEW route \in R!Routes, now \in Nat,
           seen \in [CsrfTokens -> Int], entry \in [R!Limiters -> ClientEntry]
    PROVE  Come(R!Outcome(t, route), t, TRUE, R!LimitersOf(route))
<1> DEFINE r == [open |-> TRUE, token |-> t, seen |-> seen, entry |-> entry]
<1>1. Come(r, t, FALSE, {})
  <2>1. r \in Checked /\ r.open /\ r.token = t /\ r.seen = seen /\ r.entry = entry
    BY DEF Checked
  <2> HIDE DEF r
  <2>2. r.seen = seen \/ (r.seen = R!Remember(seen, t) /\ Good(t))
    BY <2>1
  <2>3. r.open => IF FALSE THEN r.seen = R!Remember(seen, t) /\ Good(t) ELSE r.seen = seen
    BY <2>1
  <2>4. \A l \in R!Limiters : r.entry[l] = entry[l] \/ r.entry[l] = R!Counted(entry[l], l)
    BY <2>1
  <2>5. r.open => \A l \in R!Limiters :
          IF l \in {}
          THEN r.entry[l] = R!Counted(entry[l], l) /\ r.entry[l].count <= MaxRequests[l]
          ELSE r.entry[l] = entry[l]
    BY <2>1
  <2> QED
    BY <2>1, <2>2, <2>3, <2>4, <2>5, Zenon DEF Come
<1>2. "write" \in R!Limiters /\ "test" \in R!Limiters /\ "test" # "write"
  BY DEF R!Limiters
<1>3. CASE route = "tasks"
  <2>1. R!Outcome(t, route) = R!Limited(R!Csrf(r), "write")
    BY <1>3 DEF R!Outcome
  <2>2. R!LimitersOf(route) = {} \union {"write"}
    BY <1>3 DEF R!LimitersOf
  <2> HIDE DEF r
  <2>3. Come(R!Csrf(r), t, TRUE, {})
    BY <1>1, LooksAtToken
  <2>4. Come(R!Limited(R!Csrf(r), "write"), t, TRUE, {} \union {"write"})
    BY <2>3, <1>2, CountsForLimit
  <2> QED
    BY <2>1, <2>2, <2>4
<1>4. CASE route = "new schedule"
  <2>1. R!Outcome(t, route) = R!Limited(R!Csrf(R!Limited(R!Csrf(r), "write")), "write")
    BY <1>4 DEF R!Outcome
  <2>2. R!LimitersOf(route) = {} \union {"write"}
    BY <1>4 DEF R!LimitersOf
  <2> HIDE DEF r
  <2>3. Come(R!Csrf(r), t, TRUE, {})
    BY <1>1, LooksAtToken
  <2>4. Come(R!Limited(R!Csrf(r), "write"), t, TRUE, {} \union {"write"})
    BY <2>3, <1>2, CountsForLimit
  <2> DEFINE twice == R!Csrf(R!Limited(R!Csrf(r), "write"))
  <2>5. Come(twice, t, TRUE, {} \union {"write"}) /\ ~twice.open
    BY <2>4, LooksTwice
  <2> HIDE DEF twice
  <2>6. R!Limited(twice, "write") = twice
    BY <2>5 DEF R!Limited
  <2> QED
    BY <2>1, <2>2, <2>5, <2>6 DEF twice
<1>5. CASE route = "acknowledge"
  <2>1. R!Outcome(t, route) = R!Csrf(R!Limited(r, "write"))
    BY <1>5 DEF R!Outcome
  <2>2. R!LimitersOf(route) = {} \union {"write"}
    BY <1>5 DEF R!LimitersOf
  <2> HIDE DEF r
  <2>3. Come(R!Limited(r, "write"), t, FALSE, {} \union {"write"})
    BY <1>1, <1>2, CountsForLimit
  <2> QED
    BY <2>1, <2>2, <2>3, LooksAtToken
<1>6. CASE route = "test message"
  <2>1. R!Outcome(t, route) = R!Limited(R!Csrf(R!Limited(r, "write")), "test")
    BY <1>6 DEF R!Outcome
  <2>2. R!LimitersOf(route) = ({} \union {"write"}) \union {"test"}
    BY <1>6 DEF R!LimitersOf
  <2> HIDE DEF r
  <2>3. Come(R!Limited(r, "write"), t, FALSE, {} \union {"write"})
    BY <1>1, <1>2, CountsForLimit
  <2>4. Come(R!Csrf(R!Limited(r, "write")), t, TRUE, {} \union {"write"})
    BY <2>3, LooksAtToken
  <2>5. "test" \notin {} \union {"write"}
    BY <1>2
  <2> DEFINE two == {} \union {"write"}
             seen2 == R!Csrf(R!Limited(r, "write"))
  <2>6. "test" \notin two /\ Come(seen2, t, TRUE, two)
    BY <2>4, <2>5
  <2> HIDE DEF two, seen2
  <2>7. Come(R!Limited(seen2, "test"), t, TRUE, two \union {"test"})
    BY <2>6, <1>2, CountsForLimit
  <2> QED
    BY <2>1, <2>2, <2>7 DEF two, seen2
<1> QED
  BY <1>3, <1>4, <1>5, <1>6 DEF R!Routes

-----------------------------------------------------------------------------
(* Steps.                                                                  *)

(* What is said of a token still holds when time passes and tokens are     *)
(* removed for age.                                                        *)
LEMMA TokenStands ==
    ASSUME NEW time \in Int, NEW later \in Int, NEW made \in Int, NEW old \in Int, NEW new \in Int,
           NEW vouched, NEW still, NEW let, TokenTells(time, made, vouched, old, let),
           time <= later, still => vouched,
           new = old \/ (new = Never /\ old < later - TTL)
    PROVE  TokenTells(later, made, still, new, let)
<1>1. TTL \in Nat
  BY Times
<1>2. \A last \in Int : Remembered(time, old, last) => Remembered(later, new, last)
  BY <1>1 DEF Remembered
<1>3. CASE let = <<>>
  BY <1>3 DEF TokenTells
<1>4. ASSUME NEW last \in Int, let = <<last>>, made <= last, last <= time,
             vouched => Remembered(time, old, last)
      PROVE  TokenTells(later, made, still, new, let)
  <2>1. let # <<>> /\ last <= later /\ (still => Remembered(later, new, last))
    BY <1>2, <1>4
  <2> QED
    BY <2>1, <1>4 DEF TokenTells
<1>5. ASSUME let = <<made, made + TTL>>,
             vouched => made + TTL <= time /\ Remembered(time, old, made + TTL)
      PROVE  TokenTells(later, made, still, new, let)
  <2>1. let # <<>> /\ (still => made + TTL <= later /\ Remembered(later, new, made + TTL))
    BY <1>1, <1>2, <1>5
  <2> QED
    BY <2>1, <1>5 DEF TokenTells
<1> QED
  BY <1>3, <1>4, <1>5 DEF TokenTells

LEMMA TwoTimes == ASSUME NEW a \in Int, NEW b \in Int PROVE Append(<<a>>, b) = <<a, b>>
<1>1. <<a>> \in Seq(Int) /\ Len(<<a>>) = 1 /\ <<a>>[1] = a
  OBVIOUS
<1>2. <<a, b>> \in Seq(Int) /\ Len(<<a, b>>) = 2 /\ <<a, b>>[1] = a /\ <<a, b>>[2] = b
  OBVIOUS
<1> DEFINE s == <<a>>
<1> HIDE DEF s
<1>3. s \in Seq(Int) /\ Len(s) = 1 /\ s[1] = a
  BY <1>1 DEF s
<1>4. Append(s, b) \in Seq(Int) /\ Len(Append(s, b)) = 2
      /\ Append(s, b)[1] = a /\ Append(s, b)[2] = b
  <2>1. /\ Append(s, b) \in Seq(Int) /\ Len(Append(s, b)) = Len(s) + 1
        /\ Append(s, b)[Len(s) + 1] = b
        /\ \A i \in 1..Len(s) : Append(s, b)[i] = s[i]
    BY <1>3
  <2> QED
    BY <2>1, <1>3
<1> DEFINE r == Append(s, b)
           d == <<a, b>>
<1>5. d \in Seq(Int) /\ Len(d) = 2 /\ d[1] = a /\ d[2] = b
  BY <1>2
<1> HIDE DEF r, d
<1>6. \A i \in 1..2 : i = 1 \/ i = 2
  OBVIOUS
<1>7. r \in Seq(Int) /\ Len(r) = Len(d) /\ \A i \in 1..Len(r) : r[i] = d[i]
  BY <1>4, <1>5, <1>6 DEF r
<1>8. r = d
  BY <1>5, <1>7
<1> QED
  BY <1>8 DEF s, r, d

(* Only the last unit of its life lets a token through again.              *)
LEMMA TokenUsed ==
    ASSUME NEW time \in Nat, NEW made \in Int, NEW used \in Int, NEW let,
           TokenTells(time, made, TRUE, used, let),
           ~(used # Never /\ time - used < TTL), time - made <= TTL
    PROVE  /\ TokenTells(time, made, TRUE, time, let)
           /\ TokenTells(time, made, TRUE, time, Append(let, time))
<1>1. TTL \in Nat \ {0}
  BY Times
<1>2. Never = -1 /\ made # Never /\ made <= time
  BY DEF Never, R!Never, TokenTells
<1>3. Remembered(time, time, time)
  BY <1>2 DEF Remembered
<1>4. CASE let = <<>>
  <2>1. Append(let, time) = <<time>> /\ <<time>> # <<>>
    BY <1>4
  <2> QED
    BY <2>1, <1>2, <1>3, <1>4 DEF TokenTells
<1>5. ASSUME NEW last \in Int, let = <<last>>, made <= last, last <= time,
             Remembered(time, used, last)
      PROVE  /\ TokenTells(time, made, TRUE, time, let)
             /\ TokenTells(time, made, TRUE, time, Append(let, time))
  <2>1. Remembered(time, time, last) /\ let # <<>>
    BY <1>2, <1>5 DEF Remembered
  <2>2. last = made /\ time = made + TTL
    BY <1>1, <1>2, <1>5 DEF Remembered
  <2>3. Append(let, time) = <<made, made + TTL>>
    BY <2>2, <1>5, TwoTimes
  <2>4. Append(let, time) # <<>> /\ made + TTL <= time /\ Remembered(time, time, made + TTL)
    BY <1>3, <2>2, <2>3 DEF Remembered
  <2>5. TokenTells(time, made, TRUE, time, let)
    BY <2>1, <1>2, <1>5 DEF TokenTells
  <2>6. TokenTells(time, made, TRUE, time, Append(let, time))
    BY <2>3, <2>4, <1>2 DEF TokenTells
  <2> QED
    BY <2>5, <2>6
<1>6. ASSUME let = <<made, made + TTL>>, made + TTL <= time,
             Remembered(time, used, made + TTL)
      PROVE  FALSE
  BY <1>1, <1>2, <1>6 DEF Remembered
<1> QED
  BY <1>4, <1>5, <1>6 DEF TokenTells

(* A request.                                                              *)
LEMMA RequestKeeps ==
    ASSUME RequestsInv, NEW t \in CsrfTokens, NEW route \in R!Routes, R!Request(t, route)
    PROVE  RequestsInv'
<1> DEFINE end == R!Outcome(t, route)
<1>1. /\ seen' = end.seen /\ entry' = end.entry
      /\ end.open => passed' = [passed EXCEPT ![t] = Append(@, now)]
      /\ ~end.open => passed' = passed
      /\ DOMAIN served' = R!Limiters
      /\ \A l \in R!Limiters :
            /\ end.open /\ l \in R!LimitersOf(route) =>
                  served'[l] = Append(served[l], [at |-> now, until |-> end.entry[l].resetAt])
            /\ ~(end.open /\ l \in R!LimitersOf(route)) => served'[l] = served[l]
      /\ issued[t] # R!Never
      /\ UNCHANGED <<now, configured, issued, signed, reboots>>
  BY DEF R!Request, R!Asked
<1>2. Come(end, t, TRUE, R!LimitersOf(route))
  BY OutcomeComes DEF RequestsInv
<1> HIDE DEF end
<1>3. /\ end \in Checked
      /\ end.seen = seen \/ (end.seen = R!Remember(seen, t) /\ Good(t))
      /\ end.open => end.seen = R!Remember(seen, t) /\ Good(t)
      /\ \A l \in R!Limiters : end.entry[l] = entry[l] \/ end.entry[l] = R!Counted(entry[l], l)
      /\ end.open => \A l \in R!LimitersOf(route) :
            /\ l \in R!Limiters
            /\ end.entry[l] = R!Counted(entry[l], l) /\ end.entry[l].count <= MaxRequests[l]
  BY <1>2 DEF Come, R!LimitersOf, R!Limiters
<1>4. /\ now \in Nat /\ reboots \in Nat
      /\ seen \in [CsrfTokens -> Int] /\ issued \in [CsrfTokens -> Int]
      /\ signed \subseteq CsrfTokens /\ DOMAIN passed = CsrfTokens
      /\ \A l \in R!Limiters : LimitTells(served[l], entry[l], MaxRequests[l], Window, now)
  BY DEF RequestsInv
<1>5. /\ seen' \in [CsrfTokens -> Int] /\ entry' \in [R!Limiters -> ClientEntry]
      /\ DOMAIN passed' = CsrfTokens
  BY <1>1, <1>3, <1>4 DEF Checked
<1>6. ASSUME NEW l \in R!Limiters
      PROVE  LimitTells(served'[l], entry'[l], MaxRequests[l], Window, now)
  <2> DEFINE more == R!Counted(entry[l], l)
  <2>1. /\ LimitTells(served[l], more, MaxRequests[l], Window, now)
        /\ more.count <= MaxRequests[l]
           => LimitTells(Append(served[l], [at |-> now, until |-> more.resetAt]), more,
                         MaxRequests[l], Window, now)
    BY <1>4, Times, CountedMore
  <2> HIDE DEF more
  <2>2. CASE end.open /\ l \in R!LimitersOf(route)
    BY <2>1, <2>2, <1>1, <1>3 DEF more
  <2>3. CASE ~(end.open /\ l \in R!LimitersOf(route))
    BY <2>1, <2>3, <1>1, <1>3, <1>4 DEF more
  <2> QED
    BY <2>2, <2>3
<1>7. ASSUME ~(configured /\ reboots > 0), NEW u \in CsrfTokens
      PROVE  TokenTells(now, issued[u], u \in signed, seen'[u], passed'[u])
  <2>1. TokenTells(now, issued[u], u \in signed, seen[u], passed[u])
    BY <1>7 DEF RequestsInv
  <2>2. CASE seen' = seen /\ ~end.open
    BY <2>1, <2>2, <1>1
  <2>3. CASE seen' = R!Remember(seen, t) /\ Good(t) /\ u # t
    <3>1. passed'[u] = passed[u]
      BY <2>3, <1>1, <1>4
    <3>2. seen'[u] \in Int
          /\ (seen'[u] = seen[u] \/ (seen'[u] = Never /\ seen[u] < now - TTL))
      BY <2>3, <1>4, <1>5, RememberedIs
    <3>3. now \in Int /\ issued[u] \in Int /\ seen[u] \in Int /\ now <= now
      BY <1>4
    <3> QED
      BY <2>1, <3>1, <3>2, <3>3, TokenStands
  <2>4. CASE seen' = R!Remember(seen, t) /\ Good(t) /\ u = t
    <3>1. seen'[t] = now
      BY <2>4, <1>4, RememberedIs
    <3>2. /\ t \in signed /\ now - issued[t] <= TTL
          /\ ~(seen[t] # Never /\ now - seen[t] < TTL)
      BY <2>4 DEF Good, R!Genuine, R!Replayed, Never
    <3>3. TokenTells(now, issued[t], TRUE, seen[t], passed[t])
      BY <2>1, <2>4, <3>2 DEF TokenTells
    <3>4. /\ TokenTells(now, issued[t], TRUE, now, passed[t])
          /\ TokenTells(now, issued[t], TRUE, now, Append(passed[t], now))
      BY <3>2, <3>3, <1>4, TokenUsed
    <3>5. passed'[t] = passed[t] \/ passed'[t] = Append(passed[t], now)
      BY <1>1, <1>4
    <3>6. TokenTells(now, issued[t], TRUE, now, passed'[t])
      BY <3>4, <3>5
    <3> QED
      BY <2>4, <3>1, <3>2, <3>6 DEF TokenTells
  <2> QED
    BY <2>2, <2>3, <2>4, <1>1, <1>3
<1> QED
  BY <1>1, <1>4, <1>5, <1>6, <1>7 DEF RequestsInv

(* A step that uses no token.                                              *)
LEMMA NoNewReplay ==
    ASSUME RequestsInv, UNCHANGED <<seen, passed, issued>>, now' = now, reboots' = reboots,
           configured' = configured, signed' = signed
    PROVE  ~(configured' /\ reboots' > 0) =>
              \A t \in CsrfTokens :
                 TokenTells(now', issued'[t], t \in signed', seen'[t], passed'[t])
BY DEF RequestsInv

(* A token is made (generateCsrfToken).                                    *)
LEMMA IssueKeeps ==
    ASSUME RequestsInv, NEW t \in CsrfTokens, R!Issue(t)
    PROVE  RequestsInv'
<1>1. /\ issued' = [issued EXCEPT ![t] = now] /\ signed' = signed \union {t}
      /\ issued[t] = Never
      /\ UNCHANGED <<now, configured, seen, entry, passed, served, reboots>>
  BY DEF R!Issue, Never
<1>2. /\ issued' \in [CsrfTokens -> Int] /\ issued'[t] = now
      /\ \A u \in CsrfTokens : u # t => issued'[u] = issued[u]
  BY <1>1 DEF RequestsInv
<1>3. ASSUME ~(configured /\ reboots > 0), NEW u \in CsrfTokens
      PROVE  TokenTells(now, issued'[u], u \in signed', seen[u], passed[u])
  <2>1. TokenTells(now, issued[u], u \in signed, seen[u], passed[u])
    BY <1>3 DEF RequestsInv
  <2>2. CASE u = t
    <3>1. passed[u] = <<>>
      BY <2>1, <2>2, <1>1 DEF TokenTells
    <3>2. now # Never /\ now <= now
      BY DEF RequestsInv, Never, R!Never
    <3> QED
      BY <2>2, <3>1, <3>2, <1>2 DEF TokenTells
  <2>3. CASE u # t
    <3>1. issued'[u] = issued[u] /\ (u \in signed' => u \in signed)
      BY <2>3, <1>1, <1>2
    <3>2. now \in Int /\ issued[u] \in Int /\ seen[u] \in Int /\ now <= now
      BY DEF RequestsInv
    <3> QED
      BY <2>1, <3>1, <3>2, TokenStands
  <2> QED
    BY <2>2, <2>3
<1> QED
  BY <1>1, <1>2, <1>3 DEF RequestsInv

(* The entry of a client is dropped.                                       *)
LEMMA DropKeeps ==
    ASSUME RequestsInv, NEW l \in R!Limiters, R!DropEntry(l)
    PROVE  RequestsInv'
<1>1. /\ entry[l] # R!NoEntry /\ now > entry[l].resetAt
      /\ entry' = [entry EXCEPT ![l] = R!NoEntry]
      /\ UNCHANGED <<now, configured, issued, signed, seen, passed, served, reboots>>
  BY DEF R!DropEntry
<1>2. R!NoEntry \in ClientEntry
  BY DEF R!NoEntry, R!Never, ClientEntry
<1>3. entry \in [R!Limiters -> ClientEntry] /\ now \in Nat
      /\ \A m \in R!Limiters : LimitTells(served[m], entry[m], MaxRequests[m], Window, now)
  BY DEF RequestsInv
<1>4. LimitTells(served[l], R!NoEntry, MaxRequests[l], Window, now)
  BY <1>1, <1>3, Times, LimitDropped
<1>5. entry' \in [R!Limiters -> ClientEntry]
      /\ \A m \in R!Limiters : LimitTells(served[m], entry'[m], MaxRequests[m], Window, now)
  BY <1>1, <1>2, <1>3, <1>4
<1> QED
  BY <1>1, <1>5 DEF RequestsInv

LEMMA TickKeeps == ASSUME RequestsInv, R!Tick PROVE RequestsInv'
<1>1. /\ now' = now + 1
      /\ UNCHANGED <<configured, issued, signed, seen, entry, passed, served, reboots>>
  BY DEF R!Tick
<1>2. now \in Nat /\ now' \in Nat /\ now <= now'
  BY <1>1 DEF RequestsInv
<1>3. \A l \in R!Limiters : LimitTells(served[l], entry[l], MaxRequests[l], Window, now')
  <2>1. \A l \in R!Limiters : LimitTells(served[l], entry[l], MaxRequests[l], Window, now)
    BY DEF RequestsInv
  <2> QED
    BY <1>2, <2>1, Times, LimitStands
<1>4. ASSUME ~(configured /\ reboots > 0), NEW t \in CsrfTokens
      PROVE  TokenTells(now', issued[t], t \in signed, seen[t], passed[t])
  <2>1. TokenTells(now, issued[t], t \in signed, seen[t], passed[t])
    BY <1>4 DEF RequestsInv
  <2>2. now \in Int /\ now' \in Int /\ issued[t] \in Int /\ seen[t] \in Int
    BY <1>2 DEF RequestsInv
  <2> QED
    BY <2>1, <2>2, <1>2, TokenStands
<1> QED
  BY <1>1, <1>2, <1>3, <1>4 DEF RequestsInv

LEMMA RebootKeeps == ASSUME RequestsInv, R!Restart PROVE RequestsInv'
<1>1. /\ reboots' = reboots + 1
      /\ configured => signed' = signed
      /\ ~configured => signed' = {}
      /\ seen' = [t \in CsrfTokens |-> R!Never]
      /\ entry' = [l \in R!Limiters |-> R!NoEntry]
      /\ served' = [l \in R!Limiters |-> <<>>]
      /\ UNCHANGED <<now, configured, issued, passed>>
  BY DEF R!Restart
<1>2. R!NoEntry \in ClientEntry /\ R!Never \in Int /\ now \in Nat /\ reboots \in Nat
  BY DEF R!NoEntry, R!Never, ClientEntry, RequestsInv
<1>3. /\ seen' \in [CsrfTokens -> Int] /\ entry' \in [R!Limiters -> ClientEntry]
      /\ DOMAIN served' = R!Limiters /\ signed' \subseteq CsrfTokens /\ reboots' \in Nat
  BY <1>1, <1>2 DEF RequestsInv
<1>4. \A l \in R!Limiters : LimitTells(served'[l], entry'[l], MaxRequests[l], Window, now)
  BY <1>1, <1>2, Times, LimitNew
<1>5. ASSUME ~(configured /\ reboots' > 0), NEW t \in CsrfTokens
      PROVE  TokenTells(now, issued[t], t \in signed', seen'[t], passed[t])
  <2>1. ~configured /\ signed' = {}
    BY <1>1, <1>2, <1>5
  <2>2. TokenTells(now, issued[t], t \in signed, seen[t], passed[t])
    BY <2>1 DEF RequestsInv
  <2> QED
    BY <2>1, <2>2 DEF TokenTells
<1> QED
  BY <1>1, <1>3, <1>4, <1>5 DEF RequestsInv

(* Whatever requests, ticks and restarts there are, a token lets one       *)
(* request through but for the two exceptions, and no stretch of time as   *)
(* long as a window sees twice as many served as the limit.                *)
THEOREM OnceAndBounded == R!Spec => []LetThrough
<1>1. R!Init => RequestsInv
  <2> SUFFICES ASSUME R!Init PROVE RequestsInv
    OBVIOUS
  <2>1. /\ now = 0 /\ reboots = 0 /\ signed = {}
        /\ issued = [t \in CsrfTokens |-> R!Never] /\ seen = [t \in CsrfTokens |-> R!Never]
        /\ passed = [t \in CsrfTokens |-> <<>>]
        /\ entry = [l \in R!Limiters |-> R!NoEntry] /\ served = [l \in R!Limiters |-> <<>>]
    BY DEF R!Init
  <2>2. R!NoEntry \in ClientEntry /\ R!Never = -1
    BY DEF R!NoEntry, R!Never, ClientEntry
  <2>3. \A l \in R!Limiters : LimitTells(served[l], entry[l], MaxRequests[l], Window, now)
    BY <2>1, Times, LimitNew
  <2>4. \A t \in CsrfTokens : TokenTells(now, issued[t], t \in signed, seen[t], passed[t])
    BY <2>1, <2>2 DEF TokenTells
  <2> QED
    BY <2>1, <2>2, <2>3, <2>4 DEF RequestsInv
<1>2. RequestsInv /\ [R!Next]_pvars => RequestsInv'
  <2> SUFFICES ASSUME RequestsInv, [R!Next]_pvars PROVE RequestsInv'
    OBVIOUS
  <2>1. CASE R!Tick
    BY <2>1, TickKeeps
  <2>2. CASE R!Restart
    BY <2>2, RebootKeeps
  <2>3. ASSUME NEW t \in CsrfTokens, R!Issue(t) PROVE RequestsInv'
    BY <2>3, IssueKeeps
  <2>4. ASSUME NEW t \in CsrfTokens, NEW route \in R!Routes, R!Request(t, route)
        PROVE  RequestsInv'
    BY <2>4, RequestKeeps
  <2>5. ASSUME NEW l \in R!Limiters, R!DropEntry(l) PROVE RequestsInv'
    BY <2>5, DropKeeps
  <2>6. CASE UNCHANGED pvars
    BY <2>6 DEF pvars, RequestsInv
  <2> QED
    BY <2>1, <2>2, <2>3, <2>4, <2>5, <2>6 DEF R!Next
<1>3. RequestsInv => LetThrough
  <2> SUFFICES ASSUME RequestsInv PROVE LetThrough
    OBVIOUS
  <2>1. R!TokenPassesOnce
    <3> SUFFICES ASSUME NEW t \in CsrfTokens, Len(passed[t]) > 1, ~(configured /\ reboots > 0)
                 PROVE  passed[t] = <<issued[t], issued[t] + TTL>>
      BY DEF R!TokenPassesOnce
    <3>1. TokenTells(now, issued[t], t \in signed, seen[t], passed[t])
      BY DEF RequestsInv
    <3>2. /\ issued[t] # Never \/ passed[t] = <<>>
          /\ \/ passed[t] = <<>>
             \/ \E a \in Int : passed[t] = <<a>>
             \/ passed[t] = <<issued[t], issued[t] + TTL>>
      BY <3>1 DEF TokenTells
    <3>3. passed[t] # <<>>
      <4>1. Len(<<>>) = 0
        OBVIOUS
      <4> QED
        BY <4>1
    <3>4. ASSUME NEW a \in Int, passed[t] = <<a>> PROVE FALSE
      <4>1. Len(<<a>>) = 1
        OBVIOUS
      <4> QED
        BY <3>4, <4>1
    <3> QED
      BY <3>2, <3>3, <3>4
  <2>2. R!BurstBounded
    <3> SUFFICES ASSUME NEW l \in R!Limiters,
                        NEW first \in DOMAIN served[l], NEW last \in DOMAIN served[l],
                        last = first + 2 * MaxRequests[l] - 1
                 PROVE  served[l][last].at > served[l][first].at + Window
      BY DEF R!BurstBounded
    <3>1. LimitTells(served[l], entry[l], MaxRequests[l], Window, now)
      BY DEF RequestsInv
    <3>2. DOMAIN served[l] = 1..Len(served[l])
      BY <3>1 DEF LimitTells
    <3> QED
      BY <3>1, <3>2, Times, LimitBounds
  <2> QED
    BY <2>1, <2>2 DEF LetThrough, R!LetThrough
<1> QED
  BY <1>1, <1>2, <1>3, PTL DEF R!Spec, R!vars, pvars

-----------------------------------------------------------------------------
(* The streams of tasks.                                                   *)

(* The streams of each task are a sequence of connections.                 *)
StreamsInv == clients \in [Tasks -> Seq(Connections)]

LEMMA SelectedAlike == ASSUME NEW q, NEW set PROVE S!Selected(q, set) = Selected(q, set)
BY DEF S!Selected, Selected

LEMMA SetAlike == ASSUME NEW q PROVE S!ToSet(q) = Elements(q)
BY DEF S!ToSet, Elements

(* The streams that broadcast keeps are those that are still alive.        *)
LEMMA SendKept ==
    ASSUME StreamsInv, NEW t \in Tasks, S!Send(t)
    PROVE  /\ StreamsInv'
           /\ clients'[t] = Selected(clients[t], alive)
           /\ clients'[t] \in Seq(Connections)
           /\ Elements(clients'[t]) = Elements(clients[t]) \intersect alive
<1>1. clients' = [clients EXCEPT ![t] = Selected(@, alive)] /\ clients[t] \in Seq(Connections)
  BY SelectedAlike DEF S!Send, S!Kept, StreamsInv
<1>2. /\ Selected(clients[t], alive) \in Seq(Connections)
      /\ Elements(Selected(clients[t], alive)) = Elements(clients[t]) \intersect alive
  BY <1>1, SelectedIs
<1> QED BY <1>1, <1>2 DEF StreamsInv

(* What is sent of a task reaches every stream that watches it and is      *)
(* alive, whatever dead ones stand before it in the list, and the dead     *)
(* ones are gone afterwards - for any number of tasks and connections.     *)
THEOREM StreamsReach == S!Spec => SendReachesAll
<1>1. ASSUME S!Init PROVE StreamsInv
  BY <1>1 DEF S!Init, StreamsInv
<1>2. ASSUME StreamsInv, [S!Next]_svars PROVE StreamsInv'
  <2>1. CASE UNCHANGED svars
    BY <1>2, <2>1 DEF StreamsInv, svars
  <2>2. ASSUME NEW t \in Tasks, S!Send(t) PROVE StreamsInv'
    BY <1>2, <2>2, SendKept
  <2>3. ASSUME NEW t \in Tasks, NEW c \in Connections, S!AddClient(t, c) PROVE StreamsInv'
    BY <1>2, <2>3 DEF S!AddClient, StreamsInv
  <2>4. ASSUME NEW c \in Connections, S!Leave(c) PROVE StreamsInv'
    BY <1>2, <2>4 DEF S!Leave, StreamsInv
  <2> QED BY <1>2, <2>1, <2>2, <2>3, <2>4 DEF S!Next
<1>3. ASSUME StreamsInv, NEW t \in Tasks, S!Send(t)
      PROVE  got' = S!ToSet(clients[t]) \intersect alive /\ S!ToSet(clients'[t]) \subseteq alive
  <2>1. got' = S!ToSet(clients[t]) \intersect alive
    BY <1>3 DEF S!Send, S!Reached
  <2>2. Elements(clients'[t]) = Elements(clients[t]) \intersect alive
    BY <1>3, SendKept
  <2> QED BY <2>1, <2>2, SetAlike
<1>4. ASSUME StreamsInv, NEW t \in Tasks
      PROVE  S!Send(t) => got' = S!ToSet(clients[t]) \intersect alive /\ S!ToSet(clients'[t]) \subseteq alive
  BY <1>3, <1>4
<1>5. StreamsInv => [\A t \in Tasks : S!Send(t) =>
                        got' = S!ToSet(clients[t]) \intersect alive /\ S!ToSet(clients'[t]) \subseteq alive]_svars
  BY <1>4
<1> QED BY <1>1, <1>2, <1>5, PTL DEF S!Spec, SendReachesAll, S!SendReachesAll, S!vars, svars

-----------------------------------------------------------------------------
(* The schedules behind the routes.                                        *)

(* Cron schedules that are none were made by half a patch.                 *)
BadCron(rs, half) ==
    \A i \in DOMAIN rs :
        rs[i].type = "cron" /\ rs[i].fields # "five or six" => i \in half

(* The rows, of which a torn file has none.                                *)
RowsInv ==
    /\ rows \in Seq(F!Row) /\ torn \in BOOLEAN /\ (torn => rows = <<>>)
    /\ RowsSound

LEMMA CountedAlike == ASSUME NEW q PROVE F!Cardinality(q) = Cardinality(q)
BY DEF F!Cardinality, Cardinality

(* A list of schedules has finitely many that are not deleted.             *)
LEMMA LivingFinite ==
    ASSUME NEW rs \in Seq(F!Row)
    PROVE  IsFiniteSet(F!Living(rs)) /\ Cardinality(F!Living(rs)) \in Nat
<1>1. Len(rs) \in Nat /\ DOMAIN rs = 1..Len(rs)
  OBVIOUS
<1>2. IsFiniteSet(1..Len(rs))
  BY <1>1, FS_Interval
<1>3. F!Living(rs) \subseteq 1..Len(rs)
  BY <1>1 DEF F!Living
<1> QED BY <1>2, <1>3, FS_Subset, FS_CardinalityType

(* The empty list.                                                         *)
LEMMA NothingLives ==
    Cardinality(F!Living(<<>>)) = 0 /\ <<>> \in Seq(F!Row) /\ DOMAIN <<>> = {}
<1>1. DOMAIN <<>> = {}
  OBVIOUS
<1>2. F!Living(<<>>) = {}
  BY <1>1 DEF F!Living
<1> QED BY <1>1, <1>2, FS_EmptySet

(* The file is whole and sound, or empty.                                  *)
LEMMA SavedSound ==
    ASSUME NEW rs \in Seq(F!Row), NEW half, F!Saved(rs, half),
           Cardinality(F!Living(rs)) <= MaxSchedules, BadCron(rs, half)
    PROVE  RowsInv'
<1>1. CASE rows' = rs /\ torn' = FALSE /\ halved' = half \intersect DOMAIN rs
  BY <1>1, CountedAlike DEF RowsInv, RowsSound, F!RowsSound, F!LimitHolds, F!BadCronByHalfPatch, BadCron
<1>2. CASE rows' = <<>> /\ torn' = TRUE /\ halved' = {}
  <2>1. F!LimitHolds'
    BY <1>2, NothingLives, CountedAlike, FrontAssumption DEF F!LimitHolds, FrontAssumption
  <2>2. F!BadCronByHalfPatch'
    BY <1>2, NothingLives DEF F!BadCronByHalfPatch
  <2> QED BY <1>2, <2>1, <2>2, NothingLives DEF RowsInv, RowsSound, F!RowsSound
<1> QED BY <1>1, <1>2 DEF F!Saved

(* Whatever file is read, the rows are sound.                              *)
LEMMA LoadedSound ==
    ASSUME RowsInv
    PROVE  /\ F!Loaded \in Seq(F!Row) /\ Cardinality(F!Living(F!Loaded)) <= MaxSchedules
           /\ BadCron(F!Loaded, halved)
<1>1. F!Loaded = rows
  BY DEF F!Loaded, RowsInv
<1> QED BY <1>1, CountedAlike DEF RowsInv, RowsSound, F!RowsSound, F!LimitHolds, F!BadCronByHalfPatch, BadCron

(* A row that takes the place of a living one.                             *)
LEMMA ReplacedSound ==
    ASSUME NEW rs \in Seq(F!Row), NEW i \in DOMAIN rs, NEW row \in F!Row,
           rs[i].status # "deleted", Cardinality(F!Living(rs)) <= MaxSchedules
    PROVE  LET new == [rs EXCEPT ![i] = row]
           IN  /\ new \in Seq(F!Row) /\ Cardinality(F!Living(new)) <= MaxSchedules
               /\ DOMAIN new = DOMAIN rs /\ new[i] = row
               /\ \A j \in DOMAIN rs : j # i => new[j] = rs[j]
<1> DEFINE new == [rs EXCEPT ![i] = row]
<1>1. /\ new \in Seq(F!Row) /\ DOMAIN new = DOMAIN rs /\ new[i] = row
      /\ \A j \in DOMAIN rs : j # i => new[j] = rs[j]
  OBVIOUS
<1> HIDE DEF new
<1>2. F!Living(new) \subseteq F!Living(rs)
  BY <1>1 DEF F!Living
<1>3. Cardinality(F!Living(new)) <= Cardinality(F!Living(rs))
  BY <1>2, LivingFinite, FS_Subset
<1>4. Cardinality(F!Living(new)) \in Nat /\ Cardinality(F!Living(rs)) \in Nat
  BY <1>1, LivingFinite
<1>5. MaxSchedules \in Nat
  BY FrontAssumption DEF FrontAssumption
<1>6. Cardinality(F!Living(new)) <= MaxSchedules
  BY <1>3, <1>4, <1>5
<1> QED BY <1>1, <1>6 DEF new

(* All but the last.                                                       *)
LEMMA BelowLast ==
    ASSUME NEW n \in Nat, NEW k \in 1..(n + 1), k # n + 1
    PROVE  k \in 1..n
OBVIOUS

(* createSchedule: the number is asked for before a row is added.          *)
LEMMA CreateKeepsRows ==
    ASSUME RowsInv, NEW type_ \in F!Timings, NEW fields \in F!Fields, F!Create(type_, fields)
    PROVE  RowsInv'
<1> DEFINE old == F!Loaded
           row == [status |-> "active", type |-> type_, fields |-> fields]
           new == Append(old, row)
           half == IF torn THEN {} ELSE halved
<1>1. row \in F!Row /\ ~(row.type = "cron" /\ row.fields # "five or six")
  BY DEF F!Row, F!Statuses, F!Create, F!Refuses, F!Timings, F!Fields
<1>2. old \in Seq(F!Row) /\ BadCron(old, half)
  <2>1. CASE torn
    BY <2>1, LoadedSound, NothingLives DEF BadCron, F!Loaded
  <2>2. CASE ~torn
    BY <2>2, LoadedSound
  <2> QED BY <2>1, <2>2
<1>3. F!Saved(new, half) /\ Cardinality(F!Living(old)) < MaxSchedules
  BY CountedAlike DEF F!Create
<1> HIDE DEF old, half, row
<1>4. /\ new \in Seq(F!Row) /\ Len(old) \in Nat /\ DOMAIN old = 1..Len(old)
      /\ DOMAIN new = 1..(Len(old) + 1)
      /\ new[Len(old) + 1] = row /\ \A i \in 1..Len(old) : new[i] = old[i]
  <2>1. row \in F!Row
    BY <1>1
  <2>2. new \in Seq(F!Row) /\ Len(new) = Len(old) + 1 /\ Len(old) \in Nat
    BY <1>2, <2>1
  <2>3. \A i \in 1..Len(old) : new[i] = old[i]
    BY <1>2, <2>1
  <2>4. new[Len(old) + 1] = row
    BY <1>2, <2>1
  <2>5. DOMAIN new = 1..Len(new) /\ DOMAIN old = 1..Len(old)
    BY <1>2, <2>2
  <2> QED BY <2>2, <2>3, <2>4, <2>5
<1> HIDE DEF new
<1>5. F!Living(new) \subseteq F!Living(old) \union {Len(old) + 1}
  BY <1>4 DEF F!Living
<1>6. IsFiniteSet(F!Living(old) \union {Len(old) + 1})
      /\ Cardinality(F!Living(old) \union {Len(old) + 1}) <= Cardinality(F!Living(old)) + 1
      /\ Cardinality(F!Living(old)) \in Nat
  <2>1. IsFiniteSet(F!Living(old)) /\ Cardinality(F!Living(old)) \in Nat
    BY <1>2, LivingFinite
  <2>2. /\ IsFiniteSet(F!Living(old) \union {Len(old) + 1})
        /\ \/ Cardinality(F!Living(old) \union {Len(old) + 1}) = Cardinality(F!Living(old))
           \/ Cardinality(F!Living(old) \union {Len(old) + 1}) = Cardinality(F!Living(old)) + 1
    BY <2>1, FS_AddElement
  <2> QED BY <2>1, <2>2
<1>7. Cardinality(F!Living(new)) <= Cardinality(F!Living(old) \union {Len(old) + 1})
      /\ Cardinality(F!Living(new)) \in Nat
      /\ Cardinality(F!Living(old) \union {Len(old) + 1}) \in Nat
  BY <1>4, <1>5, <1>6, LivingFinite, FS_Subset, FS_CardinalityType
<1>8. MaxSchedules \in Nat
  BY FrontAssumption DEF FrontAssumption
<1>9. Cardinality(F!Living(new)) <= MaxSchedules
  BY <1>3, <1>6, <1>7, <1>8
<1>10. BadCron(new, half)
  <2> SUFFICES ASSUME NEW i \in DOMAIN new, new[i].type = "cron", new[i].fields # "five or six"
               PROVE  i \in half
    BY DEF BadCron
  <2>1. i # Len(old) + 1
    <3>1. CASE i = Len(old) + 1
      <4>1. new[i] = row
        BY <1>4, <3>1
      <4> QED BY <1>1, <4>1
    <3> QED BY <3>1
  <2>2. i \in 1..(Len(old) + 1) /\ Len(old) \in Nat
    BY <1>4
  <2>3. i \in 1..Len(old)
    BY <2>1, <2>2, BelowLast
  <2> QED BY <1>2, <1>4, <2>3 DEF BadCron
<1> QED BY <1>3, <1>4, <1>9, <1>10, SavedSound

(* What a patch makes of a row.                                            *)
LEMMA PatchedRow ==
    ASSUME NEW row \in F!Row, NEW patch \in F!Patch
    PROVE  LET new == F!Patched(row, patch)
           IN  /\ new \in F!Row
               /\ new.type = IF patch.type = F!Keep THEN row.type ELSE patch.type
               /\ new.fields = IF patch.fields = F!Keep THEN row.fields ELSE patch.fields
<1> DEFINE new == F!Patched(row, patch)
<1>1. DOMAIN row = {"status", "type", "fields"}
  BY DEF F!Row
<1>2. /\ new.status = IF patch.status = F!Keep THEN row.status ELSE patch.status
      /\ new.type = IF patch.type = F!Keep THEN row.type ELSE patch.type
      /\ new.fields = IF patch.fields = F!Keep THEN row.fields ELSE patch.fields
  BY <1>1 DEF F!Patched
<1>3. new = [status |-> new.status, type |-> new.type, fields |-> new.fields]
  BY <1>1 DEF F!Patched
<1>4. new.status \in F!Statuses /\ new.type \in F!Timings /\ new.fields \in F!Fields
  BY <1>2 DEF F!Row, F!Patch
<1> HIDE DEF new
<1>5. new \in F!Row
  BY <1>3, <1>4 DEF F!Row
<1> QED BY <1>2, <1>5 DEF new

(* updateSchedule: a row stays a row that counts as much as before.        *)
LEMMA UpdateKeepsRows ==
    ASSUME RowsInv, NEW patch \in F!Patch, F!Update(patch)
    PROVE  RowsInv'
<1> DEFINE old == F!Loaded
           half(i) == CASE patch.type = F!Keep /\ patch.fields = F!Keep -> halved
                       [] patch.type # F!Keep /\ patch.fields # F!Keep -> halved \ {i}
                       [] OTHER -> halved \union {i}
<1>1. PICK i \in F!Found(F!Statuses \ {"deleted"}) :
         F!Saved([old EXCEPT ![i] = F!Patched(old[i], patch)], half(i))
  BY DEF F!Update
<1>2. /\ old \in Seq(F!Row) /\ Cardinality(F!Living(old)) <= MaxSchedules
      /\ BadCron(old, halved)
  BY LoadedSound
<1>3. i \in DOMAIN old /\ old[i].status # "deleted" /\ old[i] \in F!Row
  BY <1>2 DEF F!Found
<1> DEFINE row == F!Patched(old[i], patch)
           new == [old EXCEPT ![i] = row]
<1> HIDE DEF old
<1>4. /\ row \in F!Row
      /\ row.type = IF patch.type = F!Keep THEN old[i].type ELSE patch.type
      /\ row.fields = IF patch.fields = F!Keep THEN old[i].fields ELSE patch.fields
  BY <1>3, PatchedRow
<1>5. F!Saved(new, half(i))
  BY <1>1
<1> HIDE DEF row
<1>6. /\ new \in Seq(F!Row) /\ Cardinality(F!Living(new)) <= MaxSchedules
      /\ DOMAIN new = DOMAIN old /\ new[i] = row
      /\ \A j \in DOMAIN old : j # i => new[j] = old[j]
  BY <1>2, <1>3, <1>4, ReplacedSound
<1>7. halved \ {i} \subseteq half(i)
  OBVIOUS
<1>8. row.type = "cron" /\ row.fields # "five or six" => i \in half(i)
  <2>1. CASE patch.type = F!Keep /\ patch.fields = F!Keep
    BY <1>2, <1>3, <1>4, <2>1 DEF BadCron
  <2>2. CASE patch.type # F!Keep /\ patch.fields # F!Keep
    BY <1>4, <2>2 DEF F!Update, F!Refuses, F!Patch, F!Fields
  <2>3. CASE (patch.type = F!Keep) # (patch.fields = F!Keep)
    BY <2>3
  <2> QED BY <2>1, <2>2, <2>3
<1> HIDE DEF half, new
<1>9. BadCron(new, half(i))
  BY <1>2, <1>6, <1>7, <1>8 DEF BadCron
<1> QED BY <1>5, <1>6, <1>9, SavedSound

(* pauseSchedule, resumeSchedule and deleteSchedule, of rows that are not  *)
(* deleted.                                                                *)
LEMMA SetStatusKeepsRows ==
    ASSUME RowsInv, NEW from, NEW to \in F!Statuses, "deleted" \notin from, F!SetStatus(from, to)
    PROVE  RowsInv'
<1> DEFINE old == F!Loaded
<1>1. PICK i \in F!Found(from) : F!Saved([old EXCEPT ![i].status = to], halved)
  BY DEF F!SetStatus
<1>2. /\ old \in Seq(F!Row) /\ Cardinality(F!Living(old)) <= MaxSchedules
      /\ BadCron(old, halved)
  BY LoadedSound
<1>3. i \in DOMAIN old /\ old[i].status # "deleted" /\ old[i] \in F!Row
  BY <1>2 DEF F!Found
<1> DEFINE row == [old[i] EXCEPT !.status = to]
           new == [old EXCEPT ![i] = row]
<1> HIDE DEF old
<1>4. row \in F!Row /\ row.type = old[i].type /\ row.fields = old[i].fields
  BY <1>3 DEF F!Row
<1>5. F!Saved(new, halved)
  BY <1>1
<1> HIDE DEF row
<1>6. /\ new \in Seq(F!Row) /\ Cardinality(F!Living(new)) <= MaxSchedules
      /\ DOMAIN new = DOMAIN old /\ new[i] = row
      /\ \A j \in DOMAIN old : j # i => new[j] = old[j]
  BY <1>2, <1>3, <1>4, ReplacedSound
<1> HIDE DEF new
<1>7. BadCron(new, halved)
  BY <1>2, <1>3, <1>4, <1>6 DEF BadCron
<1> QED BY <1>5, <1>6, <1>7, SavedSound

(* The number of schedules stays under the limit, which only create asks   *)
(* about, and a cron schedule without a cron expression was made so by a   *)
(* patch of one half: createSchedule, updateSchedule, pauseSchedule,       *)
(* resumeSchedule, deleteSchedule.                                         *)
THEOREM RoutesKeepRows == F!Spec => []RowsSound
<1>1. F!Init => RowsInv
  <2> SUFFICES ASSUME F!Init PROVE RowsInv
    OBVIOUS
  <2>1. MaxSchedules \in Nat /\ rows = <<>> /\ torn = FALSE
    BY FrontAssumption DEF FrontAssumption, F!Init
  <2>2. F!LimitHolds
    BY <2>1, NothingLives, CountedAlike DEF F!LimitHolds
  <2>3. F!BadCronByHalfPatch
    BY <2>1, NothingLives DEF F!BadCronByHalfPatch
  <2> QED BY <2>1, <2>2, <2>3, NothingLives DEF RowsInv, RowsSound, F!RowsSound
<1>2. RowsInv /\ [F!Next]_F!vars => RowsInv'
  <2> SUFFICES ASSUME RowsInv, [F!Next]_F!vars PROVE RowsInv'
    OBVIOUS
  <2>1. CASE UNCHANGED <<rows, torn, halved>>
    BY <2>1 DEF RowsInv, RowsSound, F!RowsSound, F!LimitHolds, F!BadCronByHalfPatch
  <2>2. CASE F!Delete \/ F!Pause \/ F!Resume
    BY <2>2, SetStatusKeepsRows DEF F!Delete, F!Pause, F!Resume, F!Statuses
  <2> QED BY <2>1, <2>2, CreateKeepsRows, UpdateKeepsRows
      DEF F!Next, F!vars, F!CreateRefused, F!RunNow
<1>3. RowsInv => RowsSound
  BY DEF RowsInv
<1> QED BY <1>1, <1>2, <1>3, PTL DEF F!Spec

-----------------------------------------------------------------------------
(* The token budgets of the projects.                                      *)

(* What was used, by kind of task.                                         *)
Uses == [T!Kinds -> Nat]

(* The tasks under way that count for a kind.                              *)
Load(b, k) == IF k = "read" THEN b["read"] + b["write"] ELSE b["write"]

(* What the counters say of the period, with what the tasks under way may  *)
(* add, is within the limit; what was recorded in the period and is not in *)
(* the counters was recorded in earlier lives.                             *)
Within(u, told, limit, b, l) ==
    \A k \in T!Kinds :
        /\ u[k] + Load(b, k) * MaxUse <= T!AtMost(limit[k])
        /\ told[k] <= (l - 1) * T!AtMost(limit[k]) + u[k]
        /\ Load(b, k) > 0 => Estimate <= limit[k]

(* A task reads or writes.                                                 *)
LEMMA TwoKinds == \A k \in T!Kinds : k = "read" \/ k = "write"
BY DEF T!Kinds

(* The limits and estimates are natural numbers.                           *)
LEMMA Limits ==
    /\ Estimate \in Nat /\ MaxUse \in Nat /\ Slots \in Nat
    /\ \A k \in T!Kinds : /\ Daily[k] \in Nat /\ Weekly[k] \in Nat
                          /\ T!AtMost(Daily[k]) \in Nat /\ T!AtMost(Weekly[k]) \in Nat
BY FrontAssumption DEF FrontAssumption

LimitOf(limit) ==
    \A k \in T!Kinds : limit[k] \in Nat /\ T!AtMost(limit[k]) \in Nat

(* What the tasks under way have used and may use is a natural number.     *)
LEMMA LoadIs ==
    ASSUME NEW b \in Uses, NEW k \in T!Kinds
    PROVE  Load(b, k) \in Nat /\ b[k] \in Nat
<1>1. b["read"] \in Nat /\ b["write"] \in Nat /\ b[k] \in Nat
  BY DEF Uses, T!Kinds
<1> QED BY <1>1 DEF Load

(* Products of no more tasks than slots.                                   *)
LEMMA LessProduct ==
    ASSUME NEW a \in Nat, NEW n \in Nat, NEW c \in Nat, a <= n
    PROVE  a * c \in Nat /\ a * c <= n * c
OBVIOUS

(* A task that is admitted.                                                *)
LEMMA WithinStart ==
    ASSUME NEW u \in Uses, NEW told \in Uses, NEW limit, LimitOf(limit), NEW b \in Uses,
           NEW l \in Nat \ {0}, Within(u, told, limit, b, l), NEW kind \in T!Kinds,
           b["read"] + b["write"] < Slots,
           \A k \in T!Counts(kind) : u[k] + Estimate <= limit[k]
    PROVE  Within(u, told, limit, [b EXCEPT ![kind] = @ + 1], l)
<1> DEFINE c == [b EXCEPT ![kind] = @ + 1]
<1>1. SUFFICES ASSUME NEW k \in T!Kinds
               PROVE  /\ u[k] + Load(c, k) * MaxUse <= T!AtMost(limit[k])
                      /\ told[k] <= (l - 1) * T!AtMost(limit[k]) + u[k]
                      /\ Load(c, k) > 0 => Estimate <= limit[k]
  BY DEF Within
<1>2. told[k] <= (l - 1) * T!AtMost(limit[k]) + u[k]
  BY DEF Within
<1>3. b["read"] \in Nat /\ b["write"] \in Nat /\ u[k] \in Nat
  BY DEF Uses, T!Kinds
<1>4. CASE k \notin T!Counts(kind)
  <2>1. k = "write" /\ kind = "read"
    BY <1>4 DEF T!Kinds, T!Counts
  <2>2. Load(c, k) = Load(b, k)
    BY <2>1 DEF Load, Uses, T!Kinds
  <2> QED BY <1>2, <2>2 DEF Within
<1>5. CASE k \in T!Counts(kind)
  <2>1. c \in Uses
    BY DEF Uses, T!Kinds
  <2>2. c["read"] + c["write"] <= Slots /\ c["read"] \in Nat /\ c["write"] \in Nat
    BY <1>3, <2>1, Limits DEF T!Kinds, Uses
  <2> HIDE DEF c
  <2>3. Load(c, k) \in Nat /\ Load(c, k) <= Slots
    BY <2>2, Limits DEF Load
  <2>4. Load(c, k) * MaxUse \in Nat /\ Load(c, k) * MaxUse <= Slots * MaxUse
    BY <2>3, LessProduct, Limits
  <2>5. u[k] + Estimate <= limit[k] /\ limit[k] \in Nat
    BY <1>5 DEF LimitOf
  <2>6. Slots * MaxUse \in Nat
    BY Limits
  <2> HIDE DEF LimitOf
  <2>7. u[k] + Load(c, k) * MaxUse <= limit[k] - Estimate + Slots * MaxUse
    BY <1>3, <2>4, <2>5, <2>6, Limits
  <2> QED BY <1>2, <1>3, <2>5, <2>7, Limits DEF T!AtMost, c
<1> QED BY <1>4, <1>5

(* A task that ends, with what it used.                                    *)
LEMMA WithinEnd ==
    ASSUME NEW u \in Uses, NEW told \in Uses, NEW limit, LimitOf(limit), NEW b \in Uses,
           NEW l \in Nat \ {0}, Within(u, told, limit, b, l), NEW kind \in T!Kinds,
           b[kind] > 0, NEW n \in 0..MaxUse
    PROVE  Within(T!Plus(u, kind, n), T!Plus(told, kind, n), limit,
                  [b EXCEPT ![kind] = @ - 1], l)
<1> DEFINE c == [b EXCEPT ![kind] = @ - 1]
           v == T!Plus(u, kind, n)
           t == T!Plus(told, kind, n)
<1>1. SUFFICES ASSUME NEW k \in T!Kinds
               PROVE  /\ v[k] + Load(c, k) * MaxUse <= T!AtMost(limit[k])
                      /\ t[k] <= (l - 1) * T!AtMost(limit[k]) + v[k]
                      /\ Load(c, k) > 0 => Estimate <= limit[k]
  BY DEF Within
<1>2. /\ u[k] + Load(b, k) * MaxUse <= T!AtMost(limit[k])
      /\ told[k] <= (l - 1) * T!AtMost(limit[k]) + u[k]
      /\ Load(b, k) > 0 => Estimate <= limit[k]
  BY DEF Within
<1>3. b["read"] \in Nat /\ b["write"] \in Nat /\ u[k] \in Nat /\ told[k] \in Nat /\ n \in Nat
  BY Limits DEF Uses, T!Kinds
<1>4. CASE k \notin T!Counts(kind)
  <2>1. k = "write" /\ kind = "read"
    BY <1>4 DEF T!Kinds, T!Counts
  <2>2. Load(c, k) = Load(b, k)
    BY <2>1 DEF Load, Uses, T!Kinds
  <2>3. v[k] = u[k] /\ t[k] = told[k]
    BY <1>4 DEF T!Plus
  <2> QED BY <1>2, <2>2, <2>3
<1>5. CASE k \in T!Counts(kind)
  <2>1. v[k] = u[k] + n /\ t[k] = told[k] + n
    BY <1>5 DEF T!Plus
  <2>2. Load(c, k) = Load(b, k) - 1
    BY <1>3, <1>5 DEF Load, T!Kinds, T!Counts, Uses
  <2>3. Load(b, k) \in Nat
    BY LoadIs
  <2>4. (Load(b, k) - 1) * MaxUse = Load(b, k) * MaxUse - MaxUse /\ Load(b, k) * MaxUse \in Int
    BY <2>3, Limits, NextProduct
  <2>5. (l - 1) * T!AtMost(limit[k]) \in Int /\ T!AtMost(limit[k]) \in Int
    BY DEF LimitOf
  <2> HIDE DEF v, t, c, LimitOf
  <2>6. v[k] + Load(c, k) * MaxUse <= T!AtMost(limit[k])
    BY <1>2, <1>3, <2>1, <2>2, <2>4, <2>5, Limits
  <2>7. t[k] <= (l - 1) * T!AtMost(limit[k]) + v[k]
    BY <1>2, <1>3, <2>1, <2>5
  <2> QED BY <1>2, <2>2, <2>3, <2>6, <2>7
<1> QED BY <1>4, <1>5

(* A task that ends without a record.                                      *)
LEMMA WithinLess ==
    ASSUME NEW u \in Uses, NEW told \in Uses, NEW limit, LimitOf(limit), NEW b \in Uses,
           NEW l \in Nat \ {0}, Within(u, told, limit, b, l), NEW kind \in T!Kinds, b[kind] > 0
    PROVE  Within(u, told, limit, [b EXCEPT ![kind] = @ - 1], l)
<1>1. \A v \in Uses : T!Plus(v, kind, 0) = v
  BY DEF T!Plus, Uses
<1>2. Within(T!Plus(u, kind, 0), T!Plus(told, kind, 0), limit, [b EXCEPT ![kind] = @ - 1], l)
  <2>1. 0 \in 0..MaxUse
    BY Limits
  <2> QED BY <2>1, WithinEnd
<1> QED BY <1>1, <1>2

(* A new day or week.                                                      *)
LEMMA WithinNew ==
    ASSUME NEW u \in Uses, NEW told \in Uses, NEW limit, LimitOf(limit), NEW b \in Uses,
           NEW l \in Nat \ {0}, Within(u, told, limit, b, l)
    PROVE  Within(u, T!None, limit, b, l) /\ Within(T!None, T!None, limit, b, l)
<1>1. SUFFICES ASSUME NEW k \in T!Kinds
               PROVE  /\ Load(b, k) * MaxUse <= T!AtMost(limit[k])
                      /\ 0 <= (l - 1) * T!AtMost(limit[k])
  <2>1. \A k \in T!Kinds : T!None[k] = 0 /\ u[k] \in Nat
    BY DEF T!None, Uses
  <2>2. \A k \in T!Kinds : Load(b, k) * MaxUse \in Int /\ (l - 1) * T!AtMost(limit[k]) \in Int
    BY LoadIs, Limits DEF LimitOf
  <2> QED BY <1>1, <2>1, <2>2 DEF Within
<1>2. u[k] + Load(b, k) * MaxUse <= T!AtMost(limit[k]) /\ u[k] \in Nat
  BY DEF Within, Uses
<1>3. Load(b, k) \in Nat /\ T!AtMost(limit[k]) \in Nat
  BY LoadIs DEF LimitOf
<1>4. Load(b, k) * MaxUse \in Nat
  BY <1>3, Limits
<1>5. (l - 1) * T!AtMost(limit[k]) \in Nat
  BY <1>3
<1> QED BY <1>2, <1>3, <1>4, <1>5

(* A new life.                                                             *)
LEMMA WithinLife ==
    ASSUME NEW u \in Uses, NEW told \in Uses, NEW limit, LimitOf(limit), NEW b \in Uses,
           NEW l \in Nat \ {0}, Within(u, told, limit, b, l)
    PROVE  Within(T!None, told, limit, T!None, l + 1)
<1>1. SUFFICES ASSUME NEW k \in T!Kinds
               PROVE  /\ Load(T!None, k) = 0 /\ T!None[k] = 0 /\ T!AtMost(limit[k]) \in Nat
                      /\ told[k] <= ((l + 1) - 1) * T!AtMost(limit[k])
  <2>1. 0 * MaxUse = 0
    BY Limits
  <2>2. \A k \in T!Kinds : ((l + 1) - 1) * T!AtMost(limit[k]) \in Int
    BY DEF LimitOf
  <2> QED BY <1>1, <2>1, <2>2 DEF Within
<1>2. Load(T!None, k) = 0 /\ T!None[k] = 0
  BY DEF Load, T!None, T!Kinds
<1>3. T!AtMost(limit[k]) \in Nat /\ u[k] \in Nat /\ told[k] \in Nat /\ Load(b, k) \in Nat
  BY LoadIs DEF LimitOf, Uses
<1>4. /\ u[k] + Load(b, k) * MaxUse <= T!AtMost(limit[k])
      /\ told[k] <= (l - 1) * T!AtMost(limit[k]) + u[k]
  BY DEF Within
<1>5. Load(b, k) * MaxUse \in Nat
  BY <1>3, Limits
<1>6. (l - 1) * T!AtMost(limit[k]) = l * T!AtMost(limit[k]) - T!AtMost(limit[k])
      /\ l * T!AtMost(limit[k]) \in Int
  BY <1>3, NextProduct
<1>7. (l + 1) - 1 = l
  OBVIOUS
<1> QED BY <1>2, <1>3, <1>4, <1>5, <1>6, <1>7

(* The bound on what is spent follows from what is under way.              *)
LEMMA WithinSpends ==
    ASSUME NEW u \in Uses, NEW told \in Uses, NEW limit, LimitOf(limit), NEW b \in Uses,
           NEW l \in Nat \ {0}, Within(u, told, limit, b, l), NEW k \in T!Kinds
    PROVE  told[k] <= l * T!AtMost(limit[k])
<1>1. T!AtMost(limit[k]) \in Nat /\ u[k] \in Nat /\ told[k] \in Nat /\ Load(b, k) \in Nat
  BY LoadIs DEF LimitOf, Uses
<1>2. /\ u[k] + Load(b, k) * MaxUse <= T!AtMost(limit[k])
      /\ told[k] <= (l - 1) * T!AtMost(limit[k]) + u[k]
  BY DEF Within
<1>3. Load(b, k) * MaxUse \in Nat
  BY <1>1, Limits
<1>4. (l - 1) * T!AtMost(limit[k]) = l * T!AtMost(limit[k]) - T!AtMost(limit[k])
      /\ l * T!AtMost(limit[k]) \in Int
  BY <1>1, NextProduct
<1> QED BY <1>1, <1>2, <1>3, <1>4

-----------------------------------------------------------------------------
(* The counters of a project.                                              *)
Counters == [there : {TRUE}, day : Uses, week : Uses, date : Int, start : Int]

(* The counters are not of a day, or at UTC a week, still to come.         *)
CountersOK ==
    \/ counters = T!NoState
    \/ /\ counters \in Counters /\ counters.date <= T!DateKey
       /\ offset = 0 => counters.start <= T!WeekKey

(* What was recorded in this day and week is in the counters, if they are  *)
(* of this day and week, or of earlier lives.                              *)
SpendInv ==
    /\ offset \in Int /\ hours \in Nat /\ lives \in Nat \ {0}
    /\ busy \in Uses /\ today \in Uses /\ week \in Uses
    /\ CountersOK
    /\ Within(T!UpToDate.day, today, Daily, busy, lives)
    /\ offset = 0 => Within(T!UpToDate.week, week, Weekly, busy, lives)

(* Both limits are limits.                                                 *)
LEMMA Budgets == LimitOf(Daily) /\ LimitOf(Weekly)
BY Limits DEF LimitOf

(* The date and the first day of the week, whatever the offset.            *)
LEMMA KeysOf ==
    ASSUME NEW h \in Nat, NEW o \in Int, NEW dt \in Nat \ {0}, NEW dw \in Nat \ {0}
    PROVE  h \div dt \in Nat /\ (h - (((h + o) \div dt) % dw) * dt) \div dt \in Int
<1>1. \A a \in Int, b \in Nat \ {0} : a \div b \in Int /\ a % b \in Int
  OBVIOUS
<1> DEFINE d == ((h + o) \div dt) % dw
<1>2. d \in Int
  BY <1>1
<1> HIDE DEF d
<1>3. h - d * dt \in Int
  BY <1>2
<1>4. (h - d * dt) \div dt \in Int
  BY <1>1, <1>3
<1> QED BY <1>4, DivMod DEF d

(* They are integers.                                                      *)
LEMMA KeysInt ==
    ASSUME hours \in Nat, offset \in Int
    PROVE  T!DateKey \in Nat /\ T!WeekKey \in Int
<1>1. DayTicks \in Nat \ {0} /\ DaysOfWeek \in Nat \ {0}
  BY FrontAssumption DEF FrontAssumption
<1> QED BY <1>1, KeysOf DEF T!DateKey, T!WeekKey

(* Nothing used is a use.                                                  *)
LEMMA NoneUsed == T!None \in Uses
BY DEF T!None, Uses

(* The same after a step.                                                  *)
LEMMA KeysIntThen ==
    ASSUME hours' \in Nat, offset' \in Int
    PROVE  T!DateKey' \in Int /\ T!WeekKey' \in Int
<1>1. DayTicks \in Nat \ {0} /\ DaysOfWeek \in Nat \ {0}
  BY FrontAssumption DEF FrontAssumption
<1>2. PICK h \in Nat, o \in Int : hours' = h /\ offset' = o
  OBVIOUS
<1> QED BY <1>1, <1>2, KeysOf DEF T!DateKey, T!WeekKey

(* UpToDate of a record of counters, at a time with these keys.            *)
UpTo(c, date, start) ==
    IF ~c.there
    THEN [there |-> TRUE, day |-> T!None, week |-> T!None, date |-> date, start |-> start]
    ELSE [c EXCEPT !.day = IF c.date = date THEN @ ELSE T!None, !.date = date,
                   !.week = IF c.start = start THEN @ ELSE T!None, !.start = start]

(* Counters brought up to a date: those of another day or week are reset,  *)
(* each by itself.                                                         *)
LEMMA UpToIs ==
    ASSUME NEW c, c = T!NoState \/ c \in Counters, NEW date \in Int, NEW start \in Int
    PROVE  /\ UpTo(c, date, start) \in Counters
           /\ UpTo(c, date, start).date = date /\ UpTo(c, date, start).start = start
           /\ UpTo(c, date, start).day =
                 IF c # T!NoState /\ c.date = date THEN c.day ELSE T!None
           /\ UpTo(c, date, start).week =
                 IF c # T!NoState /\ c.start = start THEN c.week ELSE T!None
<1>1. CASE c = T!NoState
  BY <1>1, NoneUsed DEF UpTo, T!NoState, Counters
<1>2. CASE c # T!NoState
  <2>1. c \in Counters /\ c.there
    BY <1>2 DEF Counters
  <2>2. UpTo(c, date, start) =
          [c EXCEPT !.day = IF c.date = date THEN @ ELSE T!None, !.date = date,
                    !.week = IF c.start = start THEN @ ELSE T!None, !.start = start]
    BY <2>1 DEF UpTo
  <2> QED BY <1>2, <2>1, <2>2, NoneUsed DEF Counters
<1> QED BY <1>1, <1>2

(* The model brings the counters up to the present date.                   *)
LEMMA UpIs == T!UpToDate = UpTo(counters, T!DateKey, T!WeekKey)
BY DEF T!UpToDate, UpTo

(* The same after a step.                                                  *)
LEMMA UpThen == T!UpToDate' = UpTo(counters', T!DateKey', T!WeekKey')
BY DEF T!UpToDate, UpTo, T!DateKey, T!WeekKey

(* Counters that are up to date need no reset.                             *)
LEMMA Looked ==
    ASSUME SpendInv, counters' \in Counters, counters'.date = T!DateKey,
           counters'.start = T!WeekKey, UNCHANGED <<hours, offset>>
    PROVE  /\ CountersOK'
           /\ T!UpToDate'.day = counters'.day /\ T!UpToDate'.week = counters'.week
<1>1. T!DateKey' = T!DateKey /\ T!WeekKey' = T!WeekKey
  BY DEF T!DateKey, T!WeekKey
<1>2. T!DateKey \in Int /\ T!WeekKey \in Int
  BY KeysInt DEF SpendInv
<1>3. CountersOK'
  BY <1>1, <1>2 DEF CountersOK
<1>4. counters' # T!NoState
  BY DEF Counters, T!NoState
<1> QED BY <1>1, <1>2, <1>3, <1>4, UpThen, UpToIs

(* The counters of today, and their types.                                 *)
LEMMA UpNow ==
    ASSUME SpendInv
    PROVE  /\ T!UpToDate \in Counters /\ T!UpToDate.day \in Uses /\ T!UpToDate.week \in Uses
           /\ T!UpToDate.date = T!DateKey /\ T!UpToDate.start = T!WeekKey
<1>1. T!DateKey \in Int /\ T!WeekKey \in Int /\ (counters = T!NoState \/ counters \in Counters)
  BY KeysInt DEF SpendInv, CountersOK
<1>2. /\ T!UpToDate \in Counters
      /\ T!UpToDate.date = T!DateKey /\ T!UpToDate.start = T!WeekKey
  BY <1>1, UpIs, UpToIs
<1> QED BY <1>2 DEF Counters

LEMMA SpendCheck == ASSUME SpendInv, T!Check PROVE SpendInv'
<1>1. counters' = T!UpToDate /\ UNCHANGED <<offset, hours, busy, today, week, lives>>
  BY DEF T!Check
<1>2. /\ CountersOK'
      /\ T!UpToDate'.day = T!UpToDate.day /\ T!UpToDate'.week = T!UpToDate.week
  BY <1>1, UpNow, Looked
<1> QED BY <1>1, <1>2 DEF SpendInv

LEMMA SpendStart == ASSUME SpendInv, NEW kind \in T!Kinds, T!Start(kind) PROVE SpendInv'
<1>1. /\ counters' = T!UpToDate /\ UNCHANGED <<offset, hours, today, week, lives>>
      /\ busy' = [busy EXCEPT ![kind] = @ + 1] /\ busy["read"] + busy["write"] < Slots
      /\ T!Allowed(T!UpToDate, kind)
  BY DEF T!Start
<1>2. /\ CountersOK'
      /\ T!UpToDate'.day = T!UpToDate.day /\ T!UpToDate'.week = T!UpToDate.week
  BY <1>1, UpNow, Looked
<1> DEFINE u == T!UpToDate
<1>3. \A k \in T!Counts(kind) :
          u.day[k] + Estimate <= Daily[k] /\ u.week[k] + Estimate <= Weekly[k]
  BY <1>1 DEF T!Allowed
<1>4. u.day \in Uses /\ u.week \in Uses
  BY UpNow
<1>5. busy \in Uses /\ today \in Uses /\ week \in Uses /\ lives \in Nat \ {0}
      /\ Within(u.day, today, Daily, busy, lives)
      /\ (offset = 0 => Within(u.week, week, Weekly, busy, lives))
  BY DEF SpendInv
<1> HIDE DEF u
<1>6. Within(u.day, today, Daily, busy', lives)
  BY <1>1, <1>3, <1>4, <1>5, Budgets, WithinStart
<1>7. offset = 0 => Within(u.week, week, Weekly, busy', lives)
  BY <1>1, <1>3, <1>4, <1>5, Budgets, WithinStart
<1>8. busy' \in Uses
  BY <1>1, <1>5 DEF Uses, T!Kinds
<1> QED BY <1>1, <1>2, <1>6, <1>7, <1>8 DEF SpendInv, u

(* recordUsage of a task that ended.                                       *)
LEMMA SpendRecord ==
    ASSUME SpendInv, NEW kind \in T!Kinds, NEW n \in 1..MaxUse, T!Record(kind, n)
    PROVE  SpendInv'
<1> DEFINE u == T!UpToDate
<1>1. /\ counters' = [u EXCEPT !.day = T!Plus(@, kind, n), !.week = T!Plus(@, kind, n)]
      /\ UNCHANGED <<offset, hours, lives>>
      /\ today' = T!Plus(today, kind, n) /\ week' = T!Plus(week, kind, n)
      /\ busy[kind] > 0 /\ busy' = [busy EXCEPT ![kind] = @ - 1]
  BY DEF T!Record
<1>2. /\ u \in Counters /\ u.day \in Uses /\ u.week \in Uses
      /\ u.date = T!DateKey /\ u.start = T!WeekKey
  BY UpNow
<1>3. n \in 0..MaxUse /\ n \in Nat
  BY Limits
<1>4. \A v \in Uses : T!Plus(v, kind, n) \in Uses
  BY <1>3 DEF T!Plus, Uses
<1>5. busy \in Uses /\ today \in Uses /\ week \in Uses /\ lives \in Nat \ {0}
      /\ Within(u.day, today, Daily, busy, lives)
      /\ (offset = 0 => Within(u.week, week, Weekly, busy, lives))
  BY DEF SpendInv
<1> HIDE DEF u
<1>6. /\ counters' \in Counters /\ counters'.date = T!DateKey /\ counters'.start = T!WeekKey
      /\ counters'.day = T!Plus(u.day, kind, n) /\ counters'.week = T!Plus(u.week, kind, n)
  BY <1>1, <1>2, <1>4 DEF Counters
<1>7. /\ CountersOK'
      /\ T!UpToDate'.day = T!Plus(u.day, kind, n) /\ T!UpToDate'.week = T!Plus(u.week, kind, n)
  BY <1>1, <1>6, Looked
<1>8. Within(T!Plus(u.day, kind, n), today', Daily, busy', lives)
  BY <1>1, <1>2, <1>3, <1>5, Budgets, WithinEnd
<1>9. offset = 0 => Within(T!Plus(u.week, kind, n), week', Weekly, busy', lives)
  BY <1>1, <1>2, <1>3, <1>5, Budgets, WithinEnd
<1>10. busy' \in Uses
  BY <1>1, <1>5 DEF Uses
<1> QED BY <1>1, <1>4, <1>5, <1>7, <1>8, <1>9, <1>10 DEF SpendInv

LEMMA SpendFails == ASSUME SpendInv, NEW kind \in T!Kinds, T!Fails(kind) PROVE SpendInv'
<1> DEFINE u == T!UpToDate
<1>1. /\ UNCHANGED <<offset, hours, counters, today, week, lives>>
      /\ busy[kind] > 0 /\ busy' = [busy EXCEPT ![kind] = @ - 1]
  BY DEF T!Fails
<1>2. u.day \in Uses /\ u.week \in Uses
  BY UpNow
<1>3. busy \in Uses /\ today \in Uses /\ week \in Uses /\ lives \in Nat \ {0}
      /\ Within(u.day, today, Daily, busy, lives)
      /\ (offset = 0 => Within(u.week, week, Weekly, busy, lives))
  BY DEF SpendInv
<1>4. CountersOK' /\ u' = u
  BY <1>1 DEF SpendInv, CountersOK, T!DateKey, T!WeekKey, T!UpToDate
<1> HIDE DEF u
<1>5. Within(u.day, today, Daily, busy', lives)
  BY <1>1, <1>2, <1>3, Budgets, WithinLess
<1>6. offset = 0 => Within(u.week, week, Weekly, busy', lives)
  BY <1>1, <1>2, <1>3, Budgets, WithinLess
<1>7. busy' \in Uses
  BY <1>1, <1>3 DEF Uses
<1> QED BY <1>1, <1>4, <1>5, <1>6, <1>7 DEF SpendInv, u

LEMMA SpendRestart == ASSUME SpendInv, T!Restart PROVE SpendInv'
<1> DEFINE u == T!UpToDate
<1>1. /\ UNCHANGED <<offset, hours, today, week>> /\ lives' = lives + 1
      /\ counters' = T!NoState /\ busy' = T!None
  BY DEF T!Restart
<1>2. u.day \in Uses /\ u.week \in Uses
  BY UpNow
<1>3. busy \in Uses /\ today \in Uses /\ week \in Uses /\ lives \in Nat \ {0}
      /\ Within(u.day, today, Daily, busy, lives)
      /\ (offset = 0 => Within(u.week, week, Weekly, busy, lives))
  BY DEF SpendInv
<1> HIDE DEF u
<1>4. Within(T!None, today, Daily, T!None, lives + 1)
  BY <1>2, <1>3, Budgets, WithinLife
<1>5. offset = 0 => Within(T!None, week, Weekly, T!None, lives + 1)
  BY <1>2, <1>3, Budgets, WithinLife
<1>6. T!UpToDate'.day = T!None /\ T!UpToDate'.week = T!None
  <2>1. T!DateKey' = T!DateKey /\ T!WeekKey' = T!WeekKey
    BY <1>1 DEF T!DateKey, T!WeekKey
  <2>2. T!DateKey \in Int /\ T!WeekKey \in Int
    BY KeysInt DEF SpendInv
  <2> QED BY <1>1, <2>1, <2>2, UpThen, UpToIs
<1>7. CountersOK'
  BY <1>1 DEF CountersOK
<1> QED BY <1>1, <1>3, <1>4, <1>5, <1>6, <1>7, NoneUsed DEF SpendInv

(* The keys of the day and, on a host whose clock is UTC, of the week move *)
(* on when what was recorded is cleared.                                   *)
LEMMA KeysMove ==
    ASSUME SpendInv, T!Tick
    PROVE  /\ T!DateKey <= T!DateKey'
           /\ T!DateKey' # T!DateKey => today' = T!None
           /\ offset = 0 => /\ T!WeekKey <= T!WeekKey'
                            /\ T!WeekKey' # T!WeekKey => week' = T!None
<1>1. DayTicks \in Nat \ {0} /\ DaysOfWeek \in Nat \ {0} /\ hours \in Nat
  BY FrontAssumption DEF FrontAssumption, SpendInv
<1>2. /\ hours' = hours + 1 /\ offset' = offset
      /\ hours' % DayTicks = 0 => today' = T!None
      /\ hours' % (DayTicks * DaysOfWeek) = 0 => week' = T!None
  BY DEF T!Tick
<1>3. T!DateKey <= T!DateKey' /\ (T!DateKey' # T!DateKey => hours' % DayTicks = 0)
  <2>1. \/ (hours + 1) \div DayTicks = hours \div DayTicks
        \/ /\ (hours + 1) \div DayTicks = hours \div DayTicks + 1
           /\ (hours + 1) % DayTicks = 0
    BY <1>1, DivNext
  <2>2. hours \div DayTicks \in Nat
    BY <1>1, DivMod
  <2> QED BY <1>2, <2>1, <2>2 DEF T!DateKey
<1>4. ASSUME offset = 0
      PROVE  /\ T!WeekKey <= T!WeekKey'
             /\ T!WeekKey' # T!WeekKey => hours' % (DayTicks * DaysOfWeek) = 0
  <2> DEFINE first(m) == (m - ((m \div DayTicks) % DaysOfWeek) * DayTicks) \div DayTicks
  <2>1. hours + offset = hours /\ hours' + offset' = hours + 1
    BY <1>1, <1>2, <1>4
  <2>2. T!WeekKey = first(hours)
    BY <2>1 DEF T!WeekKey
  <2>3. T!WeekKey' = first(hours + 1)
    BY <1>2, <2>1 DEF T!WeekKey
  <2>4. /\ first(hours) <= first(hours + 1)
        /\ first(hours + 1) # first(hours) => (hours + 1) % (DayTicks * DaysOfWeek) = 0
    BY <1>1, WeekMoves
  <2> HIDE DEF first
  <2> QED BY <1>2, <2>2, <2>3, <2>4
<1> QED BY <1>2, <1>3, <1>4

LEMMA SpendTick == ASSUME SpendInv, T!Tick PROVE SpendInv'
<1> DEFINE u == T!UpToDate
<1>1. /\ UNCHANGED <<offset, counters, busy, lives>> /\ hours' = hours + 1
      /\ today' \in {today, T!None} /\ week' \in {week, T!None}
  BY DEF T!Tick
<1>2. u.day \in Uses /\ u.week \in Uses
  BY UpNow
<1>3. busy \in Uses /\ today \in Uses /\ week \in Uses /\ lives \in Nat \ {0}
      /\ Within(u.day, today, Daily, busy, lives)
      /\ (offset = 0 => Within(u.week, week, Weekly, busy, lives))
  BY DEF SpendInv
<1>4. /\ T!DateKey \in Int /\ T!WeekKey \in Int
      /\ hours' \in Nat /\ offset' \in Int /\ (counters = T!NoState \/ counters \in Counters)
  BY <1>1, KeysInt DEF SpendInv, CountersOK
<1>5. T!DateKey' \in Int /\ T!WeekKey' \in Int
  BY <1>4, KeysIntThen
<1>k. /\ T!DateKey <= T!DateKey'
      /\ T!DateKey' # T!DateKey => today' = T!None
      /\ offset = 0 => T!WeekKey <= T!WeekKey' /\ (T!WeekKey' # T!WeekKey => week' = T!None)
  BY KeysMove
<1>c. counters # T!NoState =>
          /\ counters.date \in Int /\ counters.start \in Int /\ counters.date <= T!DateKey
          /\ offset = 0 => counters.start <= T!WeekKey
  BY DEF SpendInv, CountersOK, Counters
<1>6. CountersOK'
  <2>1. CASE counters = T!NoState
    BY <1>1, <2>1 DEF CountersOK
  <2>2. CASE counters # T!NoState
    <3>1. counters' \in Counters /\ counters'.date <= T!DateKey'
      BY <1>1, <1>4, <1>5, <1>k, <1>c, <2>2
    <3>2. offset' = 0 => counters'.start <= T!WeekKey'
      BY <1>1, <1>4, <1>5, <1>k, <1>c, <2>2
    <3> QED BY <3>1, <3>2 DEF CountersOK
  <2> QED BY <2>1, <2>2
<1>7. u.day = IF counters # T!NoState /\ counters.date = T!DateKey THEN counters.day ELSE T!None
  BY <1>4, UpIs, UpToIs, SMTT(30)
<1>8. u.week = IF counters # T!NoState /\ counters.start = T!WeekKey THEN counters.week ELSE T!None
  BY <1>4, UpIs, UpToIs, SMTT(30)
<1>9. u'.day = IF counters # T!NoState /\ counters.date = T!DateKey' THEN counters.day ELSE T!None
  BY <1>1, <1>4, <1>5, UpThen, UpToIs
<1>10. u'.week = IF counters # T!NoState /\ counters.start = T!WeekKey' THEN counters.week ELSE T!None
  BY <1>1, <1>4, <1>5, UpThen, UpToIs
<1>11. \/ u'.day = u.day
       \/ u'.day = T!None /\ today' = T!None
  <2>1. CASE T!DateKey' = T!DateKey
    BY <1>7, <1>9, <2>1
  <2>2. CASE T!DateKey' # T!DateKey
    <3>1. counters # T!NoState => counters.date # T!DateKey'
      BY <1>4, <1>5, <2>2, <1>k, <1>c
    <3> QED BY <1>9, <2>2, <3>1, <1>k
  <2> QED BY <2>1, <2>2
<1>12. offset = 0 =>
          \/ u'.week = u.week
          \/ u'.week = T!None /\ week' = T!None
  <2>1. CASE T!WeekKey' = T!WeekKey
    <3>1. u'.week = u.week
      BY <1>8, <1>10, <2>1, Zenon
    <3> QED BY <3>1
  <2>2. CASE T!WeekKey' # T!WeekKey /\ offset = 0
    <3>1. counters # T!NoState => counters.start # T!WeekKey'
      BY <1>4, <1>5, <2>2, <1>k, <1>c
    <3> QED BY <1>10, <2>2, <3>1, <1>k
  <2> QED BY <2>1, <2>2
<1> HIDE DEF u
<1>13. Within(u'.day, today', Daily, busy, lives)
  BY <1>1, <1>2, <1>3, <1>11, Budgets, WithinNew
<1>14. offset = 0 => Within(u'.week, week', Weekly, busy, lives)
  BY <1>1, <1>2, <1>3, <1>12, Budgets, WithinNew
<1> QED BY <1>1, <1>3, <1>4, <1>6, <1>13, <1>14, NoneUsed DEF SpendInv, u

(* Whatever tasks run, fail and are recorded, days and weeks change and    *)
(* the server restarts, a project spends in a day, and by UTC in a week,   *)
(* no more than its limit and what was under way per life of the server:   *)
(* checkBudget, recordUsage, resetDaily, resetWeekly.                      *)
THEOREM SpendWithin == T!Spec => []SpendBounded
<1>1. ASSUME T!Init PROVE SpendInv
  <2>1. /\ offset \in Int /\ hours = 0 /\ counters = T!NoState /\ lives = 1
        /\ busy = T!None /\ today = T!None /\ week = T!None
    BY <1>1, FrontAssumption DEF T!Init, FrontAssumption
  <2>2. CountersOK
    BY <2>1 DEF CountersOK
  <2>3. T!DateKey \in Int /\ T!WeekKey \in Int
    BY <2>1, KeysInt
  <2>4. T!UpToDate.day = T!None /\ T!UpToDate.week = T!None
    <3>1. UpTo(T!NoState, T!DateKey, T!WeekKey).day = T!None
          /\ UpTo(T!NoState, T!DateKey, T!WeekKey).week = T!None
      BY <2>3, UpToIs
    <3> QED BY <3>1, <2>1, UpIs
  <2>5. Within(T!None, T!None, Daily, T!None, 1) /\ Within(T!None, T!None, Weekly, T!None, 1)
    <3>1. \A k \in T!Kinds : T!None[k] = 0 /\ Load(T!None, k) = 0
      BY DEF T!None, Load, T!Kinds
    <3>2. 0 * MaxUse = 0 /\ \A k \in T!Kinds : (1 - 1) * T!AtMost(Daily[k]) = 0
                                            /\ (1 - 1) * T!AtMost(Weekly[k]) = 0
      BY Limits
    <3> QED BY <3>1, <3>2, Limits DEF Within
  <2> QED BY <2>1, <2>2, <2>4, <2>5, NoneUsed DEF SpendInv
<1>2. ASSUME SpendInv, [T!Next]_tvars PROVE SpendInv'
  <2>1. CASE UNCHANGED tvars
    BY <1>2, <2>1 DEF tvars, SpendInv, CountersOK, Within, Load, T!UpToDate, T!DateKey, T!WeekKey
  <2>2. CASE T!Check \/ T!Tick \/ T!Restart
    BY <1>2, <2>2, SpendCheck, SpendTick, SpendRestart
  <2>3. CASE \E kind \in T!Kinds : \/ T!Start(kind) \/ T!Fails(kind)
                                   \/ \E n \in 1..MaxUse : T!Record(kind, n)
    BY <1>2, <2>3, SpendStart, SpendFails, SpendRecord
  <2> QED BY <1>2, <2>1, <2>2, <2>3 DEF T!Next
<1>3. ASSUME SpendInv PROVE SpendBounded
  <2>1. /\ busy \in Uses /\ today \in Uses /\ week \in Uses /\ lives \in Nat \ {0}
        /\ Within(T!UpToDate.day, today, Daily, busy, lives)
        /\ (offset = 0 => Within(T!UpToDate.week, week, Weekly, busy, lives))
    BY <1>3 DEF SpendInv
  <2>2. T!UpToDate.day \in Uses /\ T!UpToDate.week \in Uses
    BY <1>3, UpNow
  <2>3. \A k \in T!Kinds : today[k] <= lives * T!AtMost(Daily[k])
    BY <2>1, <2>2, Budgets, WithinSpends
  <2>4. offset = 0 => \A k \in T!Kinds : week[k] <= lives * T!AtMost(Weekly[k])
    BY <2>1, <2>2, Budgets, WithinSpends
  <2> QED BY <2>3, <2>4 DEF SpendBounded, T!SpendBounded
<1> QED BY <1>1, <1>2, <1>3, PTL DEF T!Spec, T!vars, tvars
=============================================================================
