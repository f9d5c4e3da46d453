---------------------------- MODULE OperationsProofs ----------------------------
(***************************************************************************)
(* Proofs about the programs that timers run: the recovery controller, for *)
(* any set of components and any number of runs, crashes, reboots and      *)
(* resets; the update controller, for any set of versions and of crashes;  *)
(* the SLI collector, for any number of runs at once.                      *)
(***************************************************************************)
EXTENDS MCOperations, TLAPS

(* The recovery controller: the limit of automatic restarts, and the       *)
(* agreement of the state's name with its counters.                        *)

(* The name of an entry's state agrees with its counters, and the entry    *)
(* has not more attempts than a recovery may begin with and add.           *)
Agrees(e) ==
    /\ e.state \in {"HEALTHY", "RECOVERED"} <=> e.failures = 0
    /\ e.state = "DEGRADED" => e.failures < WARNING_AFTER
    /\ e.state \in {"RECOVERED", "RECOVERY_FAILED"} => e.attempts > 0
    /\ e.state \in {"COOLDOWN", "ESCALATION_REQUIRED", "RECOVERY_PENDING"}
          => e.failures = RECOVERY_AFTER

Entries ==
    \A c \in Components :
        /\ Agrees(file[c]) /\ file[c].attempts <= MAX_RECOVERY_ATTEMPTS
        /\ Agrees(loaded[c]) /\ loaded[c].attempts <= MAX_RECOVERY_ATTEMPTS

(* What is restarted was found below the limit and above the threshold.    *)
ActingMay ==
    acting # NoComponent =>
        /\ loaded[acting].attempts < MAX_RECOVERY_ATTEMPTS
        /\ Failed(loaded[acting]).failures = RECOVERY_AFTER

(* A restart is counted in the file unless it is under way or its run      *)
(* died; the count that is about to be written has it as well.             *)
Pending(c) == IF acting = c THEN 1 ELSE 0

Counted ==
    \A c \in Components :
        /\ restarts[c] <= file[c].attempts + Pending(c) + faults
        /\ acting # NoComponent => restarts[c] <= loaded[c].attempts + Pending(c) + faults

(* The inductive invariant.                                                *)
RecoveryInv == RecoveryTypeOK /\ Entries /\ ActingMay /\ Counted

-----------------------------------------------------------------------------
USE DEF WARNING_AFTER, RECOVERY_AFTER, ESCALATE_AFTER, MAX_RECOVERY_ATTEMPTS

LEMMA FreshEntry == Fresh \in Entry /\ Agrees(Fresh) /\ Fresh.attempts = 0
BY DEF Fresh, Entry, States, Agrees

LEMMA FailedEntry ==
    ASSUME NEW e \in Entry
    PROVE  /\ Failed(e) \in Entry /\ Failed(e).attempts = e.attempts
           /\ Failed(e).failures \in 1..RECOVERY_AFTER
BY DEF Failed, Entry

LEMMA NotedEntry ==
    ASSUME RecoveryInv, NEW c \in Components
    PROVE  Noted(c) \in Entry /\ Agrees(Noted(c)) /\ Noted(c).attempts = file[c].attempts
<1>1. file[c] \in Entry
  BY DEF RecoveryInv, RecoveryTypeOK
<1>2. /\ Failed(file[c]) \in Entry /\ Failed(file[c]).attempts = file[c].attempts
      /\ Failed(file[c]).failures \in 1..RECOVERY_AFTER
  BY <1>1, FailedEntry
<1> QED BY <1>2 DEF Noted, Agrees, Entry, States

LEMMA ActedEntry ==
    ASSUME NEW e \in Entry, NEW passed \in BOOLEAN,
           Failed(e).failures = RECOVERY_AFTER
    PROVE  /\ Acted(e, passed) \in Entry /\ Agrees(Acted(e, passed))
           /\ Acted(e, passed).attempts = e.attempts + 1
BY FailedEntry DEF Acted, Agrees, Entry, States

(* A check answers one of the classes 0 to 3.                              *)
LEMMA ClassesBounded == ASSUME NEW c PROVE Classes(c) \subseteq 0..3
BY DEF Classes, ServiceClass, CliClass

-----------------------------------------------------------------------------
LEMMA RecoveryInit == ASSUME Init PROVE RecoveryInv
<1> USE RecoveryAssumption, FreshEntry DEF RecoveryAssumption, Init
<1>1. RecoveryTypeOK
  <2>1. file \in [Components -> Entry] /\ loaded \in [Components -> Entry]
    OBVIOUS
  <2>2. health \in [Components -> 0..3] /\ restarts \in [Components -> Nat]
    OBVIOUS
  <2> QED BY <2>1, <2>2 DEF RecoveryTypeOK
<1>2. Entries /\ ActingMay
  BY DEF Entries, ActingMay
<1>3. Counted
  BY DEF Counted, Pending
<1> QED BY <1>1, <1>2, <1>3 DEF RecoveryInv

(* Steps that leave the files, the restart under way and the counts alone. *)
LEMMA RecoveryFrame ==
    ASSUME RecoveryInv, RecoveryTypeOK',
           UNCHANGED <<file, loaded, acting, restarts, faults>>
    PROVE  RecoveryInv'
BY DEF RecoveryInv, Entries, ActingMay, Counted, Pending

LEMMA RecoveryNote == ASSUME RecoveryInv, Note PROVE RecoveryInv'
<1> USE RecoveryAssumption DEF RecoveryAssumption
<1>1. PICK c \in todo : file' = [file EXCEPT ![c] = Noted(c)] /\ todo' = todo \ {c}
  BY DEF Note
<1>2. c \in Components
  BY <1>1 DEF RecoveryInv, RecoveryTypeOK
<1>3. Noted(c) \in Entry /\ Agrees(Noted(c)) /\ Noted(c).attempts = file[c].attempts
  BY <1>2, NotedEntry
<1>4. RecoveryTypeOK'
  BY <1>1, <1>2, <1>3 DEF RecoveryInv, RecoveryTypeOK, Note
<1>5. Entries'
  BY <1>1, <1>2, <1>3 DEF RecoveryInv, RecoveryTypeOK, Entries, Note
<1>6. ActingMay'
  BY DEF RecoveryInv, ActingMay, Note
<1>7. Counted'
  BY <1>1, <1>2, <1>3 DEF RecoveryInv, RecoveryTypeOK, Counted, Pending, Note
<1> QED BY <1>4, <1>5, <1>6, <1>7 DEF RecoveryInv

LEMMA RecoveryAct == ASSUME RecoveryInv, Act PROVE RecoveryInv'
<1> USE RecoveryAssumption DEF RecoveryAssumption
<1>1. PICK c \in todo :
         /\ MustAct(c) /\ acting' = c /\ todo' = todo \ {c}
         /\ restarts' = [restarts EXCEPT ![c] = @ + 1]
         /\ \E h \in {0, health[c]} : health' = [health EXCEPT ![c] = h]
  BY DEF Act
<1>2. c \in Components /\ acting = NoComponent /\ loaded' = file
      /\ UNCHANGED <<file, cooling, dry, faults, resets>>
  BY <1>1 DEF RecoveryInv, RecoveryTypeOK, Act
<1>3. /\ file[c].attempts < MAX_RECOVERY_ATTEMPTS
      /\ Failed(file[c]).failures = RECOVERY_AFTER
  BY <1>1, <1>2, FailedEntry DEF MustAct, Limited, RecoveryInv, RecoveryTypeOK, Entry
<1>4. RecoveryTypeOK'
  BY <1>1, <1>2 DEF RecoveryInv, RecoveryTypeOK
<1>5. Entries' /\ ActingMay'
  BY <1>1, <1>2, <1>3 DEF RecoveryInv, Entries, ActingMay
<1>6. Counted'
  BY <1>1, <1>2 DEF RecoveryInv, RecoveryTypeOK, Counted, Pending, Entry
<1> QED BY <1>4, <1>5, <1>6 DEF RecoveryInv

LEMMA RecoveryConclude == ASSUME RecoveryInv, Conclude PROVE RecoveryInv'
<1> USE RecoveryAssumption DEF RecoveryAssumption
<1>1. PICK passed \in BOOLEAN :
         /\ file' = [loaded EXCEPT ![acting] = Acted(@, passed)]
         /\ cooling' = IF passed THEN cooling \union {acting} ELSE cooling
  BY DEF Conclude
<1>2. /\ acting \in Components /\ acting' = NoComponent
      /\ loaded' = [c \in Components |-> Fresh]
      /\ UNCHANGED <<health, todo, dry, restarts, faults, resets>>
  BY DEF RecoveryInv, RecoveryTypeOK, Conclude
<1>3. /\ Acted(loaded[acting], passed) \in Entry /\ Agrees(Acted(loaded[acting], passed))
      /\ Acted(loaded[acting], passed).attempts = loaded[acting].attempts + 1
      /\ loaded[acting].attempts < MAX_RECOVERY_ATTEMPTS
      /\ loaded[acting].attempts \in Nat
  BY <1>2, ActedEntry DEF RecoveryInv, RecoveryTypeOK, ActingMay, Entry
<1>4. RecoveryTypeOK'
  BY <1>1, <1>2, <1>3, FreshEntry DEF RecoveryInv, RecoveryTypeOK
<1>5. Entries' /\ ActingMay'
  BY <1>1, <1>2, <1>3, FreshEntry DEF RecoveryInv, RecoveryTypeOK, Entries, ActingMay
<1>6. Counted'
  BY <1>1, <1>2, <1>3 DEF RecoveryInv, RecoveryTypeOK, Counted, Pending
<1> QED BY <1>4, <1>5, <1>6 DEF RecoveryInv

LEMMA RecoveryReset == ASSUME RecoveryInv, Reset PROVE RecoveryInv'
<1> USE FreshEntry DEF Reset
<1>1. RecoveryTypeOK'
  BY DEF RecoveryInv, RecoveryTypeOK
<1>2. Entries' /\ ActingMay'
  BY DEF RecoveryInv, Entries, ActingMay
<1>3. Counted'
  BY DEF RecoveryInv, RecoveryTypeOK, Counted, Pending, Entry
<1> QED BY <1>1, <1>2, <1>3 DEF RecoveryInv

LEMMA RecoveryCrash == ASSUME RecoveryInv, Crash PROVE RecoveryInv'
<1> USE RecoveryAssumption, FreshEntry DEF RecoveryAssumption, Crash
<1>1. RecoveryTypeOK'
  <2>1. file' \in [Components -> Entry] /\ loaded' \in [Components -> Entry]
    BY DEF RecoveryInv, RecoveryTypeOK
  <2>2. restarts' \in [Components -> Nat]
    BY DEF RecoveryInv, RecoveryTypeOK
  <2>3. cooling' \subseteq Components /\ todo' \subseteq Components
    BY DEF RecoveryInv, RecoveryTypeOK
  <2>4. faults' \in Nat /\ resets' \in Nat
    BY DEF RecoveryInv, RecoveryTypeOK
  <2>5. health' \in [Components -> 0..3] /\ acting' \in Components \union {NoComponent}
    BY DEF RecoveryInv, RecoveryTypeOK
  <2>6. dry' \in BOOLEAN
    OBVIOUS
  <2> QED BY <2>1, <2>2, <2>3, <2>4, <2>5, <2>6 DEF RecoveryTypeOK
<1>2. Entries' /\ ActingMay'
  BY DEF RecoveryInv, Entries, ActingMay
<1>3. Counted'
  BY DEF RecoveryInv, RecoveryTypeOK, Counted, Pending, Entry
<1> QED BY <1>1, <1>2, <1>3 DEF RecoveryInv

LEMMA RecoveryStep == ASSUME RecoveryInv, [Next]_vars PROVE RecoveryInv'
<1>1. CASE TimerRun \/ ManualRun
  <2>1. RecoveryTypeOK' /\ UNCHANGED <<file, loaded, acting, restarts, faults>>
    BY <1>1 DEF TimerRun, ManualRun, Start, RecoveryInv, RecoveryTypeOK
  <2> QED BY <2>1, RecoveryFrame
<1>2. CASE Skip
  <2>1. RecoveryTypeOK' /\ UNCHANGED <<file, loaded, acting, restarts, faults>>
    BY <1>2 DEF Skip, RecoveryInv, RecoveryTypeOK
  <2> QED BY <2>1, RecoveryFrame
<1>3. CASE \E c \in Components : CoolingEnds(c) \/ HealthChanges(c)
  <2>1. RecoveryTypeOK' /\ UNCHANGED <<file, loaded, acting, restarts, faults>>
    BY <1>3, ClassesBounded DEF CoolingEnds, HealthChanges, RecoveryInv, RecoveryTypeOK
  <2> QED BY <2>1, RecoveryFrame
<1>4. CASE UNCHANGED vars
  <2>1. RecoveryTypeOK' /\ UNCHANGED <<file, loaded, acting, restarts, faults>>
    BY <1>4 DEF vars, RecoveryInv, RecoveryTypeOK
  <2> QED BY <2>1, RecoveryFrame
<1> QED
  BY <1>1, <1>2, <1>3, <1>4, RecoveryNote, RecoveryAct, RecoveryConclude, RecoveryReset,
     RecoveryCrash DEF Next, Run

-----------------------------------------------------------------------------
(* What the invariant says, at every moment, of the limit and the names.   *)
LEMMA RecoveryImplies ==
    ASSUME RecoveryInv
    PROVE  RecoveryTypeOK /\ RestartsBounded /\ StateMatchesCounters
<1> USE RecoveryAssumption DEF RecoveryAssumption
<1>1. RestartsBounded
  <2> SUFFICES ASSUME NEW c \in Components
               PROVE  restarts[c] <= MAX_RECOVERY_ATTEMPTS + faults
    BY DEF RestartsBounded
  <2>1. /\ restarts[c] \in Nat /\ faults \in Nat
        /\ file[c].attempts \in Nat /\ loaded[c].attempts \in Nat
    BY DEF RecoveryInv, RecoveryTypeOK, Entry
  <2>2. CASE acting = c
    BY <2>1, <2>2 DEF RecoveryInv, ActingMay, Counted, Pending
  <2>3. CASE acting # c
    BY <2>1, <2>3 DEF RecoveryInv, Entries, Counted, Pending
  <2> QED BY <2>2, <2>3
<1>2. StateMatchesCounters
  BY DEF RecoveryInv, Entries, Agrees, StateMatchesCounters
<1> QED BY <1>1, <1>2 DEF RecoveryInv

LEMMA RecoveryInvariant == Spec => []RecoveryInv
<1>1. Init => RecoveryInv
  BY RecoveryInit
<1>2. RecoveryInv /\ [Next]_vars => RecoveryInv'
  BY RecoveryStep
<1> QED BY <1>1, <1>2, PTL DEF Spec

(* The state file, what a run has read of it and the counters have the     *)
(* types the code gives them: evaluateComponent, saveState, resetState.    *)
THEOREM RecoveryTypeCorrect == Spec => []RecoveryTypeOK
<1>1. RecoveryInv => RecoveryTypeOK
  BY RecoveryImplies
<1> QED BY <1>1, RecoveryInvariant, PTL

(* Between two resets no component is restarted automatically more than    *)
(* MAX_RECOVERY_ATTEMPTS times, plus once for each run that died between a *)
(* restart and the write that counts it (evaluateComponent).               *)
THEOREM RestartsLimited == Spec => []RestartsBounded
<1>1. RecoveryInv => RestartsBounded
  BY RecoveryImplies
<1> QED BY <1>1, RecoveryInvariant, PTL

(* The state that the gates of the update controller and the dashboard     *)
(* read agrees with the counters it was chosen by (evaluateComponent).     *)
THEOREM StateTold == Spec => []StateMatchesCounters
<1>1. RecoveryInv => StateMatchesCounters
  BY RecoveryImplies
<1> QED BY <1>1, RecoveryInvariant, PTL

(* Limit and names together: what the counters of the state file promise.  *)
THEOREM CountersKept == Spec => []CountersTell
<1> QED BY RestartsLimited, StateTold, PTL DEF CountersTell

-----------------------------------------------------------------------------
(* The update controller.  The checksum of a snapshot is taken before its  *)
(* manifest is written, so that no snapshot is ever valid; a promotion and *)
(* a rollback ask for a valid one and change nothing.                      *)

(* A state that names the installed version.                               *)
Whole(s) == s = [version |-> Installed, canary |-> s.canary, blocked |-> s.blocked]

(* Nothing that is saved, or about to be, names another version than the   *)
(* installed one, and the latest snapshot is not valid.                    *)
FrozenInv ==
    /\ binary = Installed /\ lock = Installed
    /\ state = Torn \/ Whole(state)
    /\ tmp = Torn \/ Whole(tmp)
    /\ snapshot = NoSnapshot \/ snapshot.lock = Installed
    /\ ~SnapshotValid(snapshot)
    /\ at = [r \in Runs |-> at[r]]
    /\ work = [r \in Runs |-> work[r]]
    /\ \A r \in Runs : at[r] \in {"asking", "installing", "write", "copy", "copying"}
                          => Whole(work[r])

-----------------------------------------------------------------------------
(* createSnapshot makes no valid snapshot.                                 *)
LEMMA SnapshotBroken ==
    ASSUME NEW v, NEW l
    PROVE  ~SnapshotValid(Snapshot(v, l)) /\ Snapshot(v, l).lock = l
  BY DEF SnapshotValid, Snapshot, Captured

(* What is loaded names the installed version, also if the file was torn.  *)
LEMMA ReadWhole ==
    ASSUME FrozenInv, NEW s \in Read
    PROVE  Whole(s)
  BY DEF FrozenInv, Read, DefaultState, Whole

(* A run that goes on with a whole state, or stops, keeps the part of the  *)
(* invariant that is about runs.                                           *)
LEMMA GoesOn ==
    ASSUME FrozenInv, NEW r \in Runs, NEW step, NEW s, Goes(r, step, s),
           Whole(s) \/ step \in {"idle", "unlink"}
    PROVE  /\ at' = [q \in Runs |-> at'[q]]
           /\ work' = [q \in Runs |-> work'[q]]
           /\ \A q \in Runs : at'[q] \in {"asking", "installing", "write", "copy", "copying"}
                                 => Whole(work'[q])
<1>1. at' = [at EXCEPT ![r] = step] /\ work' = [work EXCEPT ![r] = s]
  BY DEF Goes
<1>2. \A q \in Runs : /\ at'[q] = IF q = r THEN step ELSE at[q]
                      /\ work'[q] = IF q = r THEN s ELSE work[q]
  BY <1>1 DEF FrozenInv
<1>3. at' = [q \in Runs |-> at'[q]] /\ work' = [q \in Runs |-> work'[q]]
  BY <1>1 DEF FrozenInv
<1> QED BY <1>2, <1>3 DEF FrozenInv

(* What the operator does leaves the version alone.                        *)
LEMMA OperatorKeeps ==
    ASSUME FrozenInv, Operator
    PROVE  FrozenInv'
<1>1. "command" \in Runs
  BY DEF Runs
<1>2. CASE CreateSnapshot
  <2>1. PICK s \in Read : Goes("command", "write", s) /\ snapshot' = Snapshot(s.version, lock)
    BY <1>2 DEF CreateSnapshot
  <2>2. ~SnapshotValid(snapshot)' /\ snapshot'.lock = Installed
    BY <2>1, SnapshotBroken DEF FrozenInv, SnapshotValid
  <2> QED BY <1>1, <1>2, <2>1, <2>2, ReadWhole, GoesOn DEF CreateSnapshot, FrozenInv
<1>3. ASSUME NEW v \in Versions, CreateCanary(v)
      PROVE  FrozenInv'
  <2>1. PICK s \in Read : Goes("command", "installing", s)
    BY <1>3 DEF CreateCanary
  <2> QED BY <1>1, <1>3, <2>1, ReadWhole, GoesOn DEF CreateCanary, FrozenInv, SnapshotValid
<1>4. CASE CanaryInstalled
  <2> DEFINE s == [work["command"] EXCEPT !.canary = target]
  <2>1. Whole(s)
    BY <1>1, <1>4 DEF CanaryInstalled, FrozenInv, Whole
  <2>2. Goes("command", "write", s)
    BY <1>4 DEF CanaryInstalled
  <2> HIDE DEF s
  <2> QED BY <1>1, <1>4, <2>1, <2>2, GoesOn DEF CanaryInstalled, FrozenInv, SnapshotValid
<1>5. CASE CanaryFails
  BY <1>1, <1>5, GoesOn DEF CanaryFails, FrozenInv, SnapshotValid
<1>6. ASSUME NEW v \in Versions, Promote(v)
      PROVE  FrozenInv'
  <2>1. \A failing : FailedGates(snapshot, failing) # {}
    BY DEF FailedGates, FrozenInv
  <2>2. Goes("command", "idle", Torn) /\ UNCHANGED <<binary, lock>>
    BY <1>6, <2>1 DEF Promote
  <2> QED BY <1>1, <1>6, <2>2, GoesOn DEF Promote, FrozenInv, SnapshotValid
<1>7. CASE Rollback
  <2>1. Goes("command", "idle", Torn) /\ UNCHANGED lock
    BY <1>7 DEF Rollback, FrozenInv
  <2> QED BY <1>1, <1>7, <2>1, GoesOn DEF Rollback, FrozenInv, SnapshotValid
<1>8. CASE Restore
  BY <1>8 DEF Restore, FrozenInv, SnapshotValid, Whole
<1> QED BY <1>2, <1>3, <1>4, <1>5, <1>6, <1>7, <1>8 DEF Operator

(* Neither do checks, saves and crashes, whoever's temporary file a run    *)
(* finds.                                                                  *)
LEMMA RunKeeps ==
    ASSUME FrozenInv, NEW r \in Runs,
           Save(r) \/ Killed(r) \/ CheckLoads(r) \/ CheckAnswers(r)
    PROVE  FrozenInv'
<1>1. CASE CheckLoads(r)
  <2>1. PICK s \in Read : Goes(r, "asking", s)
    BY <1>1 DEF CheckLoads
  <2> QED BY <1>1, <2>1, ReadWhole, GoesOn DEF CheckLoads, FrozenInv, SnapshotValid
<1>2. CASE CheckAnswers(r)
  <2>1. Whole(work[r])
    BY <1>2 DEF CheckAnswers, FrozenInv
  <2> QED BY <1>2, <2>1, GoesOn DEF CheckAnswers, FrozenInv, SnapshotValid
<1>3. CASE WriteTmp(r)
  <2>1. Whole(work[r])
    BY <1>3 DEF WriteTmp, FrozenInv
  <2> QED BY <1>3, <2>1, GoesOn DEF WriteTmp, FrozenInv, SnapshotValid
<1>4. CASE CopyBegins(r)
  <2>1. CASE tmp = Torn
    BY <1>4, <2>1, GoesOn DEF CopyBegins, FrozenInv, SnapshotValid
  <2>2. CASE tmp # Torn
    BY <1>4, <2>2, GoesOn DEF CopyBegins, FrozenInv, SnapshotValid
  <2> QED BY <2>1, <2>2
<1>5. CASE CopyEnds(r)
  <2>1. Whole(work[r])
    BY <1>5 DEF CopyEnds, FrozenInv
  <2> QED BY <1>5, <2>1, GoesOn DEF CopyEnds, FrozenInv, SnapshotValid
<1>6. CASE Unlink(r)
  BY <1>6, GoesOn DEF Unlink, FrozenInv, SnapshotValid
<1>7. CASE Killed(r)
  BY <1>7, GoesOn DEF Killed, FrozenInv, SnapshotValid
<1> QED BY <1>1, <1>2, <1>3, <1>4, <1>5, <1>6, <1>7 DEF Save

-----------------------------------------------------------------------------
(* The binary, the lock file and the state file name one version at all    *)
(* times, through lost, stale and torn saves: promote and rollback stop at *)
(* the checksum of the snapshot, and nothing else writes a version.        *)
THEOREM OneVersion == UpdateSpec => []VersionsAgree
<1>1. UpdateInit => FrozenInv
  BY DEF UpdateInit, FrozenInv, DefaultState, Whole, SnapshotValid, NoSnapshot
<1>2. FrozenInv /\ [UpdateNext]_updatevars => FrozenInv'
  <2> SUFFICES ASSUME FrozenInv, [UpdateNext]_updatevars
               PROVE  FrozenInv'
    OBVIOUS
  <2>1. CASE UNCHANGED updatevars
    BY <2>1 DEF updatevars, FrozenInv, SnapshotValid, Whole
  <2>2. Checks \subseteq Runs
    BY DEF Runs
  <2> QED BY <2>1, <2>2, OperatorKeeps, RunKeeps DEF UpdateNext
<1>3. FrozenInv => VersionsAgree
  BY DEF FrozenInv, Whole, VersionsAgree
<1> QED BY <1>1, <1>2, <1>3, PTL DEF UpdateSpec

-----------------------------------------------------------------------------
(* The canary that the state file calls active.                            *)

(* At most one --check runs beside the operator's commands: with two, one  *)
(* may publish what a command has left in the temporary file and another   *)
(* may have emptied it since.                                              *)
OneCheck == \A c, d \in Checks : c = d

(* Runs that hold a state they may still save, and runs that are saving.   *)
Carrying == {"asking", "write", "copy", "copying"}
Saving == {"copy", "copying", "unlink"}

Built == canary.manifest
Has(s) == s.canary = Built

(* Nothing is under way that could take the canary out of the file.        *)
Settled ==
    /\ Built # None
    /\ state = Torn \/ Has(state)
    /\ tmp = Torn \/ Has(tmp)
    /\ \A r \in Runs : at[r] \in Carrying => Has(work[r])

(* No state anywhere names another canary than the one built last; while   *)
(* one is being installed, none names any.                                 *)
BuiltOnly ==
    /\ state.canary \in {None, Built} /\ tmp.canary \in {None, Built}
    /\ \A r \in Runs : work[r].canary \in {None, Built}

NoneNamed ==
    at["command"] = "installing" =>
        /\ state.canary = None /\ tmp.canary = None
        /\ \A r \in Runs : work[r].canary = None

(* A check that holds the canary, or a temporary file that names it, has   *)
(* it from a command that has saved it or is just saving it.               *)
CheckSettled == \A c \in Checks : work[c].canary # None => Settled

TmpSettled ==
    tmp.canary # None =>
        \/ Settled \/ at["command"] = "unlink"
        \/ at["command"] \in {"copy", "copying"} /\ Has(work["command"])

(* A command does not forget the canary the file names, and no check means *)
(* nothing stale.                                                          *)
StateSettled ==
    state.canary # None =>
        /\ at["command"] \in Carrying => Has(work["command"])
        /\ (\A c \in Checks : at[c] = "idle") => Settled

TmpOwned ==
    tmp # Torn /\ (\A c \in Checks : at[c] \notin Saving) =>
        \/ at["command"] \in {"copy", "copying"} /\ tmp = work["command"]
        \/ at["command"] = "unlink" /\ state = tmp

BuiltInv ==
    /\ BuiltOnly /\ NoneNamed /\ CheckSettled /\ TmpSettled /\ StateSettled /\ TmpOwned

Clean == crashes = 0 /\ ~garbled

-----------------------------------------------------------------------------
LEMMA GoesEffect ==
    ASSUME FrozenInv, NEW r \in Runs, NEW step, NEW s, Goes(r, step, s)
    PROVE  /\ at'[r] = step /\ work'[r] = s
           /\ \A q \in Runs : q # r => at'[q] = at[q] /\ work'[q] = work[q]
           /\ garbled' = (garbled \/ (at[r] = "idle" /\ state = Torn))
BY DEF Goes, FrozenInv

(* A run that loads a file that is not torn goes on with what it says.     *)
LEMMA LoadKeeps ==
    ASSUME OneCheck, BuiltInv, NEW r \in Runs, at[r] = "idle", state # Torn,
           at'[r] \in {"asking", "write"}, work'[r] = state,
           \A q \in Runs : q # r => at'[q] = at[q] /\ work'[q] = work[q],
           UNCHANGED <<state, tmp, canary>>
    PROVE  BuiltInv'
<1>1. "command" \in Runs /\ "command" \notin Checks /\ Checks \subseteq Runs /\ Runs = {"command"} \union Checks
  BY UpdateAssumption DEF Runs
<1>2. Built' = Built
  BY DEF Built
<1>3. Settled => Settled'
  BY <1>2 DEF Settled, Has, Carrying
<1>4. BuiltOnly'
  BY <1>2 DEF BuiltInv, BuiltOnly
<1>5. NoneNamed'
  BY <1>1 DEF BuiltInv, NoneNamed
<1>6. CheckSettled'
  <2> SUFFICES ASSUME NEW c \in Checks, work'[c].canary # None PROVE Settled
    BY <1>3 DEF CheckSettled
  <2>1. CASE c = r
    BY <2>1, <1>1 DEF BuiltInv, StateSettled, OneCheck
  <2>2. CASE c # r
    BY <2>2, <1>1 DEF BuiltInv, CheckSettled
  <2> QED BY <2>1, <2>2
<1>7. TmpSettled'
  BY <1>1, <1>2, <1>3 DEF BuiltInv, TmpSettled, Has
<1>8. StateSettled'
  <2>1. CASE r = "command"
    BY <2>1, <1>1, <1>2, <1>3 DEF BuiltInv, BuiltOnly, StateSettled, Has
  <2>2. CASE r # "command"
    BY <2>2, <1>1, <1>2 DEF BuiltInv, StateSettled, Has
  <2> QED BY <2>1, <2>2
<1>9. TmpOwned'
  BY <1>1 DEF BuiltInv, TmpOwned, Saving
<1> QED BY <1>4, <1>5, <1>6, <1>7, <1>8, <1>9 DEF BuiltInv

(* A command that ends without a save.                                     *)
LEMMA StopKeeps ==
    ASSUME BuiltInv, at["command"] \in {"idle", "installing"},
           at'["command"] = "idle", work'["command"] = Torn,
           \A q \in Runs : q # "command" => at'[q] = at[q] /\ work'[q] = work[q],
           UNCHANGED <<state, tmp, canary>>
    PROVE  BuiltInv'
<1>1. "command" \in Runs /\ "command" \notin Checks /\ Checks \subseteq Runs
  BY UpdateAssumption DEF Runs
<1>2. Built' = Built /\ Torn.canary = None
  BY DEF Built, Torn
<1>3. Settled => Settled'
  BY <1>2 DEF Settled, Has, Carrying
<1>4. BuiltOnly' /\ NoneNamed'
  BY <1>2 DEF BuiltInv, BuiltOnly, NoneNamed
<1>5. CheckSettled' /\ TmpSettled'
  BY <1>1, <1>2, <1>3 DEF BuiltInv, CheckSettled, TmpSettled, Has
<1>6. StateSettled' /\ TmpOwned'
  BY <1>1, <1>3 DEF BuiltInv, StateSettled, TmpOwned, Carrying
<1> QED BY <1>4, <1>5, <1>6 DEF BuiltInv

(* A new canary is begun only when no state names one.                     *)
LEMMA BeginKeeps ==
    ASSUME BuiltInv, at["command"] = "idle", state # Torn, state.canary = None,
           at'["command"] = "installing", work'["command"] = state,
           \A q \in Runs : q # "command" => at'[q] = at[q] /\ work'[q] = work[q],
           UNCHANGED <<state, tmp, canary>>
    PROVE  BuiltInv'
<1>1. "command" \in Runs /\ "command" \notin Checks /\ Checks \subseteq Runs /\ Runs = {"command"} \union Checks
  BY UpdateAssumption DEF Runs
<1>2. Built' = Built
  BY DEF Built
<1>3. ~Settled
  BY DEF Settled, Has
<1>4. tmp.canary = None /\ \A c \in Checks : work[c].canary = None
  BY <1>3 DEF BuiltInv, CheckSettled, TmpSettled
<1>5. BuiltOnly' /\ NoneNamed'
  BY <1>1, <1>2, <1>4 DEF BuiltInv, BuiltOnly, NoneNamed
<1>6. CheckSettled' /\ TmpSettled' /\ StateSettled'
  BY <1>1, <1>4 DEF CheckSettled, TmpSettled, StateSettled
<1>7. TmpOwned'
  BY <1>1 DEF BuiltInv, TmpOwned
<1> QED BY <1>5, <1>6, <1>7 DEF BuiltInv

LEMMA InstalledKeeps ==
    ASSUME BuiltInv, at["command"] = "installing", canary'.manifest = target,
           at'["command"] = "write", work'["command"].canary = target,
           \A q \in Runs : q # "command" => at'[q] = at[q] /\ work'[q] = work[q],
           UNCHANGED <<state, tmp>>
    PROVE  BuiltInv'
<1>1. "command" \in Runs /\ "command" \notin Checks /\ Checks \subseteq Runs
  BY UpdateAssumption DEF Runs
<1>2. Built' = target
  BY DEF Built
<1>3. /\ state.canary = None /\ tmp.canary = None
      /\ \A r \in Runs : work[r].canary = None
  BY DEF BuiltInv, NoneNamed
<1>4. BuiltOnly' /\ NoneNamed'
  BY <1>2, <1>3 DEF BuiltOnly, NoneNamed
<1>5. CheckSettled' /\ TmpSettled' /\ StateSettled'
  BY <1>1, <1>3 DEF CheckSettled, TmpSettled, StateSettled
<1>6. TmpOwned'
  BY <1>1 DEF BuiltInv, TmpOwned
<1> QED BY <1>4, <1>5, <1>6 DEF BuiltInv

LEMMA AnswerKeeps ==
    ASSUME BuiltInv, NEW r \in Checks, at[r] = "asking", at'[r] = "write",
           \A q \in Runs : q # r => at'[q] = at[q],
           \A q \in Runs : work'[q] = work[q],
           UNCHANGED <<state, tmp, canary>>
    PROVE  BuiltInv'
<1>1. "command" \in Runs /\ "command" \notin Checks /\ Checks \subseteq Runs
  BY UpdateAssumption DEF Runs
<1>2. Built' = Built
  BY DEF Built
<1>3. Settled => Settled'
  BY <1>1, <1>2 DEF Settled, Has, Carrying
<1>4. BuiltOnly' /\ NoneNamed' /\ CheckSettled' /\ TmpSettled'
  BY <1>1, <1>2, <1>3 DEF BuiltInv, BuiltOnly, NoneNamed, CheckSettled, TmpSettled, Has
<1>5. StateSettled' /\ TmpOwned'
  BY <1>1, <1>2, <1>3 DEF BuiltInv, StateSettled, TmpOwned, Has, Saving
<1> QED BY <1>4, <1>5 DEF BuiltInv

(* The temporary file is the one of the run that wrote it last.            *)
LEMMA WriteTmpKeeps ==
    ASSUME OneCheck, BuiltInv, NEW r \in Runs, at[r] = "write", at'[r] = "copy",
           tmp' = work[r],
           \A q \in Runs : q # r => at'[q] = at[q],
           \A q \in Runs : work'[q] = work[q],
           UNCHANGED <<state, canary>>
    PROVE  BuiltInv'
<1>1. "command" \in Runs /\ "command" \notin Checks /\ Checks \subseteq Runs /\ Runs = {"command"} \union Checks
  BY UpdateAssumption DEF Runs
<1>2. Built' = Built
  BY DEF Built
<1>3. Settled => Settled'
  BY <1>1, <1>2 DEF Settled, Has, Carrying
<1>4. BuiltOnly' /\ NoneNamed' /\ CheckSettled'
  BY <1>1, <1>2, <1>3 DEF BuiltInv, BuiltOnly, NoneNamed, CheckSettled
<1>5. TmpSettled'
  <2>1. CASE r = "command"
    BY <2>1, <1>1, <1>2 DEF BuiltInv, BuiltOnly, TmpSettled, Has
  <2>2. CASE r # "command"
    BY <2>2, <1>1, <1>3 DEF BuiltInv, CheckSettled, TmpSettled
  <2> QED BY <2>1, <2>2
<1>6. StateSettled'
  BY <1>1, <1>2, <1>3 DEF BuiltInv, StateSettled, Has, Carrying
<1>7. TmpOwned'
  BY <1>1 DEF BuiltInv, TmpOwned, Saving, OneCheck
<1> QED BY <1>4, <1>5, <1>6, <1>7 DEF BuiltInv

(* A save that finds no temporary file is lost.                            *)
LEMMA LostKeeps ==
    ASSUME BuiltInv, NEW r \in Runs, at[r] = "copy", tmp = Torn,
           at'[r] = "idle", work'[r] = Torn,
           \A q \in Runs : q # r => at'[q] = at[q] /\ work'[q] = work[q],
           UNCHANGED <<state, tmp, canary>>
    PROVE  BuiltInv'
<1>1. "command" \in Runs /\ "command" \notin Checks /\ Checks \subseteq Runs
  BY UpdateAssumption DEF Runs
<1>2. Built' = Built /\ Torn.canary = None
  BY DEF Built, Torn
<1>3. Settled => Settled'
  BY <1>2 DEF Settled, Has, Carrying
<1>4. BuiltOnly' /\ NoneNamed' /\ CheckSettled' /\ TmpSettled' /\ TmpOwned'
  BY <1>1, <1>2, <1>3
  DEF BuiltInv, BuiltOnly, NoneNamed, CheckSettled, TmpSettled, TmpOwned
<1>5. StateSettled'
  <2> SUFFICES ASSUME state.canary # None PROVE StateSettled'
    BY DEF StateSettled
  <2>1. Built # None /\ Has(state) /\ (at["command"] \in Carrying => Has(work["command"]))
    BY DEF BuiltInv, BuiltOnly, StateSettled, Has
  <2>2. at'["command"] \in Carrying => Has(work["command"])'
    BY <2>1, <1>1, <1>2 DEF Has, Carrying
  <2>3. (\A c \in Checks : at'[c] = "idle") => Settled'
    BY <2>1, <2>2, <1>1, <1>2 DEF Settled, Has, Carrying, Runs
  <2> QED BY <2>2, <2>3 DEF StateSettled
<1> QED BY <1>4, <1>5 DEF BuiltInv

(* The copy empties the state file, and takes what the temporary file says *)
(* by then.                                                                *)
LEMMA CopyBeginsKeeps ==
    ASSUME OneCheck, BuiltInv, NEW r \in Runs, at[r] = "copy", tmp # Torn,
           at'[r] = "copying", work'[r] = tmp, state' = Torn,
           \A q \in Runs : q # r => at'[q] = at[q] /\ work'[q] = work[q],
           UNCHANGED <<tmp, canary>>
    PROVE  BuiltInv'
<1>1. "command" \in Runs /\ "command" \notin Checks /\ Runs = {"command"} \union Checks
  BY UpdateAssumption DEF Runs
<1>2. Built' = Built /\ Torn.canary = None
  BY DEF Built, Torn
<1>3. Settled => Settled'
  BY <1>2 DEF Settled, Has, Carrying
<1>4. BuiltOnly' /\ NoneNamed'
  BY <1>1, <1>2 DEF BuiltInv, BuiltOnly, NoneNamed
<1>5. CheckSettled'
  <2> SUFFICES ASSUME NEW c \in Checks, work'[c].canary # None PROVE Settled'
    BY DEF CheckSettled
  <2>1. CASE c = r
    <3>1. tmp.canary # None /\ Has(tmp) /\ Built # None
      BY <2>1 DEF BuiltInv, BuiltOnly, Has
    <3>2. Settled \/ (at["command"] \in Carrying => Has(work["command"]))
      BY <3>1 DEF BuiltInv, TmpSettled, Carrying
    <3>3. \A q \in Runs : q = r \/ q = "command"
      BY <1>1, <2>1 DEF OneCheck
    <3>4. CASE at["command"] \in Carrying => Has(work["command"])
      BY <3>1, <3>3, <3>4, <1>2, <2>1, <1>1 DEF Settled, Has, Carrying
    <3> QED BY <3>2, <3>4, <1>3
  <2>2. CASE c # r
    BY <2>2, <1>1, <1>3 DEF BuiltInv, CheckSettled
  <2> QED BY <2>1, <2>2
<1>6. TmpSettled'
  <2>1. CASE r = "command"
    BY <2>1, <1>1, <1>2 DEF BuiltInv, BuiltOnly, TmpSettled, Has
  <2>2. CASE r # "command"
    BY <2>2, <1>1, <1>2, <1>3 DEF BuiltInv, TmpSettled, Has
  <2> QED BY <2>1, <2>2
<1>7. StateSettled' /\ TmpOwned'
  BY <1>1, <1>2 DEF StateSettled, TmpOwned, Saving
<1> QED BY <1>4, <1>5, <1>6, <1>7 DEF BuiltInv

(* The state file gets what the copy has read.                             *)
LEMMA CopyEndsKeeps ==
    ASSUME BuiltInv, NEW r \in Runs, at[r] = "copying",
           at'[r] = "unlink", work'[r] = Torn, state' = work[r],
           \A q \in Runs : q # r => at'[q] = at[q] /\ work'[q] = work[q],
           UNCHANGED <<tmp, canary>>
    PROVE  BuiltInv'
<1>1. "command" \in Runs /\ "command" \notin Checks /\ Runs = {"command"} \union Checks
  BY UpdateAssumption DEF Runs
<1>2. Built' = Built /\ Torn.canary = None
  BY DEF Built, Torn
<1>3. Settled => Settled'
  BY <1>2 DEF Settled, Has, Carrying
<1>4. BuiltOnly' /\ NoneNamed'
  BY <1>1, <1>2 DEF BuiltInv, BuiltOnly, NoneNamed
<1>5. CheckSettled' /\ TmpSettled'
  BY <1>1, <1>2, <1>3 DEF BuiltInv, CheckSettled, TmpSettled, Has
<1>6. StateSettled'
  <2> SUFFICES ASSUME work[r].canary # None PROVE StateSettled'
    BY DEF StateSettled
  <2>1. CASE r \in Checks
    <3>1. Settled'
      BY <2>1, <1>3 DEF BuiltInv, CheckSettled
    <3> QED BY <3>1, <1>1 DEF Settled, StateSettled
  <2>2. CASE r = "command"
    <3>1. Has(work[r]) /\ Built # None
      BY DEF BuiltInv, BuiltOnly, Has
    <3>2. (\A c \in Checks : at[c] = "idle") => tmp = Torn \/ Has(tmp)
      BY <2>2, <3>1 DEF BuiltInv, TmpOwned, Saving
    <3>3. (\A c \in Checks : at'[c] = "idle") => Settled'
      BY <2>2, <3>1, <3>2, <1>1, <1>2 DEF Settled, Has, Carrying
    <3> QED BY <2>2, <3>3 DEF StateSettled, Carrying
  <2> QED BY <2>1, <2>2, <1>1
<1>7. TmpOwned'
  <2>1. CASE r \in Checks
    BY <2>1 DEF TmpOwned, Saving
  <2>2. CASE r = "command"
    BY <2>2, <1>1 DEF BuiltInv, TmpOwned
  <2> QED BY <2>1, <2>2, <1>1
<1> QED BY <1>4, <1>5, <1>6, <1>7 DEF BuiltInv

LEMMA UnlinkKeeps ==
    ASSUME BuiltInv, NEW r \in Runs, at[r] = "unlink", tmp' = Torn,
           at'[r] = "idle", work'[r] = Torn,
           \A q \in Runs : q # r => at'[q] = at[q] /\ work'[q] = work[q],
           UNCHANGED <<state, canary>>
    PROVE  BuiltInv'
<1>1. "command" \in Runs /\ "command" \notin Checks /\ Runs = {"command"} \union Checks
  BY UpdateAssumption DEF Runs
<1>2. Built' = Built /\ Torn.canary = None
  BY DEF Built, Torn
<1>3. Settled => Settled'
  BY <1>2 DEF Settled, Has, Carrying
<1>4. BuiltOnly' /\ NoneNamed' /\ CheckSettled' /\ TmpSettled' /\ TmpOwned'
  BY <1>1, <1>2, <1>3
  DEF BuiltInv, BuiltOnly, NoneNamed, CheckSettled, TmpSettled, TmpOwned
<1>5. StateSettled'
  <2> SUFFICES ASSUME state.canary # None PROVE StateSettled'
    BY DEF StateSettled
  <2>1. Built # None /\ Has(state) /\ (at["command"] \in Carrying => Has(work["command"]))
    BY DEF BuiltInv, BuiltOnly, StateSettled, Has
  <2>2. at'["command"] \in Carrying => Has(work["command"])'
    BY <2>1, <1>1, <1>2 DEF Has, Carrying
  <2>3. (\A c \in Checks : at'[c] = "idle") => Settled'
    BY <2>1, <2>2, <1>1, <1>2 DEF Settled, Has, Carrying
  <2> QED BY <2>2, <2>3 DEF StateSettled
<1> QED BY <1>4, <1>5 DEF BuiltInv

-----------------------------------------------------------------------------
(* A step leads from a clean state only to a clean one, or to one that has *)
(* met a crash or a torn file.                                             *)
LEMMA OperatorBuilds ==
    ASSUME OneCheck, FrozenInv, FrozenInv', BuiltInv, Clean, Operator, Clean'
    PROVE  BuiltInv'
<1>1. "command" \in Runs
  BY DEF Runs
<1>2. CASE CreateSnapshot
  <2>1. PICK s \in Read : Goes("command", "write", s)
    BY <1>2 DEF CreateSnapshot
  <2>2. at["command"] = "idle" /\ state # Torn /\ s = state
    BY <1>1, <1>2, <2>1, GoesEffect DEF CreateSnapshot, Clean, Read
  <2> QED BY <1>1, <1>2, <2>1, <2>2, GoesEffect, LoadKeeps DEF CreateSnapshot
<1>3. ASSUME NEW v \in Versions, CreateCanary(v)
      PROVE  BuiltInv'
  <2>1. PICK s \in Read : MayCreate(s, v) /\ Goes("command", "installing", s)
    BY <1>3 DEF CreateCanary
  <2>2. at["command"] = "idle" /\ state # Torn /\ s = state /\ state.canary = None
    BY <1>1, <1>3, <2>1, GoesEffect DEF CreateCanary, Clean, Read, MayCreate
  <2> QED BY <1>1, <1>3, <2>1, <2>2, GoesEffect, BeginKeeps DEF CreateCanary
<1>4. CASE CanaryInstalled
  <2> DEFINE s == [work["command"] EXCEPT !.canary = target]
  <2>1. s.canary = target
    BY <1>1, <1>4 DEF CanaryInstalled, FrozenInv, Whole
  <2>2. Goes("command", "write", s) /\ at["command"] = "installing" /\ canary'.manifest = target
    BY <1>4 DEF CanaryInstalled
  <2> HIDE DEF s
  <2> QED BY <1>1, <1>4, <2>1, <2>2, GoesEffect, InstalledKeeps DEF CanaryInstalled
<1>5. CASE CanaryFails
  BY <1>1, <1>5, GoesEffect, StopKeeps DEF CanaryFails
<1>6. ASSUME NEW v \in Versions, Promote(v)
      PROVE  BuiltInv'
  <2>1. \A failing : FailedGates(snapshot, failing) # {}
    BY DEF FailedGates, FrozenInv
  <2>2. Goes("command", "idle", Torn)
    BY <1>6, <2>1 DEF Promote
  <2> QED BY <1>1, <1>6, <2>2, GoesEffect, StopKeeps DEF Promote
<1>7. CASE Rollback
  <2>1. Goes("command", "idle", Torn)
    BY <1>7 DEF Rollback, FrozenInv
  <2> QED BY <1>1, <1>7, <2>1, GoesEffect, StopKeeps DEF Rollback
<1>8. CASE Restore
  BY <1>8 DEF Restore, BuiltInv, BuiltOnly, NoneNamed, CheckSettled, TmpSettled,
      StateSettled, TmpOwned, Settled, Built, Has
<1> QED BY <1>2, <1>3, <1>4, <1>5, <1>6, <1>7, <1>8 DEF Operator

LEMMA RunBuilds ==
    ASSUME OneCheck, FrozenInv, FrozenInv', BuiltInv, Clean, Clean', NEW r \in Runs,
           Save(r) \/ Killed(r) \/ (r \in Checks /\ (CheckLoads(r) \/ CheckAnswers(r)))
    PROVE  BuiltInv'
<1>1. CASE r \in Checks /\ CheckLoads(r)
  <2>1. PICK s \in Read : Goes(r, "asking", s)
    BY <1>1 DEF CheckLoads
  <2>2. at[r] = "idle" /\ state # Torn /\ s = state
    BY <1>1, <2>1, GoesEffect DEF CheckLoads, Clean, Read
  <2> QED BY <1>1, <2>1, <2>2, GoesEffect, LoadKeeps DEF CheckLoads
<1>2. CASE r \in Checks /\ CheckAnswers(r)
  <2>1. /\ at[r] = "asking" /\ at'[r] = "write"
        /\ \A q \in Runs : q # r => at'[q] = at[q]
        /\ \A q \in Runs : work'[q] = work[q]
    BY <1>2, GoesEffect DEF CheckAnswers
  <2> QED BY <1>2, <2>1, AnswerKeeps DEF CheckAnswers
<1>3. CASE WriteTmp(r)
  <2>1. /\ at[r] = "write" /\ at'[r] = "copy"
        /\ \A q \in Runs : q # r => at'[q] = at[q]
        /\ \A q \in Runs : work'[q] = work[q]
    BY <1>3, GoesEffect DEF WriteTmp
  <2> QED BY <1>3, <2>1, WriteTmpKeeps DEF WriteTmp
<1>4. CASE CopyBegins(r)
  <2>1. CASE tmp = Torn
    BY <1>4, <2>1, GoesEffect, LostKeeps DEF CopyBegins
  <2>2. CASE tmp # Torn
    BY <1>4, <2>2, GoesEffect, CopyBeginsKeeps DEF CopyBegins
  <2> QED BY <2>1, <2>2
<1>5. CASE CopyEnds(r)
  BY <1>5, GoesEffect, CopyEndsKeeps DEF CopyEnds
<1>6. CASE Unlink(r)
  BY <1>6, GoesEffect, UnlinkKeeps DEF Unlink
<1>7. ~Killed(r)
  BY DEF Killed, Clean
<1> QED BY <1>1, <1>2, <1>3, <1>4, <1>5, <1>6, <1>7 DEF Save

(* A crash and a torn file are never forgotten.                            *)
LEMMA CleanBefore ==
    ASSUME FrozenInv, crashes \in Nat, UpdateNext
    PROVE  crashes' \in Nat /\ (Clean' => Clean)
<1>1. \A r, step, s : Goes(r, step, s) => (garbled => garbled')
  BY DEF Goes
<1>2. ASSUME Operator PROVE UNCHANGED crashes /\ (garbled => garbled')
  <2>1. CASE CreateSnapshot
    BY <2>1, <1>1 DEF CreateSnapshot
  <2>2. ASSUME NEW v \in Versions, CreateCanary(v) \/ Promote(v)
        PROVE  UNCHANGED crashes /\ (garbled => garbled')
    BY <2>2, <1>1 DEF CreateCanary, Promote
  <2>3. CASE CanaryInstalled \/ CanaryFails \/ Restore
    BY <2>3, <1>1 DEF CanaryInstalled, CanaryFails, Restore
  <2>4. CASE Rollback
    BY <2>4, <1>1 DEF Rollback
  <2> QED BY <1>2, <2>1, <2>2, <2>3, <2>4 DEF Operator
<1>3. ASSUME NEW r, Save(r) \/ CheckLoads(r) \/ CheckAnswers(r)
      PROVE  UNCHANGED crashes /\ (garbled => garbled')
  BY <1>3, <1>1 DEF Save, CheckLoads, CheckAnswers, WriteTmp, CopyBegins, CopyEnds, Unlink
<1>4. ASSUME NEW r, Killed(r)
      PROVE  crashes' = crashes + 1 /\ (garbled => garbled')
  BY <1>4, <1>1 DEF Killed
<1> QED BY <1>2, <1>3, <1>4 DEF UpdateNext, Clean

(* The inductive invariant.                                                *)
CanaryInv == FrozenInv /\ crashes \in Nat /\ (Clean => BuiltInv)

LEMMA CanaryBegins == ASSUME UpdateInit PROVE CanaryInv
<1>1. FrozenInv /\ crashes \in Nat
  BY DEF UpdateInit, FrozenInv, DefaultState, Whole, SnapshotValid, NoSnapshot
<1>2. /\ state.canary = None /\ tmp = Torn /\ Torn.canary = None
      /\ \A r \in Runs : work[r].canary = None
  BY DEF UpdateInit, DefaultState, Torn
<1>3. Checks \subseteq Runs
  BY DEF Runs
<1> QED BY <1>1, <1>2, <1>3
    DEF CanaryInv, BuiltInv, BuiltOnly, NoneNamed, CheckSettled, TmpSettled, StateSettled, TmpOwned

LEMMA CanaryStep == ASSUME OneCheck, CanaryInv, [UpdateNext]_updatevars PROVE CanaryInv'
<1> USE DEF CanaryInv
<1>1. Checks \subseteq Runs
  BY DEF Runs
<1>2. CASE UNCHANGED updatevars
  BY <1>2 DEF updatevars, FrozenInv, SnapshotValid, Whole, Clean, BuiltInv, BuiltOnly,
    NoneNamed, CheckSettled, TmpSettled, StateSettled, TmpOwned, Settled, Built, Has
<1>3. CASE UpdateNext
  <2>1. FrozenInv'
    BY <1>1, <1>3, OperatorKeeps, RunKeeps DEF UpdateNext
  <2>2. ASSUME Clean' PROVE BuiltInv'
    BY <1>1, <1>3, <2>1, <2>2, CleanBefore, OperatorBuilds, RunBuilds DEF UpdateNext
  <2> QED BY <1>3, <2>1, <2>2, CleanBefore
<1> QED BY <1>2, <1>3

LEMMA CanaryImplies == ASSUME CanaryInv PROVE VersionsAgree /\ ActiveCanaryBuilt
BY DEF CanaryInv, FrozenInv, Whole, VersionsAgree, Clean, BuiltInv, BuiltOnly, Built, ActiveCanaryBuilt

(* With one check at most beside the operator's commands, and as long as   *)
(* no run was killed and none has met a torn state file, the canary the    *)
(* file calls active is the one built last: createCanary, saveState.       *)
THEOREM CanaryIsBuilt ==
    ASSUME OneCheck
    PROVE  UpdateSpec => []ActiveCanaryBuilt
<1>1. UpdateInit => CanaryInv
  BY CanaryBegins
<1>2. CanaryInv /\ [UpdateNext]_updatevars => CanaryInv'
  BY CanaryStep
<1>3. CanaryInv => ActiveCanaryBuilt
  BY CanaryImplies
<1> QED BY <1>1, <1>2, <1>3, PTL DEF UpdateSpec

-----------------------------------------------------------------------------
(* The SLI collector: the status file and what every run has read of it    *)
(* add up.                                                                 *)
AddsUp(s) == s.sourcesOk + s.sourcesFailed = s.sourcesTotal

CollectorInv ==
    /\ report \in C!Status /\ AddsUp(report)
    /\ seen \in [Collectors -> C!Status] /\ \A c \in Collectors : AddsUp(seen[c])

LEMMA StatusKept ==
    ASSUME NEW s \in C!Status, AddsUp(s), NEW l \in {"locked", "idle"}
    PROVE  /\ [s EXCEPT !.lockStatus = l] \in C!Status /\ AddsUp([s EXCEPT !.lockStatus = l])
           /\ \A ok \in {0, C!Sources - 1, C!Sources} :
                 LET t == [C!Collected(s, ok) EXCEPT !.lockStatus = l]
                 IN  t \in C!Status /\ AddsUp(t)
<1> USE DEF C!Status, AddsUp
<1>1. [s EXCEPT !.lockStatus = l] \in C!Status /\ AddsUp([s EXCEPT !.lockStatus = l])
  OBVIOUS
<1>2. ASSUME NEW ok \in {0, C!Sources - 1, C!Sources}
      PROVE  LET t == [C!Collected(s, ok) EXCEPT !.lockStatus = l]
             IN  t \in C!Status /\ AddsUp(t)
  <2> DEFINE t == [s EXCEPT !.sourcesTotal = C!Sources, !.sourcesOk = ok,
                            !.sourcesFailed = C!Sources - ok]
  <2>1. ok \in 0..C!Sources /\ C!Sources - ok \in 0..C!Sources /\ ok + (C!Sources - ok) = C!Sources
    BY DEF C!Sources
  <2>2. t \in C!Status /\ t.sourcesOk = ok /\ t.sourcesFailed = C!Sources - ok
        /\ t.sourcesTotal = C!Sources
    BY <2>1
  <2>3. AddsUp(t)
    BY <2>1, <2>2
  <2>4. t = C!Collected(s, ok)
    BY DEF C!Collected
  <2> HIDE DEF t
  <2> QED BY <2>2, <2>3, <2>4
<1> QED BY <1>1, <1>2

LEMMA NoStatusKept == C!NoStatus \in C!Status /\ AddsUp(C!NoStatus)
BY DEF C!Status, C!NoStatus, C!Sources, AddsUp

LEMMA CollectorStep == ASSUME CollectorInv, [C!Next]_C!vars PROVE CollectorInv'
<1> USE NoStatusKept DEF CollectorInv
<1>1. ASSUME NEW c \in Collectors, C!Look(c) \/ C!Take(c) \/ C!Killed(c)
      PROVE  CollectorInv'
  BY <1>1 DEF C!Look, C!Take, C!Killed
<1>2. ASSUME NEW c \in Collectors, C!Locked(c)
      PROVE  CollectorInv'
  BY <1>2, StatusKept DEF C!Locked
<1>3. ASSUME NEW c \in Collectors, C!Finish(c)
      PROVE  CollectorInv'
  <2>1. seen[c] \in C!Status /\ AddsUp(seen[c])
    OBVIOUS
  <2>2. report' \in C!Status /\ AddsUp(report')
    BY <1>3, <2>1, StatusKept DEF C!Finish
  <2> QED BY <1>3, <2>2 DEF C!Finish
<1>4. CASE C!Ages \/ UNCHANGED C!vars
  BY <1>4 DEF C!Ages, C!vars
<1> QED BY <1>1, <1>2, <1>3, <1>4 DEF C!Next, C!Progress

(* Every source is counted once in the status file, however many runs      *)
(* overlap, fail, are killed or take each other's lock away (runOnce,      *)
(* acquireLock).                                                           *)
THEOREM EverySourceCounted == C!Spec => []SourcesAddUp
<1>1. C!Init => CollectorInv
  BY NoStatusKept DEF C!Init, CollectorInv
<1>2. CollectorInv /\ [C!Next]_C!vars => CollectorInv'
  BY CollectorStep
<1>3. CollectorInv => SourcesAddUp
  BY DEF CollectorInv, AddsUp, SourcesAddUp, C!SourcesAddUp
<1> QED BY <1>1, <1>2, <1>3, PTL DEF C!Spec

-----------------------------------------------------------------------------
(* The composition the run checks: what a part does in it, it may do       *)
(* alone, so that what is proved of the parts holds there as well.         *)
THEOREM OperationsKeep ==
    ASSUME OneCheck
    PROVE  OperationsSpec => [](CountersTell /\ VersionsAgree /\ ActiveCanaryBuilt /\ SourcesAddUp)
<1> DEFINE Inv == RecoveryInv /\ CanaryInv /\ CollectorInv
<1>1. OperationsInit => Inv
  BY RecoveryInit, CanaryBegins, NoStatusKept DEF OperationsInit, C!Init, CollectorInv
<1>2. Inv /\ [OperationsNext]_allvars => Inv'
  <2> SUFFICES ASSUME Inv, [OperationsNext]_allvars PROVE Inv'
    OBVIOUS
  <2>1. [Next]_vars /\ [UpdateNext]_updatevars /\ [C!Next]_C!vars
    BY DEF OperationsNext, Recovery, Update, Collector, allvars, cvars, C!vars
  <2> QED BY <2>1, RecoveryStep, CanaryStep, CollectorStep
<1>3. Inv => CountersTell /\ VersionsAgree /\ ActiveCanaryBuilt /\ SourcesAddUp
  BY RecoveryImplies, CanaryImplies
     DEF CountersTell, CollectorInv, AddsUp, SourcesAddUp, C!SourcesAddUp
<1> QED BY <1>1, <1>2, <1>3, PTL DEF OperationsSpec
=============================================================================
