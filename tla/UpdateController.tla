--------------------------- MODULE UpdateController ---------------------------
(***************************************************************************)
(* The update controller: a command that snapshots the installation,       *)
(* builds a canary, promotes it and rolls back, and keeps what it knows in *)
(* one state file.                                                         *)
(*                                                                         *)
(* Every command loads the state file, works for up to a minute with other *)
(* programs, and saves the whole of it: through a temporary file with a    *)
(* fixed name, and a copy that is not atomic.  One operator runs commands; *)
(* a --check may run beside them, and either may be killed.                *)
(***************************************************************************)
EXTENDS Naturals, FiniteSets

CONSTANTS
    Checks,         \* the --check runs that may be under way at once
    Versions,       \* the versions an operator may ask for
    Installed,      \* the version installed at the start
    MaxCrashes      \* bound on killed commands

Runs == {"command"} \union Checks
None == "none"

ASSUME UpdateAssumption ==
    /\ None \notin Versions \union {Installed} /\ "command" \notin Checks
    /\ MaxCrashes \in Nat

VARIABLES
    state,      \* STATE_FILE: an UpdateState, or Torn while it is copied
    tmp,        \* STATE_FILE.tmp: an UpdateState, or Torn when there is none
    binary,     \* the version of OPENCODE_BINARY
    lock,       \* the version in LOCK_FILE
    canary,     \* CANARY_DIR: the version of its binary and of its manifest
    snapshot,   \* the latest snapshot: its contents and checksum, or NoSnapshot
    at,         \* run -> how far it is
    work,       \* run -> the state it works on
    target,     \* the version a --canary is for
    crashes,
    garbled     \* some run has loaded a torn file (history)

updatevars == <<state, tmp, binary, lock, canary, snapshot, at, work, target, crashes, garbled>>

(* UpdateState: canaryActive is canary # None.  The histories and times    *)
(* are left out.                                                           *)
State == [version : Versions \union {Installed}, canary : Versions \union {None},
          blocked : SUBSET Versions]
Torn == [version |-> None, canary |-> None, blocked |-> {}]
DefaultState(v) == [version |-> v, canary |-> None, blocked |-> {}]

(* A directory is hashed as the set of files it holds.                     *)
Captured == {"opencode.json", "opencode-version-lock.json", "matrix.json"}
NoSnapshot == [version |-> None, lock |-> None, files |-> {}, checksum |-> {}]

(* createSnapshot takes the checksum, and then writes the manifest that    *)
(* holds it into the same directory.                                       *)
Snapshot(version, locked) ==
    [version |-> version, lock |-> locked,
     files |-> Captured \union {"manifest.json"}, checksum |-> Captured]

(* Mutant: the checksum is not compared.                                   *)
SnapshotValid_Present(s) == s.files # {}

SnapshotValid(s) == s.files # {} /\ s.files = s.checksum

(* What else can fail in validateCanary; rollback_tested is the snapshot's *)
(* gate again, and the schema gate is always passed.                       *)
Gates == {"config", "plugins", "mcp", "e2e", "performance", "ci_clean", "secret_scan",
          "active_incident", "recovery_cooldown"}
FailedGates(s, failing) ==
    failing \union IF SnapshotValid(s) THEN {} ELSE {"snapshot", "rollback_tested"}

UpdateInit ==
    /\ state = DefaultState(Installed) /\ tmp = Torn
    /\ binary = Installed /\ lock = Installed
    /\ canary = [binary |-> None, manifest |-> None]
    /\ snapshot = NoSnapshot
    /\ at = [r \in Runs |-> "idle"]
    /\ work = [r \in Runs |-> Torn]
    /\ target = None /\ crashes = 0 /\ garbled = FALSE

-----------------------------------------------------------------------------
(* loadState: an unreadable file counts as no file.  The default asks the  *)
(* binary for its version, and the lock file if that fails.                *)
Read == IF state # Torn THEN {state} ELSE {DefaultState(v) : v \in {binary, lock}}

Goes(r, step, s) ==
    /\ at' = [at EXCEPT ![r] = step]
    /\ work' = [work EXCEPT ![r] = s]
    /\ garbled' = (garbled \/ (at[r] = "idle" /\ state = Torn))

(* checkForUpdates: the registry is asked between load and save.           *)
CheckLoads(r) ==
    /\ at[r] = "idle"
    /\ \E t \in Read : Goes(r, "asking", t)
    /\ UNCHANGED <<state, tmp, binary, lock, canary, snapshot, target, crashes>>

CheckAnswers(r) ==
    /\ at[r] = "asking"
    /\ Goes(r, "write", work[r])
    /\ UNCHANGED <<state, tmp, binary, lock, canary, snapshot, target, crashes>>

(* createSnapshot.                                                         *)
CreateSnapshot ==
    /\ at["command"] = "idle"
    /\ \E s \in Read :
          /\ Goes("command", "write", s)
          /\ snapshot' = Snapshot(s.version, lock)
    /\ UNCHANGED <<state, tmp, binary, lock, canary, target, crashes>>

(* Mutant: the test for an active canary is gone.                          *)
MayCreate_Over(s, v) == v \notin s.blocked

(* createCanary, up to the installer.                                      *)
MayCreate(s, v) == s.canary = None /\ v \notin s.blocked

CreateCanary(v) ==
    /\ at["command"] = "idle"
    /\ \E s \in Read :
          /\ MayCreate(s, v)
          /\ Goes("command", "installing", s)
    /\ target' = v
    /\ UNCHANGED <<state, tmp, binary, lock, canary, snapshot, crashes>>

(* The installer leaves nothing in the directory: the production binary is *)
(* copied, unless an earlier canary has left one.                          *)
CanaryInstalled ==
    /\ at["command"] = "installing"
    /\ canary' = [binary |-> IF canary.binary = None THEN binary ELSE canary.binary,
                  manifest |-> target]
    /\ Goes("command", "write", [work["command"] EXCEPT !.canary = target])
    /\ target' = None
    /\ UNCHANGED <<state, tmp, binary, lock, snapshot, crashes>>

CanaryFails ==
    /\ at["command"] = "installing"
    /\ Goes("command", "idle", Torn)
    /\ target' = None
    /\ UNCHANGED <<state, tmp, binary, lock, canary, snapshot, crashes>>

(* promote: the gates, the binary, the lock file, the state.               *)
Promote(v) ==
    /\ at["command"] = "idle"
    /\ \E s \in Read, failing \in SUBSET Gates :
          /\ s.canary = v
          /\ IF FailedGates(snapshot, failing) = {}
             THEN /\ binary' = canary.binary
                  /\ lock' = v
                  /\ Goes("command", "write", [s EXCEPT !.version = v, !.canary = None])
             ELSE /\ Goes("command", "idle", Torn)
                  /\ UNCHANGED <<binary, lock>>
    /\ UNCHANGED <<state, tmp, canary, snapshot, target, crashes>>

(* rollback to the latest snapshot: the files, then the state, which       *)
(* blocks the version it has just made the current one.                    *)
Rollback ==
    /\ at["command"] = "idle" /\ snapshot # NoSnapshot
    /\ \E s \in Read, configValid \in BOOLEAN :
          IF SnapshotValid(snapshot)
          THEN /\ lock' = snapshot.lock
               /\ IF configValid
                  THEN Goes("command", "write",
                            [version |-> snapshot.version, canary |-> None,
                             blocked |-> s.blocked \union {snapshot.version}])
                  ELSE Goes("command", "idle", Torn)
          ELSE /\ Goes("command", "idle", Torn)
               /\ UNCHANGED lock
    /\ UNCHANGED <<state, tmp, binary, canary, snapshot, target, crashes>>

(* restore.sh --execute of opencode-snapshot.ts: a wrong checksum is only  *)
(* a warning.                                                              *)
Restore ==
    /\ at["command"] = "idle" /\ snapshot # NoSnapshot
    /\ lock' = snapshot.lock
    /\ UNCHANGED <<state, tmp, binary, canary, snapshot, at, work, target, crashes, garbled>>

-----------------------------------------------------------------------------
(* saveState.                                                              *)
WriteTmp(r) ==
    /\ at[r] = "write"
    /\ tmp' = work[r]
    /\ Goes(r, "copy", work[r])
    /\ UNCHANGED <<state, binary, lock, canary, snapshot, target, crashes>>

(* The other run may have written the temporary file since, or removed it: *)
(* the save is then lost, and the command reports success.                 *)
CopyBegins(r) ==
    /\ at[r] = "copy"
    /\ IF tmp = Torn
       THEN Goes(r, "idle", Torn) /\ UNCHANGED state
       ELSE Goes(r, "copying", tmp) /\ state' = Torn
    /\ UNCHANGED <<tmp, binary, lock, canary, snapshot, target, crashes>>

CopyEnds(r) ==
    /\ at[r] = "copying"
    /\ state' = work[r]
    /\ Goes(r, "unlink", Torn)
    /\ UNCHANGED <<tmp, binary, lock, canary, snapshot, target, crashes>>

Unlink(r) ==
    /\ at[r] = "unlink"
    /\ tmp' = Torn
    /\ Goes(r, "idle", Torn)
    /\ UNCHANGED <<state, binary, lock, canary, snapshot, target, crashes>>

Killed(r) ==
    /\ at[r] # "idle" /\ crashes < MaxCrashes
    /\ crashes' = crashes + 1
    /\ Goes(r, "idle", Torn)
    /\ target' = IF r = "command" THEN None ELSE target
    /\ UNCHANGED <<state, tmp, binary, lock, canary, snapshot>>

Save(r) == WriteTmp(r) \/ CopyBegins(r) \/ CopyEnds(r) \/ Unlink(r)
Operator ==
    \/ CreateSnapshot \/ CanaryInstalled \/ CanaryFails \/ Rollback \/ Restore
    \/ \E v \in Versions : CreateCanary(v) \/ Promote(v)

UpdateNext ==
    \/ Operator
    \/ \E r \in Checks : CheckLoads(r) \/ CheckAnswers(r)
    \/ \E r \in Runs : Save(r) \/ Killed(r)

UpdateSpec == UpdateInit /\ [][UpdateNext]_updatevars

-----------------------------------------------------------------------------
(* Properties.                                                             *)

(* As long as no run was killed and none has met a torn state file, the    *)
(* canary the file calls active is the one that was built last: neither a  *)
(* stale save, nor one that is lost, nor one that publishes what the other *)
(* run wrote to the temporary file makes the state file name a canary      *)
(* whose directory belongs to another version.                             *)
ActiveCanaryBuilt ==
    crashes = 0 /\ ~garbled /\ state # Torn /\ state.canary # None
        => canary.manifest = state.canary

(* The binary, the lock file and the state file agree on the version in    *)
(* use.  They do because no promotion and no rollback gets past the        *)
(* checksum of a snapshot; with a checksum that holds, a promotion puts a  *)
(* copy of the old binary under the new version's name.                    *)
VersionsAgree ==
    /\ lock = binary
    /\ state # Torn => state.version = binary

=============================================================================
