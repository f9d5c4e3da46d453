------------------------------- MODULE Bootstrap -------------------------------
(***************************************************************************)
(* bootstrap-opencode-environment: installs an environment, records what   *)
(* it installed in a manifest, and restores or removes by that manifest.   *)
(*                                                                         *)
(* An installation goes through the kinds of files in a fixed order,       *)
(* copies what is missing, and writes the manifest last; it may die        *)
(* between two kinds.  Meanwhile the owner of the machine edits, deletes   *)
(* and adds files.                                                         *)
(***************************************************************************)
EXTENDS Selection, SequencesExt

CONSTANTS
    Files,      \* the files bootstrap has something to install for
    Kind        \* file -> its kind

Kinds == {"runtime", "build", "config", "command", "skill", "unit"}

VARIABLES
    disk,       \* file -> "none", "ours" (as installed), "own" (the owner's)
    manifest,   \* the files of the install manifest, in order, or NoManifest
    mode,       \* "idle", "install" or "upgrade"
    stage,      \* how many kinds are done
    installed,  \* what this run has installed and will record
    created,    \* files bootstrap has ever put there (history)
    gap         \* a run was interrupted or installed over a manifest (history)

vars == <<disk, manifest, mode, stage, installed, created, gap>>

Contents == {"none", "ours", "own"}
NoManifest == <<"no manifest">>

(* The order of main's install, installAgents with installCommands; and of *)
(* upgradeExisting.  Observability has no template, recovery scripts and   *)
(* compatibility files are in place.                                       *)
InstallOrder == <<"runtime", "build", "config", "command", "skill", "unit">>
UpgradeOrder == <<"command", "skill", "unit">>
Order(m) == IF m = "install" THEN InstallOrder ELSE UpgradeOrder

(* What a run returns as installed and main puts into the manifest: main   *)
(* drops what buildBridge, installConfig and others return.                *)
Recorded(m) == IF m = "install" THEN {"runtime", "command", "skill"}
                                ELSE {"command", "skill", "unit"}

Tracked == IF manifest = NoManifest THEN {} ELSE ToSet(manifest)

(* Mutant: an upgrade forgets what was installed before.                   *)
Merged_NewOnly(old, new) == new

(* mergedFiles; a second entry for a file changes nothing.                 *)
Merged(old, new) == old \o Selected(new, ToSet(new) \ ToSet(old))

Init ==
    /\ disk \in [Files -> {"none", "own"}]
    /\ manifest = NoManifest /\ mode = "idle" /\ stage = 0
    /\ installed = <<>> /\ created = {} /\ gap = FALSE

-----------------------------------------------------------------------------
(* --install and --upgrade-existing.                                       *)
Begin(m) ==
    /\ mode = "idle"
    /\ mode' = m /\ stage' = 0 /\ installed' = <<>>
    /\ UNCHANGED <<disk, manifest, created, gap>>

Installable(k) == {f \in Files : Kind[f] = k /\ disk[f] = "none"}

(* A download or a build may fail, and --skip-systemd leaves the units out. *)
MayMiss(k) == k \in {"runtime", "build", "unit"}

InstallKind ==
    /\ mode # "idle" /\ stage < Len(Order(mode))
    /\ LET k == Order(mode)[stage + 1]
       IN  \E fs \in SUBSET Installable(k) :
              /\ MayMiss(k) \/ fs = Installable(k)
              /\ disk' = [f \in Files |-> IF f \in fs THEN "ours" ELSE disk[f]]
              /\ created' = created \union {f \in fs : disk[f] = "none"}
              /\ installed' = IF k \in Recorded(mode)
                              THEN installed \o SetToSeq(fs) ELSE installed
    /\ stage' = stage + 1
    /\ UNCHANGED <<manifest, mode, gap>>

(* writeInstallManifest: an installation replaces the manifest, an upgrade *)
(* adds to it.                                                             *)
Record ==
    /\ mode # "idle" /\ stage = Len(Order(mode))
    /\ manifest' = IF mode = "upgrade" /\ manifest # NoManifest
                   THEN Merged(manifest, installed) ELSE installed
    /\ gap' = (gap \/ (mode = "install" /\ manifest # NoManifest))
    /\ mode' = "idle" /\ stage' = 0 /\ installed' = <<>>
    /\ UNCHANGED <<disk, created>>

Crash ==
    /\ mode # "idle"
    /\ mode' = "idle" /\ stage' = 0 /\ installed' = <<>>
    /\ gap' = TRUE
    /\ UNCHANGED <<disk, manifest, created>>

-----------------------------------------------------------------------------
(* --restore and --uninstall-generated work through the manifest.  Both    *)
(* use functions for files on skills, which are directories: they throw    *)
(* there and leave the rest undone.                                        *)
UpToSkill(skills) ==
    LET bad == {i \in DOMAIN manifest : manifest[i] \in skills}
    IN  IF bad = {} THEN manifest
        ELSE SubSeq(manifest, 1, (CHOOSE i \in bad : \A j \in bad : i <= j) - 1)

(* runRestore: the sources of the runtime are addresses, not files.        *)
Restore ==
    /\ mode = "idle" /\ manifest # NoManifest
    /\ LET seen == ToSet(UpToSkill({f \in Files : Kind[f] = "skill"}))
       IN  disk' = [f \in Files |->
                       IF f \in seen /\ Kind[f] # "runtime" THEN "ours" ELSE disk[f]]
    /\ UNCHANGED <<manifest, mode, stage, installed, created, gap>>

(* uninstallGenerated comes to its last line if no tracked skill was there *)
(* and no directory is left empty, which it would try to unlink.           *)
Emptied(seen, left) ==
    /\ Len(seen) = Len(manifest)
    /\ \A k \in {"command", "skill"} : \E f \in Files : Kind[f] = k /\ left[f] # "none"

Uninstall ==
    /\ mode = "idle" /\ manifest # NoManifest
    /\ LET seen == UpToSkill({f \in Files : Kind[f] = "skill" /\ disk[f] # "none"})
           left == [f \in Files |-> IF f \in ToSet(seen) THEN "none" ELSE disk[f]]
       IN  /\ disk' = left
           /\ manifest' = IF Emptied(seen, left) THEN NoManifest ELSE manifest
    /\ UNCHANGED <<mode, stage, installed, created, gap>>

(* The owner adds, edits or deletes a file.                                *)
OwnerActs(f) ==
    /\ \E c \in {"none", "own"} : c # disk[f] /\ disk' = [disk EXCEPT ![f] = c]
    /\ UNCHANGED <<manifest, mode, stage, installed, created, gap>>

Next ==
    \/ Begin("install") \/ Begin("upgrade") \/ InstallKind \/ Record \/ Crash
    \/ Restore \/ Uninstall
    \/ \E f \in Files : OwnerActs(f)

Spec == Init /\ [][Next]_vars

-----------------------------------------------------------------------------
(* Properties.                                                             *)

(* The manifest lists nothing that bootstrap did not put there itself:     *)
(* what restore overwrites and uninstall removes was never a file the      *)
(* owner had before, whatever runs died and in whatever order they came.   *)
TrackedWereCreated ==
    Tracked \union ToSet(installed) \subseteq created

(* What bootstrap put there and the manifest does not know is of a kind an *)
(* installation does not record, or a run was interrupted or installed     *)
(* over an earlier manifest, or the manifest was removed in between.       *)
GapsExplained ==
    \A f \in created :
        disk[f] = "ours" /\ f \notin Tracked \union ToSet(installed) =>
            gap \/ Kind[f] \in {"build", "config", "unit"}

(* The manifest and what bootstrap put on the disk account for each other. *)
ManifestAccounts == TrackedWereCreated /\ GapsExplained
=============================================================================
