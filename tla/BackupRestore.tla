------------------------------ MODULE BackupRestore ------------------------------
(* Backup and restore by the command line, beside a server at work.  A backup is *)
(* built aside and renamed when it is whole: the snapshot of the database, the   *)
(* vector tables, the artifacts, the manifest.  A restore verifies it, builds    *)
(* the tree aside, compares its counts with the manifest and renames it.  The    *)
(* server writes an artifact before it registers it, and deletes none.  One      *)
(* backup and one restore run at a time, and nobody removes a backup while it is *)
(* restored.  The template of the configuration and the extra directories, which *)
(* no row refers to, are left out.                                               *)
EXTENDS FiniteSets, Naturals

CONSTANTS
  Artifact,         \* artifacts
  MaxBackupTroubles \* bound: crashes, and files the medium loses

ASSUME BackupAssumption == MaxBackupTroubles \in Nat /\ IsFiniteSet(Artifact)

VARIABLES
  stored,    \* artifacts in the store
  dbRows,      \* artifacts the database of the server refers to
  building,  \* the directory of the backup with __building in its name
  output,    \* the directory of the backup
  restoring, \* the target with __restoring
  restored,    \* the directory to restore to
  saving,    \* where create_backup is
  loading,   \* where restore_backup is
  found,     \* while they are copied, the artifacts there were when that began
  manifest,  \* the manifest the restore under way has verified
  lossy,     \* the backup has lost a file since it was made
  troubles   \* crashes and losses so far

backupVars == <<stored, dbRows, building, output, restoring, restored, saving, loading, found,
                manifest, lossy, troubles>>

\* A directory: nothing, what somebody else put there, or a tree with the artifacts
\* its database refers to, those it has, the number its manifest says, and whether
\* the vector tables can be read.
Tree == [kind : {"none", "empty", "other", "tree"}, rows : SUBSET Artifact,
         files : SUBSET Artifact, count : 0..Cardinality(Artifact), readable : BOOLEAN]
None == [kind |-> "none", rows |-> {}, files |-> {}, count |-> 0, readable |-> TRUE]
EmptyDir == [None EXCEPT !.kind = "empty"]
Vacant(dir) == dir.kind \in {"none", "empty"}

BackupTypeOK ==
  /\ stored \subseteq Artifact /\ dbRows \subseteq stored /\ found \subseteq stored
  /\ building \in Tree /\ output \in Tree /\ restoring \in Tree /\ restored \in Tree
  /\ manifest \in Tree
  /\ saving \in {"idle", "snapshot", "vectors", "artifacts", "copying", "manifest", "clear",
                 "rename"}
  /\ loading \in {"idle", "database", "vectors", "artifacts", "rename"}
  /\ lossy \in BOOLEAN /\ troubles \in 0..MaxBackupTroubles

BackupInit ==
  /\ stored = {} /\ dbRows = {}
  /\ building = None /\ output \in {None, EmptyDir} /\ restoring = None /\ restored = None
  /\ saving = "idle" /\ loading = "idle" /\ found = {} /\ manifest = None
  /\ lossy = FALSE /\ troubles = 0

--------------------------------------------------------------------------------
(* The server: put_bytes, and the transaction that registers what it returned. *)

PutArtifact(a) ==
  /\ a \notin stored /\ stored' = stored \cup {a}
  /\ UNCHANGED <<dbRows, building, output, restoring, restored, saving, loading, found, manifest,
                 lossy, troubles>>

RegisterArtifact(a) ==
  /\ a \in stored \ dbRows /\ dbRows' = dbRows \cup {a}
  /\ UNCHANGED <<stored, building, output, restoring, restored, saving, loading, found, manifest,
                 lossy, troubles>>

--------------------------------------------------------------------------------
(* create_backup.                                                              *)

SaveStep(from, to, tree) ==
  /\ saving = from /\ saving' = to /\ building' = tree
  /\ UNCHANGED <<stored, dbRows, restoring, restored, loading, manifest, troubles>>

\* the output is free and the database consistent; what a crash left is removed
StartBackup ==
  /\ Vacant(output)
  /\ SaveStep("idle", "snapshot", EmptyDir)
  /\ UNCHANGED <<output, found, lossy>>

Snapshot ==
  /\ SaveStep("snapshot", "vectors", [building EXCEPT !.kind = "tree", !.rows = dbRows])
  /\ UNCHANGED <<output, found, lossy>>

\* a table that is written while it is copied may be copied torn: its count is -1
CopyVectors ==
  /\ \E readable \in BOOLEAN :
       SaveStep("vectors", "artifacts", [building EXCEPT !.readable = readable])
  /\ UNCHANGED <<output, found, lossy>>

ListArtifacts ==
  /\ SaveStep("artifacts", "copying", building)
  /\ found' = stored
  /\ UNCHANGED <<output, lossy>>

\* with some of those that came while they were copied
CopyArtifacts ==
  /\ \E late \in SUBSET (stored \ found) :
       SaveStep("copying", "manifest", [building EXCEPT !.files = found \cup late])
  /\ found' = {}
  /\ UNCHANGED <<output, lossy>>

WriteManifest ==
  /\ SaveStep("manifest", "clear", [building EXCEPT !.count = Cardinality(building.files)])
  /\ UNCHANGED <<output, found, lossy>>

\* whatever the output has by now is removed
ClearOutput ==
  /\ SaveStep("clear", "rename", building)
  /\ output' = None
  /\ UNCHANGED <<found, lossy>>

RenameBackup ==
  /\ Vacant(output)
  /\ SaveStep("rename", "idle", None)
  /\ output' = building /\ lossy' = FALSE
  /\ UNCHANGED found

\* a step raises; the directory is removed if it can be
BackupFails ==
  /\ saving # "idle"
  /\ \E left \in {None, building} : SaveStep(saving, "idle", left)
  /\ found' = {}
  /\ UNCHANGED <<output, lossy>>

--------------------------------------------------------------------------------
(* restore_backup.                                                             *)

LoadStep(from, to, tree) ==
  /\ loading = from /\ loading' = to /\ restoring' = tree
  /\ UNCHANGED <<stored, dbRows, building, output, saving, found, lossy, troubles>>

\* verify_backup passes: the manifest and the database are there and fit
StartRestore ==
  /\ output.kind = "tree" /\ Vacant(restored)
  /\ LoadStep("idle", "database", EmptyDir)
  /\ manifest' = output
  /\ UNCHANGED restored

RestoreDatabase ==
  /\ LoadStep("database", "vectors", [restoring EXCEPT !.kind = "tree", !.rows = output.rows])
  /\ UNCHANGED <<restored, manifest>>

\* the tables open and have as many rows as the manifest says
RestoreVectors ==
  /\ manifest.readable
  /\ LoadStep("vectors", "artifacts", restoring)
  /\ UNCHANGED <<restored, manifest>>

\* Mutant of CountAgrees: the artifacts are not counted.
AnyCount(files) == TRUE
CountAgrees(files) == Cardinality(files) = manifest.count

RestoreArtifacts ==
  /\ CountAgrees(output.files)
  /\ LoadStep("artifacts", "rename",
           [restoring EXCEPT !.files = output.files, !.count = manifest.count])
  /\ UNCHANGED <<restored, manifest>>

RenameRestored ==
  /\ Vacant(restored)
  /\ LoadStep("rename", "idle", None)
  /\ restored' = restoring /\ manifest' = None

RestoreFails ==
  /\ loading # "idle"
  /\ \E left \in {None, restoring} : LoadStep(loading, "idle", left)
  /\ manifest' = None
  /\ UNCHANGED restored

--------------------------------------------------------------------------------
(* The surroundings.                                                           *)

Trouble == troubles < MaxBackupTroubles /\ troubles' = troubles + 1

CrashBackup ==
  /\ Trouble /\ saving # "idle" /\ saving' = "idle" /\ found' = {}
  /\ UNCHANGED <<stored, dbRows, building, output, restoring, restored, loading, manifest, lossy>>

CrashRestore ==
  /\ Trouble /\ loading # "idle" /\ loading' = "idle" /\ manifest' = None
  /\ UNCHANGED <<stored, dbRows, building, output, restoring, restored, saving, found, lossy>>

LoseFile(a) ==
  /\ Trouble /\ output.kind = "tree" /\ a \in output.files
  /\ output' = [output EXCEPT !.files = @ \ {a}] /\ lossy' = TRUE
  /\ UNCHANGED <<stored, dbRows, building, restoring, restored, saving, loading, found, manifest>>

\* somebody puts something into a free directory, or makes room in one
ChangeOutput ==
  /\ loading = "idle"
  /\ output' \in {None} \cup IF Vacant(output) THEN {[None EXCEPT !.kind = "other"]} ELSE {}
  /\ UNCHANGED <<stored, dbRows, building, restoring, restored, saving, loading, found, manifest,
                 lossy, troubles>>

ChangeTarget ==
  /\ restored' \in {None} \cup IF Vacant(restored) THEN {[None EXCEPT !.kind = "other"]} ELSE {}
  /\ UNCHANGED <<stored, dbRows, building, output, restoring, saving, loading, found, manifest,
                 lossy, troubles>>

BackupNext ==
  \/ \E a \in Artifact : PutArtifact(a) \/ RegisterArtifact(a) \/ LoseFile(a)
  \/ StartBackup \/ Snapshot \/ CopyVectors \/ ListArtifacts \/ CopyArtifacts \/ WriteManifest
  \/ ClearOutput \/ RenameBackup \/ BackupFails
  \/ StartRestore \/ RestoreDatabase \/ RestoreVectors \/ RestoreArtifacts \/ RenameRestored
  \/ RestoreFails
  \/ CrashBackup \/ CrashRestore \/ ChangeOutput \/ ChangeTarget

BackupSpec == BackupInit /\ [][BackupNext]_backupVars

--------------------------------------------------------------------------------
Complete(tree) == tree.rows \subseteq tree.files

\* A backup is consistent although the server writes while it is made: it has every
\* artifact its database refers to, unless its medium lost one.  A restored tree
\* has them even then, and whatever crashed or failed before.
TreesHaveTheirArtifacts ==
  /\ output.kind = "tree" /\ ~lossy => Complete(output)
  /\ restored.kind = "tree" => Complete(restored)
================================================================================
