------------------------------- MODULE ImageIndex --------------------------------
(* The table of image vectors and its publication: what an import does for the   *)
(* figures of its document, in a thread and without a lock.  The table is built  *)
(* aside and copied over the published one, of which a backup is made first; a   *)
(* failure brings the backup back.  The three names are shared by all calls.     *)
(* Every operation of the database is one step, and may fail.  The content of a  *)
(* table stands for the document whose figures it has.                           *)
EXTENDS Naturals

CONSTANTS
  Figures,          \* documents with figures
  NoTable,          \* the name has no table
  Publisher,        \* threads
  MaxPublishes,     \* bound: calls of publish
  MaxImageRestarts  \* bound: restarts of the server

ASSUME ImageAssumption == NoTable \notin Figures /\ MaxPublishes \in Nat /\ MaxImageRestarts \in Nat

VARIABLES
  image,         \* image_assets_v1
  staging,       \* image_assets_v1__building
  backup,        \* image_assets_v1__backup
  opened,        \* the process has opened image_assets_v1
  publishing,    \* where each thread is, its document, has_existing
  publishes,     \* calls so far
  imageRestarts, \* restarts so far
  before,        \* the published table when each thread began
  hindered       \* threads that another ran beside, or that found a backup left over

imageVars == <<image, staging, backup, opened, publishing, publishes, imageRestarts, before,
               hindered>>

Table == Figures \cup {NoTable}
InTry == {"create", "drop backup", "copy", "swap", "reopen", "drop staging", "drop copy"}
InExcept == {"rollback", "restore", "drop restored"}

ImageTypeOK ==
  /\ image \in Table /\ staging \in Table /\ backup \in Table /\ opened \in BOOLEAN
  /\ publishing \in [Publisher -> [at : {"idle"} \cup InTry \cup InExcept, of : Table,
                                   had : BOOLEAN]]
  /\ publishes \in 0..MaxPublishes /\ imageRestarts \in 0..MaxImageRestarts
  /\ before \in [Publisher -> Table] /\ hindered \subseteq Publisher

\* a script has published a table before the server started
ImageInit ==
  /\ image \in Figures /\ staging = NoTable /\ backup = NoTable /\ opened = TRUE
  /\ publishing = [c \in Publisher |-> [at |-> "idle", of |-> NoTable, had |-> FALSE]]
  /\ publishes = 0 /\ imageRestarts = 0
  /\ before = [c \in Publisher |-> NoTable] /\ hindered = {}

Where(c) == publishing[c].at
Had(c) == publishing[c].had
Steps(c, from, to) ==
  /\ Where(c) = from
  /\ publishing' = [publishing EXCEPT ![c].at = to]
  /\ UNCHANGED <<publishes, imageRestarts, before, hindered>>
\* _drop_table_if_exists, which swallows what the drop raises
Dropped(table) == {table, NoTable}
\* what a create that fails leaves of a table it was to overwrite
Broken(table) == {table, NoTable}
Busy == {c \in Publisher : Where(c) # "idle"}

--------------------------------------------------------------------------------
\* build_image_index has its vectors and publish is called; index_document calls it
\* only while a table is open
BeginPublish(c, d) ==
  /\ Where(c) = "idle" /\ opened
  /\ publishes < MaxPublishes /\ publishes' = publishes + 1
  /\ staging' \in Dropped(staging)
  /\ publishing' = [publishing EXCEPT ![c] = [at |-> "create", of |-> d, had |-> image # NoTable]]
  /\ before' = [before EXCEPT ![c] = image]
  /\ hindered' = (hindered \ {c}) \cup Busy \cup IF Busy = {} /\ backup = NoTable THEN {} ELSE {c}
  /\ UNCHANGED <<image, backup, opened, imageRestarts>>

CreateStaging(c) ==
  /\ Steps(c, "create", IF Had(c) THEN "drop backup" ELSE "swap")
  /\ staging = NoTable /\ staging' = publishing[c].of
  /\ UNCHANGED <<image, backup, opened>>

DropBackup(c) ==
  /\ Steps(c, "drop backup", "copy")
  /\ backup' \in Dropped(backup)
  /\ UNCHANGED <<image, staging, opened>>

\* Mutant of CopyExisting: the backup is made of the new table.
CopyStaging(c) ==
  /\ Steps(c, "copy", "swap")
  /\ backup = NoTable /\ staging # NoTable /\ backup' = staging
  /\ UNCHANGED <<image, staging, opened>>
CopyExisting(c) ==
  /\ Steps(c, "copy", "swap")
  /\ backup = NoTable /\ image # NoTable /\ backup' = image
  /\ UNCHANGED <<image, staging, opened>>

Swap(c) ==
  /\ Steps(c, "swap", "reopen")
  /\ staging # NoTable /\ image' = staging
  /\ UNCHANGED <<staging, backup, opened>>

Reopen(c) ==
  /\ Steps(c, "reopen", "drop staging")
  /\ image # NoTable /\ opened' = TRUE
  /\ UNCHANGED <<image, staging, backup>>

DropStaging(c) ==
  /\ Steps(c, "drop staging", IF Had(c) THEN "drop copy" ELSE "idle")
  /\ staging' \in Dropped(staging)
  /\ UNCHANGED <<image, backup, opened>>

DropCopy(c) ==
  /\ Steps(c, "drop copy", "idle")
  /\ backup' \in Dropped(backup)
  /\ UNCHANGED <<image, staging, opened>>

\* a step of the try block raises; a create may have begun its work
PublishFails(c) ==
  /\ Where(c) \in InTry /\ Steps(c, Where(c), "rollback")
  /\ staging' \in IF Where(c) = "create" /\ staging = NoTable THEN Table \cap {NoTable, publishing[c].of}
                  ELSE {staging}
  /\ image' \in IF Where(c) = "swap" THEN Broken(image) ELSE {image}
  /\ UNCHANGED <<backup, opened>>

Rollback(c) ==
  /\ Steps(c, "rollback", IF Had(c) /\ backup # NoTable THEN "restore" ELSE "idle")
  /\ staging' \in Dropped(staging)
  /\ UNCHANGED <<image, backup, opened>>

Restore(c) ==
  /\ Steps(c, "restore", "drop restored")
  /\ backup # NoTable /\ image' = backup /\ opened' = TRUE
  /\ UNCHANGED <<staging, backup>>

\* The listing of the tables raises, or the restoration, which is swallowed: the
\* caller gets one exception or the other.
RollbackFails(c) ==
  /\ Where(c) \in {"rollback", "restore"} /\ Steps(c, Where(c), "idle")
  /\ image' \in IF Where(c) = "restore" THEN Broken(image) ELSE {image}
  /\ UNCHANGED <<staging, backup, opened>>

DropRestored(c) ==
  /\ Steps(c, "drop restored", "idle")
  /\ backup' \in Dropped(backup)
  /\ UNCHANGED <<image, staging, opened>>

\* The server restarts: the threads are gone, the tables stay.
RestartImages ==
  /\ imageRestarts < MaxImageRestarts /\ imageRestarts' = imageRestarts + 1
  /\ publishing' = [c \in Publisher |-> [publishing[c] EXCEPT !.at = "idle"]]
  /\ opened' = (image # NoTable)
  /\ UNCHANGED <<image, staging, backup, publishes, before, hindered>>

ImageNext ==
  \/ \E c \in Publisher :
       \/ \E d \in Figures : BeginPublish(c, d)
       \/ CreateStaging(c) \/ DropBackup(c) \/ CopyExisting(c) \/ Swap(c) \/ Reopen(c)
       \/ DropStaging(c) \/ DropCopy(c) \/ PublishFails(c)
       \/ Rollback(c) \/ Restore(c) \/ RollbackFails(c) \/ DropRestored(c)
  \/ RestartImages

ImageSpec == ImageInit /\ [][ImageNext]_imageVars

--------------------------------------------------------------------------------
Fails(c) == Where(c) \in InExcept /\ publishing'[c].at = "idle" /\ imageRestarts' = imageRestarts

\* "Atomically publish image records to image_assets_v1 via a staging table with
\* rollback on failure": a call that fails, with a table published before it, leaves
\* that table published, or in the backup when the rollback failed too.  Not if
\* another call ran beside it, for they share the names of the tables, or an
\* earlier one left its backup, which is then what comes back.
FailedPublishRollsBack ==
  [][\A c \in Publisher \ hindered : Fails(c) /\ Had(c) =>
       image' = before[c] \/ (RollbackFails(c) /\ backup = before[c])]_imageVars
================================================================================
