--------------------------- MODULE LegacyMigration ---------------------------
(***************************************************************************)
(* internal/storage/paths.go: the program was once called solo-db-client.  *)
(* At start NewStore (store.go:20) calls BaseDir, and ConnectionsPath      *)
(* calls it again; when the new configuration directory does not exist and *)
(* the old one does, BaseDir makes the new one and moves connections.json, *)
(* by a rename or, if that fails (another file system, say), by a copy.    *)
(* Each system call is a step: it may fail where MayFail allows, and       *)
(* between any two the process may be killed or the machine lose power.    *)
(* BaseDir drops every error.  While the program serves, the user's        *)
(* changes are saved (ConnFile) over what the file held.                   *)
(*                                                                         *)
(* Directory entries are taken to reach the disk at once and in order; the *)
(* bytes of the copy are on the disk only after a successful Sync.         *)
(***************************************************************************)
EXTENDS Naturals

CONSTANTS
  MayFail,      \* system calls may fail
  MaxCrashes    \* bound: kills and losses of power

ASSUME MayFailAssumption == MayFail \in BOOLEAN
ASSUME MaxCrashesAssumption == MaxCrashes \in Nat

\* legacy: the connections of the old program, perhaps edited since; own: a
\* list made without them; part: bytes that are no list.
Contents == {"missing", "blank", "part", "legacy", "own"}

Steps == {"stat_new", "stat_old", "mkdir", "mig_stat_new", "mig_stat_old",
          "rename", "open", "mkdir_again", "create", "copy", "sync", "remove"}

VARIABLES
  newDir,      \* "yes" or "no": the new configuration directory exists
  newFile,     \* connections.json there
  oldFile,     \* connections.json in the old directory
  flushed,     \* "yes" or "no": newFile's bytes are on stable storage
  pc,          \* "down", a step of BaseDir, or "serving"
  calls,       \* calls of BaseDir this start still has to finish
  hadLegacy,   \* "yes" or "no": there was an old list
  syncFailed,  \* history: "yes" while newFile is a copy whose Sync failed,
               \* "lost" once power was lost then
  crashes

vars == <<newDir, newFile, oldFile, flushed, pc, calls, hadLegacy, syncFailed,
          crashes>>

Files == <<newDir, newFile, oldFile, flushed>>
Ghost == <<hadLegacy, syncFailed, crashes>>

Init ==
  /\ oldFile \in {"missing", "legacy"}
  /\ \/ newDir = "no" /\ newFile = "missing"
     \/ newDir = "yes" /\ newFile = "own"
  /\ flushed = "yes"
  /\ pc = "down"
  /\ calls = 0
  /\ hadLegacy = IF oldFile = "legacy" THEN "yes" ELSE "no"
  /\ syncFailed = "no"
  /\ crashes = 0

\* main listens, then NewRouter calls NewStore: BaseDir and ConnectionsPath.
Start ==
  /\ pc = "down"
  /\ pc' = "stat_new"
  /\ calls' = 2
  /\ UNCHANGED <<Files, Ghost>>

\* BaseDir returns: the second call follows, or the program serves.
Returned ==
  /\ calls' = calls - 1
  /\ pc' = IF calls = 1 THEN "serving" ELSE "stat_new"

Goto(from, to) == pc = from /\ pc' = to /\ UNCHANGED calls

ReturnFrom(from) == pc = from /\ Returned

(***************************************************************************)
(* BaseDir (paths.go:23-28).  The old directory exists.                    *)
(***************************************************************************)
StatNewDir ==
  /\ \/ newDir = "no" /\ Goto("stat_new", "stat_old")
     \/ newDir = "yes" /\ ReturnFrom("stat_new")
  /\ UNCHANGED <<Files, Ghost>>

StatOldDir ==
  /\ Goto("stat_old", "mkdir")
  /\ UNCHANGED <<Files, Ghost>>

\* The error of MkdirAll is dropped: the migration goes on all the same.
MakeNewDir ==
  /\ Goto("mkdir", "mig_stat_new")
  /\ \/ newDir' = "yes"
     \/ MayFail /\ UNCHANGED newDir
  /\ UNCHANGED <<newFile, oldFile, flushed, Ghost>>

(***************************************************************************)
(* migrateFile (paths.go:41-74).                                           *)
(***************************************************************************)
StatNewFile ==
  /\ \/ newFile = "missing" /\ Goto("mig_stat_new", "mig_stat_old")
     \/ newFile # "missing" /\ ReturnFrom("mig_stat_new")
  /\ UNCHANGED <<Files, Ghost>>

StatOldFile ==
  /\ \/ oldFile # "missing" /\ Goto("mig_stat_old", "rename")
     \/ oldFile = "missing" /\ ReturnFrom("mig_stat_old")
  /\ UNCHANGED <<Files, Ghost>>

Rename ==
  \/ /\ newDir = "yes"
     /\ ReturnFrom("rename")
     /\ newFile' = oldFile
     /\ oldFile' = "missing"
     /\ flushed' = "yes"
     /\ UNCHANGED <<newDir, Ghost>>
  \/ /\ MayFail \/ newDir = "no"
     /\ Goto("rename", "open")
     /\ UNCHANGED <<Files, Ghost>>

OpenOld ==
  /\ Goto("open", "mkdir_again")
  /\ UNCHANGED <<Files, Ghost>>

MakeNewDirAgain ==
  /\ Goto("mkdir_again", "create")
  /\ newDir' = "yes"
  /\ UNCHANGED <<newFile, oldFile, flushed, Ghost>>

CreateNew ==
  /\ Goto("create", "copy")
  /\ newFile' = "blank"
  /\ flushed' = "no"
  /\ UNCHANGED <<newDir, oldFile, Ghost>>

\* io.Copy writes a first part, then the rest.
CopyPart ==
  /\ pc = "copy"
  /\ newFile = "blank"
  /\ newFile' = "part"
  /\ UNCHANGED <<newDir, oldFile, flushed, pc, calls, Ghost>>

CopyRest ==
  /\ Goto("copy", "sync")
  /\ newFile' = oldFile
  /\ UNCHANGED <<newDir, oldFile, flushed, Ghost>>

\* A mutant of SyncNew: the copy is not flushed before the old file goes.
SyncSkipped ==
  /\ Goto("sync", "remove")
  /\ UNCHANGED <<Files, Ghost>>

\* The error of Sync is dropped.
SyncNew ==
  /\ Goto("sync", "remove")
  /\ \/ flushed' = "yes" /\ UNCHANGED Ghost
     \/ /\ MayFail
        /\ syncFailed' = "yes"
        /\ UNCHANGED <<flushed, hadLegacy, crashes>>
  /\ UNCHANGED <<newDir, newFile, oldFile>>

RemoveOld ==
  /\ ReturnFrom("remove")
  /\ \/ oldFile' = "missing"
     \/ MayFail /\ UNCHANGED oldFile
  /\ UNCHANGED <<newDir, newFile, flushed, Ghost>>

\* Open, MkdirAll, Create or Copy failed: migrateFile returns the error and
\* BaseDir drops it.
GiveUp ==
  /\ MayFail
  /\ \E s \in {"open", "mkdir_again", "create", "copy"} : ReturnFrom(s)
  /\ UNCHANGED <<Files, Ghost>>

(***************************************************************************)
(* The rest of the program, and the environment.                           *)
(***************************************************************************)
\* A handler loads the list, edits it and saves it; a file that is no list
\* makes every handler fail before it saves.
UserSaves ==
  /\ pc = "serving"
  /\ newFile # "part"
  /\ newFile' = IF newFile = "legacy" THEN "legacy" ELSE "own"
  /\ flushed' = "yes"
  /\ newDir' = "yes"
  /\ syncFailed' = IF syncFailed = "yes" THEN "no" ELSE syncFailed
  /\ UNCHANGED <<oldFile, pc, calls, hadLegacy, crashes>>

\* SIGINT or SIGTERM: main shuts the server down and returns.
Stop ==
  /\ pc = "serving"
  /\ pc' = "down"
  /\ UNCHANGED <<Files, calls, Ghost>>

Crash ==
  /\ pc # "down"
  /\ crashes < MaxCrashes
  /\ crashes' = crashes + 1
  /\ pc' = "down"
  /\ calls' = 0
  /\ UNCHANGED <<newDir, oldFile, hadLegacy>>

Kill == Crash /\ UNCHANGED <<newFile, flushed, syncFailed>>

PowerLoss ==
  /\ Crash
  /\ newFile' \in IF flushed = "yes" THEN {newFile}
                  ELSE {newFile, "blank", "part"}
  /\ flushed' = "yes"
  /\ syncFailed' = IF syncFailed = "yes" THEN "lost" ELSE syncFailed

Next ==
  \/ Start \/ StatNewDir \/ StatOldDir \/ MakeNewDir
  \/ StatNewFile \/ StatOldFile \/ Rename \/ OpenOld \/ MakeNewDirAgain
  \/ CreateNew \/ CopyPart \/ CopyRest \/ SyncNew \/ RemoveOld \/ GiveUp
  \/ UserSaves \/ Stop \/ Kill \/ PowerLoss

Spec == Init /\ [][Next]_vars

(***************************************************************************)
(* Properties.                                                             *)
(***************************************************************************)
TypeOK ==
  /\ newDir \in {"yes", "no"}
  /\ newFile \in Contents
  /\ oldFile \in {"missing", "legacy"}
  /\ flushed \in {"yes", "no"}
  /\ pc \in {"down", "serving"} \cup Steps
  /\ calls \in 0..2
  /\ hadLegacy \in {"yes", "no"}
  /\ syncFailed \in {"yes", "no", "lost"}
  /\ crashes \in 0..MaxCrashes

(***************************************************************************)
(* The old connections are never lost: wherever the move stops and however *)
(* often it is cut short, they are whole in the old file or in the new     *)
(* one.  The Sync of the copy may fail, its error is dropped and the old   *)
(* file removed (paths.go:71-72): even then a kill takes nothing, nor does *)
(* a loss of power once the list has been saved again.  The one exception  *)
(* is a loss of power between the two.                                     *)
(***************************************************************************)
LegacySurvives ==
  hadLegacy = "yes" /\ syncFailed # "lost" =>
    oldFile = "legacy" \/ newFile = "legacy"

(***************************************************************************)
(* "Migration: if old config exists and new does not, migrate it"          *)
(* (paths.go:22): a program that serves has taken the old list over.       *)
(***************************************************************************)
MigratedWhenServing ==
  pc = "serving" => ~(oldFile = "legacy" /\ newFile = "missing")

(***************************************************************************)
(* The inductive invariant of the proof: from the rename on there is an    *)
(* old list to move, and the step that removes it comes after its bytes    *)
(* are whole in the new file, and flushed unless the flush failed.         *)
(***************************************************************************)
Moving == {"rename", "open", "mkdir_again", "create", "copy", "sync", "remove"}

IInv ==
  /\ TypeOK
  /\ pc \in Steps => calls \in 1..2
  /\ pc \in Moving => oldFile = "legacy"
  /\ pc \in {"sync", "remove"} => newFile = "legacy"
  /\ pc = "remove" /\ syncFailed = "no" => flushed = "yes"
  /\ hadLegacy = "yes" /\ syncFailed # "lost" =>
       \/ oldFile = "legacy"
       \/ newFile = "legacy" /\ (flushed = "yes" \/ syncFailed = "yes")
==============================================================================
