---------------------------- MODULE SaveDownload ----------------------------
(***************************************************************************)
(* save_download() of src/transfer.rs on one destination: staging in a     *)
(* temporary file of the same directory, flushing, taking the name, and    *)
(* flushing the directory.  The system calls are the steps; each may fail, *)
(* and between any two the machine may crash or another process may touch  *)
(* the destination.  What the file system keeps in memory and what is on   *)
(* disk differ until they are flushed.                                     *)
(***************************************************************************)
EXTENDS Naturals

CONSTANTS
  Unix,          \* whether this is a unix build: only those flush the directory
  MaxAttempts    \* attempts to save the file (a bound)

ASSUME SaveAssumption == Unix \in BOOLEAN /\ MaxAttempts \in Nat \ {0}

\* What a directory entry can name: nothing, a file that was there before, one
\* that another process wrote, the download, or the download with contents that
\* have not reached the disk ("unflushed") or never will ("torn").
Contents == {"absent", "old", "other", "new", "unflushed", "torn"}

VARIABLES
  step,        \* the next system call, "done" between attempts
  force,       \* "Replace an existing file atomically"
  temporary,   \* the staged file: "none", "empty", "written" or "flushed"
  entry,       \* the destination as running programs see it
  disk,        \* the destination as a crash would leave it
  found,       \* the destination when the attempt began
  undisturbed, \* no other process has touched it since
  result,      \* what the last attempt returned
  attempts

vars == <<step, force, temporary, entry, disk, found, undisturbed, result,
          attempts>>

TypeOK ==
  /\ step \in {"done", "stage", "write", "flush", "persist", "sync_directory"}
  /\ force \in BOOLEAN
  /\ temporary \in {"none", "empty", "written", "flushed"}
  /\ entry \in Contents \ {"torn"} /\ disk \in Contents
  /\ found \in Contents
  /\ undisturbed \in BOOLEAN
  /\ result \in {"none", "ok", "error"}
  /\ attempts \in 0..MaxAttempts

Init ==
  /\ step = "done" /\ force = FALSE
  /\ temporary = "none"
  /\ entry \in {"absent", "old"} /\ disk = entry
  /\ found = entry /\ undisturbed = TRUE
  /\ result = "none"
  /\ attempts = 0

\* The checks that need no system call passed: descriptor, size, destination.
Begin ==
  /\ step = "done" /\ attempts < MaxAttempts
  /\ step' = "stage"
  /\ force' \in BOOLEAN
  /\ result' = "none"
  /\ found' = entry /\ undisturbed' = TRUE
  /\ attempts' = attempts + 1
  /\ UNCHANGED <<temporary, entry, disk>>

\* NamedTempFile::new_in(parent), with the permissions of its owner alone.
Stage ==
  /\ step = "stage"
  /\ step' = "write" /\ temporary' = "empty"
  /\ UNCHANGED <<force, entry, disk, found, undisturbed, result, attempts>>

Write ==
  /\ step = "write"
  /\ step' = "flush" /\ temporary' = "written"
  /\ UNCHANGED <<force, entry, disk, found, undisturbed, result, attempts>>

\* Mutated form: the contents are not flushed before the rename.
FlushNothing ==
  /\ step = "flush"
  /\ step' = "persist"
  /\ UNCHANGED <<force, temporary, entry, disk, found, undisturbed, result, attempts>>

\* sync_all() of the staged file.
Flush ==
  /\ step = "flush"
  /\ step' = "persist" /\ temporary' = "flushed"
  /\ UNCHANGED <<force, entry, disk, found, undisturbed, result, attempts>>

\* Mutated form: without force the destination is looked at when the attempt
\* begins, not when the name is taken.
PersistAfterCheck ==
  /\ step = "persist"
  /\ force \/ found = "absent"
  /\ entry' = IF temporary = "flushed" THEN "new" ELSE "unflushed"
  /\ temporary' = "none"
  /\ step' = "sync_directory"
  /\ UNCHANGED <<force, disk, found, undisturbed, result, attempts>>

\* persist() replaces whatever has the name; persist_noclobber() takes it only
\* if it is free, in one step of the file system.
Persist ==
  /\ step = "persist"
  /\ force \/ entry = "absent"
  /\ entry' = IF temporary = "flushed" THEN "new" ELSE "unflushed"
  /\ temporary' = "none"
  /\ step' = "sync_directory"
  /\ UNCHANGED <<force, disk, found, undisturbed, result, attempts>>

\* Mutated form: success is returned without waiting for the directory.
SyncDirectoryLater ==
  /\ step = "sync_directory"
  /\ step' = "done" /\ result' = "ok"
  /\ UNCHANGED <<force, temporary, entry, disk, found, undisturbed, attempts>>

\* The parent directory is opened and flushed, in a unix build, and the destination
\* returned.
SyncDirectory ==
  /\ step = "sync_directory"
  /\ disk' = IF ~Unix THEN disk ELSE IF entry = "unflushed" THEN "torn" ELSE entry
  /\ step' = "done" /\ result' = "ok"
  /\ UNCHANGED <<force, temporary, entry, found, undisturbed, attempts>>

\* A system call fails, taking the name among them when it is not free; the
\* staged file is removed when its handle is dropped.  A failure to flush the
\* directory comes when the name is already taken.
Fail ==
  /\ step # "done" /\ (step = "sync_directory" => Unix)
  /\ step' = "done" /\ result' = "error"
  /\ temporary' = "none"
  /\ UNCHANGED <<force, entry, disk, found, undisturbed, attempts>>

\* The file system writes the directory back by itself at any time.
WriteBack ==
  /\ disk # entry
  /\ disk' = IF entry = "unflushed" THEN "torn" ELSE entry
  /\ UNCHANGED <<step, force, temporary, entry, found, undisturbed, result, attempts>>

\* Another process writes or removes the destination, and flushes what it did.
OtherProcess ==
  /\ entry' \in {"absent", "other"} \ {entry}
  /\ disk' = entry'
  /\ undisturbed' = FALSE
  /\ UNCHANGED <<step, force, temporary, found, result, attempts>>

\* The machine stops and comes back: what is on disk is all there is.  The
\* staged file, if any, stays behind under a name nobody uses.
Crash ==
  /\ entry' = disk
  /\ step' = "done" /\ temporary' = "none"
  /\ result' = IF result = "ok" THEN "ok" ELSE "none"
  /\ UNCHANGED <<force, disk, found, undisturbed, attempts>>

Next ==
  \/ Begin \/ Stage \/ Write \/ Flush \/ Persist \/ SyncDirectory
  \/ Fail \/ WriteBack \/ OtherProcess \/ Crash

Spec == Init /\ [][Next]_vars

-----------------------------------------------------------------------------
\* Whenever the machine stops, the destination holds a whole file or none: the
\* name is given only to contents that are already on disk.
DestinationIsWhole == disk # "torn"

\* A file that someone else put there is replaced only if the user asked for
\* it, also when it appeared after the attempt began.
ReplacesOnlyWhenForced ==
  [][ entry' = "new" /\ entry \in {"old", "other"} => force ]_vars

\* Once saving has returned success in a unix build, the file survives a crash, as
\* long as no other process touches it.
SuccessIsDurable == Unix /\ result = "ok" /\ undisturbed => disk = "new"

\* After an error the destination is what the attempt found, or the whole download:
\* the latter when only the directory could not be flushed.
ErrorLeavesOldOrNew == result = "error" /\ undisturbed => entry \in {found, "new"}
=============================================================================
