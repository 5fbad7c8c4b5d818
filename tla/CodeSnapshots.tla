--------------------------- MODULE CodeSnapshots ---------------------------
(***************************************************************************)
(* The snapshots of one managed code project: the imports of               *)
(* app/code_wiki.py (GitHub) and app/main.py (local upload), the deletion, *)
(* and the reading of pinned sources.                                      *)
(*                                                                         *)
(* A snapshot lives in two places that no transaction spans: a directory   *)
(* named after the commit, and rows of code_projects and                   *)
(* code_project_snapshots.  An import renames its staging directory into   *)
(* place and then commits the rows; a deletion commits the removal of the  *)
(* rows and then removes the directories, file by file.  Both hold the     *)
(* advisory lock of the project; readers hold nothing.                     *)
(***************************************************************************)
EXTENDS FiniteSets

CONSTANTS
    Commit, Importer, Deleter, Reader,
    NoCommit, NoJob,
    Faults           \* the faults that may happen, of FaultKind

\* A crash of the server; an OSError in the middle of removing a directory; a
\* commit that the database made and the client saw fail.
FaultKind == {"crash", "os_error", "in_doubt"}

ASSUME SentinelAssumption ==
    /\ NoCommit \notin Commit
    /\ NoJob \notin Importer \cup Deleter
    /\ Importer \cap Deleter = {}

ASSUME FaultAssumption == Faults \subseteq FaultKind

VARIABLES
    disk,        \* the directory of each commit
    row,         \* the commits with a row in code_project_snapshots
    current,     \* code_projects.current_commit, NoCommit without the project
    lock,        \* the holder of the advisory lock of the project
    job,         \* imports and deletions
    reader,      \* agent requests that read at the commit they pinned
    source,      \* what the project is imported from: its key never changes
    doubted      \* commits activated by a transaction reported as failed (history)

vars == <<disk, row, current, lock, job, reader, source, doubted>>

Job == Importer \cup Deleter

\* A directory that is partly removed either still has a HEAD that verifies
\* ("gutted") or not ("headless").
Torn == {"gutted", "headless"}

Idle == [pc |-> "idle", commit |-> NoCommit, promoted |-> FALSE, left |-> {}]
Away == [pc |-> "idle", commit |-> NoCommit, deleted |-> FALSE, out |-> "none"]

JobState ==
    [pc : {"idle", "looked_up", "locked", "promoted", "removing", "tearing", "unlocking"},
     commit : Commit \cup {NoCommit}, promoted : BOOLEAN, left : SUBSET Commit]

\* deleted is history: the project was deleted since the request pinned.
ReaderState ==
    [pc : {"idle", "pinned", "row_read"}, commit : Commit \cup {NoCommit},
     deleted : BOOLEAN, out : {"none", "found", "missing", "broken"}]

TypeOK ==
    /\ disk \in [Commit -> {"none", "whole"} \cup Torn]
    /\ row \in SUBSET Commit
    /\ current \in Commit \cup {NoCommit}
    /\ lock \in Job \cup {NoJob}
    /\ job \in [Job -> JobState]
    /\ reader \in [Reader -> ReaderState]
    /\ source \in {"github", "local"}
    /\ doubted \in SUBSET Commit

Init ==
    /\ disk = [c \in Commit |-> "none"]
    /\ row = {}
    /\ current = NoCommit
    /\ lock = NoJob
    /\ job = [j \in Job |-> Idle]
    /\ reader = [k \in Reader |-> Away]
    /\ source \in {"github", "local"}
    /\ doubted = {}

At(j, pc) == job[j].pc = pc

(***************************************************************************)
(* Imports.                                                                *)
(***************************************************************************)

\* pg_try_advisory_lock; a busy lock ends the request without an effect.  The
\* commit is the one the clone or the upload turns out to have.
ImportLock(j, c) ==
    /\ At(j, "idle")
    /\ lock = NoJob
    /\ lock' = j
    /\ job' = [job EXCEPT ![j] = [Idle EXCEPT !.pc = "locked", !.commit = c]]
    /\ UNCHANGED <<disk, row, current, reader, source, doubted>>

\* The clone or the scan fails in staging, or a directory is found that does
\* not verify: the snapshots are left as they are.
ImportFails(j) ==
    /\ At(j, "locked")
    /\ job' = [job EXCEPT ![j] = [@ EXCEPT !.pc = "unlocking"]]
    /\ UNCHANGED <<disk, row, current, lock, reader, source, doubted>>

\* The directory is renamed into place.
Promote(j) ==
    LET c == job[j].commit IN
    /\ At(j, "locked")
    /\ disk[c] = "none"
    /\ disk' = [disk EXCEPT ![c] = "whole"]
    /\ job' = [job EXCEPT ![j] = [@ EXCEPT !.pc = "promoted", !.promoted = TRUE]]
    /\ UNCHANGED <<row, current, lock, reader, source, doubted>>

\* Mutant: a directory that is found is taken for one this import made.
ReuseAsOwn(j) ==
    /\ At(j, "locked")
    /\ disk[job[j].commit] \in {"whole", "gutted"}
    /\ job' = [job EXCEPT ![j] = [@ EXCEPT !.pc = "promoted", !.promoted = TRUE]]
    /\ UNCHANGED <<disk, row, current, lock, reader, source, doubted>>

\* Mutant: the HEAD of the directory is not verified.
ReuseUnverified(j) ==
    /\ At(j, "locked")
    /\ disk[job[j].commit] # "none"
    /\ job' = [job EXCEPT ![j] = [@ EXCEPT !.pc = "promoted"]]
    /\ UNCHANGED <<disk, row, current, lock, reader, source, doubted>>

\* A directory of this commit is already there, and its HEAD verifies when the
\* import looks at it; the files are not compared.
Reuse(j) ==
    /\ At(j, "locked")
    /\ disk[job[j].commit] \in {"whole", "gutted"}
    /\ job' = [job EXCEPT ![j] = [@ EXCEPT !.pc = "promoted"]]
    /\ UNCHANGED <<disk, row, current, lock, reader, source, doubted>>

\* The transaction of persist_scan.
Persist(j) ==
    /\ At(j, "promoted")
    /\ row' = row \cup {job[j].commit}
    /\ current' = job[j].commit
    /\ job' = [job EXCEPT ![j] = [@ EXCEPT !.pc = "unlocking"]]
    /\ doubted' = doubted \ {job[j].commit}
    /\ UNCHANGED <<disk, lock, reader, source>>

\* What the except clause removes: the directory, if this import made it.
Recovery(j) ==
    IF job[j].promoted
    THEN [job[j] EXCEPT !.pc = "removing", !.left = {job[j].commit}]
    ELSE [job[j] EXCEPT !.pc = "unlocking"]

PersistFails(j) ==
    /\ At(j, "promoted")
    /\ job' = [job EXCEPT ![j] = Recovery(j)]
    /\ UNCHANGED <<disk, row, current, lock, reader, source, doubted>>

\* The database commits and the connection is lost before it can say so.
PersistInDoubt(j) ==
    /\ "in_doubt" \in Faults
    /\ At(j, "promoted")
    /\ row' = row \cup {job[j].commit}
    /\ current' = job[j].commit
    /\ job' = [job EXCEPT ![j] = Recovery(j)]
    /\ doubted' = doubted \cup {c \in {job[j].commit} : job[j].promoted}
    /\ UNCHANGED <<disk, lock, reader, source>>

\* A local upload asks the database whether the project exists between the
\* rename and the try block, so a failure there removes nothing.
LookupFails(j) ==
    /\ source = "local"
    /\ At(j, "promoted")
    /\ job' = [job EXCEPT ![j] = [@ EXCEPT !.pc = "unlocking"]]
    /\ UNCHANGED <<disk, row, current, lock, reader, source, doubted>>

(***************************************************************************)
(* Deletions.                                                              *)
(***************************************************************************)

\* The project's key is read before the lock is taken.
DeleteLookup(j) ==
    /\ At(j, "idle")
    /\ current # NoCommit
    /\ job' = [job EXCEPT ![j] = [@ EXCEPT !.pc = "looked_up"]]
    /\ UNCHANGED <<disk, row, current, lock, reader, source, doubted>>

DeleteLock(j) ==
    /\ At(j, "looked_up")
    /\ lock = NoJob
    /\ lock' = j
    /\ job' = [job EXCEPT ![j] = [@ EXCEPT !.pc = "locked"]]
    /\ UNCHANGED <<disk, row, current, reader, source, doubted>>

\* The lock is busy.
DeleteBusy(j) ==
    /\ At(j, "looked_up")
    /\ lock # NoJob
    /\ job' = [job EXCEPT ![j] = Idle]
    /\ UNCHANGED <<disk, row, current, lock, reader, source, doubted>>

\* The project is gone by now, or the caller may not delete it.
DeleteRefused(j) ==
    /\ At(j, "locked")
    /\ job' = [job EXCEPT ![j] = [@ EXCEPT !.pc = "unlocking"]]
    /\ UNCHANGED <<disk, row, current, lock, reader, source, doubted>>

\* Mutant: the lock is released with the transaction, before the directories
\* are removed.
DeleteRowsUnlocking(j) ==
    /\ At(j, "locked")
    /\ current # NoCommit
    /\ row' = {}
    /\ current' = NoCommit
    /\ lock' = NoJob
    /\ job' = [job EXCEPT ![j] = [@ EXCEPT !.pc = "removing", !.left = row]]
    /\ reader' = [k \in Reader |-> [reader[k] EXCEPT !.deleted = TRUE]]
    /\ UNCHANGED <<disk, source, doubted>>

\* Mutant: the path of the project row is collected though there is no row.
DeleteRowsUnchecked(j) ==
    /\ At(j, "locked")
    /\ row' = {}
    /\ current' = NoCommit
    /\ job' = [job EXCEPT ![j] = [@ EXCEPT !.pc = "removing", !.left = row \cup {current}]]
    /\ reader' = [k \in Reader |-> [reader[k] EXCEPT !.deleted = TRUE]]
    /\ UNCHANGED <<disk, lock, source, doubted>>

\* Mutant: only the directory of the current version is removed.
DeleteRowsOfCurrent(j) ==
    /\ At(j, "locked")
    /\ current # NoCommit
    /\ row' = {}
    /\ current' = NoCommit
    /\ job' = [job EXCEPT ![j] = [@ EXCEPT !.pc = "removing", !.left = {current}]]
    /\ reader' = [k \in Reader |-> [reader[k] EXCEPT !.deleted = TRUE]]
    /\ UNCHANGED <<disk, lock, source, doubted>>

\* One transaction collects the paths of all snapshots and deletes the project
\* with everything that references it.
DeleteRows(j) ==
    /\ At(j, "locked")
    /\ current # NoCommit
    /\ row' = {}
    /\ current' = NoCommit
    /\ job' = [job EXCEPT ![j] = [@ EXCEPT !.pc = "removing", !.left = row]]
    /\ reader' = [k \in Reader |-> [reader[k] EXCEPT !.deleted = TRUE]]
    /\ UNCHANGED <<disk, lock, source, doubted>>

(***************************************************************************)
(* Removing directories, one at a time, for a deletion or a failed import. *)
(***************************************************************************)

\* rmtree has removed some of the files.
RemoveBegins(j, c) ==
    /\ At(j, "removing")
    /\ c \in job[j].left
    /\ disk[c] # "none"
    /\ \E d \in Torn :
          /\ d = "headless" => source = "github"
          /\ disk[c] = "headless" => d = "headless"
          /\ disk' = [disk EXCEPT ![c] = d]
    /\ job' = [job EXCEPT ![j] = [@ EXCEPT !.pc = "tearing", !.commit = c]]
    /\ UNCHANGED <<row, current, lock, reader, source, doubted>>

RemoveEnds(j) ==
    LET c == job[j].commit IN
    /\ At(j, "tearing")
    /\ disk' = [disk EXCEPT ![c] = "none"]
    /\ job' = [job EXCEPT ![j] = [@ EXCEPT !.pc = "removing", !.left = job[j].left \ {c}]]
    /\ UNCHANGED <<row, current, lock, reader, source, doubted>>

\* An OSError ends the removal of this directory; the next one is tried.
RemoveFails(j) ==
    LET c == job[j].commit IN
    /\ "os_error" \in Faults
    /\ At(j, "tearing")
    /\ job' = [job EXCEPT ![j] = [@ EXCEPT !.pc = "removing", !.left = job[j].left \ {c}]]
    /\ UNCHANGED <<disk, row, current, lock, reader, source, doubted>>

\* repository_path.exists() is false.
NothingToRemove(j, c) ==
    /\ At(j, "removing")
    /\ c \in job[j].left
    /\ disk[c] = "none"
    /\ job' = [job EXCEPT ![j] = [@ EXCEPT !.left = job[j].left \ {c}]]
    /\ UNCHANGED <<disk, row, current, lock, reader, source, doubted>>

\* Mutant: an error before the finally clause leaves the lock to its session.
UnlockAfterSuccess(j) ==
    /\ At(j, "unlocking")
    /\ current # NoCommit
    /\ lock' = NoJob
    /\ job' = [job EXCEPT ![j] = Idle]
    /\ UNCHANGED <<disk, row, current, reader, source, doubted>>

\* The finally clause of repository_import_lock.
Unlock(j) ==
    /\ At(j, "unlocking") \/ (At(j, "removing") /\ job[j].left = {})
    /\ lock' = NoJob
    /\ job' = [job EXCEPT ![j] = Idle]
    /\ UNCHANGED <<disk, row, current, reader, source, doubted>>

\* The server dies, its jobs and its database sessions with it.
Crash ==
    /\ "crash" \in Faults
    /\ lock' = NoJob
    /\ job' = [j \in Job |-> Idle]
    /\ reader' = [k \in Reader |-> Away]
    /\ UNCHANGED <<disk, row, current, source, doubted>>

(***************************************************************************)
(* Readers.                                                                *)
(***************************************************************************)

\* A request pins the current commit, and reads at it any number of times.
Pin(k) ==
    /\ reader[k].pc = "idle"
    /\ current # NoCommit
    /\ reader' = [reader EXCEPT ![k] = [Away EXCEPT !.pc = "pinned", !.commit = current]]
    /\ UNCHANGED <<disk, row, current, lock, job, source, doubted>>

\* Mutant: the row of the current version is looked up.
ReadRowOfCurrent(k) ==
    /\ reader[k].pc = "pinned"
    /\ reader' = [reader EXCEPT ![k] =
                     IF @.commit = current
                     THEN [@ EXCEPT !.pc = "row_read"]
                     ELSE [@ EXCEPT !.pc = "idle", !.out = "missing"]]
    /\ UNCHANGED <<disk, row, current, lock, job, source, doubted>>

\* The transaction of read_code_source.
ReadRow(k) ==
    /\ reader[k].pc = "pinned"
    /\ reader' = [reader EXCEPT ![k] =
                     IF @.commit \in row
                     THEN [@ EXCEPT !.pc = "row_read"]
                     ELSE [@ EXCEPT !.pc = "idle", !.out = "missing"]]
    /\ UNCHANGED <<disk, row, current, lock, job, source, doubted>>

\* After it the file is read and its hash compared: a missing or a different
\* file is an error, and a torn directory may still have this one.
ReadSource(k) ==
    /\ reader[k].pc = "row_read"
    /\ \E out \in {"found", "broken"} :
          /\ out = "found" => disk[reader[k].commit] # "none"
          /\ out = "broken" => disk[reader[k].commit] # "whole"
          /\ reader' = [reader EXCEPT ![k] = [@ EXCEPT !.pc = "pinned", !.out = out]]
    /\ UNCHANGED <<disk, row, current, lock, job, source, doubted>>

Leave(k) ==
    /\ reader[k].pc = "pinned"
    /\ reader' = [reader EXCEPT ![k] = Away]
    /\ UNCHANGED <<disk, row, current, lock, job, source, doubted>>

(***************************************************************************)
(* The specification.                                                      *)
(***************************************************************************)

\* What a job does once it has the lock.
ImportWork(j) ==
    \/ ImportFails(j) \/ Promote(j) \/ Reuse(j)
    \/ Persist(j) \/ PersistFails(j) \/ PersistInDoubt(j) \/ LookupFails(j)

DeleteWork(j) == DeleteRefused(j) \/ DeleteRows(j)

RemoveWork(j) ==
    \/ \E c \in Commit : RemoveBegins(j, c) \/ NothingToRemove(j, c)
    \/ RemoveEnds(j) \/ RemoveFails(j) \/ Unlock(j)

ReadStep(k) == Pin(k) \/ ReadRow(k) \/ ReadSource(k) \/ Leave(k)

Next ==
    \/ \E j \in Importer : ImportWork(j) \/ \E c \in Commit : ImportLock(j, c)
    \/ \E j \in Deleter : DeleteLookup(j) \/ DeleteLock(j) \/ DeleteBusy(j) \/ DeleteWork(j)
    \/ \E j \in Job : RemoveWork(j)
    \/ \E k \in Reader : ReadStep(k)
    \/ Crash

Spec == Init /\ [][Next]_vars

\* The thread of a request that holds the lock goes on; nothing says that a
\* request is ever made.
Fairness ==
    /\ \A j \in Importer : WF_vars(ImportWork(j))
    /\ \A j \in Deleter : WF_vars(DeleteWork(j))
    /\ \A j \in Job : WF_vars(RemoveWork(j))

FairSpec == Spec /\ Fairness

(***************************************************************************)
(* Properties.                                                             *)
(***************************************************************************)

\* Every registered snapshot can be read: its directory has all its files.
RegisteredIsWhole == \A c \in row : disk[c] = "whole"

\* "Active snapshot disk" of scripts/check_isolation.py: the directory of every
\* registered snapshot is there and its HEAD is the commit, through crashes
\* and failed removals; only a commit in doubt can lose it.
RegisteredHeadVerifies ==
    \A c \in row : disk[c] \in {"whole", "gutted"} \/ c \in doubted

\* "只有本次新建且尚未被 DB 激活的快照才回收": no step touches the directory of a
\* snapshot that is registered.
RegisteredUntouched == \A c \in row : disk[c] = "whole" => disk'[c] = "whole"

RecoveryKeepsActive == [][RegisteredUntouched]_vars

\* A request reads the sources of the commit it pinned, whatever is imported
\* meanwhile; only a deletion of the project takes them away.
PinnedReadsSucceed ==
    \A k \in Reader : reader[k].out \in {"missing", "broken"} => reader[k].deleted

\* Rows and directories together are the abstract store of snapshots.
Readable == {c \in row : disk[c] = "whole"}
Store == INSTANCE SnapshotStore WITH available <- Readable
ImplementsStore == Store!Spec

\* No job keeps the lock for ever: other requests find it free again.
LockIsReleased == \A j \in Job : lock = j ~> lock # j

\* A directory that belongs to no registered snapshot, after a deletion or a
\* failed import, is removed or taken over by an import.  A local upload is
\* exempt: its lookup may fail after the rename (LookupFails).
OrphansGo ==
    \A c \in Commit :
        source = "github" /\ disk[c] # "none" /\ c \notin row
            ~> disk[c] = "none" \/ c \in row
=============================================================================
