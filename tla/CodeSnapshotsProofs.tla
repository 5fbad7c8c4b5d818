------------------------ MODULE CodeSnapshotsProofs ------------------------
(***************************************************************************)
(* Proofs about CodeSnapshots.  What an import and a deletion do to the    *)
(* directories is only safe because they exclude each other, so the        *)
(* argument starts from the lock: whoever works holds it.                  *)
(***************************************************************************)
EXTENDS CodeSnapshots, TLAPS

LEMMA IdleTypes ==
    /\ Idle \in JobState
    /\ Away \in ReaderState
BY DEF Idle, Away, JobState, ReaderState

\* A job that has promoted a directory or is removing one, and an import that
\* has the lock, works for a commit.
WorkHasCommit ==
    \A j \in Job :
        job[j].pc \in {"promoted", "tearing"} \/ (j \in Importer /\ job[j].pc = "locked")
            => job[j].commit \in Commit

TypeInv == TypeOK /\ WorkHasCommit

LEMMA TypeInductive == TypeInv /\ [Next]_vars => TypeInv'
<1> SUFFICES ASSUME TypeInv, [Next]_vars PROVE TypeInv'
  OBVIOUS
<1> USE DEF TypeInv
<1>a. \A j \in Job : job[j] \in JobState
  BY DEF TypeOK
<1>b. \A k \in Reader : reader[k] \in ReaderState
  BY DEF TypeOK
<1>c. Importer \subseteq Job /\ Deleter \subseteq Job
  BY DEF Job
<1>1. ASSUME NEW j \in Importer, NEW c \in Commit, ImportLock(j, c) PROVE TypeInv'
  <2>1. [Idle EXCEPT !.pc = "locked", !.commit = c] \in JobState
    BY DEF Idle, JobState
  <2>2. QED
    BY <1>1, <1>c, <2>1 DEF ImportLock, TypeOK, WorkHasCommit, Idle
<1>2. ASSUME NEW j \in Job, ImportFails(j) \/ LookupFails(j) \/ DeleteRefused(j)
      PROVE  TypeInv'
  <2>1. [job[j] EXCEPT !.pc = "unlocking"] \in JobState
    BY <1>a DEF JobState
  <2>2. QED
    BY <1>2, <1>a, <2>1
       DEF ImportFails, LookupFails, DeleteRefused, TypeOK, WorkHasCommit, JobState
<1>3a. ASSUME NEW j \in Importer, Reuse(j) PROVE TypeInv'
  <2>1. [job[j] EXCEPT !.pc = "promoted"] \in JobState
    BY <1>a, <1>c DEF JobState
  <2>2. QED
    BY <1>3a, <1>a, <1>c, <2>1 DEF Reuse, At, TypeOK, WorkHasCommit, JobState
<1>3. ASSUME NEW j \in Importer, Promote(j) PROVE TypeInv'
  <2>1. [job[j] EXCEPT !.pc = "promoted", !.promoted = TRUE] \in JobState
    BY <1>a, <1>c DEF JobState
  <2>2. QED
    BY <1>3, <1>a, <1>c, <2>1 DEF Promote, At, TypeOK, WorkHasCommit, JobState, Torn
<1>4. ASSUME NEW j \in Importer, Persist(j) \/ PersistFails(j) \/ PersistInDoubt(j)
      PROVE  TypeInv'
  <2>1. job[j].commit \in Commit
    BY <1>4, <1>c DEF Persist, PersistFails, PersistInDoubt, At, WorkHasCommit
  <2>2. /\ [job[j] EXCEPT !.pc = "unlocking"] \in JobState
        /\ Recovery(j) \in JobState
        /\ Recovery(j).pc \in {"removing", "unlocking"}
    BY <1>a, <1>c, <2>1 DEF Recovery, JobState
  <2>3. QED
    BY <1>4, <1>a, <1>c, <2>1, <2>2
       DEF Persist, PersistFails, PersistInDoubt, TypeOK, WorkHasCommit, JobState
<1>5. ASSUME NEW j \in Deleter, DeleteLookup(j) \/ DeleteLock(j) \/ DeleteBusy(j)
      PROVE  TypeInv'
  <2>1. /\ [job[j] EXCEPT !.pc = "looked_up"] \in JobState
        /\ [job[j] EXCEPT !.pc = "locked"] \in JobState
    BY <1>a, <1>c DEF JobState
  <2>2. j \notin Importer
    BY SentinelAssumption
  <2>3. /\ job' \in [Job -> JobState] /\ lock' \in Job \cup {NoJob}
        /\ UNCHANGED <<disk, row, current, reader, source, doubted>>
    BY <1>5, <1>c, <2>1, IdleTypes DEF DeleteLookup, DeleteLock, DeleteBusy, TypeOK
  <2>4. WorkHasCommit'
    BY <1>5, <1>a, <1>c, <2>2
       DEF DeleteLookup, DeleteLock, DeleteBusy, TypeOK, WorkHasCommit, Idle, JobState
  <2>5. QED
    BY <2>3, <2>4 DEF TypeOK
<1>6. ASSUME NEW j \in Deleter, DeleteRows(j) PROVE TypeInv'
  <2>1. [job[j] EXCEPT !.pc = "removing", !.left = row] \in JobState
    BY <1>a, <1>c DEF JobState, TypeOK
  <2>2. \A k \in Reader : [reader[k] EXCEPT !.deleted = TRUE] \in ReaderState
    BY <1>b DEF ReaderState
  <2>3. QED
    BY <1>6, <1>a, <1>c, <2>1, <2>2 DEF DeleteRows, TypeOK, WorkHasCommit, JobState
<1>7. ASSUME NEW j \in Job, NEW c \in Commit, RemoveBegins(j, c) PROVE TypeInv'
  <2>1. [job[j] EXCEPT !.pc = "tearing", !.commit = c] \in JobState
    BY <1>a DEF JobState
  <2>2. QED
    BY <1>7, <1>a, <2>1 DEF RemoveBegins, TypeOK, WorkHasCommit, JobState
<1>8. ASSUME NEW j \in Job, RemoveEnds(j) \/ RemoveFails(j) PROVE TypeInv'
  <2> DEFINE next == [job[j] EXCEPT !.pc = "removing", !.left = job[j].left \ {job[j].commit}]
  <2>1. next \in JobState /\ next.pc = "removing"
    BY <1>a DEF JobState
  <2>2. job' = [job EXCEPT ![j] = next]
    BY <1>8 DEF RemoveEnds, RemoveFails
  <2>3. disk' \in [Commit -> {"none", "whole"} \cup Torn] /\ UNCHANGED <<row, current, lock, reader, source, doubted>>
    BY <1>8 DEF RemoveEnds, RemoveFails, TypeOK
  <2> HIDE DEF next
  <2>4. /\ job' \in [Job -> JobState]
        /\ \A i \in Job : job'[i] = IF i = j THEN next ELSE job[i]
    BY <2>1, <2>2 DEF TypeOK
  <2>5. WorkHasCommit'
    BY <2>1, <2>4 DEF WorkHasCommit
  <2>6. QED
    BY <2>3, <2>4, <2>5 DEF TypeOK
<1>9. ASSUME NEW j \in Job, NEW c \in Commit, NothingToRemove(j, c) PROVE TypeInv'
  <2> DEFINE next == [job[j] EXCEPT !.left = job[j].left \ {c}]
  <2>1. next \in JobState /\ next.pc = "removing"
    BY <1>a, <1>9 DEF JobState, NothingToRemove, At
  <2>2. job' = [job EXCEPT ![j] = next] /\ UNCHANGED <<disk, row, current, lock, reader, source, doubted>>
    BY <1>9 DEF NothingToRemove
  <2> HIDE DEF next
  <2>3. /\ job' \in [Job -> JobState]
        /\ \A i \in Job : job'[i] = IF i = j THEN next ELSE job[i]
    BY <2>1, <2>2 DEF TypeOK
  <2>4. WorkHasCommit'
    BY <2>1, <2>3 DEF WorkHasCommit
  <2>5. QED
    BY <2>2, <2>3, <2>4 DEF TypeOK
<1>10. ASSUME NEW j \in Job, Unlock(j) PROVE TypeInv'
  BY <1>10, <1>a, IdleTypes DEF Unlock, TypeOK, WorkHasCommit, Idle
<1>11. ASSUME Crash PROVE TypeInv'
  BY <1>11, IdleTypes DEF Crash, TypeOK, WorkHasCommit, Idle
<1>12. ASSUME NEW k \in Reader, ReadStep(k) PROVE TypeInv'
  <2>1. \A pc \in {"idle", "pinned", "row_read"}, out \in {"none", "found", "missing", "broken"} :
           /\ [reader[k] EXCEPT !.pc = pc] \in ReaderState
           /\ [reader[k] EXCEPT !.pc = pc, !.out = out] \in ReaderState
    BY <1>b DEF ReaderState
  <2>2. [Away EXCEPT !.pc = "pinned", !.commit = current] \in ReaderState
    BY DEF Away, ReaderState, TypeOK
  <2>3. reader' \in [Reader -> ReaderState]
    BY <1>12, <2>1, <2>2, IdleTypes DEF ReadStep, Pin, ReadRow, ReadSource, Leave, TypeOK
  <2>4. QED
    BY <1>12, <2>3 DEF ReadStep, Pin, ReadRow, ReadSource, Leave, TypeOK, WorkHasCommit
<1>13. CASE UNCHANGED vars
  BY <1>13 DEF vars, TypeOK, WorkHasCommit
<1>14. QED
  BY <1>1, <1>2, <1>3, <1>3a, <1>4, <1>5, <1>6, <1>7, <1>8, <1>9, <1>10, <1>11, <1>12, <1>13, <1>c
     DEF Next, ImportWork, DeleteWork, RemoveWork

\* The types, and what a request in progress knows, are kept by every step.
LEMMA TypeInvariant == Spec => []TypeInv
<1>1. Init => TypeInv
  BY IdleTypes DEF Init, TypeInv, TypeOK, WorkHasCommit, Idle
<1>2. QED
  BY <1>1, TypeInductive, PTL DEF Spec

\* Every reachable state has its types.
THEOREM TypeCorrect == Spec => []TypeOK
<1>1. TypeInv => TypeOK
  BY DEF TypeInv
<1>2. QED
  BY <1>1, TypeInvariant, PTL

(***************************************************************************)
(* The lock and what its holder may rely on.                               *)
(***************************************************************************)

Working(j) == job[j].pc \notin {"idle", "looked_up"}

WorkersHoldLock == \A j \in Job : Working(j) => lock = j

\* What a job is about to remove is not registered, or its activation is in
\* doubt: a deletion has committed the removal of the rows, and an import
\* removes only what it made itself, where no directory was.  A registered
\* commit without a directory can only be one in doubt.
RemovesUnregistered ==
    \A j \in Job :
        /\ job[j].pc \in {"removing", "tearing"} => job[j].left \cap row \subseteq doubted
        /\ job[j].pc = "tearing" => job[j].commit \in job[j].left
        /\ job[j].pc = "promoted" /\ job[j].promoted =>
              job[j].commit \notin row \/ job[j].commit \in doubted
        /\ job[j].pc \in {"idle", "looked_up", "locked"} => ~job[j].promoted

PromotedVerifies ==
    \A j \in Job : job[j].pc = "promoted" => disk[job[j].commit] \in {"whole", "gutted"}

LockInv ==
    WorkersHoldLock /\ RemovesUnregistered /\ PromotedVerifies /\ RegisteredHeadVerifies

\* A step of a job under the lock changes no other job, and no other job works.
LEMMA OneWorker ==
    ASSUME WorkersHoldLock, NEW j \in Job, Working(j)
    PROVE  \A i \in Job \ {j} : ~Working(i)
BY DEF WorkersHoldLock

LEMMA LockInductive == TypeInv /\ LockInv /\ [Next]_vars => LockInv'
<1> SUFFICES ASSUME TypeInv, LockInv, [Next]_vars PROVE LockInv'
  OBVIOUS
<1>a. \A j \in Job : job[j] \in JobState
  BY DEF TypeOK, TypeInv
<1>c. Importer \subseteq Job /\ Deleter \subseteq Job /\ NoJob \notin Job
  BY SentinelAssumption DEF Job
<1>d. /\ job \in [Job -> JobState] /\ WorkHasCommit
      /\ disk \in [Commit -> {"none", "whole"} \cup Torn]
      /\ row \in SUBSET Commit /\ doubted \in SUBSET Commit
  BY DEF TypeOK, TypeInv
<1> USE DEF LockInv
\* The steps that leave directories and rows alone.
<1>1. ASSUME NEW j \in Importer, NEW c \in Commit, ImportLock(j, c) PROVE LockInv'
  <2>1. \A i \in Job : ~Working(i)
    BY <1>1, <1>c DEF ImportLock, WorkersHoldLock
  <2>2. QED
    BY <1>1, <1>c, <1>d, <2>1 DEF ImportLock, WorkersHoldLock, Working, RemovesUnregistered,
       PromotedVerifies, RegisteredHeadVerifies, Idle
<1>2. ASSUME NEW j \in Job, ImportFails(j) \/ LookupFails(j) \/ DeleteRefused(j)
      PROVE  LockInv'
  BY <1>2, <1>c, <1>d DEF ImportFails, LookupFails, DeleteRefused, At, WorkersHoldLock, Working,
     RemovesUnregistered, PromotedVerifies, RegisteredHeadVerifies, JobState
<1>3. ASSUME NEW j \in Importer, Reuse(j) PROVE LockInv'
  <2>1. ~job[j].promoted
    BY <1>3, <1>c DEF Reuse, At, RemovesUnregistered
  <2>2. QED
    BY <1>3, <1>c, <1>d, <2>1 DEF Reuse, At, WorkersHoldLock, Working,
     RemovesUnregistered, PromotedVerifies, RegisteredHeadVerifies, JobState
<1>4. ASSUME NEW j \in Importer, Promote(j) PROVE LockInv'
  <2> DEFINE c == job[j].commit
             next == [job[j] EXCEPT !.pc = "promoted", !.promoted = TRUE]
  <2>1. /\ c \in Commit /\ Working(j) /\ disk[c] = "none" /\ (c \notin row \/ c \in doubted)
        /\ \A i \in Job \ {j} : ~Working(i)
    BY <1>4, <1>c, <1>d, OneWorker DEF Promote, At, WorkHasCommit, Working, RegisteredHeadVerifies
  <2>2. /\ \A i \in Job : job'[i] = IF i = j THEN next ELSE job[i]
        /\ disk' = [disk EXCEPT ![c] = "whole"] /\ UNCHANGED <<row, lock, doubted>>
        /\ next.pc = "promoted" /\ next.commit = c
    BY <1>4, <1>c, <1>d DEF Promote, JobState
  <2> HIDE DEF c, next
  <2>3. QED
    BY <1>c, <1>d, <2>1, <2>2 DEF WorkersHoldLock, Working, RemovesUnregistered,
       PromotedVerifies, RegisteredHeadVerifies, Torn
<1>5. ASSUME NEW j \in Importer, Persist(j) \/ PersistFails(j) \/ PersistInDoubt(j) PROVE LockInv'
  <2>1. /\ job[j].commit \in Commit /\ Working(j)
        /\ \A i \in Job \ {j} : ~Working(i)
    BY <1>5, <1>c, <1>d, OneWorker DEF Persist, PersistFails, PersistInDoubt, At, WorkHasCommit, Working
  <2>2. CASE Persist(j)
    BY <1>c, <1>d, <2>1, <2>2 DEF Persist, At, WorkersHoldLock, Working, RemovesUnregistered,
       PromotedVerifies, RegisteredHeadVerifies, JobState
  <2>3. CASE PersistFails(j)
    BY <1>c, <1>d, <2>1, <2>3 DEF PersistFails, Recovery, At, WorkersHoldLock, Working,
       RemovesUnregistered, PromotedVerifies, RegisteredHeadVerifies, JobState
  <2>4. CASE PersistInDoubt(j)
    \* What this import made is registered, about to be removed, and in doubt.
    BY <1>c, <1>d, <2>1, <2>4 DEF PersistInDoubt, Recovery, At, WorkersHoldLock, Working,
       RemovesUnregistered, PromotedVerifies, RegisteredHeadVerifies, JobState
  <2>5. QED
    BY <1>5, <2>2, <2>3, <2>4
<1>6. ASSUME NEW j \in Deleter, DeleteLookup(j) \/ DeleteLock(j) \/ DeleteBusy(j) PROVE LockInv'
  BY <1>6, <1>c, <1>d DEF DeleteLookup, DeleteLock, DeleteBusy, At, Idle, WorkersHoldLock, Working,
     RemovesUnregistered, PromotedVerifies, RegisteredHeadVerifies, JobState
<1>7. ASSUME NEW j \in Deleter, DeleteRows(j) PROVE LockInv'
  BY <1>7, <1>c, <1>d DEF DeleteRows, At, WorkersHoldLock, Working,
     RemovesUnregistered, PromotedVerifies, RegisteredHeadVerifies, JobState
<1>8. ASSUME NEW j \in Job, NEW c \in Commit, RemoveBegins(j, c) PROVE LockInv'
  <2>1. /\ Working(j) /\ (c \notin row \/ c \in doubted) /\ \A i \in Job \ {j} : ~Working(i)
    BY <1>8, OneWorker DEF RemoveBegins, At, Working, RemovesUnregistered
  <2>2. QED
    BY <1>8, <1>d, <2>1 DEF RemoveBegins, At, WorkersHoldLock, Working,
       RemovesUnregistered, PromotedVerifies, RegisteredHeadVerifies, JobState
<1>9. ASSUME NEW j \in Job, RemoveEnds(j) \/ RemoveFails(j) PROVE LockInv'
  <2> DEFINE c == job[j].commit
             next == [job[j] EXCEPT !.pc = "removing", !.left = job[j].left \ {c}]
  <2>1. /\ Working(j) /\ (c \notin row \/ c \in doubted) /\ job[j].left \cap row \subseteq doubted
        /\ \A i \in Job \ {j} : ~Working(i)
    BY <1>9, OneWorker DEF RemoveEnds, RemoveFails, At, Working, RemovesUnregistered
  <2>2. /\ \A i \in Job : job'[i] = IF i = j THEN next ELSE job[i]
        /\ next.pc = "removing" /\ next.left = job[j].left \ {c}
        /\ UNCHANGED <<row, lock, doubted>>
        /\ \A b \in Commit \ {c} : disk'[b] = disk[b]
    BY <1>9, <1>c, <1>d DEF RemoveEnds, RemoveFails, JobState
  <2> HIDE DEF c, next
  <2>3. QED
    BY <1>d, <2>1, <2>2 DEF WorkersHoldLock, Working, RemovesUnregistered,
       PromotedVerifies, RegisteredHeadVerifies
<1>10. ASSUME NEW j \in Job, NEW c \in Commit, NothingToRemove(j, c) PROVE LockInv'
  <2> DEFINE next == [job[j] EXCEPT !.left = job[j].left \ {c}]
  <2>1. /\ \A i \in Job : job'[i] = IF i = j THEN next ELSE job[i]
        /\ next.pc = "removing" /\ job[j].pc = "removing" /\ next.left = job[j].left \ {c}
        /\ UNCHANGED <<disk, row, lock, doubted>>
    BY <1>10, <1>d DEF NothingToRemove, At, JobState
  <2> HIDE DEF next
  <2>2. QED
    BY <1>d, <2>1 DEF WorkersHoldLock, Working, RemovesUnregistered,
       PromotedVerifies, RegisteredHeadVerifies
<1>11. ASSUME NEW j \in Job, Unlock(j) PROVE LockInv'
  <2>1. Working(j) /\ \A i \in Job \ {j} : ~Working(i)
    BY <1>11, OneWorker DEF Unlock, At, Working
  <2>2. QED
    BY <1>11, <1>d, <2>1 DEF Unlock, Idle, WorkersHoldLock, Working, RemovesUnregistered,
       PromotedVerifies, RegisteredHeadVerifies
<1>12. ASSUME Crash PROVE LockInv'
  BY <1>12, <1>d DEF Crash, Idle, WorkersHoldLock, Working, RemovesUnregistered,
     PromotedVerifies, RegisteredHeadVerifies
<1>13. ASSUME NEW k \in Reader, ReadStep(k) PROVE LockInv'
  BY <1>13 DEF ReadStep, Pin, ReadRow, ReadSource, Leave, WorkersHoldLock, Working,
     RemovesUnregistered, PromotedVerifies, RegisteredHeadVerifies
<1>14. CASE UNCHANGED vars
  BY <1>14 DEF vars, WorkersHoldLock, Working, RemovesUnregistered, PromotedVerifies,
     RegisteredHeadVerifies
<1>15. QED
  BY <1>1, <1>2, <1>3, <1>4, <1>5, <1>6, <1>7, <1>8, <1>9, <1>10, <1>11, <1>12, <1>13, <1>14,
     <1>c DEF Next, ImportWork, DeleteWork, RemoveWork

LEMMA LockCorrect == Spec => [](TypeInv /\ LockInv)
<1>1. Init => LockInv
  BY DEF Init, LockInv, Idle, WorkersHoldLock, Working, RemovesUnregistered, PromotedVerifies,
     RegisteredHeadVerifies
<1>2. QED
  BY <1>1, LockInductive, TypeInvariant, PTL DEF Spec

\* Every registered snapshot whose activation is not in doubt keeps a directory
\* whose HEAD verifies, through crashes, failed removals and commits reported
\* as failed: there the check "Active snapshot disk" of
\* scripts/check_isolation.py never fails.
THEOREM HeadsVerify == Spec => []RegisteredHeadVerifies
<1>1. LockInv => RegisteredHeadVerifies
  BY DEF LockInv
<1>2. QED
  BY <1>1, LockCorrect, PTL

\* A directory that has all its files loses one only if it is not registered or
\* its activation is in doubt.
DoubtlessUntouched ==
    \A c \in row \ doubted : disk[c] = "whole" => disk'[c] = "whole"

\* Whatever fails, no step touches the directory of a registered snapshot that
\* is not in doubt: a crash, an OSError and a failed commit reclaim nothing
\* else.
THEOREM DoubtlessSnapshotsUntouched == Spec => [][DoubtlessUntouched]_vars
<1>1. TypeInv /\ LockInv /\ [Next]_vars => [DoubtlessUntouched]_vars
  <2> SUFFICES ASSUME TypeInv, LockInv, [Next]_vars PROVE DoubtlessUntouched
    OBVIOUS
  <2>a. /\ disk \in [Commit -> {"none", "whole"} \cup Torn] /\ row \in SUBSET Commit
        /\ Job = Importer \cup Deleter
    BY DEF TypeOK, TypeInv, Job
  <2>1. ASSUME NEW j \in Job, NEW c \in Commit, RemoveBegins(j, c) PROVE DoubtlessUntouched
    <3>1. c \notin row \/ c \in doubted
      BY <2>1 DEF RemoveBegins, At, LockInv, RemovesUnregistered
    <3>2. QED
      BY <2>1, <2>a, <3>1 DEF RemoveBegins, DoubtlessUntouched
  <2>2. ASSUME NEW j \in Job, RemoveEnds(j) PROVE DoubtlessUntouched
    <3>1. job[j].commit \notin row \/ job[j].commit \in doubted
      BY <2>2 DEF RemoveEnds, At, LockInv, RemovesUnregistered
    <3>2. QED
      BY <2>2, <2>a, <3>1 DEF RemoveEnds, DoubtlessUntouched
  <2>3. ASSUME NEW j \in Importer, Promote(j) PROVE DoubtlessUntouched
    BY <2>3, <2>a DEF Promote, DoubtlessUntouched
  <2>4. CASE UNCHANGED disk
    BY <2>4 DEF DoubtlessUntouched
  <2>5. QED
    BY <2>1, <2>2, <2>3, <2>4, <2>a
       DEF Next, ImportWork, DeleteWork, RemoveWork, ReadStep, ImportLock, ImportFails, Reuse,
           Persist, PersistFails, PersistInDoubt, LookupFails, DeleteLookup, DeleteLock,
           DeleteBusy, DeleteRefused, DeleteRows, RemoveFails, NothingToRemove, Unlock, Crash,
           Pin, ReadRow, ReadSource, Leave, vars
<1>2. QED
  BY <1>1, LockCorrect, PTL DEF Spec

\* Only PersistInDoubt puts a commit in doubt.
LEMMA NoDoubts ==
    ASSUME "in_doubt" \notin Faults
    PROVE  Spec => [](doubted = {})
<1>1. Init => doubted = {}
  BY DEF Init
<1>2. doubted = {} /\ [Next]_vars => (doubted = {})'
  BY DEF Next, ImportWork, DeleteWork, RemoveWork, ReadStep, ImportLock, ImportFails, Promote,
         Reuse, Persist, PersistFails, PersistInDoubt, LookupFails, DeleteLookup, DeleteLock,
         DeleteBusy, DeleteRefused, DeleteRows, RemoveBegins, RemoveEnds, RemoveFails,
         NothingToRemove, Unlock, Crash, Pin, ReadRow, ReadSource, Leave, vars
<1>3. QED
  BY <1>1, <1>2, PTL DEF Spec

\* The except clause of an import reclaims only what is not registered, and no
\* other step touches the directory of a registered snapshot either, unless a
\* commit may be reported as failed.
THEOREM ActiveSnapshotsUntouched ==
    ASSUME "in_doubt" \notin Faults
    PROVE  Spec => RecoveryKeepsActive
<1>1. doubted = {} /\ [DoubtlessUntouched]_vars => [RegisteredUntouched]_vars
  BY DEF DoubtlessUntouched, RegisteredUntouched
<1>2. QED
  BY <1>1, NoDoubts, DoubtlessSnapshotsUntouched, PTL DEF RecoveryKeepsActive

(***************************************************************************)
(* Without faults: the store of whole snapshots.                           *)
(***************************************************************************)

TornInProgress ==
    \A c \in Commit : disk[c] \in Torn =>
        \E j \in Job : job[j].pc = "tearing" /\ job[j].commit = c

PromotedIsWhole ==
    \A j \in Job : job[j].pc = "promoted" => disk[job[j].commit] = "whole"

CurrentIsRegistered == current # NoCommit => current \in row

\* A request that was not overtaken by a deletion still has its row.
PinnedIsRegistered ==
    \A k \in Reader :
        /\ reader[k].pc # "idle" /\ ~reader[k].deleted => reader[k].commit \in row
        /\ reader[k].out \in {"missing", "broken"} => reader[k].deleted

WholeInv ==
    /\ TornInProgress
    /\ PromotedIsWhole
    /\ RegisteredIsWhole
    /\ CurrentIsRegistered
    /\ PinnedIsRegistered

LEMMA WholeInductive ==
    ASSUME Faults = {}
    PROVE  TypeInv /\ LockInv /\ doubted = {} /\ WholeInv /\ [Next]_vars => WholeInv'
<1> SUFFICES ASSUME TypeInv, LockInv, doubted = {}, WholeInv, [Next]_vars PROVE WholeInv'
  OBVIOUS
<1>c. Importer \subseteq Job /\ Deleter \subseteq Job
  BY DEF Job
<1>d. /\ job \in [Job -> JobState] /\ WorkHasCommit
      /\ disk \in [Commit -> {"none", "whole"} \cup Torn]
      /\ row \in SUBSET Commit
      /\ reader \in [Reader -> ReaderState]
      /\ current \in Commit \cup {NoCommit}
  BY DEF TypeOK, TypeInv
<1> USE DEF WholeInv
\* Steps that move a job without touching directories, rows or readers.
<1>q. ASSUME UNCHANGED <<disk, row, current, reader>>,
             \A i \in Job :
                /\ job[i].pc = "tearing" =>
                      job'[i].pc = "tearing" /\ job'[i].commit = job[i].commit
                /\ job'[i].pc = "promoted" =>
                      job[i].pc = "promoted" /\ job'[i].commit = job[i].commit
      PROVE  WholeInv'
  BY <1>q DEF TornInProgress, PromotedIsWhole, RegisteredIsWhole, CurrentIsRegistered,
     PinnedIsRegistered
<1>1. ASSUME NEW j \in Job, NEW c \in Commit, ImportLock(j, c) PROVE WholeInv'
  BY <1>1, <1>d, <1>q DEF ImportLock, At, Idle
<1>2. ASSUME NEW j \in Job, ImportFails(j) \/ LookupFails(j) \/ DeleteRefused(j) PROVE WholeInv'
  BY <1>2, <1>d, <1>q DEF ImportFails, LookupFails, DeleteRefused, At, JobState
<1>3. ASSUME NEW j \in Job, PersistFails(j) PROVE WholeInv'
  BY <1>3, <1>d, <1>q DEF PersistFails, Recovery, At, JobState
<1>4. ASSUME NEW j \in Job, DeleteLookup(j) \/ DeleteLock(j) \/ DeleteBusy(j) PROVE WholeInv'
  BY <1>4, <1>d, <1>q DEF DeleteLookup, DeleteLock, DeleteBusy, At, Idle, JobState
<1>5. ASSUME NEW j \in Job, Unlock(j) PROVE WholeInv'
  BY <1>5, <1>d, <1>q DEF Unlock, At, Idle
<1>6. ASSUME NEW j \in Job, NEW c \in Commit, NothingToRemove(j, c) PROVE WholeInv'
  <2> DEFINE next == [job[j] EXCEPT !.left = job[j].left \ {c}]
  <2>1. /\ \A i \in Job : job'[i] = IF i = j THEN next ELSE job[i]
        /\ next.pc = "removing" /\ job[j].pc = "removing"
        /\ UNCHANGED <<disk, row, current, reader>>
    BY <1>6, <1>d DEF NothingToRemove, At, JobState
  <2> HIDE DEF next
  <2>2. QED
    BY <2>1, <1>q
<1>7. ASSUME NEW j \in Importer, Promote(j) PROVE WholeInv'
  <2> DEFINE c == job[j].commit
             next == [job[j] EXCEPT !.pc = "promoted", !.promoted = TRUE]
  <2>1. /\ c \in Commit /\ job[j].pc = "locked" /\ disk[c] = "none"
    BY <1>7, <1>c DEF Promote, At, WorkHasCommit, TypeInv
  <2>2. /\ \A i \in Job : job'[i] = IF i = j THEN next ELSE job[i]
        /\ disk' = [disk EXCEPT ![c] = "whole"] /\ UNCHANGED <<row, current, reader>>
        /\ next.pc = "promoted" /\ next.commit = c
    BY <1>7, <1>c, <1>d DEF Promote, JobState
  <2> HIDE DEF c, next
  <2>3. TornInProgress'
    BY <1>d, <2>1, <2>2 DEF TornInProgress, Torn
  <2>4. PromotedIsWhole'
    BY <1>d, <2>1, <2>2 DEF PromotedIsWhole, WorkHasCommit
  <2>5. QED
    BY <1>d, <2>1, <2>2, <2>3, <2>4
       DEF RegisteredIsWhole, CurrentIsRegistered, PinnedIsRegistered
<1>8. ASSUME NEW j \in Importer, Reuse(j) PROVE WholeInv'
  <2>1. job[j].commit \in Commit /\ \A i \in Job \ {j} : ~Working(i)
    BY <1>8, <1>c, <1>d, OneWorker DEF Reuse, At, WorkHasCommit, Working, LockInv
  <2>2. \A i \in Job : job[i].pc # "tearing"
    BY <1>8, <2>1 DEF Reuse, At, Working
  <2>3. disk[job[j].commit] = "whole"
    BY <1>8, <2>1, <2>2 DEF Reuse, TornInProgress, Torn
  <2>4. QED
    BY <1>8, <1>c, <1>d, <2>2, <2>3 DEF Reuse, At, JobState, TornInProgress, PromotedIsWhole,
       RegisteredIsWhole, CurrentIsRegistered, PinnedIsRegistered
<1>9. ASSUME NEW j \in Importer, Persist(j) PROVE WholeInv'
  <2>1. disk[job[j].commit] = "whole" /\ job[j].commit \in Commit
    BY <1>9, <1>c, <1>d DEF Persist, At, PromotedIsWhole, WorkHasCommit
  <2>2. QED
    BY <1>9, <1>c, <1>d, <2>1 DEF Persist, At, JobState, TornInProgress, PromotedIsWhole,
       RegisteredIsWhole, CurrentIsRegistered, PinnedIsRegistered
<1>10. ASSUME NEW j \in Deleter, DeleteRows(j) PROVE WholeInv'
  <2>1. TornInProgress' /\ PromotedIsWhole'
    BY <1>10, <1>c, <1>d DEF DeleteRows, At, JobState, TornInProgress, PromotedIsWhole
  <2>2. \A k \in Reader : reader'[k].deleted
    BY <1>10, <1>d DEF DeleteRows, ReaderState
  <2>3. QED
    BY <1>10, <2>1, <2>2 DEF DeleteRows, RegisteredIsWhole, CurrentIsRegistered, PinnedIsRegistered
<1>11. ASSUME NEW j \in Job, NEW c \in Commit, RemoveBegins(j, c) PROVE WholeInv'
  <2>1. /\ Working(j) /\ job[j].pc = "removing" /\ c \notin row
        /\ \A i \in Job \ {j} : ~Working(i)
    BY <1>11, OneWorker DEF RemoveBegins, At, Working, RemovesUnregistered, LockInv
  <2>2. \A i \in Job : job[i].pc \notin {"tearing", "promoted"}
    BY <2>1 DEF Working
  <2>3. \A b \in Commit : disk[b] \notin Torn
    BY <2>2 DEF TornInProgress
  <2>4. QED
    BY <1>11, <1>d, <2>1, <2>2, <2>3 DEF RemoveBegins, JobState, TornInProgress, PromotedIsWhole,
       RegisteredIsWhole, CurrentIsRegistered, PinnedIsRegistered
<1>12. ASSUME NEW j \in Job, RemoveEnds(j) PROVE WholeInv'
  <2> DEFINE c == job[j].commit
             next == [job[j] EXCEPT !.pc = "removing", !.left = job[j].left \ {c}]
  <2>1. /\ Working(j) /\ job[j].pc = "tearing" /\ c \notin row
        /\ \A i \in Job \ {j} : ~Working(i)
    BY <1>12, OneWorker DEF RemoveEnds, At, Working, RemovesUnregistered, LockInv
  <2>2. \A i \in Job \ {j} : job[i].pc \notin {"tearing", "promoted"}
    BY <2>1 DEF Working
  <2>3. \A b \in Commit \ {c} : disk[b] \notin Torn
    BY <2>2 DEF TornInProgress
  <2>4. /\ \A i \in Job : job'[i] = IF i = j THEN next ELSE job[i]
        /\ next.pc = "removing" /\ UNCHANGED <<row, current, reader>>
        /\ disk' = [disk EXCEPT ![c] = "none"]
    BY <1>12, <1>d DEF RemoveEnds, JobState
  <2> HIDE DEF c, next
  <2>5. QED
    BY <1>d, <2>1, <2>2, <2>3, <2>4 DEF TornInProgress, PromotedIsWhole, Torn,
       RegisteredIsWhole, CurrentIsRegistered, PinnedIsRegistered
<1>13. ASSUME NEW k \in Reader, ReadStep(k) PROVE WholeInv'
  <2>1. UNCHANGED <<disk, row, current, job>>
    BY <1>13 DEF ReadStep, Pin, ReadRow, ReadSource, Leave
  <2>2. PinnedIsRegistered'
    <3>1. CASE Pin(k)
      BY <1>d, <2>1, <3>1 DEF Pin, Away, PinnedIsRegistered, CurrentIsRegistered
    <3>2. CASE ReadRow(k)
      BY <1>d, <2>1, <3>2 DEF ReadRow, PinnedIsRegistered, ReaderState
    <3>3. CASE ReadSource(k)
      BY <1>d, <2>1, <3>3 DEF ReadSource, PinnedIsRegistered, RegisteredIsWhole, ReaderState
    <3>4. CASE Leave(k)
      BY <1>d, <2>1, <3>4 DEF Leave, Away, PinnedIsRegistered
    <3>5. QED
      BY <1>13, <3>1, <3>2, <3>3, <3>4 DEF ReadStep
  <2>3. QED
    BY <2>1, <2>2 DEF TornInProgress, PromotedIsWhole, RegisteredIsWhole, CurrentIsRegistered
<1>14. CASE UNCHANGED vars
  BY <1>14, <1>q DEF vars
<1>15. \A j \in Job : ~PersistInDoubt(j) /\ ~RemoveFails(j)
  BY DEF PersistInDoubt, RemoveFails
<1>16. ~Crash
  BY DEF Crash
<1>17. QED
  BY <1>1, <1>2, <1>3, <1>4, <1>5, <1>6, <1>7, <1>8, <1>9, <1>10, <1>11, <1>12, <1>13, <1>14,
     <1>15, <1>16, <1>c DEF Next, ImportWork, DeleteWork, RemoveWork

LEMMA WholeCorrect ==
    ASSUME Faults = {}
    PROVE  Spec => [](TypeInv /\ LockInv /\ WholeInv)
<1>1. Init => WholeInv
  BY DEF Init, WholeInv, Idle, Away, TornInProgress, Torn, PromotedIsWhole, RegisteredIsWhole,
     CurrentIsRegistered, PinnedIsRegistered
<1>2. Spec => [](doubted = {})
  BY NoDoubts
<1>3. QED
  BY <1>1, <1>2, LockCorrect, WholeInductive, PTL DEF Spec

\* Without faults every registered snapshot has all its files, for any number
\* of overlapping imports, deletions and readers.
THEOREM SnapshotsStayWhole ==
    ASSUME Faults = {}
    PROVE  Spec => []RegisteredIsWhole
<1>1. WholeInv => RegisteredIsWhole
  BY DEF WholeInv
<1>2. QED
  BY <1>1, WholeCorrect, PTL

\* A request reads the commit it pinned until the project is deleted.
THEOREM PinsHold ==
    ASSUME Faults = {}
    PROVE  Spec => []PinnedReadsSucceed
<1>1. WholeInv => PinnedReadsSucceed
  BY DEF WholeInv, PinnedIsRegistered, PinnedReadsSucceed
<1>2. QED
  BY <1>1, WholeCorrect, PTL

\* Directories and rows together implement the abstract store: a snapshot
\* becomes readable and current in one step, and stops being readable only
\* when the whole project is deleted.
THEOREM SnapshotsImplementStore ==
    ASSUME Faults = {}
    PROVE  Spec => ImplementsStore
<1>1. Init => Store!Init
  BY DEF Init, Store!Init, Readable
<1>2. TypeInv /\ WholeInv /\ WholeInv' /\ [Next]_vars => [Store!Next]_(Store!vars)
  <2> SUFFICES ASSUME TypeInv, WholeInv, WholeInv', [Next]_vars
               PROVE  Store!Next \/ UNCHANGED Store!vars
    OBVIOUS
  <2>1. Readable = row /\ Readable' = row'
    BY DEF WholeInv, RegisteredIsWhole, Readable
  <2>2. ASSUME NEW j \in Importer, Persist(j) PROVE Store!Next
    <3>1. job[j].commit \in Commit
      BY <2>2 DEF Persist, At, TypeInv, WorkHasCommit, Job
    <3>2. Store!Publish(job[j].commit)
      BY <2>1, <2>2 DEF Persist, Store!Publish
    <3>3. QED
      BY <3>1, <3>2 DEF Store!Next
  <2>3. ASSUME NEW j \in Deleter, DeleteRows(j) PROVE Store!Next
    BY <2>1, <2>3 DEF DeleteRows, Store!Next, Store!Delete
  <2>4. CASE UNCHANGED <<row, current>>
    BY <2>1, <2>4 DEF Store!vars
  <2>5. \A j \in Job : ~PersistInDoubt(j)
    BY DEF PersistInDoubt
  <2>6. QED
    BY <2>2, <2>3, <2>4, <2>5
       DEF Next, ImportWork, DeleteWork, RemoveWork, ReadStep, ImportLock, ImportFails, Promote,
           Reuse, PersistFails, LookupFails, DeleteLookup, DeleteLock, DeleteBusy, DeleteRefused,
           RemoveBegins, RemoveEnds, RemoveFails, NothingToRemove, Unlock, Crash, Pin, ReadRow,
           ReadSource, Leave, vars, Job
<1>3. QED
  BY <1>1, <1>2, WholeCorrect, PTL DEF Spec, ImplementsStore, Store!Spec
=============================================================================
