--------------------------- MODULE SnapshotStore ---------------------------
(***************************************************************************)
(* What Code Wiki promises of one managed project: a store of immutable    *)
(* snapshots.  A snapshot that has been published can be read until the    *)
(* whole project is deleted, and the current version moves in the same     *)
(* step that makes it readable.                                            *)
(***************************************************************************)
CONSTANTS Commit, NoCommit

VARIABLES
    available,   \* the commits whose rows and sources can be read
    current      \* the version new readers get

vars == <<available, current>>

Init == available = {} /\ current = NoCommit

Publish(c) ==
    /\ available' = available \cup {c}
    /\ current' = c

Delete ==
    /\ available' = {}
    /\ current' = NoCommit

Next == Delete \/ \E c \in Commit : Publish(c)

Spec == Init /\ [][Next]_vars
=============================================================================
