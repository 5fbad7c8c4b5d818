------------------------- MODULE MCDocumentRevisions -------------------------
(* Instances of DocumentRevisions for TLC. *)
EXTENDS DocumentRevisions, TLC

MCSymmetry ==
    Permutations(Doc) \cup Permutations(Path) \cup Permutations(Content \ Blank)
        \cup Permutations(Upload) \cup Permutations(Deletion)
=============================================================================
