-------------------------- MODULE MCCodeSnapshots --------------------------
(* Instances of CodeSnapshots for TLC. *)
EXTENDS CodeSnapshots, TLC

MCSymmetry ==
    Permutations(Commit) \cup Permutations(Importer)
        \cup Permutations(Deleter) \cup Permutations(Reader)
=============================================================================
