--------------------------- MODULE MCDataHandover ---------------------------
(* Instances of DataHandover for TLC. *)
EXTENDS DataHandover, TLC

MCSymmetry ==
    Permutations(User) \cup Permutations(Token) \cup Permutations(Request)
        \cup Permutations(Resource) \cup Permutations(Share)
=============================================================================
