--------------------------- MODULE MCAuthSessions ---------------------------
(* Instances of AuthSessions for TLC. *)
EXTENDS AuthSessions, TLC

MCSymmetry ==
    Permutations(User) \cup Permutations(Session) \cup Permutations(Login) \cup Permutations(Request)
=============================================================================
