----------------------- MODULE MCWorkspaceMembership -----------------------
(* Instances of WorkspaceMembership for TLC. *)
EXTENDS WorkspaceMembership, TLC

\* Every workspace has one name, the case in which names collide.
MCSameName == [w \in Workspace |-> "team"]

MCSymmetry == Permutations(User) \cup Permutations(Request) \cup Permutations(Token)

\* No action reads overtaken or undercut but to record them, and no property of
\* MembershipRaces but TypeOK does: states that differ in these alone are one.
MCWithoutRaces == <<database, tokens, lock, req>>
=============================================================================
