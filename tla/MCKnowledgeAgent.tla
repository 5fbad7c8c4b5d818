-------------------------- MODULE MCKnowledgeAgent --------------------------
(* Instances of KnowledgeAgent for TLC. *)
EXTENDS KnowledgeAgent
=============================================================================
