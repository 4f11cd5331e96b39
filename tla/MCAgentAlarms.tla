--------------------------- MODULE MCAgentAlarms ---------------------------
(* Instances of AgentAlarms for TLC. *)
EXTENDS AgentAlarms, TLC

EditorSymmetry == Permutations(Editors)
=============================================================================
