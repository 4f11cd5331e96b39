------------------------------- MODULE MCWork -------------------------------
(* An instance of Work for TLC. *)
EXTENDS Work, TLC

Alike == Permutations(Handlers) \cup Permutations(Users) \cup Permutations(Tabs)
=============================================================================
