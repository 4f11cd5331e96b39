-------------------------- MODULE MCStarterAgents --------------------------
(* Instances of StarterAgents for TLC. *)
EXTENDS StarterAgents, TLC

StarterSymmetry ==
  Permutations(Profiles) \cup Permutations(Autos)
=============================================================================
