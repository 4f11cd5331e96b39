------------------------------ MODULE MCAccess ------------------------------
(* An instance of Access for TLC. *)
EXTENDS Access, TLC

\* The first of two users is in a group, the other in none.
OneMember == <<{1}, {}>>

Alike == Permutations(Handlers) \cup Permutations(Names)
=============================================================================
