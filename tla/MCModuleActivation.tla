------------------------ MODULE MCModuleActivation ------------------------
(* Instances of ModuleActivation for TLC. *)
EXTENDS ModuleActivation

ToggleAndUse == {"toggle", "use"}
===========================================================================
