---------------------------- MODULE MCAppConfig ----------------------------
(* Instances of AppConfig for TLC. *)
EXTENDS AppConfig

GetAndSet == {"get", "set"}
=============================================================================
