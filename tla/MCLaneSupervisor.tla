-------------------------- MODULE MCLaneSupervisor --------------------------
(* TLC instance of LaneSupervisor: at most one hail of each kind. *)
EXTENDS LaneSupervisor

CONSTANTS note, cancel, guard, reminder
=============================================================================
