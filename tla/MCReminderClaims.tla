-------------------------- MODULE MCReminderClaims --------------------------
(* TLC instance of ReminderClaims: a reminder and its replacement. *)
EXTENDS ReminderClaims
=============================================================================
