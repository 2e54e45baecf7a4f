---------------------------- MODULE MCLaneRevive ----------------------------
(* TLC instance of LaneRevive: one or two senders, two rows. *)
EXTENDS LaneRevive

CONSTANTS s1, s2, m1, m2, m3
=============================================================================
