--------------------------- MODULE MCDoorDelivery ---------------------------
(* TLC instance of DoorDelivery: two interchangeable pushers, one reader,    *)
(* two rows that say the same, differ, or begin with lane progress.          *)
EXTENDS DoorDelivery, TLC

CONSTANTS p1, p2, r1

MCRows == 1..2
MCTraffic == {[body |-> <<"a", "b">>, allowance |-> 1],
              [body |-> <<"a", "a">>, allowance |-> 2],
              [body |-> <<"progress", "a">>, allowance |-> 1]}
MCSymmetry == Permutations({p1, p2})
=============================================================================
