----------------------------- MODULE MCEndLatch -----------------------------
(* TLC instance of EndLatch: SIGHUP and SIGTERM. *)
EXTENDS EndLatch

MCSignals  == {1, 15}
=============================================================================
