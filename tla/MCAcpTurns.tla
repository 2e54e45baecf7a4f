----------------------------- MODULE MCAcpTurns -----------------------------
(* TLC instance of AcpTurns: a note, a cancel and a guard's resume. *)
EXTENDS AcpTurns

CONSTANTS note, cancel, resume
=============================================================================
