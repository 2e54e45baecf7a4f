----------------------------- MODULE TurnLedger -----------------------------
(***************************************************************************)
(* What a lane channel promises the supervisor about turns (boop-acp:      *)
(* channel.rs): one turn at a time, and a verdict is the verdict of the    *)
(* turn that is open, given once.                                          *)
(***************************************************************************)
EXTENDS Naturals, Sequences

CONSTANTS Verdicts

VARIABLES
  turn,    \* turns started so far; the last one has this number
  open,    \* whether it still waits for its verdict
  judged   \* the verdicts read, in order, each with its turn

vars == <<turn, open, judged>>

Init == turn = 0 /\ open = FALSE /\ judged = <<>>

Start ==
  /\ ~open
  /\ turn' = turn + 1 /\ open' = TRUE
  /\ UNCHANGED judged

Judge ==
  /\ open
  /\ \E v \in Verdicts :
       judged' = Append(judged, [turn |-> turn, verdict |-> v])
  /\ open' = FALSE
  /\ UNCHANGED turn

\* The supervisor leaves without one.
Abandon ==
  /\ open
  /\ open' = FALSE
  /\ UNCHANGED <<turn, judged>>

Next == Start \/ Judge \/ Abandon

Spec == Init /\ [][Next]_vars

=============================================================================
