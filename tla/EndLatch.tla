------------------------------ MODULE EndLatch ------------------------------
(***************************************************************************)
(* How one lane supervisor process ends (boop-proc: supervise::run,        *)
(* _1_end_latch.rs).  Two threads can write the lane's terminal result     *)
(* row: the main thread when supervise returns or panics, and the signal   *)
(* thread when tmux or a user kills the pane.  A mutex-guarded pair of     *)
(* flags, the latch, is meant to let only the first of them write.         *)
(*                                                                         *)
(* Two result rows are written outside the latch: the completion marker    *)
(* of a finished brief and the row of a job that overran its deadline.     *)
(*                                                                         *)
(* record_result appends its row, then prints one line.  A print into the  *)
(* dead pty of a killed pane panics, and the panic unwinds through the     *)
(* latch's guard; main_end recovers a poisoned lock with into_inner.       *)
(***************************************************************************)
EXTENDS Naturals, Sequences

CONSTANTS
  SignalNumbers, \* TRAILED_SIGNALS
  Hangup,        \* the signal a dying tmux server sends
  PtyCanDie,     \* whether the pane's pty may die under the process
  StoreCanFail,  \* whether appending a row to the mailbox may fail
  HasDeadline    \* whether the lane runs under --timeout

ASSUME EndLatchAssumption ==
  /\ SignalNumbers \subseteq Nat \ {0}
  /\ Hangup \in SignalNumbers
  /\ PtyCanDie \in BOOLEAN
  /\ StoreCanFail \in BOOLEAN
  /\ HasDeadline \in BOOLEAN

VARIABLES
  main,      \* where the main thread is
  sig,       \* where the signal thread is
  raised,    \* the first trailed signal raised, 0 while there is none
  holder,    \* the thread holding the latch's mutex
  byMain, bySignal, \* the two flags the mutex guards
  marked,    \* supervise's local result_written
  rows,      \* the result rows this process appended, oldest first
  pty,       \* whether the pane's pty still takes output
  exited     \* whether the process is gone

threadVars == <<main, sig, raised>>
latchVars  == <<holder, byMain, bySignal>>
vars       == <<main, sig, raised, holder, byMain, bySignal,
                marked, rows, pty, exited>>

MainStates   == {"supervising", "latch", "append", "print", "leaving",
                 "unwound"}
SignalStates == {"armed", "append", "print", "exiting", "dead"}
Writers      == {"main", "signal", "marker", "timeout"}

(***************************************************************************)
(* record_result, seen from outside: the row lands unless the store fails. *)
(***************************************************************************)
Appended(by) ==
  \/ rows' = Append(rows, by)
  \/ StoreCanFail /\ UNCHANGED rows

Init ==
  /\ main = "supervising"
  /\ sig = "armed" /\ raised = 0
  /\ holder = "none" /\ byMain = FALSE /\ bySignal = FALSE
  /\ marked = FALSE
  /\ rows = <<>>
  /\ pty = TRUE
  /\ exited = FALSE

-----------------------------------------------------------------------------
(* The main thread inside supervise. *)

\* supervise returns a code or an error, or a panic unwinds out of it.
SuperviseEnds ==
  /\ main = "supervising"
  /\ main' = "latch"
  /\ UNCHANGED <<sig, raised, latchVars, marked, rows, pty>>

\* A dead pane never goes unnoticed: the own-pane probe or the next print.
OwnPaneGone == ~pty /\ SuperviseEnds

\* The brief is done: a result row at once, outside the latch.  Its print may
\* panic, which run catches, before supervise noted that it wrote the row.
CompletionMarker ==
  /\ main = "supervising"
  /\ ~marked
  /\ Appended("marker")
  /\ IF pty THEN marked' = TRUE /\ UNCHANGED main
            ELSE main' = "latch" /\ UNCHANGED marked
  /\ UNCHANGED <<sig, raised, latchVars, pty>>

\* The deadline passed: the row is written here, and run writes its own after.
RuntimeTimeout ==
  /\ main = "supervising"
  /\ HasDeadline
  /\ Appended("timeout")
  /\ main' = "latch"
  /\ UNCHANGED <<sig, raised, latchVars, marked, pty>>

\* Only a lane that reported its brief done retires when idle.
RetireUnreported == TRUE
MayRetire        == marked

\* run writes no further row for a retired lane.
IdleShutdown ==
  /\ main = "supervising"
  /\ MayRetire
  /\ main' = "leaving"
  /\ UNCHANGED <<sig, raised, latchVars, marked, rows, pty>>

-----------------------------------------------------------------------------
(* main_end *)

\* The main thread adds nothing once the signal thread began the exit.
MainNeverSkips == FALSE
MainSkips      == bySignal

MainLocks ==
  /\ main = "latch"
  /\ holder = "none"
  /\ IF MainSkips
     THEN main' = "leaving" /\ UNCHANGED holder
     ELSE main' = "append" /\ holder' = "main"
  /\ UNCHANGED <<sig, raised, byMain, bySignal, marked, rows, pty>>

MainAppends ==
  /\ main = "append"
  /\ Appended("main")
  /\ main' = "print"
  /\ UNCHANGED <<sig, raised, latchVars, marked, pty>>

\* The flag is set only once the whole of record_result returned.
MainForgetsItsRow == UNCHANGED byMain
MainNotesItsRow   == byMain' = pty

\* Returning or unwinding, the guard's drop gives the mutex back.
MainPrints ==
  /\ main = "print"
  /\ MainNotesItsRow
  /\ holder' = "none"
  /\ main' = IF pty THEN "leaving" ELSE "unwound"
  /\ UNCHANGED <<sig, raised, bySignal, marked, rows, pty>>

\* The process returns from main, whatever its other thread is doing.
MainExits ==
  /\ main \in {"leaving", "unwound"}
  /\ exited' = TRUE
  /\ UNCHANGED <<threadVars, latchVars, marked, rows, pty>>

-----------------------------------------------------------------------------
(* signal_end *)

SignalLocks ==
  /\ sig = "armed" /\ raised # 0
  /\ holder = "none"
  /\ holder' = "signal"
  /\ bySignal' = TRUE
  /\ sig' = IF byMain THEN "exiting" ELSE "append"
  /\ UNCHANGED <<main, raised, byMain, marked, rows, pty>>

SignalAppends ==
  /\ sig = "append"
  /\ Appended("signal")
  /\ sig' = "print"
  /\ UNCHANGED <<main, raised, latchVars, marked, pty>>

\* A panic kills the signal thread before its _exit; its guard's drop gives
\* the mutex back.
SignalKeepsLatch       == holder
SignalPoisonsLatch     == IF pty THEN holder ELSE "poisoned"
SignalHolderAfterPrint == IF pty THEN holder ELSE "none"

SignalPrints ==
  /\ sig = "print"
  /\ sig' = IF pty THEN "exiting" ELSE "dead"
  /\ holder' = SignalHolderAfterPrint
  /\ UNCHANGED <<main, raised, byMain, bySignal, marked, rows, pty>>

\* _exit, with the latch still held.
SignalExits ==
  /\ sig = "exiting"
  /\ exited' = TRUE
  /\ UNCHANGED <<threadVars, latchVars, marked, rows, pty>>

-----------------------------------------------------------------------------
(* The world outside the process. *)

Kill ==
  /\ raised = 0
  /\ raised' \in SignalNumbers
  /\ UNCHANGED <<main, sig, latchVars, marked, rows, pty>>

\* tmux dies: the pty goes, and a hangup is raised unless a signal came before.
PtyDies ==
  /\ PtyCanDie /\ pty
  /\ pty' = FALSE
  /\ raised' = IF raised = 0 THEN Hangup ELSE raised
  /\ UNCHANGED <<main, sig, latchVars, marked, rows>>

SuperviseStep ==
  \/ SuperviseEnds \/ OwnPaneGone \/ CompletionMarker
  \/ RuntimeTimeout \/ IdleShutdown

MainEnd   == MainLocks \/ MainAppends \/ MainPrints
SignalEnd == SignalLocks \/ SignalAppends \/ SignalPrints

Next ==
  /\ ~exited
  /\ \/ (SuperviseStep \/ MainEnd \/ SignalEnd \/ Kill \/ PtyDies)
        /\ UNCHANGED exited
     \/ MainExits
     \/ SignalExits

\* Both threads keep being scheduled.  Nothing makes supervise return, except
\* that a dead pane is always noticed.
Fairness ==
  /\ WF_vars(~exited /\ UNCHANGED exited /\ (MainEnd \/ OwnPaneGone))
  /\ WF_vars(~exited /\ MainExits)
  /\ WF_vars(~exited /\ UNCHANGED exited /\ SignalEnd)
  /\ WF_vars(~exited /\ SignalExits)

Spec     == Init /\ [][Next]_vars
FairSpec == Spec /\ Fairness

-----------------------------------------------------------------------------
(* Properties *)

\* The shape of every variable; the rows are those of the four writers.
TypeOK ==
  /\ main \in MainStates
  /\ sig \in SignalStates
  /\ raised \in SignalNumbers \cup {0}
  /\ holder \in {"none", "main", "signal"}
  /\ byMain \in BOOLEAN /\ bySignal \in BOOLEAN
  /\ marked \in BOOLEAN
  /\ rows \in Seq(Writers)
  /\ pty \in BOOLEAN
  /\ exited \in BOOLEAN

LatchRowAt == {i \in DOMAIN rows : rows[i] \in {"main", "signal"}}

\* "the main thread kept writing after the signal thread had started the
\* exit": once the signal thread has the latch, the main thread adds no
\* latched row any more (_1_end_latch.rs:21-31).
MainSilentAfterSignal ==
  [][bySignal /\ rows' # rows => rows'[Len(rows')] # "main"]_vars

\* Two latched rows need the one gap of the latch: the main thread appended
\* its row, then died printing into a dead pty before it set its flag, and
\* only then the signal thread took the latch (supervise.rs:2381-2391).
SecondRowNeedsDeadPrint ==
  \A i, j \in LatchRowAt : i < j =>
    /\ rows[i] = "main" /\ rows[j] = "signal"
    /\ main = "unwound" /\ ~pty

\* "The latch makes the first end the only end" (_1_end_latch.rs:7): as long as
\* the pane's pty lives, one latched row, however the threads interleave.
OneLatchRow == pty => \A i, j \in LatchRowAt : i = j

\* No process of a lane ends silently: its parent always has a result row.
EndedLaneLeavesARow == exited => rows # <<>>

\* A lane told to die dies: the two threads never wait for each other for
\* ever, and a thread that unwinds gives the mutex back.
SignalledProcessExits == raised # 0 ~> exited

=============================================================================
