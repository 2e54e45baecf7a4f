--------------------------- MODULE EndLatchProofs ---------------------------
(***************************************************************************)
(* Proofs about EndLatch, for every set of trailed signals and whether or  *)
(* not the pty may die, the store may fail and a deadline is set.          *)
(***************************************************************************)
EXTENDS EndLatch, TLAPS

(***************************************************************************)
(* The inductive invariant.  A thread is between its lock and its unlock   *)
(* exactly when it holds the mutex; a latched row tells how far the thread *)
(* that wrote it has come; and while no row of the signal thread exists,   *)
(* the main thread has written at most one.                                *)
(***************************************************************************)
MutexInv ==
  /\ main \in {"append", "print"} <=> holder = "main"
  /\ sig \in {"append", "print", "exiting"} <=> holder = "signal"
  /\ bySignal <=> sig # "armed"
  /\ main \in {"append", "print"} => ~bySignal

MainRowInv ==
  \A i \in DOMAIN rows : rows[i] = "main" =>
    /\ main \in {"print", "leaving", "unwound"}
    /\ main = "leaving" => byMain
    /\ main = "unwound" => ~pty

SignalRowInv ==
  \A i \in DOMAIN rows : rows[i] = "signal" =>
    /\ sig \in {"print", "exiting", "dead"}
    /\ ~byMain

FlagInv ==
  /\ byMain => main = "leaving"
  /\ main = "unwound" => ~pty

OrderInv ==
  \A i, j \in DOMAIN rows :
    /\ rows[i] \in {"main", "signal"} /\ rows[j] \in {"main", "signal"} /\ i < j
    => rows[i] = "main" /\ rows[j] = "signal"

SignalWritesAfterMain ==
  sig = "append" => /\ ~byMain
                    /\ \A i \in DOMAIN rows : rows[i] # "signal"

MainWritesFirst ==
  main = "append" => \A i \in DOMAIN rows : rows[i] \notin {"main", "signal"}

RowsInv ==
  /\ MainRowInv
  /\ SignalRowInv
  /\ OrderInv
  /\ SignalWritesAfterMain
  /\ MainWritesFirst

IInv ==
  /\ TypeOK
  /\ MutexInv
  /\ FlagInv
  /\ RowsInv
-----------------------------------------------------------------------------

\* record_result keeps the rows a sequence of rows of the four writers.
LEMMA AppendedType ==
  ASSUME NEW by \in Writers, rows \in Seq(Writers), Appended(by)
  PROVE  rows' \in Seq(Writers)
BY DEF Appended

\* The rows after record_result: a row is an earlier one in its place, or the
\* writer's own at the end (supervise.rs:2381-2397).
LEMMA AppendedRows ==
  ASSUME NEW by \in Writers, rows \in Seq(Writers), Appended(by)
  PROVE  \A i \in DOMAIN rows' :
           /\ i \in Nat
           /\ \/ i \in DOMAIN rows /\ rows'[i] = rows[i]
              \/ /\ rows'[i] = by /\ i = Len(rows) + 1
                 /\ \A j \in DOMAIN rows : j < i
BY DEF Appended

\* Every step keeps the type of every variable.
LEMMA TypeStep == TypeOK /\ [Next]_vars => TypeOK'
<1> SUFFICES ASSUME TypeOK, [Next]_vars PROVE TypeOK'
  OBVIOUS
<1> USE EndLatchAssumption DEF TypeOK, MainStates, SignalStates
<1>1. /\ "main" \in Writers /\ "signal" \in Writers
      /\ "marker" \in Writers /\ "timeout" \in Writers
  BY DEF Writers
<1>0. exited' \in BOOLEAN
  BY DEF Next, MainExits, SignalExits, vars
<1>2. CASE SuperviseEnds
  BY <1>0, <1>2 DEF SuperviseEnds, latchVars
<1>3. CASE CompletionMarker
  BY <1>0, <1>1, <1>3, AppendedType DEF CompletionMarker, latchVars
<1>4. CASE RuntimeTimeout
  BY <1>0, <1>1, <1>4, AppendedType DEF RuntimeTimeout, latchVars
<1>5. CASE IdleShutdown
  BY <1>0, <1>5 DEF IdleShutdown, latchVars
<1>6. CASE MainLocks
  BY <1>0, <1>6 DEF MainLocks
<1>7. CASE MainAppends
  BY <1>0, <1>1, <1>7, AppendedType DEF MainAppends, latchVars
<1>8. CASE MainPrints
  BY <1>0, <1>8 DEF MainPrints, MainNotesItsRow
<1>9. CASE SignalLocks
  BY <1>0, <1>9 DEF SignalLocks
<1>10. CASE SignalAppends
  BY <1>0, <1>1, <1>10, AppendedType DEF SignalAppends, latchVars
<1>11. CASE SignalPrints
  BY <1>0, <1>11 DEF SignalPrints, SignalHolderAfterPrint
<1>12. CASE Kill
  BY <1>0, <1>12 DEF Kill, latchVars
<1>13. CASE PtyDies
  BY <1>0, <1>13 DEF PtyDies, latchVars
<1>14. CASE MainExits \/ SignalExits
  BY <1>0, <1>14 DEF MainExits, SignalExits, threadVars, latchVars
<1>15. CASE UNCHANGED vars
  BY <1>0, <1>15 DEF vars
<1>16. QED
  BY <1>2, <1>3, <1>4, <1>5, <1>6, <1>7, <1>8, <1>9, <1>10, <1>11, <1>12,
     <1>13, <1>14, <1>15
  DEF Next, SuperviseStep, OwnPaneGone, MainEnd, SignalEnd

LEMMA InitIInv == Init => IInv
<1> SUFFICES ASSUME Init PROVE IInv
  OBVIOUS
<1>1. TypeOK
  <2>1. rows \in Seq(Writers)
    BY DEF Init
  <2>2. QED
    BY <2>1 DEF Init, TypeOK, MainStates, SignalStates
<1>2. DOMAIN rows = {}
  BY DEF Init
<1>3. MutexInv /\ FlagInv
  BY DEF Init, MutexInv, FlagInv
<1>4. RowsInv
  BY <1>2 DEF Init, RowsInv, MainRowInv, SignalRowInv, OrderInv,
              SignalWritesAfterMain, MainWritesFirst
<1>5. QED
  BY <1>1, <1>3, <1>4 DEF IInv

\* The mutex and the flags: every step of a thread keeps what its place says.
LEMMA MutexStep ==
  ASSUME TypeOK, MutexInv, FlagInv, [Next]_vars
  PROVE  MutexInv' /\ FlagInv'
<1> USE DEF TypeOK, MutexInv, FlagInv
<1>1. CASE SuperviseEnds
  BY <1>1 DEF SuperviseEnds, latchVars
<1>2. CASE CompletionMarker
  BY <1>2 DEF CompletionMarker, latchVars
<1>3. CASE RuntimeTimeout
  BY <1>3 DEF RuntimeTimeout, latchVars
<1>4. CASE IdleShutdown
  BY <1>4 DEF IdleShutdown, latchVars
<1>5. CASE MainLocks
  BY <1>5 DEF MainLocks, MainSkips
<1>6. CASE MainAppends
  BY <1>6 DEF MainAppends, latchVars
<1>7. CASE MainPrints
  BY <1>7 DEF MainPrints, MainNotesItsRow
<1>8. CASE SignalLocks
  BY <1>8 DEF SignalLocks
<1>9. CASE SignalAppends
  BY <1>9 DEF SignalAppends, latchVars
<1>10. CASE SignalPrints
  BY <1>10 DEF SignalPrints, SignalHolderAfterPrint
<1>11. CASE Kill
  BY <1>11 DEF Kill, latchVars
<1>12. CASE PtyDies
  BY <1>12 DEF PtyDies, latchVars
<1>13. CASE MainExits \/ SignalExits
  BY <1>13 DEF MainExits, SignalExits, threadVars, latchVars
<1>14. CASE UNCHANGED vars
  BY <1>14 DEF vars
<1>15. QED
  BY <1>1, <1>2, <1>3, <1>4, <1>5, <1>6, <1>7, <1>8, <1>9, <1>10, <1>11,
     <1>12, <1>13, <1>14
  DEF Next, SuperviseStep, OwnPaneGone, MainEnd, SignalEnd

\* The rows: only the four writers of a row, and the steps that move a thread
\* past its row, can disturb what the rows say of the threads.
LEMMA RowsStep ==
  ASSUME IInv, [Next]_vars
  PROVE  RowsInv'
<1> USE DEF RowsInv, MainRowInv, SignalRowInv, OrderInv, SignalWritesAfterMain,
            MainWritesFirst
<1>0. TypeOK /\ MutexInv /\ FlagInv /\ RowsInv /\ rows \in Seq(Writers)
  BY DEF IInv, TypeOK
<1>w. /\ "main" \in Writers /\ "signal" \in Writers
      /\ "marker" \in Writers /\ "timeout" \in Writers
  BY DEF Writers
<1>1. CASE SuperviseEnds
  BY <1>0, <1>1 DEF SuperviseEnds, latchVars
<1>2. CASE CompletionMarker
  <2>1. Appended("marker")
    BY <1>2 DEF CompletionMarker
  <2>2. QED
    BY <1>0, <1>w, <1>2, <2>1, AppendedRows DEF CompletionMarker, latchVars
<1>3. CASE RuntimeTimeout
  <2>1. Appended("timeout")
    BY <1>3 DEF RuntimeTimeout
  <2>2. QED
    BY <1>0, <1>w, <1>3, <2>1, AppendedRows DEF RuntimeTimeout, latchVars
<1>4. CASE IdleShutdown
  BY <1>0, <1>4 DEF IdleShutdown, latchVars
<1>5. CASE MainLocks
  BY <1>0, <1>5 DEF MainLocks, MainSkips, MutexInv
<1>6. CASE MainAppends
  <2>1. \A i \in DOMAIN rows' :
          /\ i \in Nat
          /\ \/ i \in DOMAIN rows /\ rows'[i] = rows[i]
             \/ /\ rows'[i] = "main" /\ i = Len(rows) + 1
                /\ \A j \in DOMAIN rows : j < i
    BY <1>0, <1>w, <1>6, AppendedRows DEF MainAppends
  <2>2. MainRowInv'
    BY <1>0, <1>6, <2>1 DEF MainAppends, latchVars, MutexInv
  <2>3. SignalRowInv'
    BY <1>0, <1>6, <2>1 DEF MainAppends, latchVars, MutexInv
  <2>4. OrderInv'
    <3> SUFFICES ASSUME NEW i \in DOMAIN rows', NEW j \in DOMAIN rows', i < j,
                        rows'[i] \in {"main", "signal"},
                        rows'[j] \in {"main", "signal"}
                 PROVE  rows'[i] = "main" /\ rows'[j] = "signal"
      OBVIOUS
    <3>1. i \in DOMAIN rows /\ rows'[i] = rows[i]
      <4>1. Len(rows) \in Nat
        BY <1>0
      <4>2. QED
        BY <2>1, <4>1
    <3>2. QED
      BY <1>0, <1>6, <2>1, <3>1 DEF MainAppends, MutexInv
  <2>5. SignalWritesAfterMain' /\ MainWritesFirst'
    BY <1>0, <1>6, <2>1 DEF MainAppends, latchVars, MutexInv
  <2>6. QED
    BY <2>2, <2>3, <2>4, <2>5
<1>7. CASE MainPrints
  BY <1>0, <1>7 DEF MainPrints, MainNotesItsRow, MutexInv
<1>8. CASE SignalLocks
  BY <1>0, <1>8 DEF SignalLocks, MutexInv
<1>9. CASE SignalAppends
  <2>1. \A i \in DOMAIN rows' :
          /\ i \in Nat
          /\ \/ i \in DOMAIN rows /\ rows'[i] = rows[i]
             \/ /\ rows'[i] = "signal" /\ i = Len(rows) + 1
                /\ \A j \in DOMAIN rows : j < i
    BY <1>0, <1>w, <1>9, AppendedRows DEF SignalAppends
  <2>2. MainRowInv'
    BY <1>0, <1>9, <2>1 DEF SignalAppends, latchVars, MutexInv
  <2>3. SignalRowInv'
    BY <1>0, <1>9, <2>1 DEF SignalAppends, latchVars, MutexInv
  <2>4. OrderInv'
    <3> SUFFICES ASSUME NEW i \in DOMAIN rows', NEW j \in DOMAIN rows', i < j,
                        rows'[i] \in {"main", "signal"},
                        rows'[j] \in {"main", "signal"}
                 PROVE  rows'[i] = "main" /\ rows'[j] = "signal"
      OBVIOUS
    <3>1. i \in DOMAIN rows /\ rows'[i] = rows[i]
      <4>1. Len(rows) \in Nat
        BY <1>0
      <4>2. QED
        BY <2>1, <4>1
    <3>2. QED
      BY <1>0, <1>9, <2>1, <3>1 DEF SignalAppends, MutexInv
  <2>5. SignalWritesAfterMain' /\ MainWritesFirst'
    BY <1>0, <1>9, <2>1 DEF SignalAppends, latchVars, MutexInv
  <2>6. QED
    BY <2>2, <2>3, <2>4, <2>5
<1>10. CASE SignalPrints
  BY <1>0, <1>10 DEF SignalPrints, SignalHolderAfterPrint
<1>11. CASE Kill
  BY <1>0, <1>11 DEF Kill, latchVars
<1>12. CASE PtyDies
  BY <1>0, <1>12 DEF PtyDies, latchVars, FlagInv
<1>13. CASE MainExits \/ SignalExits
  BY <1>0, <1>13 DEF MainExits, SignalExits, threadVars, latchVars
<1>14. CASE UNCHANGED vars
  BY <1>0, <1>14 DEF vars
<1>15. QED
  BY <1>1, <1>2, <1>3, <1>4, <1>5, <1>6, <1>7, <1>8, <1>9, <1>10, <1>11,
     <1>12, <1>13, <1>14
  DEF Next, SuperviseStep, OwnPaneGone, MainEnd, SignalEnd

LEMMA StepIInv == IInv /\ [Next]_vars => IInv'
BY TypeStep, MutexStep, RowsStep DEF IInv

LEMMA Invariant == Spec => []IInv
BY InitIInv, StepIInv, PTL DEF Spec

\* Every variable keeps its shape, a poisoned mutex is never left behind.
THEOREM TypeCorrect == Spec => []TypeOK
BY Invariant, PTL DEF IInv

\* A second latched row needs the one gap of the latch: the main thread's
\* print into a dead pty between its row and its flag (supervise.rs:2381-2391).
THEOREM LatchGap == Spec => []SecondRowNeedsDeadPrint
<1>1. IInv => SecondRowNeedsDeadPrint
  BY DEF IInv, RowsInv, TypeOK, MutexInv, MainRowInv, SignalRowInv, OrderInv,
         MainStates, SecondRowNeedsDeadPrint, LatchRowAt
<1>2. QED
  BY <1>1, Invariant, PTL

\* While the pane's pty lives the latch keeps its promise: one latched
\* row, however the threads interleave (_1_end_latch.rs:7).
THEOREM LatchHolds == Spec => []OneLatchRow
<1>1. IInv => OneLatchRow
  <2> SUFFICES ASSUME IInv, pty,
                      NEW i \in LatchRowAt, NEW j \in LatchRowAt, i # j
               PROVE  FALSE
    BY DEF OneLatchRow
  <2>1. i < j \/ j < i
    BY DEF IInv, TypeOK, LatchRowAt
  <2>2. QED
    BY <2>1 DEF IInv, RowsInv, MutexInv, FlagInv, MainRowInv, SignalRowInv,
                OrderInv, TypeOK, MainStates, LatchRowAt
<1>2. QED
  BY <1>1, Invariant, PTL

\* Once the signal thread has the latch the main thread appends no latched row
\* any more (_1_end_latch.rs:26-28).
THEOREM MainSilent == Spec => MainSilentAfterSignal
<1> DEFINE Silent == bySignal /\ rows' # rows => rows'[Len(rows')] # "main"
<1>1. ASSUME IInv, [Next]_vars PROVE Silent
  <2> USE <1>1 DEF IInv, TypeOK
  <2>1. CASE CompletionMarker
    BY <2>1 DEF CompletionMarker, Appended
  <2>2. CASE RuntimeTimeout
    BY <2>2 DEF RuntimeTimeout, Appended
  <2>3. CASE MainAppends
    BY <2>3 DEF MainAppends, MutexInv
  <2>4. CASE SignalAppends
    BY <2>4 DEF SignalAppends, Appended
  <2>5. CASE UNCHANGED rows
    BY <2>5
  <2>6. QED
    BY <2>1, <2>2, <2>3, <2>4, <2>5
    DEF Next, SuperviseStep, SuperviseEnds, OwnPaneGone, IdleShutdown, MainEnd,
        MainLocks, MainPrints, SignalEnd, SignalLocks, SignalPrints, Kill,
        PtyDies, MainExits, SignalExits, vars
<1>2. IInv /\ [Next]_vars => [Silent]_vars
  BY <1>1
<1>3. QED
  BY <1>2, Invariant, PTL DEF Spec, MainSilentAfterSignal

(***************************************************************************)
(* Where a thread has come to in its end, there is a row, as long as the   *)
(* store takes what it is given.                                           *)
(***************************************************************************)
RowLeft ==
  \/ rows # <<>>
  \/ /\ ~marked /\ ~exited
     /\ main \notin {"print", "leaving", "unwound"}
     /\ sig \notin {"print", "exiting", "dead"}

LEMMA RowLeftStep ==
  ASSUME IInv, RowLeft, [Next]_vars, ~StoreCanFail
  PROVE  RowLeft'
<1>0. TypeOK /\ MutexInv /\ FlagInv /\ rows \in Seq(Writers)
  BY DEF IInv, TypeOK
<1>1. ASSUME NEW by \in Writers, Appended(by) PROVE rows' # <<>>
  BY <1>0, <1>1 DEF Appended
<1>w. /\ "main" \in Writers /\ "signal" \in Writers
      /\ "marker" \in Writers /\ "timeout" \in Writers
  BY DEF Writers
<1> USE DEF RowLeft
<1>2. CASE CompletionMarker \/ RuntimeTimeout \/ MainAppends \/ SignalAppends
  BY <1>1, <1>w, <1>2 DEF CompletionMarker, RuntimeTimeout, MainAppends, SignalAppends
\* main finds the latch free after the signal thread: it died of its print.
<1>3. CASE MainLocks /\ UNCHANGED exited
  BY <1>0, <1>3 DEF MainLocks, MainSkips, MutexInv, TypeOK, SignalStates
<1>4. CASE (SuperviseEnds \/ IdleShutdown) /\ UNCHANGED exited
  BY <1>4 DEF SuperviseEnds, IdleShutdown, MayRetire, latchVars
<1>5. CASE (MainPrints \/ SignalPrints) /\ UNCHANGED exited
  BY <1>5 DEF MainPrints, SignalPrints
<1>6. CASE SignalLocks /\ UNCHANGED exited
  BY <1>0, <1>6 DEF SignalLocks, FlagInv
<1>7. CASE (Kill \/ PtyDies) /\ UNCHANGED exited
  BY <1>7 DEF Kill, PtyDies, latchVars
<1>8. CASE MainExits \/ SignalExits
  BY <1>8 DEF MainExits, SignalExits
<1>9. CASE UNCHANGED vars
  BY <1>9 DEF vars
<1>10. QED
  BY <1>2, <1>3, <1>4, <1>5, <1>6, <1>7, <1>8, <1>9
  DEF Next, SuperviseStep, OwnPaneGone, MainEnd, SignalEnd

\* run's three ends and the signal thread's: as long as the store takes rows, a
\* process that is gone has left one, whichever thread ended it and wherever a
\* print into a dead pty stopped the other.
THEOREM EndLeavesARow ==
  ASSUME ~StoreCanFail
  PROVE  Spec => []EndedLaneLeavesARow
<1>1. Init => RowLeft
  BY DEF Init, RowLeft
<1>2. IInv /\ RowLeft /\ [Next]_vars => RowLeft'
  BY RowLeftStep
<1>3. RowLeft => EndedLaneLeavesARow
  BY DEF RowLeft, EndedLaneLeavesARow
<1>4. QED
  BY <1>1, <1>2, <1>3, Invariant, PTL DEF Spec
=============================================================================
