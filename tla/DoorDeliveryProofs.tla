------------------------- MODULE DoorDeliveryProofs -------------------------
(***************************************************************************)
(* Proofs about DoorDelivery, for any number of rows, pushers and readers. *)
(* Every one of them turns on the route's lock: an attempt that was let in *)
(* holds it until its outcome is on record, so what the attempt read of    *)
(* the history and of the window is still so when it writes them.          *)
(***************************************************************************)
EXTENDS DoorDelivery, FiniteSetTheorems, TLAPS

Inside == {"admitted", "calling", "record", "stamp"}

\* The lock is the attempt's, and what the door is offered is not on record.
LockInv ==
  \A p \in Pushers :
    /\ pc[p] \in Inside => lock = p
    /\ pc[p] = "calling" => "accepted" \notin history[row[p]]

\* A body that counts as taken was put across, or printed.
CarryInv ==
  /\ StampedRowWasCarried
  /\ \A m \in Rows : "accepted" \in history[m] => m \in inFront
  /\ \A p \in Pushers :
       /\ pc[p] = "record" /\ Carried(rung[p]) => row[p] \in inFront
       /\ pc[p] = "stamp" => row[p] \in inFront
  /\ \A r \in Readers, m \in Rows :
       rpc[r] = "ack" /\ Oldest(m, batch[r]) => m \in inFront

\* The window has room for row m.
Room(m) ==
  /\ Cardinality(recent) < allowance
  /\ \A n \in recent : body[n] # body[m]

\* ... which it still has when the push that read so is recorded.
WindowInv ==
  /\ IsFiniteSet(recent)
  /\ WindowKeepsItsRails
  /\ \A p \in Pushers :
       \/ pc[p] = "calling"
       \/ pc[p] = "record" /\ rung[p] = "door"
       => Room(row[p])
-----------------------------------------------------------------------------

\* Every step keeps the type of every variable.
LEMMA TypeStep == TypeOK /\ [Next]_vars => TypeOK'
<1> SUFFICES ASSUME TypeOK, [Next]_vars PROVE TypeOK'
  OBVIOUS
<1> USE DoorAssumption
    DEF DoorAssumption, TypeOK, route, mailbox, ledger, pusher, reader, Steps,
        Rungs, Outcomes, ReaderSteps
<1>1. ASSUME NEW p \in Pushers, NEW m \in Rows, Append(p, m)
      PROVE  TypeOK'
  BY <1>1 DEF Append, GoTo, NoRead
<1>2. ASSUME NEW p \in Pushers, StartPass(p)
      PROVE  TypeOK'
  BY <1>2 DEF StartPass, Held, GoTo, NoRead
<1>3. ASSUME NEW p \in Pushers, NEW m \in Rows, Enter(p, m)
      PROVE  TypeOK'
  BY <1>3 DEF Enter, GoTo, NoRead
<1>4. ASSUME NEW p \in Pushers, NEW m \in Rows, TurnedAway(p, m)
      PROVE  TypeOK'
  BY <1>4 DEF TurnedAway, Continue, GoTo, NoRead
<1>5. ASSUME NEW p \in Pushers, AlreadyAccepted(p)
      PROVE  TypeOK'
  BY <1>5 DEF AlreadyAccepted, Release, Continue, GoTo, NoRead
<1>6. ASSUME NEW p \in Pushers, AlreadyPasted(p)
      PROVE  TypeOK'
  BY <1>6 DEF AlreadyPasted, Release, Continue, GoTo, NoRead
<1>7. ASSUME NEW p \in Pushers, LandQuiet(p)
      PROVE  TypeOK'
  BY <1>7 DEF LandQuiet, MayLand, Lands, GoTo, NoRead
<1>8. ASSUME NEW p \in Pushers, LandInPane(p)
      PROVE  TypeOK'
  <2>1. ASSUME NEW on \in Rungs \ {"none"}, Lands(p, on),
               inFront' \in {inFront, inFront \cup {row[p]}},
               pc[p] = "admitted"
        PROVE  TypeOK'
    BY <1>8, <2>1 DEF LandInPane, Lands, GoTo, NoRead
  <2> QED
    BY <1>8, <2>1 DEF LandInPane, MayLand, Below
<1>9. ASSUME NEW p \in Pushers, LandNoSession(p)
      PROVE  TypeOK'
  BY <1>9 DEF LandNoSession, MayLand, Lands, Below, GoTo, NoRead
<1>10. ASSUME NEW p \in Pushers, LandCool(p)
      PROVE  TypeOK'
  BY <1>10 DEF LandCool, MayLand, Lands, GoTo, NoRead
<1>11. ASSUME NEW p \in Pushers, PassGate(p)
      PROVE  TypeOK'
  BY <1>11 DEF PassGate, MayLand, Accepted, GoTo, NoRead
<1>12. ASSUME NEW p \in Pushers, DoorTakes(p)
      PROVE  TypeOK'
  BY <1>12 DEF DoorTakes, Lands, GoTo, NoRead
<1>13. ASSUME NEW p \in Pushers, DoorDeclines(p)
      PROVE  TypeOK'
  BY <1>13 DEF DoorDeclines, Lands, Below, GoTo, NoRead
<1>14. ASSUME NEW p \in Pushers, DoorFails(p)
      PROVE  TypeOK'
  BY <1>14 DEF DoorFails, Lands, Below, GoTo, NoRead
<1>15. ASSUME NEW p \in Pushers, RecordCarried(p)
      PROVE  TypeOK'
  BY <1>15 DEF RecordCarried, Recorded, Adds, Outcome, GoTo, NoRead
<1>16. ASSUME NEW p \in Pushers, RecordAside(p)
      PROVE  TypeOK'
  BY <1>16 DEF RecordAside, Recorded, Adds, Outcome, Release, Continue, GoTo,
               NoRead
<1>17. ASSUME NEW p \in Pushers, RecordLast(p)
      PROVE  TypeOK'
  BY <1>17 DEF RecordLast, Recorded, Adds, Outcome, Release, Continue, GoTo,
               NoRead
<1>18. ASSUME NEW p \in Pushers, RecordDead(p)
      PROVE  TypeOK'
  BY <1>18 DEF RecordDead, Recorded, Adds, Outcome, Release, GoTo, NoRead
<1>19. ASSUME NEW p \in Pushers, Stamp(p)
      PROVE  TypeOK'
  BY <1>19 DEF Stamp, Release, Continue, GoTo, NoRead
<1>20. ASSUME NEW p \in Pushers, Errs(p)
      PROVE  TypeOK'
  <2>1. PICK rows \in SUBSET todo[p] :
          /\ Continue(p, rows) /\ lock' \in {lock, Nobody}
          /\ UNCHANGED <<sent, body, acked, ledger, inFront>> /\ NoRead
    <3>1. {m \in todo[p] : ~Oldest(m, todo[p])} \in SUBSET todo[p]
      OBVIOUS
    <3> QED
      BY <1>20, <3>1 DEF Errs, Release
  <2> QED
    BY <2>1 DEF Continue, GoTo, NoRead
<1>21. ASSUME NEW p \in Pushers, NEW m \in Rows, RetireRow(p, m)
      PROVE  TypeOK'
  BY <1>21 DEF RetireRow, Adds, Oldest, GoTo, NoRead
<1>22. ASSUME NEW p \in Pushers, Crash(p)
      PROVE  TypeOK'
  BY <1>22 DEF Crash, Continue, GoTo, NoRead
<1>23. ASSUME NEW r \in Readers, Wait(r)
      PROVE  TypeOK'
  BY <1>23 DEF Wait, Unread, ReaderGoes, NoPush
<1>24. ASSUME NEW r \in Readers, NEW m \in Rows, PrintRow(r, m)
      PROVE  TypeOK'
  BY <1>24 DEF PrintRow, Oldest, ReaderGoes, NoPush
<1>25. ASSUME NEW r \in Readers, NEW m \in Rows, AckRow(r, m)
      PROVE  TypeOK'
  BY <1>25 DEF AckRow, Oldest, ReaderGoes, NoPush
<1>26. ASSUME NEW r \in Readers, ReaderCrash(r)
      PROVE  TypeOK'
  BY <1>26 DEF ReaderCrash, ReaderGoes, NoPush
<1>27. CASE CoolOffEnds
  BY <1>27 DEF CoolOffEnds, NoActor
<1>28. ASSUME NEW m \in Rows, LeavesWindow(m)
      PROVE  TypeOK'
  BY <1>28 DEF LeavesWindow, NoActor
<1>29. CASE UNCHANGED vars
  BY <1>29 DEF vars
<1> QED
  BY <1>1, <1>2, <1>3, <1>4, <1>5, <1>6, <1>7, <1>8, <1>9, <1>10, <1>11,
     <1>12, <1>13, <1>14, <1>15, <1>16, <1>17, <1>18, <1>19, <1>20, <1>21,
     <1>22, <1>23, <1>24, <1>25, <1>26, <1>27, <1>28, <1>29
  DEF Next, Attempt, Read

\* The program starts with its types.
LEMMA InitType == Init => TypeOK
<1> SUFFICES ASSUME Init PROVE TypeOK
  OBVIOUS
<1>1. body \in [Rows -> Bodies] /\ allowance \in Nat
  BY DoorAssumption DEF DoorAssumption, Init
<1>2. holds \in [Rows -> 0..DeadAttempts]
  BY DoorAssumption DEF DoorAssumption, Init
<1>3. \A p \in Pushers :
        /\ pc[p] = "idle" /\ rung[p] = "none"
        /\ row[p] = NoRow /\ row[p] \notin Rows
  BY DoorAssumption DEF DoorAssumption, Init
<1>4. pc \in [Pushers -> Steps] /\ rung \in [Pushers -> Rungs]
  BY DEF Init, Steps, Rungs
<1>5. history \in [Rows -> SUBSET Outcomes]
  BY DEF Init
<1> QED
  BY <1>1, <1>2, <1>3, <1>4, <1>5 DEF Init, TypeOK, ReaderSteps

\* The variables keep their types, and an attempt its row and rung, for any
\* rows, pushers and readers (deliver.rs:469-552).
THEOREM TypeCorrect == Spec => []TypeOK
  BY InitType, TypeStep, PTL DEF Spec
-----------------------------------------------------------------------------

\* The lock keeps other attempts out until the outcome is on record.
LEMMA LockStep == TypeOK /\ LockInv /\ [Next]_vars => LockInv'
<1> SUFFICES ASSUME TypeOK, LockInv, [Next]_vars PROVE LockInv'
  OBVIOUS
<1> USE DoorAssumption
    DEF DoorAssumption, TypeOK, LockInv, Inside, LockIsFree, route, mailbox,
        ledger, pusher, reader
<1>1. ASSUME NEW p \in Pushers, NEW m \in Rows, Append(p, m)
      PROVE  LockInv'
  BY <1>1 DEF Append, GoTo, NoRead
<1>2. ASSUME NEW p \in Pushers, StartPass(p)
      PROVE  LockInv'
  BY <1>2 DEF StartPass, Held, GoTo, NoRead
<1>3. ASSUME NEW p \in Pushers, NEW m \in Rows, Enter(p, m)
      PROVE  LockInv'
  BY <1>3 DEF Enter, GoTo, NoRead
<1>4. ASSUME NEW p \in Pushers, NEW m \in Rows, TurnedAway(p, m)
      PROVE  LockInv'
  BY <1>4 DEF TurnedAway, Continue, GoTo, NoRead
<1>5. ASSUME NEW p \in Pushers, AlreadyAccepted(p)
      PROVE  LockInv'
  BY <1>5 DEF AlreadyAccepted, Release, Continue, GoTo, NoRead
<1>6. ASSUME NEW p \in Pushers, AlreadyPasted(p)
      PROVE  LockInv'
  BY <1>6 DEF AlreadyPasted, Release, Continue, GoTo, NoRead
<1>7. ASSUME NEW p \in Pushers, LandQuiet(p)
      PROVE  LockInv'
  BY <1>7 DEF LandQuiet, MayLand, Lands, GoTo, NoRead
<1>8. ASSUME NEW p \in Pushers, LandInPane(p)
      PROVE  LockInv'
  BY <1>8 DEF LandInPane, MayLand, Lands, Below, GoTo, NoRead
<1>9. ASSUME NEW p \in Pushers, LandNoSession(p)
      PROVE  LockInv'
  BY <1>9 DEF LandNoSession, MayLand, Lands, Below, GoTo, NoRead
<1>10. ASSUME NEW p \in Pushers, LandCool(p)
      PROVE  LockInv'
  BY <1>10 DEF LandCool, MayLand, Lands, GoTo, NoRead
<1>11. ASSUME NEW p \in Pushers, PassGate(p)
      PROVE  LockInv'
  BY <1>11 DEF PassGate, MayLand, Accepted, GoTo, NoRead
<1>12. ASSUME NEW p \in Pushers, DoorTakes(p)
      PROVE  LockInv'
  BY <1>12 DEF DoorTakes, Lands, GoTo, NoRead
<1>13. ASSUME NEW p \in Pushers, DoorDeclines(p)
      PROVE  LockInv'
  BY <1>13 DEF DoorDeclines, Lands, Below, GoTo, NoRead
<1>14. ASSUME NEW p \in Pushers, DoorFails(p)
      PROVE  LockInv'
  BY <1>14 DEF DoorFails, Lands, Below, GoTo, NoRead
<1>15. ASSUME NEW p \in Pushers, RecordCarried(p)
      PROVE  LockInv'
  BY <1>15 DEF RecordCarried, Recorded, Adds, Outcome, GoTo, NoRead
<1>16. ASSUME NEW p \in Pushers, RecordAside(p)
      PROVE  LockInv'
  BY <1>16 DEF RecordAside, Recorded, Adds, Outcome, Release, Continue, GoTo,
               NoRead
<1>17. ASSUME NEW p \in Pushers, RecordLast(p)
      PROVE  LockInv'
  BY <1>17 DEF RecordLast, Recorded, Adds, Outcome, Release, Continue, GoTo,
               NoRead
<1>18. ASSUME NEW p \in Pushers, RecordDead(p)
      PROVE  LockInv'
  BY <1>18 DEF RecordDead, Recorded, Adds, Outcome, Release, GoTo, NoRead
<1>19. ASSUME NEW p \in Pushers, Stamp(p)
      PROVE  LockInv'
  BY <1>19 DEF Stamp, Release, Continue, GoTo, NoRead
<1>20. ASSUME NEW p \in Pushers, Errs(p)
      PROVE  LockInv'
  BY <1>20 DEF Errs, Release, Continue, GoTo, NoRead
<1>21. ASSUME NEW p \in Pushers, NEW m \in Rows, RetireRow(p, m)
      PROVE  LockInv'
  BY <1>21 DEF RetireRow, Adds, Oldest, GoTo, NoRead
<1>22. ASSUME NEW p \in Pushers, Crash(p)
      PROVE  LockInv'
  BY <1>22 DEF Crash, Continue, GoTo, NoRead
<1>23. ASSUME NEW r \in Readers, Wait(r)
      PROVE  LockInv'
  BY <1>23 DEF Wait, Unread, ReaderGoes, NoPush
<1>24. ASSUME NEW r \in Readers, NEW m \in Rows, PrintRow(r, m)
      PROVE  LockInv'
  BY <1>24 DEF PrintRow, Oldest, ReaderGoes, NoPush
<1>25. ASSUME NEW r \in Readers, NEW m \in Rows, AckRow(r, m)
      PROVE  LockInv'
  BY <1>25 DEF AckRow, Oldest, ReaderGoes, NoPush
<1>26. ASSUME NEW r \in Readers, ReaderCrash(r)
      PROVE  LockInv'
  BY <1>26 DEF ReaderCrash, ReaderGoes, NoPush
<1>27. CASE CoolOffEnds
  BY <1>27 DEF CoolOffEnds, NoActor
<1>28. ASSUME NEW m \in Rows, LeavesWindow(m)
      PROVE  LockInv'
  BY <1>28 DEF LeavesWindow, NoActor
<1>29. CASE UNCHANGED vars
  BY <1>29 DEF vars
<1> QED
  BY <1>1, <1>2, <1>3, <1>4, <1>5, <1>6, <1>7, <1>8, <1>9, <1>10, <1>11,
     <1>12, <1>13, <1>14, <1>15, <1>16, <1>17, <1>18, <1>19, <1>20, <1>21,
     <1>22, <1>23, <1>24, <1>25, <1>26, <1>27, <1>28, <1>29
  DEF Next, Attempt, Read
-----------------------------------------------------------------------------

\* Bodies stay in front of the recipient, and only those are stamped.
LEMMA CarryStep == TypeOK /\ CarryInv /\ [Next]_vars => CarryInv'
<1> SUFFICES ASSUME TypeOK, CarryInv, [Next]_vars PROVE CarryInv'
  OBVIOUS
<1> USE DoorAssumption
    DEF DoorAssumption, TypeOK, CarryInv, StampedRowWasCarried, Carried,
        Oldest, route, mailbox, ledger, pusher, reader
<1>1. ASSUME NEW p \in Pushers, NEW m \in Rows, Append(p, m)
      PROVE  CarryInv'
  BY <1>1 DEF Append, GoTo, NoRead
<1>2. ASSUME NEW p \in Pushers, StartPass(p)
      PROVE  CarryInv'
  BY <1>2 DEF StartPass, Held, GoTo, NoRead
<1>3. ASSUME NEW p \in Pushers, NEW m \in Rows, Enter(p, m)
      PROVE  CarryInv'
  BY <1>3 DEF Enter, GoTo, NoRead
<1>4. ASSUME NEW p \in Pushers, NEW m \in Rows, TurnedAway(p, m)
      PROVE  CarryInv'
  BY <1>4 DEF TurnedAway, Continue, GoTo, NoRead
<1>5. ASSUME NEW p \in Pushers, AlreadyAccepted(p)
      PROVE  CarryInv'
  BY <1>5 DEF AlreadyAccepted, Release, Continue, GoTo, NoRead, Accepted
<1>6. ASSUME NEW p \in Pushers, AlreadyPasted(p)
      PROVE  CarryInv'
  BY <1>6 DEF AlreadyPasted, Release, Continue, GoTo, NoRead
<1>7. ASSUME NEW p \in Pushers, LandQuiet(p)
      PROVE  CarryInv'
  BY <1>7 DEF LandQuiet, MayLand, Lands, GoTo, NoRead
<1>8. ASSUME NEW p \in Pushers, LandInPane(p)
      PROVE  CarryInv'
  BY <1>8 DEF LandInPane, MayLand, Lands, Below, GoTo, NoRead
<1>9. ASSUME NEW p \in Pushers, LandNoSession(p)
      PROVE  CarryInv'
  BY <1>9 DEF LandNoSession, MayLand, Lands, Below, GoTo, NoRead
<1>10. ASSUME NEW p \in Pushers, LandCool(p)
      PROVE  CarryInv'
  BY <1>10 DEF LandCool, MayLand, Lands, GoTo, NoRead
<1>11. ASSUME NEW p \in Pushers, PassGate(p)
      PROVE  CarryInv'
  BY <1>11 DEF PassGate, MayLand, Accepted, GoTo, NoRead
<1>12. ASSUME NEW p \in Pushers, DoorTakes(p)
      PROVE  CarryInv'
  BY <1>12 DEF DoorTakes, Lands, GoTo, NoRead
<1>13. ASSUME NEW p \in Pushers, DoorDeclines(p)
      PROVE  CarryInv'
  BY <1>13 DEF DoorDeclines, Lands, Below, GoTo, NoRead
<1>14. ASSUME NEW p \in Pushers, DoorFails(p)
      PROVE  CarryInv'
  BY <1>14 DEF DoorFails, Lands, Below, GoTo, NoRead
<1>15. ASSUME NEW p \in Pushers, RecordCarried(p)
      PROVE  CarryInv'
  BY <1>15 DEF RecordCarried, Recorded, Adds, Outcome, GoTo, NoRead
<1>16. ASSUME NEW p \in Pushers, RecordAside(p)
      PROVE  CarryInv'
  BY <1>16 DEF RecordAside, Recorded, Adds, Outcome, Release, Continue, GoTo,
               NoRead
<1>17. ASSUME NEW p \in Pushers, RecordLast(p)
      PROVE  CarryInv'
  BY <1>17 DEF RecordLast, Recorded, Adds, Outcome, Release, Continue, GoTo,
               NoRead
<1>18. ASSUME NEW p \in Pushers, RecordDead(p)
      PROVE  CarryInv'
  BY <1>18 DEF RecordDead, Recorded, Adds, Outcome, Release, GoTo, NoRead
<1>19. ASSUME NEW p \in Pushers, Stamp(p)
      PROVE  CarryInv'
  BY <1>19 DEF Stamp, Release, Continue, GoTo, NoRead
<1>20. ASSUME NEW p \in Pushers, Errs(p)
      PROVE  CarryInv'
  BY <1>20 DEF Errs, Release, Continue, GoTo, NoRead
<1>21. ASSUME NEW p \in Pushers, NEW m \in Rows, RetireRow(p, m)
      PROVE  CarryInv'
  BY <1>21 DEF RetireRow, Adds, Oldest, GoTo, NoRead
<1>22. ASSUME NEW p \in Pushers, Crash(p)
      PROVE  CarryInv'
  BY <1>22 DEF Crash, Continue, GoTo, NoRead
<1>23. ASSUME NEW r \in Readers, Wait(r)
      PROVE  CarryInv'
  BY <1>23 DEF Wait, Unread, ReaderGoes, NoPush
<1>24. ASSUME NEW r \in Readers, NEW m \in Rows, PrintRow(r, m)
      PROVE  CarryInv'
  BY <1>24 DEF PrintRow, Oldest, ReaderGoes, NoPush
<1>25. ASSUME NEW r \in Readers, NEW m \in Rows, AckRow(r, m)
      PROVE  CarryInv'
  BY <1>25 DEF AckRow, Oldest, ReaderGoes, NoPush
<1>26. ASSUME NEW r \in Readers, ReaderCrash(r)
      PROVE  CarryInv'
  BY <1>26 DEF ReaderCrash, ReaderGoes, NoPush
<1>27. CASE CoolOffEnds
  BY <1>27 DEF CoolOffEnds, NoActor
<1>28. ASSUME NEW m \in Rows, LeavesWindow(m)
      PROVE  CarryInv'
  BY <1>28 DEF LeavesWindow, NoActor
<1>29. CASE UNCHANGED vars
  BY <1>29 DEF vars
<1> QED
  BY <1>1, <1>2, <1>3, <1>4, <1>5, <1>6, <1>7, <1>8, <1>9, <1>10, <1>11,
     <1>12, <1>13, <1>14, <1>15, <1>16, <1>17, <1>18, <1>19, <1>20, <1>21,
     <1>22, <1>23, <1>24, <1>25, <1>26, <1>27, <1>28, <1>29
  DEF Next, Attempt, Read
-----------------------------------------------------------------------------

\* A set that takes one more element grows by one at most ...
LEMMA OneMore ==
  ASSUME NEW S, NEW x, IsFiniteSet(S)
  PROVE  /\ IsFiniteSet(S \cup {x})
         /\ Cardinality(S \cup {x}) <= Cardinality(S) + 1
<1>1. Cardinality(S) \in Nat
  BY FS_CardinalityType
<1>2. /\ IsFiniteSet(S \cup {x})
      /\ \/ Cardinality(S \cup {x}) = Cardinality(S)
         \/ Cardinality(S \cup {x}) = Cardinality(S) + 1
  BY FS_AddElement, Zenon
<1> QED
  BY <1>1, <1>2

\* ... and one that loses an element does not grow.
LEMMA OneLess ==
  ASSUME NEW S, NEW x, IsFiniteSet(S)
  PROVE  /\ IsFiniteSet(S \ {x})
         /\ Cardinality(S \ {x}) <= Cardinality(S)
<1>1. S \ {x} \in SUBSET S
  OBVIOUS
<1> QED
  BY <1>1, FS_Subset

\* The window keeps the room an attempt at the door found in it.
LEMMA WindowStep ==
  TypeOK /\ LockInv /\ WindowInv /\ [Next]_vars => WindowInv'
<1> SUFFICES ASSUME TypeOK, LockInv, WindowInv, [Next]_vars PROVE WindowInv'
  OBVIOUS
<1>a. Cardinality(recent) \in Nat
  BY FS_CardinalityType DEF WindowInv
<1> USE <1>a
    DEF TypeOK, WindowInv, WindowKeepsItsRails, Room, route, mailbox, ledger,
        pusher, reader
<1>1. ASSUME NEW p \in Pushers, NEW m \in Rows, Append(p, m)
      PROVE  WindowInv'
  BY <1>1 DEF Append, GoTo, NoRead
<1>2. ASSUME NEW p \in Pushers, StartPass(p)
      PROVE  WindowInv'
  BY <1>2 DEF StartPass, Held, GoTo, NoRead
<1>3. ASSUME NEW p \in Pushers, NEW m \in Rows, Enter(p, m)
      PROVE  WindowInv'
  BY <1>3 DEF Enter, GoTo, NoRead
<1>4. ASSUME NEW p \in Pushers, NEW m \in Rows, TurnedAway(p, m)
      PROVE  WindowInv'
  BY <1>4 DEF TurnedAway, Continue, GoTo, NoRead
<1>5. ASSUME NEW p \in Pushers, AlreadyAccepted(p)
      PROVE  WindowInv'
  BY <1>5 DEF AlreadyAccepted, Release, Continue, GoTo, NoRead
<1>6. ASSUME NEW p \in Pushers, AlreadyPasted(p)
      PROVE  WindowInv'
  BY <1>6 DEF AlreadyPasted, Release, Continue, GoTo, NoRead
<1>7. ASSUME NEW p \in Pushers, LandQuiet(p)
      PROVE  WindowInv'
  BY <1>7 DEF LandQuiet, MayLand, Lands, GoTo, NoRead
<1>8. ASSUME NEW p \in Pushers, LandInPane(p)
      PROVE  WindowInv'
  BY <1>8 DEF LandInPane, MayLand, Lands, Below, GoTo, NoRead
<1>9. ASSUME NEW p \in Pushers, LandNoSession(p)
      PROVE  WindowInv'
  BY <1>9 DEF LandNoSession, MayLand, Lands, Below, GoTo, NoRead
<1>10. ASSUME NEW p \in Pushers, LandCool(p)
      PROVE  WindowInv'
  BY <1>10 DEF LandCool, MayLand, Lands, GoTo, NoRead
<1>11. ASSUME NEW p \in Pushers, PassGate(p)
      PROVE  WindowInv'
  BY <1>11 DEF PassGate, MayLand, Accepted, GoTo, NoRead, BudgetSpent,
               Replayed
<1>12. ASSUME NEW p \in Pushers, DoorTakes(p)
      PROVE  WindowInv'
  BY <1>12 DEF DoorTakes, Lands, GoTo, NoRead
<1>13. ASSUME NEW p \in Pushers, DoorDeclines(p)
      PROVE  WindowInv'
  BY <1>13 DEF DoorDeclines, Lands, Below, GoTo, NoRead
<1>14. ASSUME NEW p \in Pushers, DoorFails(p)
      PROVE  WindowInv'
  BY <1>14 DEF DoorFails, Lands, Below, GoTo, NoRead
<1>15. ASSUME NEW p \in Pushers, RecordCarried(p)
      PROVE  WindowInv'
  <2>1. CASE rung[p] # "door"
    BY <1>15, <2>1 DEF RecordCarried, Recorded,
                NoRead, GoTo, Continue
  <2>2. CASE rung[p] = "door"
    <3>1. pc[p] = "record" /\ Room(row[p]) /\ row[p] \in Rows
      BY <1>15, <2>2 DEF RecordCarried, Recorded
    <3>2. recent' = recent \cup {row[p]} /\ UNCHANGED <<body, allowance>>
      BY <1>15, <2>2 DEF RecordCarried, Recorded, NoRead, route
    <3>3. /\ IsFiniteSet(recent')
          /\ Cardinality(recent') <= Cardinality(recent) + 1
      BY <3>2, OneMore
    <3>4. WindowKeepsItsRails'
      <4>1. Cardinality(recent') \in Nat
        BY <3>3, FS_CardinalityType
      <4>2. Cardinality(recent') <= allowance'
        BY <4>1, <3>1, <3>2, <3>3
      <4>3. \A m, n \in recent' : body'[m] = body'[n] => m = n
        BY <3>1, <3>2
      <4> QED
        BY <4>2, <4>3
    <3>5. ASSUME NEW q \in Pushers,
                 \/ pc'[q] = "calling"
                 \/ pc'[q] = "record" /\ rung'[q] = "door"
          PROVE  FALSE
      BY <1>15, <3>5, <3>1 DEF RecordCarried, Recorded, GoTo, Continue, LockInv, Inside,
                  Carried
    <3> QED
      BY <3>3, <3>4, <3>5
  <2> QED
    BY <2>1, <2>2
<1>16. ASSUME NEW p \in Pushers, RecordAside(p)
      PROVE  WindowInv'
  BY <1>16 DEF RecordAside, Recorded, Carried, Continue, GoTo, NoRead
<1>17. ASSUME NEW p \in Pushers, RecordLast(p)
      PROVE  WindowInv'
  BY <1>17 DEF RecordLast, Recorded, Carried, Continue, GoTo, NoRead
<1>18. ASSUME NEW p \in Pushers, RecordDead(p)
      PROVE  WindowInv'
  BY <1>18 DEF RecordDead, Recorded, Carried, Dead, GoTo, NoRead
<1>19. ASSUME NEW p \in Pushers, Stamp(p)
      PROVE  WindowInv'
  BY <1>19 DEF Stamp, Release, Continue, GoTo, NoRead
<1>20. ASSUME NEW p \in Pushers, Errs(p)
      PROVE  WindowInv'
  BY <1>20 DEF Errs, Release, Continue, GoTo, NoRead
<1>21. ASSUME NEW p \in Pushers, NEW m \in Rows, RetireRow(p, m)
      PROVE  WindowInv'
  BY <1>21 DEF RetireRow, Adds, Oldest, GoTo, NoRead
<1>22. ASSUME NEW p \in Pushers, Crash(p)
      PROVE  WindowInv'
  BY <1>22 DEF Crash, Continue, GoTo, NoRead
<1>23. ASSUME NEW r \in Readers, Wait(r)
      PROVE  WindowInv'
  BY <1>23 DEF Wait, Unread, ReaderGoes, NoPush
<1>24. ASSUME NEW r \in Readers, NEW m \in Rows, PrintRow(r, m)
      PROVE  WindowInv'
  BY <1>24 DEF PrintRow, Oldest, ReaderGoes, NoPush
<1>25. ASSUME NEW r \in Readers, NEW m \in Rows, AckRow(r, m)
      PROVE  WindowInv'
  BY <1>25 DEF AckRow, Oldest, ReaderGoes, NoPush
<1>26. ASSUME NEW r \in Readers, ReaderCrash(r)
      PROVE  WindowInv'
  BY <1>26 DEF ReaderCrash, ReaderGoes, NoPush
<1>27. CASE CoolOffEnds
  BY <1>27 DEF CoolOffEnds, NoActor
<1>28. ASSUME NEW m \in Rows, LeavesWindow(m)
      PROVE  WindowInv'
  <2>1. IsFiniteSet(recent') /\ Cardinality(recent') <= Cardinality(recent)
    <3>1. recent' = recent \ {m} /\ m \in recent
      BY <1>28 DEF LeavesWindow
    <3> QED
      BY <3>1, OneLess
  <2>2. Cardinality(recent') \in Nat
    BY <2>1, FS_CardinalityType
  <2>3. /\ recent' \subseteq recent
        /\ UNCHANGED <<body, allowance, pc, row, rung>>
    BY <1>28 DEF LeavesWindow, NoActor
  <2>4. WindowKeepsItsRails'
    BY <2>1, <2>2, <2>3
  <2>5. ASSUME NEW q \in Pushers, Room(row[q]) PROVE Room(row[q])'
    BY <2>1, <2>2, <2>3, <2>5
  <2> QED
    BY <2>1, <2>3, <2>4, <2>5
<1>29. CASE UNCHANGED vars
  BY <1>29 DEF vars
<1> QED
  BY <1>1, <1>2, <1>3, <1>4, <1>5, <1>6, <1>7, <1>8, <1>9, <1>10, <1>11,
     <1>12, <1>13, <1>14, <1>15, <1>16, <1>17, <1>18, <1>19, <1>20, <1>21,
     <1>22, <1>23, <1>24, <1>25, <1>26, <1>27, <1>28, <1>29
  DEF Next, Attempt, Read
-----------------------------------------------------------------------------

IInv == TypeOK /\ LockInv /\ CarryInv /\ WindowInv

\* The four together hold at the start, and no step breaks them.
LEMMA Invariant == Spec => []IInv
<1>1. Init => IInv
  <2> SUFFICES ASSUME Init PROVE IInv
    OBVIOUS
  <2>1. TypeOK
    BY InitType
  <2>2. LockInv /\ CarryInv
    BY DEF Init, LockInv, Inside, CarryInv, StampedRowWasCarried
  <2>3. IsFiniteSet(recent) /\ Cardinality(recent) = 0
    BY FS_EmptySet DEF Init
  <2>4. WindowInv
    BY <2>1, <2>3
    DEF Init, TypeOK, WindowInv, WindowKeepsItsRails, Room
  <2> QED
    BY <2>1, <2>2, <2>4 DEF IInv
<1>2. IInv /\ [Next]_vars => IInv'
  BY TypeStep, LockStep, CarryStep, WindowStep DEF IInv
<1> QED
  BY <1>1, <1>2, PTL DEF Spec

\* A row is stamped taken only once its body is in front of the recipient,
\* for any rows, pushers and readers (deliver.rs:73-90, 527-552).
THEOREM StampsAreHonest == Spec => []StampedRowWasCarried
<1>1. IInv => StampedRowWasCarried
  BY DEF IInv, CarryInv
<1> QED
  BY <1>1, Invariant, PTL

\* Whatever pushers run, the window's recorded pushes keep its two rails
\* (deliver.rs:340-380).
THEOREM RailsHold == Spec => []WindowKeepsItsRails
<1>1. IInv => WindowKeepsItsRails
  BY DEF IInv, WindowInv
<1> QED
  BY <1>1, Invariant, PTL

\* No row is pushed again once a push of it is on record, however stale the
\* list it was taken from (bus.rs:320-323, deliver.rs:499-505).
THEOREM PushIsFinal == Spec => RecordedPushIsFinal
<1>1. LockInv =>
        \A p \in Pushers : DoorTakes(p) => "accepted" \notin history[row[p]]
  BY DEF LockInv, DoorTakes
<1>2. IInv => LockInv
  BY DEF IInv
<1> QED
  BY <1>1, <1>2, Invariant, PTL DEF RecordedPushIsFinal
=============================================================================
