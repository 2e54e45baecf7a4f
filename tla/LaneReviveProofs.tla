-------------------------- MODULE LaneReviveProofs --------------------------
(***************************************************************************)
(* Proofs about LaneRevive.  Types hold for any number of senders; what a  *)
(* revive relies on holds when sends to one lane do not overlap, which is  *)
(* an assumption the code does not enforce.                                *)
(***************************************************************************)
EXTENDS LaneRevive, TLAPS

OneSender == \A s, t \in Senders : s = t

(***************************************************************************)
(* What a send still knows of the lane when it acts.  The route is there   *)
(* until the epilogue drops it; a send that missed the route is looking at *)
(* a pane past its epilogue; from the second probe on there is no session, *)
(* and nobody but the send opens one.                                      *)
(***************************************************************************)
Knows(s) ==
  /\ pc[s] \in {"routed", "probing"} /\ ~saw[s] => lane \in {"dropped", "none"}
  /\ pc[s] = "probing" /\ saw[s] => lane = "none" /\ ~retired[s]
  /\ pc[s] = "clearing" => lane \in {"dropped", "none"}
  /\ pc[s] \in {"registering", "spawning"} => lane = "none"
  /\ pc[s] = "spawning" => route

RouteInv ==
  /\ lane \in Live \cup {"exited"} => route
  /\ lane = "dropped" => ~route
  /\ \A s \in Senders : Knows(s)

(***************************************************************************)
(* Who marked the file.  A supervisor past its boot has marked the lane    *)
(* live, and what a waiting send sees is its own supervisor's mark, or     *)
(* that of another lane that wrote the file meanwhile.                     *)
(***************************************************************************)
Waits(s) ==
  /\ pc[s] # "idle" => mail[s] \in Mails
  /\ pc[s] \in {"stamping", "waiting"} => spawnedBy = mail[s]
  /\ pc[s] = "waiting" /\ fresh[s] => mail[s] \in opened \cup foreign

MarkInv ==
  /\ lane \in {"working", "parked", "retiring"} =>
       spawnedBy \in opened \cup {NoMail}
  /\ \A s \in Senders : Waits(s)
  /\ ReviveMeansRan
-----------------------------------------------------------------------------

\* Every step keeps the type of every variable.
LEMMA TypeStep == TypeOK /\ [Next]_vars => TypeOK'
<1> SUFFICES ASSUME TypeOK, [Next]_vars PROVE TypeOK'
  OBVIOUS
<1> USE DEF TypeOK, shared, boxes, marks, seen, Live, Epilogue, LaneStates, Steps,
            Outcomes
<1>1. ASSUME NEW s \in Senders, NEW m \in Mails, Append(s, m) PROVE TypeOK'
  BY <1>1 DEF Append, GoTo
<1>2. ASSUME NEW s \in Senders, ReadRoute(s) PROVE TypeOK'
  BY <1>2 DEF ReadRoute, GoTo, RegisteredRoute
<1>3. ASSUME NEW s \in Senders, ReadResidency(s) PROVE TypeOK'
  BY <1>3 DEF ReadResidency, GoTo
<1>4. ASSUME NEW s \in Senders, ProbeRoute(s) PROVE TypeOK'
  BY <1>4 DEF ProbeRoute, Report, GoTo, SessionExists
<1>5. ASSUME NEW s \in Senders, ProbeSpawn(s) PROVE TypeOK'
  BY <1>5 DEF ProbeSpawn, Report, GoTo, SessionExists
<1>6. ASSUME NEW s \in Senders, Clear(s) PROVE TypeOK'
  BY <1>6 DEF Clear, GoTo
<1>7. ASSUME NEW s \in Senders, Register(s) PROVE TypeOK'
  BY <1>7 DEF Register, GoTo, RouteRegistered
<1>8. ASSUME NEW s \in Senders, Spawn(s) PROVE TypeOK'
  BY <1>8 DEF Spawn, Report, GoTo, SessionExists
<1>9. ASSUME NEW s \in Senders, Stamp(s) PROVE TypeOK'
  BY <1>9 DEF Stamp, GoTo
<1>10. ASSUME NEW s \in Senders, Await(s) PROVE TypeOK'
  BY <1>10 DEF Await, Report, GoTo, SessionExists, WrittenSince
<1>11. ASSUME NEW m \in Mails, ReadMail(m) PROVE TypeOK'
  BY <1>11 DEF ReadMail, NoSend, Unread
<1>12. CASE OpenTurn
  BY <1>12 DEF OpenTurn, Mark, NoSend
<1>13. CASE Wake
  BY <1>13 DEF Wake, Mark, NoSend
<1>14. CASE Retire
  BY <1>14 DEF Retire, Mark, NoSend
<1>15. CASE DropRoute
  BY <1>15 DEF DropRoute, NoSend
<1>16. CASE CloseSession
  BY <1>16 DEF CloseSession, NoSend
<1>17. CASE Park
  BY <1>17 DEF Park, Mark, NoSend
<1>18. CASE DecideRetire
  BY <1>18 DEF DecideRetire, NoSend
<1>19. CASE OpenFails
  BY <1>19 DEF OpenFails, Mark, NoSend
<1>20. CASE HardExit
  BY <1>20 DEF HardExit, NoSend
<1>21. CASE Kill
  BY <1>21 DEF Kill, NoSend, SessionExists
<1>22. CASE OtherLaneMarks
  BY <1>22 DEF OtherLaneMarks, NoSend
<1>23. CASE UNCHANGED vars
  BY <1>23 DEF vars
<1> QED
  BY <1>1, <1>2, <1>3, <1>4, <1>5, <1>6, <1>7, <1>8, <1>9, <1>10, <1>11,
     <1>12, <1>13, <1>14, <1>15, <1>16, <1>17, <1>18, <1>19, <1>20, <1>21,
     <1>22, <1>23
  DEF Next, SendStep, LaneStep

\* The variables keep their types, for any senders and rows
\* (mail.rs:876-968, supervise.rs:1212-1943).
THEOREM TypeCorrect == Spec => []TypeOK
<1>1. Init => TypeOK
  BY DEF Init, TypeOK, LaneStates, Live, Epilogue, Steps, Outcomes
<1> QED
  BY <1>1, TypeStep, PTL DEF Spec
-----------------------------------------------------------------------------

\* While sends do not overlap, what a send knows of the lane stays true.
LEMMA RouteStep ==
  ASSUME OneSender
  PROVE  TypeOK /\ RouteInv /\ [Next]_vars => RouteInv'
<1> SUFFICES ASSUME TypeOK, RouteInv, [Next]_vars PROVE RouteInv'
  OBVIOUS
<1> USE OneSender
    DEF OneSender, TypeOK, RouteInv, Knows, shared, boxes, marks, seen, Live,
        Epilogue, LaneStates, Steps
<1>1. ASSUME NEW s \in Senders, NEW m \in Mails, Append(s, m) PROVE RouteInv'
  BY <1>1 DEF Append, GoTo
<1>2. ASSUME NEW s \in Senders, ReadRoute(s) PROVE RouteInv'
  BY <1>2 DEF ReadRoute, GoTo, RegisteredRoute
<1>3. ASSUME NEW s \in Senders, ReadResidency(s) PROVE RouteInv'
  BY <1>3 DEF ReadResidency, GoTo
<1>4. ASSUME NEW s \in Senders, ProbeRoute(s) PROVE RouteInv'
  BY <1>4 DEF ProbeRoute, Report, GoTo, SessionExists
<1>5. ASSUME NEW s \in Senders, ProbeSpawn(s) PROVE RouteInv'
  BY <1>5 DEF ProbeSpawn, Report, GoTo, SessionExists
<1>6. ASSUME NEW s \in Senders, Clear(s) PROVE RouteInv'
  BY <1>6 DEF Clear, GoTo
<1>7. ASSUME NEW s \in Senders, Register(s) PROVE RouteInv'
  BY <1>7 DEF Register, GoTo, RouteRegistered
<1>8. ASSUME NEW s \in Senders, Spawn(s) PROVE RouteInv'
  BY <1>8 DEF Spawn, Report, GoTo, SessionExists
<1>9. ASSUME NEW s \in Senders, Stamp(s) PROVE RouteInv'
  BY <1>9 DEF Stamp, GoTo
<1>10. ASSUME NEW s \in Senders, Await(s) PROVE RouteInv'
  BY <1>10 DEF Await, Report, GoTo, SessionExists, WrittenSince
<1>11. ASSUME NEW m \in Mails, ReadMail(m) PROVE RouteInv'
  BY <1>11 DEF ReadMail, NoSend, Unread
<1>12. CASE OpenTurn
  BY <1>12 DEF OpenTurn, Mark, NoSend
<1>13. CASE Wake
  BY <1>13 DEF Wake, Mark, NoSend
<1>14. CASE Retire
  BY <1>14 DEF Retire, Mark, NoSend
<1>15. CASE DropRoute
  BY <1>15 DEF DropRoute, NoSend
<1>16. CASE CloseSession
  BY <1>16 DEF CloseSession, NoSend
<1>17. CASE Park
  BY <1>17 DEF Park, Mark, NoSend
<1>18. CASE DecideRetire
  BY <1>18 DEF DecideRetire, NoSend
<1>19. CASE OpenFails
  BY <1>19 DEF OpenFails, Mark, NoSend
<1>20. CASE HardExit
  BY <1>20 DEF HardExit, NoSend
<1>21. CASE Kill
  BY <1>21 DEF Kill, NoSend, SessionExists
<1>22. CASE OtherLaneMarks
  BY <1>22 DEF OtherLaneMarks, NoSend
<1>23. CASE UNCHANGED vars
  BY <1>23 DEF vars
<1> QED
  BY <1>1, <1>2, <1>3, <1>4, <1>5, <1>6, <1>7, <1>8, <1>9, <1>10, <1>11,
     <1>12, <1>13, <1>14, <1>15, <1>16, <1>17, <1>18, <1>19, <1>20, <1>21,
     <1>22, <1>23
  DEF Next, SendStep, LaneStep

LEMMA RouteHolds == ASSUME OneSender PROVE Spec => [](TypeOK /\ RouteInv)
<1>1. Init => TypeOK /\ RouteInv
  BY DEF Init, TypeOK, LaneStates, Live, Epilogue, Steps, Outcomes, RouteInv,
         Knows
<1> QED
  BY <1>1, TypeStep, RouteStep, PTL DEF Spec

\* While sends to it do not overlap, a lane that runs is in the registry
\* ("its route is re-registered first", mail.rs:872-873).
THEOREM LaneRouted == ASSUME OneSender PROVE Spec => []LiveLaneIsRouted
<1>1. RouteInv => LiveLaneIsRouted
  BY DEF RouteInv, LiveLaneIsRouted
<1> QED
  BY <1>1, RouteHolds, PTL

\* While sends to it do not overlap, a revive never kills a session in which a
\* supervisor runs ("the leftover session still owns the name", mail.rs:909).
THEOREM LeftoversOnly == ASSUME OneSender PROVE Spec => ClearsOnlyLeftovers
<1>1. RouteInv => \A s \in Senders : Clear(s) => lane \notin Live
  BY DEF RouteInv, Knows, Clear, Live
<1> QED
  BY <1>1, RouteHolds, PTL DEF Spec, ClearsOnlyLeftovers
-----------------------------------------------------------------------------

\* While sends do not overlap, a waiting send sees its own supervisor's marks
\* and those of other lanes.
LEMMA MarkStep ==
  ASSUME OneSender
  PROVE  TypeOK /\ RouteInv /\ MarkInv /\ [Next]_vars => MarkInv'
<1> SUFFICES ASSUME TypeOK, RouteInv, MarkInv, [Next]_vars PROVE MarkInv'
  OBVIOUS
<1> USE OneSender, ReviveAssumption
    DEF OneSender, TypeOK, MarkInv, Waits, ReviveMeansRan, RouteInv, Knows,
        shared, boxes, marks, seen, Live, Epilogue, LaneStates, Steps, Outcomes
<1>1. ASSUME NEW s \in Senders, NEW m \in Mails, Append(s, m) PROVE MarkInv'
  BY <1>1 DEF Append, GoTo
<1>2. ASSUME NEW s \in Senders, ReadRoute(s) PROVE MarkInv'
  BY <1>2 DEF ReadRoute, GoTo, RegisteredRoute
<1>3. ASSUME NEW s \in Senders, ReadResidency(s) PROVE MarkInv'
  BY <1>3 DEF ReadResidency, GoTo
<1>4. ASSUME NEW s \in Senders, ProbeRoute(s) PROVE MarkInv'
  BY <1>4 DEF ProbeRoute, Report, GoTo, SessionExists
<1>5. ASSUME NEW s \in Senders, ProbeSpawn(s) PROVE MarkInv'
  BY <1>5 DEF ProbeSpawn, Report, GoTo, SessionExists
<1>6. ASSUME NEW s \in Senders, Clear(s) PROVE MarkInv'
  BY <1>6 DEF Clear, GoTo
<1>7. ASSUME NEW s \in Senders, Register(s) PROVE MarkInv'
  BY <1>7 DEF Register, GoTo, RouteRegistered
<1>8. ASSUME NEW s \in Senders, Spawn(s) PROVE MarkInv'
  BY <1>8 DEF Spawn, Report, GoTo, SessionExists
<1>9. ASSUME NEW s \in Senders, Stamp(s) PROVE MarkInv'
  BY <1>9 DEF Stamp, GoTo
<1>10. ASSUME NEW s \in Senders, Await(s) PROVE MarkInv'
  BY <1>10 DEF Await, Report, GoTo, SessionExists, WrittenSince
<1>11. ASSUME NEW m \in Mails, ReadMail(m) PROVE MarkInv'
  BY <1>11 DEF ReadMail, NoSend, Unread
<1>12. CASE OpenTurn
  BY <1>12 DEF OpenTurn, Mark, NoSend
<1>13. CASE Wake
  BY <1>13 DEF Wake, Mark, NoSend
<1>14. CASE Retire
  BY <1>14 DEF Retire, Mark, NoSend
<1>15. CASE DropRoute
  BY <1>15 DEF DropRoute, NoSend
<1>16. CASE CloseSession
  BY <1>16 DEF CloseSession, NoSend
<1>17. CASE Park
  BY <1>17 DEF Park, Mark, NoSend
<1>18. CASE DecideRetire
  BY <1>18 DEF DecideRetire, NoSend
<1>19. CASE OpenFails
  BY <1>19 DEF OpenFails, Mark, NoSend
<1>20. CASE HardExit
  BY <1>20 DEF HardExit, NoSend
<1>21. CASE Kill
  BY <1>21 DEF Kill, NoSend, SessionExists
<1>22. CASE OtherLaneMarks
  BY <1>22 DEF OtherLaneMarks, NoSend
<1>23. CASE UNCHANGED vars
  BY <1>23 DEF vars
<1> QED
  BY <1>1, <1>2, <1>3, <1>4, <1>5, <1>6, <1>7, <1>8, <1>9, <1>10, <1>11,
     <1>12, <1>13, <1>14, <1>15, <1>16, <1>17, <1>18, <1>19, <1>20, <1>21,
     <1>22, <1>23
  DEF Next, SendStep, LaneStep

\* While sends do not overlap, a send that reports a revival spawned a supervisor
\* that marked the lane live, or another lane wrote the residency file while it
\* waited (mail.rs:859-866).
THEOREM ReviveRan == ASSUME OneSender PROVE Spec => []ReviveMeansRan
<1>1. Init => MarkInv
  BY DEF Init, MarkInv, Waits, ReviveMeansRan
<1>2. MarkInv => ReviveMeansRan
  BY DEF MarkInv
<1> QED
  BY <1>1, <1>2, RouteHolds, MarkStep, PTL DEF Spec

=============================================================================
