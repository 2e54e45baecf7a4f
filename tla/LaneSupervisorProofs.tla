----------------------- MODULE LaneSupervisorProofs -----------------------
(***************************************************************************)
(* Proofs about LaneSupervisor, for any mail, any number of processes and  *)
(* any retry budget.                                                       *)
(***************************************************************************)
EXTENDS LaneSupervisor, TLAPS

(***************************************************************************)
(* What the process knows of its mail.  Everything on a list was claimed   *)
(* from the mailbox; what waits (held or opening) was neither handed over  *)
(* nor acked; acks are only owed for what was handed over; only a composed *)
(* turn has opening hails; and nothing is known before the process boots.  *)
(***************************************************************************)
ClaimInv ==
  /\ seen \subseteq sent
  /\ held \cup opening \cup delivered \cup doubted \subseteq seen
  /\ toAck \subseteq delivered
  /\ held \cap opening = {}
  /\ (held \cup opening) \cap (delivered \cup acked) = {}
  /\ pc # "submit" => opening = {}
  /\ pc \in {"down", "boot"} => seen = {}
  /\ NoClaimForgotten

(***************************************************************************)
(* What the process knows of its brief: while it lives the brief is either *)
(* pending or completed, a clean settled turn has completed it, and a      *)
(* process that noted its result has its row in the parent's mail, or lost *)
(* it to a failed append.                                                  *)
(***************************************************************************)
Lives == pc \notin {"down", "boot"}

Reported ==
  \/ \E row \in results : row.run = runs /\ row.told \in Told
  \/ runs \in lost

ReportInv ==
  /\ Lives => (briefTurnPending <=> ~briefCompleted)
  /\ pc = "drain" /\ end = "done" => briefCompleted
  /\ Lives /\ resultWritten => Reported
  /\ pc = "retiring" => resultWritten
  /\ IdleMeansReported

(***************************************************************************)
(* In a process that was given no conversation, every turn after the probe *)
(* belongs to a conversation that has the brief, or brings it.             *)
(***************************************************************************)
BriefInv ==
  /\ Lives => \/ resume \/ startAckPending \/ conv = "briefed"
              \/ pc = "submit" /\ turn = "brief"
  /\ Lives /\ startAckPending => ~resultWritten /\ ~resume
  /\ pc \in {"drain", "parked", "retiring"} => ~startAckPending
  /\ FreshSuccessIsBriefed
-----------------------------------------------------------------------------

\* The marker's row, or its loss, is that of the present process.
LEMMA MarkerTyped ==
  ASSUME results \subseteq Rows, lost \subseteq 1..MaxRuns,
         runs \in 1..MaxRuns, WriteMarker
  PROVE  results' \subseteq Rows /\ lost' \subseteq 1..MaxRuns
<1>1. \A told \in Told : [run |-> runs, told |-> told] \in Rows
  BY DEF Told, Rows
<1>2. QED
  BY <1>1 DEF WriteMarker

\* Every step keeps the type of every variable.
LEMMA TypeStep == TypeOK /\ [Next]_vars => TypeOK'
<1> SUFFICES ASSUME TypeOK, [Next]_vars PROVE TypeOK'
  OBVIOUS
<1>0. runs \in 1..MaxRuns
  BY DEF TypeOK
<1>z. 0 \in 0..FlakeResumeCap /\ 0 \in 0..EmptyBriefRefeeds /\ 1 \in 1..MaxRuns
  BY LaneAssumption
<1> USE LaneAssumption
        DEF TypeOK, mail, parent, records, flags, claims, harness, Places,
            Texts, Ends, Rows, given, Pending, StillActive, Batch
<1>1. CASE SupervisorError
  BY <1>1, <1>0, <1>z
  DEF SupervisorError, Exit, Forget, FreshCounters
<1>2. CASE ParentGone
  BY <1>2, <1>0, <1>z
  DEF ParentGone, Exit, Forget, FreshCounters
<1>3. CASE Timeout
  BY <1>3, <1>0, <1>z
  DEF Timeout, Exit, Forget, FreshCounters
<1>4. CASE Crash
  BY <1>4, <1>0, <1>z
  DEF Crash, Exit, Forget, FreshCounters
<1>5. CASE Retire
  BY <1>5, <1>0, <1>z
  DEF Retire, Exit, Forget, FreshCounters
<1>6. CASE StartTurnFails
  BY <1>6, <1>0, <1>z
  DEF StartTurnFails, Exit, Forget, FreshCounters
<1>7. CASE ProbeFailed
  BY <1>7, <1>0, <1>z
  DEF ProbeFailed, Exit, Forget, FreshCounters
<1>8. CASE BriefEmptyTwice
  BY <1>8, <1>0, <1>z
  DEF BriefEmptyTwice, Exit, Forget, FreshCounters
<1>9. CASE DrainToExit
  BY <1>9, <1>0, <1>z
  DEF DrainToExit, Exit, Forget, FreshCounters
<1>10. CASE BootFresh
  BY <1>10, <1>z
  DEF BootFresh, FreshCounters
<1>11. CASE Restart
  BY <1>11
  DEF Restart
<1>12. CASE BootResumed
  BY <1>12, <1>z
  DEF BootResumed, FreshCounters
<1>13. CASE StartTurn
  BY <1>13
  DEF StartTurn
<1>14. CASE \E h \in Hails : RecordDelivery(h)
  BY <1>14
  DEF RecordDelivery, Ack
<1>15. CASE EnterPoll
  BY <1>15
  DEF EnterPoll
<1>16. CASE \E h \in Hails : HoldHail(h)
  BY <1>16
  DEF HoldHail, Claim
<1>17. CASE \E h \in Hails : ResumeGuard(h)
  BY <1>17
  DEF ResumeGuard, Claim
<1>18. CASE \E h \in Hails : SteerHail(h)
  BY <1>18
  DEF SteerHail, Claim, IsSteered
<1>19. CASE \E e \in Ends \ {"none"} : TurnEnds(e)
  BY <1>19
  DEF TurnEnds
<1>20. CASE ProbeAnswered
  BY <1>20
  DEF ProbeAnswered, TextAfterProbe
<1>21. CASE RefeedBrief
  BY <1>21
  DEF RefeedBrief, EmptyBrief, Resubmit
<1>22. CASE ResumeAfterFlake
  BY <1>22
  DEF ResumeAfterFlake, WithinBudget, ResumesCounted, Resubmit
<1>23. CASE SettleTurn
  BY <1>23
  DEF SettleTurn
<1>24. CASE DrainToNextTurn
  BY <1>24
  DEF DrainToNextTurn
<1>25. CASE DrainToPark
  <2>1. results' \subseteq Rows /\ lost' \subseteq 1..MaxRuns
    <3>1. CASE WriteMarker
      BY <3>1, MarkerTyped
    <3>2. CASE UNCHANGED <<results, lost>>
      BY <3>2
    <3>3. QED
      BY <1>25, <3>1, <3>2 DEF DrainToPark
  <2>2. QED
    BY <1>25, <2>1 DEF DrainToPark, Marks
<1>26. CASE Wake
  BY <1>26
  DEF Wake
<1>27. CASE DecideRetire
  BY <1>27
  DEF DecideRetire
<1>28. CASE \E h \in Hails : Send(h)
  BY <1>28
  DEF Send, NotProcess
<1>29. CASE \E h \in Hails : Expire(h)
  BY <1>29
  DEF Expire, NotProcess
<1>30. CASE UNCHANGED vars
  BY <1>30
  DEF vars
<1>31. CASE \E h \in Hails : GiveUpSteer(h)
  BY <1>31
  DEF GiveUpSteer, Claim, IsSteered
<1>32. CASE \E h \in Hails : InjectLate(h)
  BY <1>32
  DEF InjectLate
<1>33. QED
  BY <1>1, <1>2, <1>3, <1>4, <1>5, <1>6, <1>7, <1>8, <1>9, <1>10, <1>11, <1>12,
     <1>13, <1>14, <1>15, <1>16, <1>17, <1>18, <1>19, <1>20, <1>21, <1>22,
     <1>23, <1>24, <1>25, <1>26, <1>27, <1>28, <1>29, <1>30, <1>31,
     <1>32
  DEF Next, Boot, Delivery, ClaimMail, TurnEnd, Between

\* Every step keeps what the process knows of its mail.
LEMMA ClaimStep == TypeOK /\ ClaimInv /\ [Next]_vars => ClaimInv'
<1> SUFFICES ASSUME TypeOK, ClaimInv, [Next]_vars PROVE ClaimInv'
  OBVIOUS
<1>0. expired \subseteq Reminders
  BY DEF TypeOK
<1> USE DEF ClaimInv, NoClaimForgotten, mail, parent, records, flags, claims,
        harness, given, Pending, StillActive, Batch
<1>1. CASE SupervisorError
  BY <1>1
  DEF SupervisorError, Exit, Forget, FreshCounters
<1>2. CASE ParentGone
  BY <1>2
  DEF ParentGone, Exit, Forget, FreshCounters
<1>3. CASE Timeout
  BY <1>3
  DEF Timeout, Exit, Forget, FreshCounters
<1>4. CASE Crash
  BY <1>4
  DEF Crash, Exit, Forget, FreshCounters
<1>5. CASE Retire
  BY <1>5
  DEF Retire, Exit, Forget, FreshCounters
<1>6. CASE StartTurnFails
  BY <1>6
  DEF StartTurnFails, Exit, Forget, FreshCounters
<1>7. CASE ProbeFailed
  BY <1>7
  DEF ProbeFailed, Exit, Forget, FreshCounters
<1>8. CASE BriefEmptyTwice
  BY <1>8
  DEF BriefEmptyTwice, Exit, Forget, FreshCounters
<1>9. CASE DrainToExit
  BY <1>9
  DEF DrainToExit, Exit, Forget, FreshCounters
<1>10. CASE BootFresh
  BY <1>10
  DEF BootFresh, FreshCounters
<1>11. CASE Restart
  BY <1>11
  DEF Restart
<1>12. CASE BootResumed
  BY <1>12
  DEF BootResumed, FreshCounters
<1>13. CASE StartTurn
  BY <1>13
  DEF StartTurn
<1>14. CASE \E h \in Hails : RecordDelivery(h)
  BY <1>14
  DEF RecordDelivery, Ack
<1>15. CASE EnterPoll
  BY <1>15
  DEF EnterPoll
<1>16. CASE \E h \in Hails : HoldHail(h)
  BY <1>16
  DEF HoldHail, Claim
<1>17. CASE \E h \in Hails : ResumeGuard(h)
  BY <1>17
  DEF ResumeGuard, Claim
<1>18. CASE \E h \in Hails : SteerHail(h)
  BY <1>18
  DEF SteerHail, Claim, IsSteered
<1>19. CASE \E e \in Ends \ {"none"} : TurnEnds(e)
  BY <1>19
  DEF TurnEnds
<1>20. CASE ProbeAnswered
  BY <1>20, <1>0
  DEF ProbeAnswered, TextAfterProbe
<1>21. CASE RefeedBrief
  BY <1>21
  DEF RefeedBrief, EmptyBrief, Resubmit
<1>22. CASE ResumeAfterFlake
  BY <1>22
  DEF ResumeAfterFlake, WithinBudget, ResumesCounted, Resubmit
<1>23. CASE SettleTurn
  BY <1>23
  DEF SettleTurn
<1>24. CASE DrainToNextTurn
  BY <1>24, <1>0
  DEF DrainToNextTurn
<1>25. CASE DrainToPark
  BY <1>25, <1>0
  DEF DrainToPark, Marks, WriteMarker
<1>26. CASE Wake
  BY <1>26
  DEF Wake
<1>27. CASE DecideRetire
  BY <1>27
  DEF DecideRetire
<1>28. CASE \E h \in Hails : Send(h)
  BY <1>28
  DEF Send, NotProcess
<1>29. CASE \E h \in Hails : Expire(h)
  BY <1>29
  DEF Expire, NotProcess
<1>30. CASE UNCHANGED vars
  BY <1>30
  DEF vars
<1>31. CASE \E h \in Hails : GiveUpSteer(h)
  BY <1>31
  DEF GiveUpSteer, Claim, IsSteered
<1>32. CASE \E h \in Hails : InjectLate(h)
  BY <1>32
  DEF InjectLate
<1>33. QED
  BY <1>1, <1>2, <1>3, <1>4, <1>5, <1>6, <1>7, <1>8, <1>9, <1>10, <1>11, <1>12,
     <1>13, <1>14, <1>15, <1>16, <1>17, <1>18, <1>19, <1>20, <1>21, <1>22,
     <1>23, <1>24, <1>25, <1>26, <1>27, <1>28, <1>29, <1>30, <1>31,
     <1>32
  DEF Next, Boot, Delivery, ClaimMail, TurnEnd, Between

\* Every step keeps what the process knows of its brief.
LEMMA ReportStep == TypeOK /\ ReportInv /\ [Next]_vars => ReportInv'
<1> SUFFICES ASSUME TypeOK, ReportInv, [Next]_vars PROVE ReportInv'
  OBVIOUS
<1>0. /\ runs \in 1..MaxRuns /\ resultWritten \in BOOLEAN
      /\ briefCompleted \in BOOLEAN /\ briefTurnPending \in BOOLEAN
  BY DEF TypeOK
<1> USE DEF ReportInv, Reported, IdleMeansReported, Lives, mail, parent, records, flags,
        claims, harness, given
<1>1. CASE SupervisorError
  BY <1>0, <1>1
  DEF SupervisorError, Exit, Forget, FreshCounters
<1>2. CASE ParentGone
  BY <1>0, <1>2
  DEF ParentGone, Exit, Forget, FreshCounters
<1>3. CASE Timeout
  BY <1>0, <1>3
  DEF Timeout, Exit, Forget, FreshCounters
<1>4. CASE Crash
  BY <1>0, <1>4
  DEF Crash, Exit, Forget, FreshCounters
<1>5. CASE Retire
  BY <1>0, <1>5
  DEF Retire, Exit, Forget, FreshCounters
<1>6. CASE StartTurnFails
  BY <1>0, <1>6
  DEF StartTurnFails, Exit, Forget, FreshCounters
<1>7. CASE ProbeFailed
  BY <1>0, <1>7
  DEF ProbeFailed, Exit, Forget, FreshCounters
<1>8. CASE BriefEmptyTwice
  BY <1>0, <1>8
  DEF BriefEmptyTwice, Exit, Forget, FreshCounters
<1>9. CASE DrainToExit
  BY <1>0, <1>9
  DEF DrainToExit, Exit, Forget, FreshCounters
<1>10. CASE BootFresh
  BY <1>0, <1>10
  DEF BootFresh, FreshCounters
<1>11. CASE Restart
  BY <1>0, <1>11
  DEF Restart
<1>12. CASE BootResumed
  BY <1>0, <1>12
  DEF BootResumed, FreshCounters
<1>13. CASE StartTurn
  BY <1>0, <1>13
  DEF StartTurn
<1>14. CASE \E h \in Hails : RecordDelivery(h)
  BY <1>0, <1>14
  DEF RecordDelivery, Ack
<1>15. CASE EnterPoll
  BY <1>0, <1>15
  DEF EnterPoll
<1>16. CASE \E h \in Hails : HoldHail(h)
  BY <1>0, <1>16
  DEF HoldHail, Claim
<1>17. CASE \E h \in Hails : ResumeGuard(h)
  BY <1>0, <1>17
  DEF ResumeGuard, Claim
<1>18. CASE \E h \in Hails : SteerHail(h)
  BY <1>0, <1>18
  DEF SteerHail, Claim, IsSteered
<1>19. CASE \E e \in Ends \ {"none"} : TurnEnds(e)
  BY <1>0, <1>19
  DEF TurnEnds
<1>20. CASE ProbeAnswered
  BY <1>0, <1>20
  DEF ProbeAnswered, TextAfterProbe
<1>21. CASE RefeedBrief
  BY <1>0, <1>21
  DEF RefeedBrief, EmptyBrief, Resubmit
<1>22. CASE ResumeAfterFlake
  BY <1>0, <1>22
  DEF ResumeAfterFlake, WithinBudget, ResumesCounted, Resubmit
<1>23. CASE SettleTurn
  BY <1>0, <1>23
  DEF SettleTurn
<1>24. CASE DrainToNextTurn
  BY <1>0, <1>24
  DEF DrainToNextTurn
<1>25. CASE DrainToPark
  <2>1. runs' = runs /\ pc' = "parked"
    BY <1>25 DEF DrainToPark
  <2>2. ASSUME Marks PROVE Reported'
    <3>1. WriteMarker
      BY <1>25, <2>2 DEF DrainToPark
    <3>2. CASE \E told \in Told :
                  results' = results \cup {[run |-> runs, told |-> told]}
      <4>1. PICK told \in Told :
                  results' = results \cup {[run |-> runs, told |-> told]}
        BY <3>2
      <4>2. /\ [run |-> runs, told |-> told] \in results'
            /\ [run |-> runs, told |-> told].run = runs
            /\ [run |-> runs, told |-> told].told = told
        BY <4>1
      <4>3. QED
        BY <4>1, <4>2, <2>1
    <3>3. CASE lost' = lost \cup {runs}
      BY <3>3, <2>1
    <3>4. QED
      BY <3>1, <3>2, <3>3 DEF WriteMarker
  <2>3. ASSUME ~Marks PROVE Reported'
    <3>1. resultWritten
      BY <1>0, <1>25, <2>3 DEF DrainToPark, Marks
    <3>2. results' = results /\ lost' = lost /\ Reported
      BY <1>25, <2>3, <3>1 DEF DrainToPark
    <3>3. QED
      BY <3>2, <2>1
  <2>4. Reported'
    BY <2>2, <2>3
  <2>5. IdleMeansReported'
    BY <1>0, <2>1, <2>4
  <2>6. /\ briefTurnPending' = briefTurnPending
        /\ briefCompleted' = briefCompleted
    BY <1>25 DEF DrainToPark
  <2>7. QED
    BY <1>0, <1>25, <2>1, <2>4, <2>5, <2>6 DEF DrainToPark
<1>26. CASE Wake
  BY <1>0, <1>26
  DEF Wake
<1>27. CASE DecideRetire
  BY <1>0, <1>27
  DEF DecideRetire
<1>28. CASE \E h \in Hails : Send(h)
  BY <1>0, <1>28
  DEF Send, NotProcess
<1>29. CASE \E h \in Hails : Expire(h)
  BY <1>0, <1>29
  DEF Expire, NotProcess
<1>30. CASE UNCHANGED vars
  BY <1>0, <1>30
  DEF vars
<1>31. CASE \E h \in Hails : GiveUpSteer(h)
  BY <1>0, <1>31
  DEF GiveUpSteer, Claim, IsSteered
<1>32. CASE \E h \in Hails : InjectLate(h)
  BY <1>0, <1>32
  DEF InjectLate
<1>33. QED
  BY <1>1, <1>2, <1>3, <1>4, <1>5, <1>6, <1>7, <1>8, <1>9, <1>10, <1>11, <1>12,
     <1>13, <1>14, <1>15, <1>16, <1>17, <1>18, <1>19, <1>20, <1>21, <1>22,
     <1>23, <1>24, <1>25, <1>26, <1>27, <1>28, <1>29, <1>30, <1>31,
     <1>32
  DEF Next, Boot, Delivery, ClaimMail, TurnEnd, Between

\* Every step keeps that only briefed conversations succeed.
LEMMA BriefStep ==
  TypeOK /\ BriefInv /\ [Next]_vars => BriefInv'
<1> SUFFICES ASSUME TypeOK, BriefInv, [Next]_vars PROVE BriefInv'
  OBVIOUS
<1>0. resultWritten \in BOOLEAN /\ startAckPending \in BOOLEAN
  BY DEF TypeOK
<1> USE DEF BriefInv, FreshSuccessIsBriefed, Lives, mail, parent, records,
        flags, claims, harness, given
<1>1. CASE SupervisorError
  BY <1>0, <1>1
  DEF SupervisorError, Exit, Forget, FreshCounters
<1>2. CASE ParentGone
  BY <1>0, <1>2
  DEF ParentGone, Exit, Forget, FreshCounters
<1>3. CASE Timeout
  BY <1>0, <1>3
  DEF Timeout, Exit, Forget, FreshCounters
<1>4. CASE Crash
  BY <1>0, <1>4
  DEF Crash, Exit, Forget, FreshCounters
<1>5. CASE Retire
  BY <1>0, <1>5
  DEF Retire, Exit, Forget, FreshCounters
<1>6. CASE StartTurnFails
  BY <1>0, <1>6
  DEF StartTurnFails, Exit, Forget, FreshCounters
<1>7. CASE ProbeFailed
  BY <1>0, <1>7
  DEF ProbeFailed, Exit, Forget, FreshCounters
<1>8. CASE BriefEmptyTwice
  BY <1>0, <1>8
  DEF BriefEmptyTwice, Exit, Forget, FreshCounters
<1>9. CASE DrainToExit
  BY <1>0, <1>9
  DEF DrainToExit, Exit, Forget, FreshCounters
<1>10. CASE BootFresh
  BY <1>0, <1>10
  DEF BootFresh, FreshCounters
<1>11. CASE Restart
  BY <1>0, <1>11
  DEF Restart
<1>12. CASE BootResumed
  BY <1>0, <1>12
  DEF BootResumed, FreshCounters
<1>13. CASE StartTurn
  BY <1>0, <1>13
  DEF StartTurn
<1>14. CASE \E h \in Hails : RecordDelivery(h)
  BY <1>0, <1>14
  DEF RecordDelivery, Ack
<1>15. CASE EnterPoll
  BY <1>0, <1>15
  DEF EnterPoll
<1>16. CASE \E h \in Hails : HoldHail(h)
  BY <1>0, <1>16
  DEF HoldHail, Claim
<1>17. CASE \E h \in Hails : ResumeGuard(h)
  BY <1>0, <1>17
  DEF ResumeGuard, Claim
<1>18. CASE \E h \in Hails : SteerHail(h)
  BY <1>0, <1>18
  DEF SteerHail, Claim, IsSteered
<1>19. CASE \E e \in Ends \ {"none"} : TurnEnds(e)
  BY <1>0, <1>19
  DEF TurnEnds
<1>20. CASE ProbeAnswered
  BY <1>0, <1>20
  DEF ProbeAnswered, TextAfterProbe
<1>21. CASE RefeedBrief
  BY <1>0, <1>21
  DEF RefeedBrief, EmptyBrief, Resubmit
<1>22. CASE ResumeAfterFlake
  BY <1>0, <1>22
  DEF ResumeAfterFlake, WithinBudget, ResumesCounted, Resubmit
<1>23. CASE SettleTurn
  BY <1>0, <1>23
  DEF SettleTurn
<1>24. CASE DrainToNextTurn
  BY <1>0, <1>24
  DEF DrainToNextTurn
<1>25. CASE DrainToPark
  BY <1>0, <1>25
  DEF DrainToPark, Marks, WriteMarker
<1>26. CASE Wake
  BY <1>0, <1>26
  DEF Wake
<1>27. CASE DecideRetire
  BY <1>0, <1>27
  DEF DecideRetire
<1>28. CASE \E h \in Hails : Send(h)
  BY <1>0, <1>28
  DEF Send, NotProcess
<1>29. CASE \E h \in Hails : Expire(h)
  BY <1>0, <1>29
  DEF Expire, NotProcess
<1>30. CASE UNCHANGED vars
  BY <1>0, <1>30
  DEF vars
<1>31. CASE \E h \in Hails : GiveUpSteer(h)
  BY <1>0, <1>31
  DEF GiveUpSteer, Claim, IsSteered
<1>32. CASE \E h \in Hails : InjectLate(h)
  BY <1>0, <1>32
  DEF InjectLate
<1>33. QED
  BY <1>1, <1>2, <1>3, <1>4, <1>5, <1>6, <1>7, <1>8, <1>9, <1>10, <1>11, <1>12,
     <1>13, <1>14, <1>15, <1>16, <1>17, <1>18, <1>19, <1>20, <1>21, <1>22,
     <1>23, <1>24, <1>25, <1>26, <1>27, <1>28, <1>29, <1>30, <1>31,
     <1>32
  DEF Next, Boot, Delivery, ClaimMail, TurnEnd, Between

\* Every step of the supervisor is a step of the ledger, or leaves it alone.
LEMMA LedgerStep ==
  TypeOK /\ ClaimInv /\ [Next]_vars => [Ledger!Next]_(Ledger!ledger)
<1> SUFFICES ASSUME TypeOK, ClaimInv, [Next]_vars
             PROVE  Ledger!Next \/ UNCHANGED Ledger!ledger
  OBVIOUS
<1> USE DEF ClaimInv, mail, parent, records, flags, claims, harness, given,
        Ledger!Next, Ledger!ledger
<1>1. CASE SupervisorError
  BY <1>1
  DEF SupervisorError, Exit, Forget, FreshCounters, Ledger!ProcessGone
<1>2. CASE ParentGone
  BY <1>2
  DEF ParentGone, Exit, Forget, FreshCounters, Ledger!ProcessGone
<1>3. CASE Timeout
  BY <1>3
  DEF Timeout, Exit, Forget, FreshCounters, Ledger!ProcessGone
<1>4. CASE Crash
  BY <1>4
  DEF Crash, Exit, Forget, FreshCounters, Ledger!ProcessGone
<1>5. CASE Retire
  BY <1>5
  DEF Retire, Exit, Forget, FreshCounters, Ledger!ProcessGone
<1>6. CASE StartTurnFails
  BY <1>6
  DEF StartTurnFails, Exit, Forget, FreshCounters, Ledger!ProcessGone
<1>7. CASE ProbeFailed
  BY <1>7
  DEF ProbeFailed, Exit, Forget, FreshCounters, Ledger!ProcessGone
<1>8. CASE BriefEmptyTwice
  BY <1>8
  DEF BriefEmptyTwice, Exit, Forget, FreshCounters, Ledger!ProcessGone
<1>9. CASE DrainToExit
  BY <1>9
  DEF DrainToExit, Exit, Forget, FreshCounters, Ledger!ProcessGone
<1>10. CASE BootFresh
  BY <1>10
  DEF BootFresh, FreshCounters
<1>11. CASE Restart
  BY <1>11
  DEF Restart
<1>12. CASE BootResumed
  BY <1>12
  DEF BootResumed, FreshCounters
<1>13. CASE StartTurn
  BY <1>13
  DEF StartTurn, Ledger!HandOver, TypeOK
<1>14. CASE \E h \in Hails : RecordDelivery(h)
  BY <1>14
  DEF RecordDelivery, Ack, Ledger!Acknowledge
<1>15. CASE EnterPoll
  BY <1>15
  DEF EnterPoll
<1>16. CASE \E h \in Hails : HoldHail(h)
  BY <1>16
  DEF HoldHail, Claim
<1>17. CASE \E h \in Hails : ResumeGuard(h)
  BY <1>17
  DEF ResumeGuard, Claim
<1>18. CASE \E h \in Hails : SteerHail(h)
  BY <1>18
  DEF SteerHail, Claim, IsSteered, Ledger!HandOver, Pending
<1>19. CASE \E e \in Ends \ {"none"} : TurnEnds(e)
  BY <1>19
  DEF TurnEnds
<1>20. CASE ProbeAnswered
  BY <1>20
  DEF ProbeAnswered, TextAfterProbe
<1>21. CASE RefeedBrief
  BY <1>21
  DEF RefeedBrief, EmptyBrief, Resubmit
<1>22. CASE ResumeAfterFlake
  BY <1>22
  DEF ResumeAfterFlake, WithinBudget, ResumesCounted, Resubmit
<1>23. CASE SettleTurn
  BY <1>23
  DEF SettleTurn
<1>24. CASE DrainToNextTurn
  BY <1>24
  DEF DrainToNextTurn
<1>25. CASE DrainToPark
  BY <1>25
  DEF DrainToPark, Marks, WriteMarker
<1>26. CASE Wake
  BY <1>26
  DEF Wake
<1>27. CASE DecideRetire
  BY <1>27
  DEF DecideRetire
<1>28. CASE \E h \in Hails : Send(h)
  BY <1>28
  DEF Send, NotProcess, Ledger!Send
<1>29. CASE \E h \in Hails : Expire(h)
  BY <1>29
  DEF Expire, NotProcess
<1>30. CASE UNCHANGED vars
  BY <1>30
  DEF vars
<1>31. CASE \E h \in Hails : GiveUpSteer(h)
  BY <1>31
  DEF GiveUpSteer, Claim, IsSteered, Ledger!Doubt, Pending
<1>32. CASE \E h \in Hails : InjectLate(h)
  BY <1>32
  DEF InjectLate, Ledger!InjectLate
<1>33. QED
  BY <1>1, <1>2, <1>3, <1>4, <1>5, <1>6, <1>7, <1>8, <1>9, <1>10, <1>11, <1>12,
     <1>13, <1>14, <1>15, <1>16, <1>17, <1>18, <1>19, <1>20, <1>21, <1>22,
     <1>23, <1>24, <1>25, <1>26, <1>27, <1>28, <1>29, <1>30, <1>31,
     <1>32
  DEF Next, Boot, Delivery, ClaimMail, TurnEnd, Between

LEMMA InitInv == Init => TypeOK /\ ClaimInv /\ ReportInv /\ BriefInv
<1> SUFFICES ASSUME Init PROVE TypeOK /\ ClaimInv /\ ReportInv /\ BriefInv
  OBVIOUS
<1>1. TypeOK
  <2>1. /\ 0 \in 0..FlakeResumeCap /\ 0 \in 0..EmptyBriefRefeeds
        /\ 1 \in 1..MaxRuns
    BY LaneAssumption
  <2>2. QED
    BY <2>1 DEF Init, TypeOK, Places, Texts, Ends
<1>2. ClaimInv
  BY DEF Init, ClaimInv, NoClaimForgotten
<1>3. ReportInv /\ BriefInv
  BY DEF Init, ReportInv, Reported, IdleMeansReported, BriefInv, FreshSuccessIsBriefed,
         Lives
<1>4. QED
  BY <1>1, <1>2, <1>3

\* The retry budgets, the rows and every list keep their bounds and shapes.
THEOREM TypeCorrect == Spec => []TypeOK
BY InitInv, TypeStep, PTL DEF Spec

LEMMA ClaimsHold == Spec => []ClaimInv
BY InitInv, ClaimStep, TypeCorrect, PTL DEF Spec

\* A claimed hail is handed over or still waits (supervise.rs:588).
THEOREM ClaimsKept == Spec => []NoClaimForgotten
<1>1. ClaimInv => NoClaimForgotten
  BY DEF ClaimInv
<1>2. QED
  BY <1>1, ClaimsHold, PTL

\* No ack before delivery, no delivery after an ack, one delivery a process,
\* and a late injection only of a steer this process gave up on: the supervisor
\* implements the ledger.
THEOREM ImplementsLedger == Spec => LedgerSpec
<1>1. Init => Ledger!Init
  BY DEF Init, Ledger!Init
<1>2. QED
  BY <1>1, LedgerStep, TypeCorrect, ClaimsHold, PTL
  DEF Spec, LedgerSpec, Ledger!Spec

\* A lane is idle or retired only with a marker of its in the parent's mail, or
\* one whose append failed.
THEOREM IdleReported == Spec => []IdleMeansReported
<1>1. ReportInv => IdleMeansReported
  BY DEF ReportInv
<1>2. QED
  BY <1>1, InitInv, ReportStep, TypeCorrect, PTL DEF Spec

\* A process that was given no conversation reports success only from one that
\* was fed the brief.
THEOREM FreshSuccess == Spec => []FreshSuccessIsBriefed
<1>1. TypeOK /\ BriefInv /\ [Next]_vars => BriefInv'
  BY BriefStep
<1>2. BriefInv => FreshSuccessIsBriefed
  BY DEF BriefInv
<1>3. QED
  BY <1>1, <1>2, InitInv, TypeCorrect, PTL DEF Spec

\* No step opens a turn with a reminder that had expired (supervise.rs:605-606).
THEOREM ExpiredStaysOut == Spec => ExpiredReminderStaysOut
<1> DEFINE Out == opening' \subseteq opening \/ opening' \cap expired = {}
<1>1. ASSUME TypeOK, [Next]_vars PROVE Out
  <2>1. expired \subseteq Reminders
    BY <1>1 DEF TypeOK
  <2> USE <1>1 DEF mail, parent, records, flags, claims,
        harness, given, Pending,
                   StillActive, Batch, Exit, Forget, FreshCounters, Claim, Resubmit, NotProcess
  <2>2. CASE BootResumed \/ ProbeAnswered \/ DrainToNextTurn \/ Wake
    BY <2>1, <2>2 DEF BootResumed, ProbeAnswered, DrainToNextTurn, Wake
  <2>3. CASE opening' \subseteq opening
    BY <2>3
  <2>4. QED
    BY <2>2, <2>3
    DEF Next, Boot, Delivery, ClaimMail, TurnEnd, Between, SupervisorError,
        ParentGone, Timeout, Crash, Retire, StartTurnFails, ProbeFailed,
        BriefEmptyTwice, DrainToExit, BootFresh, Restart, StartTurn,
        RecordDelivery, EnterPoll, HoldHail, ResumeGuard, SteerHail, TurnEnds,
        GiveUpSteer, InjectLate, WriteMarker, given,
        RefeedBrief, ResumeAfterFlake, SettleTurn, DrainToPark, DecideRetire,
        Send, Expire, vars
<1>2. TypeOK /\ [Next]_vars => [Out]_vars
  BY <1>1
<1>3. QED
  BY <1>2, TypeCorrect, PTL DEF Spec, ExpiredReminderStaysOut
===========================================================================
