------------------------ MODULE ReminderClaimsProofs ------------------------
(***************************************************************************)
(* Proofs about ReminderClaims, for any number of reminders, envelopes,    *)
(* faults and observers.  The runner is one, but it dies anywhere; what    *)
(* the next one may conclude rests on the newest outcome of an envelope.   *)
(***************************************************************************)
EXTENDS ReminderClaims, TLAPS

Entering == {"check", "lock", "admitted"}

\* A call without its outcome leaves the words of the claim or of the retry,
\* which no retry takes; an attempt on its way to the door has no such call.
UncertainInv ==
  /\ \A e \in unanswered : latest[e] \notin RefusedWords
  /\ pc \in Entering =>
       envelope \notin unanswered /\ latest[envelope] \notin RefusedWords


\* Whether the attempt may still put its body into the session.
Offering == Entering \cup {"calling"}

\* The bodies a session holds that the claims of others may count.
Heard == {e \in taken : ~Denied(e)}

\* At work: such a body stays the last of some reminder until it is released.
WorkInv ==
  /\ \A e \in taken : Released(e) \/ \E n \in Names : last[n] = e
  /\ \A e \in minted :
       latest[e] # "none" /\ (latest[e] = "ended" => "ended" \in past[e])

\* An attempt is for the last envelope of its reminder, with the word of its
\* claim or its retry.
AttemptInv ==
  /\ envelope \in minted => envelope = last[name]
  /\ pc \in Offering \cup {"record"} =>
       latest[envelope] \in OutstandingWords \cup {"ended"}
  /\ pc = "record" => answer # "none"

\* One reminder is active, and one that replaces another has no envelope until
\* the other's is released.
ReplaceInv ==
  /\ \A m, n \in Names : Active(m) /\ Active(n) => m = n
  /\ \A n \in Names : state[n] = "unborn" => last[n] = NoEnvelope
  /\ \A n \in Names : Active(n) /\ last[n] # NoEnvelope =>
       /\ pc \in Offering => n = name
       /\ \A f \in Heard : f = last[n] \/ Released(f)
  /\ pc \in Offering => \A f \in Heard : f = envelope \/ Released(f)

\* Of the bodies on record one is unreleased.
OneHeard == \A e, f \in Heard : e # f => Released(e) \/ Released(f)

OneInv == WorkInv /\ AttemptInv /\ ReplaceInv /\ OneHeard
-----------------------------------------------------------------------------

\* Every step keeps the type of every variable.
LEMMA TypeStep == TypeOK /\ [Next]_vars => TypeOK'
<1> SUFFICES ASSUME TypeOK, [Next]_vars PROVE TypeOK'
  OBVIOUS
<1> USE ReminderAssumption
    DEF ReminderAssumption, TypeOK, schedule, rows, receipts, runner, threads,
        session, States, Places, Outcomes, Lasting, Answers
<1>1. ASSUME NEW n \in Names, Add(n)
      PROVE  TypeOK'
  BY <1>1 DEF Add, OnlySchedule, Active
<1>2. ASSUME NEW n \in Names, Over(n)
      PROVE  TypeOK'
  BY <1>2 DEF Over, OnlySchedule, Active
<1>3. ASSUME NEW n \in Names, FallsDue(n)
      PROVE  TypeOK'
  BY <1>3 DEF FallsDue, OnlySchedule, Active
<1>4. CASE Start
  BY <1>4 DEF Start, Rest
<1>5. CASE Exit
  BY <1>5 DEF Exit, Rest
<1>6. CASE Crash
  <2>1. faults' \in 0..MaxFaults
    BY <1>6 DEF Crash
  <2> QED
    BY <1>6, <2>1 DEF Crash, Rest
<1>7. ASSUME NEW n \in Names, Tick(n)
      PROVE  TypeOK'
  BY <1>7 DEF Tick, Active
<1>8. ASSUME NEW e \in Envelopes, Claim(e)
      PROVE  TypeOK'
  BY <1>8 DEF Claim, Claimable, Active, Outstanding, Released,
              OutstandingWords, Transition
<1>9. CASE NoClaim
  BY <1>9 DEF NoClaim
<1>10. CASE Retry
  BY <1>10 DEF Retry, Retryable, Active, RefusedWords, RetryRecorded,
               Transition
<1>11. CASE NoRetry
  BY <1>11 DEF NoRetry, ToObserve
<1>12. CASE CheckActive
  BY <1>12 DEF CheckActive, NotAttempt
<1>13. CASE TurnedAway
  BY <1>13 DEF TurnedAway, Transition, ToObserve, NotAttempt
<1>14. CASE Enter
  BY <1>14 DEF Enter, NotAttempt
<1>15. CASE AlreadyAccepted
  BY <1>15 DEF AlreadyAccepted, ToObserve, NotAttempt
<1>16. ASSUME NEW a \in Answers, LandShort(a)
      PROVE  TypeOK'
  BY <1>16 DEF LandShort, MayLand, NotAttempt
<1>17. CASE CallDoor
  BY <1>17 DEF CallDoor, MayLand, NotAttempt
<1>18. ASSUME NEW a \in Answers, DoorAnswers(a)
      PROVE  TypeOK'
  BY <1>18 DEF DoorAnswers, NotAttempt
<1>19. CASE Record
  BY <1>19 DEF Record, Transition, ToObserve, NotAttempt
<1>20. CASE Stamp
  BY <1>20 DEF Stamp, ToObserve, NotAttempt
<1>21. CASE Errs
  BY <1>21 DEF Errs, ToObserve, NotAttempt
<1>22. CASE Watch
  BY <1>22 DEF Watch, Rest, AwaitsTurnEnd
<1>23. CASE NoWatch
  BY <1>23 DEF NoWatch, Rest
<1>24. ASSUME NEW e \in Envelopes, LoseWatch(e)
      PROVE  TypeOK'
  BY <1>24 DEF LoseWatch
<1>25. ASSUME NEW e \in Envelopes, RecordTurnEnd(e)
      PROVE  TypeOK'
  BY <1>25 DEF RecordTurnEnd, Transition
<1>26. CASE SessionWorks \/ SessionIdles
  BY <1>26 DEF SessionWorks, SessionIdles
<1>27. ASSUME NEW e \in Envelopes, Reply(e)
      PROVE  TypeOK'
  BY <1>27 DEF Reply
<1>28. ASSUME NEW e \in Envelopes, AckRow(e)
      PROVE  TypeOK'
  BY <1>28 DEF AckRow
<1>29. CASE UNCHANGED vars
  BY <1>29 DEF vars
<1> QED
  BY <1>1, <1>2, <1>3, <1>4, <1>5, <1>6, <1>7, <1>8, <1>9, <1>10, <1>11,
     <1>12, <1>13, <1>14, <1>15, <1>16, <1>17, <1>18, <1>19, <1>20, <1>21,
     <1>22, <1>23, <1>24, <1>25, <1>26, <1>27, <1>28, <1>29 DEF Next,
     RunnerSteps, Attempt, Observe

\* The shape of every variable, and of an attempt with its envelope
\* (cli/1_reminder.rs, 1_reminder.rs).
THEOREM TypeCorrect == Spec => []TypeOK
<1>1. ASSUME Init PROVE TypeOK
  <2> USE <1>1, ReminderAssumption
      DEF ReminderAssumption, Init, States, Places, Outcomes, Lasting, Answers
  <2>1. /\ state \in [Names -> States] /\ due \in BOOLEAN
        /\ last \in [Names -> minted \cup {NoEnvelope}]
    OBVIOUS
  <2>2. /\ latest \in [Envelopes -> Outcomes \cup {"none"}]
        /\ past \in [Envelopes -> SUBSET Lasting]
    OBVIOUS
  <2>3. /\ name \in Names <=> pc \notin {"down", "tick"}
        /\ envelope \in minted <=>
             pc \in {"check", "lock", "admitted", "calling", "record", "stamp"}
    OBVIOUS
  <2>4. faults \in 0..MaxFaults
    OBVIOUS
  <2> QED
    BY <2>1, <2>2, <2>3, <2>4 DEF TypeOK
<1> QED
  BY <1>1, TypeStep, PTL DEF Spec
-----------------------------------------------------------------------------

\* The account of uncertain calls is kept.
LEMMA UncertainStep == TypeOK /\ UncertainInv /\ [Next]_vars => UncertainInv'
<1> SUFFICES ASSUME TypeOK /\ UncertainInv, [Next]_vars PROVE UncertainInv'
  OBVIOUS
<1> USE ReminderAssumption
    DEF ReminderAssumption, TypeOK, UncertainInv, Entering, schedule, rows, receipts, runner, threads,
        session, RefusedWords, States, Places, Outcomes, Lasting, Answers
<1>1. ASSUME NEW n \in Names, Add(n)
      PROVE  UncertainInv'
  BY <1>1 DEF Add, OnlySchedule, Active
<1>2. ASSUME NEW n \in Names, Over(n)
      PROVE  UncertainInv'
  BY <1>2 DEF Over, OnlySchedule, Active
<1>3. ASSUME NEW n \in Names, FallsDue(n)
      PROVE  UncertainInv'
  BY <1>3 DEF FallsDue, OnlySchedule, Active
<1>4. CASE Start
  BY <1>4 DEF Start, Rest
<1>5. CASE Exit
  BY <1>5 DEF Exit, Rest
<1>6. CASE Crash
  BY <1>6 DEF Crash, Rest
<1>7. ASSUME NEW n \in Names, Tick(n)
      PROVE  UncertainInv'
  BY <1>7 DEF Tick, Active
<1>8. ASSUME NEW e \in Envelopes, Claim(e)
      PROVE  UncertainInv'
  BY <1>8 DEF Claim, Claimable, Active, Outstanding, Released,
              OutstandingWords, Transition
<1>9. CASE NoClaim
  BY <1>9 DEF NoClaim
<1>10. CASE Retry
  BY <1>10 DEF Retry, Retryable, Active, RefusedWords, RetryRecorded,
               Transition
<1>11. CASE NoRetry
  BY <1>11 DEF NoRetry, ToObserve
<1>12. CASE CheckActive
  BY <1>12 DEF CheckActive, NotAttempt
<1>13. CASE TurnedAway
  BY <1>13 DEF TurnedAway, Transition, ToObserve, NotAttempt
<1>14. CASE Enter
  BY <1>14 DEF Enter, NotAttempt
<1>15. CASE AlreadyAccepted
  BY <1>15 DEF AlreadyAccepted, ToObserve, NotAttempt
<1>16. ASSUME NEW a \in Answers, LandShort(a)
      PROVE  UncertainInv'
  BY <1>16 DEF LandShort, MayLand, NotAttempt
<1>17. CASE CallDoor
  BY <1>17 DEF CallDoor, MayLand, NotAttempt
<1>18. ASSUME NEW a \in Answers, DoorAnswers(a)
      PROVE  UncertainInv'
  BY <1>18 DEF DoorAnswers, NotAttempt
<1>19. CASE Record
  BY <1>19 DEF Record, Transition, ToObserve, NotAttempt
<1>20. CASE Stamp
  BY <1>20 DEF Stamp, ToObserve, NotAttempt
<1>21. CASE Errs
  BY <1>21 DEF Errs, ToObserve, NotAttempt
<1>22. CASE Watch
  BY <1>22 DEF Watch, Rest, AwaitsTurnEnd
<1>23. CASE NoWatch
  BY <1>23 DEF NoWatch, Rest
<1>24. ASSUME NEW e \in Envelopes, LoseWatch(e)
      PROVE  UncertainInv'
  BY <1>24 DEF LoseWatch
<1>25. ASSUME NEW e \in Envelopes, RecordTurnEnd(e)
      PROVE  UncertainInv'
  BY <1>25 DEF RecordTurnEnd, Transition
<1>26. CASE SessionWorks \/ SessionIdles
  BY <1>26 DEF SessionWorks, SessionIdles
<1>27. ASSUME NEW e \in Envelopes, Reply(e)
      PROVE  UncertainInv'
  BY <1>27 DEF Reply
<1>28. ASSUME NEW e \in Envelopes, AckRow(e)
      PROVE  UncertainInv'
  BY <1>28 DEF AckRow
<1>29. CASE UNCHANGED vars
  BY <1>29 DEF vars
<1> QED
  BY <1>1, <1>2, <1>3, <1>4, <1>5, <1>6, <1>7, <1>8, <1>9, <1>10, <1>11,
     <1>12, <1>13, <1>14, <1>15, <1>16, <1>17, <1>18, <1>19, <1>20, <1>21,
     <1>22, <1>23, <1>24, <1>25, <1>26, <1>27, <1>28, <1>29 DEF Next,
     RunnerSteps, Attempt, Observe

\* No runner puts an envelope through the door again whose call left no outcome
\* on record (reminder_retry, cli/1_reminder.rs:161-162).
THEOREM UncertainStays == Spec => UncertainIsNotReplayed
<1>1. Init => UncertainInv
  BY DEF Init, UncertainInv, Entering
<1>2. UncertainInv /\ [Next]_vars
        => [CallDoor => envelope \notin unanswered]_vars
  BY DEF UncertainInv, Entering, CallDoor, MayLand
<1> QED
  BY <1>1, <1>2, TypeCorrect, UncertainStep, PTL
     DEF Spec, UncertainIsNotReplayed
-----------------------------------------------------------------------------

\* At most one body is at work after each step.
LEMMA OneStep == TypeOK /\ TypeOK' /\ OneInv /\ [Next]_vars => OneInv'
<1> SUFFICES ASSUME TypeOK /\ TypeOK' /\ OneInv, [Next]_vars PROVE OneInv'
  OBVIOUS
<1> USE ReminderAssumption
    DEF ReminderAssumption, TypeOK, schedule, rows, receipts, runner, threads,
        session, States, Places, Outcomes, Lasting, Answers, Entering, Offering,
        Active, Released, OutstandingWords, RefusedWords, Heard, Denied
<1>1. ASSUME NEW n \in Names, Add(n)
      PROVE  OneInv'
  BY <1>1 DEF Add, OnlySchedule, OneInv, WorkInv, AttemptInv, ReplaceInv,
          OneHeard
<1>2. ASSUME NEW n \in Names, Over(n)
      PROVE  OneInv'
  BY <1>2 DEF Over, OnlySchedule, OneInv, WorkInv, AttemptInv, ReplaceInv,
          OneHeard
<1>3. ASSUME NEW n \in Names, FallsDue(n)
      PROVE  OneInv'
  BY <1>3 DEF FallsDue, OnlySchedule, OneInv, WorkInv, AttemptInv, ReplaceInv,
          OneHeard
<1>4. CASE Start
  BY <1>4 DEF Start, Rest, OneInv, WorkInv, AttemptInv, ReplaceInv,
          OneHeard
<1>5. CASE Exit
  BY <1>5 DEF Exit, Rest, OneInv, WorkInv, AttemptInv, ReplaceInv,
          OneHeard
<1>6. CASE Crash
  BY <1>6 DEF Crash, Rest, OneInv, WorkInv, AttemptInv, ReplaceInv,
          OneHeard
<1>7. ASSUME NEW n \in Names, Tick(n)
      PROVE  OneInv'
  BY <1>7 DEF Tick, OneInv, WorkInv, AttemptInv, ReplaceInv, OneHeard
<1>8. ASSUME NEW e \in Envelopes, Claim(e)
      PROVE  OneInv'
  <2> USE <1>8 DEF Claim, Claimable, Outstanding, Transition
  <2>1. WorkInv'
    BY DEF OneInv, WorkInv, AttemptInv, ReplaceInv, OneHeard
  <2>2. AttemptInv'
    BY DEF OneInv, WorkInv, AttemptInv, ReplaceInv, OneHeard
  <2>3. ReplaceInv'
    <3>1. \A f \in Heard : Released(f)
      BY DEF OneInv, WorkInv
    <3>2. \A f \in Heard : Released(f)'
      BY <3>1
    <3>3. \A n \in Names : Active(n)' => n = name
      BY DEF OneInv, ReplaceInv
    <3> QED
      BY <3>2, <3>3 DEF OneInv, ReplaceInv
  <2>4. OneHeard'
    BY DEF OneInv, WorkInv, AttemptInv, ReplaceInv, OneHeard
  <2> QED
    BY <2>1, <2>2, <2>3, <2>4 DEF OneInv
<1>9. CASE NoClaim
  BY <1>9 DEF NoClaim, OneInv, WorkInv, AttemptInv, ReplaceInv,
          OneHeard
<1>10. CASE Retry
  <2> USE <1>10 DEF Retry, Retryable, RetryRecorded, Transition
  <2>1. WorkInv'
    BY DEF OneInv, WorkInv, AttemptInv, ReplaceInv, OneHeard
  <2>2. AttemptInv'
    BY DEF OneInv, WorkInv, AttemptInv, ReplaceInv, OneHeard
  <2>3. \A f \in Heard' : f = envelope' \/ Released(f)'
    <3>1. \A f \in Heard : f = last[name] \/ Released(f)
      BY DEF OneInv, ReplaceInv
    <3>2. Heard' \subseteq Heard \cup {envelope'}
      OBVIOUS
    <3> QED
      BY <3>1, <3>2
  <2>4. ReplaceInv'
    <3>1. \A n \in Names : Active(n)' => n = name
      BY DEF OneInv, ReplaceInv
    <3> QED
      BY <2>3, <3>1 DEF OneInv, ReplaceInv
  <2>5. OneHeard'
    BY <2>3 DEF OneHeard
  <2> QED
    BY <2>1, <2>2, <2>4, <2>5 DEF OneInv
<1>11. CASE NoRetry
  BY <1>11 DEF NoRetry, ToObserve, OneInv, WorkInv, AttemptInv, ReplaceInv,
          OneHeard
<1>12. CASE CheckActive
  BY <1>12 DEF CheckActive, NotAttempt, OneInv, WorkInv, AttemptInv, ReplaceInv,
          OneHeard
<1>13. CASE TurnedAway
  <2> USE <1>13 DEF TurnedAway, Transition, ToObserve, NotAttempt
  <2>1. WorkInv'
    BY DEF OneInv, WorkInv, AttemptInv, ReplaceInv, OneHeard
  <2>2. AttemptInv'
    BY DEF OneInv, WorkInv, AttemptInv, ReplaceInv, OneHeard
  <2>3. ReplaceInv'
    BY DEF OneInv, WorkInv, AttemptInv, ReplaceInv, OneHeard
  <2>4. OneHeard'
    BY DEF OneInv, WorkInv, AttemptInv, ReplaceInv, OneHeard
  <2> QED
    BY <2>1, <2>2, <2>3, <2>4 DEF OneInv
<1>14. CASE Enter
  BY <1>14 DEF Enter, NotAttempt, OneInv, WorkInv, AttemptInv, ReplaceInv,
          OneHeard
<1>15. CASE AlreadyAccepted
  BY <1>15 DEF AlreadyAccepted, ToObserve, NotAttempt, OneInv, WorkInv,
          AttemptInv, ReplaceInv, OneHeard
<1>16. ASSUME NEW a \in Answers, LandShort(a)
      PROVE  OneInv'
  BY <1>16 DEF LandShort, MayLand, NotAttempt, OneInv, WorkInv, AttemptInv,
          ReplaceInv, OneHeard
<1>17. CASE CallDoor
  BY <1>17 DEF CallDoor, MayLand, NotAttempt, OneInv, WorkInv, AttemptInv,
          ReplaceInv, OneHeard
<1>18. ASSUME NEW a \in Answers, DoorAnswers(a)
      PROVE  OneInv'
  <2> USE <1>18 DEF DoorAnswers, NotAttempt
  <2>1. WorkInv'
    BY DEF OneInv, WorkInv, AttemptInv, ReplaceInv, OneHeard
  <2>2. AttemptInv'
    BY DEF OneInv, WorkInv, AttemptInv, ReplaceInv, OneHeard
  <2>3. ReplaceInv'
    BY DEF OneInv, WorkInv, AttemptInv, ReplaceInv, OneHeard
  <2>4. OneHeard'
    BY DEF OneInv, WorkInv, AttemptInv, ReplaceInv, OneHeard
  <2> QED
    BY <2>1, <2>2, <2>3, <2>4 DEF OneInv
<1>19. CASE Record
  <2> USE <1>19 DEF Record, Transition, ToObserve, NotAttempt
  <2>1. WorkInv'
    BY DEF OneInv, WorkInv, AttemptInv, ReplaceInv, OneHeard
  <2>2. AttemptInv'
    BY DEF OneInv, WorkInv, AttemptInv, ReplaceInv, OneHeard
  <2>3. ReplaceInv'
    BY DEF OneInv, WorkInv, AttemptInv, ReplaceInv, OneHeard
  <2>4. OneHeard'
    BY DEF OneInv, WorkInv, AttemptInv, ReplaceInv, OneHeard
  <2> QED
    BY <2>1, <2>2, <2>3, <2>4 DEF OneInv
<1>20. CASE Stamp
  BY <1>20 DEF Stamp, ToObserve, NotAttempt, OneInv, WorkInv, AttemptInv,
          ReplaceInv, OneHeard
<1>21. CASE Errs
  BY <1>21 DEF Errs, ToObserve, NotAttempt, OneInv, WorkInv, AttemptInv,
          ReplaceInv, OneHeard
<1>22. CASE Watch
  BY <1>22 DEF Watch, Rest, AwaitsTurnEnd, OneInv, WorkInv, AttemptInv,
          ReplaceInv, OneHeard
<1>23. CASE NoWatch
  BY <1>23 DEF NoWatch, Rest, OneInv, WorkInv, AttemptInv, ReplaceInv,
          OneHeard
<1>24. ASSUME NEW e \in Envelopes, LoseWatch(e)
      PROVE  OneInv'
  BY <1>24 DEF LoseWatch, OneInv, WorkInv, AttemptInv, ReplaceInv,
          OneHeard
<1>25. ASSUME NEW e \in Envelopes, RecordTurnEnd(e)
      PROVE  OneInv'
  <2> USE <1>25 DEF RecordTurnEnd, Transition
  <2>1. WorkInv'
    BY DEF OneInv, WorkInv, AttemptInv, ReplaceInv, OneHeard
  <2>2. AttemptInv'
    BY DEF OneInv, WorkInv, AttemptInv, ReplaceInv, OneHeard
  <2>3. ReplaceInv'
    BY DEF OneInv, WorkInv, AttemptInv, ReplaceInv, OneHeard
  <2>4. OneHeard'
    BY DEF OneInv, WorkInv, AttemptInv, ReplaceInv, OneHeard
  <2> QED
    BY <2>1, <2>2, <2>3, <2>4 DEF OneInv
<1>26. CASE SessionWorks \/ SessionIdles
  BY <1>26 DEF SessionWorks, SessionIdles, OneInv, WorkInv, AttemptInv, ReplaceInv,
          OneHeard
<1>27. ASSUME NEW e \in Envelopes, Reply(e)
      PROVE  OneInv'
  BY <1>27 DEF Reply, OneInv, WorkInv, AttemptInv, ReplaceInv, OneHeard
<1>28. ASSUME NEW e \in Envelopes, AckRow(e)
      PROVE  OneInv'
  BY <1>28 DEF AckRow, OneInv, WorkInv, AttemptInv, ReplaceInv,
          OneHeard
<1>29. CASE UNCHANGED vars
  BY <1>29 DEF vars, OneInv, WorkInv, AttemptInv, ReplaceInv,
               OneHeard
<1> QED
  BY <1>1, <1>2, <1>3, <1>4, <1>5, <1>6, <1>7, <1>8, <1>9, <1>10, <1>11,
     <1>12, <1>13, <1>14, <1>15, <1>16, <1>17, <1>18, <1>19, <1>20, <1>21,
     <1>22, <1>23, <1>24, <1>25, <1>26, <1>27, <1>28, <1>29 DEF Next,
     RunnerSteps, Attempt, Observe

\* A session works on one occurrence at a time, over reminders that replace one
\* another and runners that die, unless the record denies that it has a body whose
\* reminder is over (cli/1_reminder.rs:35-36, reminder_claim).
THEOREM OneAtWork == Spec => []OneOccurrenceAtWork
<1>1. Init => OneInv
  BY ReminderAssumption DEF ReminderAssumption, Init, OneInv, WorkInv, AttemptInv,
     ReplaceInv, OneHeard, Heard, Active, Entering, Offering
<1>2. TypeOK /\ OneInv => OneOccurrenceAtWork
  <2> SUFFICES ASSUME TypeOK, OneInv, NEW e \in taken, NEW f \in taken, e # f,
                      ~Released(e), ~Released(f)
               PROVE  \E g \in {e, f} : Denied(g) /\ ~MessageActive(g)
    BY DEF OneOccurrenceAtWork
  <2> USE ReminderAssumption DEF ReminderAssumption, TypeOK
  <2>1. ~(MessageActive(e) /\ MessageActive(f))
    BY DEF OneInv, ReplaceInv, MessageActive
  <2>2. Denied(e) \/ Denied(f)
    BY DEF OneInv, OneHeard, Heard
  <2>3. ASSUME NEW g \in taken, NEW h \in taken, g # h, ~Released(h),
               MessageActive(g), ~Denied(h)
        PROVE  FALSE
    <3>1. PICK n \in Names : Active(n) /\ last[n] = g
      BY <2>3 DEF MessageActive
    <3>2. h \in Heard /\ g # NoEnvelope
      BY <2>3 DEF Heard
    <3> QED
      BY <2>3, <3>1, <3>2 DEF OneInv, ReplaceInv
  <2> QED
    BY <2>1, <2>2, <2>3
<1> QED
  BY <1>1, <1>2, TypeCorrect, OneStep, PTL DEF Spec
=============================================================================
