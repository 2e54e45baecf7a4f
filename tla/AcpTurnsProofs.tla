--------------------------- MODULE AcpTurnsProofs ---------------------------
(***************************************************************************)
(* Proofs about AcpTurns, for any mail and any number of turns: the guard  *)
(* knows whom it stopped, the channel implements TurnLedger, no hail is    *)
(* lost or given twice, and a cancel ends its own turn.                    *)
(*                                                                         *)
(* The inductive invariant says where the open turn is (OnePlace), where   *)
(* each hail is (MailInv) and in which order the queues are (InOrder).     *)
(***************************************************************************)
EXTENDS AcpTurns, TLAPS

Prompts == {i \in DOMAIN commands : commands[i].do = "prompt"}

\* What the queues and the agent hold is well formed.
QueueType ==
  /\ commands \in Seq([do : {"prompt", "steer", "cancel", "close"},
                       text : SUBSET Mails, turn : Nat])
  /\ notes \in Seq([turn : Nat, verdict : Verdicts])
  /\ turn \in Nat /\ prompted \in Nat
  /\ outcome \in Verdicts \cup {"none"}
  /\ driver \in {"idle", "prompt", "steer", "gone"}

\* The open turn is in one place: on its way to the driver, with it, or judged
\* in a note.  Between turns it is in none, as long as the driver lives.
OnePlace ==
  /\ \A i \in Prompts :
       driver = "idle" /\ commands[i].turn = turn /\ notes = <<>>
  /\ \A i, j \in Prompts : i = j
  /\ driver \in {"prompt", "steer"} => prompted = turn /\ notes = <<>>
  /\ \A i \in DOMAIN notes : notes[i].turn \in {0, turn}
  /\ driver # "gone" => Len(notes) <= 1
  /\ pc = "between" /\ driver # "gone" =>
       Prompts = {} /\ driver = "idle" /\ notes = <<>>

OpenInv ==
  /\ running \in BOOLEAN
  /\ pc \in {"poll", "steering", "stalling"} => running

TurnInv == QueueType /\ OnePlace /\ OpenInv
-----------------------------------------------------------------------------

\* Only the guard stops the agent, and only a resume takes the pause back.
LEMMA PausedStep == StoppedIsPaused /\ [Next]_vars => StoppedIsPaused'
<1> SUFFICES ASSUME StoppedIsPaused, [Next]_vars PROVE StoppedIsPaused'
  OBVIOUS
<1> USE DEF StoppedIsPaused, supervisor, guarding, mailbox, queues,
        driving, process, agent
<1>1. ASSUME NEW m \in Mails, Send(m)
      PROVE  StoppedIsPaused'
  BY <1>1 DEF Send, NotChannel
<1>2. ASSUME NEW texts \in SUBSET Mails, StartTurn(texts)
      PROVE  StoppedIsPaused'
  BY <1>2 DEF StartTurn, NotChannel, GuardKept, Connected
<1>3. CASE StartFails
  BY <1>3 DEF StartFails, NotChannel, Connected
<1>4. CASE Retire
  BY <1>4 DEF Retire, Close, Tell, Connected, Request, NotChannel
<1>5. CASE NextEvent
  BY <1>5 DEF NextEvent, EndTurn, NotChannel
<1>6. ASSUME NEW m \in Mails, ClaimCancel(m)
      PROVE  StoppedIsPaused'
  BY <1>6 DEF ClaimCancel, Unread, Tell, Request, Hold, Connected, NotChannel
<1>7. ASSUME NEW m \in Mails, ClaimResume(m)
      PROVE  StoppedIsPaused'
  BY <1>7 DEF ClaimResume, Unread
<1>8. ASSUME NEW m \in Mails, ClaimNote(m)
      PROVE  StoppedIsPaused'
  BY <1>8 DEF ClaimNote, Unread, Tell, Request, Hold, Connected, NotChannel
<1>9. CASE SteerReturns
  BY <1>9 DEF SteerReturns, Connected, BackToPoll, NotChannel
<1>10. CASE SteerTimesOut
  BY <1>10 DEF SteerTimesOut, BackToPoll, NotChannel
<1>11. CASE Joined
  BY <1>11 DEF Joined, EndTurn, Connected, NotChannel
<1>12. CASE GuardInterrupts
  BY <1>12 DEF GuardInterrupts, Tell, Request, Connected, OnlyGuard
<1>13. CASE GuardPauses
  BY <1>13 DEF GuardPauses, OnlyGuard
<1>14. CASE GuardCalms
  BY <1>14 DEF GuardCalms, OnlyGuard
<1>15. CASE Stall
  BY <1>15 DEF Stall, Close, Tell, Connected, Request, NotChannel
<1>16. CASE Leave
  BY <1>16 DEF Leave, Close, Tell, Connected, Request, NotChannel
<1>17. CASE TakePrompt
  BY <1>17 DEF TakePrompt, Takes, Idle, Put, NotSync
<1>18. CASE TakeSteer
  BY <1>18 DEF TakeSteer, Takes, Idle, Prompt, Put, Answer, NotSync
<1>19. CASE TakeCancel
  BY <1>19 DEF TakeCancel, Takes, Put, NotSync
<1>20. CASE TakeClose
  BY <1>20 DEF TakeClose, Gone, NotSync
<1>21. CASE PromptDone
  BY <1>21 DEF PromptDone, Prompt, NotSync
<1>22. CASE SteerDone
  BY <1>22 DEF SteerDone, Answer, NotSync
<1>23. CASE DriverFails
  BY <1>23 DEF DriverFails, Connected, Gone, NotSync
<1>24. CASE AgentPrompted
  BY <1>24 DEF AgentPrompted, AgentTakes, Runs, OnlyAgent, Give
<1>25. CASE AgentSteered
  BY <1>25 DEF AgentSteered, AgentTakes, Runs, OnlyAgent, Give
<1>26. CASE AgentCancelled
  BY <1>26 DEF AgentCancelled, AgentTakes, Runs, OnlyAgent
<1>27. CASE AgentFinishes
  BY <1>27 DEF AgentFinishes, Runs, OnlyAgent
<1>28. CASE AgentDies
  BY <1>28 DEF AgentDies
<1>29. CASE UNCHANGED vars
  BY <1>29 DEF vars
<1> QED
  BY <1>1, <1>2, <1>3, <1>4, <1>5, <1>6, <1>7, <1>8, <1>9, <1>10, <1>11,
     <1>12, <1>13, <1>14, <1>15, <1>16, <1>17, <1>18, <1>19, <1>20, <1>21,
     <1>22, <1>23, <1>24, <1>25, <1>26, <1>27, <1>28, <1>29 DEF Next, Poll,
     Claim, Drive, Work

\* An agent that is stopped can be resumed: the guard holds it for paused, over
\* the ends of turns (supervise.rs:1114, 1599; 0_resource_guard.rs:219).
THEOREM PausedIsKnown == Spec => []StoppedIsPaused
<1>1. Init => StoppedIsPaused
  BY DEF Init, StoppedIsPaused
<1> QED
  BY <1>1, PausedStep, PTL DEF Spec
-----------------------------------------------------------------------------

LEMMA AppendFacts ==
  ASSUME NEW S, NEW s \in Seq(S), NEW x \in S
  PROVE  /\ Append(s, x) \in Seq(S)
         /\ Len(Append(s, x)) = Len(s) + 1
         /\ \A i \in 1..Len(s) : Append(s, x)[i] = s[i]
         /\ Append(s, x)[Len(s) + 1] = x
OBVIOUS

LEMMA TailFacts ==
  ASSUME NEW S, NEW s \in Seq(S), s # <<>>
  PROVE  /\ Tail(s) \in Seq(S) /\ Len(s) \in Nat \ {0}
         /\ Len(Tail(s)) = Len(s) - 1
         /\ \A i \in 1..(Len(s) - 1) : Tail(s)[i] = s[i + 1]
         /\ Head(s) = s[1] /\ Head(s) \in S
OBVIOUS

\* A command other than a prompt may be put behind the others.
LEMMA TellKeeps ==
  ASSUME QueueType, OnePlace,
         NEW do \in {"steer", "cancel", "close"}, NEW text \in SUBSET Mails,
         Tell(Request(do, text)),
         UNCHANGED <<turn, notes, prompted, outcome, driver>>,
         pc = "between" \/ pc' # "between"
  PROVE  QueueType' /\ OnePlace'
<1> DEFINE Kind == [do : {"prompt", "steer", "cancel", "close"},
                    text : SUBSET Mails, turn : Nat]
           request == Request(do, text)
<1>1. request \in Kind /\ request.do # "prompt"
  BY DEF QueueType, Request
<1>2. commands' = Append(commands, request) /\ commands \in Seq(Kind)
  BY DEF QueueType, Tell
<1> HIDE DEF request, Kind
<1>3. /\ commands' \in Seq(Kind) /\ Len(commands') = Len(commands) + 1
      /\ \A i \in 1..Len(commands) : commands'[i] = commands[i]
      /\ commands'[Len(commands) + 1] = request
  BY <1>1, <1>2, AppendFacts
<1>4. /\ Prompts' = Prompts
      /\ \A i \in Prompts : commands'[i] = commands[i]
  BY <1>1, <1>2, <1>3 DEF Prompts
<1>5. QueueType'
  BY <1>3 DEF QueueType, Kind
<1>6. OnePlace'
  BY <1>4 DEF OnePlace
<1> QED
  BY <1>5, <1>6

\* A command taken off the queue is one place less for the open turn.
LEMMA TakeKeeps ==
  ASSUME QueueType, OnePlace, commands # <<>>, commands' = Tail(commands)
  PROVE  /\ commands' \in Seq([do : {"prompt", "steer", "cancel", "close"},
                               text : SUBSET Mails, turn : Nat])
         /\ \A i \in Prompts' :
              i + 1 \in Prompts /\ commands'[i] = commands[i + 1]
         /\ \A i, j \in Prompts' : i = j
         /\ Head(commands) = commands[1] /\ 1 \in DOMAIN commands
         /\ Head(commands).do = "prompt" => 1 \in Prompts /\ Prompts' = {}
<1> DEFINE Kind == [do : {"prompt", "steer", "cancel", "close"},
                    text : SUBSET Mails, turn : Nat]
<1>1. commands \in Seq(Kind)
  BY DEF QueueType
<1> HIDE DEF Kind
<1>2. /\ commands' \in Seq(Kind) /\ Len(commands) \in Nat \ {0}
      /\ Len(commands') = Len(commands) - 1
      /\ \A i \in 1..(Len(commands) - 1) : commands'[i] = commands[i + 1]
      /\ Head(commands) = commands[1]
  BY <1>1, TailFacts
<1>3. /\ DOMAIN commands = 1..Len(commands)
      /\ DOMAIN commands' = 1..(Len(commands) - 1)
  BY <1>1, <1>2
<1>4. \A i \in Prompts' :
        /\ i \in 1..(Len(commands) - 1) /\ i + 1 \in 1..Len(commands)
        /\ commands'[i] = commands[i + 1]
        /\ commands[i + 1].do = "prompt"
  BY <1>2, <1>3 DEF Prompts
<1>5. \A i \in Prompts' : i + 1 \in Prompts /\ i \in Nat \ {0}
  BY <1>3, <1>4 DEF Prompts
<1>6. \A i, j \in Prompts' : i = j
  BY <1>5 DEF OnePlace
<1>7. ASSUME Head(commands).do = "prompt"
      PROVE  1 \in Prompts /\ Prompts' = {}
  <2>1. 1 \in Prompts
    BY <1>2, <1>3, <1>7 DEF Prompts
  <2> QED
    BY <1>5, <2>1 DEF OnePlace
<1> QED
  BY <1>2, <1>3, <1>4, <1>5, <1>6, <1>7 DEF Kind

\* No step gives the open turn a second place.
LEMMA TurnStep == TurnInv /\ [Next]_vars => TurnInv'
<1> SUFFICES ASSUME TurnInv, [Next]_vars PROVE TurnInv'
  OBVIOUS
 <1> USE AcpAssumption DEF AcpAssumption, Prompts, Verdicts, supervisor,
        guarding,
        mailbox, queues,
        driving, process, agent
<1>1. ASSUME NEW m \in Mails, Send(m)
      PROVE  TurnInv'
  BY <1>1 DEF Send, NotChannel, TurnInv, QueueType, OnePlace, OpenInv
<1>2. ASSUME NEW texts \in SUBSET Mails, StartTurn(texts)
      PROVE  TurnInv'
  <2> USE <1>2 DEF StartTurn, NotChannel, GuardKept, Connected
  <2>1. QueueType'
    BY DEF TurnInv, QueueType, OnePlace, OpenInv
  <2>2. OnePlace'
    BY DEF TurnInv, QueueType, OnePlace, OpenInv
  <2>3. OpenInv'
    BY DEF TurnInv, QueueType, OnePlace, OpenInv
  <2> QED
    BY <2>1, <2>2, <2>3 DEF TurnInv
<1>3. CASE StartFails
  BY <1>3 DEF StartFails, NotChannel, Connected, TurnInv, QueueType, OnePlace,
          OpenInv
<1>4. CASE Retire
  <2>1. OpenInv'
    BY <1>4 DEF Retire, Close, NotChannel, TurnInv, OpenInv
  <2>2. CASE Tell(Request("close", {}))
    <3>1. /\ UNCHANGED <<turn, notes, prompted, outcome, driver>>
          /\ pc = "between" \/ pc' # "between"
      BY <1>4 DEF Retire, Close, NotChannel
    <3> QED
      BY <2>1, <2>2, <3>1, TellKeeps DEF TurnInv
  <2>3. CASE UNCHANGED commands
    BY <1>4, <2>1, <2>3 DEF Retire, Close, NotChannel, TurnInv, QueueType,
          OnePlace
  <2> QED
    BY <1>4, <2>2, <2>3 DEF Retire, Close, NotChannel, Connected
<1>5. CASE NextEvent
  <2> USE <1>5 DEF NextEvent, EndTurn, NotChannel
  <2>1. QueueType'
    BY DEF TurnInv, QueueType, OnePlace, OpenInv
  <2>2. OnePlace'
    BY DEF TurnInv, QueueType, OnePlace, OpenInv
  <2>3. OpenInv'
    BY DEF TurnInv, QueueType, OnePlace, OpenInv
  <2> QED
    BY <2>1, <2>2, <2>3 DEF TurnInv
<1>6. ASSUME NEW m \in Mails, ClaimCancel(m)
      PROVE  TurnInv'
  <2>1. OpenInv'
    BY <1>6 DEF ClaimCancel, Unread, Hold, NotChannel, TurnInv, OpenInv
  <2>2. CASE Tell(Request("cancel", {}))
    <3>1. /\ UNCHANGED <<turn, notes, prompted, outcome, driver>>
          /\ pc = "between" \/ pc' # "between"
      BY <1>6 DEF ClaimCancel, Unread, Hold, NotChannel
    <3> QED
      BY <2>1, <2>2, <3>1, TellKeeps DEF TurnInv
  <2>3. CASE UNCHANGED commands
    BY <1>6, <2>1, <2>3 DEF ClaimCancel, Unread, Hold, NotChannel, TurnInv,
          QueueType, OnePlace
  <2> QED
    BY <1>6, <2>2, <2>3 DEF ClaimCancel, Unread, Hold, NotChannel, Connected
<1>7. ASSUME NEW m \in Mails, ClaimResume(m)
      PROVE  TurnInv'
  BY <1>7 DEF ClaimResume, Unread, TurnInv, QueueType, OnePlace, OpenInv
<1>8. ASSUME NEW m \in Mails, ClaimNote(m)
      PROVE  TurnInv'
  <2>1. OpenInv'
    BY <1>8 DEF ClaimNote, Unread, Hold, NotChannel, TurnInv, OpenInv
  <2>2. CASE Tell(Request("steer", {m}))
    <3>1. /\ UNCHANGED <<turn, notes, prompted, outcome, driver>>
          /\ pc = "between" \/ pc' # "between"
      BY <1>8 DEF ClaimNote, Unread, Hold, NotChannel
    <3> QED
      BY <2>1, <2>2, <3>1, TellKeeps DEF TurnInv
  <2>3. CASE UNCHANGED commands
    BY <1>8, <2>1, <2>3 DEF ClaimNote, Unread, Hold, NotChannel, TurnInv,
          QueueType, OnePlace
  <2> QED
    BY <1>8, <2>2, <2>3 DEF ClaimNote, Unread, Hold, NotChannel, Connected
<1>9. CASE SteerReturns
  BY <1>9 DEF SteerReturns, Connected, BackToPoll, NotChannel, TurnInv,
          QueueType, OnePlace, OpenInv
<1>10. CASE SteerTimesOut
  BY <1>10 DEF SteerTimesOut, BackToPoll, NotChannel, TurnInv, QueueType,
          OnePlace, OpenInv
<1>11. CASE Joined
  BY <1>11 DEF Joined, EndTurn, Connected, NotChannel, TurnInv, QueueType,
          OnePlace, OpenInv
<1>12. CASE GuardInterrupts
  <2>1. OpenInv'
    BY <1>12 DEF GuardInterrupts, OnlyGuard, TurnInv, OpenInv
  <2>2. CASE Tell(Request("cancel", {}))
    <3>1. /\ UNCHANGED <<turn, notes, prompted, outcome, driver>>
          /\ pc = "between" \/ pc' # "between"
      BY <1>12 DEF GuardInterrupts, OnlyGuard
    <3> QED
      BY <2>1, <2>2, <3>1, TellKeeps DEF TurnInv
  <2>3. CASE UNCHANGED commands
    BY <1>12, <2>1, <2>3 DEF GuardInterrupts, OnlyGuard, TurnInv, QueueType,
          OnePlace
  <2> QED
    BY <1>12, <2>2, <2>3 DEF GuardInterrupts, OnlyGuard, Connected
<1>13. CASE GuardPauses
  BY <1>13 DEF GuardPauses, OnlyGuard, TurnInv, QueueType, OnePlace, OpenInv
<1>14. CASE GuardCalms
  BY <1>14 DEF GuardCalms, OnlyGuard, TurnInv, QueueType, OnePlace, OpenInv
<1>15. CASE Stall
  <2>1. OpenInv'
    BY <1>15 DEF Stall, Close, NotChannel, TurnInv, OpenInv
  <2>2. CASE Tell(Request("close", {}))
    <3>1. /\ UNCHANGED <<turn, notes, prompted, outcome, driver>>
          /\ pc = "between" \/ pc' # "between"
      BY <1>15 DEF Stall, Close, NotChannel
    <3> QED
      BY <2>1, <2>2, <3>1, TellKeeps DEF TurnInv
  <2>3. CASE UNCHANGED commands
    BY <1>15, <2>1, <2>3 DEF Stall, Close, NotChannel, TurnInv, QueueType,
          OnePlace
  <2> QED
    BY <1>15, <2>2, <2>3 DEF Stall, Close, NotChannel, Connected
<1>16. CASE Leave
  <2>1. OpenInv'
    BY <1>16 DEF Leave, Close, NotChannel, TurnInv, OpenInv
  <2>2. CASE Tell(Request("close", {}))
    <3>1. /\ UNCHANGED <<turn, notes, prompted, outcome, driver>>
          /\ pc = "between" \/ pc' # "between"
      BY <1>16 DEF Leave, Close, NotChannel
    <3> QED
      BY <2>1, <2>2, <3>1, TellKeeps DEF TurnInv
  <2>3. CASE UNCHANGED commands
    BY <1>16, <2>1, <2>3 DEF Leave, Close, NotChannel, TurnInv, QueueType,
          OnePlace
  <2> QED
    BY <1>16, <2>2, <2>3 DEF Leave, Close, NotChannel, Connected
<1>17. CASE TakePrompt
  <2> USE <1>17 DEF TakePrompt, Takes, Idle, Put, NotSync
  <2>1. QueueType'
    BY TakeKeeps DEF TurnInv, QueueType, OnePlace, OpenInv
  <2>2. OnePlace'
    BY TakeKeeps DEF TurnInv, QueueType, OnePlace, OpenInv
  <2>3. OpenInv'
    BY DEF TurnInv, QueueType, OnePlace, OpenInv
  <2> QED
    BY <2>1, <2>2, <2>3 DEF TurnInv
<1>18. CASE TakeSteer
  <2> USE <1>18 DEF TakeSteer, Takes, Idle, Prompt, Put, Answer, NotSync
  <2>1. QueueType'
    BY TakeKeeps DEF TurnInv, QueueType, OnePlace, OpenInv
  <2>2. OnePlace'
    BY TakeKeeps DEF TurnInv, QueueType, OnePlace, OpenInv
  <2>3. OpenInv'
    BY DEF TurnInv, QueueType, OnePlace, OpenInv
  <2> QED
    BY <2>1, <2>2, <2>3 DEF TurnInv
<1>19. CASE TakeCancel
  <2> USE <1>19 DEF TakeCancel, Takes, Put, NotSync
  <2>1. QueueType'
    BY TakeKeeps DEF TurnInv, QueueType, OnePlace, OpenInv
  <2>2. OnePlace'
    BY TakeKeeps DEF TurnInv, QueueType, OnePlace, OpenInv
  <2>3. OpenInv'
    BY DEF TurnInv, QueueType, OnePlace, OpenInv
  <2> QED
    BY <2>1, <2>2, <2>3 DEF TurnInv
<1>20. CASE TakeClose
  BY <1>20 DEF TakeClose, Gone, NotSync, TurnInv, QueueType, OnePlace, OpenInv
<1>21. CASE PromptDone
  <2> USE <1>21 DEF PromptDone, Prompt, NotSync
  <2>1. QueueType'
    BY DEF TurnInv, QueueType, OnePlace, OpenInv
  <2>2. OnePlace'
    BY DEF TurnInv, QueueType, OnePlace, OpenInv
  <2>3. OpenInv'
    BY DEF TurnInv, QueueType, OnePlace, OpenInv
  <2> QED
    BY <2>1, <2>2, <2>3 DEF TurnInv
<1>22. CASE SteerDone
  BY <1>22 DEF SteerDone, Answer, NotSync, TurnInv, QueueType, OnePlace,
     OpenInv
<1>23. CASE DriverFails
  <2> USE <1>23 DEF DriverFails, Connected, Gone, NotSync
  <2>1. QueueType'
    BY DEF TurnInv, QueueType, OnePlace, OpenInv
  <2>2. OnePlace'
    BY DEF TurnInv, QueueType, OnePlace, OpenInv
  <2>3. OpenInv'
    BY DEF TurnInv, QueueType, OnePlace, OpenInv
  <2> QED
    BY <2>1, <2>2, <2>3 DEF TurnInv
<1>24. CASE AgentPrompted
  BY <1>24 DEF AgentPrompted, AgentTakes, Runs, OnlyAgent, Give, TurnInv,
          QueueType, OnePlace, OpenInv
<1>25. CASE AgentSteered
  BY <1>25 DEF AgentSteered, AgentTakes, Runs, OnlyAgent, Give, TurnInv,
          QueueType, OnePlace, OpenInv
<1>26. CASE AgentCancelled
  BY <1>26 DEF AgentCancelled, AgentTakes, Runs, OnlyAgent, TurnInv, QueueType,
          OnePlace, OpenInv
<1>27. CASE AgentFinishes
  BY <1>27 DEF AgentFinishes, Runs, OnlyAgent, TurnInv, QueueType, OnePlace,
          OpenInv
<1>28. CASE AgentDies
  BY <1>28 DEF AgentDies, TurnInv, QueueType, OnePlace, OpenInv
<1>29. CASE UNCHANGED vars
  BY <1>29 DEF vars, TurnInv, QueueType, OnePlace, OpenInv
<1> QED
  BY <1>1, <1>2, <1>3, <1>4, <1>5, <1>6, <1>7, <1>8, <1>9, <1>10, <1>11,
     <1>12, <1>13, <1>14, <1>15, <1>16, <1>17, <1>18, <1>19, <1>20, <1>21,
     <1>22, <1>23, <1>24, <1>25, <1>26, <1>27, <1>28, <1>29 DEF Next, Poll,
     Claim, Drive, Work

\* Every step starts, judges or abandons a turn, or is none of the ledger's.
LEMMA LedgerStep == TurnInv /\ [Next]_vars => [Ledger!Next]_(Ledger!vars)
<1> SUFFICES ASSUME TurnInv, [Next]_vars PROVE [Ledger!Next]_(Ledger!vars)
  OBVIOUS
<1> USE DEF TurnInv, QueueType, OnePlace, OpenInv, Ledger!Next, Ledger!Start,
        Ledger!Judge, Ledger!Abandon, Ledger!vars, Verdicts, supervisor, guarding,
        mailbox, queues,
        driving, process, agent
<1>1. ASSUME NEW m \in Mails, Send(m)
      PROVE  [Ledger!Next]_(Ledger!vars)
  BY <1>1 DEF Send, NotChannel
<1>2. ASSUME NEW texts \in SUBSET Mails, StartTurn(texts)
      PROVE  [Ledger!Next]_(Ledger!vars)
  BY <1>2 DEF StartTurn, NotChannel, GuardKept, Connected
<1>3. CASE StartFails
  BY <1>3 DEF StartFails, NotChannel, Connected
<1>4. CASE Retire
  BY <1>4 DEF Retire, Close, Tell, Connected, Request, NotChannel
<1>5. CASE NextEvent
  <2>1. Head(notes) = notes[1] /\ 1 \in DOMAIN notes
          /\ Head(notes) \in [turn : Nat, verdict : Verdicts]
    <3> DEFINE Kind == [turn : Nat, verdict : Verdicts]
    <3>1. notes \in Seq(Kind) /\ notes # <<>>
      BY <1>5 DEF NextEvent
    <3> HIDE DEF Kind
    <3>2. Head(notes) = notes[1] /\ Head(notes) \in Kind
          /\ Len(notes) \in Nat \ {0}
      BY <3>1, TailFacts
    <3>3. 1 \in DOMAIN notes
      BY <3>1, <3>2
    <3> QED
      BY <3>2, <3>3 DEF Kind
  <2>2. Head(notes).turn \in {0, turn} /\ running
    BY <1>5, <2>1 DEF NextEvent
  <2>3. Ledger!Judge
    BY <1>5, <2>1, <2>2 DEF NextEvent, EndTurn
  <2> QED
    BY <2>3
<1>6. ASSUME NEW m \in Mails, ClaimCancel(m)
      PROVE  [Ledger!Next]_(Ledger!vars)
  BY <1>6 DEF ClaimCancel, Unread, Tell, Request, Hold, Connected, NotChannel
<1>7. ASSUME NEW m \in Mails, ClaimResume(m)
      PROVE  [Ledger!Next]_(Ledger!vars)
  BY <1>7 DEF ClaimResume, Unread
<1>8. ASSUME NEW m \in Mails, ClaimNote(m)
      PROVE  [Ledger!Next]_(Ledger!vars)
  BY <1>8 DEF ClaimNote, Unread, Tell, Request, Hold, Connected, NotChannel
<1>9. CASE SteerReturns
  BY <1>9 DEF SteerReturns, Connected, BackToPoll, NotChannel
<1>10. CASE SteerTimesOut
  BY <1>10 DEF SteerTimesOut, BackToPoll, NotChannel
<1>11. CASE Joined
  <2>1. CASE pc = "stalling"
    BY <1>11, <2>1 DEF Joined, EndTurn
  <2>2. CASE pc = "leaving"
    BY <1>11, <2>2 DEF Joined
  <2> QED
    BY <1>11, <2>1, <2>2 DEF Joined
<1>12. CASE GuardInterrupts
  BY <1>12 DEF GuardInterrupts, Tell, Request, Connected, OnlyGuard
<1>13. CASE GuardPauses
  BY <1>13 DEF GuardPauses, OnlyGuard
<1>14. CASE GuardCalms
  BY <1>14 DEF GuardCalms, OnlyGuard
<1>15. CASE Stall
  BY <1>15 DEF Stall, Close, Tell, Connected, Request, NotChannel
<1>16. CASE Leave
  BY <1>16 DEF Leave, Close, Tell, Connected, Request, NotChannel
<1>17. CASE TakePrompt
  BY <1>17 DEF TakePrompt, Takes, Idle, Put, NotSync
<1>18. CASE TakeSteer
  BY <1>18 DEF TakeSteer, Takes, Idle, Prompt, Put, Answer, NotSync
<1>19. CASE TakeCancel
  BY <1>19 DEF TakeCancel, Takes, Put, NotSync
<1>20. CASE TakeClose
  BY <1>20 DEF TakeClose, Gone, NotSync
<1>21. CASE PromptDone
  BY <1>21 DEF PromptDone, Prompt, NotSync
<1>22. CASE SteerDone
  BY <1>22 DEF SteerDone, Answer, NotSync
<1>23. CASE DriverFails
  BY <1>23 DEF DriverFails, Connected, Gone, NotSync
<1>24. CASE AgentPrompted
  BY <1>24 DEF AgentPrompted, AgentTakes, Runs, OnlyAgent, Give
<1>25. CASE AgentSteered
  BY <1>25 DEF AgentSteered, AgentTakes, Runs, OnlyAgent, Give
<1>26. CASE AgentCancelled
  BY <1>26 DEF AgentCancelled, AgentTakes, Runs, OnlyAgent
<1>27. CASE AgentFinishes
  BY <1>27 DEF AgentFinishes, Runs, OnlyAgent
<1>28. CASE AgentDies
  BY <1>28 DEF AgentDies
<1>29. CASE UNCHANGED vars
  BY <1>29 DEF vars
<1> QED
  BY <1>1, <1>2, <1>3, <1>4, <1>5, <1>6, <1>7, <1>8, <1>9, <1>10, <1>11,
     <1>12, <1>13, <1>14, <1>15, <1>16, <1>17, <1>18, <1>19, <1>20, <1>21,
     <1>22, <1>23, <1>24, <1>25, <1>26, <1>27, <1>28, <1>29 DEF Next, Poll,
     Claim, Drive, Work

\* The channel keeps turns apart: it implements TurnLedger, whatever stalls,
\* late answers and dead agents leave in its queues (channel.rs:179-189).
THEOREM ImplementsLedger == Spec => TurnsKeptApart
<1>1. ASSUME Init PROVE TurnInv
  <2>1. QueueType
    BY <1>1 DEF Init, QueueType
  <2>2. OnePlace
    BY <1>1 DEF Init, OnePlace, Prompts
  <2> QED
    BY <1>1, <2>1, <2>2 DEF Init, TurnInv, OpenInv
<1>2. Init => Ledger!Init
  BY DEF Init, Ledger!Init
<1> QED
  BY <1>1, <1>2, TurnStep, LedgerStep, PTL
     DEF Spec, TurnsKeptApart, Ledger!Spec
-----------------------------------------------------------------------------

\* What either thread may ask for.
Asks ==
  [do : {"prompt"}, text : SUBSET Mails, turn : 1..MaxTurns]
    \cup [do : {"steer"}, text : {{n} : n \in Notes}, turn : 0..MaxTurns]
    \cup [do : {"cancel", "close"}, text : {{}}, turn : 0..MaxTurns]

\* The form of every variable, and what a driver or an agent that is gone left.
Words ==
  /\ pc \in {"between", "poll", "steering", "stalling", "leaving", "ended"}
  /\ turn \in 0..MaxTurns
  /\ pc \in {"poll", "steering", "stalling"} => turn # 0
  /\ guard \in {"watching", "grace", "paused"} /\ breaches \in 0..MaxBreaches
  /\ reply \in {"none", "midturn", "nextturn", "error"}
  /\ driver \in {"idle", "prompt", "steer", "gone"}
  /\ prompted \in 0..MaxTurns
  /\ prompted # 0 <=> driver \in {"prompt", "steer"}
  /\ working \in 0..MaxTurns /\ outcome \in Verdicts \cup {"none"}
  /\ steerOutcome \in {"none", "injected", "failed"}

Lines ==
  /\ judged \in Seq([turn : 1..MaxTurns, verdict : Verdicts])
  /\ commands \in Seq(Asks) /\ inbox \in Seq(Asks)
  /\ notes \in Seq([turn : 0..MaxTurns, verdict : Verdicts])

Flags ==
  /\ running \in BOOLEAN /\ alive \in BOOLEAN /\ stopped \in BOOLEAN
  /\ ~alive => inbox = <<>> /\ working = 0
  /\ driver = "gone" => ~alive /\ commands = <<>>

Shape == Words /\ Lines /\ Flags

LEMMA AskFacts ==
  /\ \A r \in Asks :
       /\ r.do \in {"prompt", "steer", "cancel", "close"}
       /\ r.text \subseteq Mails /\ r.turn \in 0..MaxTurns
       /\ r.do = "prompt" => r.turn # 0
       /\ r.do = "steer" => \E n \in Notes : r.text = {n}
       /\ r.do \in {"cancel", "close"} => r.text = {}
       /\ r \in Requests
  /\ turn \in 0..MaxTurns =>
       /\ \A do \in {"cancel", "close"} : Request(do, {}) \in Asks
       /\ \A n \in Notes : Request("steer", {n}) \in Asks
       /\ turn < MaxTurns => \A texts \in SUBSET Mails :
            [do |-> "prompt", text |-> texts, turn |-> turn + 1] \in Asks
<1>1. Notes \subseteq Mails /\ MaxTurns \in Nat
  BY AcpAssumption DEF AcpAssumption, Mails
<1>2. ASSUME NEW r \in Asks
      PROVE  /\ r.do \in {"prompt", "steer", "cancel", "close"}
             /\ r.text \subseteq Mails /\ r.turn \in 0..MaxTurns
             /\ r.do = "prompt" => r.turn # 0
             /\ r.do = "steer" => \E n \in Notes : r.text = {n}
             /\ r.do \in {"cancel", "close"} => r.text = {}
             /\ r \in Requests
  <2>1. CASE r \in [do : {"prompt"}, text : SUBSET Mails, turn : 1..MaxTurns]
    BY <1>1, <2>1 DEF Requests
  <2>2. CASE r \in [do : {"steer"}, text : {{n} : n \in Notes},
                    turn : 0..MaxTurns]
    BY <1>1, <2>2 DEF Requests
  <2>3. CASE r \in [do : {"cancel", "close"}, text : {{}}, turn : 0..MaxTurns]
    BY <1>1, <2>3 DEF Requests
  <2> QED
    BY <1>2, <2>1, <2>2, <2>3 DEF Asks
<1>3. ASSUME turn \in 0..MaxTurns
      PROVE  /\ \A do \in {"cancel", "close"} : Request(do, {}) \in Asks
             /\ \A n \in Notes : Request("steer", {n}) \in Asks
             /\ turn < MaxTurns => \A texts \in SUBSET Mails :
                  [do |-> "prompt", text |-> texts, turn |-> turn + 1] \in Asks
  BY <1>1, <1>3 DEF Asks, Request
<1> QED
  BY <1>2, <1>3

LEMMA ShapeTell ==
  ASSUME Shape
  PROVE  /\ \A do \in {"cancel", "close"} :
              Append(commands, Request(do, {})) \in Seq(Asks)
         /\ \A n \in Notes : Append(commands, Request("steer", {n})) \in Seq(Asks)
BY AskFacts, AppendFacts DEF Shape, Words, Lines

LEMMA ShapeTake ==
  ASSUME Shape, commands # <<>>
  PROVE  Tail(commands) \in Seq(Asks) /\ Head(commands) \in Asks
BY TailFacts DEF Shape, Words, Lines, Flags

LEMMA ShapeRead ==
  ASSUME Shape, inbox # <<>>
  PROVE  Tail(inbox) \in Seq(Asks) /\ Head(inbox) \in Asks
BY TailFacts DEF Shape, Words, Lines, Flags

LEMMA ShapePut ==
  ASSUME Shape, NEW r \in Asks, Put(r)
  PROVE  inbox' \in Seq(Asks) /\ (~alive => inbox' = <<>>)
BY AppendFacts DEF Shape, Lines, Flags, Put

LEMMA EmptySeq == ASSUME NEW S PROVE <<>> \in Seq(S)
OBVIOUS

\* No step changes the form of a variable.
LEMMA ShapeStep == Shape /\ [Next]_vars => Shape'
<1> SUFFICES ASSUME Shape, [Next]_vars PROVE Shape'
  OBVIOUS
<1> USE DEF supervisor, guarding, mailbox, queues,
        driving, process, agent
<1>1. ASSUME NEW m \in Mails, Send(m)
      PROVE  Shape'
  <2>1. Words'
    BY <1>1 DEF Send, NotChannel, Shape, Words
  <2>2. Lines'
    BY <1>1 DEF Send, NotChannel, Shape, Words, Lines
  <2>3. Flags'
    BY <1>1 DEF Send, NotChannel, Shape, Words, Lines, Flags
  <2> QED
    BY <2>1, <2>2, <2>3 DEF Shape
<1>2. ASSUME NEW texts \in SUBSET Mails, StartTurn(texts)
      PROVE  Shape'
  <2>1. commands' \in Seq(Asks)
    <3>1. [do |-> "prompt", text |-> texts, turn |-> turn + 1] \in Asks
      BY <1>2, AskFacts DEF StartTurn, Shape, Words, Lines, Flags
    <3> QED
      BY <1>2, <3>1, AppendFacts DEF StartTurn, Shape, Words, Lines, Flags
  <2>2. turn + 1 \in 0..MaxTurns /\ turn + 1 # 0
    BY <1>2, AcpAssumption DEF AcpAssumption, StartTurn, Shape, Words, Lines,
       Flags
  <2>3. Words'
    BY <1>2, <2>1, <2>2 DEF StartTurn, NotChannel, GuardKept, Connected, Shape,
       Words
  <2>4. Lines'
    BY <1>2, <2>1, <2>2 DEF StartTurn, NotChannel, GuardKept, Connected, Shape,
       Words, Lines
  <2>5. Flags'
    BY <1>2, <2>1, <2>2 DEF StartTurn, NotChannel, GuardKept, Connected, Shape,
       Words, Lines, Flags
  <2> QED
    BY <2>3, <2>4, <2>5 DEF Shape
<1>3. CASE StartFails
  <2>1. Words'
    BY <1>3 DEF StartFails, NotChannel, Connected, Shape, Words
  <2>2. Lines'
    BY <1>3 DEF StartFails, NotChannel, Connected, Shape, Words, Lines
  <2>3. Flags'
    BY <1>3 DEF StartFails, NotChannel, Connected, Shape, Words, Lines, Flags
  <2> QED
    BY <2>1, <2>2, <2>3 DEF Shape
<1>4. CASE Retire
  <2>1. Tell(Request("close", {})) => commands' \in Seq(Asks)
    BY <1>4, ShapeTell DEF Tell
  <2>2. Words'
    BY <1>4, <2>1 DEF Retire, Close, Connected, NotChannel, Shape, Words
  <2>3. Lines'
    BY <1>4, <2>1 DEF Retire, Close, Connected, NotChannel, Shape, Words, Lines
  <2>4. Flags'
    BY <1>4, <2>1 DEF Retire, Close, Connected, NotChannel, Shape, Words,
       Lines,
       Flags
  <2> QED
    BY <2>2, <2>3, <2>4 DEF Shape
<1>5. CASE NextEvent
  <2> DEFINE Kind == [turn : 0..MaxTurns, verdict : Verdicts]
             Verdict == [turn : 1..MaxTurns, verdict : Verdicts]
  <2>1. notes' \in Seq(Kind) /\ Head(notes) \in Kind
    <3> HIDE DEF Kind
    <3>1. notes \in Seq(Kind) /\ notes # <<>> /\ notes' = Tail(notes)
      BY <1>5 DEF NextEvent, Shape, Lines, Kind
    <3> QED
      BY <3>1, TailFacts
  <2>2. PICK t \in {turn, Head(notes).turn} :
          t # 0 /\ judged' = Append(judged, [turn |-> t, verdict |-> Head(notes).verdict])
    BY <1>5 DEF NextEvent, EndTurn, Shape, Words, Lines, Flags
  <2>3. t \in 1..MaxTurns
    BY <2>1, <2>2, AcpAssumption DEF AcpAssumption, Shape, Words, Lines, Flags
  <2>4. [turn |-> t, verdict |-> Head(notes).verdict] \in Verdict
    BY <2>1, <2>3
  <2>5. judged' \in Seq(Verdict)
    <3> HIDE DEF Verdict
    <3> QED
      BY <2>2, <2>4, AppendFacts DEF Shape, Words, Lines, Verdict
  <2>6. Words'
    BY <1>5, <2>1, <2>5 DEF NextEvent, EndTurn, NotChannel, Shape, Words
  <2>7. Lines'
    BY <1>5, <2>1, <2>5 DEF NextEvent, EndTurn, NotChannel, Shape, Words, Lines
  <2>8. Flags'
    BY <1>5, <2>1, <2>5 DEF NextEvent, EndTurn, NotChannel, Shape, Words,
       Lines,
       Flags
  <2> QED
    BY <2>6, <2>7, <2>8 DEF Shape
<1>6. ASSUME NEW m \in Mails, ClaimCancel(m)
      PROVE  Shape'
  <2>1. Tell(Request("cancel", {})) => commands' \in Seq(Asks)
    BY <1>6, ShapeTell DEF Tell
  <2>2. Words'
    BY <1>6, <2>1 DEF ClaimCancel, Unread, Hold, Connected, NotChannel, Shape,
       Words
  <2>3. Lines'
    BY <1>6, <2>1 DEF ClaimCancel, Unread, Hold, Connected, NotChannel, Shape,
       Words, Lines
  <2>4. Flags'
    BY <1>6, <2>1 DEF ClaimCancel, Unread, Hold, Connected, NotChannel, Shape,
       Words, Lines, Flags
  <2> QED
    BY <2>2, <2>3, <2>4 DEF Shape
<1>7. ASSUME NEW m \in Mails, ClaimResume(m)
      PROVE  Shape'
  <2>1. Words'
    BY <1>7 DEF ClaimResume, Unread, Shape, Words
  <2>2. Lines'
    BY <1>7 DEF ClaimResume, Unread, Shape, Words, Lines
  <2>3. Flags'
    BY <1>7 DEF ClaimResume, Unread, Shape, Words, Lines, Flags
  <2> QED
    BY <2>1, <2>2, <2>3 DEF Shape
<1>8. ASSUME NEW m \in Mails, ClaimNote(m)
      PROVE  Shape'
  <2>1. Tell(Request("steer", {m})) => commands' \in Seq(Asks)
    BY <1>8, ShapeTell DEF Tell, ClaimNote
  <2>2. Words'
    BY <1>8, <2>1 DEF ClaimNote, Unread, Hold, Connected, NotChannel, Shape,
       Words
  <2>3. Lines'
    BY <1>8, <2>1 DEF ClaimNote, Unread, Hold, Connected, NotChannel, Shape,
       Words, Lines
  <2>4. Flags'
    BY <1>8, <2>1 DEF ClaimNote, Unread, Hold, Connected, NotChannel, Shape,
       Words, Lines, Flags
  <2> QED
    BY <2>2, <2>3, <2>4 DEF Shape
<1>9. CASE SteerReturns
  <2>1. Words'
    BY <1>9 DEF SteerReturns, Connected, BackToPoll, NotChannel, Shape, Words
  <2>2. Lines'
    BY <1>9 DEF SteerReturns, Connected, BackToPoll, NotChannel, Shape, Words,
       Lines
  <2>3. Flags'
    BY <1>9 DEF SteerReturns, Connected, BackToPoll, NotChannel, Shape, Words,
       Lines, Flags
  <2> QED
    BY <2>1, <2>2, <2>3 DEF Shape
<1>10. CASE SteerTimesOut
  <2>1. Words'
    BY <1>10 DEF SteerTimesOut, BackToPoll, NotChannel, Shape, Words
  <2>2. Lines'
    BY <1>10 DEF SteerTimesOut, BackToPoll, NotChannel, Shape, Words, Lines
  <2>3. Flags'
    BY <1>10 DEF SteerTimesOut, BackToPoll, NotChannel, Shape, Words, Lines,
       Flags
  <2> QED
    BY <2>1, <2>2, <2>3 DEF Shape
<1>11. CASE Joined
  <2> DEFINE Verdict == [turn : 1..MaxTurns, verdict : Verdicts]
  <2>1. CASE pc = "stalling"
    <3>1. [turn |-> turn, verdict |-> "flaked"] \in Verdict
      BY <2>1, AcpAssumption DEF AcpAssumption, Shape, Words, Lines, Verdicts
    <3>2. judged' = Append(judged, [turn |-> turn, verdict |-> "flaked"])
      BY <1>11, <2>1 DEF Joined, EndTurn
    <3>3. judged' \in Seq(Verdict)
      <4> HIDE DEF Verdict
      <4> QED
        BY <3>1, <3>2, AppendFacts DEF Shape, Words, Lines, Verdict
    <3> QED
      BY <1>11, <2>1, <3>3 DEF Joined, EndTurn, NotChannel, Shape, Words,
         Lines, Flags
  <2>2. CASE pc = "leaving"
    BY <1>11, <2>2 DEF Joined, NotChannel, Shape, Words, Lines, Flags
  <2> QED
    BY <1>11, <2>1, <2>2 DEF Joined
<1>12. CASE GuardInterrupts
  <2>1. Tell(Request("cancel", {})) => commands' \in Seq(Asks)
    BY <1>12, ShapeTell DEF Tell
  <2>2. breaches + 1 \in 0..MaxBreaches
    BY <1>12, AcpAssumption DEF AcpAssumption, GuardInterrupts, Shape, Words
  <2>3. Words'
    BY <1>12, <2>1, <2>2 DEF GuardInterrupts, Connected, OnlyGuard, Shape,
       Words
  <2>4. Lines'
    BY <1>12, <2>1, <2>2 DEF GuardInterrupts, Connected, OnlyGuard, Shape,
       Words,
       Lines
  <2>5. Flags'
    BY <1>12, <2>1, <2>2 DEF GuardInterrupts, Connected, OnlyGuard, Shape,
       Words,
       Lines, Flags
  <2> QED
    BY <2>3, <2>4, <2>5 DEF Shape
<1>13. CASE GuardPauses
  <2>1. Words'
    BY <1>13 DEF GuardPauses, OnlyGuard, Shape, Words
  <2>2. Lines'
    BY <1>13 DEF GuardPauses, OnlyGuard, Shape, Words, Lines
  <2>3. Flags'
    BY <1>13 DEF GuardPauses, OnlyGuard, Shape, Words, Lines, Flags
  <2> QED
    BY <2>1, <2>2, <2>3 DEF Shape
<1>14. CASE GuardCalms
  <2>1. Words'
    BY <1>14 DEF GuardCalms, OnlyGuard, Shape, Words
  <2>2. Lines'
    BY <1>14 DEF GuardCalms, OnlyGuard, Shape, Words, Lines
  <2>3. Flags'
    BY <1>14 DEF GuardCalms, OnlyGuard, Shape, Words, Lines, Flags
  <2> QED
    BY <2>1, <2>2, <2>3 DEF Shape
<1>15. CASE Stall
  <2>1. Tell(Request("close", {})) => commands' \in Seq(Asks)
    BY <1>15, ShapeTell DEF Tell
  <2>2. Words'
    BY <1>15, <2>1 DEF Stall, Close, Connected, NotChannel, Shape, Words
  <2>3. Lines'
    BY <1>15, <2>1 DEF Stall, Close, Connected, NotChannel, Shape, Words, Lines
  <2>4. Flags'
    BY <1>15, <2>1 DEF Stall, Close, Connected, NotChannel, Shape, Words,
       Lines,
       Flags
  <2> QED
    BY <2>2, <2>3, <2>4 DEF Shape
<1>16. CASE Leave
  <2>1. Tell(Request("close", {})) => commands' \in Seq(Asks)
    BY <1>16, ShapeTell DEF Tell
  <2>2. Words'
    BY <1>16, <2>1 DEF Leave, Close, Connected, NotChannel, Shape, Words
  <2>3. Lines'
    BY <1>16, <2>1 DEF Leave, Close, Connected, NotChannel, Shape, Words, Lines
  <2>4. Flags'
    BY <1>16, <2>1 DEF Leave, Close, Connected, NotChannel, Shape, Words,
       Lines,
       Flags
  <2> QED
    BY <2>2, <2>3, <2>4 DEF Shape
<1>17. CASE TakePrompt
  <2>1. commands # <<>> /\ commands' = Tail(commands)
    BY <1>17 DEF TakePrompt, Takes
  <2>2. commands' \in Seq(Asks) /\ Head(commands) \in Asks
    BY <2>1, ShapeTake
  <2>3. Put(Head(commands)) => inbox' \in Seq(Asks) /\ (~alive => inbox' = <<>>)
    BY <2>2, ShapePut
  <2>4. Head(commands).do = "prompt" => Head(commands).turn \in 1..MaxTurns
    BY <2>2, AskFacts, AcpAssumption DEF AcpAssumption
  <2>5. Words'
    BY <1>17, <2>1, <2>2, <2>3, <2>4 DEF TakePrompt, Takes, Idle, NotSync,
       Shape,
       Words
  <2>6. Lines'
    BY <1>17, <2>1, <2>2, <2>3, <2>4 DEF TakePrompt, Takes, Idle, NotSync,
       Shape,
       Words, Lines
  <2>7. Flags'
    BY <1>17, <2>1, <2>2, <2>3, <2>4 DEF TakePrompt, Takes, Idle, NotSync,
       Shape,
       Words, Lines, Flags
  <2> QED
    BY <2>5, <2>6, <2>7 DEF Shape
<1>18. CASE TakeSteer
  <2>1. commands # <<>> /\ commands' = Tail(commands)
    BY <1>18 DEF TakeSteer, Takes
  <2>2. commands' \in Seq(Asks) /\ Head(commands) \in Asks
    BY <2>1, ShapeTake
  <2>3. Put(Head(commands)) => inbox' \in Seq(Asks) /\ (~alive => inbox' = <<>>)
    BY <2>2, ShapePut
  <2>4. Head(commands).do = "prompt" => Head(commands).turn \in 1..MaxTurns
    BY <2>2, AskFacts, AcpAssumption DEF AcpAssumption
  <2>5. Words'
    BY <1>18, <2>1, <2>2, <2>3, <2>4 DEF TakeSteer, Takes, Idle, Prompt,
       Answer,
       SteerWithoutTurn, NotSync, Shape, Words
  <2>6. Lines'
    BY <1>18, <2>1, <2>2, <2>3, <2>4 DEF TakeSteer, Takes, Idle, Prompt,
       Answer,
       SteerWithoutTurn, NotSync, Shape, Words, Lines
  <2>7. Flags'
    BY <1>18, <2>1, <2>2, <2>3, <2>4 DEF TakeSteer, Takes, Idle, Prompt,
       Answer,
       SteerWithoutTurn, NotSync, Shape, Words, Lines, Flags
  <2> QED
    BY <2>5, <2>6, <2>7 DEF Shape
<1>19. CASE TakeCancel
  <2>1. commands # <<>> /\ commands' = Tail(commands)
    BY <1>19 DEF TakeCancel, Takes
  <2>2. commands' \in Seq(Asks) /\ Head(commands) \in Asks
    BY <2>1, ShapeTake
  <2>3. Put(Head(commands)) => inbox' \in Seq(Asks) /\ (~alive => inbox' = <<>>)
    BY <2>2, ShapePut
  <2>4. Head(commands).do = "prompt" => Head(commands).turn \in 1..MaxTurns
    BY <2>2, AskFacts, AcpAssumption DEF AcpAssumption
  <2>5. Words'
    BY <1>19, <2>1, <2>2, <2>3, <2>4 DEF TakeCancel, Takes, NotSync, Shape,
       Words
  <2>6. Lines'
    BY <1>19, <2>1, <2>2, <2>3, <2>4 DEF TakeCancel, Takes, NotSync, Shape,
       Words,
       Lines
  <2>7. Flags'
    BY <1>19, <2>1, <2>2, <2>3, <2>4 DEF TakeCancel, Takes, NotSync, Shape,
       Words,
       Lines, Flags
  <2> QED
    BY <2>5, <2>6, <2>7 DEF Shape
<1>20. CASE TakeClose
  <2>1. 0 \in 0..MaxTurns
    BY AcpAssumption DEF AcpAssumption
  <2>2. Words'
    BY <1>20, <2>1, EmptySeq DEF TakeClose, Gone, NotSync, Shape, Words
  <2>3. Lines'
    BY <1>20, <2>1, EmptySeq DEF TakeClose, Gone, NotSync, Shape, Words, Lines
  <2>4. Flags'
    BY <1>20, <2>1, EmptySeq DEF TakeClose, Gone, NotSync, Shape, Words, Lines,
       Flags
  <2> QED
    BY <2>2, <2>3, <2>4 DEF Shape
<1>21. CASE PromptDone
  <2> DEFINE Kind == [turn : 0..MaxTurns, verdict : Verdicts]
             note == [turn |-> prompted, verdict |-> IF outcome = "none" THEN "flaked"
                                                     ELSE outcome]
  <2>1. note \in Kind
    BY DEF Shape, Words, Lines, Verdicts
  <2>2. notes' \in Seq(Kind)
    <3> HIDE DEF Kind, note
    <3>1. notes' = Append(notes, note) /\ notes \in Seq(Kind)
      BY <1>21 DEF PromptDone, Shape, Lines, note, Kind
    <3> QED
      BY <2>1, <3>1, AppendFacts
  <2>3. 0 \in 0..MaxTurns
    BY AcpAssumption DEF AcpAssumption
  <2>4. Words'
    BY <1>21, <2>2, <2>3 DEF PromptDone, Prompt, NotSync, Shape, Words
  <2>5. Lines'
    BY <1>21, <2>2, <2>3 DEF PromptDone, Prompt, NotSync, Shape, Words, Lines
  <2>6. Flags'
    BY <1>21, <2>2, <2>3 DEF PromptDone, Prompt, NotSync, Shape, Words, Lines,
       Flags
  <2> QED
    BY <2>4, <2>5, <2>6 DEF Shape
<1>22. CASE SteerDone
  <2>1. Words'
    BY <1>22 DEF SteerDone, Answer, NotSync, Shape, Words
  <2>2. Lines'
    BY <1>22 DEF SteerDone, Answer, NotSync, Shape, Words, Lines
  <2>3. Flags'
    BY <1>22 DEF SteerDone, Answer, NotSync, Shape, Words, Lines, Flags
  <2> QED
    BY <2>1, <2>2, <2>3 DEF Shape
<1>23. CASE DriverFails
  <2> DEFINE Kind == [turn : 0..MaxTurns, verdict : Verdicts]
             note == [turn |-> 0, verdict |-> "flaked"]
  <2>1. note \in Kind
    BY AcpAssumption DEF AcpAssumption, Verdicts
  <2>2. notes' \in Seq(Kind)
    <3> HIDE DEF Kind, note
    <3>1. notes' = Append(notes, note) /\ notes \in Seq(Kind)
      BY <1>23 DEF DriverFails, Shape, Lines, note, Kind
    <3> QED
      BY <2>1, <3>1, AppendFacts
  <2>3. 0 \in 0..MaxTurns
    BY AcpAssumption DEF AcpAssumption
  <2>4. Words'
    BY <1>23, <2>2, <2>3, EmptySeq DEF DriverFails, Connected, Gone, NotSync,
       Shape, Words
  <2>5. Lines'
    BY <1>23, <2>2, <2>3, EmptySeq DEF DriverFails, Connected, Gone, NotSync,
       Shape, Words, Lines
  <2>6. Flags'
    BY <1>23, <2>2, <2>3, EmptySeq DEF DriverFails, Connected, Gone, NotSync,
       Shape, Words, Lines, Flags
  <2> QED
    BY <2>4, <2>5, <2>6 DEF Shape
<1>24. CASE AgentPrompted
  <2>1. inbox # <<>> /\ inbox' = Tail(inbox)
    BY <1>24 DEF AgentPrompted, AgentTakes
  <2>2. inbox' \in Seq(Asks) /\ Head(inbox) \in Asks
    BY <2>1, ShapeRead
  <2>3. Head(inbox).turn \in 0..MaxTurns
    BY <2>2, AskFacts
  <2>4. Words'
    BY <1>24, <2>1, <2>2, <2>3 DEF AgentPrompted, AgentTakes, Runs, OnlyAgent,
       Give, Shape, Words
  <2>5. Lines'
    BY <1>24, <2>1, <2>2, <2>3 DEF AgentPrompted, AgentTakes, Runs, OnlyAgent,
       Give, Shape, Words, Lines
  <2>6. Flags'
    BY <1>24, <2>1, <2>2, <2>3 DEF AgentPrompted, AgentTakes, Runs, OnlyAgent,
       Give, Shape, Words, Lines, Flags
  <2> QED
    BY <2>4, <2>5, <2>6 DEF Shape
<1>25. CASE AgentSteered
  <2>1. inbox # <<>> /\ inbox' = Tail(inbox)
    BY <1>25 DEF AgentSteered, AgentTakes
  <2>2. inbox' \in Seq(Asks) /\ Head(inbox) \in Asks
    BY <2>1, ShapeRead
  <2>3. Head(inbox).turn \in 0..MaxTurns
    BY <2>2, AskFacts
  <2>4. Words'
    BY <1>25, <2>1, <2>2, <2>3 DEF AgentSteered, AgentTakes, Runs, OnlyAgent,
       Give, Shape, Words
  <2>5. Lines'
    BY <1>25, <2>1, <2>2, <2>3 DEF AgentSteered, AgentTakes, Runs, OnlyAgent,
       Give, Shape, Words, Lines
  <2>6. Flags'
    BY <1>25, <2>1, <2>2, <2>3 DEF AgentSteered, AgentTakes, Runs, OnlyAgent,
       Give, Shape, Words, Lines, Flags
  <2> QED
    BY <2>4, <2>5, <2>6 DEF Shape
<1>26. CASE AgentCancelled
  <2>1. inbox # <<>> /\ inbox' = Tail(inbox)
    BY <1>26 DEF AgentCancelled, AgentTakes
  <2>2. inbox' \in Seq(Asks) /\ Head(inbox) \in Asks
    BY <2>1, ShapeRead
  <2>3. Head(inbox).turn \in 0..MaxTurns
    BY <2>2, AskFacts
  <2>4. 0 \in 0..MaxTurns
    BY AcpAssumption DEF AcpAssumption
  <2>5. Words'
    BY <1>26, <2>1, <2>2, <2>3, <2>4 DEF AgentCancelled, AgentTakes, Runs,
       OnlyAgent, Verdicts, Shape, Words
  <2>6. Lines'
    BY <1>26, <2>1, <2>2, <2>3, <2>4 DEF AgentCancelled, AgentTakes, Runs,
       OnlyAgent, Verdicts, Shape, Words, Lines
  <2>7. Flags'
    BY <1>26, <2>1, <2>2, <2>3, <2>4 DEF AgentCancelled, AgentTakes, Runs,
       OnlyAgent, Verdicts, Shape, Words, Lines, Flags
  <2> QED
    BY <2>5, <2>6, <2>7 DEF Shape
<1>27. CASE AgentFinishes
  <2>1. 0 \in 0..MaxTurns
    BY AcpAssumption DEF AcpAssumption
  <2>2. Words'
    BY <1>27, <2>1 DEF AgentFinishes, Runs, OnlyAgent, Shape, Words
  <2>3. Lines'
    BY <1>27, <2>1 DEF AgentFinishes, Runs, OnlyAgent, Shape, Words, Lines
  <2>4. Flags'
    BY <1>27, <2>1 DEF AgentFinishes, Runs, OnlyAgent, Shape, Words, Lines,
       Flags
  <2> QED
    BY <2>2, <2>3, <2>4 DEF Shape
<1>28. CASE AgentDies
  <2>1. 0 \in 0..MaxTurns
    BY AcpAssumption DEF AcpAssumption
  <2>2. Words'
    BY <1>28, <2>1, EmptySeq DEF AgentDies, Shape, Words
  <2>3. Lines'
    BY <1>28, <2>1, EmptySeq DEF AgentDies, Shape, Words, Lines
  <2>4. Flags'
    BY <1>28, <2>1, EmptySeq DEF AgentDies, Shape, Words, Lines, Flags
  <2> QED
    BY <2>2, <2>3, <2>4 DEF Shape
<1>29. CASE UNCHANGED vars
  BY <1>29 DEF vars, Shape, Words, Lines, Flags
<1> QED
  BY <1>1, <1>2, <1>3, <1>4, <1>5, <1>6, <1>7, <1>8, <1>9, <1>10, <1>11,
     <1>12, <1>13, <1>14, <1>15, <1>16, <1>17, <1>18, <1>19, <1>20, <1>21,
     <1>22, <1>23, <1>24, <1>25, <1>26, <1>27, <1>28, <1>29 DEF Next, Poll,
     Claim, Drive, Work

-----------------------------------------------------------------------------

\* The places in a queue of the requests of a kind that carry a hail.
With(q, do, m) == {i \in DOMAIN q : q[i].do = do /\ m \in q[i].text}
Sole(q, do, m) == \A i, j \in With(q, do, m) : i = j

\* What matters of a queue: whether a hail is in it, and once.
Same(after, before, do, m) ==
  /\ With(after, do, m) = {} <=> With(before, do, m) = {}
  /\ Sole(before, do, m) => Sole(after, do, m)

LEMMA AppendOther ==
  ASSUME NEW S, NEW s \in Seq(S), NEW x \in S, NEW do, NEW m,
         x.do # do \/ m \notin x.text
  PROVE  Same(Append(s, x), s, do, m)
<1>1. With(Append(s, x), do, m) = With(s, do, m)
  <2>1. /\ Len(Append(s, x)) = Len(s) + 1 /\ Append(s, x) \in Seq(S)
        /\ \A i \in 1..Len(s) : Append(s, x)[i] = s[i]
        /\ Append(s, x)[Len(s) + 1] = x
    BY AppendFacts
  <2>2. /\ DOMAIN s = 1..Len(s) /\ DOMAIN Append(s, x) = 1..(Len(s) + 1)
        /\ Len(s) \in Nat
    BY <2>1
  <2>3. 1..(Len(s) + 1) = (1..Len(s)) \cup {Len(s) + 1}
    BY <2>2
  <2> QED
    BY <2>1, <2>2, <2>3 DEF With
<1> QED
  BY <1>1 DEF Same, Sole

LEMMA AppendThis ==
  ASSUME NEW S, NEW s \in Seq(S), NEW x \in S, NEW do, NEW m,
         x.do = do, m \in x.text, With(s, do, m) = {}
  PROVE  With(Append(s, x), do, m) # {} /\ Sole(Append(s, x), do, m)
<1>1. With(Append(s, x), do, m) = {Len(s) + 1}
  <2>1. /\ Len(Append(s, x)) = Len(s) + 1 /\ Append(s, x) \in Seq(S)
        /\ \A i \in 1..Len(s) : Append(s, x)[i] = s[i]
        /\ Append(s, x)[Len(s) + 1] = x
    BY AppendFacts
  <2>2. /\ DOMAIN s = 1..Len(s) /\ DOMAIN Append(s, x) = 1..(Len(s) + 1)
        /\ Len(s) \in Nat
    BY <2>1
  <2>3. 1..(Len(s) + 1) = (1..Len(s)) \cup {Len(s) + 1}
    BY <2>2
  <2> QED
    BY <2>1, <2>2, <2>3 DEF With
<1> QED
  BY <1>1 DEF Sole

\* The places of a queue move up when its head is taken.
LEMMA TailWith ==
  ASSUME NEW S, NEW s \in Seq(S), s # <<>>, NEW do, NEW m
  PROVE  /\ \A i \in With(Tail(s), do, m) :
              i \in Nat \ {0} /\ i + 1 \in With(s, do, m)
         /\ \A i \in With(s, do, m) :
              i = 1 \/ (i \in Nat /\ i - 1 \in With(Tail(s), do, m))
         /\ 1 \in With(s, do, m) <=> Head(s).do = do /\ m \in Head(s).text
<1>1. /\ Tail(s) \in Seq(S) /\ Len(s) \in Nat \ {0}
      /\ Len(Tail(s)) = Len(s) - 1
      /\ \A i \in 1..(Len(s) - 1) : Tail(s)[i] = s[i + 1]
      /\ Head(s) = s[1]
  BY TailFacts
<1>2. DOMAIN s = 1..Len(s) /\ DOMAIN Tail(s) = 1..(Len(s) - 1)
  BY <1>1
<1>3. ASSUME NEW i \in With(Tail(s), do, m)
      PROVE  i \in Nat \ {0} /\ i + 1 \in With(s, do, m)
  BY <1>1, <1>2, <1>3 DEF With
<1>4. ASSUME NEW i \in With(s, do, m), i # 1
      PROVE  i \in Nat /\ i - 1 \in With(Tail(s), do, m)
  <2>1. i \in 1..Len(s) /\ i - 1 \in 1..(Len(s) - 1) /\ (i - 1) + 1 = i
    BY <1>1, <1>2, <1>4 DEF With
  <2>2. Tail(s)[i - 1] = s[i]
    BY <1>1, <2>1
  <2> QED
    BY <1>2, <1>4, <2>1, <2>2 DEF With
<1>5. 1 \in With(s, do, m) <=> Head(s).do = do /\ m \in Head(s).text
  BY <1>1, <1>2 DEF With
<1> QED
  BY <1>3, <1>4, <1>5

LEMMA TailOther ==
  ASSUME NEW S, NEW s \in Seq(S), s # <<>>, NEW do, NEW m,
         Head(s).do # do \/ m \notin Head(s).text
  PROVE  Same(Tail(s), s, do, m)
<1>1. 1 \notin With(s, do, m)
  BY TailWith
<1>2. With(Tail(s), do, m) = {} <=> With(s, do, m) = {}
  BY <1>1, TailWith
<1>3. ASSUME Sole(s, do, m) PROVE Sole(Tail(s), do, m)
  <2> SUFFICES ASSUME NEW i \in With(Tail(s), do, m),
                      NEW j \in With(Tail(s), do, m)
               PROVE  i = j
    BY DEF Sole
  <2>1. /\ i \in Nat /\ j \in Nat
        /\ i + 1 \in With(s, do, m) /\ j + 1 \in With(s, do, m)
    BY TailWith
  <2> QED
    BY <1>3, <2>1 DEF Sole
<1> QED
  BY <1>2, <1>3 DEF Same

\* The head is the one request that carries the hail.
Taken(s, do, m) ==
  /\ With(s, do, m) # {}
  /\ Sole(s, do, m) => With(Tail(s), do, m) = {}

LEMMA TailThis ==
  ASSUME NEW S, NEW s \in Seq(S), s # <<>>, NEW do, NEW m,
         Head(s).do = do, m \in Head(s).text
  PROVE  Taken(s, do, m)
<1>1. 1 \in With(s, do, m)
  BY TailWith
<1>2. ASSUME Sole(s, do, m), NEW i \in With(Tail(s), do, m) PROVE FALSE
  <2>1. i \in Nat \ {0} /\ i + 1 \in With(s, do, m)
    BY TailWith
  <2>2. i + 1 = 1
    BY <1>1, <1>2, <2>1 DEF Sole
  <2> QED
    BY <2>1, <2>2
<1> QED
  BY <1>1, <1>2 DEF Taken

LEMMA EmptyWith ==
  ASSUME NEW do, NEW m
  PROVE  With(<<>>, do, m) = {} /\ Sole(<<>>, do, m)
BY DEF With, Sole

LEMMA SameIsSame == ASSUME NEW s, NEW do, NEW m PROVE Same(s, s, do, m)
BY DEF Same

\* An empty place is not more than one.
LEMMA NoneIsSole ==
  ASSUME NEW s, NEW do, NEW m, With(s, do, m) = {}
  PROVE  Sole(s, do, m)
BY DEF Sole

-----------------------------------------------------------------------------

\* Where the supervisor has each hail.
Known ==
  /\ seen \subseteq sent /\ sent \subseteq Mails
  /\ held \cup acked \subseteq seen /\ held \cap acked = {}
  /\ late \subseteq Notes \cap seen
  /\ pc = "steering" => asked \in (Notes \cap seen) \ (held \cup acked \cup late)
  /\ pc # "steering" => asked = NoMail
  /\ driver = "steer" => steered \in Notes \cap seen
  /\ driver # "steer" => steered = NoMail

\* A request that carries the hail waits in one of the queues, and it is one.
Placed(do, m) == With(commands, do, m) # {} \/ With(inbox, do, m) # {}

Single(do, m) ==
  /\ Sole(commands, do, m) /\ Sole(inbox, do, m)
  /\ With(commands, do, m) = {} \/ With(inbox, do, m) = {}

\* A hail is steered once and prompted once at most, and prompted only when it
\* is acked: with what waits in the queues it is given twice at most.
Counted(m) ==
  /\ Single("steer", m) /\ Single("prompt", m)
  /\ given[m] \in 0..2
  /\ m \notin seen => given[m] = 0 /\ ~Placed("steer", m) /\ ~Placed("prompt", m)
  /\ m \notin acked => given[m] \in 0..1 /\ ~Placed("prompt", m)
  /\ m \notin acked /\ Placed("steer", m) => given[m] = 0
  /\ Placed("steer", m) /\ Placed("prompt", m) => given[m] = 0
  /\ Placed("steer", m) \/ Placed("prompt", m) => given[m] \in 0..1

\* The one steer the agent has to read is the one the driver waits for.
OneSteer ==
  /\ \A n \in Mails : With(inbox, "steer", n) # {} =>
       driver = "steer" /\ steered = n /\ steerOutcome = "none"
  /\ driver = "steer" => With(commands, "steer", steered) = {}

\* What the supervisor is told of the steer it waits for is what became of it.
Answered ==
  /\ pc = "steering" /\ driver = "steer" /\ steered = asked =>
       /\ reply = "none"
       /\ steerOutcome = "injected" => given[asked] = 1
       /\ steerOutcome # "injected" => given[asked] = 0
  /\ pc = "steering" /\ reply # "none" =>
       /\ ~Placed("steer", asked) /\ (driver = "steer" => steered # asked)
       /\ reply = "midturn" => given[asked] = 1
       /\ reply # "midturn" => given[asked] = 0

\* A hail that no steer was given up on is in one place only.
Once(m) ==
  /\ Placed("steer", m) => pc = "steering" /\ asked = m /\ reply = "none"
  /\ m \in held /\ driver # "gone" => given[m] = 0
  /\ m \in acked /\ Placed("prompt", m) => given[m] = 0
  /\ m \in acked => given[m] = 1 \/ Placed("prompt", m) \/ ~alive
  /\ given[m] \in 0..1

MailInv ==
  /\ Known /\ given \in [Mails -> 0..2]
  /\ \A m \in Mails : Counted(m)
  /\ OneSteer /\ Answered
  /\ \A m \in Mails \ late : Once(m)

Alike ==
  \A do \in {"prompt", "steer"}, m \in Mails :
    Same(commands', commands, do, m) /\ Same(inbox', inbox, do, m)

LEMMA AlikeKeeps ==
  ASSUME Alike, NEW do \in {"prompt", "steer"}, NEW m \in Mails
  PROVE  /\ Placed(do, m)' <=> Placed(do, m)
         /\ Single(do, m) => Single(do, m)'
         /\ With(inbox, do, m)' = {} <=> With(inbox, do, m) = {}
         /\ With(commands, do, m)' = {} <=> With(commands, do, m) = {}
BY DEF Alike, Same, Placed, Single

\* A step that gives the conversation nothing and moves no hail in the queues.
LEMMA MailQuiet ==
  ASSUME MailInv, Known', Alike,
         UNCHANGED <<acked, late, given, alive, reply, steered, steerOutcome,
                     asked>>,
         pc = "steering" <=> pc' = "steering",
         driver = "steer" <=> driver' = "steer",
         driver = "gone" => driver' = "gone",
         held' \subseteq held \cup (Mails \ seen), seen \subseteq seen'
  PROVE  MailInv'
<1>1. ASSUME NEW m \in Mails PROVE Counted(m)'
  BY AlikeKeeps DEF MailInv, Counted
<1>2. OneSteer'
  <2>1. ASSUME driver' = "steer" PROVE With(commands', "steer", steered') = {}
    <3>1. driver = "steer" /\ steered' = steered /\ steered \in Mails
      BY <2>1, AcpAssumption DEF Known, MailInv, AcpAssumption, Mails
    <3> QED
      BY <3>1, AlikeKeeps DEF MailInv, OneSteer
  <2> QED
    BY <2>1, AlikeKeeps DEF MailInv, OneSteer
<1>3. Answered'
  <2>1. pc = "steering" => asked \in Mails
    BY DEF MailInv, Known, Mails
  <2> QED
    BY <2>1, AlikeKeeps DEF MailInv, Answered
<1>4. ASSUME NEW m \in Mails, m \notin late PROVE Once(m)'
  <2>1. Placed("steer", m)' => pc' = "steering" /\ asked' = m /\ reply' = "none"
    BY <1>4, AlikeKeeps DEF MailInv, Once
  <2>2. m \in held' /\ driver' # "gone" => given'[m] = 0
    <3>1. m \notin seen => given[m] = 0
      BY DEF MailInv, Counted
    <3> QED
      BY <1>4, <3>1 DEF MailInv, Once
  <2>3. /\ m \in acked' /\ Placed("prompt", m)' => given'[m] = 0
        /\ m \in acked' => given'[m] = 1 \/ Placed("prompt", m)' \/ ~alive'
        /\ given'[m] \in 0..1
    BY <1>4, AlikeKeeps DEF MailInv, Once
  <2> QED
    BY <2>1, <2>2, <2>3 DEF Once
<1> QED
  BY <1>1, <1>2, <1>3, <1>4 DEF MailInv

LEMMA AlikeSame == UNCHANGED <<commands, inbox>> => Alike
BY SameIsSame DEF Alike

LEMMA AlikeTell ==
  ASSUME Shape, NEW do \in {"cancel", "close"}, Tell(Request(do, {})),
         UNCHANGED inbox
  PROVE  Alike
<1>1. Request(do, {}) \in Asks
  BY AskFacts DEF Shape, Words
<1>2. ASSUME NEW d \in {"prompt", "steer"}, NEW m \in Mails
      PROVE  Same(commands', commands, d, m)
  <2>1. commands \in Seq(Asks) /\ m \notin Request(do, {}).text
    BY DEF Shape, Lines, Request
  <2>2. Same(Append(commands, Request(do, {})), commands, d, m)
    BY <1>1, <2>1, AppendOther
  <2> QED
    BY <2>2 DEF Tell
<1> QED
  BY <1>2, SameIsSame DEF Alike

LEMMA AlikeTake ==
  ASSUME Shape, commands # <<>>, Head(commands).do \in {"cancel", "close"},
         commands' = Tail(commands), Put(Head(commands))
  PROVE  Alike
<1>1. Head(commands) \in Asks
  BY ShapeTake
<1>2. Head(commands).text = {}
  BY <1>1, AskFacts
<1>3. ASSUME NEW d \in {"prompt", "steer"}, NEW m \in Mails
      PROVE  Same(commands', commands, d, m)
  <2>1. Same(Tail(commands), commands, d, m)
    BY <1>2, TailOther DEF Shape, Lines
  <2> QED
    BY <2>1
<1>4. ASSUME NEW d \in {"prompt", "steer"}, NEW m \in Mails
      PROVE  Same(inbox', inbox, d, m)
  <2>1. inbox \in Seq(Asks)
    BY DEF Shape, Lines
  <2>2. Same(Append(inbox, Head(commands)), inbox, d, m)
    BY <1>1, <1>2, <2>1, AppendOther
  <2> QED
    BY <2>2, SameIsSame DEF Put
<1> QED
  BY <1>3, <1>4 DEF Alike

LEMMA AlikeRead ==
  ASSUME Shape, inbox # <<>>, Head(inbox).do \in {"cancel", "close"},
         inbox' = Tail(inbox), UNCHANGED commands
  PROVE  Alike
<1>1. Head(inbox) \in Asks
  BY ShapeRead
<1>2. Head(inbox).text = {}
  BY <1>1, AskFacts
<1>3. ASSUME NEW d \in {"prompt", "steer"}, NEW m \in Mails
      PROVE  Same(inbox', inbox, d, m)
  <2>1. Same(Tail(inbox), inbox, d, m)
    BY <1>2, TailOther DEF Shape, Lines
  <2> QED
    BY <2>1
<1> QED
  BY <1>3, SameIsSame DEF Alike

\* A prompt takes what waits: the agent was not given it, unless a steer of it

\* was given up on.
LEMMA MailStartTurn ==
  ASSUME TurnInv, Shape, MailInv, NEW texts \in SUBSET Mails, StartTurn(texts)
  PROVE  MailInv'
<1> USE DEF supervisor, guarding, mailbox, queues, driving, process, agent
<1> DEFINE prompt == [do |-> "prompt", text |-> texts, turn |-> turn + 1]
<1>1. /\ commands' = Append(commands, prompt) /\ inbox' = inbox
      /\ prompt \in Asks /\ commands \in Seq(Asks)
      /\ driver # "gone" /\ pc = "between" /\ pc' = "poll"
  BY AskFacts DEF StartTurn, NotChannel, Connected, Shape, Words, Lines
<1>2. \A m \in texts : m \notin acked /\ m \in held \cup (sent \ seen)
  BY DEF StartTurn, Opens, Waiting, MailInv, Known
<1>3. /\ seen' = seen \cup texts /\ held' = held \ texts
      /\ acked' = acked \cup texts /\ sent' = sent /\ late' = late
      /\ UNCHANGED <<asked, given, reply, driver, steered, alive, steerOutcome>>
  BY DEF StartTurn, NotChannel
<1>4. ASSUME NEW m \in Mails
      PROVE  /\ Placed("steer", m)' <=> Placed("steer", m)
             /\ Single("steer", m) => Single("steer", m)'
  <2>1. Same(Append(commands, prompt), commands, "steer", m)
    BY <1>1, AppendOther
  <2> QED
    BY <1>1, <2>1 DEF Same, Placed, Single
<1>5. ASSUME NEW m \in Mails, m \notin texts
      PROVE  /\ Placed("prompt", m)' <=> Placed("prompt", m)
             /\ Single("prompt", m) => Single("prompt", m)'
  <2>1. Same(Append(commands, prompt), commands, "prompt", m)
    BY <1>1, <1>5, AppendOther
  <2> QED
    BY <1>1, <2>1 DEF Same, Placed, Single
<1>6. ASSUME NEW m \in texts
      PROVE  Placed("prompt", m)' /\ Single("prompt", m)'
  <2>1. With(commands, "prompt", m) = {} /\ With(inbox, "prompt", m) = {}
    BY <1>2 DEF MailInv, Counted, Placed
  <2>2. /\ With(Append(commands, prompt), "prompt", m) # {}
        /\ Sole(Append(commands, prompt), "prompt", m)
    BY <1>1, <2>1, AppendThis
  <2> QED
    BY <1>1, <2>1, <2>2, NoneIsSole DEF Placed, Single
<1> HIDE DEF prompt
<1>7. Known'
  BY <1>1, <1>2, <1>3 DEF MailInv, Known
<1>8. ASSUME NEW m \in Mails PROVE Counted(m)'
  <2>1. CASE m \in texts
    <3>1. Counted(m) /\ m \notin acked
      BY <1>2, <2>1 DEF MailInv
    <3> QED
      BY <1>3, <1>4, <1>6, <2>1, <3>1 DEF Counted
  <2>2. CASE m \notin texts
    BY <1>3, <1>4, <1>5, <2>2 DEF MailInv, Counted
  <2> QED
    BY <2>1, <2>2
<1>9. OneSteer'
  <2>1. ASSUME driver = "steer" PROVE With(commands', "steer", steered) = {}
    <3>1. Same(Append(commands, prompt), commands, "steer", steered)
      BY <1>1, AppendOther DEF prompt
    <3> QED
      BY <1>1, <2>1, <3>1 DEF MailInv, OneSteer, Same
  <2> QED
    BY <1>1, <1>3, <2>1 DEF MailInv, OneSteer
<1>10. Answered'
  BY <1>1 DEF Answered
<1>11. ASSUME NEW m \in Mails, m \notin late PROVE Once(m)'
  <2>1. CASE m \in texts
    <3>1. given[m] = 0
      BY <1>1, <1>2, <1>11, <2>1 DEF MailInv, Counted, Once
    <3> QED
      BY <1>1, <1>3, <1>4, <1>6, <1>11, <2>1, <3>1 DEF MailInv, Once
  <2>2. CASE m \notin texts
    BY <1>1, <1>3, <1>4, <1>5, <1>11, <2>2 DEF MailInv, Once
  <2> QED
    BY <2>1, <2>2
<1> QED
  BY <1>3, <1>7, <1>8, <1>9, <1>10, <1>11 DEF MailInv

\* A note is steered once, as it arrives.
LEMMA MailClaimNote ==
  ASSUME TurnInv, Shape, MailInv, NEW m \in Mails, ClaimNote(m)
  PROVE  MailInv'
<1> USE DEF supervisor, guarding, mailbox, queues, driving, process, agent
<1>1. CASE Codex /\ Connected
  <2> DEFINE steer == Request("steer", {m})
  <2>1. /\ commands' = Append(commands, steer) /\ inbox' = inbox
        /\ steer \in Asks /\ commands \in Seq(Asks) /\ steer.do = "steer"
        /\ steer.text = {m} /\ m \in Notes
    BY <1>1, AskFacts DEF ClaimNote, Tell, NotChannel, Shape, Words, Lines,
       Request
  <2>2. /\ m \in sent /\ m \notin seen /\ pc = "poll" /\ pc' = "steering"
        /\ asked' = m /\ reply' = "none" /\ seen' = seen \cup {m}
        /\ UNCHANGED <<sent, held, acked, late, given, driver, steered, alive,
                       steerOutcome>>
    BY <1>1 DEF ClaimNote, Unread, NotChannel
  <2> HIDE DEF steer
  <2>3. ASSUME NEW n \in Mails, NEW do \in {"prompt", "steer"},
               do = "prompt" \/ n # m
        PROVE  /\ Placed(do, n)' <=> Placed(do, n)
               /\ Single(do, n) => Single(do, n)'
    <3>1. Same(Append(commands, steer), commands, do, n)
      BY <2>1, <2>3, AppendOther
    <3> QED
      BY <2>1, <3>1 DEF Same, Placed, Single
  <2>4. Placed("steer", m)' /\ Single("steer", m)'
    <3>1. With(commands, "steer", m) = {} /\ With(inbox, "steer", m) = {}
      BY <2>2 DEF MailInv, Counted, Placed
    <3>2. /\ With(Append(commands, steer), "steer", m) # {}
          /\ Sole(Append(commands, steer), "steer", m)
      BY <2>1, <3>1, AppendThis
    <3> QED
      BY <2>1, <3>1, <3>2, NoneIsSole DEF Placed, Single
  <2>5. Known'
    BY <2>1, <2>2 DEF MailInv, Known
  <2>6. ASSUME NEW n \in Mails PROVE Counted(n)'
    <3>1. CASE n = m
      <4>1. Counted(m) /\ m \notin acked
        BY <2>2 DEF MailInv, Known
      <4> QED
        BY <2>2, <2>3, <2>4, <3>1, <4>1 DEF Counted
    <3>2. CASE n # m
      BY <2>2, <2>3, <3>2 DEF MailInv, Counted
    <3> QED
      BY <3>1, <3>2
  <2>7. OneSteer'
    <3>1. ASSUME driver = "steer" PROVE With(commands', "steer", steered) = {}
      <4>1. steered # m
        BY <2>2, <3>1 DEF MailInv, Known
      <4>2. Same(Append(commands, steer), commands, "steer", steered)
        BY <2>1, <4>1, AppendOther
      <4> QED
        BY <2>1, <3>1, <4>2 DEF MailInv, OneSteer, Same
    <3> QED
      BY <2>1, <2>2, <3>1 DEF MailInv, OneSteer
  <2>8. Answered'
    BY <2>2 DEF MailInv, Known, Answered
  <2>9. ASSUME NEW n \in Mails, n \notin late PROVE Once(n)'
    <3>1. CASE n = m
      <4>1. given[m] = 0 /\ m \notin held /\ m \notin acked
        BY <2>2 DEF MailInv, Known, Counted
      <4> QED
        BY <2>2, <3>1, <4>1 DEF Once
    <3>2. CASE n # m
      BY <2>2, <2>3, <2>9, <3>2 DEF MailInv, Once
    <3> QED
      BY <3>1, <3>2
  <2> QED
    BY <2>2, <2>5, <2>6, <2>7, <2>8, <2>9 DEF MailInv
<1>2. CASE ~(Codex /\ Connected)
  <2>1. Known'
    BY <1>2 DEF ClaimNote, Unread, Hold, NotChannel, MailInv, Known
  <2>2. Alike
    BY <1>2, AlikeSame DEF ClaimNote, NotChannel
  <2>3. UNCHANGED <<acked, late, given, alive, reply, steered, steerOutcome,
                     asked>>
        /\ (pc = "steering" <=> pc' = "steering")
        /\ (driver = "steer" <=> driver' = "steer")
        /\ (driver = "gone" => driver' = "gone")
        /\ held' \subseteq held \cup (Mails \ seen) /\ seen \subseteq seen'
    BY <1>2 DEF ClaimNote, Unread, Hold, NotChannel, MailInv, Known
  <2> QED
    BY <2>1, <2>2, <2>3, MailQuiet
<1> QED
  BY <1>1, <1>2

\* The answer says what became of the steer: taken, or in no queue any more.
LEMMA MailSteerReturns ==
  ASSUME TurnInv, Shape, MailInv, SteerReturns
  PROVE  MailInv'
<1> USE DEF supervisor, guarding, mailbox, queues, driving, process, agent
<1>1. /\ pc = "steering" /\ pc' = "poll" /\ asked' = NoMail /\ reply' = "none"
      /\ UNCHANGED <<sent, seen, late, commands, inbox, driver, steered, alive,
                     steerOutcome, given>>
      /\ reply # "none" \/ driver = "gone"
      /\ IF reply = "midturn"
         THEN acked' = acked \cup {asked} /\ held' = held
         ELSE held' = held \cup {asked} /\ acked' = acked
  BY DEF SteerReturns, BackToPoll, NotChannel, Connected
<1>2. ASSUME NEW m \in Mails, NEW do \in {"prompt", "steer"}
      PROVE  (Placed(do, m)' <=> Placed(do, m)) /\ (Single(do, m)' <=> Single(do, m))
  BY <1>1 DEF Placed, Single
<1>3. ~Placed("steer", asked)
  BY <1>1, EmptyWith DEF MailInv, Answered, Shape, Flags, Placed
<1>4. Known'
  BY <1>1 DEF MailInv, Known
<1>5. ASSUME NEW m \in Mails PROVE Counted(m)'
  BY <1>1, <1>2 DEF MailInv, Known, Counted
<1>6. OneSteer'
  BY <1>1 DEF MailInv, OneSteer
<1>7. Answered'
  BY <1>1 DEF Answered
<1>8. ASSUME NEW m \in Mails, m \notin late PROVE Once(m)'
  <2>1. Placed("steer", m)' => pc' = "steering" /\ asked' = m /\ reply' = "none"
    BY <1>2, <1>3, <1>8 DEF MailInv, Once
  <2>2. m \in held' /\ driver' # "gone" => given'[m] = 0
    <3>1. m = asked /\ reply \notin {"none", "midturn"} => given[m] = 0
      BY <1>1 DEF MailInv, Answered
    <3> QED
      BY <1>1, <1>8, <3>1 DEF MailInv, Once
  <2>3. m \in acked' => given'[m] = 1 \/ Placed("prompt", m)' \/ ~alive'
    <3>1. m = asked /\ reply = "midturn" => given[m] = 1
      BY <1>1 DEF MailInv, Answered
    <3> QED
      BY <1>1, <1>2, <1>8, <3>1 DEF MailInv, Once
  <2>4. m \in acked' /\ Placed("prompt", m)' => given'[m] = 0
    <3>1. m = asked => ~Placed("prompt", m)
      BY <1>1 DEF MailInv, Known, Counted
    <3> QED
      BY <1>1, <1>2, <1>8, <3>1 DEF MailInv, Once
  <2>5. given'[m] \in 0..1
    BY <1>1, <1>8 DEF MailInv, Once
  <2> QED
    BY <2>1, <2>2, <2>3, <2>4, <2>5 DEF Once
<1> QED
  BY <1>1, <1>4, <1>5, <1>6, <1>7, <1>8 DEF MailInv

\* A steer that is given up on may still be given: the hail is late from then.
LEMMA MailSteerTimesOut ==
  ASSUME TurnInv, Shape, MailInv, SteerTimesOut
  PROVE  MailInv'
<1> USE DEF supervisor, guarding, mailbox, queues, driving, process, agent
<1>1. /\ pc = "steering" /\ pc' = "poll" /\ asked' = NoMail /\ reply' = "none"
      /\ UNCHANGED <<sent, seen, acked, commands, inbox, driver, steered, alive,
                     steerOutcome, given>>
      /\ held' = held \cup {asked} /\ late' = late \cup {asked}
  BY DEF SteerTimesOut, BackToPoll, NotChannel
<1>2. ASSUME NEW m \in Mails, NEW do \in {"prompt", "steer"}
      PROVE  (Placed(do, m)' <=> Placed(do, m)) /\ (Single(do, m)' <=> Single(do, m))
  BY <1>1 DEF Placed, Single
<1>3. Known'
  BY <1>1 DEF MailInv, Known
<1>4. ASSUME NEW m \in Mails PROVE Counted(m)'
  BY <1>1, <1>2 DEF MailInv, Counted
<1>5. OneSteer'
  BY <1>1 DEF MailInv, OneSteer
<1>6. Answered'
  BY <1>1 DEF Answered
<1>7. ASSUME NEW m \in Mails, m \notin late' PROVE Once(m)'
  BY <1>1, <1>2, <1>7 DEF MailInv, Once
<1> QED
  BY <1>1, <1>3, <1>4, <1>5, <1>6, <1>7 DEF MailInv

\* What the driver takes it puts on the wire of a live agent.
LEMMA TakeMoves ==
  ASSUME Shape, MailInv, commands # <<>>, commands' = Tail(commands),
         Put(Head(commands)), NEW do \in {"prompt", "steer"}, NEW m \in Mails,
         Single(do, m)
  PROVE  /\ Placed(do, m)' => Placed(do, m)
         /\ alive => (Placed(do, m) => Placed(do, m)')
         /\ Single(do, m)'
         /\ Head(commands).do # do \/ m \notin Head(commands).text =>
              /\ With(commands, do, m)' = {} <=> With(commands, do, m) = {}
              /\ With(inbox, do, m)' = {} <=> With(inbox, do, m) = {}
         /\ Head(commands).do = do /\ m \in Head(commands).text =>
              With(commands, do, m)' = {} /\ Placed(do, m)
<1> DEFINE head == Head(commands)
<1>1. /\ head \in Asks /\ inbox \in Seq(Asks) /\ commands \in Seq(Asks)
      /\ inbox' = IF alive THEN Append(inbox, head) ELSE inbox
      /\ commands' = Tail(commands) /\ Head(commands) = head
  BY ShapeTake DEF Shape, Lines, Put
<1> HIDE DEF head
<1>2. CASE head.do # do \/ m \notin head.text
  <2>1. Same(Tail(commands), commands, do, m)
    BY <1>1, <1>2, TailOther
  <2>2. Same(Append(inbox, head), inbox, do, m)
    BY <1>1, <1>2, AppendOther
  <2>3. Same(inbox', inbox, do, m)
    BY <1>1, <2>2, SameIsSame
  <2> QED
    BY <1>1, <1>2, <2>1, <2>3 DEF Same, Placed, Single
<1>3. CASE head.do = do /\ m \in head.text
  <2>1. /\ With(commands, do, m) # {} /\ With(Tail(commands), do, m) = {}
        /\ With(inbox, do, m) = {} /\ Sole(Tail(commands), do, m)
    <3>1. Taken(commands, do, m)
      BY <1>1, <1>3, TailThis
    <3>2. With(Tail(commands), do, m) = {} /\ With(inbox, do, m) = {}
      BY <3>1 DEF Single, Taken
    <3> QED
      BY <3>1, <3>2, NoneIsSole DEF Taken
  <2>2. With(Append(inbox, head), do, m) # {} /\ Sole(Append(inbox, head), do, m)
    BY <1>1, <1>3, <2>1, AppendThis
  <2> QED
    BY <1>1, <1>3, <2>1, <2>2 DEF Placed, Single
<1> QED
  BY <1>1, <1>2, <1>3

\* Fewer requests are in the queues: no count rises.
LEMMA FewerCounted ==
  ASSUME NEW m \in Mails, Counted(m), Single("steer", m)', Single("prompt", m)',
         Placed("steer", m)' => Placed("steer", m),
         Placed("prompt", m)' => Placed("prompt", m),
         UNCHANGED given, seen \subseteq seen', acked \subseteq acked'
  PROVE  Counted(m)'
BY DEF Counted

\* The driver is idle when it finds a prompt, so that none is dropped.
LEMMA MailTakePrompt ==
  ASSUME TurnInv, Shape, MailInv, TakePrompt
  PROVE  MailInv'
<1> USE DEF supervisor, guarding, mailbox, queues, driving, process, agent
<1>1. /\ commands # <<>> /\ commands' = Tail(commands)
      /\ Head(commands).do = "prompt"
  BY DEF TakePrompt, Takes
<1>2. driver = "idle"
  BY <1>1, TakeKeeps DEF TurnInv, OnePlace
<1>3. /\ Put(Head(commands)) /\ driver' = "prompt"
      /\ UNCHANGED <<pc, asked, sent, seen, held, acked, late, reply, steered,
                     alive, steerOutcome, given>>
  BY <1>2 DEF TakePrompt, Takes, NotSync, Idle
<1>4. ASSUME NEW m \in Mails, NEW do \in {"prompt", "steer"}
      PROVE  /\ Placed(do, m)' => Placed(do, m)
             /\ alive => (Placed(do, m) => Placed(do, m)')
             /\ Single(do, m)'
  BY <1>1, <1>3, TakeMoves DEF MailInv, Counted
<1>5. ASSUME NEW m \in Mails
      PROVE  With(inbox, "steer", m)' = {} <=> With(inbox, "steer", m) = {}
  BY <1>1, <1>3, TakeMoves DEF MailInv, Counted
<1>6. Known'
  BY <1>2, <1>3 DEF MailInv, Known
<1>7. ASSUME NEW m \in Mails PROVE Counted(m)'
  BY <1>3, <1>4, FewerCounted DEF MailInv
<1>8. OneSteer'
  BY <1>2, <1>3, <1>5 DEF MailInv, OneSteer
<1>9. Answered'
  BY <1>2, <1>3, <1>4 DEF MailInv, Known, Answered, Mails
<1>10. ASSUME NEW m \in Mails, m \notin late PROVE Once(m)'
  BY <1>2, <1>3, <1>4, <1>10 DEF MailInv, Once
<1> QED
  BY <1>3, <1>6, <1>7, <1>8, <1>9, <1>10 DEF MailInv

\* A steer is put to the agent while a prompt runs, and answered at once when

\* none does.
LEMMA MailTakeSteer ==
  ASSUME TurnInv, Shape, MailInv, TakeSteer
  PROVE  MailInv'
<1> USE DEF supervisor, guarding, mailbox, queues, driving, process, agent
<1>1. /\ commands # <<>> /\ commands' = Tail(commands)
      /\ Head(commands).do = "steer" /\ Head(commands) \in Asks
      /\ UNCHANGED <<pc, asked, sent, seen, held, acked, late, alive, given>>
  BY ShapeTake DEF TakeSteer, Takes, NotSync
<1>2. PICK m \in Notes : Head(commands).text = {m}
  BY <1>1, AskFacts
<1>3. /\ (CHOOSE n \in Head(commands).text : TRUE) = m
      /\ m \in Mails /\ commands \in Seq(Asks) /\ m \in Head(commands).text
  BY <1>2 DEF Mails, Shape, Lines
<1>4. /\ With(commands, "steer", m) # {} /\ With(Tail(commands), "steer", m) = {}
      /\ Counted(m) /\ m \in seen /\ With(inbox, "steer", m) = {}
  <2>1. Counted(m) /\ Sole(commands, "steer", m)
    BY <1>3 DEF MailInv, Counted, Single
  <2>2. Taken(commands, "steer", m)
    BY <1>1, <1>3, TailThis
  <2>3. m \in seen /\ With(inbox, "steer", m) = {}
    BY <2>1, <2>2 DEF Counted, Single, Placed, Taken
  <2> QED
    BY <2>1, <2>2, <2>3 DEF Taken
<1>5. CASE Prompt
  <2>1. /\ driver = "prompt" /\ driver' = "steer" /\ steered' = m
        /\ Put(Head(commands)) /\ steerOutcome' = "none" /\ reply' = reply
    BY <1>3, <1>5 DEF TakeSteer, Prompt, Idle
  <2>2. ASSUME NEW n \in Mails, NEW do \in {"prompt", "steer"}
        PROVE  /\ Placed(do, n)' => Placed(do, n)
               /\ alive => (Placed(do, n) => Placed(do, n)')
               /\ Single(do, n)'
    BY <1>1, <2>1, TakeMoves DEF MailInv, Counted
  <2>3. ASSUME NEW n \in Mails, n # m
        PROVE  With(inbox, "steer", n)' = {}
    <3>1. With(inbox, "steer", n) = {}
      BY <2>1 DEF MailInv, OneSteer
    <3>2. n \notin Head(commands).text
      BY <1>2, <2>3
    <3> QED
      BY <1>1, <2>1, <3>1, <3>2, TakeMoves DEF MailInv, Counted
  <2>4. Known'
    BY <1>1, <1>4, <2>1 DEF MailInv, Known
  <2>5. ASSUME NEW n \in Mails PROVE Counted(n)'
    BY <1>1, <2>2, FewerCounted DEF MailInv
  <2>6. OneSteer'
    BY <1>1, <1>4, <2>1, <2>3 DEF MailInv, OneSteer
  <2>7. pc = "steering" /\ asked = m => reply = "none" /\ given[m] = 0
    <3>1. m \notin acked /\ Placed("steer", m) => given[m] = 0
      BY <1>4 DEF Counted
    <3> QED
      BY <1>4, <3>1 DEF MailInv, Known, Answered, Placed
  <2>8. Answered'
    <3>1. pc = "steering" /\ reply # "none" => asked \in Mails /\ asked # m
      BY <2>7 DEF MailInv, Known, Mails
    <3>2. pc = "steering" /\ reply # "none" => ~Placed("steer", asked)'
      BY <1>1, <2>2, <3>1 DEF MailInv, Answered
    <3> QED
      BY <1>1, <2>1, <2>7, <3>1, <3>2 DEF MailInv, Answered
  <2>9. ASSUME NEW n \in Mails, n \notin late PROVE Once(n)'
    BY <1>1, <2>1, <2>2, <2>9 DEF MailInv, Once
  <2> QED
    BY <1>1, <2>4, <2>5, <2>6, <2>8, <2>9 DEF MailInv
<1>6. CASE Idle /\ ~Prompt
  <2>1. /\ driver = "idle" /\ driver' = "idle" /\ steered' = steered
        /\ inbox' = inbox /\ steerOutcome' = steerOutcome
        /\ reply' = IF pc = "steering" /\ asked = m THEN "nextturn" ELSE reply
    BY <1>3, <1>6 DEF TakeSteer, Prompt, Idle, Answer, SteerWithoutTurn
  <2>2. ASSUME NEW n \in Mails, NEW do \in {"prompt", "steer"},
               do = "prompt" \/ n # m
        PROVE  /\ Placed(do, n)' <=> Placed(do, n)
               /\ Single(do, n) => Single(do, n)'
    <3>1. Same(Tail(commands), commands, do, n)
      BY <1>1, <1>2, <1>3, <2>2, TailOther
    <3> QED
      BY <1>1, <2>1, <3>1 DEF Same, Placed, Single
  <2>3. ~Placed("steer", m)' /\ Single("steer", m)' /\ Placed("steer", m)
    BY <1>1, <1>4, <2>1, NoneIsSole DEF Placed, Single
  <2>4. Known'
    BY <1>1, <2>1 DEF MailInv, Known
  <2>5. ASSUME NEW n \in Mails PROVE Counted(n)'
    <3>1. Single("steer", n)' /\ Single("prompt", n)'
      BY <2>2, <2>3 DEF MailInv, Counted
    <3>2. /\ Placed("steer", n)' => Placed("steer", n)
          /\ Placed("prompt", n)' => Placed("prompt", n)
      BY <2>2, <2>3
    <3> QED
      BY <1>1, <3>1, <3>2, FewerCounted DEF MailInv
  <2>6. OneSteer'
    BY <2>1 DEF MailInv, OneSteer
  <2>7. Answered'
    <3>1. CASE pc = "steering" /\ asked = m
      <4>1. given[m] = 0
        BY <1>4, <3>1 DEF MailInv, Known, Counted, Placed
      <4> QED
        BY <1>1, <2>1, <2>3, <3>1, <4>1 DEF Answered
    <3>2. CASE pc = "steering" /\ asked # m
      <4>1. asked \in Mails
        BY <3>2 DEF MailInv, Known, Mails
      <4>2. Placed("steer", asked)' <=> Placed("steer", asked)
        BY <1>1, <2>2, <3>2, <4>1
      <4> QED
        BY <1>1, <2>1, <3>2, <4>2 DEF MailInv, Answered
    <3>3. CASE pc # "steering"
      BY <1>1, <3>3 DEF Answered
    <3> QED
      BY <3>1, <3>2, <3>3
  <2>8. ASSUME NEW n \in Mails, n \notin late PROVE Once(n)'
    <3>1. CASE n = m
      BY <1>1, <2>1, <2>2, <2>3, <2>8, <3>1 DEF MailInv, Once
    <3>2. CASE n # m
      <4>1. Placed("steer", n)' => pc = "steering" /\ asked = n /\ reply = "none"
        BY <2>2, <2>8, <3>2 DEF MailInv, Once
      <4> QED
        BY <1>1, <2>1, <2>2, <2>8, <3>2, <4>1 DEF MailInv, Once
    <3> QED
      BY <3>1, <3>2
  <2> QED
    BY <1>1, <2>4, <2>5, <2>6, <2>7, <2>8 DEF MailInv
<1> QED
  BY <1>5, <1>6 DEF TakeSteer

\* A connection that ends takes what is in the queues with it.
LEMMA MailCleared ==
  ASSUME TurnInv, Shape, MailInv, inbox' = <<>>, alive' = FALSE,
         \/ commands' = <<>> /\ driver' = "gone" /\ steered' = NoMail
         \/ UNCHANGED <<commands, driver, steered>>,
         UNCHANGED <<pc, asked, sent, seen, held, acked, late, reply,
                     steerOutcome, given>>
  PROVE  MailInv'
<1>1. ASSUME NEW m, NEW do
      PROVE  /\ With(inbox', do, m) = {} /\ Sole(inbox', do, m)
             /\ With(commands', do, m) # {} => With(commands, do, m) # {}
             /\ Sole(commands, do, m) => Sole(commands', do, m)
  BY EmptyWith
<1>2. ASSUME NEW m \in Mails, NEW do \in {"prompt", "steer"}
      PROVE  /\ Placed(do, m)' => Placed(do, m)
             /\ Single(do, m) => Single(do, m)'
  BY <1>1 DEF Placed, Single
<1>3. Known'
  BY DEF MailInv, Known
<1>4. ASSUME NEW m \in Mails PROVE Counted(m)'
  <2>1. Counted(m) /\ Single("steer", m)' /\ Single("prompt", m)'
    BY <1>2 DEF MailInv, Counted
  <2> QED
    BY <1>2, <2>1, FewerCounted
<1>5. OneSteer'
  BY <1>1 DEF MailInv, OneSteer
<1>6. Answered'
  <2>1. pc = "steering" => asked \in Mails /\ asked # NoMail
    BY AcpAssumption DEF MailInv, Known, Mails, AcpAssumption
  <2> QED
    BY <1>2, <2>1 DEF MailInv, Answered
<1>7. ASSUME NEW m \in Mails, m \notin late PROVE Once(m)'
  BY <1>2, <1>7 DEF MailInv, Once
<1> QED
  BY <1>3, <1>4, <1>5, <1>6, <1>7 DEF MailInv

\* The answer to the steer is what the agent made of it; a steer that died with

\* its agent was not given.
LEMMA MailSteerDone ==
  ASSUME TurnInv, Shape, MailInv, SteerDone
  PROVE  MailInv'
<1> USE DEF supervisor, guarding, mailbox, queues, driving, process, agent
<1>1. /\ driver = "steer" /\ driver' = "prompt" /\ steered' = NoMail
      /\ steerOutcome # "none" \/ ~alive
      /\ reply' = IF pc = "steering" /\ asked = steered
                  THEN IF steerOutcome = "injected" THEN "midturn" ELSE "error"
                  ELSE reply
      /\ UNCHANGED <<pc, asked, sent, seen, held, acked, late, commands, inbox,
                     alive, steerOutcome, given>>
  BY DEF SteerDone, Answer, NotSync
<1>2. ASSUME NEW m \in Mails, NEW do \in {"prompt", "steer"}
      PROVE  (Placed(do, m)' <=> Placed(do, m)) /\ (Single(do, m)' <=> Single(do, m))
  BY <1>1 DEF Placed, Single
<1>3. steered \in Notes /\ steered \in Mails /\ With(commands, "steer", steered) = {}
  BY <1>1 DEF MailInv, Known, OneSteer, Mails
<1>4. \A n \in Mails : With(inbox, "steer", n) = {}
  BY <1>1, EmptyWith DEF MailInv, OneSteer, Shape, Flags
<1>5. ~Placed("steer", steered)
  BY <1>3, <1>4 DEF Placed
<1>6. Known'
  BY <1>1 DEF MailInv, Known
<1>7. ASSUME NEW m \in Mails PROVE Counted(m)'
  BY <1>1, <1>2 DEF MailInv, Counted
<1>8. OneSteer'
  BY <1>1, <1>4 DEF OneSteer
<1>9. Answered'
  <2>1. CASE pc = "steering" /\ asked = steered
    <3>1. /\ steerOutcome = "injected" => given[asked] = 1
          /\ steerOutcome # "injected" => given[asked] = 0
      BY <1>1, <2>1 DEF MailInv, Answered
    <3>2. ~Placed("steer", asked)'
      BY <1>1, <1>2, <1>3, <1>5, <2>1
    <3> QED
      BY <1>1, <2>1, <3>1, <3>2 DEF Answered
  <2>2. CASE pc = "steering" /\ asked # steered
    <3>1. asked \in Mails
      BY <2>2 DEF MailInv, Known, Mails
    <3> QED
      BY <1>1, <1>2, <2>2, <3>1 DEF MailInv, Answered
  <2>3. CASE pc # "steering"
    BY <1>1, <2>3 DEF Answered
  <2> QED
    BY <2>1, <2>2, <2>3
<1>10. ASSUME NEW m \in Mails, m \notin late PROVE Once(m)'
  <2>1. Placed("steer", m)' => pc' = "steering" /\ asked' = m /\ reply' = "none"
    BY <1>1, <1>2, <1>5, <1>10 DEF MailInv, Once
  <2> QED
    BY <1>1, <1>2, <1>10, <2>1 DEF MailInv, Once
<1> QED
  BY <1>1, <1>6, <1>7, <1>8, <1>9, <1>10 DEF MailInv

\* What the agent reads is in no queue any more.
LEMMA ReadMoves ==
  ASSUME Shape, inbox # <<>>, inbox' = Tail(inbox), UNCHANGED commands,
         NEW do \in {"prompt", "steer"}, NEW m \in Mails, Single(do, m)
  PROVE  /\ Single(do, m)'
         /\ Head(inbox).do # do \/ m \notin Head(inbox).text =>
              /\ Placed(do, m)' <=> Placed(do, m)
              /\ With(inbox, do, m)' = {} <=> With(inbox, do, m) = {}
         /\ Head(inbox).do = do /\ m \in Head(inbox).text =>
              Placed(do, m) /\ ~Placed(do, m)' /\ With(inbox, do, m)' = {}
<1>1. inbox \in Seq(Asks)
  BY DEF Shape, Lines
<1>2. CASE Head(inbox).do # do \/ m \notin Head(inbox).text
  <2>1. Same(Tail(inbox), inbox, do, m)
    BY <1>1, <1>2, TailOther
  <2> QED
    BY <1>2, <2>1 DEF Same, Placed, Single
<1>3. CASE Head(inbox).do = do /\ m \in Head(inbox).text
  <2>1. /\ With(inbox, do, m) # {} /\ With(Tail(inbox), do, m) = {}
        /\ With(commands, do, m) = {} /\ Sole(Tail(inbox), do, m)
    <3>1. Taken(inbox, do, m)
      BY <1>1, <1>3, TailThis
    <3>2. With(Tail(inbox), do, m) = {} /\ With(commands, do, m) = {}
      BY <3>1 DEF Single, Taken
    <3> QED
      BY <3>1, <3>2, NoneIsSole DEF Taken
  <2> QED
    BY <1>3, <2>1 DEF Placed, Single
<1> QED
  BY <1>2, <1>3

\* The agent reads a prompt: its hails are in the conversation.
LEMMA MailAgentPrompted ==
  ASSUME TurnInv, Shape, MailInv, AgentPrompted
  PROVE  MailInv'
<1> USE DEF supervisor, guarding, mailbox, queues, driving, process, agent
<1>1. /\ inbox # <<>> /\ inbox' = Tail(inbox) /\ Head(inbox).do = "prompt"
      /\ Head(inbox) \in Asks
      /\ UNCHANGED <<pc, asked, sent, seen, held, acked, late, reply, commands,
                     driver, steered, alive, steerOutcome>>
      /\ given' = [m \in Mails |-> IF m \in Head(inbox).text
                                   THEN given[m] + 1 ELSE given[m]]
  BY ShapeRead DEF AgentPrompted, AgentTakes, OnlyAgent, Give
<1> DEFINE texts == Head(inbox).text
<1>2. ASSUME NEW m \in Mails
      PROVE  /\ Single("steer", m)' /\ Single("prompt", m)'
             /\ Placed("steer", m)' <=> Placed("steer", m)
             /\ With(inbox, "steer", m)' = {} <=> With(inbox, "steer", m) = {}
             /\ m \in texts => Placed("prompt", m) /\ ~Placed("prompt", m)'
             /\ m \notin texts => (Placed("prompt", m)' <=> Placed("prompt", m))
  <2>1. Single("steer", m) /\ Single("prompt", m)
    BY DEF MailInv, Counted
  <2> QED
    BY <1>1, <2>1, ReadMoves
<1>3. \A m \in Mails : given'[m] = IF m \in texts THEN given[m] + 1 ELSE given[m]
  BY <1>1
<1> HIDE DEF texts
<1>4. Known'
  BY <1>1 DEF MailInv, Known
<1>5. ASSUME NEW m \in Mails PROVE Counted(m)'
  <2>1. CASE m \in texts
    <3>1. Counted(m) /\ Placed("prompt", m) /\ m \in acked /\ given[m] \in 0..1
      BY <1>2, <2>1 DEF MailInv, Counted
    <3> QED
      BY <1>1, <1>2, <1>3, <2>1, <3>1 DEF MailInv, Known, Counted
  <2>2. CASE m \notin texts
    BY <1>1, <1>2, <1>3, <2>2 DEF MailInv, Counted
  <2> QED
    BY <2>1, <2>2
<1>6. OneSteer'
  BY <1>1, <1>2 DEF MailInv, OneSteer
<1>7. Answered'
  <2>1. pc = "steering" => asked \in Mails /\ asked \notin texts
    BY <1>2 DEF MailInv, Known, Mails, Counted
  <2>2. pc = "steering" => given'[asked] = given[asked]
                           /\ (Placed("steer", asked)' <=> Placed("steer", asked))
    BY <1>1, <1>2, <1>3, <2>1
  <2> QED
    BY <1>1, <2>2 DEF MailInv, Answered
<1>8. ASSUME NEW m \in Mails, m \notin late PROVE Once(m)'
  <2>1. CASE m \in texts
    <3>1. m \in acked /\ Placed("prompt", m) /\ given[m] = 0 /\ m \notin held
      BY <1>2, <1>8, <2>1 DEF MailInv, Known, Counted, Once
    <3> QED
      BY <1>1, <1>2, <1>3, <1>8, <2>1, <3>1 DEF MailInv, Once
  <2>2. CASE m \notin texts
    BY <1>1, <1>2, <1>3, <1>8, <2>2 DEF MailInv, Once
  <2> QED
    BY <2>1, <2>2
<1>9. given' \in [Mails -> 0..2]
  <2>1. \A m \in Mails : given'[m] \in 0..2
    BY <1>5 DEF Counted
  <2> QED
    BY <1>1, <2>1
<1> QED
  BY <1>1, <1>4, <1>5, <1>6, <1>7, <1>8, <1>9 DEF MailInv

\* The agent reads a steer, which is the one the driver waits for.
LEMMA MailAgentSteered ==
  ASSUME TurnInv, Shape, MailInv, AgentSteered
  PROVE  MailInv'
<1> USE DEF supervisor, guarding, mailbox, queues, driving, process, agent
<1>1. /\ inbox # <<>> /\ inbox' = Tail(inbox) /\ Head(inbox).do = "steer"
      /\ Head(inbox) \in Asks
      /\ UNCHANGED <<pc, asked, sent, seen, held, acked, late, reply, commands,
                     driver, steered, alive>>
      /\ \/ /\ steerOutcome' = "injected"
            /\ given' = [m \in Mails |-> IF m \in Head(inbox).text
                                         THEN given[m] + 1 ELSE given[m]]
         \/ steerOutcome' = "failed" /\ given' = given
  BY ShapeRead DEF AgentSteered, AgentTakes, OnlyAgent, Give
<1>2. PICK m \in Notes : Head(inbox).text = {m}
  BY <1>1, AskFacts
<1>3. /\ m \in Mails /\ Counted(m) /\ Placed("steer", m) /\ ~Placed("steer", m)'
      /\ With(inbox, "steer", m)' = {} /\ Single("steer", m)'
      /\ With(inbox, "steer", m) # {}
  <2>1. m \in Mails /\ Counted(m) /\ Single("steer", m)
    BY <1>2 DEF MailInv, Counted, Mails
  <2>2. With(inbox, "steer", m) # {}
    <3>1. inbox \in Seq(Asks) /\ m \in Head(inbox).text
      BY <1>2 DEF Shape, Lines
    <3> QED
      <4>1. Taken(inbox, "steer", m)
        BY <1>1, <3>1, TailThis
      <4> QED
        BY <4>1 DEF Taken
  <2> QED
    BY <1>1, <1>2, <2>1, <2>2, ReadMoves
<1>4. driver = "steer" /\ steered = m /\ steerOutcome = "none"
  BY <1>3 DEF MailInv, OneSteer
<1>5. ASSUME NEW n \in Mails, NEW do \in {"prompt", "steer"},
             do = "prompt" \/ n # m
      PROVE  /\ Single(do, n)' /\ (Placed(do, n)' <=> Placed(do, n))
             /\ With(inbox, do, n)' = {} <=> With(inbox, do, n) = {}
  <2>1. Single(do, n) /\ (Head(inbox).do # do \/ n \notin Head(inbox).text)
    BY <1>1, <1>2, <1>5 DEF MailInv, Counted
  <2> QED
    BY <1>1, <2>1, ReadMoves
<1>6. \A n \in Mails \ {m} : given'[n] = given[n]
  BY <1>1, <1>2 DEF MailInv
<1>7. /\ steerOutcome' \in {"injected", "failed"}
      /\ steerOutcome' = "injected" => given'[m] = given[m] + 1
      /\ steerOutcome' # "injected" => given'[m] = given[m]
      /\ DOMAIN given' = Mails /\ given' = [n \in Mails |-> given'[n]]
  BY <1>1, <1>2, <1>3 DEF MailInv
<1>8. Known'
  BY <1>1 DEF MailInv, Known
<1>9. ASSUME NEW n \in Mails PROVE Counted(n)'
  <2>1. CASE n = m
    <3>1. Placed("prompt", m)' <=> Placed("prompt", m)
      BY <1>3, <1>5
    <3>2. Single("prompt", m)'
      BY <1>3, <1>5
    <3>3. /\ m \in seen /\ given[m] \in 0..1
          /\ Placed("prompt", m) \/ m \notin acked => given[m] = 0
          /\ m \notin acked => ~Placed("prompt", m)
      BY <1>3 DEF Counted
    <3>4. given'[m] \in {given[m], given[m] + 1}
      BY <1>7
    <3> QED
      BY <1>1, <1>3, <2>1, <3>1, <3>2, <3>3, <3>4 DEF Counted
  <2>2. CASE n # m
    BY <1>1, <1>5, <1>6, <2>2 DEF MailInv, Counted
  <2> QED
    BY <2>1, <2>2
<1>10. OneSteer'
  BY <1>1, <1>3, <1>4, <1>5 DEF MailInv, OneSteer
<1>11. Answered'
  <2>1. CASE pc = "steering" /\ asked = m
    <3>1. reply = "none" /\ given[m] = 0
      BY <1>4, <2>1 DEF MailInv, Answered
    <3> QED
      BY <1>1, <1>4, <1>7, <2>1, <3>1 DEF Answered
  <2>2. CASE pc = "steering" /\ asked # m
    <3>1. asked \in Mails
      BY <2>2 DEF MailInv, Known, Mails
    <3>2. given'[asked] = given[asked]
          /\ (Placed("steer", asked)' <=> Placed("steer", asked))
      BY <1>1, <1>5, <1>6, <2>2, <3>1
    <3> QED
      BY <1>1, <1>4, <2>2, <3>2 DEF MailInv, Answered
  <2>3. CASE pc # "steering"
    BY <1>1, <2>3 DEF Answered
  <2> QED
    BY <2>1, <2>2, <2>3
<1>12. ASSUME NEW n \in Mails, n \notin late PROVE Once(n)'
  <2>1. CASE n = m
    <3>1. pc = "steering" /\ asked = m /\ reply = "none"
      BY <1>3, <1>12, <2>1 DEF MailInv, Once
    <3>2. m \notin held /\ m \notin acked /\ given[m] = 0
      BY <1>4, <3>1 DEF MailInv, Known, Answered
    <3> QED
      BY <1>1, <1>3, <1>7, <2>1, <3>1, <3>2 DEF Once
  <2>2. CASE n # m
    BY <1>1, <1>5, <1>6, <1>12, <2>2 DEF MailInv, Once
  <2> QED
    BY <2>1, <2>2
<1>13. given' \in [Mails -> 0..2]
  <2>1. \A n \in Mails : given'[n] \in 0..2
    BY <1>9 DEF Counted
  <2> QED
    BY <1>7, <2>1
<1> QED
  BY <1>1, <1>8, <1>9, <1>10, <1>11, <1>12, <1>13 DEF MailInv

\* Every hail stays where the supervisor has it.
LEMMA MailStep == TurnInv /\ Shape /\ MailInv /\ [Next]_vars => MailInv'
<1> SUFFICES ASSUME TurnInv /\ Shape /\ MailInv, [Next]_vars PROVE MailInv'
  OBVIOUS
<1> USE DEF supervisor, guarding, mailbox, queues,
        driving, process, agent
<1>1. ASSUME NEW m \in Mails, Send(m)
      PROVE  MailInv'
  <2>1. Known'
    BY <1>1 DEF Send, NotChannel, MailInv, Known
  <2>2. Alike
    <3>1. UNCHANGED <<commands, inbox>>
      BY <1>1 DEF Send, NotChannel
    <3> QED
      BY <3>1, AlikeSame
  <2>3. UNCHANGED <<acked, late, given, alive, reply, steered, steerOutcome,
                     asked>>
        /\ (pc = "steering" <=> pc' = "steering")
        /\ (driver = "steer" <=> driver' = "steer")
        /\ (driver = "gone" => driver' = "gone")
        /\ held' \subseteq held \cup (Mails \ seen) /\ seen \subseteq seen'
    BY <1>1 DEF Send, NotChannel, MailInv, Known
  <2> QED
    BY <2>1, <2>2, <2>3, MailQuiet
<1>2. ASSUME NEW texts \in SUBSET Mails, StartTurn(texts)
      PROVE  MailInv'
  BY <1>2, MailStartTurn
<1>3. CASE StartFails
  <2>1. Known'
    BY <1>3 DEF StartFails, NotChannel, Connected, MailInv, Known
  <2>2. Alike
    <3>1. UNCHANGED <<commands, inbox>>
      BY <1>3 DEF StartFails, NotChannel, Connected
    <3> QED
      BY <3>1, AlikeSame
  <2>3. UNCHANGED <<acked, late, given, alive, reply, steered, steerOutcome,
                     asked>>
        /\ (pc = "steering" <=> pc' = "steering")
        /\ (driver = "steer" <=> driver' = "steer")
        /\ (driver = "gone" => driver' = "gone")
        /\ held' \subseteq held \cup (Mails \ seen) /\ seen \subseteq seen'
    BY <1>3 DEF StartFails, NotChannel, Connected, MailInv, Known
  <2> QED
    BY <2>1, <2>2, <2>3, MailQuiet
<1>4. CASE Retire
  <2>1. Known'
    BY <1>4 DEF Retire, Close, Connected, NotChannel, MailInv, Known
  <2>2. Alike
    <3>1. Tell(Request("close", {})) \/ UNCHANGED commands
      BY <1>4 DEF Retire, Close, Connected, NotChannel
    <3>2. UNCHANGED inbox
      BY <1>4 DEF Retire, Close, Connected, NotChannel
    <3> QED
      BY <3>1, <3>2, AlikeTell, AlikeSame
  <2>3. UNCHANGED <<acked, late, given, alive, reply, steered, steerOutcome,
                     asked>>
        /\ (pc = "steering" <=> pc' = "steering")
        /\ (driver = "steer" <=> driver' = "steer")
        /\ (driver = "gone" => driver' = "gone")
        /\ held' \subseteq held \cup (Mails \ seen) /\ seen \subseteq seen'
    BY <1>4 DEF Retire, Close, Connected, NotChannel, MailInv, Known
  <2> QED
    BY <2>1, <2>2, <2>3, MailQuiet
<1>5. CASE NextEvent
  <2>1. Known'
    BY <1>5 DEF NextEvent, EndTurn, NotChannel, MailInv, Known
  <2>2. Alike
    <3>1. UNCHANGED <<commands, inbox>>
      BY <1>5 DEF NextEvent, EndTurn, NotChannel
    <3> QED
      BY <3>1, AlikeSame
  <2>3. UNCHANGED <<acked, late, given, alive, reply, steered, steerOutcome,
                     asked>>
        /\ (pc = "steering" <=> pc' = "steering")
        /\ (driver = "steer" <=> driver' = "steer")
        /\ (driver = "gone" => driver' = "gone")
        /\ held' \subseteq held \cup (Mails \ seen) /\ seen \subseteq seen'
    BY <1>5 DEF NextEvent, EndTurn, NotChannel, MailInv, Known
  <2> QED
    BY <2>1, <2>2, <2>3, MailQuiet
<1>6. ASSUME NEW m \in Mails, ClaimCancel(m)
      PROVE  MailInv'
  <2>1. Known'
    BY <1>6 DEF ClaimCancel, Unread, Hold, Connected, NotChannel, MailInv,
       Known
  <2>2. Alike
    <3>1. Tell(Request("cancel", {})) \/ UNCHANGED commands
      BY <1>6 DEF ClaimCancel, Unread, Hold, Connected, NotChannel
    <3>2. UNCHANGED inbox
      BY <1>6 DEF ClaimCancel, Unread, Hold, Connected, NotChannel
    <3> QED
      BY <3>1, <3>2, AlikeTell, AlikeSame
  <2>3. UNCHANGED <<acked, late, given, alive, reply, steered, steerOutcome,
                     asked>>
        /\ (pc = "steering" <=> pc' = "steering")
        /\ (driver = "steer" <=> driver' = "steer")
        /\ (driver = "gone" => driver' = "gone")
        /\ held' \subseteq held \cup (Mails \ seen) /\ seen \subseteq seen'
    BY <1>6 DEF ClaimCancel, Unread, Hold, Connected, NotChannel, MailInv,
       Known
  <2> QED
    BY <2>1, <2>2, <2>3, MailQuiet
<1>7. ASSUME NEW m \in Mails, ClaimResume(m)
      PROVE  MailInv'
  <2>1. Known'
    BY <1>7 DEF ClaimResume, Unread, MailInv, Known
  <2>2. Alike
    <3>1. UNCHANGED <<commands, inbox>>
      BY <1>7 DEF ClaimResume, Unread
    <3> QED
      BY <3>1, AlikeSame
  <2>3. UNCHANGED <<acked, late, given, alive, reply, steered, steerOutcome,
                     asked>>
        /\ (pc = "steering" <=> pc' = "steering")
        /\ (driver = "steer" <=> driver' = "steer")
        /\ (driver = "gone" => driver' = "gone")
        /\ held' \subseteq held \cup (Mails \ seen) /\ seen \subseteq seen'
    BY <1>7 DEF ClaimResume, Unread, MailInv, Known
  <2> QED
    BY <2>1, <2>2, <2>3, MailQuiet
<1>8. ASSUME NEW m \in Mails, ClaimNote(m)
      PROVE  MailInv'
  BY <1>8, MailClaimNote
<1>9. CASE SteerReturns
  BY <1>9, MailSteerReturns
<1>10. CASE SteerTimesOut
  BY <1>10, MailSteerTimesOut
<1>11. CASE Joined
  <2>1. Known'
    BY <1>11 DEF Joined, EndTurn, Connected, NotChannel, MailInv, Known
  <2>2. Alike
    <3>1. UNCHANGED <<commands, inbox>>
      BY <1>11 DEF Joined, EndTurn, Connected, NotChannel
    <3> QED
      BY <3>1, AlikeSame
  <2>3. UNCHANGED <<acked, late, given, alive, reply, steered, steerOutcome,
                     asked>>
        /\ (pc = "steering" <=> pc' = "steering")
        /\ (driver = "steer" <=> driver' = "steer")
        /\ (driver = "gone" => driver' = "gone")
        /\ held' \subseteq held \cup (Mails \ seen) /\ seen \subseteq seen'
    BY <1>11 DEF Joined, EndTurn, Connected, NotChannel, MailInv, Known
  <2> QED
    BY <2>1, <2>2, <2>3, MailQuiet
<1>12. CASE GuardInterrupts
  <2>1. Known'
    BY <1>12 DEF GuardInterrupts, Connected, OnlyGuard, MailInv, Known
  <2>2. Alike
    <3>1. Tell(Request("cancel", {})) \/ UNCHANGED commands
      BY <1>12 DEF GuardInterrupts, Connected, OnlyGuard
    <3>2. UNCHANGED inbox
      BY <1>12 DEF GuardInterrupts, Connected, OnlyGuard
    <3> QED
      BY <3>1, <3>2, AlikeTell, AlikeSame
  <2>3. UNCHANGED <<acked, late, given, alive, reply, steered, steerOutcome,
                     asked>>
        /\ (pc = "steering" <=> pc' = "steering")
        /\ (driver = "steer" <=> driver' = "steer")
        /\ (driver = "gone" => driver' = "gone")
        /\ held' \subseteq held \cup (Mails \ seen) /\ seen \subseteq seen'
    BY <1>12 DEF GuardInterrupts, Connected, OnlyGuard, MailInv, Known
  <2> QED
    BY <2>1, <2>2, <2>3, MailQuiet
<1>13. CASE GuardPauses
  <2>1. Known'
    BY <1>13 DEF GuardPauses, OnlyGuard, MailInv, Known
  <2>2. Alike
    <3>1. UNCHANGED <<commands, inbox>>
      BY <1>13 DEF GuardPauses, OnlyGuard
    <3> QED
      BY <3>1, AlikeSame
  <2>3. UNCHANGED <<acked, late, given, alive, reply, steered, steerOutcome,
                     asked>>
        /\ (pc = "steering" <=> pc' = "steering")
        /\ (driver = "steer" <=> driver' = "steer")
        /\ (driver = "gone" => driver' = "gone")
        /\ held' \subseteq held \cup (Mails \ seen) /\ seen \subseteq seen'
    BY <1>13 DEF GuardPauses, OnlyGuard, MailInv, Known
  <2> QED
    BY <2>1, <2>2, <2>3, MailQuiet
<1>14. CASE GuardCalms
  <2>1. Known'
    BY <1>14 DEF GuardCalms, OnlyGuard, MailInv, Known
  <2>2. Alike
    <3>1. UNCHANGED <<commands, inbox>>
      BY <1>14 DEF GuardCalms, OnlyGuard
    <3> QED
      BY <3>1, AlikeSame
  <2>3. UNCHANGED <<acked, late, given, alive, reply, steered, steerOutcome,
                     asked>>
        /\ (pc = "steering" <=> pc' = "steering")
        /\ (driver = "steer" <=> driver' = "steer")
        /\ (driver = "gone" => driver' = "gone")
        /\ held' \subseteq held \cup (Mails \ seen) /\ seen \subseteq seen'
    BY <1>14 DEF GuardCalms, OnlyGuard, MailInv, Known
  <2> QED
    BY <2>1, <2>2, <2>3, MailQuiet
<1>15. CASE Stall
  <2>1. Known'
    BY <1>15 DEF Stall, Close, Connected, NotChannel, MailInv, Known
  <2>2. Alike
    <3>1. Tell(Request("close", {})) \/ UNCHANGED commands
      BY <1>15 DEF Stall, Close, Connected, NotChannel
    <3>2. UNCHANGED inbox
      BY <1>15 DEF Stall, Close, Connected, NotChannel
    <3> QED
      BY <3>1, <3>2, AlikeTell, AlikeSame
  <2>3. UNCHANGED <<acked, late, given, alive, reply, steered, steerOutcome,
                     asked>>
        /\ (pc = "steering" <=> pc' = "steering")
        /\ (driver = "steer" <=> driver' = "steer")
        /\ (driver = "gone" => driver' = "gone")
        /\ held' \subseteq held \cup (Mails \ seen) /\ seen \subseteq seen'
    BY <1>15 DEF Stall, Close, Connected, NotChannel, MailInv, Known
  <2> QED
    BY <2>1, <2>2, <2>3, MailQuiet
<1>16. CASE Leave
  <2>1. Known'
    BY <1>16 DEF Leave, Close, Connected, NotChannel, MailInv, Known
  <2>2. Alike
    <3>1. Tell(Request("close", {})) \/ UNCHANGED commands
      BY <1>16 DEF Leave, Close, Connected, NotChannel
    <3>2. UNCHANGED inbox
      BY <1>16 DEF Leave, Close, Connected, NotChannel
    <3> QED
      BY <3>1, <3>2, AlikeTell, AlikeSame
  <2>3. UNCHANGED <<acked, late, given, alive, reply, steered, steerOutcome,
                     asked>>
        /\ (pc = "steering" <=> pc' = "steering")
        /\ (driver = "steer" <=> driver' = "steer")
        /\ (driver = "gone" => driver' = "gone")
        /\ held' \subseteq held \cup (Mails \ seen) /\ seen \subseteq seen'
    BY <1>16 DEF Leave, Close, Connected, NotChannel, MailInv, Known
  <2> QED
    BY <2>1, <2>2, <2>3, MailQuiet
<1>17. CASE TakePrompt
  BY <1>17, MailTakePrompt
<1>18. CASE TakeSteer
  BY <1>18, MailTakeSteer
<1>19. CASE TakeCancel
  <2>1. Known'
    BY <1>19 DEF TakeCancel, Takes, NotSync, MailInv, Known
  <2>2. Alike
    BY <1>19, AlikeTake DEF TakeCancel, Takes
  <2>3. UNCHANGED <<acked, late, given, alive, reply, steered, steerOutcome,
                     asked>>
        /\ (pc = "steering" <=> pc' = "steering")
        /\ (driver = "steer" <=> driver' = "steer")
        /\ (driver = "gone" => driver' = "gone")
        /\ held' \subseteq held \cup (Mails \ seen) /\ seen \subseteq seen'
    BY <1>19 DEF TakeCancel, Takes, NotSync, MailInv, Known
  <2> QED
    BY <2>1, <2>2, <2>3, MailQuiet
<1>20. CASE TakeClose
  <2>1. /\ inbox' = <<>> /\ alive' = FALSE
        /\ \/ commands' = <<>> /\ driver' = "gone" /\ steered' = NoMail
           \/ UNCHANGED <<commands, driver, steered>>
        /\ UNCHANGED <<pc, asked, sent, seen, held, acked, late, reply,
                       steerOutcome, given>>
    BY <1>20 DEF TakeClose, Gone, NotSync
  <2> QED
    BY <2>1, MailCleared
<1>21. CASE PromptDone
  <2>1. Known'
    BY <1>21 DEF PromptDone, Prompt, NotSync, MailInv, Known
  <2>2. Alike
    <3>1. UNCHANGED <<commands, inbox>>
      BY <1>21 DEF PromptDone, Prompt, NotSync
    <3> QED
      BY <3>1, AlikeSame
  <2>3. UNCHANGED <<acked, late, given, alive, reply, steered, steerOutcome,
                     asked>>
        /\ (pc = "steering" <=> pc' = "steering")
        /\ (driver = "steer" <=> driver' = "steer")
        /\ (driver = "gone" => driver' = "gone")
        /\ held' \subseteq held \cup (Mails \ seen) /\ seen \subseteq seen'
    BY <1>21 DEF PromptDone, Prompt, NotSync, MailInv, Known
  <2> QED
    BY <2>1, <2>2, <2>3, MailQuiet
<1>22. CASE SteerDone
  BY <1>22, MailSteerDone
<1>23. CASE DriverFails
  <2>1. /\ inbox' = <<>> /\ alive' = FALSE
        /\ \/ commands' = <<>> /\ driver' = "gone" /\ steered' = NoMail
           \/ UNCHANGED <<commands, driver, steered>>
        /\ UNCHANGED <<pc, asked, sent, seen, held, acked, late, reply,
                       steerOutcome, given>>
    BY <1>23 DEF DriverFails, Connected, Gone, NotSync
  <2> QED
    BY <2>1, MailCleared
<1>24. CASE AgentPrompted
  BY <1>24, MailAgentPrompted
<1>25. CASE AgentSteered
  BY <1>25, MailAgentSteered
<1>26. CASE AgentCancelled
  <2>1. Known'
    BY <1>26 DEF AgentCancelled, AgentTakes, Runs, OnlyAgent, MailInv, Known
  <2>2. Alike
    BY <1>26, AlikeRead DEF AgentCancelled, AgentTakes, Runs, OnlyAgent
  <2>3. UNCHANGED <<acked, late, given, alive, reply, steered, steerOutcome,
                     asked>>
        /\ (pc = "steering" <=> pc' = "steering")
        /\ (driver = "steer" <=> driver' = "steer")
        /\ (driver = "gone" => driver' = "gone")
        /\ held' \subseteq held \cup (Mails \ seen) /\ seen \subseteq seen'
    BY <1>26 DEF AgentCancelled, AgentTakes, Runs, OnlyAgent, MailInv, Known
  <2> QED
    BY <2>1, <2>2, <2>3, MailQuiet
<1>27. CASE AgentFinishes
  <2>1. Known'
    BY <1>27 DEF AgentFinishes, Runs, OnlyAgent, MailInv, Known
  <2>2. Alike
    <3>1. UNCHANGED <<commands, inbox>>
      BY <1>27 DEF AgentFinishes, Runs, OnlyAgent
    <3> QED
      BY <3>1, AlikeSame
  <2>3. UNCHANGED <<acked, late, given, alive, reply, steered, steerOutcome,
                     asked>>
        /\ (pc = "steering" <=> pc' = "steering")
        /\ (driver = "steer" <=> driver' = "steer")
        /\ (driver = "gone" => driver' = "gone")
        /\ held' \subseteq held \cup (Mails \ seen) /\ seen \subseteq seen'
    BY <1>27 DEF AgentFinishes, Runs, OnlyAgent, MailInv, Known
  <2> QED
    BY <2>1, <2>2, <2>3, MailQuiet
<1>28. CASE AgentDies
  <2>1. /\ inbox' = <<>> /\ alive' = FALSE
        /\ \/ commands' = <<>> /\ driver' = "gone" /\ steered' = NoMail
           \/ UNCHANGED <<commands, driver, steered>>
        /\ UNCHANGED <<pc, asked, sent, seen, held, acked, late, reply,
                       steerOutcome, given>>
    BY <1>28 DEF AgentDies
  <2> QED
    BY <2>1, MailCleared
<1>29. CASE UNCHANGED vars
  <2>1. Known'
    BY <1>29 DEF vars, MailInv, Known
  <2>2. Alike
    <3>1. UNCHANGED <<commands, inbox>>
      BY <1>29 DEF vars
    <3> QED
      BY <3>1, AlikeSame
  <2>3. UNCHANGED <<acked, late, given, alive, reply, steered, steerOutcome,
                     asked>>
        /\ (pc = "steering" <=> pc' = "steering")
        /\ (driver = "steer" <=> driver' = "steer")
        /\ (driver = "gone" => driver' = "gone")
        /\ held' \subseteq held \cup (Mails \ seen) /\ seen \subseteq seen'
    BY <1>29 DEF vars
  <2> QED
    BY <2>1, <2>2, <2>3, MailQuiet
<1> QED
  BY <1>1, <1>2, <1>3, <1>4, <1>5, <1>6, <1>7, <1>8, <1>9, <1>10, <1>11,
     <1>12, <1>13, <1>14, <1>15, <1>16, <1>17, <1>18, <1>19, <1>20, <1>21,
     <1>22, <1>23, <1>24, <1>25, <1>26, <1>27, <1>28, <1>29 DEF Next, Poll,
     Claim, Drive, Work

-----------------------------------------------------------------------------

At(q, do) == {i \in DOMAIN q : q[i].do = do}

\* The agent has the prompt of the open turn alone, to read or in work, until it
\* has an outcome for the driver.
AgentHasOne ==
  /\ working # 0 => working = turn /\ At(inbox, "prompt") = {}
  /\ working # 0 \/ At(inbox, "prompt") # {} =>
       driver \in {"prompt", "steer"} /\ outcome = "none"
  /\ \A i \in At(inbox, "prompt") : inbox[i].turn = turn
  /\ \A i, j \in At(inbox, "prompt") : i = j

Ordered(q) == \A i, j \in DOMAIN q : i <= j => q[i].turn <= q[j].turn

\* Requests are read in the order of the turns they were sent in, from the turn
\* the agent works on to the open one.
InOrder ==
  /\ Ordered(inbox) /\ Ordered(commands)
  /\ \A i \in DOMAIN inbox, j \in DOMAIN commands :
       inbox[i].turn <= commands[j].turn
  /\ \A i \in DOMAIN inbox : working <= inbox[i].turn /\ inbox[i].turn <= turn
  /\ \A j \in DOMAIN commands :
       working <= commands[j].turn /\ commands[j].turn <= turn

AgentInv == AgentHasOne /\ InOrder

LEMMA AskTurns ==
  /\ \A r \in Asks : r.turn \in Nat
  /\ \A s \in Seq(Asks) : \A i \in DOMAIN s : s[i] \in Asks /\ s[i].turn \in Nat
<1>1. \A r \in Asks : r.turn \in Nat
  BY AskFacts, AcpAssumption DEF AcpAssumption
<1>2. \A s \in Seq(Asks) : \A i \in DOMAIN s : s[i] \in Asks
  OBVIOUS
<1> QED
  BY <1>1, <1>2

LEMMA OrderedAppend ==
  ASSUME NEW s \in Seq(Asks), NEW r \in Asks, Ordered(s),
         \A i \in DOMAIN s : s[i].turn <= r.turn
  PROVE  /\ Ordered(Append(s, r))
         /\ \A i \in DOMAIN Append(s, r) :
              \/ i \in DOMAIN s /\ Append(s, r)[i] = s[i]
              \/ Append(s, r)[i] = r
<1>1. /\ Append(s, r) \in Seq(Asks) /\ Len(Append(s, r)) = Len(s) + 1
      /\ \A i \in 1..Len(s) : Append(s, r)[i] = s[i]
      /\ Append(s, r)[Len(s) + 1] = r
  BY AppendFacts
<1>2. /\ DOMAIN s = 1..Len(s) /\ DOMAIN Append(s, r) = 1..(Len(s) + 1)
      /\ Len(s) \in Nat
  BY <1>1
<1>3. \A i \in DOMAIN Append(s, r) :
        \/ i \in DOMAIN s /\ Append(s, r)[i] = s[i] /\ i <= Len(s)
        \/ i = Len(s) + 1 /\ Append(s, r)[i] = r
  BY <1>1, <1>2
<1>4. ASSUME NEW i \in DOMAIN Append(s, r), NEW j \in DOMAIN Append(s, r),
             i <= j
      PROVE  Append(s, r)[i].turn <= Append(s, r)[j].turn
  <2>1. CASE j \in DOMAIN s /\ i \in DOMAIN s
    BY <1>1, <1>2, <1>4, <2>1 DEF Ordered
  <2>2. CASE j = Len(s) + 1 /\ i \in DOMAIN s
    BY <1>1, <1>2, <2>2
  <2>3. CASE i = Len(s) + 1 /\ j = Len(s) + 1
    BY <1>1, <2>3, AskTurns
  <2> QED
    BY <1>2, <1>3, <1>4, <2>1, <2>2, <2>3
<1> QED
  BY <1>3, <1>4 DEF Ordered

LEMMA OrderedTail ==
  ASSUME NEW s \in Seq(Asks), s # <<>>, Ordered(s)
  PROVE  /\ Ordered(Tail(s))
         /\ 1 \in DOMAIN s /\ Head(s) = s[1]
         /\ \A i \in DOMAIN Tail(s) :
              /\ i + 1 \in DOMAIN s /\ Tail(s)[i] = s[i + 1]
              /\ Head(s).turn <= Tail(s)[i].turn
<1>1. /\ Tail(s) \in Seq(Asks) /\ Len(s) \in Nat \ {0}
      /\ Len(Tail(s)) = Len(s) - 1
      /\ \A i \in 1..(Len(s) - 1) : Tail(s)[i] = s[i + 1]
      /\ Head(s) = s[1]
  BY TailFacts
<1>2. DOMAIN s = 1..Len(s) /\ DOMAIN Tail(s) = 1..(Len(s) - 1)
  BY <1>1
<1>3. \A i \in DOMAIN Tail(s) :
        i \in Nat /\ i + 1 \in DOMAIN s /\ Tail(s)[i] = s[i + 1] /\ 1 <= i + 1
  BY <1>1, <1>2
<1>4. 1 \in DOMAIN s
  BY <1>1, <1>2
<1>5. \A i \in DOMAIN Tail(s) : Head(s).turn <= Tail(s)[i].turn
  BY <1>1, <1>3, <1>4 DEF Ordered
<1>6. \A i, j \in DOMAIN Tail(s) : i <= j => i + 1 <= j + 1
  BY <1>3
<1> QED
  BY <1>1, <1>3, <1>4, <1>5, <1>6 DEF Ordered

LEMMA OrderTell ==
  ASSUME Shape, InOrder, NEW r \in Asks, r.turn = turn', turn <= turn',
         working <= turn', commands' = Append(commands, r), UNCHANGED inbox,
         working' = working, turn' \in Nat
  PROVE  InOrder'
<1>1. commands \in Seq(Asks) /\ inbox \in Seq(Asks) /\ turn \in Nat
  BY AcpAssumption DEF AcpAssumption, Shape, Words, Lines
<1>2. /\ \A i \in DOMAIN commands : commands[i].turn \in Nat
      /\ \A i \in DOMAIN inbox : inbox[i].turn \in Nat
  BY <1>1, AskTurns
<1>3. \A i \in DOMAIN commands : commands[i].turn <= r.turn
  BY <1>1, <1>2 DEF InOrder
<1>4. /\ Ordered(Append(commands, r))
      /\ \A i \in DOMAIN Append(commands, r) :
           \/ i \in DOMAIN commands /\ Append(commands, r)[i] = commands[i]
           \/ Append(commands, r)[i] = r
  BY <1>1, <1>3, OrderedAppend DEF InOrder
<1>5. /\ \A i \in DOMAIN inbox : inbox[i].turn <= turn'
      /\ \A i \in DOMAIN commands : commands[i].turn <= turn'
  BY <1>1, <1>2 DEF InOrder
<1> QED
  BY <1>4, <1>5 DEF InOrder

LEMMA OrderTake ==
  ASSUME Shape, InOrder, commands # <<>>, commands' = Tail(commands),
         inbox' = inbox \/ Put(Head(commands)), UNCHANGED <<turn, working>>
  PROVE  InOrder'
<1>1. /\ commands \in Seq(Asks) /\ inbox \in Seq(Asks)
      /\ Head(commands) \in Asks
  BY ShapeTake DEF Shape, Lines
<1>2. /\ Ordered(Tail(commands))
      /\ 1 \in DOMAIN commands /\ Head(commands) = commands[1]
      /\ \A i \in DOMAIN Tail(commands) :
           /\ i + 1 \in DOMAIN commands /\ Tail(commands)[i] = commands[i + 1]
           /\ Head(commands).turn <= Tail(commands)[i].turn
  BY <1>1, OrderedTail DEF InOrder
<1>3. \A i \in DOMAIN inbox : inbox[i].turn <= Head(commands).turn
  BY <1>2 DEF InOrder
<1>4. /\ Ordered(Append(inbox, Head(commands)))
      /\ \A i \in DOMAIN Append(inbox, Head(commands)) :
           \/ /\ i \in DOMAIN inbox
              /\ Append(inbox, Head(commands))[i] = inbox[i]
           \/ Append(inbox, Head(commands))[i] = Head(commands)
  BY <1>1, <1>3, OrderedAppend DEF InOrder
<1>5. CASE inbox' = inbox
  BY <1>2, <1>5 DEF InOrder
<1>6. CASE inbox' = Append(inbox, Head(commands))
  BY <1>2, <1>4, <1>6 DEF InOrder
<1> QED
  BY <1>5, <1>6 DEF Put

LEMMA OrderRead ==
  ASSUME Shape, InOrder, inbox # <<>>, inbox' = Tail(inbox),
         UNCHANGED <<turn, commands>>,
         working' \in {0, working, Head(inbox).turn}
  PROVE  InOrder'
<1>1. /\ commands \in Seq(Asks) /\ inbox \in Seq(Asks) /\ Tail(inbox) \in Seq(Asks)
  BY ShapeRead DEF Shape, Lines
<1>2. /\ Ordered(Tail(inbox))
      /\ 1 \in DOMAIN inbox /\ Head(inbox) = inbox[1]
      /\ \A i \in DOMAIN Tail(inbox) :
           /\ i + 1 \in DOMAIN inbox /\ Tail(inbox)[i] = inbox[i + 1]
           /\ Head(inbox).turn <= Tail(inbox)[i].turn
  BY <1>1, OrderedTail DEF InOrder
<1>3. /\ \A i \in DOMAIN commands : commands[i].turn \in Nat
      /\ \A i \in DOMAIN Tail(inbox) : Tail(inbox)[i].turn \in Nat
  BY <1>1, AskTurns
<1>4. /\ \A i \in DOMAIN commands : working' <= commands[i].turn
      /\ \A i \in DOMAIN Tail(inbox) : working' <= Tail(inbox)[i].turn
  BY <1>2, <1>3 DEF InOrder
<1> QED
  BY <1>2, <1>4 DEF InOrder

LEMMA OrderSame ==
  ASSUME Shape, InOrder, UNCHANGED <<turn, commands, inbox>>,
         working' \in {0, working}
  PROVE  InOrder'
<1>1. /\ \A i \in DOMAIN commands : commands[i].turn \in Nat
      /\ \A i \in DOMAIN inbox : inbox[i].turn \in Nat
  BY AskTurns DEF Shape, Lines
<1> QED
  BY <1>1 DEF InOrder

LEMMA OrderCleared ==
  ASSUME Shape, InOrder, inbox' = <<>>, UNCHANGED turn, working' = 0,
         commands' \in {<<>>, commands}
  PROVE  InOrder'
<1>1. \A i \in DOMAIN commands : commands[i].turn \in Nat
  BY AskTurns DEF Shape, Lines
<1>2. DOMAIN <<>> = {}
  OBVIOUS
<1> QED
  BY <1>1, <1>2 DEF InOrder, Ordered

\* Putting another request behind it leaves a prompt where it is.
LEMMA PromptsStay ==
  ASSUME Shape, NEW r \in Asks, r.do # "prompt", Put(r)
  PROVE  \A i \in At(inbox', "prompt") :
           i \in At(inbox, "prompt") /\ inbox'[i] = inbox[i]
<1>1. /\ inbox \in Seq(Asks)
      /\ Append(inbox, r) \in Seq(Asks) /\ Len(Append(inbox, r)) = Len(inbox) + 1
      /\ \A i \in 1..Len(inbox) : Append(inbox, r)[i] = inbox[i]
      /\ Append(inbox, r)[Len(inbox) + 1] = r
  BY AppendFacts DEF Shape, Lines
<1>2. /\ DOMAIN inbox = 1..Len(inbox) /\ Len(inbox) \in Nat
      /\ DOMAIN Append(inbox, r) = 1..(Len(inbox) + 1)
  BY <1>1
<1>3. \A i \in At(Append(inbox, r), "prompt") :
        i \in At(inbox, "prompt") /\ Append(inbox, r)[i] = inbox[i]
  BY <1>1, <1>2 DEF At
<1> QED
  BY <1>3 DEF Put

\* Reading the head moves a prompt up, or takes it out.
LEMMA PromptsMove ==
  ASSUME Shape, AgentHasOne, inbox # <<>>, inbox' = Tail(inbox)
  PROVE  /\ \A i \in At(inbox', "prompt") :
              i + 1 \in At(inbox, "prompt") /\ inbox'[i] = inbox[i + 1]
         /\ \A i, j \in At(inbox', "prompt") : i = j
         /\ Head(inbox).do = "prompt" =>
              /\ At(inbox, "prompt") # {} /\ At(inbox', "prompt") = {}
              /\ Head(inbox).turn = turn
<1>1. /\ inbox \in Seq(Asks) /\ Tail(inbox) \in Seq(Asks)
      /\ Len(inbox) \in Nat \ {0} /\ Len(Tail(inbox)) = Len(inbox) - 1
      /\ \A i \in 1..(Len(inbox) - 1) : Tail(inbox)[i] = inbox[i + 1]
      /\ Head(inbox) = inbox[1]
  BY TailFacts DEF Shape, Lines
<1>2. DOMAIN inbox = 1..Len(inbox) /\ DOMAIN Tail(inbox) = 1..(Len(inbox) - 1)
  BY <1>1
<1>3. \A i \in At(Tail(inbox), "prompt") :
        /\ i \in Nat \ {0} /\ i + 1 \in At(inbox, "prompt")
        /\ Tail(inbox)[i] = inbox[i + 1]
  BY <1>1, <1>2 DEF At
<1>4. \A i, j \in At(Tail(inbox), "prompt") : i = j
  BY <1>3 DEF AgentHasOne
<1>5. ASSUME Head(inbox).do = "prompt"
      PROVE  /\ 1 \in At(inbox, "prompt") /\ At(Tail(inbox), "prompt") = {}
             /\ Head(inbox).turn = turn
  <2>1. 1 \in At(inbox, "prompt")
    BY <1>1, <1>2, <1>5 DEF At
  <2>2. At(Tail(inbox), "prompt") = {}
    BY <1>3, <2>1 DEF AgentHasOne
  <2> QED
    BY <1>1, <2>1, <2>2 DEF AgentHasOne
<1> QED
  BY <1>3, <1>4, <1>5

\* Requests keep the order of their turns through both queues.
LEMMA AgentStep == TurnInv /\ Shape /\ AgentInv /\ [Next]_vars => AgentInv'
<1> SUFFICES ASSUME TurnInv /\ Shape /\ AgentInv, [Next]_vars PROVE AgentInv'
  OBVIOUS
<1> USE DEF supervisor, guarding, mailbox, queues,
        driving, process, agent
<1>1. ASSUME NEW m \in Mails, Send(m)
      PROVE  AgentInv'
  BY <1>1, OrderSame DEF Send, NotChannel, AgentInv, AgentHasOne
<1>2. ASSUME NEW texts \in SUBSET Mails, StartTurn(texts)
      PROVE  AgentInv'
  <2>1. AgentHasOne'
    <3>1. driver = "idle"
      BY <1>2 DEF StartTurn, Connected, TurnInv, OnePlace
    <3> QED
      BY <1>2, <3>1 DEF StartTurn, NotChannel, AgentInv, AgentHasOne
  <2>2. InOrder'
    <3> DEFINE r == [do |-> "prompt", text |-> texts, turn |-> turn + 1]
    <3>1. driver = "idle" /\ working = 0
      BY <1>2 DEF StartTurn, Connected, TurnInv, OnePlace, AgentInv,
         AgentHasOne
    <3>2. r \in Asks /\ r.turn = turn + 1 /\ commands' = Append(commands, r)
      BY <1>2, AskFacts DEF StartTurn, Shape, Words
    <3> HIDE DEF r
    <3>3. /\ turn' = turn + 1 /\ turn \in Nat
          /\ UNCHANGED <<inbox, working>>
      BY <1>2, AcpAssumption DEF AcpAssumption, StartTurn, NotChannel, Shape,
         Words
    <3> QED
      BY <3>1, <3>2, <3>3, OrderTell DEF AgentInv
  <2> QED
    BY <2>1, <2>2 DEF AgentInv
<1>3. CASE StartFails
  BY <1>3, OrderSame DEF StartFails, NotChannel, Connected, AgentInv,
     AgentHasOne
<1>4. CASE Retire
  <2>1. AgentHasOne'
    BY <1>4 DEF Retire, Close, Connected, NotChannel, AgentInv, AgentHasOne
  <2>2. InOrder'
    <3>1. CASE Tell(Request("close", {}))
      <4>1. /\ Request("close", {}) \in Asks
            /\ Request("close", {}).turn = turn
        BY <1>4, AskFacts DEF Shape, Words, Request
      <4>2. turn \in Nat /\ working <= turn /\ turn <= turn
        BY AcpAssumption DEF AcpAssumption, Shape, Words, AgentInv, AgentHasOne
      <4>3. UNCHANGED <<turn, working, inbox>>
        BY <1>4 DEF Retire, Close, Connected, NotChannel
      <4> QED
        BY <3>1, <4>1, <4>2, <4>3, OrderTell DEF AgentInv, Tell
    <3>2. CASE UNCHANGED commands
      BY <1>4, <3>2, OrderSame DEF Retire, Close, Connected, NotChannel,
         AgentInv
    <3> QED
      BY <1>4, <3>1, <3>2 DEF Retire, Close, Connected, NotChannel
  <2> QED
    BY <2>1, <2>2 DEF AgentInv
<1>5. CASE NextEvent
  BY <1>5, OrderSame DEF NextEvent, EndTurn, NotChannel, AgentInv, AgentHasOne
<1>6. ASSUME NEW m \in Mails, ClaimCancel(m)
      PROVE  AgentInv'
  <2>1. AgentHasOne'
    BY <1>6 DEF ClaimCancel, Unread, Hold, Connected, NotChannel, AgentInv,
       AgentHasOne
  <2>2. InOrder'
    <3>1. CASE Tell(Request("cancel", {}))
      <4>1. /\ Request("cancel", {}) \in Asks
            /\ Request("cancel", {}).turn = turn
        BY <1>6, AskFacts DEF Shape, Words, Request
      <4>2. turn \in Nat /\ working <= turn /\ turn <= turn
        BY AcpAssumption DEF AcpAssumption, Shape, Words, AgentInv, AgentHasOne
      <4>3. UNCHANGED <<turn, working, inbox>>
        BY <1>6 DEF ClaimCancel, Unread, Hold, Connected, NotChannel
      <4> QED
        BY <3>1, <4>1, <4>2, <4>3, OrderTell DEF AgentInv, Tell
    <3>2. CASE UNCHANGED commands
      BY <1>6, <3>2, OrderSame DEF ClaimCancel, Unread, Hold, Connected,
         NotChannel, AgentInv
    <3> QED
      BY <1>6, <3>1, <3>2 DEF ClaimCancel, Unread, Hold, Connected, NotChannel
  <2> QED
    BY <2>1, <2>2 DEF AgentInv
<1>7. ASSUME NEW m \in Mails, ClaimResume(m)
      PROVE  AgentInv'
  BY <1>7, OrderSame DEF ClaimResume, Unread, AgentInv, AgentHasOne
<1>8. ASSUME NEW m \in Mails, ClaimNote(m)
      PROVE  AgentInv'
  <2>1. AgentHasOne'
    BY <1>8 DEF ClaimNote, Unread, Hold, Connected, NotChannel, AgentInv,
       AgentHasOne
  <2>2. InOrder'
    <3>1. CASE Tell(Request("steer", {m}))
      <4>1. /\ Request("steer", {m}) \in Asks
            /\ Request("steer", {m}).turn = turn
        BY <1>8, AskFacts DEF Shape, Words, Request, ClaimNote
      <4>2. turn \in Nat /\ working <= turn /\ turn <= turn
        BY AcpAssumption DEF AcpAssumption, Shape, Words, AgentInv, AgentHasOne
      <4>3. UNCHANGED <<turn, working, inbox>>
        BY <1>8 DEF ClaimNote, Unread, Hold, Connected, NotChannel
      <4> QED
        BY <3>1, <4>1, <4>2, <4>3, OrderTell DEF AgentInv, Tell
    <3>2. CASE UNCHANGED commands
      BY <1>8, <3>2, OrderSame DEF ClaimNote, Unread, Hold, Connected,
         NotChannel, AgentInv
    <3> QED
      BY <1>8, <3>1, <3>2 DEF ClaimNote, Unread, Hold, Connected, NotChannel
  <2> QED
    BY <2>1, <2>2 DEF AgentInv
<1>9. CASE SteerReturns
  BY <1>9, OrderSame DEF SteerReturns, Connected, BackToPoll, NotChannel,
     AgentInv, AgentHasOne
<1>10. CASE SteerTimesOut
  BY <1>10, OrderSame DEF SteerTimesOut, BackToPoll, NotChannel, AgentInv,
     AgentHasOne
<1>11. CASE Joined
  BY <1>11, OrderSame DEF Joined, EndTurn, Connected, NotChannel, AgentInv,
     AgentHasOne
<1>12. CASE GuardInterrupts
  <2>1. AgentHasOne'
    BY <1>12 DEF GuardInterrupts, Connected, OnlyGuard, AgentInv, AgentHasOne
  <2>2. InOrder'
    <3>1. CASE Tell(Request("cancel", {}))
      <4>1. /\ Request("cancel", {}) \in Asks
            /\ Request("cancel", {}).turn = turn
        BY <1>12, AskFacts DEF Shape, Words, Request
      <4>2. turn \in Nat /\ working <= turn /\ turn <= turn
        BY AcpAssumption DEF AcpAssumption, Shape, Words, AgentInv, AgentHasOne
      <4>3. UNCHANGED <<turn, working, inbox>>
        BY <1>12 DEF GuardInterrupts, Connected, OnlyGuard
      <4> QED
        BY <3>1, <4>1, <4>2, <4>3, OrderTell DEF AgentInv, Tell
    <3>2. CASE UNCHANGED commands
      BY <1>12, <3>2, OrderSame DEF GuardInterrupts, Connected, OnlyGuard,
         AgentInv
    <3> QED
      BY <1>12, <3>1, <3>2 DEF GuardInterrupts, Connected, OnlyGuard
  <2> QED
    BY <2>1, <2>2 DEF AgentInv
<1>13. CASE GuardPauses
  BY <1>13, OrderSame DEF GuardPauses, OnlyGuard, AgentInv, AgentHasOne
<1>14. CASE GuardCalms
  BY <1>14, OrderSame DEF GuardCalms, OnlyGuard, AgentInv, AgentHasOne
<1>15. CASE Stall
  <2>1. AgentHasOne'
    BY <1>15 DEF Stall, Close, Connected, NotChannel, AgentInv, AgentHasOne
  <2>2. InOrder'
    <3>1. CASE Tell(Request("close", {}))
      <4>1. /\ Request("close", {}) \in Asks
            /\ Request("close", {}).turn = turn
        BY <1>15, AskFacts DEF Shape, Words, Request
      <4>2. turn \in Nat /\ working <= turn /\ turn <= turn
        BY AcpAssumption DEF AcpAssumption, Shape, Words, AgentInv, AgentHasOne
      <4>3. UNCHANGED <<turn, working, inbox>>
        BY <1>15 DEF Stall, Close, Connected, NotChannel
      <4> QED
        BY <3>1, <4>1, <4>2, <4>3, OrderTell DEF AgentInv, Tell
    <3>2. CASE UNCHANGED commands
      BY <1>15, <3>2, OrderSame DEF Stall, Close, Connected, NotChannel,
         AgentInv
    <3> QED
      BY <1>15, <3>1, <3>2 DEF Stall, Close, Connected, NotChannel
  <2> QED
    BY <2>1, <2>2 DEF AgentInv
<1>16. CASE Leave
  <2>1. AgentHasOne'
    BY <1>16 DEF Leave, Close, Connected, NotChannel, AgentInv, AgentHasOne
  <2>2. InOrder'
    <3>1. CASE Tell(Request("close", {}))
      <4>1. /\ Request("close", {}) \in Asks
            /\ Request("close", {}).turn = turn
        BY <1>16, AskFacts DEF Shape, Words, Request
      <4>2. turn \in Nat /\ working <= turn /\ turn <= turn
        BY AcpAssumption DEF AcpAssumption, Shape, Words, AgentInv, AgentHasOne
      <4>3. UNCHANGED <<turn, working, inbox>>
        BY <1>16 DEF Leave, Close, Connected, NotChannel
      <4> QED
        BY <3>1, <4>1, <4>2, <4>3, OrderTell DEF AgentInv, Tell
    <3>2. CASE UNCHANGED commands
      BY <1>16, <3>2, OrderSame DEF Leave, Close, Connected, NotChannel,
         AgentInv
    <3> QED
      BY <1>16, <3>1, <3>2 DEF Leave, Close, Connected, NotChannel
  <2> QED
    BY <2>1, <2>2 DEF AgentInv
<1>17. CASE TakePrompt
  <2>1. AgentHasOne'
    <3>1. driver = "idle" /\ Head(commands).turn = turn
      BY <1>17, TakeKeeps DEF TakePrompt, Takes, TurnInv, OnePlace
    <3>2. /\ Put(Head(commands)) /\ driver' = "prompt" /\ outcome' = "none"
          /\ UNCHANGED <<turn, working>> /\ Head(commands) \in Asks
          /\ inbox \in Seq(Asks)
      BY <1>17, <3>1, ShapeTake DEF TakePrompt, Takes, Idle, NotSync, Shape,
         Lines
    <3>3. working = 0 /\ At(inbox, "prompt") = {}
      BY <3>1 DEF AgentInv, AgentHasOne
    <3>4. \A i \in At(Append(inbox, Head(commands)), "prompt") :
            /\ i = Len(inbox) + 1
            /\ Append(inbox, Head(commands))[i] = Head(commands)
      <4>1. /\ Append(inbox, Head(commands)) \in Seq(Asks)
            /\ Len(Append(inbox, Head(commands))) = Len(inbox) + 1
            /\ \A i \in 1..Len(inbox) :
                 Append(inbox, Head(commands))[i] = inbox[i]
            /\ Append(inbox, Head(commands))[Len(inbox) + 1] = Head(commands)
        BY <3>2, AppendFacts
      <4>2. /\ DOMAIN inbox = 1..Len(inbox) /\ Len(inbox) \in Nat
            /\ DOMAIN Append(inbox, Head(commands)) = 1..(Len(inbox) + 1)
        BY <3>2, <4>1
      <4> QED
        BY <3>3, <4>1, <4>2 DEF At
    <3>5. \A i \in At(inbox', "prompt") :
            i = Len(inbox) + 1 /\ inbox'[i] = Head(commands)
      BY <3>2, <3>3, <3>4 DEF Put
    <3> QED
      BY <3>1, <3>2, <3>3, <3>5 DEF AgentHasOne
  <2>2. InOrder'
    <3>1. /\ commands # <<>> /\ commands' = Tail(commands)
          /\ inbox' = inbox \/ Put(Head(commands))
          /\ UNCHANGED <<turn, working>>
      BY <1>17 DEF TakePrompt, Takes, Idle, NotSync
    <3> QED
      BY <3>1, OrderTake DEF AgentInv
  <2> QED
    BY <2>1, <2>2 DEF AgentInv
<1>18. CASE TakeSteer
  <2>1. AgentHasOne'
    <3>1. /\ Head(commands) \in Asks /\ Head(commands).do # "prompt"
          /\ inbox' = inbox \/ Put(Head(commands))
          /\ UNCHANGED <<turn, working, outcome>>
          /\ driver \in {"prompt", "steer"} => driver' \in {"prompt", "steer"}
      BY <1>18, ShapeTake DEF TakeSteer, Takes, Idle, Prompt, NotSync
    <3>2. \A i \in At(inbox', "prompt") :
            i \in At(inbox, "prompt") /\ inbox'[i] = inbox[i]
      BY <3>1, PromptsStay
    <3> QED
      BY <3>1, <3>2 DEF AgentInv, AgentHasOne
  <2>2. InOrder'
    <3>1. /\ commands # <<>> /\ commands' = Tail(commands)
          /\ inbox' = inbox \/ Put(Head(commands))
          /\ UNCHANGED <<turn, working>>
      BY <1>18 DEF TakeSteer, Takes, Idle, Prompt, NotSync
    <3> QED
      BY <3>1, OrderTake DEF AgentInv
  <2> QED
    BY <2>1, <2>2 DEF AgentInv
<1>19. CASE TakeCancel
  <2>1. AgentHasOne'
    <3>1. /\ Head(commands) \in Asks /\ Head(commands).do # "prompt"
          /\ inbox' = inbox \/ Put(Head(commands))
          /\ UNCHANGED <<turn, working, outcome>>
          /\ driver \in {"prompt", "steer"} => driver' \in {"prompt", "steer"}
      BY <1>19, ShapeTake DEF TakeCancel, Takes, NotSync
    <3>2. \A i \in At(inbox', "prompt") :
            i \in At(inbox, "prompt") /\ inbox'[i] = inbox[i]
      BY <3>1, PromptsStay
    <3> QED
      BY <3>1, <3>2 DEF AgentInv, AgentHasOne
  <2>2. InOrder'
    <3>1. /\ commands # <<>> /\ commands' = Tail(commands)
          /\ inbox' = inbox \/ Put(Head(commands))
          /\ UNCHANGED <<turn, working>>
      BY <1>19 DEF TakeCancel, Takes, NotSync
    <3> QED
      BY <3>1, OrderTake DEF AgentInv
  <2> QED
    BY <2>1, <2>2 DEF AgentInv
<1>20. CASE TakeClose
  <2>1. AgentHasOne'
    <3>1. At(<<>>, "prompt") = {}
      BY DEF At
    <3> QED
      BY <1>20, <3>1 DEF TakeClose, Gone, NotSync, AgentHasOne
  <2>2. InOrder'
    BY <1>20, OrderCleared DEF TakeClose, Gone, NotSync, AgentInv
  <2> QED
    BY <2>1, <2>2 DEF AgentInv
<1>21. CASE PromptDone
  <2>1. AgentHasOne'
    <3>1. working = 0 /\ At(inbox, "prompt") = {}
      <4>1. ~alive => At(inbox, "prompt") = {} /\ working = 0
        BY DEF Shape, Flags, At
      <4> QED
        BY <1>21, <4>1 DEF PromptDone, AgentInv, AgentHasOne
    <3> QED
      BY <1>21, <3>1 DEF PromptDone, NotSync, AgentHasOne
  <2>2. InOrder'
    BY <1>21, OrderSame DEF PromptDone, Prompt, NotSync, AgentInv
  <2> QED
    BY <2>1, <2>2 DEF AgentInv
<1>22. CASE SteerDone
  BY <1>22, OrderSame DEF SteerDone, Answer, NotSync, AgentInv, AgentHasOne
<1>23. CASE DriverFails
  <2>1. AgentHasOne'
    <3>1. At(<<>>, "prompt") = {}
      BY DEF At
    <3> QED
      BY <1>23, <3>1 DEF DriverFails, Connected, Gone, NotSync, AgentHasOne
  <2>2. InOrder'
    BY <1>23, OrderCleared DEF DriverFails, Connected, Gone, NotSync, AgentInv
  <2> QED
    BY <2>1, <2>2 DEF AgentInv
<1>24. CASE AgentPrompted
  <2>1. AgentHasOne'
    <3>1. inbox # <<>> /\ inbox' = Tail(inbox)
      BY <1>24 DEF AgentPrompted, AgentTakes, Runs, OnlyAgent, Give
    <3> QED
      BY <1>24, <3>1, PromptsMove DEF AgentPrompted, AgentTakes, Runs,
         OnlyAgent,
         Give, AgentInv, AgentHasOne
  <2>2. InOrder'
    <3>1. /\ inbox # <<>> /\ inbox' = Tail(inbox)
          /\ UNCHANGED <<turn, commands>>
          /\ working' \in {0, working, Head(inbox).turn}
      BY <1>24 DEF AgentPrompted, AgentTakes, Runs, OnlyAgent, Give
    <3> QED
      BY <3>1, OrderRead DEF AgentInv
  <2> QED
    BY <2>1, <2>2 DEF AgentInv
<1>25. CASE AgentSteered
  <2>1. AgentHasOne'
    <3>1. inbox # <<>> /\ inbox' = Tail(inbox)
      BY <1>25 DEF AgentSteered, AgentTakes, Runs, OnlyAgent, Give
    <3> QED
      BY <1>25, <3>1, PromptsMove DEF AgentSteered, AgentTakes, Runs,
         OnlyAgent,
         Give, AgentInv, AgentHasOne
  <2>2. InOrder'
    <3>1. /\ inbox # <<>> /\ inbox' = Tail(inbox)
          /\ UNCHANGED <<turn, commands>>
          /\ working' \in {0, working, Head(inbox).turn}
      BY <1>25 DEF AgentSteered, AgentTakes, Runs, OnlyAgent, Give
    <3> QED
      BY <3>1, OrderRead DEF AgentInv
  <2> QED
    BY <2>1, <2>2 DEF AgentInv
<1>26. CASE AgentCancelled
  <2>1. AgentHasOne'
    <3>1. inbox # <<>> /\ inbox' = Tail(inbox)
      BY <1>26 DEF AgentCancelled, AgentTakes, Runs, OnlyAgent
    <3> QED
      BY <1>26, <3>1, PromptsMove DEF AgentCancelled, AgentTakes, Runs,
         OnlyAgent,
         AgentInv, AgentHasOne
  <2>2. InOrder'
    <3>1. /\ inbox # <<>> /\ inbox' = Tail(inbox)
          /\ UNCHANGED <<turn, commands>>
          /\ working' \in {0, working, Head(inbox).turn}
      BY <1>26 DEF AgentCancelled, AgentTakes, Runs, OnlyAgent
    <3> QED
      BY <3>1, OrderRead DEF AgentInv
  <2> QED
    BY <2>1, <2>2 DEF AgentInv
<1>27. CASE AgentFinishes
  BY <1>27, OrderSame DEF AgentFinishes, Runs, OnlyAgent, AgentInv, AgentHasOne
<1>28. CASE AgentDies
  <2>1. AgentHasOne'
    <3>1. At(<<>>, "prompt") = {}
      BY DEF At
    <3> QED
      BY <1>28, <3>1 DEF AgentDies, AgentHasOne
  <2>2. InOrder'
    BY <1>28, OrderCleared DEF AgentDies, AgentInv
  <2> QED
    BY <2>1, <2>2 DEF AgentInv
<1>29. CASE UNCHANGED vars
  <2>1. AgentHasOne'
    BY <1>29 DEF vars, AgentInv, AgentHasOne
  <2>2. InOrder'
    BY <1>29, OrderSame DEF vars, AgentInv
  <2> QED
    BY <2>1, <2>2 DEF AgentInv
<1> QED
  BY <1>1, <1>2, <1>3, <1>4, <1>5, <1>6, <1>7, <1>8, <1>9, <1>10, <1>11,
     <1>12, <1>13, <1>14, <1>15, <1>16, <1>17, <1>18, <1>19, <1>20, <1>21,
     <1>22, <1>23, <1>24, <1>25, <1>26, <1>27, <1>28, <1>29 DEF Next, Poll,
     Claim, Drive, Work

-----------------------------------------------------------------------------

ConversationInv == TurnInv /\ Shape /\ MailInv /\ AgentInv

\* The strengthening under which every step of both threads, the guard and the
\* agent keeps what is below.
THEOREM Inductive == Spec => []ConversationInv
<1>1. ASSUME Init PROVE ConversationInv
  <2> USE <1>1, AcpAssumption DEF Init, AcpAssumption
  <2>1. TurnInv
    <3>1. QueueType
      BY DEF QueueType
    <3>2. OnePlace
      BY DEF OnePlace, Prompts
    <3> QED
      BY <3>1, <3>2 DEF TurnInv, OpenInv
  <2>2. Shape
    <3>1. Words
      BY DEF Words
    <3>2. Lines
      BY EmptySeq DEF Lines
    <3>3. Flags
      BY DEF Flags
    <3> QED
      BY <3>1, <3>2, <3>3 DEF Shape
  <2>3. MailInv
    <3>1. \A do, m : With(commands, do, m) = {} /\ With(inbox, do, m) = {}
      BY EmptyWith
    <3>2. \A do, m : ~Placed(do, m) /\ Single(do, m)
      BY <3>1, NoneIsSole DEF Placed, Single
    <3>3. \A m \in Mails : given[m] = 0
      OBVIOUS
    <3>4. Known
      BY DEF Known
    <3>5. \A m \in Mails : Counted(m)
      BY <3>2, <3>3 DEF Counted
    <3>6. OneSteer /\ Answered
      BY <3>1 DEF OneSteer, Answered
    <3>7. \A m \in Mails : Once(m)
      BY <3>2, <3>3 DEF Once
    <3>8. given \in [Mails -> 0..2]
      OBVIOUS
    <3> QED
      BY <3>4, <3>5, <3>6, <3>7, <3>8 DEF MailInv
  <2>4. AgentInv
    BY DEF AgentInv, AgentHasOne, InOrder, Ordered, At
  <2> QED
    BY <2>1, <2>2, <2>3, <2>4 DEF ConversationInv
<1>2. ConversationInv /\ [Next]_vars => ConversationInv'
  BY TurnStep, ShapeStep, MailStep, AgentStep DEF ConversationInv
<1> QED
  BY <1>1, <1>2, PTL DEF Spec

LEMMA AsksAreRequests ==
  ASSUME NEW s \in Seq(Asks)
  PROVE  s \in Seq(Requests)
<1>1. Asks \subseteq Requests
  BY AskFacts
<1> QED
  BY <1>1

\* Every variable keeps its form: the supervisor waits for one steer at a time
\* and the driver for another, a hail is held or acked, never both, and none is
\* given a third time (acp.rs:562-620, supervise.rs:3129-3160).
THEOREM TypeCorrect == Spec => []TypeOK
<1>1. ASSUME ConversationInv PROVE TypeOK
  <2>1. commands \in Seq(Requests) /\ inbox \in Seq(Requests)
    BY <1>1, AsksAreRequests DEF ConversationInv, Shape, Lines
  <2>2. /\ asked \in Notes <=> pc = "steering"
        /\ steered \in Notes <=> driver = "steer"
        /\ late \subseteq Notes /\ given \in [Mails -> 0..2]
        /\ seen \subseteq sent /\ sent \subseteq Mails
        /\ held \cup acked \subseteq seen /\ held \cap acked = {}
    BY <1>1, AcpAssumption DEF AcpAssumption, Mails, ConversationInv, MailInv,
       Known
  <2> QED
    BY <1>1, <2>1, <2>2 DEF TypeOK, ConversationInv, Shape, Words, Lines, Flags
<1> QED
  BY <1>1, Inductive, PTL

\* What the supervisor took for delivered reaches the conversation as long as
\* the agent lives, and once: no queue loses a prompt and a steer that failed is
\* in no queue when its hail is held (acp.rs:603-605, supervise.rs:3130).  A hail
\* whose steer was given up on is the exception that the code makes.
THEOREM GivenOnce == Spec => []HailIsGivenOnce
<1>1. ASSUME ConversationInv PROVE HailIsGivenOnce
  <2> SUFFICES ASSUME NEW m \in Mails \ late
               PROVE  /\ given[m] <= 1
                      /\ m \in acked => given[m] = 1 \/ OnItsWay(m) \/ ~alive
    BY DEF HailIsGivenOnce
  <2>1. Once(m)
    BY <1>1 DEF ConversationInv, MailInv
  <2>2. ASSUME NEW q, NEW i \in With(q, "prompt", m)
        PROVE  q[i] \in ToSet(q) /\ m \in q[i].text /\ q[i].do = "prompt"
    BY DEF With, ToSet
  <2>3. Placed("prompt", m) => OnItsWay(m)
    BY <2>2 DEF Placed, OnItsWay
  <2> QED
    BY <2>1, <2>3 DEF Once
<1> QED
  BY <1>1, Inductive, PTL

\* A cancel ends the turn it was sent in and never a later one: nothing overtakes
\* on its way from the supervisor to the agent (acp.rs:583-640).
THEOREM CancelsHitTheirTurn == Spec => CancelHitsItsTurn
<1>1. ASSUME ConversationInv, AgentTakes("cancel"), working # 0
      PROVE  Head(inbox).turn = working
  <2>1. inbox \in Seq(Asks) /\ inbox # <<>> /\ working \in Nat /\ turn \in Nat
    BY <1>1, AcpAssumption DEF AcpAssumption, ConversationInv, Shape, Words,
       Lines,
       AgentTakes
  <2>2. Head(inbox) = inbox[1] /\ 1 \in DOMAIN inbox
    BY <1>1, <2>1, OrderedTail DEF ConversationInv, AgentInv, InOrder
  <2>3. inbox[1].turn \in Nat
    BY <2>1, <2>2, AskTurns
  <2>4. /\ working = turn
        /\ working <= inbox[1].turn /\ inbox[1].turn <= turn
    BY <1>1, <2>2 DEF ConversationInv, AgentInv, AgentHasOne, InOrder
  <2> QED
    BY <2>1, <2>2, <2>3, <2>4
<1>2. ConversationInv => [(AgentTakes("cancel") /\ working # 0)
                    => Head(inbox).turn = working]_vars
  BY <1>1
<1> QED
  BY <1>2, Inductive, PTL DEF CancelHitsItsTurn
=============================================================================
