------------------------------ MODULE AcpTurns ------------------------------
(***************************************************************************)
(* One ACP conversation of a lane after its brief turn was prepared: the   *)
(* supervisor's poll loop (boop-proc: supervise.rs), its guard of the      *)
(* agent's memory (boop-proc: 0_resource_guard.rs), the channel's two      *)
(* sides (boop-acp: channel/acp.rs) and the agent process.                 *)
(*                                                                         *)
(* The supervisor calls the channel and blocks; a driver thread owns the   *)
(* connection.  They trade commands and notes over two queues.  While a    *)
(* prompt runs the driver also takes commands, but while it waits for the  *)
(* answer to a steer it takes nothing else.  The guard stops and continues *)
(* the agent's process group with signals.                                 *)
(***************************************************************************)
EXTENDS Naturals, Sequences, SequencesExt

CONSTANTS
  Notes, Cancels, Resumes,  \* hails by kind; Resumes answer the guard
  NoMail,
  Codex,        \* whether the adapter takes mid-turn steers
  MaxTurns,     \* bound: turns of the conversation
  MaxBreaches,  \* bound: times the agent outgrows its memory
  AgentCanDie

Mails == Notes \cup Cancels \cup Resumes

ASSUME AcpAssumption ==
  /\ NoMail \notin Mails
  /\ Notes \cap Cancels = {} /\ Notes \cap Resumes = {}
  /\ Cancels \cap Resumes = {}
  /\ Codex \in BOOLEAN /\ AgentCanDie \in BOOLEAN
  /\ MaxTurns \in Nat \ {0} /\ MaxBreaches \in Nat

VARIABLES
  \* the supervisor
  pc, turn, judged,
  running,   \* turn_running of the channel's sync side
  asked,     \* the hail whose steer it waits for
  guard, breaches,
  \* the mailbox
  sent, seen, held, acked,
  late,      \* hails whose steer was given up on
  \* between the supervisor and the driver
  commands, notes, reply,
  \* the driver
  driver,
  prompted,  \* the turn whose prompt it waits for
  steered,   \* the hail whose steer it waits for
  \* the agent
  alive, stopped,
  inbox,     \* requests on the wire
  working, outcome, steerOutcome,
  given      \* how often the conversation was given a hail

supervisor == <<pc, turn, judged, running, asked>>
guarding   == <<guard, breaches>>
mailbox    == <<sent, seen, held, acked, late>>
queues     == <<commands, notes, reply>>
driving    == <<driver, prompted, steered>>
process    == <<alive, stopped>>
agent      == <<inbox, working, outcome, steerOutcome, given>>
vars == <<supervisor, guarding, mailbox, queues, driving, process, agent>>

Verdicts == {"done", "failed", "flaked"}

\* The commands are also what the driver puts on the wire; each has the turn it
\* was sent in.
Request(do, text) == [do |-> do, text |-> text, turn |-> turn]

Init ==
  /\ pc = "between" /\ turn = 0 /\ judged = <<>> /\ running = FALSE
  /\ asked = NoMail
  /\ guard = "watching" /\ breaches = 0
  /\ sent = {} /\ seen = {} /\ held = {} /\ acked = {} /\ late = {}
  /\ commands = <<>> /\ notes = <<>> /\ reply = "none"
  /\ driver = "idle" /\ prompted = 0 /\ steered = NoMail
  /\ alive = TRUE /\ stopped = FALSE
  /\ inbox = <<>> /\ working = 0 /\ outcome = "none" /\ steerOutcome = "none"
  /\ given = [m \in Mails |-> 0]

-----------------------------------------------------------------------------
(* Between turns *)

Tell(request) == commands' = Append(commands, request)
Connected     == driver # "gone"

NotChannel == UNCHANGED <<driving, process, agent>>

\* What arrives after the end is the next process's.
Send(m) ==
  /\ pc # "ended" /\ m \in Mails \ sent
  /\ sent' = sent \cup {m}
  /\ UNCHANGED <<supervisor, guarding, seen, held, acked, late, queues>>
  /\ NotChannel

\* What waits goes into the next turn, a guard's resume like any other hail.  A
\* brief without mail opens the first turn, and a flaked turn is tried again
\* before what waits is taken.
Waiting == held \cup (sent \ seen)

IsRetry == judged # <<>> /\ Last(judged).verdict = "flaked"

Opens(texts) ==
  \/ texts = {} /\ (turn = 0 \/ IsRetry)
  \/ texts = Waiting /\ texts # {}

GuardAfresh == guard' = "watching" /\ UNCHANGED breaches
GuardKept   == UNCHANGED guarding

StartTurn(texts) ==
  /\ pc = "between" /\ turn < MaxTurns /\ Opens(texts)
  /\ ~running /\ Connected
  /\ turn' = turn + 1 /\ running' = TRUE /\ pc' = "poll"
  /\ commands' = Append(commands,
       [do |-> "prompt", text |-> texts, turn |-> turn + 1])
  /\ seen' = seen \cup texts /\ held' = held \ texts
  /\ acked' = acked \cup texts
  /\ GuardKept
  /\ UNCHANGED <<judged, asked, sent, late, notes, reply>> /\ NotChannel

\* start_turn answers an error and the supervisor passes it on.
StartFails ==
  /\ pc = "between" /\ turn < MaxTurns
  /\ \E texts \in SUBSET Mails : Opens(texts)
  /\ running \/ ~Connected
  /\ pc' = "ended"
  /\ UNCHANGED <<turn, judged, running, asked, guarding, mailbox, queues>>
  /\ NotChannel

\* The lane retires: the channel is closed.
Close(next) ==
  /\ pc' = next
  /\ IF Connected THEN Tell(Request("close", {})) ELSE UNCHANGED commands
  /\ UNCHANGED <<turn, judged, running, asked, guarding, mailbox, notes, reply>>
  /\ NotChannel

Retire == pc = "between" /\ Close("leaving")

-----------------------------------------------------------------------------
(* The poll loop *)

\* The open turn has its verdict.
EndTurn(t, verdict) ==
  /\ judged' = Append(judged, [turn |-> t, verdict |-> verdict])
  /\ running' = FALSE
  /\ pc' = "between"
  /\ UNCHANGED <<turn, asked>>

\* A verdict, or the connection's failure: a driver that ends unasked leaves a
\* note of it.
NextEvent ==
  /\ pc = "poll" /\ notes # <<>>
  /\ LET end == Head(notes)
     IN  EndTurn(IF end.turn = 0 THEN turn ELSE end.turn, end.verdict)
  /\ notes' = Tail(notes)
  /\ UNCHANGED <<guarding, mailbox, commands, reply>> /\ NotChannel

Unread(m) == pc = "poll" /\ m \in sent \ seen

Hold(m) ==
  /\ seen' = seen \cup {m} /\ held' = held \cup {m}
  /\ UNCHANGED <<sent, acked>>

ClaimCancel(m) ==
  /\ m \in Cancels /\ Unread(m)
  /\ IF Connected
     THEN Tell(Request("cancel", {})) /\ Hold(m) /\ UNCHANGED pc
     ELSE /\ pc' = "ended" /\ seen' = seen \cup {m}
          /\ UNCHANGED <<commands, sent, held, acked>>
  /\ UNCHANGED <<turn, judged, running, asked, guarding, late, notes, reply>>
  /\ NotChannel

\* SIGCONT, where the guard has paused the group.  It fails on a group that is
\* gone, and the supervisor with it; without a pause the hail is turned away.
ClaimResume(m) ==
  /\ m \in Resumes /\ Unread(m)
  /\ seen' = seen \cup {m}
  /\ \/ /\ guard = "paused" /\ alive
        /\ stopped' = FALSE /\ guard' = "watching"
        /\ UNCHANGED pc
     \/ /\ guard = "paused" /\ ~alive
        /\ pc' = "ended"
        /\ UNCHANGED <<stopped, guard>>
     \/ /\ guard # "paused"
        /\ UNCHANGED <<pc, stopped, guard>>
  /\ UNCHANGED <<turn, judged, running, asked, breaches, sent, held, acked,
                 late, queues, driving, alive, agent>>

\* steer: only Codex takes text into a running turn.
ClaimNote(m) ==
  /\ m \in Notes /\ Unread(m)
  /\ IF Codex /\ Connected
     THEN /\ Tell(Request("steer", {m}))
          /\ pc' = "steering" /\ asked' = m /\ reply' = "none"
          /\ seen' = seen \cup {m} /\ UNCHANGED <<sent, held, acked>>
     ELSE Hold(m) /\ UNCHANGED <<pc, asked, commands, reply>>
  /\ UNCHANGED <<turn, judged, running, guarding, late, notes>> /\ NotChannel

BackToPoll ==
  /\ pc' = "poll" /\ asked' = NoMail /\ reply' = "none"
  /\ UNCHANGED <<turn, judged, running, guarding, sent, seen, commands, notes>>
  /\ NotChannel

SteerReturns ==
  /\ pc = "steering"
  /\ reply # "none" \/ ~Connected
  /\ IF reply = "midturn"
     THEN acked' = acked \cup {asked} /\ UNCHANGED held
     ELSE held' = held \cup {asked} /\ UNCHANGED acked
  /\ UNCHANGED late
  /\ BackToPoll

SteerWaits == FALSE /\ UNCHANGED vars

\* Ten seconds: the request stays with the driver, the hail is tried again.
SteerTimesOut ==
  /\ pc = "steering" /\ reply = "none"
  /\ held' = held \cup {asked} /\ late' = late \cup {asked}
  /\ UNCHANGED acked
  /\ BackToPoll

-----------------------------------------------------------------------------
(* The memory guard, the stall limit, the ways out *)

OnlyGuard == UNCHANGED <<supervisor, mailbox, notes, reply, driving, agent>>

GuardInterrupts ==
  /\ pc = "poll" /\ alive
  /\ guard = "watching" /\ breaches < MaxBreaches
  /\ guard' = "grace" /\ breaches' = breaches + 1
  /\ IF Connected THEN Tell(Request("cancel", {})) ELSE UNCHANGED commands
  /\ UNCHANGED process /\ OnlyGuard

\* The grace is over: the group is stopped, or is within its limit.
GuardPauses ==
  /\ pc = "poll" /\ alive /\ guard = "grace"
  /\ guard' = "paused" /\ stopped' = TRUE
  /\ UNCHANGED <<breaches, alive, commands>> /\ OnlyGuard

GuardCalms ==
  /\ pc = "poll" /\ alive /\ guard = "grace"
  /\ guard' = "watching"
  /\ UNCHANGED <<breaches, process, commands>> /\ OnlyGuard

\* No session update for the stall limit.
StallLeavesOpen ==
  /\ pc = "poll"
  /\ EndTurn(turn, "flaked")
  /\ UNCHANGED <<guarding, mailbox, queues>> /\ NotChannel

Stall == pc = "poll" /\ Close("stalling")

\* The job's deadline, or the parent's death.
Leave == pc = "poll" /\ Close("leaving")

\* close joins the driver thread.
Joined ==
  /\ pc \in {"stalling", "leaving"} /\ ~Connected
  /\ IF pc = "stalling"
     THEN EndTurn(turn, "flaked")
     ELSE pc' = "ended" /\ running' = FALSE /\ UNCHANGED <<turn, judged, asked>>
  /\ UNCHANGED <<guarding, mailbox, queues>> /\ NotChannel

-----------------------------------------------------------------------------
(* The driver *)

NotSync == UNCHANGED <<supervisor, guarding, mailbox>>

\* Only the steer that is still waited for has somebody to tell.
Answer(m, word) ==
  reply' = IF pc = "steering" /\ asked = m THEN word ELSE reply

Put(request) ==
  inbox' = IF alive THEN Append(inbox, request) ELSE inbox

Idle   == driver = "idle"
Prompt == driver = "prompt"

Takes(do) ==
  /\ driver \in {"idle", "prompt"} /\ commands # <<>>
  /\ Head(commands).do = do
  /\ commands' = Tail(commands)
  /\ NotSync

\* A second prompt while one runs would be dropped with a warning.
TakePrompt ==
  /\ Takes("prompt")
  /\ IF Idle
     THEN /\ driver' = "prompt" /\ prompted' = Head(commands).turn
          /\ Put(Head(commands)) /\ outcome' = "none"
     ELSE UNCHANGED <<driver, prompted, inbox, outcome>>
  /\ UNCHANGED <<notes, reply, steered, process, working, steerOutcome, given>>

\* A steer that finds no prompt is left to the next turn.
AsTaken     == "midturn"
SteerWithoutTurn == "nextturn"

TakeSteer ==
  /\ Takes("steer")
  /\ LET m == CHOOSE m \in Head(commands).text : TRUE
     IN  \/ /\ Prompt
            /\ driver' = "steer" /\ steered' = m
            /\ Put(Head(commands)) /\ steerOutcome' = "none"
            /\ UNCHANGED reply
         \/ /\ Idle
            /\ Answer(m, SteerWithoutTurn)
            /\ UNCHANGED <<driver, steered, inbox, steerOutcome>>
  /\ UNCHANGED <<notes, prompted, process, working, outcome, given>>

\* A cancel that finds no prompt put behind the one that waits.
CancelKept ==
  /\ driver \in {"idle", "prompt"} /\ commands # <<>>
  /\ Head(commands).do = "cancel"
  /\ IF Idle
     THEN commands' = Append(Tail(commands), Head(commands)) /\ UNCHANGED inbox
     ELSE commands' = Tail(commands) /\ Put(Head(commands))
  /\ UNCHANGED <<notes, reply, driving, process, working, outcome, steerOutcome,
                 given>> /\ NotSync

TakeCancel ==
  /\ Takes("cancel")
  /\ Put(Head(commands))
  /\ UNCHANGED <<notes, reply, driving, process, working, outcome, steerOutcome,
                 given>>

GoneKeepsPrompt ==
  /\ driver' = "gone"
  /\ commands' = <<>> /\ UNCHANGED <<prompted, steered>>
  /\ alive' = FALSE /\ inbox' = <<>> /\ working' = 0
  /\ UNCHANGED <<reply, stopped, outcome, steerOutcome, given>> /\ NotSync

\* The thread ends, the connection and its child with it.
Gone ==
  /\ driver' = "gone" /\ prompted' = 0 /\ steered' = NoMail
  /\ commands' = <<>>
  /\ alive' = FALSE /\ inbox' = <<>> /\ working' = 0
  /\ UNCHANGED <<reply, stopped, outcome, steerOutcome, given>> /\ NotSync

TakeClose ==
  /\ driver \in {"idle", "prompt"} /\ commands # <<>>
  /\ Head(commands).do = "close"
  /\ Gone
  /\ UNCHANGED notes

\* turn_verdict; an error of the connection is a flake.
PromptDone ==
  /\ Prompt
  /\ outcome # "none" \/ ~alive
  /\ notes' = Append(notes, [turn |-> prompted,
                             verdict |-> IF outcome = "none" THEN "flaked"
                                                             ELSE outcome])
  /\ driver' = "idle" /\ prompted' = 0
  /\ UNCHANGED <<commands, reply, steered, process, agent>> /\ NotSync

SteerDone ==
  /\ driver = "steer"
  /\ steerOutcome # "none" \/ ~alive
  /\ Answer(steered, IF steerOutcome = "injected" THEN "midturn" ELSE "error")
  /\ driver' = "prompt" /\ steered' = NoMail
  /\ UNCHANGED <<commands, notes, prompted, process, agent>> /\ NotSync

\* The connection ends in an error: OpenFailed, whenever that is.
DriverFails ==
  /\ Connected /\ ~alive
  /\ Gone
  /\ notes' = Append(notes, [turn |-> 0, verdict |-> "flaked"])

-----------------------------------------------------------------------------
(* The agent *)

Runs == alive /\ ~stopped

OnlyAgent ==
  UNCHANGED <<supervisor, guarding, mailbox, queues, driving, process>>

Give(text) ==
  given' = [m \in Mails |-> IF m \in text THEN given[m] + 1 ELSE given[m]]

AgentTakes(do) ==
  /\ Runs /\ inbox # <<>> /\ Head(inbox).do = do
  /\ inbox' = Tail(inbox)
  /\ OnlyAgent

AgentPrompted ==
  /\ AgentTakes("prompt")
  /\ working' = Head(inbox).turn
  /\ Give(Head(inbox).text)
  /\ UNCHANGED <<outcome, steerOutcome>>

\* Injected, into a turn of its own if none runs, or failed.
AgentSteered ==
  /\ AgentTakes("steer")
  /\ \/ steerOutcome' = "injected" /\ Give(Head(inbox).text)
     \/ steerOutcome' = "failed" /\ UNCHANGED given
  /\ UNCHANGED <<working, outcome>>

AgentCancelled ==
  /\ AgentTakes("cancel")
  /\ IF working # 0 THEN outcome' = "failed" /\ working' = 0
                    ELSE UNCHANGED <<outcome, working>>
  /\ UNCHANGED <<steerOutcome, given>>

AgentFinishes ==
  /\ Runs /\ working # 0
  /\ outcome' \in Verdicts /\ working' = 0
  /\ UNCHANGED <<inbox, steerOutcome, given>> /\ OnlyAgent

AgentDies ==
  /\ AgentCanDie /\ alive
  /\ alive' = FALSE /\ inbox' = <<>> /\ working' = 0
  /\ UNCHANGED <<supervisor, guarding, mailbox, queues, driving, stopped,
                 outcome, steerOutcome, given>>

-----------------------------------------------------------------------------

Claim == \E m \in Mails : ClaimCancel(m) \/ ClaimResume(m) \/ ClaimNote(m)

Poll == NextEvent \/ Claim \/ SteerReturns \/ SteerTimesOut
          \/ Joined

Drive == TakePrompt \/ TakeSteer \/ TakeCancel \/ TakeClose
           \/ PromptDone \/ SteerDone

Work == AgentPrompted \/ AgentSteered \/ AgentCancelled \/ AgentFinishes

Next ==
  \/ \E m \in Mails : Send(m)
  \/ \E texts \in SUBSET Mails : StartTurn(texts)
  \/ StartFails \/ Retire
  \/ Poll
  \/ GuardInterrupts \/ GuardPauses \/ GuardCalms \/ Stall \/ Leave
  \/ Drive \/ DriverFails
  \/ Work \/ AgentDies

\* Both threads run, an agent that runs takes what it is sent and its turns end.
\* A stopped agent writes nothing, so that the stall limit passes.
Fairness ==
  /\ WF_vars(Poll) /\ WF_vars(Drive) /\ WF_vars(Work)
  /\ WF_vars(stopped /\ Stall)

Spec     == Init /\ [][Next]_vars
FairSpec == Spec /\ Fairness

-----------------------------------------------------------------------------
(* Properties *)

Requests == [do : {"prompt", "steer", "cancel", "close"}, text : SUBSET Mails,
             turn : 0..MaxTurns]

\* The shape of every variable.  One steer is on its way at a time per thread,
\* and the agent is given no text more than twice.
TypeOK ==
  /\ pc \in {"between", "poll", "steering", "stalling", "leaving", "ended"}
  /\ turn \in 0..MaxTurns /\ running \in BOOLEAN
  /\ judged \in Seq([turn : 1..MaxTurns, verdict : Verdicts])
  /\ asked \in Notes <=> pc = "steering"
  /\ guard \in {"watching", "grace", "paused"} /\ breaches \in 0..MaxBreaches
  /\ seen \subseteq sent /\ sent \subseteq Mails
  /\ held \cup acked \subseteq seen /\ held \cap acked = {}
  /\ late \subseteq Notes
  /\ commands \in Seq(Requests) /\ inbox \in Seq(Requests)
  /\ notes \in Seq([turn : 0..MaxTurns, verdict : Verdicts])
  /\ reply \in {"none", "midturn", "nextturn", "error"}
  /\ driver \in {"idle", "prompt", "steer", "gone"}
  /\ prompted # 0 <=> driver \in {"prompt", "steer"}
  /\ steered \in Notes <=> driver = "steer"
  /\ alive \in BOOLEAN /\ stopped \in BOOLEAN
  /\ working \in 0..MaxTurns /\ outcome \in Verdicts \cup {"none"}
  /\ steerOutcome \in {"none", "injected", "failed"}
  /\ given \in [Mails -> 0..2]

\* The channel keeps the supervisor's turns apart: a verdict is read once, for
\* the turn that is open, though stalls, dead agents and closed connections
\* leave answers behind.
Ledger == INSTANCE TurnLedger
  WITH Verdicts <- Verdicts, turn <- turn, open <- running, judged <- judged

TurnsKeptApart == Ledger!Spec

\* What the supervisor took for delivered is in the conversation or on its way
\* there, as long as the agent lives: no queue loses it and no prompt is dropped
\* (acp.rs:603-605).  And it is there once: a steer that failed stays with the
\* supervisor "so it can retry the hail in the next turn" (supervise.rs:3130),
\* which repeats a text only where the steer was given up on.
OnItsWay(m) ==
  \E request \in ToSet(commands) \cup ToSet(inbox) :
    m \in request.text /\ request.do \in {"prompt", "steer"}

HailIsGivenOnce ==
  \A m \in Mails \ late :
    /\ given[m] <= 1
    /\ m \in acked => given[m] = 1 \/ OnItsWay(m) \/ ~alive

\* A cancel, of a hail or of the guard, ends the turn it was sent in and never a
\* later one, however long it sat in the queues.
CancelHitsItsTurn ==
  [][(AgentTakes("cancel") /\ working # 0)
       => Head(inbox).turn = working]_vars

\* An agent the guard has stopped can be resumed: the guard knows that it
\* paused it, over the end of the turn and into the next.
StoppedIsPaused == stopped => guard = "paused"

\* Every turn ends, the ones whose agent was stopped included, as long as close
\* returns.  It does not when the driver waits for a stopped agent's answer to a
\* steer: the join has no limit and nothing reads the operator's resume.
Wedged == pc \in {"stalling", "leaving"} /\ driver = "steer" /\ stopped

EveryTurnEnds == running ~> (~running \/ pc = "ended" \/ Wedged)

=============================================================================
