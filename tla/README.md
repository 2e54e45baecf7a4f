# Verification of boop's lane runtime

This directory holds a TLA+ development for `hafley-rs`. The repository's main
program is `boop` (alias `beep`): it spawns coding agents into git worktrees
and tmux panes ("lanes"), supervises each one from a process of its own, and
lets agents and people mail each other through a SQLite store. What goes wrong
in such a program is seldom in one function. It is in what several processes
do between each other's steps: a supervisor that dies between handing over a
mail and noting it, a send that meets a lane on its way out, two threads that
both want the last word. Those are what the modules here are about. The
repository also holds libraries of their own; of these the commit engine of
`soopy`, which must survive a power loss between any two of its writes, is
modelled.

Contents: [inventory](#inventory), [modules and the code](#modules-and-the-code),
[runs](#runs), [fairness](#fairness), [proofs](#proofs),
[divergences](#divergences-between-the-code-and-what-it-says),
[assumptions and limits](#assumptions-and-limits), [not modelled](#not-modelled),
[plan](#plan).

All paths below are relative to `src/`. `supervise.rs` is
`crates/boop-proc/src/supervise.rs`, `mail.rs` and `job.rs` are in
`crates/boop/src/cli/`, `acp.rs` in `crates/boop-acp/src/channel/`, `_7f_commit.rs`
in `crates/soopy/src/`.

## Inventory

### The lane runtime (the core of the program)

| part | source | state | operations | hard because |
|---|---|---|---|---|
| lane supervisor | `supervise.rs`, fn `supervise` | conversation pin, flake and refeed counters, lists of claimed / held / opening hails, residency mark, result-written flag | probe, brief, retry, claim, hold, steer, ack, boundary, park, wake, retire, exit | dies anywhere, its memory of mail is local, the mailbox changes under it, three retry loops share one turn loop |
| end latch | `_1_end_latch.rs`, `supervise::run` | a mutex with two flags | `main_end`, `signal_end`, `arm_signal_trail` | two threads race for one terminal row; a print into a dead pty panics with the mutex held |
| lane revive | `mail.rs` `revive_if_retired`, the pane command of `job.rs` | registry route, residency file, tmux session | send, probe, clear, register, spawn, wait; epilogue drops the route and closes the session | six separate reads and writes, no lock, several senders, the lane itself moving |
| door delivery | `boop-proc/src/deliver.rs`, `1_dead_route.rs` | delivery transitions, per-route budget and cooling, route lock | `deliver_hail`, `drain_route`, `drain_all` | a push to a live agent and its record are two writes; drains, sends and readers overlap |
| mailbox readers | `boop-proc/src/mailwait.rs`, `inbox.rs`, `job.rs` wait, `mail.rs` inbox drain | acks (`to_timestamp`) | `wait`, `inbox drain`, `ack` | readers and pushers decide from what they read earlier |
| message store | `boop-store` `bus.rs`, `ident.rs` | messages, acks, delivery transitions, routes | append, ack, transition, claim | several processes, SQLite transactions |
| reminders | `boop-store/src/1_reminder.rs`, `boop/src/cli/1_reminder.rs` | schedules, their last envelope, the envelopes' transitions, observer threads | add, cancel, expire, claim, retry, deliver, observe | the claim commits before the door is called and its outcome after; what a dead runner leaves has to be read off the transitions |
| ACP channel | `boop-acp/src/channel.rs`, `acp.rs` | two queues between a supervisor and a driver thread, the running-turn flag | `start_turn`, `steer`, `interrupt`, `next_event`, `close`; `connect` | a steer given up after ten seconds, verdicts left behind, the agent's death, a join with no limit |
| parent watch | `supervise.rs` 761-829 | parent and own-pane probes, orphan policy | `probe`, reparent | the parent's route is re-registered while being probed |
| resource guard | `0_resource_guard.rs`, `supervise.rs` 1313-1420 | phase, grace deadline | observe, interrupt, pause, resume | a paused agent answers nothing until somebody else resumes it |
| quiet, head and stale watches | `supervise.rs`, `headwatch.rs` | timers, last heads | tick | timers only, no shared state |
| garbage collection | `_2_gc.rs` | routes, worktrees, sessions | plan, sweep | decides from a snapshot, deletes later |
| lane config, brief and worktree setup | `lane.rs`, `config.rs` | files | spawn arguments | I/O, parsing |

How they interact. A *send* (`beep <lane> ...`) appends a message row, then
tries to put it in front of its recipient: for a lane the row stays held and
the lane's supervisor claims it, unless the lane retired, when the send itself
respawns it (lane revive); for any other route the row is pushed through the
route's door (door delivery). A *supervisor* reads its lane's mailbox every
tick, hands mail to its harness through a channel (ACP or another), acks it,
and writes rows to its parent: yields, retries, one completion marker, one
terminal row. The terminal row comes from the main thread or from the signal
thread (end latch). When the supervisor exits, the pane's shell drops the
lane's route and closes the session. A parent blocks in `beep lane wait` on
those rows.

### Around it

| part | source | left out because |
|---|---|---|
| harness adapters | `boop-harness` | one parser of a vendor's output per file; state is a cursor |
| tmux / terminal backends | `boop-mux` | calls to external programs; appears in the models as the session's existence |
| transcript store, sessions, sync | `boop-store` `ident.rs`, `runtime.rs` | SQL over one connection, large, mostly queries |
| `soopy` | `crates/soopy` | the commit engine and its durable writes are modelled (`CommitEngine`); the stage store, the planner and the watches are not |
| `redux` | `crates/redux` | not modelled (see [not modelled](#not-modelled)) |
| `ghcache` | `crates/ghcache` | HTTP and SQL over one connection |
| `sqlite-ext` | `crates/sqlite-ext` | one C-ABI extension, single-threaded |
| `hafley-observe`, `boop-turnstrip`, `boop-turnvis` | crates of the same name | formatting and rendering |
| `hafley_scm`, `sprefa-extract`, `tree-sitter-typespec`, `boop-types` | | parsers and generated code, pure |
| `ryi`, `labs` | | experiments |

### What makes each modelled part correct

* **End latch** - one latched terminal row per process; a lane that ends
  leaves a row; a signalled process ends.
* **Supervisor** - a claimed mail is never lost inside the process; an ack
  follows a delivery and an acked mail is never delivered again, across
  restarts; a success row means the brief was given and done; idle means
  reported, if the append of the row did not fail; retries are bounded; mail
  that arrives is eventually handed over.
* **Door delivery** - a push on record is not repeated, whoever drains; the
  window's budget holds; a row is stamped taken only when its body is in front
  of the recipient; a row given up can still be read.
* **Revive** - a mail sent to a lane is read or its send reports failure; a
  revive never kills a running lane; a reported revival happened; a running
  lane is registered.
* **Reminders** - a call at the door whose outcome nobody recorded is not
  repeated; one occurrence per route is at work; an accepted one comes to its
  end.
* **ACP channel and guard** - one verdict per turn, the open one's; a hail is in
  the conversation once; a cancel hits the turn it was meant for; a stopped
  agent can be resumed; every turn ends.
* **Commit engine** - whatever a power loss leaves can be finished or was never
  begun; an answered commit stays; nobody's earlier save is overwritten.

## Modules and the code

| module | models | kind |
|---|---|---|
| `EndLatch` | `_1_end_latch.rs`, `supervise::run`, `record_result` | component |
| `HailLedger` | what the supervisor promises of mail | abstract specification |
| `LaneSupervisor` | `supervise()` | component, implements `HailLedger` |
| `LaneRevive` | `revive_if_retired`, the pane epilogue, `lane kill` | composition of sends with a lane reduced to its mailbox reads |
| `DoorDelivery` | `deliver_hail_budgeted`, `land`, the drain, `retire_held`, `wait --me` | component: several processes over one route |
| `ReminderClaims` | `reminder_claim`, `reminder_retry`, the foreground runner with its observers, `deliver_hail` for a reminder | component: schedules, a mortal runner, a session |
| `TurnLedger` | what a channel promises of turns | abstract specification |
| `AcpTurns` | `AcpChannel` and its driver thread, the supervisor's poll loop, `ResourceGuard` | composition, implements `TurnLedger` |
| `WriteCache` | `SyncLevel` and `publish_file` of `_0a_durable_write.rs`: a device with fences and flushes | operators |
| `CommitEngine` | `commit` and `recover` of `_7f_commit.rs` over `WriteCache` | component |
| `MC*` | instances for TLC | |
| `*Proofs` | theorems | |

### EndLatch

`main` and `sig` are the two threads' program counters; `holder`, `byMain`,
`bySignal` the mutex of `ENDS`; `rows` the result rows in the parent's mail.
`record_result` is two steps, the append and the print, because the pty may be
gone in between: a print into a dead pty panics (`MainPrints`, `SignalPrints`),
which unwinds through the guard. Rust poisons the mutex then, and `main_end`
takes it anyway (`into_inner`), so to the model the mutex is free again.
`CompletionMarker` and `RuntimeTimeout` are the rows written outside the latch.

### LaneSupervisor

One behaviour is any number (`MaxRuns`) of processes for one lane. `pc` names
the interval the process is in:

```
down -> boot -> submit -> acking -> running -> ended -> submit | drain
                            ^________|                  drain -> submit | parked | down
                                                        parked -> submit | retiring -> down
```

| action | code |
|---|---|
| `BootFresh`, `BootResumed` | 1136-1185, what the process opens with |
| `StartTurn`, `StartTurnFails` | 1212-1251 |
| `RecordDelivery`, `EnterPoll` | 1252-1262, one ack at a time, then the pin |
| `HoldHail`, `ResumeGuard`, `SteerHail` | 1561-1678, the claim of one mail |
| `GiveUpSteer`, `InjectLate` | 1631-1636 and `acp.rs` 284-290, a steer that is not answered in ten seconds; `acp.rs` 624-650, its request carried out after all |
| `TurnEnds(e)` | 1283-1302; `e` is `done`, `empty`, `failed` or `flaked` |
| `ProbeFailed`, `ProbeAnswered` | 1722-1743 |
| `RefeedBrief`, `BriefEmptyTwice` | 1744-1769 |
| `ResumeAfterFlake`, `SettleTurn` | 1770-1788 |
| `DrainToNextTurn`, `DrainToPark`, `DrainToExit` | 1790-1835, 1948-1967; `DrainToPark` writes the completion marker (`WriteMarker`) |
| `Wake`, `DecideRetire`, `Retire` | 1893-1943 |
| `SupervisorError`, `ParentGone`, `Timeout`, `Crash` | the ways out |
| `Send`, `Expire`, `Restart` | the world outside |

`seen`, `held`, `opening` are the local lists of the same names, gone when the
process dies. `sent`, `acked`, `expired`, `results`, `pin` and `residency` are
what survives. `results` has one row per process whose completion marker was
appended, with what it tells: a brief that completed is `clean`, unless its
expectations are unmet or its verify command fails (`Told`). `lost` are the
processes whose marker could not be appended, which the code only logs. `conv`,
`delivered`, `doubted` (steers given up on) and `everDelivered` are the harness's
side, which the program cannot read; they exist so that properties can speak of
it.

Texts are what they are made of: a base (`ack`, `brief`, `nudge`, `revive`,
`none`) and a set of mails. A mail is a model value; its kind is set membership
(`Cancels`, `Guards`, `Reminders`).

### HailLedger

Six sets and three promises: a mail is acked only once some process handed it
over, an acked mail is not handed over again, and one process hands a mail over
at most once, with one ack for it. The third has an exception that the code makes:
a steer that the process has given up waiting for (`Doubt`) stays with the
channel's driver, which may inject it as long as the process lives (`InjectLate`),
besides the hand-over that the process makes up for it. `LaneSupervisor` implements it with the
identity mapping on those variables; every other step is a stutter. Duplicates across processes are
allowed: a process that dies between `StartTurn` and `RecordDelivery` leaves
mail unacked, and the next hands it over again. That is the at-least-once
delivery the code chooses.

### LaneRevive

`pc[s]` is where a send stands between its separate reads: route, residency,
tmux, then kill, register, spawn, stamp and wait. The lane is one variable,
what runs in its tmux session: `boot`, `working`, `parked`, `retiring` (the
supervisor), `exited`, `dropped` (the pane's shell), `none`. `fresh[s]` is
whether the residency file was written since the send spawned its lane; the
file is one for all lanes, so `OtherLanes` lets anybody set it at any time;
`foreign` remembers the sends that were waiting when that happened.

### DoorDelivery

One route, which is not a lane, with its mailbox. `pc[p]` is where a send or a
drain is with the row `row[p]`; `todo[p]` are the rows it read as held and has
still to try.

```
idle -> next -> admitted -> calling -> record -> stamp -> next | idle
         |          |                    ^  |
      (no lock)     +--- other rungs ----+  +-> next | idle | retire
```

| action | code |
|---|---|
| `Append`, `StartPass` | `run_send`; `drain_route_held_mail_budgeted` up to its loop |
| `Enter`, `TurnedAway` | `try_route_lock` in `deliver_hail_budgeted` |
| `AlreadyAccepted`, `AlreadyPasted` | the two early returns on the row's history |
| `LandQuiet`, `LandInPane`, `LandNoSession`, `LandCool` | the rungs of `land` that stop before the call |
| `PassGate`, `DoorTakes`, `DoorDeclines`, `DoorFails` | the gate, the call and its answers; an error of the transport cools the route, another need not |
| `RecordCarried`, `RecordAside`, `RecordLast`, `RecordDead` | `Landing::record` and what the loop does next |
| `Stamp`, `Errs`, `RetireRow`, `Crash` | the ack; an error out of an attempt or of opening the route's lock file; `retire_held`; the process dies |
| `Wait`, `PrintRow`, `AckRow`, `ReaderCrash` | `wait_and_exit` of `wait --me` |
| `CoolOffEnds`, `LeavesWindow` | time |

The lock is an operating system file lock: it goes with its process. `history`
is the set of outcomes in the row's transitions; a plain hold is not in it,
because no reader looks for one, and `queued-in-hook-inbox` and `cooled-off`
are one member, `aside`, because every reader treats them alike. `inFront` is
what the program cannot see, the rows whose body the recipient has been shown.

### ReminderClaims

`state`, `due` and `last` are a reminder's row in `agent_reminder`; an envelope
is an occurrence's message, `latest` and `past` its delivery transitions (the
newest, and those among all of them that a query asks for). `pc` is the
foreground runner's place:

```
down -> tick -> claim -> retry -> observe -> tick
                  |        |        ^
                  +-> check -> lock -> admitted -> calling -> record -> stamp
                                 (each may go to observe)
```

| action | code |
|---|---|
| `Add`, `Over`, `FallsDue` | `reminder_add`; `reminder_cancel` and `reminder_expire`; time |
| `Start`, `Exit`, `Crash`, `Tick` | the runner's lock and loop |
| `Claim`, `NoClaim` | `reminder_claim`: one transaction for the due time, the envelope and its first transition |
| `Retry`, `NoRetry` | `reminder_retry`: the attempt is on record before the call |
| `CheckActive`, `TurnedAway`, `Enter`, `AlreadyAccepted`, `LandShort`, `CallDoor`, `DoorAnswers`, `Record`, `Stamp`, `Errs` | `deliver_hail_budgeted` for a reminder's row |
| `Watch`, `NoWatch`, `LoseWatch`, `RecordTurnEnd` | the observer threads |
| `SessionWorks`, `SessionIdles`, `Reply`, `AckRow` | the recipient, whose turns begin and end, and its readers |

`taken` (what the door injected), `busy` (a turn runs) and `unanswered` (calls
whose outcome is not on record) are what the program cannot see. An answer is not
the truth: a call that ends in an error may have put the body across
(`door/codex.rs` 722-723, a POST that times out), and is recorded as a hold like a
refusal; `DoorAnswers` takes either. A turn that ends notifies the observers that
are subscribed at that moment, and no later one.

### AcpTurns and TurnLedger

Four parties. The supervisor's thread (`pc`, `turn`, `judged`, `running`,
`asked`) calls the channel and blocks in it. The driver thread (`driver`,
`prompted`, `steered`) owns the connection. `commands` and `notes` are the two
channels between them, `reply` the one-shot of the steer being waited for. The
agent has an `inbox` and a turn in work. The guard (`guard`, `breaches`) stops
and continues the agent's process group from the supervisor's thread.

| action | code |
|---|---|
| `StartTurn`, `StartFails` | `start_turn`, and its caller in `supervise` |
| `NextEvent` | `next_event` with a note in the queue |
| `ClaimCancel`, `ClaimResume`, `ClaimNote`, `SteerReturns`, `SteerTimesOut` | the claim of one mail in the poll loop, `interrupt` and `steer` |
| `GuardInterrupts`, `GuardPauses`, `GuardCalms` | `ResourceGuard::observe` and what the loop does with its answer |
| `Stall`, `Leave`, `Retire`, `Joined` | the stall limit, the ways out, `close` and its join |
| `TakePrompt`, `TakeSteer`, `TakeCancel`, `TakeClose`, `PromptDone`, `SteerDone`, `DriverFails` | `connect` and `codex_steer`; `drive` |
| `Agent*` | the agent, which is external |

While the driver is in `codex_steer` it takes no command and no prompt answer:
the `select!` arm awaits it. That is `driver = "steer"`.

`TurnLedger` is what `supervise` takes for granted: one turn at a time, a
verdict is the verdict of the turn that is open and there is one. `AcpTurns`
implements it with `open` as the channel's own `turn_running`. A supervisor that
closes the channel drops its turn without a verdict (`Abandon`), except on a
stall, where it makes up the verdict itself.

### WriteCache and CommitEngine

A store is what processes see, what a power loss is sure to leave, and the
writes in between by their serial numbers. A write may reach the device at any
time; a directory sync lets its names be ordered, a fence (`F_BARRIERFSYNC`) puts
everything synced so far on its device before everything later. `Orderly` are the
sets of writes that these orders let a device have; a flush (`F_FULLFSYNC`) drains
the least of them that holds everything synced. `Images` is every content that a
power loss may leave. It includes a published name without its bytes, as long as
nothing that a fence put behind the bytes has landed: the code syncs file data no
further than the level asks.

`CommitEngine` runs `commit` and `recover` of several processes over it: `at[p]`
goes `idle -> payload -> payload_fence -> journal -> journal_fence -> apply ->
target_fence -> receipt -> receipt_flush -> remove_journal -> idle`, a recovery
enters at `apply`. `Kill` ends a process where it is, `PowerLoss` settles the
store in one of its images, `Edit` is a program that takes no lock. `shared`
says whether targets and state are on one device. An operation makes the directories
above the file it creates or moves to (`ensure_parent_dirs`); `Homes` says which
directories carry the name of a path and the names that are new with it, and an
operation reaches the device by all of them (`Carriers`). The call syncs only the
innermost directory of each path and the root (`Swept`, and `SyncTargets` with
`TargetFence`): where a carrier is in neither, the operation is not `Named`. What
the planner seals is an
assumption (`WellFormed`, `Apart`, after `group_actions` of `_7d_mutation_plan.rs`):
a path is in one operation of a stage, and a move has two.

`newest`, `redone`, `answered`, `touched` and `raced` are there for the
properties; `skipped` is set when a recovery builds on writes no fence lies
behind, of the journal or of either path of an operation (`commit_receipt`), or
when an operation is applied that is not `Named`: the two ways in which a receipt
can outlive its work. `entangled` is set when a call is begun
over the journal of another stage that shares a path with its own (`Cross`):
`commit` looks only for the journal of its own stage (`_7f_commit.rs` 337-343), so
nothing prevents it, and the journal it runs over can often not be finished
afterwards (divergences). `answered.by` tells the four ways to an `Ok` apart: a
commit or a recovery that ran to its end, a receipt that was found with no journal
of its stage or of one that crosses it left (`receipt`), and with one (`leftover`).
`CommittedIsDurable` is exact about which of them lasts. Both exceptions for
directories are needed: without `NamedStage` in `Lasting`, or without `~Named(op)`
in the `skipped` of `Apply`, TLC refutes `CommittedIsDurable` or
`ReceiptHasItsWork` in `commit_crash`.

## Runs

| run | bounds | question |
|---|---|---|
| `endlatch_pty` | two signals | with a pty that may die at any step: who writes how many rows, does the process end |
| `lane_mail` | a note, a reminder and a cancel, two processes, one retry and one refeed, every failure switched on, that of an ack, of the marker and of a steer's answer included | is a claim ever forgotten, does the ledger hold, does idle mean reported, does a fresh success mean briefed |
| `lane_live` | a note and a guard resume, two processes | does mail reach the harness, do retries stop |
| `lane_resume` | one note, two processes | does a success row always mean the conversation had the brief? No |
| `revive_one` | one sender, three rows, kills and failures, other lanes writing the file | one send at a time: is a running lane routed, are only leftovers killed, is a reported revival real or a foreign write |
| `revive_live` | two senders, two rows, other lanes writing the file | is every mail to a lane that is up read, or reported failed |
| `door_rails` | two pushers, one reader, two rows: alike, different, or progress first; allowance 1 or 2; one hold makes a route dead | is a recorded push final, does the budget hold, is a stamp honest, with crashes and stale drains |
| `door_dead` | the same, two holds | can a row the drain gave up still be read? No |
| `reminder_claims` | a reminder and its replacement, two occurrences, one death of the runner or lost subscription, errors that hide an injected body, turns that end before anybody listens | is an uncertain call repeated, is one occurrence at work, does an accepted one come to its end |
| `acp_turns` | two turns, a note, a cancel and a guard resume, one breach of memory, an adapter that takes steers, an agent that may die | does the channel keep turns apart, is a hail given once, whom does a cancel hit, can a stopped agent be resumed, does every turn end |
| `commit_crash` | two processes, a stage that replaces a file and moves another into a new directory, the stage that undoes it and one that moves the first two new directories deep, one and two devices, any two faults: kills, power losses, an edit of the moved file | can whatever is left be finished, is an answer durable, are others' saves kept |
| `commit_receipt` | two processes, the first two stages, one kill | does a receipt ever outlive its work? Yes, after a recovery |

Why the bounds are enough. Mails do not interact except through the sets they
are in: two mails of different kinds put one in each list at the same time,
which is what losing or duplicating one takes. Two processes give one restart
from every state; what a third starts from (pin, residency, mailbox) a second
could too. A cap of 1 on retries and refeeds gives the three cases below, at and
past the cap. In `LaneRevive` three rows let a single sender find the lane that
its first send revived retired again, and revive it a second time.
In `DoorDelivery` one row is enough for a stale list and two for the budget: a
second push, of the same or of another body, is what the window must refuse. Of
the pushers, one holds the lock and the other any stale view; a third could only
wait. They are interchangeable, so the runs use symmetry; neither checks a
liveness property. In `ReminderClaims` a second envelope is what a wrong claim or
a replacement would put beside the first, and one fault suffices to leave a call
without its record; the runner that comes back meets the same states a third
would. In `AcpTurns` a second turn is what a late verdict, steer or cancel of the
first one hits; one breach goes through every phase of the guard.
In `CommitEngine` a stage of two operations of two kinds can be half applied in
each order, the undoing stage makes a receipt stale, the third one goes on from
the first and crosses both. Two faults meet in every order: what a power loss or
a kill leaves, an edit or a second one finds. With a kill, a power loss and an
edit in one behaviour TLC finds no violation either (707,000 states), at a time
that leaves no room for the rest. The edited path is at once the source of a
move and, for the undoing stage, a destination; edits of the replaced one would
double the run, and the theorems have every path. One new directory has its name
in the root, which is synced; two have one between, which is not: `c` and `e`
are these two cases, and a third level adds another name of the same kind. In
`ReminderClaims` the falling due of a reminder that is over is forgotten, since
nobody asks for it again, and a reader acks a row only while a retry might ask.
`ReminderClaims` and `AcpTurns` check liveness and use no symmetry.

`CHECK_DEADLOCK FALSE` is set everywhere: a process that is gone, a lane that is
down with no run left and a mailbox with nothing to send are proper ends.

## Fairness

* `EndLatch`: weak fairness of each thread's own steps once it is in its end
  path, since the operating system schedules both threads. Nothing makes
  `supervise` return or the completion marker appear, except that a dead pane is
  always noticed (`ParentWatch::probe`, or the next print).
* `LaneSupervisor`: weak fairness of the process's own steps (boot, submit,
  deliver, the boundary, wake, retire), which no other party can block, and of a
  turn's end, which the stall limit forces when the harness does not. No
  fairness for claims of mail as such (`ClaimMail` may be starved by a turn that
  ends; the boundary then takes the mail), for sends, restarts, crashes or the
  decision to retire.
* `DoorDelivery`: none; its properties are safety properties.
* `LaneRevive`: weak fairness of each send (its wait has a limit) and of the
  lane's reads and its epilogue. None for a turn's end, the idle limit, kills.
* `ReminderClaims`: weak fairness of the runner's steps once it is up (a loop
  with a sleep), of an observer's record, and of the end of a turn that runs;
  strong fairness of `Watch`, because a runner that looks for the live session on
  every tick finds one that is there. None for a turn beginning: an observer that
  subscribes after its turn's end (`door/codex.rs` 552-604) hears nothing from a
  session that stays idle, so `AcceptedIsReleased` has the hypothesis `[]<>busy`.
  None for starting a runner: nobody does, and the property excuses a reminder
  without one.
* `AcpTurns`: weak fairness of the poll loop (its waits have limits), of the
  driver thread and of an agent that is neither stopped nor dead, which takes its
  requests and ends its turns. An agent that is stopped writes nothing, so that
  the stall limit passes: weak fairness of `stopped /\ Stall`. None for mail: no
  operator has to send the resume.
* `CommitEngine`: none; its properties are safety properties.

## Proofs

TLAPS checks the following for every value of the constants that satisfies the
named assumptions. The two refinements that are proved are `INSTANCE ... WITH` of
the abstract module and are checked by TLC too (`LedgerSpec`, `TurnsKeptApart`).

| theorem | of | argument |
|---|---|---|
| `EndLatchProofs!TypeCorrect` | `TypeOK` | `TypeOK` with the mutex part is inductive |
| `EndLatchProofs!LatchGap` | `SecondRowNeedsDeadPrint` | below |
| `EndLatchProofs!LatchHolds` | `OneLatchRow` | a corollary of the same invariant |
| `EndLatchProofs!MainSilent` | `MainSilentAfterSignal` | action property from the same invariant |
| `EndLatchProofs!EndLeavesARow` | `EndedLaneLeavesARow` | `RowLeft`, for a store that takes rows |
| `LaneSupervisorProofs!TypeCorrect` | `TypeOK` | counters need their guards |
| `LaneSupervisorProofs!ClaimsKept` | `NoClaimForgotten` | `ClaimInv` |
| `LaneSupervisorProofs!ImplementsLedger` | `LedgerSpec` | `ClaimInv` gives each step's guard in `HailLedger` |
| `LaneSupervisorProofs!IdleReported` | `IdleMeansReported` | `ReportInv`, with the lost marker |
| `LaneSupervisorProofs!FreshSuccess` | `FreshSuccessIsBriefed` | `BriefInv` |
| `LaneSupervisorProofs!ExpiredStaysOut` | `ExpiredReminderStaysOut` | step by step, from the filters |
| `LaneReviveProofs!TypeCorrect` | `TypeOK` | any senders |
| `LaneReviveProofs!LaneRouted` | `LiveLaneIsRouted` | `RouteInv`, one sender |
| `LaneReviveProofs!LeftoversOnly` | `ClearsOnlyLeftovers` | `RouteInv`, one sender |
| `LaneReviveProofs!ReviveRan` | `ReviveMeansRan` | `MarkInv`, one sender, any other lanes |
| `DoorDeliveryProofs!TypeCorrect` | `TypeOK` | any rows, pushers and readers |
| `DoorDeliveryProofs!PushIsFinal` | `RecordedPushIsFinal` | `LockInv` |
| `DoorDeliveryProofs!RailsHold` | `WindowKeepsItsRails` | `WindowInv` |
| `DoorDeliveryProofs!StampsAreHonest` | `StampedRowWasCarried` | `CarryInv` |
| `ReminderClaimsProofs!TypeCorrect` | `TypeOK` | any reminders, runners and envelopes |
| `ReminderClaimsProofs!UncertainStays` | `UncertainIsNotReplayed` | `UncertainInv` |
| `ReminderClaimsProofs!OneAtWork` | `OneOccurrenceAtWork` | `WorkInv`, `AttemptInv`, `ReplaceInv` |
| `AcpTurnsProofs!PausedIsKnown` | `StoppedIsPaused` | inductive as it stands |
| `AcpTurnsProofs!ImplementsLedger` | `TurnsKeptApart` | `OnePlace` gives each step's guard in `TurnLedger` |
| `AcpTurnsProofs!TypeCorrect` | `TypeOK` | `ConversationInv`: `Shape` and `MailInv` |
| `AcpTurnsProofs!GivenOnce` | `HailIsGivenOnce` | `ConversationInv`: `MailInv` |
| `AcpTurnsProofs!CancelsHitTheirTurn` | `CancelHitsItsTurn` | `ConversationInv`: `AgentInv` |
| `CommitEngineProofs!TypeCorrect` | `TypeOK` | `IInv` over the lemmas of `WriteCacheProofs` |
| `CommitEngineProofs!PayloadsComeFirst` | `PayloadBeforeJournal` | `IInv`: `PayloadReady` |
| `CommitEngineProofs!ReceiptsAreEarned` | `ReceiptHasItsWork` | `IInv`: `Done`, `Secured`, `Unclaimed` |
| `CommitEngineProofs!CommitsAreDurable` | `CommittedIsDurable` | `IInv`: `Done`, `Secured`, `Answers`; `ChainInv`: `SettledPaths`, `ReceiptHolds` |
| `CommitEngineProofs!HalfStagesAreLogged` | `HalfAppliedIsLogged` | `ChainInv`: `Logged`, `Untangled`, `Fenced` |
| `CommitEngineProofs!JournalsCanFinish` | `JournalCanFinish` | `ChainInv`: `Finish`, `SettledPaths`, `Linked` |
| `CommitEngineProofs!EditsAreKept` | `KeepsEarlierEdits` | action property from `IInv`: `Pend` |

**EndLatch.** None of the latch properties is inductive: that no second row
comes needs to know why the thread in `append` may be there. `MutexInv` says
that whoever is in `append` or `print` holds the mutex (and the signal thread
keeps it until the process is gone), `FlagInv` what each flag says of its
thread's program counter, and `RowsInv` counts the latched rows by the program
counters: a `main` row is there only past `append`, and with `byMain` unset
only in `print` or `unwound` with a dead pty. `EndLeavesARow` has the hypothesis
that the store takes rows (`~StoreCanFail`), because the code logs a failed append
and ends all the same; the run has the same store. `RowLeft` says which program
counters and flags mean that a row is there.

**LaneSupervisor.** `ClaimInv` is the exact account of a mail inside the
process: what is on a list was claimed (`held`, `opening`, `toAck` within
`seen`), what waits is neither delivered nor acked, what is to be acked has
been delivered, the lists are empty when the process is down. From it each step
is a `HandOver`, `Doubt`, `InjectLate`, `Acknowledge`, `Send`, `ProcessGone` or
stutter of `HailLedger`. `ReportInv` ties the mark to the program counter and the
flag that the marker was written, which means a row or a lost one (`Reported`). `BriefInv` carries the one non-obvious fact: past
the probe, a fresh process's first non-probe text is always the brief, so a
completed brief implies that the conversation had it.

**LaneRevive.** With one sender (`OneSender`) what a send saw stays true until
it acts, except for the lane's own progress towards its end, which is one-way:
`RouteInv` says which lane states each step of a send leaves possible, `MarkInv`
that a fresh residency file together with a waiting send means its supervisor
marked the lane, or another lane wrote the file meanwhile. With two senders a
revive may kill a running lane (divergences).

**DoorDelivery.** Everything turns on the lock. `LockInv` says that an attempt
past its admission holds it (so no other attempt is there), and that a row in
the middle of the call has no acceptance on record: what was read on admission
is still so, because only the holder adds one. `WindowInv` carries the same
argument for the budget: the room that the gate found is there until the push
is recorded, since meanwhile the window only shrinks. `CarryInv` ties the
history, the stamps and the readers' progress to the bodies shown. The proofs
use that `NoRow` is no row and `Nobody` no pusher, and nothing of the sizes.

**ReminderClaims.** All of it is about the newest outcome of an envelope.
`UncertainInv` says that an envelope whose call left no outcome has no word on
record that a retry could start from, and that an attempt on its way to the
call is for another one: the retry reads the row under the claim, and the row
of a lost call is never a refusal. `Heard` are the injected bodies that no outcome
denies, the ones a claim can know of. `WorkInv` says that an injected body is the
last of some reminder until it is released; `AttemptInv` that the attempt in hand
is for its reminder's last envelope, with an outcome that other claims count;
`ReplaceInv` that one reminder is active, and once it has an envelope of its own
every heard body of another one is released. Only the three together are inductive: the second body
is kept out by the claim in one step and by the replacement in another.

**AcpTurns.** `OnePlace` says where the open turn can be: a prompt in the command
queue, in the driver's hands, a verdict in the event queue, or judged, and never
in two of them. It is a statement about positions in the queues, so every step
that appends or takes goes through `AppendFacts` and `TailFacts`. With it, the
verdict that `NextEvent` reads is the open turn's, which is the guard of `Judge`
in `TurnLedger`.

Where a hail is takes three more parts (`ConversationInv`). `Shape` is the form of
the queues. `MailInv` finds each hail: a request that carries it waits in one queue
and once (`Counted`), the one steer the agent has to read is the one the driver
waits for (`OneSteer`), and the answer the supervisor is about to read says what
became of the steer it asked for, not of an earlier one (`Answered`); for a hail no
steer of which was given up on, this adds up to one place (`Once`). A steer that
was given up on stays in the queue, ahead of the prompt that repeats its text,
which is why `Counted` allows two and `Once` leaves those hails out. `AgentInv` is
about order: requests carry the turn they were made in, and from the agent's inbox
through the command queue these never decrease and lie between the turn in work
and the open one. A cancel that the agent reads with a turn in work was therefore sent in that turn.

**CommitEngine.** The images of a cache with many writes are out of a prover's
reach one by one, so `WriteCacheProofs` first says what each operation does to them:
a sync, a fence or a flush only narrows them (`Tighter`), a write adds those that
lay the new names over an image the device may still have behind its last fence
(`WriteImages`, `After`), and three facts about a name are what a call builds on:
it is `Fixed` in every image, `Behind` the last fence with its value, or
`Reachable` by syncing some directories and a fence. The inductive invariant `IInv`
then follows the call through its steps. `Pend`: what is left finds its paths as
the preflight did, unless somebody wrote them since. `Done` and `Secured`: what
is finished is done in the tree, and, as long as the call builds on nothing
unsynced and every directory it makes is `Named` (`Sure`), as far on its way to the
disk as the step has got: reachable by the directories collected, then by the fence, then behind the
fence (one device) or fixed (two). `PayloadReady` is the same for the payloads,
`Unclaimed` says that a first receipt is not there before its step, and `Answers`
that a call in its working steps has voided the answers before it. The three
statements about images (`PayloadBeforeJournal`, `ReceiptHasItsWork`, `CallHolds`)
are conjuncts, because a step that adds a write needs them of the images it lays
the write over.

`IInv` says nothing of the journals that earlier calls left behind, and stages come
in chains: one follows, undoes or crosses another. `ChainInv` adds what relates
them, as long as neither `skipped` nor `entangled` is set. `SettledPaths`: a path no
one has edited is the same in every image, or it belongs to a stage whose journal
is there; so a new journal is written over settled targets, and every image has the
operations of its stage pending. `Untangled` and `Fenced`: while a call is past its
journal's fence, its own journal is in every image that a new write of a target can
be laid over, and no journal of a stage that crosses it is in any. The hard part is
a recovery that takes over a journal it did not write: its journal is there, but the
removal of an earlier one on the same paths may still be on its way, so that a power
loss could bring that one back over the work of the new. `Linked` excludes it: a
journal still waits for its directory sync (then `recover` builds on an unordered
write, and `skipped` is set), or the fence behind it, which syncs the one directory
all journals are in, has put the earlier removals behind it as well. That no other
sync does this in passing is what `Waits` of `WriteCacheProofs` follows through
every write, sync, fence and flush. From these `Finish` (each operation of each
journal in each image is done or pending), `Logged` (before, after, or the journal)
and `ReceiptHolds` are kept step by step.

The proofs use `CommitAssumption`: what the planner seals; that names of files,
contents and devices are distinct; and that no directory of a target is one of the
three of the state root, which `open` makes sure of (`_7f_commit.rs` 239-241). They
use nothing of the numbers of processes, stages, paths, kills, losses or edits.

**Only model-checked.** Liveness under fairness is beyond the prover and stays
with TLC: `SignalledProcessExits`, `MailReachesHarness`, `LaneSettles`,
`ListeningLaneReads`, `AcceptedIsReleased`, `EveryTurnEnds`. Every invariant and every
action property that a run checks and does not refute is a theorem too. Properties
that a run refutes have no theorem.

## Divergences between the code and what it says

Each has a run that exhibits it and is listed under `findings`:

1. `lane_resume`: a process that died in its probe left a pin; the next one
   resumes the conversation, never gives it the brief, and reports success.
2. `door_dead`: a row that was cooled off before its route died is retried by
   no drain, and `wait --me` skips it as delivered.
3. `commit_receipt`: a process killed between its renames and its directory
   syncs leaves writes that `recover` takes for done; it syncs only what it
   applies itself, so the receipt it publishes can reach the device before them
   (`_7f_commit.rs` 755-756 says nothing may).

Met while modelling and stated here without a run of their own:

* After a failed brief turn, the next clean mail turn is taken for the brief's:
  `brief_completed` is set by the first clean turn of any kind (`supervise.rs`
  1770), although 1971-1972 says such a lane is left idle.
* Mail acked into a turn that flakes is not part of the retry (`supervise.rs`
  1782), although `channel.rs` 82 says the agent never saw that turn.
* Mail sent between a retiring lane's last read (`supervise.rs` 1898) and the end
  of its pane finds a route or a session, so the send revives nothing, and nobody
  is left to read it; 1895-1897 says a follow-up is "never left unclaimed on a
  route that stopped listening". `ListeningLaneReads` speaks of every other lane.
* Two sends to one retired lane: the second kills the session the first has
  just revived (`mail.rs` 910; 908-909 speaks of "the leftover session").
  `ClearsOnlyLeftovers` is checked with one send at a time.
* A stall closes the channel (`supervise.rs` 1496-1532) and is then retried as a
  flake (1773-1784): `start_turn` on the closed channel fails and the lane exits
  rc 1 instead. `AcpTurns` shows it as `Stall`, `Joined`, `StartFails`.
* `close` joins a driver that waits for a stopped agent's answer to a steer, with
  no limit (`acp.rs` 338-345 against 591-594). `EveryTurnEnds` names that state
  (`Wedged`) as its one exception; the deadline and the parent watch run in the
  thread that hangs.
* A guard resume that is read between turns becomes the text of the next turn and
  the agent stays stopped (`supervise.rs` 1598 is in the poll loop only), although
  `issues/archive/2026/09/agent-resource-guard/item.md` 27 says
  "`boop beep lane resume <lane>` resumes a resource-guard pause".
* A reminder's occurrence that the door queued for the turn boundary is acked but
  never accepted-by-harness, so no observer is started for it and no retry takes
  it; only a reply releases it (`cli/1_reminder.rs` 188, `1_reminder.rs` 163).
  Nor does another reminder's claim count it as outstanding
  (`1_reminder.rs` 123-124).
* A journal that a process killed after its receipt left behind blocks its stage
  when it is rolled back and committed again (`_7f_commit.rs` 338), though
  1507-1509 says such a journal costs nothing. Nor does the commit of another
  stage over the same paths look at it: afterwards the operations of the first are
  neither done nor pending, and its recovery is refused for good. `JournalCanFinish`
  is exact about that (`entangled`).
* A process killed between the receipt and its flush leaves a receipt that the next
  `commit` of the stage answers from (`_7f_commit.rs` 302-325) without a sync; a
  power loss may then take back targets and receipt, though 55 calls the receipt
  "The durable result of a successful commit or a completed recovery".
  `CommittedIsDurable` leaves this answer out (`leftover`) and has all others, but
  for those of a recovery that built on unordered writes.
* A payload, journal or receipt that a power loss left without its bytes is
  refused for ever; nothing rewrites it (`_7f_commit.rs` 610).

* A job past its deadline reports twice: `supervise` writes its result row
  (`supervise.rs` 1271) and returns to `run`, which writes another through the
  latch (987-988), although `_1_end_latch.rs` 1 says one terminal row per
  process. `EndLatch` has the behaviour (`RuntimeTimeout`, then `MainAppends`).
* A process that dies between a door's answer and its transition leaves the
  push unrecorded, and the next drain repeats it. `RecordedPushIsFinal` is
  exact about that: it speaks of recorded pushes.
* The ladder asks for an earlier acceptance, never for the stamp, so a drain
  with a stale list pushes a row that a reader has just taken.
* The latch has one gap (`SecondRowNeedsDeadPrint` is exact about it): the main
  thread dies on a print into the dead pty between its appended row and its
  flag, and a signal thread that arrives then appends a second row.
* `residency_written_since` (`mail.rs` 859-866) looks at the mtime of a file all
  lanes share, so a write for any other lane makes a send report a revival that
  did not happen; 859-860 says "the revived supervisor's own report". That is the
  exception `foreign` of `ReviveMeansRan`, which is checked with other lanes
  writing, and the only one: without it the property is false.
* A lane whose completion marker could not be appended idles all the same: the
  error is logged (`supervise.rs` 2393-2396), the flag set (1801-1802), and the
  append never tried again, so its parent waits. `IdleMeansReported` names it
  (`lost`). Nor need a marker be a success: unmet expectations make its rc 4, and
  the exit code of a verify command replaces it (2202-2235, 2348-2355).
* A steer that times out after ten seconds is held (`supervise.rs` 1631-1635) while
  its request stays with the driver (`acp.rs` 286-290), so that the agent may be
  given the mail twice by one process. `HailLedger` has it as `InjectLate`,
  `AcpTurns` in detail.
* `ensure_parent_dirs` (`_7f_commit.rs` 943, 962, 1230-1238) makes every missing
  directory above a file, but only the innermost and the target root are synced
  (945, 966, 757-763). The name of a directory in between is put behind no fence,
  so a power loss may take it, with the work, from under a receipt or an answered
  commit, although 755-756 says that nothing written afterwards may reach the device
  before the targets. `ReceiptHasItsWork` and `CommittedIsDurable` name the case.
* A reminder whose door call ended in an error is held on record
  (`deliver.rs` 753-764), though its body may be in the session. The retry puts it
  in again; and once the reminder is cancelled, another one's claim does not count
  it (`boop-store/src/1_reminder.rs` 123-124), so that two injected occurrences are
  unreleased, although `cli/1_reminder.rs` 35-36 says one is outstanding.
  `OneOccurrenceAtWork` names the case (`Denied`).
* An observer that subscribes after its turn's end, as a runner that restarts does,
  waits for an idle notice that a session without further turns never sends. The
  occurrence is outstanding, and its schedule with it, until a later turn ends, a
  reply comes or the reminder expires.
* `docs/lane-lifecycle.md` says a lane has three exits and writes its result row
  once; the code has more of both.

## Assumptions and limits

* A lane's mail is acked by its supervisor only (a person could ack it by hand).
* The mailbox is read once per claimed mail; the code reads the whole of it per
  tick. A read that finds several is several claims in a row, and no property
  tells them apart.
* After a turn has opened, the harness has a conversation id to pin.
* The lane has a parent that is registered, so its pane has the epilogue, and
  its spawn record exists, so it can be respawned.
* A door route is registered and stays what it is (its harness, its hook, its
  allowance); its rows are plain hails or progress rows. Commit rows with their
  own per-head ledger, acpx queues, reminders and the inbox drain's claims are
  not in `DoorDelivery`.
* `LaneSupervisor` leaves the guard's pause to `AcpTurns`: a paused turn is a turn
  that has not ended yet. The fairness of `TurnEnds` excludes a pause for ever,
  which is what `EveryTurnEnds` shows of every turn but a wedged one.
* `ReminderClaims` has one route, which is no lane, and the foreground runner. A
  door error is recorded as a hold and retried, as `land` does.
* `AcpTurns` begins when the handshake and the probe are over, so that a stall is
  one of the conversation's own. Mail is told apart by kind only. A driver that
  panics (the `Disconnected` arms) is left out, and so are terminals, permissions
  and tool calls. The agent answers a request in the order it came.
* In `LaneSupervisor` the writes that may fail (`StoreCanFail`) are the acks and the
  marker; the residency file and the pin are assumed to be written. The other rows
  to the parent (retries, yields, the row that ends a process) are not in it.
* In `CommitEngine` a rename and the making of the directory it goes into are one
  write, and `Homes` is fixed: a directory counts as new each time, also when it
  already stands, so the exception is wider than the code's in that case. Whether
  an operation is `Named` is judged by itself, without what another operation of
  the stage syncs. The directories of the state root that `open` makes (241-252)
  are taken to be on the device.
* `CommitEngine` leaves out dry runs (which promise nothing of crashes), file
  modes, path confinement and root identity (early refusals that change nothing)
  and payloads that are hard links into the stage store.
* The contents of messages, wording, logs, pull requests, head and disk watches
  are left out.

## Not modelled

* **`soopy` stage store, watches and refresh** (`_7e_stage_store.rs`, `_8_watch.rs`,
  `_14_multi_repo_refresh.rs`): the store is content-addressed, its writes are the
  publish of `WriteCache`; the watches follow a file system from outside.
* **`redux` effect pool** (`1_pool.rs`): candidate, see the plan.
* **garbage collection** (`_2_gc.rs`), **head, disk and quiet watches**: decisions
  from one snapshot or one timer, then external calls; no state of theirs is read
  by another part.
* **message store internals**: every call is one SQLite statement or transaction;
  the models have its tables as sets.
* **claude, acpx and terminal channels, harness adapters, tmux**: clients of
  vendors' programs whose behaviour is not in the repository.
* **`ghcache`**: HTTP calls and SQL in sequence.
* **parsers, extractors, generated code, rendering, configuration**: pure
  functions over text (most of the repository's lines), whose specification would
  be the grammar again.

## Plan

What is left, in order.

1. `DoorDelivery`, second part - the inbox drain with its claim file, commit
   rows, and an abstract specification: a row is shown to its recipient at least
   once or stays where a reader finds it. Liveness with a door that takes rows
   in the end: a row one declines holds up those behind it.
2. `ParentWatch` - the parent's re-registration against the orphan probe,
   composed with the supervisor's poll loop.
3. `EffectPool` - `redux` `1_pool.rs`: cancellation against completion.
