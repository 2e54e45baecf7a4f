--------------------------- MODULE ReminderClaims ---------------------------
(***************************************************************************)
(* Reminders to one route with a door (boop-store: 1_reminder.rs; boop:    *)
(* cli/1_reminder.rs).  A reminder is a durable schedule; each time it is  *)
(* due the foreground runner claims an occurrence, an envelope in the      *)
(* mailbox, and puts it through the delivery ladder.  The claim commits    *)
(* before the door is called and the outcome is recorded after, so what a  *)
(* dead runner leaves behind has to be read off the envelope's delivery    *)
(* transitions.  A thread per accepted envelope waits for the session to   *)
(* fall idle and records the end of its turn.                              *)
(*                                                                         *)
(* Time is what it makes happen: an interval passes, a reminder expires.   *)
(***************************************************************************)
EXTENDS Naturals, FiniteSets

CONSTANTS
  Names,          \* reminders for the one route, in the order they are added
  Envelopes,      \* bound: occurrences, in the order of their minting
  NoName, NoEnvelope,
  ObserverLimit,  \* 32 completion observers
  MaxFaults       \* bound: deaths of the runner and lost subscriptions

ASSUME ReminderAssumption ==
  /\ Names \subseteq Nat /\ Envelopes \subseteq Nat
  /\ NoName \notin Names /\ NoEnvelope \notin Envelopes
  /\ ObserverLimit \in Nat \ {0} /\ MaxFaults \in Nat

VARIABLES
  \* agent_reminder
  state, last,
  due,        \* whether the next_ms of the active one has passed
  \* the envelopes
  minted,     \* rows of the mailbox
  acked,      \* rows whose to_timestamp is stamped
  replied,    \* rows some threaded reply names
  \* their delivery transitions
  latest,     \* the newest outcome
  past,       \* the ones among all so far that somebody asks for
  \* the runner and its observer threads
  pc, name, envelope,
  answer,     \* where the attempt landed, still to be recorded
  watched,    \* envelopes with an observer that waits for an idle notice
  noticed,    \* envelopes whose observer was notified
  faults,
  \* the recipient
  taken,      \* envelopes whose body a door put into the session
  busy,       \* whether the session has a turn running
  unanswered  \* envelopes whose last call got no outcome on record

schedule == <<state, last, due>>
rows     == <<minted, acked, replied>>
receipts == <<latest, past>>
runner   == <<pc, name, envelope, answer>>
threads  == <<watched, noticed>>
session  == <<taken, busy, unanswered>>
vars     == <<schedule, rows, receipts, runner, threads, faults, session>>

States   == {"unborn", "active", "over"}
Places   == {"down", "tick", "claim", "retry", "check", "lock", "admitted",
             "calling", "record", "stamp", "observe"}
\* "refused": held-in-mailbox, cooled-off, rejected.  "queued": the word is
\* held-for-turn-boundary, the detail names the door's queue.  "aside": a pane
\* notice or a hook's inbox.
Outcomes == {"appended", "submitted", "accepted", "refused", "queued",
             "aside", "ended"}
Lasting  == {"accepted", "queued", "ended"}
Answers  == {"none", "accepted", "refused", "queued", "aside"}

Init ==
  /\ state = [n \in Names |-> "unborn"]
  /\ due = FALSE
  /\ last = [n \in Names |-> NoEnvelope]
  /\ minted = {} /\ acked = {} /\ replied = {}
  /\ latest = [e \in Envelopes |-> "none"]
  /\ past = [e \in Envelopes |-> {}]
  /\ pc = "down" /\ name = NoName /\ envelope = NoEnvelope /\ answer = "none"
  /\ watched = {} /\ noticed = {} /\ faults = 0
  /\ taken = {} /\ busy = FALSE /\ unanswered = {}

-----------------------------------------------------------------------------
(* What the store tells *)

Active(n) == state[n] = "active"

\* reminder_message_active
MessageActive(e) == \E n \in Names : Active(n) /\ last[n] = e

\* A turn that ended or a threaded reply releases an occurrence.
Released(e) == "ended" \in past[e] \/ e \in replied

\* What the claim counts as outstanding of another reminder of the route.
UncertainAttempts == {"appended", "accepted"}
OutstandingWords  == {"appended", "submitted", "accepted"}

Outstanding(e) == ~Released(e) /\ latest[e] \in OutstandingWords

Claimable(n) ==
  /\ Active(n) /\ due
  /\ last[n] # NoEnvelope => Released(last[n])
  /\ \A o \in Names \ {n} : last[o] # NoEnvelope => ~Outstanding(last[o])

\* Of the outcomes that may be tried again, "queued" is one by its word.
RetryAnyHeld == {"refused", "queued", "submitted"}
RefusedWords == {"refused", "queued"}

Retryable(n) ==
  /\ Active(n) /\ due
  /\ last[n] # NoEnvelope
  /\ latest[last[n]] \in RefusedWords
  /\ last[n] \notin acked
  /\ past[last[n]] \cap {"accepted", "ended"} = {}

\* delivery_accepted
Accepted(e) == past[e] \cap {"accepted", "queued"} # {}

Transition(e, outcome) ==
  /\ latest' = [latest EXCEPT ![e] = outcome]
  /\ past' = [past EXCEPT ![e] = @ \cup ({outcome} \cap Lasting)]

-----------------------------------------------------------------------------
(* The schedule *)

OnlySchedule ==
  UNCHANGED <<rows, receipts, runner, threads, faults, session>>

\* One active reminder per route; a name is never given twice.
Add(n) ==
  /\ state[n] = "unborn"
  /\ \A o \in Names : ~Active(o) /\ (o < n => state[o] = "over")
  /\ state' = [state EXCEPT ![n] = "active"]
  /\ due' = FALSE
  /\ UNCHANGED last /\ OnlySchedule

\* Cancelled, or its time has run out; every reader asks for the latter itself.
Over(n) ==
  /\ Active(n)
  /\ state' = [state EXCEPT ![n] = "over"]
  /\ due' = FALSE
  /\ UNCHANGED last /\ OnlySchedule

FallsDue(n) ==
  /\ Active(n) /\ ~due
  /\ due' = TRUE
  /\ UNCHANGED <<state, last>> /\ OnlySchedule

-----------------------------------------------------------------------------
(* The runner *)

\* Done with this reminder's delivery, whatever came of it.
ToObserve ==
  /\ pc' = "observe"
  /\ envelope' = NoEnvelope /\ answer' = "none"
  /\ UNCHANGED name

RestHoldsName ==
  /\ envelope' = NoEnvelope /\ answer' = "none"
  /\ UNCHANGED name

Rest ==
  /\ name' = NoName /\ envelope' = NoEnvelope /\ answer' = "none"

\* The lock is free: whoever held it is gone.
Start ==
  /\ pc = "down"
  /\ pc' = "tick" /\ Rest
  /\ UNCHANGED <<schedule, rows, receipts, threads, faults, session>>

\* No active schedule is left: the runner exits, its threads with it.
Exit ==
  /\ pc = "tick" /\ \A n \in Names : ~Active(n)
  /\ pc' = "down" /\ Rest
  /\ watched' = {} /\ noticed' = {}
  /\ UNCHANGED <<schedule, rows, receipts, faults, session>>

Crash ==
  /\ pc # "down"
  /\ faults < MaxFaults /\ faults' = faults + 1
  /\ pc' = "down" /\ Rest
  /\ watched' = {} /\ noticed' = {}
  /\ UNCHANGED <<schedule, rows, receipts, session>>

\* A reminder is passed over while every observer is taken.
Tick(n) ==
  /\ pc = "tick" /\ Active(n)
  /\ Cardinality(watched \cup noticed) < ObserverLimit
  /\ pc' = "claim" /\ name' = n
  /\ UNCHANGED <<schedule, rows, receipts, envelope, answer, threads, faults,
                 session>>

\* reminder_claim: the due time, the envelope and its first transition in one
\* transaction.
Claim(e) ==
  /\ pc = "claim" /\ Claimable(name)
  /\ e \in Envelopes \ minted /\ \A f \in Envelopes \ minted : e <= f
  /\ due' = FALSE
  /\ last' = [last EXCEPT ![name] = e]
  /\ minted' = minted \cup {e}
  /\ Transition(e, "appended")
  /\ pc' = "check" /\ envelope' = e
  /\ UNCHANGED <<state, acked, replied, name, answer, threads, faults, session>>

\* Bound: also where the envelopes are used up.
NoClaim ==
  /\ pc = "claim"
  /\ ~Claimable(name) \/ Envelopes \ minted = {}
  /\ pc' = "retry"
  /\ UNCHANGED <<schedule, rows, receipts, name, envelope, answer, threads,
                 faults, session>>

\* reminder_retry: the attempt is on record before the door is called.
RetryUnrecorded(e) == UNCHANGED receipts
RetryRecorded(e)   == Transition(e, "submitted")

Retry ==
  /\ pc = "retry" /\ Retryable(name)
  /\ due' = FALSE
  /\ RetryRecorded(last[name])
  /\ pc' = "check" /\ envelope' = last[name]
  /\ UNCHANGED <<state, last, rows, name, answer, threads, faults, session>>

NoRetry ==
  /\ pc = "retry" /\ ~Retryable(name)
  /\ ToObserve
  /\ UNCHANGED <<schedule, rows, receipts, threads, faults, session>>

-----------------------------------------------------------------------------
(* The attempt: deliver_hail *)

NotAttempt == UNCHANGED <<schedule, minted, replied, threads, faults>>

\* The check comes before the route's lock.
CheckActive ==
  /\ pc = "check" /\ MessageActive(envelope)
  /\ pc' = "lock"
  /\ UNCHANGED <<name, envelope, answer, acked, receipts, session>>
  /\ NotAttempt

\* Cancelled or expired, or another attempt has the route: held on record.
TurnedAway ==
  /\ \/ pc = "check" /\ ~MessageActive(envelope)
     \/ pc = "lock"
  /\ Transition(envelope, "refused")
  /\ unanswered' = unanswered \ {envelope}
  /\ ToObserve
  /\ UNCHANGED <<acked, taken, busy>> /\ NotAttempt

Enter ==
  /\ pc = "lock"
  /\ pc' = "admitted"
  /\ UNCHANGED <<name, envelope, answer, acked, receipts, session>>
  /\ NotAttempt

AlreadyAccepted ==
  /\ pc = "admitted" /\ Accepted(envelope)
  /\ acked' = acked \cup {envelope}
  /\ ToObserve
  /\ UNCHANGED <<receipts, session>> /\ NotAttempt

\* The early return after a pane notice never comes: no retry takes such a row.
MayLand == pc = "admitted" /\ ~Accepted(envelope)

\* land stops above the call: no session, the route cools off, a pane notice.
LandShort(a) ==
  /\ MayLand /\ a \in {"refused", "aside"}
  /\ pc' = "record" /\ answer' = a
  /\ UNCHANGED <<name, envelope, acked, receipts, session>>
  /\ NotAttempt

CallDoor ==
  /\ MayLand
  /\ pc' = "calling"
  /\ unanswered' = unanswered \cup {envelope}
  /\ UNCHANGED <<name, envelope, answer, acked, receipts, taken, busy>>
  /\ NotAttempt

\* Injected, or not to the door's knowledge.  An error may stand for a body that
\* went across, its receipt unknown, and lands like a refusal.  What is queued for
\* the turn boundary gets there without another word, and is taken from here on.
DoorAnswers(a) ==
  /\ pc = "calling" /\ a \in Answers \ {"none"}
  /\ pc' = "record" /\ answer' = a
  /\ \/ taken' = taken \cup {envelope} /\ busy' = TRUE
     \/ a \notin {"accepted", "queued"} /\ UNCHANGED <<taken, busy>>
  /\ UNCHANGED <<name, envelope, acked, receipts, unanswered>> /\ NotAttempt

Record ==
  /\ pc = "record"
  /\ Transition(envelope, answer)
  /\ unanswered' = unanswered \ {envelope}
  /\ IF answer \in {"accepted", "queued"}
     THEN pc' = "stamp" /\ UNCHANGED <<name, envelope, answer>>
     ELSE ToObserve
  /\ UNCHANGED <<acked, taken, busy>> /\ NotAttempt

Stamp ==
  /\ pc = "stamp"
  /\ acked' = acked \cup {envelope}
  /\ ToObserve
  /\ UNCHANGED <<receipts, session>> /\ NotAttempt

\* An error out of the attempt: "delivery uncertain", nothing is recorded.
Errs ==
  /\ pc \in {"admitted", "calling", "record", "stamp"}
  /\ ToObserve
  /\ UNCHANGED <<acked, receipts, session>> /\ NotAttempt

-----------------------------------------------------------------------------
(* Completion *)

\* An accepted occurrence whose turn has not ended gets an observer.
AwaitsUnread(e) ==
  "accepted" \in past[e] /\ "ended" \notin past[e] /\ e \notin acked

AwaitsTurnEnd(e) == "accepted" \in past[e] /\ "ended" \notin past[e]

Watch ==
  /\ pc = "observe"
  /\ last[name] # NoEnvelope /\ AwaitsTurnEnd(last[name])
  /\ last[name] \notin watched \cup noticed
  /\ watched' = watched \cup {last[name]}
  /\ pc' = "tick" /\ Rest
  /\ UNCHANGED <<schedule, rows, receipts, noticed, faults, session>>

\* Nothing to observe, or no live session was found.
NoWatch ==
  /\ pc = "observe"
  /\ pc' = "tick" /\ Rest
  /\ UNCHANGED <<schedule, rows, receipts, threads, faults, session>>

\* The subscription breaks, or the session reports that it is gone.
LoseWatch(e) ==
  /\ e \in watched
  /\ faults < MaxFaults /\ faults' = faults + 1
  /\ watched' = watched \ {e}
  /\ UNCHANGED <<schedule, rows, receipts, runner, noticed, session>>

RecordTurnEnd(e) ==
  /\ e \in noticed
  /\ noticed' = noticed \ {e}
  /\ Transition(e, "ended")
  /\ UNCHANGED <<schedule, rows, runner, watched, faults, session>>

-----------------------------------------------------------------------------
(* The recipient *)

\* A turn of somebody else's.
SessionWorks ==
  /\ ~busy /\ busy' = TRUE
  /\ UNCHANGED <<schedule, rows, receipts, runner, threads, faults, taken,
                 unanswered>>

\* The turn ends: every subscription open now is notified, and one that opens
\* later hears of the next turn's end only.
SessionIdles ==
  /\ busy /\ busy' = FALSE
  /\ noticed' = noticed \cup watched /\ watched' = {}
  /\ UNCHANGED <<schedule, rows, receipts, runner, faults, taken,
                 unanswered>>

\* A reply that names the row.  A reader may have listed it, while it was
\* active and unread, at any time since it was minted.
Reply(e) ==
  /\ e \in minted \ replied
  /\ replied' = replied \cup {e}
  /\ UNCHANGED <<schedule, minted, acked, receipts, runner, threads, faults,
                 session>>

\* Such a reader acks what it has shown, also after the reminder is over.  Only a
\* retry asks for it.  Bound: an ack comes no sooner than a retry might.
AckRow(e) ==
  /\ e \in minted \ acked /\ latest[e] \in RefusedWords
  /\ acked' = acked \cup {e}
  /\ UNCHANGED <<schedule, minted, replied, receipts, runner, threads, faults,
                 session>>

-----------------------------------------------------------------------------

Attempt ==
  \/ CheckActive \/ TurnedAway \/ Enter \/ AlreadyAccepted
  \/ (\E a \in Answers : LandShort(a) \/ DoorAnswers(a))
  \/ CallDoor \/ Record \/ Stamp \/ Errs

Observe == Watch \/ NoWatch

RunnerSteps ==
  \/ Exit \/ (\E n \in Names : Tick(n))
  \/ (\E e \in Envelopes : Claim(e)) \/ NoClaim \/ Retry \/ NoRetry
  \/ Attempt \/ Observe

Next ==
  \/ \E n \in Names : Add(n) \/ Over(n) \/ FallsDue(n)
  \/ Start \/ RunnerSteps \/ Crash
  \/ SessionWorks \/ SessionIdles
  \/ \E e \in Envelopes : LoseWatch(e) \/ RecordTurnEnd(e) \/ Reply(e)
                          \/ AckRow(e)

\* The runner keeps ticking and its threads run; a live session that is looked
\* up again and again is found; a turn that runs comes to its end.
Fairness ==
  /\ WF_vars(RunnerSteps) /\ SF_vars(Watch)
  /\ WF_vars(\E e \in Envelopes : RecordTurnEnd(e))
  /\ WF_vars(SessionIdles)

Spec     == Init /\ [][Next]_vars
FairSpec == Spec /\ Fairness

-----------------------------------------------------------------------------
(* Properties *)

\* The shape of every variable, and of an attempt: it has an envelope from its
\* claim to its end.
TypeOK ==
  /\ state \in [Names -> States] /\ due \in BOOLEAN
  /\ last \in [Names -> minted \cup {NoEnvelope}]
  /\ minted \subseteq Envelopes
  /\ acked \subseteq minted /\ replied \subseteq minted
  /\ latest \in [Envelopes -> Outcomes \cup {"none"}]
  /\ past \in [Envelopes -> SUBSET Lasting]
  /\ pc \in Places
  /\ name \in Names <=> pc \notin {"down", "tick"}
  /\ envelope \in minted <=>
       pc \in {"check", "lock", "admitted", "calling", "record", "stamp"}
  /\ answer \in Answers
  /\ watched \subseteq minted /\ noticed \subseteq minted
  /\ faults \in 0..MaxFaults
  /\ taken \subseteq minted /\ busy \in BOOLEAN /\ unanswered \subseteq minted

\* "Restart never replays an uncertain attempt" (cli/1_reminder.rs:161-162): an
\* envelope whose call at the door left no outcome on record, because the
\* runner died or the store failed, is not put through the door again.  (An error
\* of the door is on record, as a hold, and is retried.)
UncertainIsNotReplayed ==
  [][CallDoor => envelope \notin unanswered]_vars

\* The outcome on record denies that the session has the body: queued, or an
\* error after it went across (door/codex.rs:722-723) that is held like a refusal
\* (deliver.rs:753-764).
Denied(e) == latest[e] \in {"refused", "queued", "aside"}

\* "At most one outstanding occurrence per route; a turn-end or threaded reply
\* releases it" (cli/1_reminder.rs:35-36), of the bodies a session holds, across
\* reminders that replace one another and runners that die.  The exception is a
\* body whose outcome denies it: once its reminder is over, the claim of another
\* does not count it (1_reminder.rs:123-124).
OneOccurrenceAtWork ==
  \A e, f \in taken : e # f =>
    \/ Released(e) \/ Released(f)
    \/ \E g \in {e, f} : Denied(g) /\ ~MessageActive(g)

\* An accepted occurrence comes to its end, over lost subscriptions and observers
\* that subscribe when the turn is long over (door/codex.rs:552-604), as long as
\* the session has turns; or the reminder is over, or no runner is up.
OccurrenceComesToEnd(e) == Released(e) \/ ~MessageActive(e) \/ pc = "down"

AcceptedIsReleased ==
  []<>busy =>
    \A e \in Envelopes : "accepted" \in past[e] ~> OccurrenceComesToEnd(e)

=============================================================================
