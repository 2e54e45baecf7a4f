--------------------------- MODULE LaneSupervisor ---------------------------
(***************************************************************************)
(* The supervisor of one lane (boop-proc: supervise.rs, fn supervise): one *)
(* process at a time, one harness conversation, one mailbox.               *)
(*                                                                         *)
(* The process opens with a probe turn (the startup acknowledgment), feeds *)
(* the brief, retries provider flakes, claims the mail addressed to its    *)
(* lane, steers it into the running turn or holds it for the next one, and *)
(* parks on the mailbox once a clean turn leaves nothing to do.  All its   *)
(* memory of mail is local: what survives a death is the mailbox, with its *)
(* acknowledgments, the pinned conversation and the residency mark.        *)
(*                                                                         *)
(* Of its rows to the parent the completion marker is here.  The rows that *)
(* end a process are EndLatch's; yields and the notes of a retry or of a   *)
(* retirement are left out.  No step of this module reads any of them.     *)
(*                                                                         *)
(* A text is what it is made of: a base (probe, brief, nudge, ...) and a   *)
(* set of hails.  One action is one interval in which nobody else can see  *)
(* or change the process: the harness and the mailbox are touched in       *)
(* separate steps wherever the process may die between them.               *)
(***************************************************************************)
EXTENDS Naturals, FiniteSets

CONSTANTS
  Hails,             \* mail that may be sent to the lane
  Cancels,           \* hails of kind cancel
  Guards,            \* hails of kind resume, body resource-guard
  Reminders,         \* hails from a reminder:<name>, which may expire
  FlakeResumeCap,    \* FLAKE_RESUME_CAP
  EmptyBriefRefeeds, \* EMPTY_BRIEF_REFEEDS
  MaxRuns,           \* bound: processes started for the lane
  MayResume,         \* whether a process may be given a conversation
  StoreCanFail,      \* whether the write of an ack or of the marker may fail
  HasDeadline,       \* --timeout
  ExpectsOutput,     \* --expect-*
  Verifies,          \* --verify
  IdleShutdown       \* whether idle_shutdown() has a limit

ASSUME LaneAssumption ==
  /\ Cancels \subseteq Hails
  /\ Guards \subseteq Hails
  /\ Reminders \subseteq Hails
  /\ FlakeResumeCap \in Nat
  /\ EmptyBriefRefeeds \in Nat
  /\ MaxRuns \in Nat \ {0}
  /\ MayResume \in BOOLEAN /\ StoreCanFail \in BOOLEAN
  /\ HasDeadline \in BOOLEAN /\ ExpectsOutput \in BOOLEAN
  /\ Verifies \in BOOLEAN /\ IdleShutdown \in BOOLEAN

VARIABLES
  \* the mailbox
  sent,      \* hails appended to it
  acked,     \* hails whose to_timestamp the supervisor stamped
  expired,   \* reminders no longer active, hidden from every reader
  results,   \* completion markers in the parent's mail: the process, and
             \* whether the exit code told is zero
  lost,      \* processes whose completion marker could not be appended
  \* the lane's records
  runs,      \* processes started so far
  pin,       \* what the pinned conversation holds, "none" without a pin
  residency, \* lane-residency.json
  \* the process
  pc, resume, startAckPending, briefTurnPending, briefCompleted,
  flakeResumes, emptyBriefs, resultWritten,
  seen, held, opening,
  turn,      \* the base of the text of the next or the running turn
  end,       \* how the last turn ended
  toAck,     \* hails the harness took whose ack is not written yet
  \* the harness
  conv,      \* what the open conversation holds
  delivered, \* hails this process handed to the harness
  doubted,   \* hails whose steer this process gave up waiting for
  everDelivered  \* hails the harness was given, by whatever process

mail    == <<sent, expired>>
parent  == <<results, lost>>
records == <<runs, pin, residency>>
flags   == <<resume, startAckPending, briefTurnPending, briefCompleted,
             flakeResumes, emptyBriefs, resultWritten>>
claims  == <<seen, held, opening, toAck>>
given   == <<delivered, doubted, everDelivered>>
harness == <<conv, given>>
vars    == <<mail, acked, parent, records, pc, flags, claims, turn, end,
             harness>>

Places == {"down", "boot", "submit", "acking", "running", "ended", "drain",
           "parked", "retiring"}
Texts  == {"none", "ack", "brief", "nudge", "revive"}
Ends   == {"none", "done", "empty", "failed", "flaked"}
Rows   == [run : 1..MaxRuns, told : {"clean", "failed"}]

Init ==
  /\ sent = {} /\ acked = {} /\ expired = {}
  /\ results = {} /\ lost = {}
  /\ runs = 1 /\ pin = "none" /\ residency = "absent"
  /\ pc = "boot"
  /\ resume = FALSE /\ startAckPending = FALSE
  /\ briefTurnPending = FALSE /\ briefCompleted = FALSE
  /\ flakeResumes = 0 /\ emptyBriefs = 0 /\ resultWritten = FALSE
  /\ seen = {} /\ held = {} /\ opening = {} /\ toAck = {}
  /\ turn = "none" /\ end = "none"
  /\ conv = "bare"
  /\ delivered = {} /\ doubted = {} /\ everDelivered = {}

-----------------------------------------------------------------------------
(* Mail *)

\* Unacked, deliverable mail that this process has not claimed.  No reader of
\* the mailbox is shown a reminder that is no longer active.
PendingRereadsClaims == sent \ (acked \cup expired)
Pending ==  sent \ (acked \cup expired \cup seen)

\* retain_active_reminders: of the held reminders, those still in the mailbox.
HeldAsClaimed(hails) == hails
OnlyReminders(hails) ==
  {h \in hails : h \in Reminders /\ h \notin expired \cup acked}
StillActive(hails) ==
  {h \in hails : h \in Reminders => h \notin expired \cup acked}

\* ack: a failed write is only logged.
Ack(h) ==
  \/ acked' = acked \cup {h}
  \/ StoreCanFail /\ UNCHANGED acked

\* What the marker of a completed brief tells: unmet expectations make its rc
\* INCOMPLETE_EXIT, the exit code of the verify command replaces it.
Told == IF Verifies \/ ExpectsOutput THEN {"clean", "failed"} ELSE {"clean"}

-----------------------------------------------------------------------------
(* How a process ends *)

FreshCounters ==
  /\ flakeResumes' = 0 /\ emptyBriefs' = 0 /\ resultWritten' = FALSE

\* What a process knew goes with it.
Forget ==
  /\ resume' = FALSE /\ startAckPending' = FALSE
  /\ briefTurnPending' = FALSE /\ briefCompleted' = FALSE
  /\ FreshCounters
  /\ seen' = {} /\ held' = {} /\ opening' = {} /\ toAck' = {}
  /\ delivered' = {} /\ doubted' = {}
  /\ turn' = "none" /\ end' = "none" /\ conv' = "bare"
  /\ UNCHANGED everDelivered

\* The process is over, with or without a row (EndLatch).
Exit ==
  /\ pc' = "down"
  /\ Forget
  /\ UNCHANGED <<mail, acked, parent, runs, pin>>

\* A mailbox read, the harness's event stream, an interrupt or a close failed.
SupervisorError ==
  /\ pc \in {"boot", "submit", "running", "ended", "drain", "parked"}
  /\ Exit
  /\ UNCHANGED residency

\* The lane's own pane is gone, or its parent is, under the Kill policy.
ParentGone ==
  /\ pc \in {"running", "parked"}
  /\ Exit
  /\ UNCHANGED residency

Timeout ==
  /\ HasDeadline
  /\ pc = "running"
  /\ Exit
  /\ UNCHANGED residency

\* A signal, a panic or a death that nothing notices.
Crash ==
  /\ pc # "down"
  /\ Exit
  /\ UNCHANGED residency

-----------------------------------------------------------------------------
(* How a process starts *)

\* No conversation, or one the pin does not prove: probe, then brief.
BootFresh ==
  /\ pc = "boot"
  /\ resume' = FALSE /\ startAckPending' = TRUE
  /\ briefTurnPending' = TRUE /\ briefCompleted' = FALSE
  /\ FreshCounters
  /\ turn' = "ack" /\ conv' = "bare"
  /\ pc' = "submit"
  /\ UNCHANGED <<mail, acked, parent, records, claims, end, given>>

\* The pinned conversation goes on.  A retired lane opens with the mail that
\* revived it, any other with the nudge.
BootResumed ==
  /\ pc = "boot"
  /\ MayResume /\ pin # "none"
  /\ resume' = TRUE /\ startAckPending' = FALSE
  /\ briefTurnPending' = FALSE /\ briefCompleted' = TRUE
  /\ FreshCounters
  /\ IF residency = "retired"
     THEN /\ seen' = Pending
          /\ opening' = Pending
          /\ turn' = IF Pending = {} THEN "revive" ELSE "none"
     ELSE turn' = "nudge" /\ UNCHANGED <<seen, opening>>
  /\ conv' = pin
  /\ pc' = "submit"
  /\ UNCHANGED <<mail, acked, parent, records, held, toAck, end, given>>

\* Bound: at most MaxRuns processes.
Restart ==
  /\ pc = "down"
  /\ runs < MaxRuns
  /\ runs' = runs + 1
  /\ pc' = "boot"
  /\ UNCHANGED <<mail, acked, parent, pin, residency, flags, claims, turn, end,
                 harness>>

-----------------------------------------------------------------------------
(* One turn *)

\* start_turn: the harness takes the text, hails and all.
StartTurn ==
  /\ pc = "submit"
  /\ residency' = "live"
  /\ conv' = IF turn = "brief" THEN "briefed" ELSE conv
  /\ delivered' = delivered \cup opening
  /\ everDelivered' = everDelivered \cup opening
  /\ toAck' = opening /\ opening' = {}
  /\ pc' = "acking"
  /\ UNCHANGED <<mail, acked, parent, runs, pin, flags, seen, held, turn, end,
                 doubted>>

\* start_turn refuses: the opening hails are not acked, the process ends.
StartTurnFails ==
  /\ pc = "submit"
  /\ residency' = "live"
  /\ Exit

\* record_delivery, once per hail the harness took.
RecordDelivery(h) ==
  /\ pc = "acking" /\ h \in toAck
  /\ Ack(h)
  /\ toAck' = toAck \ {h}
  /\ UNCHANGED <<mail, parent, records, pc, flags, seen, held, opening, turn,
                 end, harness>>

\* The pin follows the conversation; the poll loop goes on.
EnterPoll ==
  /\ pc = "acking" /\ toAck = {}
  /\ pin' = conv
  /\ pc' = "running"
  /\ UNCHANGED <<mail, acked, parent, runs, residency, flags, claims, turn, end,
                 harness>>

Claim(h) ==
  /\ pc = "running"
  /\ h \in Pending
  /\ seen' = seen \cup {h}
  /\ UNCHANGED <<mail, acked, parent, records, flags, opening, turn, end, conv>>

IsSteered(h) == ~startAckPending /\ h \notin Cancels \cup Guards

\* During the probe, for a cancel once the harness is interrupted, and when the
\* harness answers that it takes no text now.
HoldHail(h) ==
  /\ Claim(h)
  /\ ~(~startAckPending /\ h \in Guards)
  /\ held' = held \cup {h}
  /\ UNCHANGED <<pc, toAck, given>>

\* The steer is not answered in time: the hail is held for the next turn, its
\* request stays with the channel's driver.
GiveUpSteer(h) ==
  /\ Claim(h)
  /\ IsSteered(h)
  /\ held' = held \cup {h}
  /\ doubted' = doubted \cup {h}
  /\ UNCHANGED <<pc, toAck, delivered, everDelivered>>

\* The driver carries the request out, at any time before the process is gone.
InjectLate(h) ==
  /\ h \in doubted
  /\ everDelivered' = everDelivered \cup {h}
  /\ UNCHANGED <<mail, acked, parent, records, pc, flags, claims, turn, end,
                 conv, delivered, doubted>>

\* Consumed by the resource guard or rejected, without an ack.
ResumeGuard(h) ==
  /\ Claim(h)
  /\ ~startAckPending /\ h \in Guards
  /\ UNCHANGED <<pc, held, toAck, given>>

SteerHail(h) ==
  /\ Claim(h)
  /\ IsSteered(h)
  /\ delivered' = delivered \cup {h}
  /\ everDelivered' = everDelivered \cup {h}
  /\ toAck' = {h}
  /\ pc' = "acking"
  /\ UNCHANGED <<held, doubted>>

\* The harness ends its turn, or is declared stalled, which is a flake.  The
\* probe is "done" only when answered with its word; "empty" is a clean turn
\* that leaves declared output missing.
TurnEnds(e) ==
  /\ pc = "running"
  /\ e = "empty" => startAckPending \/ (briefTurnPending /\ ExpectsOutput)
  /\ end' = e
  /\ pin' = conv
  /\ pc' = "ended"
  /\ UNCHANGED <<mail, acked, parent, runs, residency, flags, claims,
                 turn, harness>>

-----------------------------------------------------------------------------
(* Between two turns *)

\* The next text carries no mail; held mail stays held.
Resubmit(text) ==
  /\ turn' = text
  /\ pc' = "submit"
  /\ UNCHANGED <<mail, acked, parent, records, claims, end, harness>>

ProbeFailed ==
  /\ pc = "ended" /\ startAckPending /\ end # "done"
  /\ Exit
  /\ UNCHANGED residency

\* The brief goes out with all mail that waited for the probe.
MailReplacesBrief == IF held = {} THEN "brief" ELSE "none"
TextAfterProbe    == "brief"

ProbeAnswered ==
  /\ pc = "ended" /\ startAckPending /\ end = "done"
  /\ startAckPending' = FALSE
  /\ opening' = StillActive(held) /\ held' = {}
  /\ turn' = TextAfterProbe
  /\ pc' = "submit"
  /\ UNCHANGED <<mail, acked, parent, records, resume, briefTurnPending,
                 briefCompleted, flakeResumes, emptyBriefs, resultWritten,
                 seen, toAck, end, harness>>

EmptyBrief ==
  pc = "ended" /\ ~startAckPending /\ briefTurnPending /\ end = "empty"

RefeedBrief ==
  /\ EmptyBrief
  /\ emptyBriefs < EmptyBriefRefeeds
  /\ emptyBriefs' = emptyBriefs + 1
  /\ Resubmit("brief")
  /\ UNCHANGED <<resume, startAckPending, briefTurnPending,
                 briefCompleted, flakeResumes, resultWritten>>

BriefEmptyTwice ==
  /\ EmptyBrief
  /\ emptyBriefs >= EmptyBriefRefeeds
  /\ Exit
  /\ UNCHANGED residency

BudgetOffByOne == flakeResumes <= FlakeResumeCap
WithinBudget   == flakeResumes < FlakeResumeCap

ResumesUncounted == flakeResumes
ResumesCounted   == flakeResumes + 1

\* retryable, within the budget.  The brief is fed again until it completed.
ResumeAfterFlake ==
  /\ pc = "ended" /\ ~startAckPending /\ end = "flaked"
  /\ WithinBudget
  /\ flakeResumes' = ResumesCounted
  /\ Resubmit(IF briefCompleted THEN "nudge" ELSE "brief")
  /\ UNCHANGED <<resume, startAckPending, briefTurnPending, briefCompleted,
                 emptyBriefs, resultWritten>>

\* Any other end: a clean one completes the brief.
SettleTurn ==
  /\ pc = "ended" /\ ~startAckPending
  /\ end = "flaked" => ~WithinBudget
  /\ ~EmptyBrief
  /\ briefCompleted' = (briefCompleted \/ (briefTurnPending /\ end = "done"))
  /\ briefTurnPending' = (briefTurnPending /\ end # "done")
  /\ pc' = "drain"
  /\ UNCHANGED <<mail, acked, parent, records, resume, startAckPending,
                 flakeResumes, emptyBriefs, resultWritten, claims, turn, end,
                 harness>>

\* What the boundary has for the next turn: the held mail and what just came.
Batch == StillActive(held \cup Pending)

DrainToNextTurn ==
  /\ pc = "drain" /\ Batch # {}
  /\ seen' = seen \cup Pending
  /\ opening' = Batch /\ held' = {}
  /\ turn' = "none"
  /\ pc' = "submit"
  /\ UNCHANGED <<mail, acked, parent, records, flags, toAck, end, harness>>

\* The completion marker, at most one per process.
MarksOnlyFreshRuns == ~resultWritten /\ briefCompleted /\ ~resume
Marks              == ~resultWritten /\ briefCompleted

\* record_result: a failed append is only logged, and the marker counts as
\* written all the same.
WriteMarker ==
  \/ /\ \E told \in Told :
          results' = results \cup {[run |-> runs, told |-> told]}
     /\ UNCHANGED lost
  \/ /\ StoreCanFail
     /\ lost' = lost \cup {runs}
     /\ UNCHANGED results

DrainToPark ==
  /\ pc = "drain" /\ Batch = {} /\ end = "done"
  /\ held' = {}
  /\ IF Marks THEN WriteMarker ELSE UNCHANGED <<results, lost>>
  /\ resultWritten' = (resultWritten \/ Marks)
  /\ residency' = "idle"
  /\ pc' = "parked"
  /\ UNCHANGED <<mail, acked, runs, pin, resume, startAckPending,
                 briefTurnPending, briefCompleted, flakeResumes, emptyBriefs,
                 seen, opening, toAck, turn, end, harness>>

\* A hard failure or an exhausted budget, with nothing left to deliver.
DrainToExit ==
  /\ pc = "drain" /\ Batch = {} /\ end # "done"
  /\ Exit
  /\ UNCHANGED residency

-----------------------------------------------------------------------------
(* Parked *)

Wake ==
  /\ pc = "parked" /\ Pending # {}
  /\ seen' = seen \cup Pending
  /\ opening' = Pending
  /\ turn' = "none"
  /\ pc' = "submit"
  /\ UNCHANGED <<mail, acked, parent, records, flags, held, toAck, end,
                 harness>>

\* The idle limit passed and the mailbox was just read empty.
DecideRetire ==
  /\ pc = "parked" /\ Pending = {}
  /\ IdleShutdown /\ resultWritten
  /\ pc' = "retiring"
  /\ UNCHANGED <<mail, acked, parent, records, flags, claims, turn, end,
                 harness>>

\* The mailbox is not read again; run adds no result row.
Retire ==
  /\ pc = "retiring"
  /\ residency' = "retired"
  /\ Exit

-----------------------------------------------------------------------------
(* The world outside *)

NotProcess == UNCHANGED <<acked, parent, records, pc, flags, claims, turn, end,
                          harness>>

Send(h) ==
  /\ h \notin sent
  /\ sent' = sent \cup {h}
  /\ UNCHANGED expired
  /\ NotProcess

\* A reminder is cancelled, its time runs out, or it is replaced.
Expire(h) ==
  /\ h \in (Reminders \cap sent) \ expired
  /\ expired' = expired \cup {h}
  /\ UNCHANGED sent
  /\ NotProcess

Boot == BootFresh \/ BootResumed

Between ==
  \/ ProbeFailed \/ ProbeAnswered
  \/ RefeedBrief \/ BriefEmptyTwice
  \/ ResumeAfterFlake \/ SettleTurn
  \/ DrainToNextTurn \/ DrainToPark \/ DrainToExit

ClaimMail ==
  \E h \in Hails :
    HoldHail(h) \/ ResumeGuard(h) \/ SteerHail(h) \/ GiveUpSteer(h)

Delivery == (\E h \in Hails : RecordDelivery(h)) \/ EnterPoll

TurnEnd == \E e \in Ends \ {"none"} : TurnEnds(e)

Next ==
  \/ Boot \/ Restart
  \/ StartTurn \/ StartTurnFails
  \/ Delivery \/ ClaimMail \/ TurnEnd
  \/ Between
  \/ Wake \/ DecideRetire \/ Retire
  \/ SupervisorError \/ ParentGone \/ Timeout \/ Crash
  \/ \E h \in Hails : Send(h) \/ Expire(h) \/ InjectLate(h)

\* The process keeps running.  A turn ends: the harness ends it, or the stall
\* limit does.  Nothing makes mail arrive, a process restart or a lane retire,
\* but a lane that decided to retire does.
Fairness ==
  /\ WF_vars(Boot) /\ WF_vars(StartTurn)
  /\ WF_vars(Delivery) /\ WF_vars(TurnEnd)
  /\ WF_vars(Between) /\ WF_vars(Wake) /\ WF_vars(Retire)

Spec     == Init /\ [][Next]_vars
FairSpec == Spec /\ Fairness

-----------------------------------------------------------------------------
(* Properties *)

\* The shape of every variable, the retry budgets included.
TypeOK ==
  /\ sent \subseteq Hails /\ acked \subseteq Hails
  /\ expired \subseteq Reminders
  /\ results \subseteq Rows /\ lost \subseteq 1..MaxRuns
  /\ runs \in 1..MaxRuns
  /\ pin \in {"none", "bare", "briefed"}
  /\ residency \in {"absent", "live", "idle", "retired"}
  /\ pc \in Places
  /\ resume \in BOOLEAN /\ startAckPending \in BOOLEAN
  /\ briefTurnPending \in BOOLEAN /\ briefCompleted \in BOOLEAN
  /\ flakeResumes \in 0..FlakeResumeCap
  /\ emptyBriefs \in 0..EmptyBriefRefeeds
  /\ resultWritten \in BOOLEAN
  /\ seen \subseteq Hails /\ held \subseteq Hails
  /\ opening \subseteq Hails /\ toAck \subseteq Hails
  /\ turn \in Texts /\ end \in Ends
  /\ conv \in {"bare", "briefed"}
  /\ delivered \subseteq Hails /\ everDelivered \subseteq Hails
  /\ doubted \subseteq Hails

\* The mailbox promise, across any number of processes: "the ack is written on
\* delivery" (supervise.rs:588), and a process hands a hail over once, apart
\* from a steer it has given up on, which may reach the harness besides.
Ledger == INSTANCE HailLedger
  WITH Hails <- Hails, sent <- sent, acked <- acked, delivered <- delivered,
       doubted <- doubted, everDelivered <- everDelivered, toAck <- toAck
LedgerSpec == Ledger!Spec

\* "Reading is enough to own it" (supervise.rs:588): a hail the process has
\* claimed is handed to the harness or still on its list, whatever flakes,
\* retries, probes and boundaries came in between.  Only guard resumes are
\* consumed and only expired reminders dropped.
NoClaimForgotten ==
  seen \subseteq delivered \cup held \cup opening \cup Guards \cup expired

\* A lane is marked idle or retired only after one of its processes completed
\* the brief and reported it (supervise.rs:1797-1835): its marker is in the
\* parent's mail, clean unless expectations or a verify command have a say, or
\* the append of that very row failed and was only logged (2393-2396).
IdleMeansReported ==
  residency \in {"idle", "retired"} =>
    \E run \in 1..MaxRuns :
      \/ \E row \in results : row.run = run /\ row.told \in Told
      \/ run \in lost

\* A reminder that had expired when the boundary looked is not part of the next
\* turn (supervise.rs:605-606).
ExpiredReminderStaysOut ==
  [][opening' \subseteq opening \/ opening' \cap expired = {}]_vars

\* A lane reports success only from a conversation that was given the brief:
\* "only the caller's explicit resume input proves that the thread already
\* holds the brief" (supervise.rs:1138-1139).
SuccessMeansBriefed == resultWritten => conv = "briefed"

\* The same of a process that was not given a conversation, whatever retries,
\* refeeds and mail turns led to its first result.
FreshSuccessIsBriefed == resultWritten /\ ~resume => conv = "briefed"

\* Mail to a lane reaches the harness unless the process ends, or the hail is a
\* reminder that expires, or a guard resume.
MailReachesHarness ==
  \A h \in Hails \ Guards :
    h \in sent ~> h \in everDelivered \cup expired \/ pc = "down"

\* Every retry loop is bounded: the lane ends up parked or gone.
LaneSettles == <>[](pc \in {"parked", "retiring", "down"})

=============================================================================
