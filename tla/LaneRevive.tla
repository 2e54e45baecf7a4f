----------------------------- MODULE LaneRevive -----------------------------
(***************************************************************************)
(* Sends to a lane that may have retired (boop CLI: mail.rs,               *)
(* revive_if_retired), against the end of the lane's pane: the supervisor  *)
(* marks itself retired and exits, the pane's shell drops the route, then  *)
(* closes the tmux session.                                                *)
(*                                                                         *)
(* No lock orders the two.  A send appends its row, then reads the route,  *)
(* the residency mark and tmux one after the other, and each answer may be *)
(* old when the next is read.  What a supervisor does with its mail while  *)
(* it runs is LaneSupervisor's; here it reads it or does not.              *)
(***************************************************************************)
EXTENDS Naturals, FiniteSets

CONSTANTS
  Senders,    \* processes that send to the lane
  Mails,      \* rows they may send
  NoMail,
  AllowKill,  \* whether the operator may kill the lane (beep lane kill)
  AllowFail,  \* whether a supervisor may end without retiring
  OtherLanes  \* whether other lanes write the shared residency file

ASSUME ReviveAssumption ==
  /\ NoMail \notin Mails
  /\ AllowKill \in BOOLEAN /\ AllowFail \in BOOLEAN /\ OtherLanes \in BOOLEAN

VARIABLES
  route,      \* whether the registry holds the lane's route
  residency,  \* the lane's mark in lane-residency.json
  lane,       \* the lane's tmux session, by what runs in it
  spawnedBy,  \* the mail whose send opened that session
  sent,       \* rows in the mailbox
  read,       \* rows a supervisor handed to its harness
  opened,     \* mails whose send's supervisor marked the lane live
  foreign,    \* mails whose send waited while another lane wrote the file
  pc,         \* where each send is
  mail,       \* the row it sends
  saw,        \* the route it read
  retired,    \* its verdict on the retirement
  fresh,      \* the residency file was written since it spawned the lane
  outcome     \* what each send reported

shared == <<route, residency>>
boxes  == <<sent, read>>
seen   == <<saw, retired>>
marks  == <<opened, foreign>>
vars   == <<shared, lane, spawnedBy, boxes, marks, pc, mail, seen, fresh,
            outcome>>

\* A supervisor runs in the session: it listens, or it has decided not to.
Live == {"boot", "working", "parked", "retiring"}
\* It is gone, and the pane's shell runs the epilogue.
Epilogue == {"exited", "dropped"}
LaneStates == Live \cup Epilogue \cup {"none"}

Steps == {"idle", "appended", "routed", "probing", "clearing", "registering",
          "spawning", "stamping", "waiting"}
Outcomes == {"none", "left", "revived", "failed"}

Init ==
  /\ route = TRUE /\ residency = "live" /\ lane = "working"
  /\ spawnedBy = NoMail
  /\ sent = {} /\ read = {} /\ opened = {} /\ foreign = {}
  /\ pc = [s \in Senders |-> "idle"]
  /\ mail = [s \in Senders |-> NoMail]
  /\ saw = [s \in Senders |-> FALSE]
  /\ retired = [s \in Senders |-> FALSE]
  /\ fresh = [s \in Senders |-> FALSE]
  /\ outcome = [m \in Mails |-> "none"]

SessionExists == lane # "none"

-----------------------------------------------------------------------------
(* A send *)

NoSend == UNCHANGED <<sent, pc, mail, seen, outcome>>

GoTo(s, step) == pc' = [pc EXCEPT ![s] = step]

\* The send is over, with what it tells its caller.
Report(s, result) ==
  /\ GoTo(s, "idle")
  /\ outcome' = [outcome EXCEPT ![mail[s]] = result]

Append(s, m) ==
  /\ pc[s] = "idle" /\ m \notin sent
  /\ sent' = sent \cup {m}
  /\ mail' = [mail EXCEPT ![s] = m]
  /\ GoTo(s, "appended")
  /\ UNCHANGED <<shared, lane, spawnedBy, read, marks, seen, fresh, outcome>>

MarkOutranksRoute == route /\ residency # "retired"
RegisteredRoute   == route

ReadRoute(s) ==
  /\ pc[s] = "appended"
  /\ saw' = [saw EXCEPT ![s] = RegisteredRoute]
  /\ GoTo(s, "routed")
  /\ UNCHANGED <<shared, lane, spawnedBy, boxes, marks, mail, retired, fresh,
                 outcome>>

\* A dropped route and a retired mark outrank tmux.
ReadResidency(s) ==
  /\ pc[s] = "routed" /\ ~saw[s]
  /\ retired' = [retired EXCEPT ![s] = (residency = "retired")]
  /\ GoTo(s, "probing")
  /\ UNCHANGED <<shared, lane, spawnedBy, boxes, marks, mail, saw, fresh,
                 outcome>>

\* A registered route whose session answers: nothing to revive.
ProbeRoute(s) ==
  /\ pc[s] = "routed" /\ saw[s]
  /\ retired' = [retired EXCEPT ![s] = FALSE]
  /\ IF SessionExists THEN Report(s, "left")
     ELSE GoTo(s, "probing") /\ UNCHANGED outcome
  /\ UNCHANGED <<shared, lane, spawnedBy, boxes, marks, mail, saw, fresh>>

\* Unless the lane is known to have retired, its session counts as its life.
ProbeSpawn(s) ==
  /\ pc[s] = "probing"
  /\ IF retired[s] THEN GoTo(s, "clearing") /\ UNCHANGED outcome
     ELSE IF SessionExists THEN Report(s, "left")
     ELSE GoTo(s, "registering") /\ UNCHANGED outcome
  /\ UNCHANGED <<shared, lane, spawnedBy, boxes, marks, mail, seen, fresh>>

\* Whatever session has the name now is killed.
Clear(s) ==
  /\ pc[s] = "clearing"
  /\ lane' = "none"
  /\ GoTo(s, "registering")
  /\ UNCHANGED <<shared, spawnedBy, boxes, marks, mail, seen, fresh, outcome>>

RouteLeftDropped == route
RouteRegistered  == TRUE

Register(s) ==
  /\ pc[s] = "registering"
  /\ route' = RouteRegistered
  /\ GoTo(s, "spawning")
  /\ UNCHANGED <<residency, lane, spawnedBy, boxes, marks, mail, seen, fresh,
                 outcome>>

\* tmux refuses a name that is taken.
Spawn(s) ==
  /\ pc[s] = "spawning"
  /\ IF SessionExists
     THEN Report(s, "failed") /\ UNCHANGED <<lane, spawnedBy>>
     ELSE /\ lane' = "boot" /\ spawnedBy' = mail[s]
          /\ GoTo(s, "stamping") /\ UNCHANGED outcome
  /\ UNCHANGED <<shared, boxes, marks, mail, seen, fresh>>

\* The clock is read once tmux has answered: a mark made before counts as old.
Stamp(s) ==
  /\ pc[s] = "stamping"
  /\ fresh' = [fresh EXCEPT ![s] = FALSE]
  /\ GoTo(s, "waiting")
  /\ UNCHANGED <<shared, lane, spawnedBy, boxes, marks, mail, seen, outcome>>

\* residency_written_since looks at the file, which all lanes share.
AnyMark(s)      == TRUE
WrittenSince(s) == fresh[s]

Await(s) ==
  /\ pc[s] = "waiting"
  /\ \/ /\ WrittenSince(s) /\ residency \in {"live", "idle"}
        /\ Report(s, "revived")
     \/ /\ ~SessionExists
        /\ Report(s, IF WrittenSince(s) THEN "revived" ELSE "failed")
     \/ Report(s, "failed")   \* REVIVE_WAIT is over
  /\ UNCHANGED <<shared, lane, spawnedBy, boxes, marks, mail, seen, fresh>>

-----------------------------------------------------------------------------
(* The lane *)

Mark(state) ==
  /\ residency' = state
  /\ fresh' = [s \in Senders |-> TRUE]

UnreadOfEveryLane == Mails \ read
Unread            == sent \ read

\* The first turn of a supervisor.  A retired lane opens with its mail.
OpenTurn ==
  /\ lane = "boot"
  /\ read' = IF residency = "retired" THEN sent ELSE read
  /\ Mark("live")
  /\ opened' = opened \cup {spawnedBy}
  /\ lane' = "working"
  /\ UNCHANGED <<route, spawnedBy, foreign>> /\ NoSend

\* The lane is marked live before the harness takes the text.
OpenFails ==
  /\ AllowFail
  /\ lane = "boot"
  /\ Mark("live")
  /\ opened' = opened \cup {spawnedBy}
  /\ lane' = "exited"
  /\ UNCHANGED <<route, spawnedBy, read, foreign>> /\ NoSend

ReadMail(m) ==
  /\ lane = "working" /\ m \in Unread
  /\ read' = read \cup {m}
  /\ UNCHANGED <<shared, lane, spawnedBy, marks, fresh>> /\ NoSend

Park ==
  /\ lane = "working" /\ Unread = {}
  /\ Mark("idle")
  /\ lane' = "parked"
  /\ UNCHANGED <<route, spawnedBy, read, marks>> /\ NoSend

Wake ==
  /\ lane = "parked" /\ Unread # {}
  /\ read' = sent
  /\ Mark("live")
  /\ lane' = "working"
  /\ UNCHANGED <<route, spawnedBy, marks>> /\ NoSend

DeadlineFirst == TRUE
NothingWaits  == Unread = {}

\* park_step: mail wins over the idle limit.
DecideRetire ==
  /\ lane = "parked" /\ NothingWaits
  /\ lane' = "retiring"
  /\ UNCHANGED <<shared, spawnedBy, read, marks, fresh>> /\ NoSend

Retire ==
  /\ lane = "retiring"
  /\ Mark("retired")
  /\ lane' = "exited"
  /\ UNCHANGED <<route, spawnedBy, read, marks>> /\ NoSend

\* Any other return of supervise: the mark stays as it was.
HardExit ==
  /\ AllowFail
  /\ lane \in {"boot", "working", "parked"}
  /\ lane' = "exited"
  /\ UNCHANGED <<shared, spawnedBy, read, marks, fresh>> /\ NoSend

-----------------------------------------------------------------------------
(* The pane's shell, the operator, the other lanes *)

\* beep lane delete --route-only
DropRoute ==
  /\ lane = "exited"
  /\ route' = FALSE
  /\ lane' = "dropped"
  /\ UNCHANGED <<residency, spawnedBy, read, marks, fresh>> /\ NoSend

CloseSession ==
  /\ lane = "dropped"
  /\ lane' = "none"
  /\ UNCHANGED <<shared, spawnedBy, read, marks, fresh>> /\ NoSend

\* beep lane kill: the session goes, epilogue and all; the route is retained.
Kill ==
  /\ AllowKill
  /\ route /\ SessionExists
  /\ lane' = "none"
  /\ UNCHANGED <<shared, spawnedBy, read, marks, fresh>> /\ NoSend

OtherLaneMarks ==
  /\ OtherLanes
  /\ fresh' = [s \in Senders |-> TRUE]
  /\ foreign' =
       foreign \cup {mail[s] : s \in {t \in Senders : pc[t] = "waiting"}}
  /\ UNCHANGED <<shared, lane, spawnedBy, read, opened>> /\ NoSend

SendStep(s) ==
  \/ ReadRoute(s) \/ ReadResidency(s) \/ ProbeRoute(s) \/ ProbeSpawn(s)
  \/ Clear(s) \/ Register(s) \/ Spawn(s) \/ Stamp(s) \/ Await(s)

LaneStep ==
  \/ OpenTurn \/ (\E m \in Mails : ReadMail(m)) \/ Wake
  \/ Retire \/ DropRoute \/ CloseSession

Next ==
  \/ \E s \in Senders : SendStep(s) \/ \E m \in Mails : Append(s, m)
  \/ LaneStep
  \/ Park \/ DecideRetire
  \/ OpenFails \/ HardExit \/ Kill \/ OtherLaneMarks

\* A send that began goes on; a lane takes its mail, and once it has decided to
\* retire its exit and the epilogue run.  Nothing makes a turn end or the idle
\* limit pass.
Fairness ==
  /\ \A s \in Senders : WF_vars(SendStep(s))
  /\ WF_vars(LaneStep)

Spec     == Init /\ [][Next]_vars
FairSpec == Spec /\ Fairness

-----------------------------------------------------------------------------
(* Properties *)

\* The shape of every variable.
TypeOK ==
  /\ route \in BOOLEAN
  /\ residency \in {"live", "idle", "retired"}
  /\ lane \in LaneStates
  /\ spawnedBy \in Mails \cup {NoMail}
  /\ sent \subseteq Mails /\ read \subseteq sent
  /\ opened \subseteq Mails \cup {NoMail}
  /\ foreign \subseteq Mails \cup {NoMail}
  /\ pc \in [Senders -> Steps]
  /\ mail \in [Senders -> Mails \cup {NoMail}]
  /\ saw \in [Senders -> BOOLEAN]
  /\ retired \in [Senders -> BOOLEAN]
  /\ fresh \in [Senders -> BOOLEAN]
  /\ outcome \in [Mails -> Outcomes]

\* A lane that runs is in the registry: "its route is re-registered first, since
\* the pane epilogue dropped it" (mail.rs:872-873).  One send at a time.
LiveLaneIsRouted == lane \in Live => route

\* "The leftover session still owns the name; clear it" (mail.rs:909): the kill
\* of a revive hits leftovers, never a supervisor that runs.
ClearsOnlyLeftovers ==
  [][\A s \in Senders : Clear(s) => lane \notin Live]_vars

\* A send that reports a revival spawned a supervisor that marked the lane live,
\* or another lane wrote the file they share while it waited.  The code takes
\* any write for "the revived supervisor's own report" (mail.rs:859-866), so the
\* second case is no supervisor's at all; nothing else can stand in for one, not
\* the mark an earlier supervisor left nor a write from before the spawn.
ReviveMeansRan ==
  \A m \in Mails : outcome[m] = "revived" => m \in opened \cup foreign

\* "A follow-up that arrived by the time the shutdown fired must open a turn,
\* never be left unclaimed on a route that stopped listening"
\* (supervise.rs:1895-1897): a send to a lane that is up is read, or fails.
Arrives(s, m) == pc[s] = "appended" /\ mail[s] = m
ReadOrFailed(m) == m \in read \/ outcome[m] = "failed"

ListeningLaneReads ==
  \A s \in Senders, m \in Mails :
    (Arrives(s, m) /\ lane \in {"boot", "working", "parked", "none"})
      ~> ReadOrFailed(m)

=============================================================================
