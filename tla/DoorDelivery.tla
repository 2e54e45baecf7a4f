---------------------------- MODULE DoorDelivery ----------------------------
(***************************************************************************)
(* Mail for one route that is not a lane: a coordinator or a person's own  *)
(* session (boop-proc: deliver.rs, 1_dead_route.rs).  A send puts its row  *)
(* through the ladder; drains, run by many commands and by the wrapper's   *)
(* tick, put the rows still held through it again.  A file lock on the     *)
(* route spans a push and its record, but a drain chose its rows before it *)
(* had the lock, and a dead route is retired after the lock is given back. *)
(* The recipient reads the rest itself: "wait --me" prints, then acks.     *)
(*                                                                         *)
(* A row is its place in the mailbox.  Time is what it makes happen: a     *)
(* cool-off ends, a push leaves the budget's window.                       *)
(***************************************************************************)
EXTENDS Naturals, FiniteSets

CONSTANTS
  Rows,         \* rows that may be sent, oldest first
  Bodies,       \* what a row may say
  Progress,     \* the bodies that are lane progress, which no door takes
  Traffic,      \* what the rows say, with DoorBudget::allowance: one of these
  Pushers,      \* processes that send or drain
  Readers,      \* processes that read the recipient's mailbox
  Nobody, NoRow,
  DeadAttempts  \* dead_route_attempts()

ASSUME DoorAssumption ==
  /\ Rows \subseteq Nat
  /\ Progress \subseteq Bodies
  /\ Traffic \subseteq [body : [Rows -> Bodies], allowance : Nat]
  /\ Nobody \notin Pushers /\ NoRow \notin Rows
  /\ DeadAttempts \in Nat \ {0}

VARIABLES
  \* the route
  hook,      \* whether its project carries the inbox hook
  door,      \* whether its harness has a door, else only a pane
  allowance,
  \* the store
  sent,      \* rows of the mailbox
  body,      \* what they say
  acked,     \* rows whose to_timestamp is stamped
  history,   \* outcomes of the row's delivery transitions, "held" left out
  holds,     \* dead-session holds among them, up to DeadAttempts
  recent,    \* rows with a door push recorded in the window
  cooling,   \* whether the newest agent_door_blowout is in force
  \* what the recipient has in front of it
  inFront,   \* rows whose body a push or a reader showed it
  \* sends and drains
  lock, pc, sending, todo, row, rung,
  \* readers
  rpc, batch

route   == <<hook, door, allowance>>
mailbox == <<sent, body, acked>>
ledger  == <<history, holds, recent, cooling>>
pusher  == <<lock, pc, sending, todo, row, rung>>
reader  == <<rpc, batch>>
vars    == <<route, mailbox, ledger, inFront, pusher, reader>>

Steps   == {"idle", "next", "admitted", "calling", "record", "stamp",
            "retire"}
Rungs   == {"none", "door", "typed", "hook", "paste", "quiet", "mailbox",
            "gone", "cool"}
\* "aside": queued in the hook inbox, or cooled off.
Outcomes == {"accepted", "aside", "pasted", "route-dead"}
ReaderSteps == {"idle", "print", "ack"}

Init ==
  /\ hook \in BOOLEAN /\ door \in BOOLEAN
  /\ \E t \in Traffic : body = t.body /\ allowance = t.allowance
  /\ sent = {} /\ acked = {}
  /\ history = [m \in Rows |-> {}]
  /\ holds = [m \in Rows |-> 0]
  /\ recent = {} /\ cooling = FALSE
  /\ inFront = {}
  /\ lock = Nobody
  /\ pc = [p \in Pushers |-> "idle"]
  /\ sending = [p \in Pushers |-> FALSE]
  /\ todo = [p \in Pushers |-> {}]
  /\ row = [p \in Pushers |-> NoRow]
  /\ rung = [p \in Pushers |-> "none"]
  /\ rpc = [r \in Readers |-> "idle"]
  /\ batch = [r \in Readers |-> {}]

Oldest(m, rows) == m \in rows /\ \A n \in rows : m <= n

-----------------------------------------------------------------------------
(* What the store tells *)

\* held_messages, and what a drain pushes of it.
IsProgress(m) == body[m] \in Progress

Held == {m \in sent \ acked :
           /\ ~IsProgress(m)
           /\ history[m] \cap {"accepted", "pasted", "route-dead"} = {}}

\* already_in_front_of_the_recipient
InFront(m) ==
  history[m] \cap {"accepted", "pasted", "aside"} # {}

\* What "wait --me" finds.
Unread == {m \in sent \ acked : ~InFront(m)}

\* door_verdict
NeverReplayed(m)   == FALSE
Replayed(m)        == \E n \in recent : body[n] = body[m]
BudgetIncludesOne  == Cardinality(recent) > allowance
BudgetSpent        == Cardinality(recent) >= allowance

\* delivery_accepted: any acceptance in the row's history.
AcceptedAndStamped(m) == "accepted" \in history[m] /\ m \in acked
Accepted(m)           == "accepted" \in history[m]

-----------------------------------------------------------------------------
(* A send or a drain pass *)

NoRead == UNCHANGED <<route, reader>>

GoTo(p, step) == pc' = [pc EXCEPT ![p] = step]

\* On to the rows still to do, if any.
Continue(p, rows) ==
  /\ GoTo(p, IF rows = {} THEN "idle" ELSE "next")
  /\ todo' = [todo EXCEPT ![p] = rows]
  /\ row' = [row EXCEPT ![p] = NoRow]
  /\ rung' = [rung EXCEPT ![p] = "none"]
  /\ sending' = [sending EXCEPT ![p] = FALSE]

Append(p, m) ==
  /\ pc[p] = "idle"
  /\ m \in Rows /\ \A n \in sent : n < m
  /\ sent' = sent \cup {m}
  /\ sending' = [sending EXCEPT ![p] = TRUE]
  /\ todo' = [todo EXCEPT ![p] = {m}]
  /\ GoTo(p, "next")
  /\ UNCHANGED <<body, acked, ledger, inFront, lock, row, rung>> /\ NoRead

\* drain_route_held_mail: a route that cools off is skipped whole.
StartPass(p) ==
  /\ pc[p] = "idle"
  /\ ~cooling /\ Held # {}
  /\ todo' = [todo EXCEPT ![p] = Held]
  /\ GoTo(p, "next")
  /\ UNCHANGED <<sent, body, acked, ledger, inFront, lock, sending, row, rung>>
  /\ NoRead

\* try_route_lock
LockIsAdvisory == TRUE
LockIsFree     == lock = Nobody

Enter(p, m) ==
  /\ pc[p] = "next" /\ Oldest(m, todo[p])
  /\ LockIsFree
  /\ lock' = p
  /\ row' = [row EXCEPT ![p] = m]
  /\ todo' = [todo EXCEPT ![p] = todo[p] \ {m}]
  /\ GoTo(p, "admitted")
  /\ UNCHANGED <<sent, body, acked, ledger, inFront, sending, rung>> /\ NoRead

\* Another attempt is in flight: the row is held, which ends the pass.
TurnedAway(p, m) ==
  /\ pc[p] = "next" /\ Oldest(m, todo[p])
  /\ ~LockIsFree
  /\ Continue(p, {})
  /\ UNCHANGED <<sent, body, acked, ledger, inFront, lock>>
  /\ NoRead

Release(p) == lock' = Nobody

AlreadyAccepted(p) ==
  /\ pc[p] = "admitted" /\ Accepted(row[p])
  /\ acked' = acked \cup {row[p]}
  /\ Release(p) /\ Continue(p, todo[p])
  /\ UNCHANGED <<sent, body, ledger, inFront>>
  /\ NoRead

AlreadyPasted(p) ==
  /\ pc[p] = "admitted"
  /\ ~Accepted(row[p]) /\ "pasted" \in history[row[p]]
  /\ Release(p) /\ Continue(p, todo[p])
  /\ UNCHANGED <<sent, body, acked, ledger, inFront>>
  /\ NoRead

\* land, for a row that nothing took yet.
MayLand(p) ==
  /\ pc[p] = "admitted"
  /\ ~Accepted(row[p]) /\ "pasted" \notin history[row[p]]

\* It stops on a rung, still to be recorded.
Lands(p, on) ==
  /\ rung' = [rung EXCEPT ![p] = on]
  /\ GoTo(p, "record")
  /\ UNCHANGED <<sent, body, acked, history, holds, recent, lock, sending,
                 todo, row>>
  /\ NoRead

\* The rung below a door, or a pane, that did not take the row.
BelowNothing(otherwise) == IF hook THEN "hook" ELSE "none"
Below(otherwise)        == IF hook THEN "hook" ELSE otherwise

LandQuiet(p) ==
  /\ MayLand(p) /\ IsProgress(row[p])
  /\ Lands(p, "quiet")
  /\ UNCHANGED <<cooling, inFront>>

\* The pane takes the notice, or the whole body at a composer's prompt.
LandInPane(p) ==
  /\ MayLand(p) /\ ~IsProgress(row[p]) /\ ~door
  /\ \/ \E on \in {"paste", "mailbox"} : Lands(p, Below(on)) /\ UNCHANGED inFront
     \/ ~hook /\ Lands(p, "typed") /\ inFront' = inFront \cup {row[p]}
  /\ UNCHANGED cooling

LandNoSession(p) ==
  /\ MayLand(p) /\ ~IsProgress(row[p]) /\ door
  /\ Lands(p, Below("gone"))
  /\ UNCHANGED <<cooling, inFront>>

\* door_gate: a fresh trip starts a cool-off.
LandCool(p) ==
  /\ MayLand(p) /\ ~IsProgress(row[p]) /\ door
  /\ cooling \/ BudgetSpent \/ Replayed(row[p])
  /\ cooling' = TRUE
  /\ Lands(p, "cool")
  /\ UNCHANGED inFront

PassGate(p) ==
  /\ MayLand(p) /\ ~IsProgress(row[p]) /\ door
  /\ ~(cooling \/ BudgetSpent \/ Replayed(row[p]))
  /\ GoTo(p, "calling")
  /\ UNCHANGED <<sent, body, acked, ledger, inFront, lock, sending, todo, row,
                 rung>>
  /\ NoRead

DoorTakes(p) ==
  /\ pc[p] = "calling"
  /\ inFront' = inFront \cup {row[p]}
  /\ Lands(p, "door")
  /\ UNCHANGED cooling

\* A live door that does not take this body now.
DoorDeclines(p) ==
  /\ pc[p] = "calling"
  /\ Lands(p, Below("mailbox"))
  /\ UNCHANGED <<cooling, inFront>>

\* A transport failure cools the route off, another error does not; a call that
\* timed out may have put the body across first.
DoorFails(p) ==
  /\ pc[p] = "calling"
  /\ cooling' \in {cooling, TRUE}
  /\ inFront' \in {inFront, inFront \cup {row[p]}}
  /\ Lands(p, Below("gone"))

\* What a rung adds to the history; nothing reads a "held" there.
Outcome(on) ==
  CASE on \in {"door", "typed"} -> {"accepted"}
    [] on \in {"hook", "cool"}  -> {"aside"}
    [] on = "paste"             -> {"pasted"}
    [] OTHER                    -> {}

Adds(m, outcomes) ==
  history' = [history EXCEPT ![m] = history[m] \cup outcomes]

\* carried_the_body: a notice is not the body.
NoticeCounts(on) == on \in {"door", "typed", "paste"}
Carried(on)      == on \in {"door", "typed"}

\* Landing::record, with what the budget and the dead-route count read of it.
Recorded(p) ==
  /\ pc[p] = "record"
  /\ Adds(row[p], Outcome(rung[p]))
  /\ recent' = IF rung[p] = "door" THEN recent \cup {row[p]} ELSE recent
  /\ holds' = IF rung[p] = "gone" /\ holds[row[p]] < DeadAttempts
              THEN [holds EXCEPT ![row[p]] = @ + 1] ELSE holds
  /\ UNCHANGED <<sent, body, acked, cooling, inFront>>
  /\ NoRead

\* Nothing answered, or the gate is shut: the later rows would fare the same.
EndsPass(on) == on \in {"mailbox", "gone", "cool"}

\* retire_if_dead, which a drain asks and a send does not.
Dead(p) == /\ rung[p] = "gone" /\ ~sending[p]
           /\ holds[row[p]] + 1 >= DeadAttempts

RecordCarried(p) ==
  /\ Carried(rung[p]) /\ Recorded(p)
  /\ GoTo(p, "stamp")
  /\ UNCHANGED <<lock, sending, todo, row, rung>>

RecordAside(p) ==
  /\ ~Carried(rung[p]) /\ ~EndsPass(rung[p]) /\ Recorded(p)
  /\ Release(p) /\ Continue(p, todo[p])

RecordLast(p) ==
  /\ EndsPass(rung[p]) /\ ~Carried(rung[p]) /\ ~Dead(p) /\ Recorded(p)
  /\ Release(p) /\ Continue(p, {})

RecordDead(p) ==
  /\ Dead(p) /\ ~Carried(rung[p]) /\ Recorded(p)
  /\ Release(p) /\ GoTo(p, "retire")
  /\ todo' = [todo EXCEPT ![p] = todo[p] \cup {row[p]}]
  /\ row' = [row EXCEPT ![p] = NoRow]
  /\ rung' = [rung EXCEPT ![p] = "none"]
  /\ UNCHANGED sending

Stamp(p) ==
  /\ pc[p] = "stamp"
  /\ acked' = acked \cup {row[p]}
  /\ Release(p) /\ Continue(p, todo[p])
  /\ UNCHANGED <<sent, body, ledger, inFront>>
  /\ NoRead

\* The lock file, the store or the door errs on the way: the attempt is over as
\* it stands, and the pass goes on to its next row.
Errs(p) ==
  /\ \/ /\ pc[p] = "next"
        /\ Continue(p, {m \in todo[p] : ~Oldest(m, todo[p])}) /\ UNCHANGED lock
     \/ /\ pc[p] \in {"admitted", "calling", "record", "stamp"}
        /\ Release(p) /\ Continue(p, todo[p])
  /\ UNCHANGED <<sent, body, acked, ledger, inFront>>
  /\ NoRead

\* retire_held: without the lock, on the rows the pass began with.
RetireRow(p, m) ==
  /\ pc[p] = "retire" /\ Oldest(m, todo[p])
  /\ Adds(m, {"route-dead"})
  /\ todo' = [todo EXCEPT ![p] = todo[p] \ {m}]
  /\ GoTo(p, IF todo[p] = {m} THEN "idle" ELSE "retire")
  /\ UNCHANGED <<sent, body, acked, holds, recent, cooling, inFront, lock,
                 sending, row, rung>>
  /\ NoRead

\* The lock goes with the process.
Crash(p) ==
  /\ pc[p] # "idle"
  /\ Continue(p, {})
  /\ lock' = IF lock = p THEN Nobody ELSE lock
  /\ UNCHANGED <<sent, body, acked, ledger, inFront>>
  /\ NoRead

-----------------------------------------------------------------------------
(* The recipient's own readers *)

NoPush == UNCHANGED <<route, sent, body, ledger, pusher>>

ReaderGoes(r, step) == rpc' = [rpc EXCEPT ![r] = step]

\* wait --me
Wait(r) ==
  /\ rpc[r] = "idle" /\ Unread # {}
  /\ batch' = [batch EXCEPT ![r] = Unread]
  /\ ReaderGoes(r, "print")
  /\ UNCHANGED <<acked, inFront>> /\ NoPush

PrintRow(r, m) ==
  /\ rpc[r] = "print" /\ Oldest(m, batch[r])
  /\ inFront' = inFront \cup {m}
  /\ ReaderGoes(r, "ack")
  /\ UNCHANGED <<acked, batch>> /\ NoPush

AckRow(r, m) ==
  /\ rpc[r] = "ack" /\ Oldest(m, batch[r])
  /\ acked' = acked \cup {m}
  /\ batch' = [batch EXCEPT ![r] = batch[r] \ {m}]
  /\ ReaderGoes(r, IF batch[r] = {m} THEN "idle" ELSE "print")
  /\ UNCHANGED inFront /\ NoPush

ReaderCrash(r) ==
  /\ rpc[r] # "idle"
  /\ batch' = [batch EXCEPT ![r] = {}]
  /\ ReaderGoes(r, "idle")
  /\ UNCHANGED <<acked, inFront>> /\ NoPush

-----------------------------------------------------------------------------
(* Time *)

NoActor == UNCHANGED <<route, mailbox, inFront, pusher, reader>>

CoolOffEnds ==
  /\ cooling
  /\ cooling' = FALSE
  /\ UNCHANGED <<history, holds, recent>> /\ NoActor

LeavesWindow(m) ==
  /\ m \in recent
  /\ recent' = recent \ {m}
  /\ UNCHANGED <<history, holds, cooling>> /\ NoActor

Attempt(p) ==
  \/ \E m \in Rows : Enter(p, m) \/ TurnedAway(p, m)
  \/ AlreadyAccepted(p) \/ AlreadyPasted(p)
  \/ LandQuiet(p) \/ LandInPane(p) \/ LandNoSession(p) \/ LandCool(p)
  \/ PassGate(p)
  \/ DoorTakes(p) \/ DoorDeclines(p) \/ DoorFails(p)
  \/ RecordCarried(p) \/ RecordAside(p) \/ RecordLast(p) \/ RecordDead(p)
  \/ Stamp(p) \/ Errs(p)
  \/ \E m \in Rows : RetireRow(p, m)

Read(r) ==
  \/ Wait(r) \/ (\E m \in Rows : PrintRow(r, m) \/ AckRow(r, m))
  \/ ReaderCrash(r)

Next ==
  \/ \E p \in Pushers :
       \/ \E m \in Rows : Append(p, m)
       \/ StartPass(p) \/ Attempt(p) \/ Crash(p)
  \/ \E r \in Readers : Read(r)
  \/ CoolOffEnds
  \/ \E m \in Rows : LeavesWindow(m)

Spec == Init /\ [][Next]_vars

-----------------------------------------------------------------------------
(* Properties *)

\* The shape of every variable, and of an attempt: it has a row from its
\* admission on, and a rung from its landing on.
TypeOK ==
  /\ hook \in BOOLEAN /\ door \in BOOLEAN /\ allowance \in Nat
  /\ sent \subseteq Rows /\ body \in [Rows -> Bodies]
  /\ acked \subseteq Rows
  /\ history \in [Rows -> SUBSET Outcomes]
  /\ holds \in [Rows -> 0..DeadAttempts]
  /\ recent \subseteq Rows /\ cooling \in BOOLEAN
  /\ inFront \subseteq Rows
  /\ lock \in Pushers \cup {Nobody}
  /\ pc \in [Pushers -> Steps]
  /\ sending \in [Pushers -> BOOLEAN]
  /\ todo \in [Pushers -> SUBSET Rows]
  /\ row \in [Pushers -> Rows \cup {NoRow}]
  /\ rung \in [Pushers -> Rungs]
  /\ \A p \in Pushers :
       /\ row[p] \in Rows <=>
            pc[p] \in {"admitted", "calling", "record", "stamp"}
       /\ rung[p] # "none" <=> pc[p] \in {"record", "stamp"}
  /\ rpc \in [Readers -> ReaderSteps]
  /\ batch \in [Readers -> SUBSET Rows]

\* "one accepted-by-harness row, or one row whose detail names a door, anywhere
\* in the message's history, keeps it out" (bus.rs:320-323): what a drain took
\* as held before it had the lock is not pushed once the push is on record.
RecordedPushIsFinal ==
  [][\A p \in Pushers : DoorTakes(p) => "accepted" \notin history[row[p]]]_vars

\* "How many door pushes one route may take inside one window"
\* (deliver.rs:266-270), whoever pushes: no two of the recorded ones say the
\* same, and together they stay within the allowance.
WindowKeepsItsRails ==
  /\ Cardinality(recent) <= allowance
  /\ \A m, n \in recent : body[m] = body[n] => m = n

\* A row is stamped taken only once its body is in front of the recipient: "the
\* paste rung leaves a notice, never the body, so it does not ack the row"
\* (deliver.rs:80-81).
StampedRowWasCarried == acked \subseteq inFront

\* A row the drain gave up is one it could not deliver, and "stays unread for
\* boop wait --me" (1_dead_route.rs:102, ident.rs RouteDead).
DeadRowStaysReadable ==
  \A m \in sent :
    "route-dead" \in history[m] => m \in acked \cup inFront \cup Unread

=============================================================================
