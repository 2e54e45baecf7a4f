----------------------------- MODULE HailLedger -----------------------------
(***************************************************************************)
(* What a lane's supervisors, one after the other, promise the senders of  *)
(* mail, whatever the turns, claims and deaths in between: a hail is acked *)
(* only once the harness has it, an acked hail is never handed over again, *)
(* and one process hands it over at most once.  There is one exception: a  *)
(* steer that a process has given up waiting for may be injected as long   *)
(* as the process lives, besides the hand-over that makes up for it.       *)
(***************************************************************************)
EXTENDS FiniteSets

CONSTANT Hails

VARIABLES
  sent,          \* hails in the lane's mailbox
  acked,         \* hails stamped as delivered
  delivered,     \* hails the present process handed to the harness
  doubted,       \* hails it steered without an answer
  everDelivered, \* hails the harness was given, by whatever process
  toAck          \* hails just handed over whose ack was not tried yet

ledger == <<sent, acked, delivered, doubted, everDelivered, toAck>>

Init ==
  /\ sent = {} /\ acked = {}
  /\ delivered = {} /\ doubted = {}
  /\ everDelivered = {} /\ toAck = {}

Send(h) ==
  /\ sent' = sent \cup {h}
  /\ UNCHANGED <<acked, delivered, doubted, everDelivered, toAck>>

HandOver(hails) ==
  /\ hails \subseteq sent \ (acked \cup delivered)
  /\ delivered' = delivered \cup hails
  /\ everDelivered' = everDelivered \cup hails
  /\ toAck' = hails
  /\ UNCHANGED <<sent, acked, doubted>>

\* The steer of a hail that was not handed over gets no answer.
Doubt(h) ==
  /\ h \in sent \ (acked \cup delivered \cup doubted)
  /\ doubted' = doubted \cup {h}
  /\ UNCHANGED <<sent, acked, delivered, everDelivered, toAck>>

InjectLate(h) ==
  /\ h \in doubted
  /\ everDelivered' = everDelivered \cup {h}
  /\ UNCHANGED <<sent, acked, delivered, doubted, toAck>>

\* The one ack of a hand-over, which may fail.
Acknowledge(h) ==
  /\ h \in toAck
  /\ toAck' = toAck \ {h}
  /\ acked' \in {acked, acked \cup {h}}
  /\ UNCHANGED <<sent, delivered, doubted, everDelivered>>

ProcessGone ==
  /\ delivered' = {} /\ doubted' = {} /\ toAck' = {}
  /\ UNCHANGED <<sent, acked, everDelivered>>

Next ==
  \/ \E h \in Hails : Send(h) \/ Acknowledge(h) \/ Doubt(h) \/ InjectLate(h)
  \/ \E hails \in SUBSET Hails : HandOver(hails)
  \/ ProcessGone

Spec == Init /\ [][Next]_ledger
=============================================================================
