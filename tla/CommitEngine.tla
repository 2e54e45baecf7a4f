---------------------------- MODULE CommitEngine ----------------------------
(***************************************************************************)
(* crates/soopy/src/_7f_commit.rs: the durable application of sealed       *)
(* stages to one source root.  commit and recover run under a root-scoped  *)
(* lock; around every step the process may be killed, an editor may write  *)
(* a target, and the power may fail with writes still in the cache of the  *)
(* device.                                                                 *)
(*                                                                         *)
(* An operation is [kind, from, to, old, new]: create and replace have     *)
(* from = to, a create's old and a delete's new are Absent, a move keeps   *)
(* its content.  The payload blobs of a stage are one file, read and       *)
(* verified together.                                                      *)
(***************************************************************************)
EXTENDS WriteCache, Sequences, FiniteSets

CONSTANTS
    Procs,      \* processes that call the engine
    Nobody,     \* no process, no stage
    Stages,     \* sealed stages of this root
    Ops,        \* [Stages -> Seq(operation)]
    Tree,       \* the target files at the start: [path -> content]
    DirOf,      \* the directory of each target path
    Homes,      \* the directories that carry its name and the names of those
                \* above it which a call makes
    Edited,     \* the content an editor leaves
    Editable,   \* the target paths an editor writes
    MaxKills, MaxLosses, MaxEdits,     \* bounds of the faults of a kind
    MaxFaults                          \* and of all together

Paths == DOMAIN Tree

\* What the planner seals (group_actions): every path of a stage belongs to one
\* of its operations, and contents are those of whole files.
WellFormed(op) ==
    /\ op.kind \in {"create", "replace", "delete", "move"}
    /\ op.from \in Paths /\ op.to \in Paths
    /\ IF op.kind = "move" THEN op.from # op.to /\ op.old = op.new
                           ELSE op.from = op.to
    /\ op.old = Absent <=> op.kind = "create"
    /\ op.new = Absent <=> op.kind = "delete"
    /\ {op.old, op.new} \cap {Torn, Edited} = {}

\* What a file may hold: what the sealed stages and the tree name, and what
\* faults leave.
Contents ==
    {Absent, Torn, Edited, "whole"} \cup {Tree[p] : p \in Paths} \cup
    UNION {{Ops[s][i].old : i \in DOMAIN Ops[s]} \cup
           {Ops[s][i].new : i \in DOMAIN Ops[s]} : s \in Stages}

PathsOf(op) == {op.from, op.to}
Apart(op, other) == PathsOf(op) \cap PathsOf(other) = {}

\* Two stages that have a path in common.
Cross(s, t) ==
    s # t /\ \E i \in DOMAIN Ops[s] : \E j \in DOMAIN Ops[t] : ~Apart(Ops[s][i], Ops[t][j])

ASSUME CommitAssumption ==
    /\ Nobody \notin Procs \cup Stages
    /\ {"state", "target"} \subseteq Devices
    /\ Editable \subseteq Paths
    /\ \A p \in Paths : /\ DirOf[p] \in Homes[p]
                         /\ Homes[p] \cap {"blobs", "journals", "receipts"} = {}
    /\ Absent \notin {Torn, Edited, "whole"} /\ Torn # "whole"
    /\ \A s \in Stages :
         /\ DOMAIN Ops[s] \subseteq Nat
         /\ \A i \in DOMAIN Ops[s] : WellFormed(Ops[s][i])
         /\ \A i, j \in DOMAIN Ops[s] : i # j => Apart(Ops[s][i], Ops[s][j])

VARIABLES
    d,          \* the files, seen, durable and in between
    shared,     \* target and state root are on one device
    lock,       \* the holder of the root lock
    at, stage, todo, dirs,  \* per process: next step, stage, operations left,
                            \* parent directories touched
    recovering, \* per process: the call is a recover
    \* What the properties speak about.
    newest,     \* the stage whose operations were started last
    redone,     \* stages started again after their receipt was written
    answered,   \* the stage whose Ok still stands and how it was reached
    skipped,    \* a recovery built on a journal or a finished operation
                \* behind which no one had put a fence, or an operation made
                \* directories whose names its call does not sync
    entangled,  \* a call was begun on paths of a journal of another stage that
                \* was still there, or came back with a power loss
    touched,    \* target paths an editor wrote
    raced,      \* those written since the lock was taken
    kills, losses, edits

call   == <<lock, at, stage, todo, dirs, recovering>>
ghosts == <<newest, redone, answered, skipped, entangled>>
faults == <<touched, kills, losses, edits>>
vars   == <<d, shared, call, ghosts, faults, raced>>

-----------------------------------------------------------------------------
(* Files, directories, devices *)

Journal(s) == <<"journal", s>>
Receipt(s) == <<"receipt", s>>
Payload(s) == <<"payload", s>>
Target(p)  == <<"target", p>>
Files == {Target(p) : p \in Paths} \cup
         UNION {{Journal(s), Receipt(s), Payload(s)} : s \in Stages}

StateDevice  == "state"
TargetDevice == IF shared THEN "state" ELSE "target"

Seen(p) == d.seen[Target(p)]

\* Renaming a published file into place.
Publish(dd, f, v, dir, dev) == Write(dd, One(f, v), TRUE, {dir}, dev)

\* cross_root_level: a fence orders one device, two need a full flush.
CrossRoot(dd, dir, dev) == IF shared THEN Fence(dd, dir, dev) ELSE Flush(dd, dir, dev)

-----------------------------------------------------------------------------
(* Operations against the target tree *)

DoneIn(files, op) ==
    /\ files[Target(op.to)] = op.new
    /\ op.kind = "move" => files[Target(op.from)] = Absent

PendingIn(files, op) ==
    /\ files[Target(op.from)] = op.old
    /\ op.kind = "move" => files[Target(op.to)] = Absent

AllDone(files, s) == \A i \in DOMAIN Ops[s] : DoneIn(files, Ops[s][i])
Preflight(files, s) == \A i \in DOMAIN Ops[s] : PendingIn(files, Ops[s][i])

\* apply_operation: a rename or an unlink needs its source, a publish does not.
CanApply(op) == op.kind \in {"move", "delete"} => Seen(op.from) # Absent

\* ensure_parent_dirs makes what is missing above a file that is created or moved
\* to.  The operation reaches the device with the names of those directories.
Carriers(op) ==
    (IF op.kind \in {"move", "delete"} THEN {DirOf[op.from]} ELSE {}) \cup
    (IF op.kind = "delete" THEN {} ELSE Homes[op.to])

\* What the call syncs for it: the directories of its paths and the root.
Swept(op) == {DirOf[op.from], DirOf[op.to]}
Named(op) == Carriers(op) \subseteq Swept(op) \cup {"root"}

NamedStage(s) == \A i \in DOMAIN Ops[s] : Named(Ops[s][i])

Moved(op) == Over(One(Target(op.from), Absent), One(Target(op.to), Seen(op.from)))

\* Mutant: a move copies and leaves its source.
MoveCopies(op) ==
    Write(d, One(Target(op.to), op.new), op.kind # "delete", Carriers(op), TargetDevice)

Effect(op) ==
    CASE op.kind = "move" -> Write(d, Moved(op), FALSE, Carriers(op), TargetDevice)
      [] op.kind = "delete" ->
           Write(d, One(Target(op.from), Absent), FALSE, Carriers(op), TargetDevice)
      [] OTHER -> Write(d, One(Target(op.to), op.new), TRUE, Carriers(op), TargetDevice)

Init ==
    /\ shared \in BOOLEAN
    /\ d = Settled([f \in Files |-> IF f[1] = "target" THEN Tree[f[2]] ELSE Absent])
    /\ lock = Nobody
    /\ at = [p \in Procs |-> "idle"]
    /\ stage = [p \in Procs |-> Nobody]
    /\ todo = [p \in Procs |-> {}]
    /\ dirs = [p \in Procs |-> {}]
    /\ recovering = [p \in Procs |-> FALSE]
    /\ newest = Nobody /\ redone = {} /\ skipped = FALSE /\ entangled = FALSE
    /\ answered = [stage |-> Nobody, by |-> "none"]
    /\ touched = {} /\ raced = {} /\ kills = 0 /\ losses = 0 /\ edits = 0

-----------------------------------------------------------------------------
(* commit *)

Enter(p, s, step, left, rec) ==
    /\ lock' = p
    /\ at' = [at EXCEPT ![p] = step]
    /\ stage' = [stage EXCEPT ![p] = s]
    /\ todo' = [todo EXCEPT ![p] = left]
    /\ dirs' = [dirs EXCEPT ![p] = {}]
    /\ recovering' = [recovering EXCEPT ![p] = rec]
    /\ raced' = {}

\* The receipt of a stage that is still in place answers for it; one whose
\* stage was rolled back in full lets the stage be applied again.
ReceiptStands(s) == d.seen[Receipt(s)] = "whole" /\ AllDone(d.seen, s)

\* A journal of the stage, or of one that shares a path with it, is there.
Unfinished(s) ==
    \E t \in Stages : (t = s \/ Cross(s, t)) /\ d.seen[Journal(t)] # Absent

CommitFromReceipt(p, s) ==
    /\ at[p] = "idle" /\ lock = Nobody
    /\ ReceiptStands(s)
    /\ answered' = [stage |-> s, by |-> IF Unfinished(s) THEN "leftover" ELSE "receipt"]
    /\ UNCHANGED <<d, shared, call, newest, redone, skipped, entangled, faults, raced>>

\* Every other early return leaves all as it was: a lock that is held, a
\* receipt that cannot be read or has diverged, a journal in the way, a
\* preflight that fails.
CommitStart(p, s) ==
    /\ at[p] = "idle" /\ lock = Nobody
    /\ d.seen[Receipt(s)] # Torn /\ ~ReceiptStands(s)
    /\ d.seen[Journal(s)] = Absent
    /\ Preflight(d.seen, s)
    /\ Enter(p, s, "payload", DOMAIN Ops[s], FALSE)
    /\ entangled' = (entangled \/ \E t \in Stages : Cross(s, t) /\ d.seen[Journal(t)] # Absent)
    /\ UNCHANGED <<d, shared, newest, redone, answered, skipped, faults>>

\* The operations of s are about to be applied; an earlier answer is void.
Begun(s) ==
    /\ newest' = s
    /\ redone' = IF d.seen[Receipt(s)] = Absent THEN redone ELSE redone \cup {s}
    /\ answered' = [stage |-> Nobody, by |-> "none"]

Goto(p, step) ==
    /\ at' = [at EXCEPT ![p] = step]
    /\ UNCHANGED <<lock, stage, todo, dirs, recovering>>

\* Mutant: the lock file outlives the process.
LeaveLocked(p) ==
    /\ lock' = lock
    /\ at' = [at EXCEPT ![p] = "idle"]
    /\ stage' = [stage EXCEPT ![p] = Nobody]
    /\ todo' = [todo EXCEPT ![p] = {}]
    /\ dirs' = [dirs EXCEPT ![p] = {}]
    /\ recovering' = [recovering EXCEPT ![p] = FALSE]

Leave(p) ==
    /\ lock' = Nobody
    /\ at' = [at EXCEPT ![p] = "idle"]
    /\ stage' = [stage EXCEPT ![p] = Nobody]
    /\ todo' = [todo EXCEPT ![p] = {}]
    /\ dirs' = [dirs EXCEPT ![p] = {}]
    /\ recovering' = [recovering EXCEPT ![p] = FALSE]

\* materialize_payloads: a blob that is there is verified, not written again.
WritePayload(p) ==
    LET f == Payload(stage[p]) IN
    /\ at[p] = "payload"
    /\ CASE d.seen[f] = Absent -> d' = Publish(d, f, "whole", "blobs", StateDevice)
                                  /\ Goto(p, "payload_fence")
         [] d.seen[f] = "whole" -> d' = d /\ Goto(p, "payload_fence")
         [] OTHER -> d' = d /\ Leave(p)
    /\ UNCHANGED <<shared, ghosts, faults, raced>>

\* Mutant: the payloads are handed to the device in no order.
PayloadSynced(p) ==
    /\ at[p] = "payload_fence"
    /\ d' = SyncDirs(d, {"blobs"})
    /\ Goto(p, "journal")
    /\ UNCHANGED <<shared, ghosts, faults, raced>>

PayloadFence(p) ==
    /\ at[p] = "payload_fence"
    /\ d' = Fence(d, "blobs", StateDevice)
    /\ Goto(p, "journal")
    /\ UNCHANGED <<shared, ghosts, faults, raced>>

WriteJournal(p) ==
    LET s == stage[p] IN
    /\ at[p] = "journal"
    /\ d' = Publish(d, Journal(s), "whole", "journals", StateDevice)
    /\ Begun(s)
    /\ Goto(p, "journal_fence")
    /\ UNCHANGED <<shared, skipped, entangled, faults, raced>>

\* Mutant: a fence also where the journal and the targets are on two devices.
JournalFenced(p) ==
    /\ at[p] = "journal_fence"
    /\ d' = Fence(d, "journals", StateDevice)
    /\ Goto(p, "apply")
    /\ UNCHANGED <<shared, ghosts, faults, raced>>

JournalFence(p) ==
    /\ at[p] = "journal_fence"
    /\ d' = CrossRoot(d, "journals", StateDevice)
    /\ Goto(p, "apply")
    /\ UNCHANGED <<shared, ghosts, faults, raced>>

\* apply_journal: one operation, in the order of the journal.
Apply(p) ==
    LET s  == stage[p]
        i  == CHOOSE k \in todo[p] : \A n \in todo[p] : k <= n
        op == Ops[s][i]
    IN
    /\ at[p] = "apply" /\ todo[p] # {}
    /\ IF CanApply(op)
       THEN /\ d' = Effect(op)
            /\ todo' = [todo EXCEPT ![p] = @ \ {i}]
            /\ dirs' = [dirs EXCEPT ![p] = @ \cup Swept(op)]
            /\ skipped' = (skipped \/ ~Named(op))
            /\ UNCHANGED <<lock, at, stage, recovering>>
       ELSE d' = d /\ Leave(p) /\ UNCHANGED skipped
    /\ UNCHANGED <<shared, newest, redone, answered, entangled, faults, raced>>

SyncTargets(p) ==
    /\ at[p] = "apply" /\ todo[p] = {}
    /\ d' = SyncDirs(d, dirs[p])
    /\ Goto(p, IF dirs[p] = {} THEN "receipt" ELSE "target_fence")
    /\ UNCHANGED <<shared, ghosts, faults, raced>>

\* Mutant: the flush of the receipt is trusted to settle the targets too.
TargetUnfenced(p) ==
    /\ at[p] = "target_fence"
    /\ d' = d
    /\ Goto(p, "receipt")
    /\ UNCHANGED <<shared, ghosts, faults, raced>>

\* Nothing written after this point may reach the device before the targets.
TargetFence(p) ==
    /\ at[p] = "target_fence"
    /\ d' = CrossRoot(d, "root", TargetDevice)
    /\ Goto(p, "receipt")
    /\ UNCHANGED <<shared, ghosts, faults, raced>>

WriteReceipt(p) ==
    /\ at[p] = "receipt"
    /\ d' = Publish(d, Receipt(stage[p]), "whole", "receipts", StateDevice)
    /\ Goto(p, "receipt_flush")
    /\ UNCHANGED <<shared, ghosts, faults, raced>>

\* Mutant: the receipt is ordered, not flushed.
ReceiptFenced(p) ==
    /\ at[p] = "receipt_flush"
    /\ d' = Fence(d, "receipts", StateDevice)
    /\ Goto(p, "remove_journal")
    /\ UNCHANGED <<shared, ghosts, faults, raced>>

ReceiptFlush(p) ==
    /\ at[p] = "receipt_flush"
    /\ d' = Flush(d, "receipts", StateDevice)
    /\ Goto(p, "remove_journal")
    /\ UNCHANGED <<shared, ghosts, faults, raced>>

\* remove_journal is not synced; the call answers Ok.
RemoveJournal(p) ==
    LET f == Journal(stage[p]) IN
    /\ at[p] = "remove_journal"
    /\ d' = IF d.seen[f] = Absent THEN d
            ELSE Write(d, One(f, Absent), FALSE, {"journals"}, StateDevice)
    /\ answered' = [stage |-> stage[p],
                    by |-> IF recovering[p] THEN "recover" ELSE "commit"]
    /\ Leave(p)
    /\ UNCHANGED <<shared, newest, redone, skipped, entangled, faults, raced>>

-----------------------------------------------------------------------------
(* recover *)

\* No fence lies behind some write that set the file.
Unordered(f) ==
    \E k \in DOMAIN d.pend :
       LET w == d.pend[k] IN
       f \in DOMAIN w.upd /\ (w.left # {} \/ w.ord = d.epoch[w.dev])

\* Mutant: what is not done is taken as still to do.
RecoverBlindly(p, s) ==
    LET done == {i \in DOMAIN Ops[s] : DoneIn(d.seen, Ops[s][i])} IN
    /\ at[p] = "idle" /\ lock = Nobody
    /\ d.seen[Journal(s)] = "whole"
    /\ d.seen[Payload(s)] = "whole"
    /\ Enter(p, s, "apply", DOMAIN Ops[s] \ done, TRUE)
    /\ skipped' = (skipped \/ Unordered(Journal(s)) \/ \E i \in done :
                     \E path \in PathsOf(Ops[s][i]) : Unordered(Target(path)))
    /\ entangled' = (entangled \/ \E t \in Stages : Cross(s, t) /\ d.seen[Journal(t)] # Absent)
    /\ Begun(s)
    /\ UNCHANGED <<d, shared, faults>>

\* A journal or payload that is missing or cannot be read, and an operation
\* that is neither done nor pending, end the call with an error.
RecoverStart(p, s) ==
    LET done == {i \in DOMAIN Ops[s] : DoneIn(d.seen, Ops[s][i])} IN
    /\ at[p] = "idle" /\ lock = Nobody
    /\ d.seen[Journal(s)] = "whole"
    /\ d.seen[Payload(s)] = "whole"
    /\ \A i \in DOMAIN Ops[s] \ done : PendingIn(d.seen, Ops[s][i])
    /\ Enter(p, s, "apply", DOMAIN Ops[s] \ done, TRUE)
    /\ skipped' = (skipped \/ Unordered(Journal(s)) \/ \E i \in done :
                     \E path \in PathsOf(Ops[s][i]) : Unordered(Target(path)))
    /\ entangled' = (entangled \/ \E t \in Stages : Cross(s, t) /\ d.seen[Journal(t)] # Absent)
    /\ Begun(s)
    /\ UNCHANGED <<d, shared, faults>>

-----------------------------------------------------------------------------
(* Faults *)

MoreFaults == kills + losses + edits < MaxFaults

\* The process ends where it is: a signal, an I/O error, a failpoint.  The
\* lock goes with it.
Kill(p) ==
    /\ at[p] # "idle" /\ kills < MaxKills /\ MoreFaults
    /\ kills' = kills + 1
    /\ Leave(p)
    /\ UNCHANGED <<d, shared, ghosts, touched, raced, losses, edits>>

PowerLoss ==
    /\ losses < MaxLosses /\ MoreFaults
    /\ losses' = losses + 1
    /\ \E files \in Images(d) : d' = Settled(files)
    /\ lock' = Nobody
    /\ at' = [p \in Procs |-> "idle"]
    /\ stage' = [p \in Procs |-> Nobody]
    /\ todo' = [p \in Procs |-> {}]
    /\ dirs' = [p \in Procs |-> {}]
    /\ recovering' = [p \in Procs |-> FALSE]
    /\ UNCHANGED <<shared, ghosts, touched, raced, kills, edits>>

\* A writer that takes no lock saves a file in place.
Edit(path) ==
    /\ edits < MaxEdits /\ MoreFaults
    /\ edits' = edits + 1
    /\ d' = Write(d, One(Target(path), Edited), FALSE, Homes[path], TargetDevice)
    /\ touched' = touched \cup {path}
    /\ raced' = raced \cup {path}
    /\ answered' = [stage |-> Nobody, by |-> "none"]
    /\ UNCHANGED <<shared, call, newest, redone, skipped, entangled, kills, losses>>

-----------------------------------------------------------------------------
Step(p) ==
    \/ \E s \in Stages : CommitFromReceipt(p, s) \/ CommitStart(p, s) \/ RecoverStart(p, s)
    \/ WritePayload(p) \/ PayloadFence(p) \/ WriteJournal(p) \/ JournalFence(p)
    \/ Apply(p) \/ SyncTargets(p) \/ TargetFence(p)
    \/ WriteReceipt(p) \/ ReceiptFlush(p) \/ RemoveJournal(p)

Next ==
    \/ \E p \in Procs : Step(p) \/ Kill(p)
    \/ \E path \in Editable : Edit(path)
    \/ PowerLoss

Spec == Init /\ [][Next]_vars

-----------------------------------------------------------------------------
(* Properties *)

\* Types of the files and of a call in progress: the lock is held exactly by
\* the process that is inside commit or recover (RootLock).
TypeOK ==
    /\ d.seen \in [Files -> Contents]
    /\ DOMAIN d.disk = Files
    /\ lock \in Procs \cup {Nobody}
    /\ \A p \in Procs : /\ (lock = p) <=> (at[p] # "idle")
                        /\ (stage[p] # Nobody) <=> (at[p] # "idle")
                        /\ todo[p] \subseteq IF stage[p] = Nobody THEN {} ELSE DOMAIN Ops[stage[p]]
    /\ newest \in Stages \cup {Nobody} /\ redone \subseteq Stages
    /\ touched \subseteq Paths /\ raced \subseteq touched

\* Fence "payloads before the journal that names them" (materialize_payloads,
\* README "Device syncs"): whatever a power loss leaves, a journal that can
\* be read has payloads that can be read, also when the payloads were found
\* in place, published by a process that was killed before its fence.
PayloadBeforeJournal ==
    \A files \in Images(d) : \A s \in Stages :
        files[Journal(s)] = "whole" => files[Payload(s)] = "whole"

\* Fence "journal before any target is touched" (write_journal) and the order
\* of receipt and journal removal: whatever a power loss leaves, a tree that
\* is neither before nor after the stage started last has its journal to
\* finish it from.
HalfAppliedIsLogged ==
    (newest # Nobody /\ touched = {} /\ ~skipped /\ ~entangled) =>
        \A files \in Images(d) :
            \/ AllDone(files, newest) \/ Preflight(files, newest)
            \/ files[Journal(newest)] = "whole"

\* Fence "targets before the receipt claiming them" (apply_journal): a first
\* receipt never reaches the device before the work it claims, on one device
\* or on two, if the work has no directory whose name no one syncs.
ReceiptHasItsWork ==
    (newest \in Stages \ redone /\ touched = {} /\ ~skipped) =>
        \A files \in Images(d) :
            files[Receipt(newest)] = "whole" => AllDone(files, newest)

\* CommitReceipt, "The durable result of a successful commit or a completed
\* recovery": once a call has answered, no power loss takes the result back.
\* That is so of a call that ran to its end, and of one that found the receipt
\* when no journal was left there, but not of one that made directories whose
\* names no one syncs (ensure_parent_dirs makes them all, parent_of and the root
\* are synced).  (A writer that slips in after the preflight is carried along by
\* a move, which the README's "Transaction visibility and recovery" allows.)
Lasting ==
    \/ answered.by = "commit" /\ NamedStage(answered.stage)
    \/ answered.by = "recover" /\ ~skipped
    \/ answered.by = "receipt" /\ ~skipped /\ ~entangled

CommittedIsDurable ==
    (Lasting /\ touched = {}) =>
        \A files \in Images(d) : AllDone(files, answered.stage)

\* classify_operation: from whichever step a process or the power failed, the
\* operations of a stage with a journal are each done or still to do, so that
\* recover can finish it, unless someone else wrote a target or the bytes of
\* one were lost.
JournalCanFinish ==
    ~skipped /\ ~entangled =>
        \A files \in Images(d) : \A s \in Stages : files[Journal(s)] = "whole" =>
            \A i \in DOMAIN Ops[s] :
                LET op == Ops[s][i] IN
                \/ DoneIn(files, op) \/ PendingIn(files, op)
                \/ PathsOf(op) \cap touched # {}
                \/ \E path \in PathsOf(op) : files[Target(path)] = Torn

\* Preflight and the classification of recover: no call overwrites or removes
\* a file that an editor saved before the call took the lock.
KeepsEarlierEdits ==
    [][\A path \in Paths :
          (Seen(path) = Edited /\ Seen(path)' # Edited /\ losses' = losses)
             => path \in raced]_vars

\* What the comment of apply_journal says of every receipt, that of recover
\* included: "Nothing written after this point may reach the device before
\* the targets do, which is what keeps a receipt from outliving its work."
ReceiptNeverOutlivesWork ==
    (newest \in Stages \ redone /\ touched = {}) =>
        \A files \in Images(d) :
            files[Receipt(newest)] = "whole" => AllDone(files, newest)
=============================================================================
