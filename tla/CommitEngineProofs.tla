--------------------------- MODULE CommitEngineProofs ---------------------------
(***************************************************************************)
(* Proofs about CommitEngine, for any processes, stages, operations and    *)
(* target tree, any number of kills, power losses and edits: a journal     *)
(* finds its payloads, a receipt its work, a commit that answered is       *)
(* durable, no edit made before a call is lost to it, a tree that is half  *)
(* applied has its journal, and a journal can be finished.                 *)
(* IInv speaks of the call in progress, ChainInv of the journals that      *)
(* earlier calls have left.                                                *)
(***************************************************************************)
EXTENDS CommitEngine, WriteCacheProofs

TargetFiles  == {Target(p) : p \in Paths}
JournalFiles == {Journal(s) : s \in Stages}
ReceiptFiles == {Receipt(s) : s \in Stages}
PayloadFiles == {Payload(s) : s \in Stages}

\* The steps of a call by what has happened before them.
Begin   == {"payload", "payload_fence", "journal", "journal_fence"}
Working == {"journal_fence", "apply", "target_fence", "receipt", "receipt_flush",
            "remove_journal"}
Ended   == {"target_fence", "receipt", "receipt_flush", "remove_journal"}
Unreceipted == {"journal_fence", "apply", "target_fence", "receipt"}

DeviceOf(one) == IF one THEN "state" ELSE "target"

\* A write of the engine or an editor to the file f.
Proper(upd, left, dev, f, one) ==
  \/ f \in TargetFiles /\ dev = DeviceOf(one)
  \/ f \in PayloadFiles /\ dev = "state" /\ upd[f] = "whole" /\ left \subseteq {"blobs"}
  \/ f \in ReceiptFiles /\ dev = "state" /\ upd[f] = "whole"
  \/ f \in JournalFiles /\ dev = "state" /\ left \subseteq {"journals"}

Kept(dd, one) ==
  /\ StoreOK(dd) /\ DOMAIN dd.disk = Files /\ IsMap(dd.seen)
  /\ \A k \in All(dd) : \A f \in DOMAIN dd.pend[k].upd :
       Proper(dd.pend[k].upd, dd.pend[k].left, dd.pend[k].dev, f, one)
  /\ one \in BOOLEAN
  /\ ~one => dd.epoch["target"] = 0

ContentsOK(dd) == \A h \in Images(dd) : \A f \in Files : h[f] \in Contents

\* The name is settled, or a fence on the one device lies behind it.
Secure(dd, f, one) ==
  IF one
  THEN Behind(dd, f, dd.seen[f], "state") /\ Reachable(dd, f, {}, "state")
  ELSE Fixed(dd, f, dd.seen[f])

Adds(dd, e, upd, body, left, dev, one) ==
  /\ e = Write(dd, upd, body, left, dev)
  /\ left # {} /\ dev \in Devices /\ DOMAIN upd \subseteq Files
  /\ \A f \in DOMAIN upd : Proper(upd, left, dev, f, one) /\ upd[f] \in Contents
-----------------------------------------------------------------------------

LEMMA NamesApart ==
  /\ \A p, q : Target(p) = Target(q) => p = q
  /\ \A s, t : /\ Journal(s) = Journal(t) => s = t
               /\ Receipt(s) = Receipt(t) => s = t
               /\ Payload(s) = Payload(t) => s = t
               /\ Journal(s) # Receipt(t) /\ Journal(s) # Payload(t) /\ Receipt(s) # Payload(t)
               /\ Target(s) # Journal(t) /\ Target(s) # Receipt(t) /\ Target(s) # Payload(t)
  BY DEF Target, Journal, Receipt, Payload

LEMMA KindsApart ==
  /\ TargetFiles \cap JournalFiles = {} /\ TargetFiles \cap ReceiptFiles = {}
  /\ TargetFiles \cap PayloadFiles = {} /\ JournalFiles \cap ReceiptFiles = {}
  /\ JournalFiles \cap PayloadFiles = {} /\ ReceiptFiles \cap PayloadFiles = {}
  /\ Files = TargetFiles \cup JournalFiles \cup ReceiptFiles \cup PayloadFiles
<1>1. Files = TargetFiles \cup JournalFiles \cup ReceiptFiles \cup PayloadFiles
  BY DEF Files, TargetFiles, JournalFiles, ReceiptFiles, PayloadFiles
<1>2. \A s, t : /\ Journal(s) # Receipt(t) /\ Journal(s) # Payload(t) /\ Receipt(s) # Payload(t)
                /\ Target(s) # Journal(t) /\ Target(s) # Receipt(t) /\ Target(s) # Payload(t)
  BY NamesApart
<1>3. TargetFiles \cap JournalFiles = {} /\ TargetFiles \cap ReceiptFiles = {}
  BY <1>2 DEF TargetFiles, JournalFiles, ReceiptFiles
<1>4. TargetFiles \cap PayloadFiles = {} /\ JournalFiles \cap ReceiptFiles = {}
  BY <1>2 DEF TargetFiles, JournalFiles, ReceiptFiles, PayloadFiles
<1>5. JournalFiles \cap PayloadFiles = {} /\ ReceiptFiles \cap PayloadFiles = {}
  BY <1>2 DEF JournalFiles, ReceiptFiles, PayloadFiles
<1> QED
  BY <1>1, <1>3, <1>4, <1>5

LEMMA DevicesGiven ==
  /\ "state" \in Devices /\ "target" \in Devices
  /\ \A one \in BOOLEAN : DeviceOf(one) \in Devices
  BY CommitAssumption DEF DeviceOf

\* All writes of a name are on one device.
LEMMA OneDevice ==
  ASSUME NEW f, NEW one, NEW u1, NEW l1, NEW d1, NEW u2, NEW l2, NEW d2,
         Proper(u1, l1, d1, f, one), Proper(u2, l2, d2, f, one)
  PROVE  d1 = d2
  BY KindsApart DEF Proper

LEMMA TightKept ==
  ASSUME NEW dd, NEW one, Kept(dd, one), NEW e, Tighter(dd, e),
         ~one => e.epoch["target"] = 0
  PROVE  Kept(e, one) /\ (ContentsOK(dd) => ContentsOK(e))
<1>1. /\ StoreOK(e) /\ DOMAIN e.disk = Files /\ IsMap(e.seen)
      /\ Images(e) \subseteq Images(dd)
  BY DEF Kept, Tighter
<1>2. ASSUME NEW k \in All(e), NEW f \in DOMAIN e.pend[k].upd
      PROVE  Proper(e.pend[k].upd, e.pend[k].left, e.pend[k].dev, f, one)
  <2>1. /\ k \in All(dd) /\ e.pend[k].upd = dd.pend[k].upd /\ e.pend[k].dev = dd.pend[k].dev
        /\ e.pend[k].left \subseteq dd.pend[k].left
    BY DEF Tighter
  <2>2. Proper(dd.pend[k].upd, dd.pend[k].left, dd.pend[k].dev, f, one)
    BY <2>1 DEF Kept
  <2> QED
    BY <2>1, <2>2 DEF Proper
<1> QED
  BY <1>1, <1>2 DEF Kept, ContentsOK

LEMMA TightSame ==
  ASSUME NEW dd, StoreOK(dd)
  PROVE  Tighter(dd, dd)
  BY DEF Tighter

LEMMA AddsFits ==
  ASSUME NEW dd, NEW one, Kept(dd, one), NEW e, NEW upd, NEW body, NEW left, NEW dev,
         Adds(dd, e, upd, body, left, dev, one)
  PROVE  /\ Fits(dd, upd, dev) /\ StoreOK(dd) /\ left # {}
         /\ e = Write(dd, upd, body, left, dev) /\ StoreOK(e)
         /\ Wrote(dd, e, NextSerial(dd), upd, body, left, dev)
<1>1. \A k \in All(dd) : DOMAIN upd \cap DOMAIN dd.pend[k].upd # {} => dd.pend[k].dev = dev
  BY OneDevice DEF Adds, Kept
<1>2. Fits(dd, upd, dev)
  BY <1>1 DEF Fits, Adds, Kept
<1> QED
  BY <1>2, WriteStore, WriteFields DEF Adds, Kept, StoreOK

LEMMA AddsKept ==
  ASSUME NEW dd, NEW one, Kept(dd, one), NEW e, NEW upd, NEW body, NEW left, NEW dev,
         Adds(dd, e, upd, body, left, dev, one)
  PROVE  Kept(e, one) /\ (ContentsOK(dd) => ContentsOK(e))
<1>1. /\ Fits(dd, upd, dev) /\ StoreOK(dd) /\ left # {}
      /\ e = Write(dd, upd, body, left, dev) /\ StoreOK(e)
      /\ Wrote(dd, e, NextSerial(dd), upd, body, left, dev)
  BY AddsFits
<1>2. ASSUME NEW k \in All(e), NEW f \in DOMAIN e.pend[k].upd
      PROVE  Proper(e.pend[k].upd, e.pend[k].left, e.pend[k].dev, f, one)
  <2>1. CASE k \in All(dd)
    BY <1>1, <2>1 DEF Wrote, Kept
  <2>2. CASE k = NextSerial(dd)
    BY <1>1, <2>2 DEF Wrote, Adds
  <2> QED
    BY <1>1, <2>1, <2>2 DEF Wrote
<1>a. IsMap(e.seen)
  <2>1. e.seen = Over(upd, dd.seen)
    BY <1>1 DEF Wrote
  <2> QED
    BY <2>1 DEF Over, IsMap
<1>3. Kept(e, one)
  BY <1>1, <1>2, <1>a DEF Kept, Wrote
<1>4. ASSUME ContentsOK(dd), NEW h \in Images(e), NEW f \in Files
      PROVE  h[f] \in Contents
  <2>1. CASE h \in Images(dd)
    BY <1>4, <2>1 DEF ContentsOK
  <2>2. CASE \E v \in Laid(upd, body), m \in After(dd, dev) : h = Over(v, m)
    <3>1. PICK v \in Laid(upd, body), m \in After(dd, dev) : h = Over(v, m)
      BY <2>2
    <3>2. m \in Images(dd)
      BY AfterIsImage
    <3>3. m[f] \in Contents /\ DOMAIN m = Files
      BY <1>4, <3>2, ImageMap DEF ContentsOK, Kept, StoreOK
    <3>4. DOMAIN v = DOMAIN upd /\ \A g \in DOMAIN upd : v[g] \in Contents
      BY DEF Laid, Blank, Adds, Contents
    <3> QED
      BY <3>1, <3>3, <3>4 DEF Over
  <2> QED
    BY <1>1, <2>1, <2>2, WriteImages
<1> QED
  BY <1>3, <1>4 DEF ContentsOK

LEMMA SettledKept ==
  ASSUME NEW dd, NEW one, Kept(dd, one), NEW h \in Images(dd)
  PROVE  /\ Kept(Settled(h), one) /\ (ContentsOK(dd) => ContentsOK(Settled(h)))
         /\ Images(Settled(h)) = {h} /\ Settled(h).seen = h
<1>1. IsMap(h) /\ DOMAIN h = Files
  BY ImageMap DEF Kept, StoreOK
<1>2. /\ StoreOK(Settled(h)) /\ All(Settled(h)) = {} /\ Images(Settled(h)) = {h}
  BY <1>1, SettledFacts
<1>3. Settled(h).seen = h /\ Settled(h).disk = h /\ Settled(h).epoch = [dev \in Devices |-> 0]
  BY DEF Settled
<1> QED
  BY <1>1, <1>2, <1>3, DevicesGiven DEF Kept, ContentsOK

\* A payload or receipt that no one sees is on no disk: they are never removed.
LEMMA AbsentStays ==
  ASSUME NEW dd, NEW one, Kept(dd, one), NEW f \in PayloadFiles \cup ReceiptFiles,
         dd.seen[f] = Absent
  PROVE  Fixed(dd, f, Absent)
<1>1. f \in DOMAIN dd.disk /\ StoreOK(dd) /\ "whole" # Absent
  BY KindsApart, CommitAssumption DEF Kept
<1>2. ASSUME NEW k, Sets(dd, k, f) PROVE FALSE
  <2>1. dd.pend[k].upd[f] = "whole"
    BY <1>2, KindsApart DEF Sets, Kept, Proper
  <2> QED
    BY <1>1, <1>2, <2>1, SeenSet
<1> QED
  BY <1>1, <1>2, SeenSet

LEMMA PayloadReached ==
  ASSUME NEW dd, NEW one, Kept(dd, one), NEW f \in PayloadFiles
  PROVE  Reachable(dd, f, {"blobs"}, "state")
  BY KindsApart DEF Reachable, Sets, Kept, Proper

\* What a secured target keeps.
LEMMA SecureTight ==
  ASSUME NEW dd, NEW one \in BOOLEAN, NEW e, Tighter(dd, e), NEW f, Secure(dd, f, one)
  PROVE  Secure(e, f, one)
  BY DevicesGiven DEF Tighter, Secure, Behind, Fixed

LEMMA SecureAdds ==
  ASSUME NEW dd, NEW one \in BOOLEAN, Kept(dd, one), NEW e, NEW upd, NEW body, NEW left,
         NEW dev, Adds(dd, e, upd, body, left, dev, one), NEW f \in Files, f \notin DOMAIN upd
  PROVE  /\ e.seen[f] = dd.seen[f]
         /\ Secure(dd, f, one) => Secure(e, f, one)
         /\ \A v : Fixed(dd, f, v) => Fixed(e, f, v)
         /\ \A v, x : Behind(dd, f, v, x) => Behind(e, f, v, x)
         /\ \A ds, x : Reachable(dd, f, ds, x) => Reachable(e, f, ds, x)
<1>1. /\ Fits(dd, upd, dev) /\ StoreOK(dd) /\ left # {}
      /\ e = Write(dd, upd, body, left, dev)
      /\ Wrote(dd, e, NextSerial(dd), upd, body, left, dev)
  BY AddsFits
<1>2. f \in DOMAIN dd.disk /\ f \in DOMAIN dd.seen
  BY DEF Kept, StoreOK, StoreType
<1>3. e.seen[f] = dd.seen[f]
  BY <1>1, <1>2 DEF Wrote, Over
<1>4. /\ \A v : Fixed(dd, f, v) => Fixed(e, f, v)
      /\ \A v, x : Behind(dd, f, v, x) => Behind(e, f, v, x)
      /\ \A ds, x : Reachable(dd, f, ds, x) => Reachable(e, f, ds, x)
  BY <1>1, <1>2, WriteKeeps
<1> QED
  BY <1>3, <1>4 DEF Secure

LEMMA AddsSets ==
  ASSUME NEW dd, NEW one, Kept(dd, one), NEW e, NEW upd, NEW body, NEW left, NEW dev,
         Adds(dd, e, upd, body, left, dev, one), NEW f \in DOMAIN upd
  PROVE  e.seen[f] = upd[f] /\ Reachable(e, f, left, dev)
<1>1. /\ Fits(dd, upd, dev) /\ StoreOK(dd) /\ left # {}
      /\ e = Write(dd, upd, body, left, dev)
      /\ Wrote(dd, e, NextSerial(dd), upd, body, left, dev)
  BY AddsFits
<1> QED
  BY <1>1, WriteKeeps DEF Wrote, Over
-----------------------------------------------------------------------------
(* What each step does to the files *)

\* The lock and the call in progress; what is remembered of earlier ones.
LocksOK ==
  /\ lock \in Procs \cup {Nobody}
  /\ at \in [Procs -> {"idle", "apply"} \cup Begin \cup Working]
  /\ stage \in [Procs -> Stages \cup {Nobody}]
  /\ todo \in [Procs -> SUBSET Nat]
  /\ dirs \in [Procs -> SUBSET {DirOf[path] : path \in Paths}]
  /\ recovering \in [Procs -> BOOLEAN]
  /\ \A p \in Procs :
       /\ (lock = p) <=> (at[p] # "idle")
       /\ (stage[p] # Nobody) <=> (at[p] # "idle")
       /\ at[p] = "idle" => todo[p] = {}
       /\ at[p] # "idle" => todo[p] \subseteq DOMAIN Ops[stage[p]]
       /\ at[p] \in Begin => todo[p] = DOMAIN Ops[stage[p]]
       /\ at[p] \in Ended => todo[p] = {}

GhostsOK ==
  /\ shared \in BOOLEAN /\ skipped \in BOOLEAN /\ losses \in Nat
  /\ newest \in Stages \cup {Nobody} /\ redone \subseteq Stages
  /\ touched \subseteq Paths /\ raced \subseteq touched

CallOK == LocksOK /\ GhostsOK

LEMMA ActiveStage ==
  ASSUME CallOK, NEW p \in Procs, at[p] # "idle"
  PROVE  stage[p] \in Stages /\ DOMAIN Ops[stage[p]] \subseteq Nat
         /\ todo[p] \subseteq DOMAIN Ops[stage[p]] /\ lock = p /\ p # Nobody
<1>1. stage[p] \in Stages /\ lock = p
  BY DEF CallOK, LocksOK
<1> QED
  BY <1>1, CommitAssumption DEF CallOK, LocksOK

LEMMA StageOps ==
  ASSUME NEW s \in Stages, NEW i \in DOMAIN Ops[s]
  PROVE  /\ WellFormed(Ops[s][i])
         /\ Ops[s][i].old \in Contents /\ Ops[s][i].new \in Contents
         /\ Ops[s][i].from \in Paths /\ Ops[s][i].to \in Paths
         /\ \A j \in DOMAIN Ops[s] : i # j => Apart(Ops[s][i], Ops[s][j])
<1>1. /\ WellFormed(Ops[s][i])
      /\ \A j \in DOMAIN Ops[s] : i # j => Apart(Ops[s][i], Ops[s][j])
  BY CommitAssumption
<1>2. Ops[s][i].old \in Contents /\ Ops[s][i].new \in Contents
  BY DEF Contents
<1> QED
  BY <1>1, <1>2 DEF WellFormed

LEMMA FilesGiven ==
  /\ \A p \in Paths : Target(p) \in Files /\ Target(p) \in TargetFiles
  /\ \A s \in Stages : /\ Journal(s) \in Files /\ Journal(s) \in JournalFiles
                       /\ Receipt(s) \in Files /\ Receipt(s) \in ReceiptFiles
                       /\ Payload(s) \in Files /\ Payload(s) \in PayloadFiles
  BY KindsApart DEF TargetFiles, JournalFiles, ReceiptFiles, PayloadFiles

LEMMA SeenContents ==
  ASSUME Kept(d, shared), ContentsOK(d), NEW f \in Files
  PROVE  d.seen[f] \in Contents
  BY SeenImage DEF Kept, ContentsOK

LEMMA OneAdds ==
  ASSUME Kept(d, shared), NEW f \in Files, NEW v \in Contents, NEW body, NEW left, left # {},
         NEW dev \in Devices, Proper(One(f, v), left, dev, f, shared)
  PROVE  Adds(d, Write(d, One(f, v), body, left, dev), One(f, v), body, left, dev, shared)
<1>1. DOMAIN One(f, v) = {f} /\ One(f, v)[f] = v
  BY DEF One
<1> QED
  BY <1>1 DEF Adds

LEMMA OneValue == \A f, v : DOMAIN One(f, v) = {f} /\ One(f, v)[f] = v
  BY DEF One

LEMMA WritePayloadAdds ==
  ASSUME Kept(d, shared), NEW s \in Stages
  PROVE  Adds(d, Publish(d, Payload(s), "whole", "blobs", StateDevice),
              One(Payload(s), "whole"), TRUE, {"blobs"}, "state", shared)
<1>1. Proper(One(Payload(s), "whole"), {"blobs"}, "state", Payload(s), shared)
  BY OneValue, FilesGiven DEF Proper
<1> QED
  BY <1>1, OneAdds, FilesGiven, DevicesGiven DEF Publish, StateDevice, Contents

LEMMA WriteJournalAdds ==
  ASSUME Kept(d, shared), NEW s \in Stages
  PROVE  Adds(d, Publish(d, Journal(s), "whole", "journals", StateDevice),
              One(Journal(s), "whole"), TRUE, {"journals"}, "state", shared)
<1>1. Proper(One(Journal(s), "whole"), {"journals"}, "state", Journal(s), shared)
  BY FilesGiven DEF Proper
<1> QED
  BY <1>1, OneAdds, FilesGiven, DevicesGiven DEF Publish, StateDevice, Contents

LEMMA WriteReceiptAdds ==
  ASSUME Kept(d, shared), NEW s \in Stages
  PROVE  Adds(d, Publish(d, Receipt(s), "whole", "receipts", StateDevice),
              One(Receipt(s), "whole"), TRUE, {"receipts"}, "state", shared)
<1>1. Proper(One(Receipt(s), "whole"), {"receipts"}, "state", Receipt(s), shared)
  BY OneValue, FilesGiven DEF Proper
<1> QED
  BY <1>1, OneAdds, FilesGiven, DevicesGiven DEF Publish, StateDevice, Contents

LEMMA RemoveJournalAdds ==
  ASSUME Kept(d, shared), NEW s \in Stages
  PROVE  Adds(d, Write(d, One(Journal(s), Absent), FALSE, {"journals"}, StateDevice),
              One(Journal(s), Absent), FALSE, {"journals"}, "state", shared)
<1>1. Proper(One(Journal(s), Absent), {"journals"}, "state", Journal(s), shared)
  BY FilesGiven DEF Proper
<1> QED
  BY <1>1, OneAdds, FilesGiven, DevicesGiven DEF StateDevice, Contents

LEMMA TargetDeviceIs == TargetDevice = DeviceOf(shared)
  BY DEF TargetDevice, DeviceOf

LEMMA EditAdds ==
  ASSUME Kept(d, shared), NEW path \in Paths
  PROVE  Adds(d, Write(d, One(Target(path), Edited), FALSE, Homes[path], TargetDevice),
              One(Target(path), Edited), FALSE, Homes[path], TargetDevice, shared)
<1>1. Proper(One(Target(path), Edited), Homes[path], TargetDevice, Target(path), shared)
  BY FilesGiven, TargetDeviceIs DEF Proper
<1>2. TargetDevice \in Devices /\ Homes[path] # {}
  BY DevicesGiven, TargetDeviceIs, CommitAssumption DEF Kept
<1> QED
  BY <1>1, <1>2, OneAdds, FilesGiven DEF Contents

\* What an operation writes, and the directories that carry it.
EffectOf(op) ==
  IF op.kind = "move" THEN Moved(op) ELSE One(Target(op.to), op.new)

BodyOf(op) == op.kind \notin {"move", "delete"}

LEMMA EffectValues ==
  ASSUME NEW op, WellFormed(op)
  PROVE  /\ DOMAIN EffectOf(op) = {Target(op.from), Target(op.to)}
         /\ op.kind = "move" => /\ EffectOf(op)[Target(op.from)] = Absent
                                /\ EffectOf(op)[Target(op.to)] = Seen(op.from)
         /\ op.kind # "move" => /\ EffectOf(op)[Target(op.to)] = op.new
                                /\ op.from = op.to
         /\ Effect(op) = Write(d, EffectOf(op), BodyOf(op), Carriers(op), TargetDevice)
<1>1. CASE op.kind = "move"
  <2>1. op.from # op.to /\ Target(op.from) # Target(op.to)
    BY <1>1, NamesApart DEF WellFormed
  <2>2. EffectOf(op) = Over(One(Target(op.from), Absent), One(Target(op.to), Seen(op.from)))
    BY <1>1 DEF EffectOf, Moved
  <2> DEFINE f == One(Target(op.from), Absent)
             g == One(Target(op.to), Seen(op.from))
  <2>a. /\ DOMAIN f = {Target(op.from)} /\ f[Target(op.from)] = Absent
        /\ DOMAIN g = {Target(op.to)} /\ g[Target(op.to)] = Seen(op.from)
    BY DEF One
  <2>b. EffectOf(op) = Over(f, g)
    BY <2>2
  <2> HIDE DEF f, g
  <2>c. DOMAIN Over(f, g) = DOMAIN f \cup DOMAIN g
    BY DEF Over
  <2>3. DOMAIN EffectOf(op) = {Target(op.from), Target(op.to)}
    BY <2>a, <2>b, <2>c
  <2>4. EffectOf(op)[Target(op.from)] = Absent /\ EffectOf(op)[Target(op.to)] = Seen(op.from)
    BY <2>1, <2>a, <2>b DEF Over
  <2>5. Effect(op) = Write(d, EffectOf(op), FALSE, Carriers(op), TargetDevice)
    BY <1>1 DEF Effect, EffectOf
  <2>6. BodyOf(op) = FALSE
    BY <1>1 DEF BodyOf
  <2> QED
    BY <1>1, <2>3, <2>4, <2>5, <2>6
<1>2. CASE op.kind = "delete"
  <2>1. op.from = op.to /\ op.new = Absent /\ EffectOf(op) = One(Target(op.to), op.new)
        /\ BodyOf(op) = FALSE /\ op.kind # "move"
    BY <1>2 DEF WellFormed, EffectOf, BodyOf
  <2>2. Effect(op) = Write(d, One(Target(op.from), Absent), FALSE, Carriers(op), TargetDevice)
    BY <1>2 DEF Effect
  <2>4. DOMAIN One(Target(op.to), op.new) = {Target(op.to)}
        /\ One(Target(op.to), op.new)[Target(op.to)] = op.new
    BY DEF One
  <2>5. {Target(op.from), Target(op.to)} = {Target(op.to)}
    BY <2>1
  <2> QED
    BY <2>1, <2>2, <2>4, <2>5
<1>3. CASE op.kind \notin {"move", "delete"}
  <2>1. op.from = op.to /\ EffectOf(op) = One(Target(op.to), op.new) /\ BodyOf(op) = TRUE
        /\ op.kind # "move"
    BY <1>3 DEF WellFormed, EffectOf, BodyOf
  <2>2. Effect(op) = Write(d, One(Target(op.to), op.new), TRUE, Carriers(op), TargetDevice)
    BY <1>3 DEF Effect
  <2>4. DOMAIN One(Target(op.to), op.new) = {Target(op.to)}
        /\ One(Target(op.to), op.new)[Target(op.to)] = op.new
    BY DEF One
  <2>5. {Target(op.from), Target(op.to)} = {Target(op.to)}
    BY <2>1
  <2> QED
    BY <2>1, <2>2, <2>4, <2>5
<1> QED
  BY <1>1, <1>2, <1>3

LEMMA EffectAdds ==
  ASSUME Kept(d, shared), ContentsOK(d), NEW op, WellFormed(op), op.new \in Contents
  PROVE  Adds(d, Effect(op), EffectOf(op), BodyOf(op), Carriers(op), TargetDevice, shared)
<1>1. /\ Target(op.from) \in TargetFiles /\ Target(op.to) \in TargetFiles
      /\ Target(op.from) \in Files /\ Target(op.to) \in Files
  BY FilesGiven DEF WellFormed
<1>2. Seen(op.from) \in Contents
  BY <1>1, SeenContents DEF Seen
<1>3. Absent \in Contents
  BY DEF Contents
<1>4. \A f \in DOMAIN EffectOf(op) :
        f \in TargetFiles /\ f \in Files /\ EffectOf(op)[f] \in Contents
  BY <1>1, <1>2, <1>3, EffectValues
<1>5. TargetDevice \in Devices /\ Carriers(op) # {}
  <2>1. TargetDevice \in Devices
    BY DevicesGiven, TargetDeviceIs DEF Kept
  <2>2. DirOf[op.to] \in Homes[op.to]
    BY CommitAssumption DEF WellFormed
  <2> QED
    BY <2>1, <2>2 DEF Carriers
<1> QED
  BY <1>4, <1>5, TargetDeviceIs, EffectValues DEF Adds, Proper

\* The fences and flushes of the engine.
Firm(e) == Tighter(d, e) /\ (~shared => e.epoch["target"] = 0)

LEMMA FirmSame ==
  ASSUME Kept(d, shared)
  PROVE  Firm(d)
  BY TightSame DEF Firm, Kept

LEMMA FirmSync ==
  ASSUME Kept(d, shared), NEW ds
  PROVE  /\ Firm(SyncDirs(d, ds))
         /\ \A f, x : Reachable(d, f, ds \cup {"root"}, x)
                         => Reachable(SyncDirs(d, ds), f, {"root"}, x)
  BY SyncTightens DEF Firm, Kept

LEMMA FirmFence ==
  ASSUME Kept(d, shared), NEW dir
  PROVE  /\ Firm(Fence(d, dir, "state"))
         /\ \A f \in Files : Reachable(d, f, {dir}, "state") =>
              /\ Behind(Fence(d, dir, "state"), f, d.seen[f], "state")
              /\ Reachable(Fence(d, dir, "state"), f, {}, "state")
<1>1. StoreOK(d) /\ DOMAIN d.disk = Files /\ "state" \in Devices /\ "target" \in Devices
      /\ "target" # "state"
  BY DevicesGiven DEF Kept
<1> QED
  BY <1>1, FenceTightens DEF Firm, Kept

LEMMA FirmFlush ==
  ASSUME Kept(d, shared), NEW dir, NEW dev \in Devices
  PROVE  /\ Firm(Flush(d, dir, dev))
         /\ \A f \in Files : Reachable(d, f, {dir}, dev) =>
              Fixed(Flush(d, dir, dev), f, d.seen[f])
<1>1. StoreOK(d) /\ DOMAIN d.disk = Files /\ "target" \in Devices
  BY DevicesGiven DEF Kept
<1> QED
  BY <1>1, FlushTightens DEF Firm, Kept

LEMMA FirmCross ==
  ASSUME Kept(d, shared), NEW dir, NEW dev \in Devices, dev \in {"state", TargetDevice}
  PROVE  Firm(CrossRoot(d, dir, dev))
<1>1. shared => dev = "state"
  BY DEF TargetDevice
<1> QED
  BY <1>1, FirmFence, FirmFlush DEF CrossRoot

\* The target fence secures what has been synced, but for the root.
LEMMA TargetFenceSecures ==
  ASSUME Kept(d, shared), NEW f \in Files, Reachable(d, f, {"root"}, TargetDevice)
  PROVE  Secure(CrossRoot(d, "root", TargetDevice), f, shared)
<1> DEFINE e == CrossRoot(d, "root", TargetDevice)
<1>2. TargetDevice \in Devices /\ shared \in BOOLEAN
  BY DevicesGiven, TargetDeviceIs DEF Kept
<1>3. e.seen = d.seen
  BY <1>2, FirmCross DEF Firm, Tighter
<1>4. CASE shared
  <2>1. e = Fence(d, "root", "state") /\ Reachable(d, f, {"root"}, "state")
    BY <1>4 DEF CrossRoot, TargetDevice
  <2> QED
    BY <1>3, <1>4, <2>1, FirmFence DEF Secure
<1>5. CASE ~shared
  <2>1. e = Flush(d, "root", TargetDevice)
    BY <1>5 DEF CrossRoot
  <2> QED
    BY <1>2, <1>3, <1>5, <2>1, FirmFlush DEF Secure
<1> QED
  BY <1>2, <1>4, <1>5

\* The flush of the receipt settles what was secured.
LEMMA ReceiptFlushFixes ==
  ASSUME Kept(d, shared), NEW f \in Files, Secure(d, f, shared)
  PROVE  Fixed(Flush(d, "receipts", "state"), f, d.seen[f])
<1>1. CASE shared
  <2>1. Reachable(d, f, {"receipts"}, "state")
    BY <1>1 DEF Secure, Reachable
  <2> QED
    BY <2>1, FirmFlush, DevicesGiven
<1>2. CASE ~shared
  <2>1. Fixed(d, f, d.seen[f])
    BY <1>2 DEF Secure
  <2>2. Images(Flush(d, "receipts", "state")) \subseteq Images(d)
    BY FirmFlush, DevicesGiven DEF Firm, Tighter
  <2> QED
    BY <2>1, <2>2 DEF Fixed
<1> QED
  BY <1>1, <1>2 DEF Kept

\* A target behind whose writes someone has put fences is secure.
LEMMA OrderedSecure ==
  ASSUME Kept(d, shared), NEW f \in TargetFiles, ~Unordered(f)
  PROVE  Secure(d, f, shared)
<1>0. f \in Files /\ f \in DOMAIN d.disk /\ StoreOK(d) /\ StoreType(d)
      /\ "state" \in Devices /\ "target" \in Devices /\ shared \in BOOLEAN
  BY KindsApart, DevicesGiven DEF Kept, StoreOK
<1>1. ASSUME NEW k \in All(d), f \in DOMAIN d.pend[k].upd
      PROVE  /\ d.pend[k].left = {} /\ d.pend[k].dev = DeviceOf(shared)
             /\ d.pend[k].born \in Nat /\ d.pend[k].ord \in Nat
             /\ d.epoch[DeviceOf(shared)] \in Nat
             /\ d.pend[k].born <= d.pend[k].ord
             /\ d.pend[k].ord < d.epoch[DeviceOf(shared)]
  <2>1. d.pend[k].left = {} /\ d.pend[k].ord # d.epoch[d.pend[k].dev]
    BY <1>1 DEF Unordered, All
  <2>2. d.pend[k].dev = DeviceOf(shared)
    BY <1>1, KindsApart DEF Kept, Proper
  <2>3. WriteOK(d, d.pend[k]) /\ d.epoch \in [Devices -> Nat]
    BY <1>0, <1>1 DEF StoreType
  <2> QED
    BY <2>1, <2>2, <2>3 DEF WriteOK
<1>2. CASE shared
  <2>1. \A k : Sets(d, k, f) => k \in Barred(d, "state") /\ d.pend[k].born < d.epoch["state"]
    BY <1>1, <1>2 DEF Sets, Barred, DeviceOf
  <2>2. Behind(d, f, d.seen[f], "state")
    BY <1>0, <2>1, BarredHolds
  <2>3. Reachable(d, f, {}, "state")
    BY <1>1, <1>2 DEF Sets, Reachable, DeviceOf
  <2> QED
    BY <1>2, <2>2, <2>3 DEF Secure
<1>3. CASE ~shared
  <2>1. \A k \in All(d) : f \notin DOMAIN d.pend[k].upd
    BY <1>1, <1>3 DEF Kept, DeviceOf
  <2> QED
    BY <1>0, <1>3, <2>1, SeenSet DEF Secure
<1> QED
  BY <1>0, <1>2, <1>3
-----------------------------------------------------------------------------
(* The lock *)

LEMMA GotoOK ==
  ASSUME LocksOK, NEW p \in Procs, at[p] # "idle", NEW step, Goto(p, step),
         step \in {"apply"} \cup Begin \cup Working,
         step \in Begin => at[p] \in Begin, step \in Ended => todo[p] = {}
  PROVE  LocksOK'
<1>1. at' = [at EXCEPT ![p] = step] /\ UNCHANGED <<lock, stage, todo, dirs, recovering>>
  BY DEF Goto
<1>2. step # "idle"
  BY DEF Begin, Working
<1>3. at' \in [Procs -> {"idle", "apply"} \cup Begin \cup Working]
      /\ at'[p] = step /\ \A q \in Procs : q # p => at'[q] = at[q]
  BY <1>1 DEF LocksOK
<1> QED
  BY <1>1, <1>2, <1>3 DEF LocksOK

LEMMA LeaveOK ==
  ASSUME LocksOK, NEW p \in Procs, at[p] # "idle", Leave(p)
  PROVE  LocksOK' /\ \A q \in Procs : at'[q] = "idle"
<1>1. /\ lock' = Nobody
      /\ at' = [at EXCEPT ![p] = "idle"] /\ stage' = [stage EXCEPT ![p] = Nobody]
      /\ todo' = [todo EXCEPT ![p] = {}] /\ dirs' = [dirs EXCEPT ![p] = {}]
      /\ recovering' = [recovering EXCEPT ![p] = FALSE]
  BY DEF Leave
<1>2. \A q \in Procs : q # p => at[q] = "idle" /\ stage[q] = Nobody /\ todo[q] = {}
  BY DEF LocksOK
<1>3. \A q \in Procs : at'[q] = "idle" /\ stage'[q] = Nobody /\ todo'[q] = {} /\ q # Nobody
  BY <1>1, <1>2, CommitAssumption DEF LocksOK
<1>4. "idle" \notin Begin /\ "idle" \notin Ended
  BY DEF Begin, Ended
<1> QED
  BY <1>1, <1>3, <1>4 DEF LocksOK

LEMMA EnterOK ==
  ASSUME LocksOK, NEW p \in Procs, lock = Nobody, NEW s \in Stages, NEW step,
         step \in {"payload", "apply"}, NEW left \in SUBSET DOMAIN Ops[s],
         step = "payload" => left = DOMAIN Ops[s],
         NEW rec \in BOOLEAN, Enter(p, s, step, left, rec)
  PROVE  LocksOK' /\ at'[p] = step /\ stage'[p] = s /\ todo'[p] = left
         /\ recovering'[p] = rec /\ dirs'[p] = {}
<1>1. /\ lock' = p
      /\ at' = [at EXCEPT ![p] = step] /\ stage' = [stage EXCEPT ![p] = s]
      /\ todo' = [todo EXCEPT ![p] = left] /\ dirs' = [dirs EXCEPT ![p] = {}]
      /\ recovering' = [recovering EXCEPT ![p] = rec]
  BY DEF Enter
<1>2. \A q \in Procs : at[q] = "idle" /\ stage[q] = Nobody /\ todo[q] = {} /\ q # Nobody
  BY CommitAssumption DEF LocksOK
<1>3. /\ at'[p] = step /\ stage'[p] = s /\ todo'[p] = left /\ recovering'[p] = rec /\ dirs'[p] = {}
      /\ \A q \in Procs : q # p => at'[q] = at[q] /\ stage'[q] = stage[q] /\ todo'[q] = todo[q]
  BY <1>1 DEF LocksOK
<1>4. /\ "idle" \notin Begin /\ "idle" \notin Ended /\ "apply" \notin Begin /\ "apply" \notin Ended
      /\ "payload" \notin Ended /\ "payload" \in Begin /\ s # Nobody /\ left \subseteq Nat
  BY CommitAssumption DEF Begin, Ended
<1>5. /\ lock' \in Procs \cup {Nobody}
      /\ at' \in [Procs -> {"idle", "apply"} \cup Begin \cup Working]
      /\ stage' \in [Procs -> Stages \cup {Nobody}]
      /\ todo' \in [Procs -> SUBSET Nat]
      /\ dirs' \in [Procs -> SUBSET {DirOf[path] : path \in Paths}]
      /\ recovering' \in [Procs -> BOOLEAN]
  BY <1>1, <1>4 DEF LocksOK
<1>6. ASSUME NEW q \in Procs
      PROVE  /\ (lock' = q) <=> (at'[q] # "idle")
             /\ (stage'[q] # Nobody) <=> (at'[q] # "idle")
             /\ at'[q] = "idle" => todo'[q] = {}
             /\ at'[q] # "idle" => todo'[q] \subseteq DOMAIN Ops[stage'[q]]
             /\ at'[q] \in Begin => todo'[q] = DOMAIN Ops[stage'[q]]
             /\ at'[q] \in Ended => todo'[q] = {}
  <2>1. CASE q = p
    BY <1>1, <1>3, <1>4, <2>1
  <2>2. CASE q # p
    BY <1>1, <1>2, <1>3, <1>4, <2>2
  <2> QED
    BY <2>1, <2>2
<1> QED
  BY <1>3, <1>5, <1>6 DEF LocksOK

\* One operation fewer is left, and its directories are touched.
LEMMA ApplyOK ==
  ASSUME LocksOK, NEW p \in Procs, at[p] = "apply", NEW i, NEW op,
         op.from \in Paths /\ op.to \in Paths,
         todo' = [todo EXCEPT ![p] = @ \ {i}],
         dirs' = [dirs EXCEPT ![p] = @ \cup Swept(op)],
         UNCHANGED <<lock, at, stage, recovering>>
  PROVE  LocksOK' /\ todo'[p] = todo[p] \ {i} /\ dirs'[p] = dirs[p] \cup Swept(op)
<1>1. /\ todo' \in [Procs -> SUBSET Nat]
      /\ todo'[p] = todo[p] \ {i} /\ \A q \in Procs : q # p => todo'[q] = todo[q]
  BY DEF LocksOK
<1>2. dirs[p] \cup Swept(op) \in SUBSET {DirOf[path] : path \in Paths}
  BY DEF LocksOK, Swept
<1>3. dirs' \in [Procs -> SUBSET {DirOf[path] : path \in Paths}]
      /\ dirs'[p] = dirs[p] \cup Swept(op)
  BY <1>2 DEF LocksOK
<1>4. "apply" \notin Begin /\ "apply" \notin Ended /\ "apply" # "idle"
  BY DEF Begin, Ended
<1>5. ASSUME NEW q \in Procs
      PROVE  /\ (lock' = q) <=> (at'[q] # "idle")
             /\ (stage'[q] # Nobody) <=> (at'[q] # "idle")
             /\ at'[q] = "idle" => todo'[q] = {}
             /\ at'[q] # "idle" => todo'[q] \subseteq DOMAIN Ops[stage'[q]]
             /\ at'[q] \in Begin => todo'[q] = DOMAIN Ops[stage'[q]]
             /\ at'[q] \in Ended => todo'[q] = {}
  <2>1. CASE q = p
    BY <1>1, <1>4, <2>1 DEF LocksOK
  <2>2. CASE q # p
    BY <1>1, <2>2 DEF LocksOK
  <2> QED
    BY <2>1, <2>2
<1> QED
  BY <1>1, <1>3, <1>5 DEF LocksOK

\* The lock changes hands only through Nobody: a step of q leaves the others idle.
LEMMA Alone ==
  ASSUME LocksOK, NEW q \in Procs, Step(q) \/ Kill(q), NEW p \in Procs, p # q
  PROVE  at[p] = "idle" /\ at'[p] = "idle"
<1>1. at[q] # "idle" \/ lock = Nobody
  BY DEF Step, Kill, CommitFromReceipt, CommitStart, RecoverStart, WritePayload, PayloadFence,
         WriteJournal, JournalFence, Apply, SyncTargets, TargetFence, WriteReceipt,
         ReceiptFlush, RemoveJournal
<1>2. at[p] = "idle"
  BY <1>1, CommitAssumption DEF LocksOK
<1>3. at'[p] = at[p]
  <2>1. (\E step : at' = [at EXCEPT ![q] = step]) \/ at' = at
    <3>1. CASE Kill(q)
      BY <3>1 DEF Kill, Leave
    <3>2. CASE \E s \in Stages : CommitFromReceipt(q, s) \/ CommitStart(q, s) \/ RecoverStart(q, s)
      BY <3>2 DEF CommitFromReceipt, CommitStart, RecoverStart, Enter, call
    <3>3. CASE WritePayload(q)
      BY <3>3 DEF WritePayload, Goto, Leave
    <3>4. CASE \/ PayloadFence(q) \/ WriteJournal(q) \/ JournalFence(q) \/ TargetFence(q)
               \/ WriteReceipt(q) \/ ReceiptFlush(q)
      BY <3>4 DEF PayloadFence, WriteJournal, JournalFence, TargetFence, WriteReceipt,
                  ReceiptFlush, Goto
    <3>5. CASE Apply(q)
      BY <3>5 DEF Apply, Leave
    <3>6. CASE SyncTargets(q)
      BY <3>6 DEF SyncTargets, Goto
    <3>7. CASE RemoveJournal(q)
      BY <3>7 DEF RemoveJournal, Leave
    <3> QED
      BY <3>1, <3>2, <3>3, <3>4, <3>5, <3>6, <3>7 DEF Step
  <2> QED
    BY <2>1 DEF LocksOK
<1> QED
  BY <1>2, <1>3
-----------------------------------------------------------------------------
(* The inductive invariant *)

\* The payloads of the call are whole, and behind a fence when the journal is written.
PayloadReady(p) ==
  /\ at[p] = "payload_fence" => d.seen[Payload(stage[p])] = "whole"
  /\ at[p] = "journal" => Behind(d, Payload(stage[p]), "whole", "state")

\* An operation that is left finds its paths as the preflight did, unless
\* someone has written them since.
Awaits(op) ==
  /\ op.from \notin raced => Seen(op.from) = op.old
  /\ op.kind = "move" /\ op.to \notin raced => Seen(op.to) = Absent

Pend(p) == at[p] # "idle" => \A i \in todo[p] : Awaits(Ops[stage[p]][i])

\* No editor has written a path of the operation.
Clean(op) == PathsOf(op) \cap touched = {}

Done(p) ==
  at[p] # "idle" =>
    \A i \in DOMAIN Ops[stage[p]] \ todo[p] :
      Clean(Ops[stage[p]][i]) => DoneIn(d.seen, Ops[stage[p]][i])

\* How far the targets of the finished operations are on their way to the disk:
\* the target fence syncs the root.
Guarded(dd, one, step, ds, f) ==
  /\ step = "apply" =>
       \/ Secure(dd, f, one)
       \/ ds # {} /\ Reachable(dd, f, ds \cup {"root"}, DeviceOf(one))
  /\ step = "target_fence" => Secure(dd, f, one) \/ Reachable(dd, f, {"root"}, DeviceOf(one))
  /\ step \in {"receipt", "receipt_flush"} => Secure(dd, f, one)
  /\ step = "remove_journal" => Fixed(dd, f, dd.seen[f])

\* The call syncs every name of what it does, and builds on nothing unsynced.
Sure(p) == ~skipped \/ (~recovering[p] /\ NamedStage(stage[p]))

Secured(p) ==
  at[p] # "idle" /\ Sure(p) =>
    \A i \in DOMAIN Ops[stage[p]] \ todo[p] : \A path \in PathsOf(Ops[stage[p]][i]) \ touched :
      Guarded(d, shared, at[p], dirs[p], Target(path))

Answers(p) == at[p] \in Working => answered.by = "none" /\ newest = stage[p]

\* A first receipt is not written before its step.
Unclaimed(p) ==
  at[p] \in Unreceipted /\ newest \notin redone => d.seen[Receipt(newest)] = Absent

CallInv(p) ==
  PayloadReady(p) /\ Pend(p) /\ Done(p) /\ Secured(p) /\ Answers(p) /\ Unclaimed(p)

AnswerOK == answered.by # "none" => answered.stage \in Stages

\* The answer of a call that ran to its end holds in all that a power loss may leave.
RanToEnd ==
  \/ answered.by = "commit" /\ NamedStage(answered.stage)
  \/ answered.by = "recover" /\ ~skipped

ResultStays == \A files \in Images(d) : AllDone(files, answered.stage)

CallHolds == RanToEnd /\ touched = {} => ResultStays

IInv ==
  /\ CallOK /\ Kept(d, shared) /\ ContentsOK(d) /\ AnswerOK
  /\ \A p \in Procs : CallInv(p)
  /\ PayloadBeforeJournal /\ ReceiptHasItsWork /\ CallHolds
-----------------------------------------------------------------------------

LEMMA IdleInv ==
  ASSUME NEW p, at'[p] = "idle"
  PROVE  CallInv(p)'
  BY DEF CallInv, PayloadReady, Pend, Done, Secured, Answers, Unclaimed, Working, Unreceipted

LEMMA AloneInv ==
  ASSUME LocksOK, NEW q \in Procs, Step(q) \/ Kill(q), CallInv(q)'
  PROVE  \A p \in Procs : CallInv(p)'
  BY Alone, IdleInv

\* Nothing that p sees of the targets has changed, nor what it has to do.
LEMMA SeenKeeps ==
  ASSUME CallOK, NEW p \in Procs, at[p] # "idle", Pend(p), Done(p),
         stage'[p] = stage[p], todo'[p] = todo[p], raced' = raced, touched' = touched,
         \A f \in TargetFiles : d'.seen[f] = d.seen[f]
  PROVE  Pend(p)' /\ Done(p)'
<1>1. stage[p] \in Stages /\ todo[p] \subseteq DOMAIN Ops[stage[p]]
  BY ActiveStage
<1>2. \A i \in DOMAIN Ops[stage[p]] :
        LET op == Ops[stage[p]][i] IN
        /\ d'.seen[Target(op.from)] = d.seen[Target(op.from)]
        /\ d'.seen[Target(op.to)] = d.seen[Target(op.to)]
  BY <1>1, StageOps, FilesGiven
<1>3. Pend(p)'
  BY <1>1, <1>2 DEF Pend, Awaits, Seen
<1>4. Done(p)'
  BY <1>1, <1>2 DEF Done, DoneIn, Clean
<1> QED
  BY <1>3, <1>4

LEMMA NothingDone ==
  ASSUME NEW p, todo'[p] = DOMAIN Ops[stage'[p]]
  PROVE  Done(p)' /\ Secured(p)'
  BY DEF Done, Secured

\* A power loss after a write leaves what it left before, but for the names written.
LEMMA AddsImage ==
  ASSUME Kept(d, shared), NEW e, NEW upd, NEW body, NEW left, NEW dev,
         Adds(d, e, upd, body, left, dev, shared), NEW h \in Images(e)
  PROVE  \E m \in Images(d) :
           /\ \A f \in Files \ DOMAIN upd : h[f] = m[f]
           /\ \/ h = m
              \/ /\ m \in After(d, dev)
                 /\ \A f \in DOMAIN upd : h[f] = upd[f] \/ (body /\ h[f] = Torn)
<1>1. /\ Fits(d, upd, dev) /\ StoreOK(d) /\ left # {} /\ e = Write(d, upd, body, left, dev)
  BY AddsFits
<1>2. CASE h \in Images(d)
  BY <1>2
<1>3. CASE \E v \in Laid(upd, body), m \in After(d, dev) : h = Over(v, m)
  <2>1. PICK v \in Laid(upd, body), m \in After(d, dev) : h = Over(v, m)
    BY <1>3
  <2>2. m \in Images(d) /\ DOMAIN m = Files
    BY AfterIsImage, ImageMap DEF Kept, StoreOK
  <2>3. DOMAIN v = DOMAIN upd /\ \A f \in DOMAIN upd : v[f] = upd[f] \/ (body /\ v[f] = Torn)
    BY DEF Laid, Blank
  <2>4. /\ \A f \in Files \ DOMAIN upd : h[f] = m[f]
        /\ \A f \in DOMAIN upd : h[f] = v[f]
    BY <2>1, <2>2, <2>3 DEF Over
  <2> QED
    BY <2>2, <2>3, <2>4
<1> QED
  BY <1>1, <1>2, <1>3, WriteImages

LEMMA SameTargetsDone ==
  ASSUME NEW s \in Stages, NEW h, NEW m, \A f \in TargetFiles : h[f] = m[f]
  PROVE  AllDone(h, s) <=> AllDone(m, s)
<1>1. \A i \in DOMAIN Ops[s] :
        LET op == Ops[s][i] IN
        h[Target(op.from)] = m[Target(op.from)] /\ h[Target(op.to)] = m[Target(op.to)]
  BY StageOps, FilesGiven
<1> QED
  BY <1>1 DEF AllDone, DoneIn

\* What a power loss may leave has become less: its properties stay.
LEMMA FewerJournals ==
  ASSUME PayloadBeforeJournal, Images(d') \subseteq Images(d)
  PROVE  PayloadBeforeJournal'
  BY DEF PayloadBeforeJournal

LEMMA FewerReceipts ==
  ASSUME ReceiptHasItsWork, Images(d') \subseteq Images(d),
         touched' = {} => touched = {}, ~skipped' => ~skipped,
         UNCHANGED <<newest, redone>>
  PROVE  ReceiptHasItsWork'
  BY DEF ReceiptHasItsWork

LEMMA FewerAnswers ==
  ASSUME CallHolds, Images(d') \subseteq Images(d),
         touched' = {} => touched = {}, ~skipped' => ~skipped, answered' = answered
  PROVE  CallHolds'
  BY DEF CallHolds, RanToEnd, ResultStays

\* A write of other names does not matter to them either.
LEMMA OtherJournals ==
  ASSUME Kept(d, shared), PayloadBeforeJournal, NEW upd, NEW body, NEW left, NEW dev,
         Adds(d, d', upd, body, left, dev, shared),
         DOMAIN upd \cap (JournalFiles \cup PayloadFiles) = {}
  PROVE  PayloadBeforeJournal'
<1> SUFFICES ASSUME NEW h \in Images(d'), NEW s \in Stages, h[Journal(s)] = "whole"
             PROVE  h[Payload(s)] = "whole"
  BY DEF PayloadBeforeJournal
<1>1. PICK m \in Images(d) : \A f \in Files \ DOMAIN upd : h[f] = m[f]
  BY AddsImage
<1>2. h[Journal(s)] = m[Journal(s)] /\ h[Payload(s)] = m[Payload(s)]
  BY <1>1, FilesGiven
<1> QED
  BY <1>2 DEF PayloadBeforeJournal

LEMMA OtherReceipts ==
  ASSUME Kept(d, shared), ReceiptHasItsWork, NEW upd, NEW body, NEW left, NEW dev,
         Adds(d, d', upd, body, left, dev, shared),
         DOMAIN upd \cap (ReceiptFiles \cup TargetFiles) = {},
         UNCHANGED <<newest, redone, touched, skipped>>
  PROVE  ReceiptHasItsWork'
<1> SUFFICES ASSUME newest \in Stages \ redone, touched = {}, ~skipped,
                    NEW h \in Images(d'), h[Receipt(newest)] = "whole"
             PROVE  AllDone(h, newest)
  BY DEF ReceiptHasItsWork
<1>1. PICK m \in Images(d) : \A f \in Files \ DOMAIN upd : h[f] = m[f]
  BY AddsImage
<1>2. h[Receipt(newest)] = m[Receipt(newest)] /\ \A f \in TargetFiles : h[f] = m[f]
  BY <1>1, FilesGiven, KindsApart
<1>3. AllDone(m, newest)
  BY <1>2 DEF ReceiptHasItsWork
<1> QED
  BY <1>2, <1>3, SameTargetsDone

LEMMA OtherAnswers ==
  ASSUME Kept(d, shared), ResultStays, answered.stage \in Stages, NEW upd, NEW body, NEW left,
         NEW dev, Adds(d, d', upd, body, left, dev, shared), DOMAIN upd \cap TargetFiles = {},
         answered' = answered
  PROVE  ResultStays'
<1> SUFFICES ASSUME NEW h \in Images(d')
             PROVE  AllDone(h, answered.stage)
  BY DEF ResultStays
<1>1. PICK m \in Images(d) : \A f \in Files \ DOMAIN upd : h[f] = m[f]
  BY AddsImage
<1>2. \A f \in TargetFiles : h[f] = m[f]
  BY <1>1, KindsApart
<1>3. AllDone(m, answered.stage)
  BY DEF ResultStays
<1> QED
  BY <1>2, <1>3, SameTargetsDone

LEMMA CallOther ==
  ASSUME Kept(d, shared), CallHolds, AnswerOK, NEW upd, NEW body, NEW left,
         NEW dev, Adds(d, d', upd, body, left, dev, shared), DOMAIN upd \cap TargetFiles = {},
         UNCHANGED <<answered, touched, skipped>>
  PROVE  CallHolds'
<1> SUFFICES ASSUME RanToEnd, touched = {} PROVE ResultStays'
  BY DEF CallHolds, RanToEnd
<1>1. answered.stage \in Stages /\ ResultStays
  BY DEF AnswerOK, RanToEnd, CallHolds
<1> QED
  BY <1>1, OtherAnswers

\* A first receipt that no one has seen is nowhere.
LEMMA NoReceiptYet ==
  ASSUME Kept(d', shared'), newest' \notin redone' => d'.seen[Receipt(newest')] = Absent
  PROVE  ReceiptHasItsWork'
<1> SUFFICES ASSUME newest' \in Stages \ redone', NEW h \in Images(d'),
                    h[Receipt(newest')] = "whole"
             PROVE  FALSE
  BY DEF ReceiptHasItsWork
<1>1. Fixed(d', Receipt(newest'), Absent)
  BY AbsentStays, FilesGiven
<1> QED
  BY <1>1, CommitAssumption DEF Fixed

LEMMA NoAnswer ==
  ASSUME answered'.by \notin {"commit", "recover"},
         answered'.by # "none" => answered'.stage \in Stages
  PROVE  CallHolds' /\ AnswerOK'
  BY DEF CallHolds, RanToEnd, AnswerOK
-----------------------------------------------------------------------------
(* The steps that write nothing *)

LEMMA GhostsKept ==
  ASSUME GhostsOK, UNCHANGED <<shared, ghosts, touched, raced, losses>>
  PROVE  GhostsOK'
  BY DEF GhostsOK, ghosts

LEMMA FirmGlobals ==
  ASSUME IInv, Firm(d'), UNCHANGED <<shared, newest, redone, answered, skipped, touched>>
  PROVE  /\ Kept(d', shared') /\ ContentsOK(d') /\ AnswerOK' /\ d'.seen = d.seen
         /\ PayloadBeforeJournal' /\ ReceiptHasItsWork' /\ CallHolds'
<1>1. Kept(d, shared) /\ ContentsOK(d) /\ AnswerOK
      /\ PayloadBeforeJournal /\ ReceiptHasItsWork /\ CallHolds
  BY DEF IInv
<1>2. Tighter(d, d') /\ (~shared => d'.epoch["target"] = 0) /\ shared' = shared
  BY DEF Firm
<1>3. Kept(d', shared') /\ ContentsOK(d')
  BY <1>1, <1>2, TightKept
<1>4. d'.seen = d.seen /\ Images(d') \subseteq Images(d)
  BY <1>2 DEF Tighter
<1>5. answered' = answered /\ touched' = touched /\ newest' = newest /\ redone' = redone
      /\ skipped' = skipped
  OBVIOUS
<1>6. PayloadBeforeJournal' /\ ReceiptHasItsWork' /\ CallHolds'
  BY <1>1, <1>4, <1>5, FewerJournals, FewerReceipts, FewerAnswers
<1>7. AnswerOK'
  BY <1>1, <1>5 DEF AnswerOK
<1> QED
  BY <1>3, <1>4, <1>6, <1>7

LEMMA SecuredKeeps ==
  ASSUME CallOK, NEW p \in Procs, at[p] # "idle", Secured(p),
         UNCHANGED <<touched, skipped>>, stage'[p] = stage[p], todo'[p] = todo[p],
         recovering'[p] = recovering[p],
         \A f \in TargetFiles : Guarded(d, shared, at[p], dirs[p], f)
                                  => Guarded(d', shared', at'[p], dirs'[p], f)
  PROVE  Secured(p)'
<1>1. stage[p] \in Stages /\ todo[p] \subseteq DOMAIN Ops[stage[p]]
  BY ActiveStage
<1>2. \A i \in DOMAIN Ops[stage[p]] :
        \A path \in PathsOf(Ops[stage[p]][i]) : Target(path) \in TargetFiles
  BY <1>1, StageOps, FilesGiven DEF PathsOf
<1> QED
  BY <1>1, <1>2 DEF Secured, Sure

\* A call goes on, and the device only comes to hold more of what was written.
LEMMA QuietStep ==
  ASSUME IInv, NEW p \in Procs, at[p] # "idle", Step(p), NEW step, Goto(p, step),
         step \in {"apply"} \cup Begin \cup Working,
         step \in Begin => at[p] \in Begin, step \in Ended => todo[p] = {},
         step \in Working => at[p] \in Working, step \in Unreceipted => at[p] \in Unreceipted,
         Firm(d'), UNCHANGED <<shared, ghosts, faults, raced>>, PayloadReady(p)',
         \A f \in TargetFiles : Guarded(d, shared, at[p], dirs[p], f)
                                  => Guarded(d', shared', step, dirs[p], f)
  PROVE  IInv'
<1>1. LocksOK /\ GhostsOK /\ CallOK /\ CallInv(p)
  BY DEF IInv, CallOK
<1>2. LocksOK'
  BY <1>1, GotoOK
<1>3. UNCHANGED <<shared, ghosts, touched, raced, losses>>
  BY DEF faults
<1>4. GhostsOK'
  BY <1>1, <1>3, GhostsKept
<1>5. /\ Kept(d', shared') /\ ContentsOK(d') /\ AnswerOK' /\ d'.seen = d.seen
      /\ PayloadBeforeJournal' /\ ReceiptHasItsWork' /\ CallHolds'
  BY <1>3, FirmGlobals DEF ghosts
<1>6. /\ at'[p] = step /\ stage'[p] = stage[p] /\ todo'[p] = todo[p] /\ dirs'[p] = dirs[p]
      /\ recovering'[p] = recovering[p]
  BY <1>1 DEF Goto, LocksOK
<1>7. Pend(p)' /\ Done(p)'
  BY <1>1, <1>3, <1>5, <1>6, SeenKeeps DEF CallInv
<1>8. Secured(p)'
  <2>1. UNCHANGED <<touched, skipped>>
    BY <1>3 DEF ghosts
  <2>2. \A f \in TargetFiles : Guarded(d, shared, at[p], dirs[p], f)
                                  => Guarded(d', shared', at'[p], dirs'[p], f)
    BY <1>6
  <2> QED
    BY <1>1, <1>6, <2>1, <2>2, SecuredKeeps DEF CallInv
<1>9. Answers(p)' /\ Unclaimed(p)'
  BY <1>1, <1>3, <1>5, <1>6 DEF CallInv, Answers, Unclaimed, ghosts
<1>10. CallInv(p)'
  BY <1>7, <1>8, <1>9 DEF CallInv
<1>11. \A q \in Procs : CallInv(q)'
  BY <1>1, <1>10, AloneInv
<1> QED
  BY <1>2, <1>4, <1>5, <1>11 DEF IInv, CallOK

\* A call ends.
LEMMA QuietEnd ==
  ASSUME IInv, NEW p \in Procs, at[p] # "idle", Leave(p), d' = d,
         UNCHANGED <<shared, ghosts, touched, raced, losses>>
  PROVE  IInv'
<1>1. LocksOK /\ GhostsOK /\ Kept(d, shared)
  BY DEF IInv, CallOK
<1>2. LocksOK' /\ \A q \in Procs : at'[q] = "idle"
  BY <1>1, LeaveOK
<1>3. GhostsOK'
  BY <1>1, GhostsKept
<1>4. Firm(d')
  BY <1>1, FirmSame
<1>5. /\ Kept(d', shared') /\ ContentsOK(d') /\ AnswerOK'
      /\ PayloadBeforeJournal' /\ ReceiptHasItsWork' /\ CallHolds'
  BY <1>4, FirmGlobals DEF ghosts
<1> QED
  BY <1>2, <1>3, <1>5, IdleInv DEF IInv, CallOK

LEMMA PayloadFenceInv ==
  ASSUME IInv, NEW p \in Procs, PayloadFence(p)
  PROVE  IInv'
<1>1. /\ at[p] = "payload_fence" /\ d' = Fence(d, "blobs", "state") /\ Goto(p, "journal")
      /\ UNCHANGED <<shared, ghosts, faults, raced>> /\ at[p] # "idle"
  BY DEF PayloadFence, StateDevice
<1>2. CallOK /\ Kept(d, shared) /\ PayloadReady(p) /\ at \in [Procs -> {"idle", "apply"} \cup Begin \cup Working]
  BY DEF IInv, CallOK, LocksOK, CallInv
<1>3. stage[p] \in Stages /\ Payload(stage[p]) \in Files /\ Payload(stage[p]) \in PayloadFiles
  BY <1>1, <1>2, ActiveStage, FilesGiven
<1>4. Behind(d', Payload(stage[p]), "whole", "state")
  <2>1. Reachable(d, Payload(stage[p]), {"blobs"}, "state")
    BY <1>2, <1>3, PayloadReached
  <2>2. Behind(d', Payload(stage[p]), d.seen[Payload(stage[p])], "state")
    BY <1>1, <1>2, <1>3, <2>1, FirmFence
  <2> QED
    BY <1>1, <1>2, <2>2 DEF PayloadReady
<1>5. PayloadReady(p)'
  BY <1>1, <1>2, <1>4 DEF PayloadReady, Goto
<1>6. Firm(d')
  BY <1>1, <1>2, FirmFence
<1>7. \A f : Guarded(d', shared', "journal", dirs[p], f)
  BY DEF Guarded
<1>8. /\ "journal" \in {"apply"} \cup Begin \cup Working /\ at[p] \in Begin
      /\ "journal" \notin Ended /\ "journal" \notin Working /\ "journal" \notin Unreceipted
  BY <1>1 DEF Begin, Working, Ended, Unreceipted
<1>9. Step(p)
  BY DEF Step
<1> QED
  BY <1>1, <1>5, <1>6, <1>7, <1>8, <1>9, QuietStep

LEMMA JournalFenceInv ==
  ASSUME IInv, NEW p \in Procs, JournalFence(p)
  PROVE  IInv'
<1>1. /\ at[p] = "journal_fence" /\ d' = CrossRoot(d, "journals", "state") /\ Goto(p, "apply")
      /\ UNCHANGED <<shared, ghosts, faults, raced>> /\ at[p] # "idle"
  BY DEF JournalFence, StateDevice
<1>2. LocksOK /\ GhostsOK /\ CallOK /\ CallInv(p) /\ Kept(d, shared)
  BY DEF IInv, CallOK
<1>3. Firm(d')
  BY <1>1, <1>2, FirmCross, DevicesGiven
<1>4. /\ "apply" \notin Begin /\ "apply" \notin Ended /\ at[p] \in Working
      /\ at[p] \in Unreceipted /\ at[p] \in Begin
  BY <1>1 DEF Begin, Working, Ended, Unreceipted
<1>5. LocksOK'
  BY <1>1, <1>2, <1>4, GotoOK
<1>6. UNCHANGED <<shared, ghosts, touched, raced, losses>>
  BY <1>1 DEF faults
<1>7. GhostsOK'
  BY <1>2, <1>6, GhostsKept
<1>8. /\ Kept(d', shared') /\ ContentsOK(d') /\ AnswerOK' /\ d'.seen = d.seen
      /\ PayloadBeforeJournal' /\ ReceiptHasItsWork' /\ CallHolds'
  BY <1>3, <1>6, FirmGlobals DEF ghosts
<1>9. /\ at'[p] = "apply" /\ stage'[p] = stage[p] /\ todo'[p] = todo[p]
      /\ todo[p] = DOMAIN Ops[stage[p]]
  BY <1>1, <1>2, <1>4 DEF Goto, LocksOK
<1>10. Pend(p)'
  BY <1>1, <1>2, <1>6, <1>8, <1>9, SeenKeeps DEF CallInv
<1>11. Done(p)' /\ Secured(p)'
  BY <1>9, NothingDone
<1>12. Answers(p)' /\ Unclaimed(p)' /\ PayloadReady(p)'
  BY <1>2, <1>4, <1>6, <1>8, <1>9 DEF CallInv, Answers, Unclaimed, PayloadReady, ghosts
<1>13. \A q \in Procs : CallInv(q)'
  <2>1. CallInv(p)'
    BY <1>10, <1>11, <1>12 DEF CallInv
  <2>2. Step(p)
    BY DEF Step
  <2> QED
    BY <1>2, <2>1, <2>2, AloneInv
<1> QED
  BY <1>5, <1>7, <1>8, <1>13 DEF IInv, CallOK

LEMMA SyncTargetsInv ==
  ASSUME IInv, NEW p \in Procs, SyncTargets(p)
  PROVE  IInv'
<1> DEFINE step == IF dirs[p] = {} THEN "receipt" ELSE "target_fence"
<1>1. /\ at[p] = "apply" /\ todo[p] = {} /\ d' = SyncDirs(d, dirs[p]) /\ Goto(p, step)
      /\ UNCHANGED <<shared, ghosts, faults, raced>> /\ at[p] # "idle"
  BY DEF SyncTargets
<1>2. CallOK /\ Kept(d, shared) /\ LocksOK
  BY DEF IInv, CallOK
<1>3. Firm(d') /\ \A f, x : Reachable(d, f, dirs[p] \cup {"root"}, x) => Reachable(d', f, {"root"}, x)
  BY <1>1, <1>2, FirmSync
<1>4. at'[p] = step
  BY <1>1, <1>2 DEF Goto, LocksOK
<1>5. PayloadReady(p)'
  BY <1>4 DEF PayloadReady
<1>6. ASSUME NEW f \in TargetFiles, Guarded(d, shared, at[p], dirs[p], f)
      PROVE  Guarded(d', shared', step, dirs[p], f)
  <2>1. Secure(d, f, shared) => Secure(d', f, shared)
    BY <1>2, <1>3, SecureTight DEF Firm, Kept
  <2> QED
    BY <1>1, <1>3, <1>6, <2>1 DEF Guarded
<1>7. /\ step \in {"apply"} \cup Begin \cup Working /\ step \notin Begin
      /\ at[p] \in Working /\ at[p] \in Unreceipted
  BY <1>1 DEF Begin, Working, Ended, Unreceipted
<1>8. Step(p)
  BY DEF Step
<1> HIDE DEF step
<1> QED
  BY <1>1, <1>3, <1>5, <1>6, <1>7, <1>8, QuietStep

LEMMA TargetFenceInv ==
  ASSUME IInv, NEW p \in Procs, TargetFence(p)
  PROVE  IInv'
<1>1. /\ at[p] = "target_fence" /\ d' = CrossRoot(d, "root", TargetDevice) /\ Goto(p, "receipt")
      /\ UNCHANGED <<shared, ghosts, faults, raced>> /\ at[p] # "idle"
  BY DEF TargetFence
<1>2. CallOK /\ Kept(d, shared) /\ LocksOK
  BY DEF IInv, CallOK
<1>3. TargetDevice \in Devices /\ TargetDevice = DeviceOf(shared) /\ shared \in BOOLEAN
  BY <1>2, DevicesGiven, TargetDeviceIs DEF Kept
<1>4. Firm(d')
  BY <1>1, <1>2, <1>3, FirmCross
<1>5. PayloadReady(p)'
  BY <1>1, <1>2 DEF PayloadReady, Goto, LocksOK
<1>6. ASSUME NEW f \in TargetFiles, Guarded(d, shared, at[p], dirs[p], f)
      PROVE  Guarded(d', shared', "receipt", dirs[p], f)
  <2>1. Secure(d, f, shared) => Secure(d', f, shared)
    BY <1>3, <1>4, SecureTight DEF Firm
  <2>2. f \in Files
    BY KindsApart
  <2>3. Reachable(d, f, {"root"}, TargetDevice) => Secure(d', f, shared)
    BY <1>1, <1>2, <2>2, TargetFenceSecures
  <2> QED
    BY <1>1, <1>3, <1>6, <2>1, <2>3 DEF Guarded
<1>7. /\ "receipt" \in {"apply"} \cup Begin \cup Working /\ "receipt" \notin Begin
      /\ at[p] \in Working /\ at[p] \in Unreceipted /\ todo[p] = {}
  BY <1>1, <1>2 DEF Begin, Working, Ended, Unreceipted, LocksOK
<1>8. Step(p)
  BY DEF Step
<1> QED
  BY <1>1, <1>4, <1>5, <1>6, <1>7, <1>8, QuietStep

LEMMA ReceiptFlushInv ==
  ASSUME IInv, NEW p \in Procs, ReceiptFlush(p)
  PROVE  IInv'
<1>1. /\ at[p] = "receipt_flush" /\ d' = Flush(d, "receipts", "state")
      /\ Goto(p, "remove_journal")
      /\ UNCHANGED <<shared, ghosts, faults, raced>> /\ at[p] # "idle"
  BY DEF ReceiptFlush, StateDevice
<1>2. CallOK /\ Kept(d, shared) /\ LocksOK
  BY DEF IInv, CallOK
<1>3. Firm(d')
  BY <1>1, <1>2, FirmFlush, DevicesGiven
<1>4. PayloadReady(p)'
  BY <1>1, <1>2 DEF PayloadReady, Goto, LocksOK
<1>5. d'.seen = d.seen
  BY <1>3 DEF Firm, Tighter
<1>6. ASSUME NEW f \in TargetFiles, Guarded(d, shared, at[p], dirs[p], f)
      PROVE  Guarded(d', shared', "remove_journal", dirs[p], f)
  <2>1. Secure(d, f, shared) /\ f \in Files
    BY <1>1, <1>6, KindsApart DEF Guarded
  <2>2. Fixed(d', f, d.seen[f])
    BY <1>1, <1>2, <2>1, ReceiptFlushFixes
  <2> QED
    BY <1>5, <2>2 DEF Guarded
<1>7. /\ "remove_journal" \in {"apply"} \cup Begin \cup Working /\ "remove_journal" \notin Begin
      /\ at[p] \in Working /\ "remove_journal" \notin Unreceipted /\ todo[p] = {}
  BY <1>1, <1>2 DEF Begin, Working, Ended, Unreceipted, LocksOK
<1>8. Step(p)
  BY DEF Step
<1> QED
  BY <1>1, <1>3, <1>4, <1>6, <1>7, <1>8, QuietStep

LEMMA KillInv ==
  ASSUME IInv, NEW p \in Procs, Kill(p)
  PROVE  IInv'
<1>1. /\ at[p] # "idle" /\ Leave(p) /\ d' = d
      /\ UNCHANGED <<shared, ghosts, touched, raced, losses>>
  BY DEF Kill
<1> QED
  BY <1>1, QuietEnd

LEMMA PowerLossInv ==
  ASSUME IInv, PowerLoss
  PROVE  IInv'
<1>1. PICK h \in Images(d) : d' = Settled(h)
  BY DEF PowerLoss
<1>2. /\ LocksOK /\ GhostsOK /\ Kept(d, shared) /\ ContentsOK(d) /\ AnswerOK
      /\ PayloadBeforeJournal /\ ReceiptHasItsWork /\ CallHolds
  BY DEF IInv, CallOK
<1>3. UNCHANGED <<shared, ghosts, touched, raced>> /\ losses' = losses + 1
  BY DEF PowerLoss
<1>4. /\ answered' = answered /\ touched' = touched /\ newest' = newest /\ redone' = redone
      /\ skipped' = skipped /\ shared' = shared /\ raced' = raced
  BY <1>3 DEF ghosts
<1>5. Kept(d', shared') /\ ContentsOK(d') /\ Images(d') \subseteq Images(d)
  BY <1>1, <1>2, <1>4, SettledKept
<1>6. PayloadBeforeJournal' /\ ReceiptHasItsWork' /\ CallHolds'
  BY <1>2, <1>4, <1>5, FewerJournals, FewerReceipts, FewerAnswers
<1>7. AnswerOK' /\ GhostsOK'
  BY <1>2, <1>3, <1>4 DEF AnswerOK, GhostsOK
<1>8. LocksOK' /\ \A p \in Procs : at'[p] = "idle"
  <2>1. /\ lock' = Nobody /\ at' = [p \in Procs |-> "idle"] /\ stage' = [p \in Procs |-> Nobody]
        /\ todo' = [p \in Procs |-> {}] /\ dirs' = [p \in Procs |-> {}]
        /\ recovering' = [p \in Procs |-> FALSE]
    BY DEF PowerLoss
  <2>2. "idle" \notin Begin /\ "idle" \notin Ended /\ Nobody \notin Procs
    BY CommitAssumption DEF Begin, Ended
  <2> QED
    BY <2>1, <2>2 DEF LocksOK
<1> QED
  BY <1>5, <1>6, <1>7, <1>8, IdleInv DEF IInv, CallOK
-----------------------------------------------------------------------------
(* The steps that start a call *)

LEMMA InitInv == Init => IInv
<1> SUFFICES ASSUME Init PROVE IInv
  OBVIOUS
<1> DEFINE tree == [f \in Files |-> IF f[1] = "target" THEN Tree[f[2]] ELSE Absent]
<1>1. d = Settled(tree) /\ shared \in BOOLEAN
  BY DEF Init
<1>2. IsMap(tree) /\ DOMAIN tree = Files
  BY DEF IsMap
<1>3. \A f \in Files : tree[f] \in Contents
  <2>1. \A p \in Paths : Target(p)[1] = "target" /\ Target(p)[2] = p
    BY DEF Target
  <2>2. \A s \in Stages : /\ Journal(s)[1] # "target" /\ Receipt(s)[1] # "target"
                          /\ Payload(s)[1] # "target"
    BY DEF Journal, Receipt, Payload
  <2>3. ASSUME NEW f \in Files PROVE tree[f] \in Contents
    <3>1. CASE f \in TargetFiles
      <4>1. PICK p \in Paths : f = Target(p)
        BY <3>1 DEF TargetFiles
      <4>2. tree[f] = Tree[p]
        BY <2>1, <2>3, <4>1
      <4> QED
        BY <4>2 DEF Contents
    <3>2. CASE f \notin TargetFiles
      <4>1. f[1] # "target"
        BY <2>2, <2>3, <3>2, KindsApart DEF JournalFiles, ReceiptFiles, PayloadFiles
      <4>2. tree[f] = Absent
        BY <2>3, <4>1
      <4> QED
        BY <4>2 DEF Contents
    <3> QED
      BY <3>1, <3>2
  <2> QED
    BY <2>3
<1>4. \A s \in Stages : tree[Journal(s)] = Absent
  BY FilesGiven DEF Journal
<1> HIDE DEF tree
<1>5. /\ StoreOK(d) /\ All(d) = {} /\ Images(d) = {tree}
      /\ d.seen = tree /\ d.disk = tree /\ d.epoch = [dev \in Devices |-> 0]
  BY <1>1, <1>2, SettledFacts DEF Settled
<1>6. Kept(d, shared) /\ ContentsOK(d)
  BY <1>1, <1>2, <1>3, <1>5, DevicesGiven DEF Kept, ContentsOK
<1>7. CallOK /\ \A p \in Procs : at[p] = "idle"
  <2>1. "idle" \notin Begin /\ "idle" \notin Ended /\ Nobody \notin Procs
    BY CommitAssumption DEF Begin, Ended
  <2>2. LocksOK
    BY <2>1 DEF Init, LocksOK
  <2>3. GhostsOK
    BY DEF Init, GhostsOK
  <2> QED
    BY <2>2, <2>3 DEF Init, CallOK
<1>8. \A p \in Procs : CallInv(p)
  BY <1>7 DEF CallInv, PayloadReady, Pend, Done, Secured, Answers, Unclaimed, Working,
              Unreceipted
<1>9. PayloadBeforeJournal
  BY <1>4, <1>5, CommitAssumption DEF PayloadBeforeJournal
<1>10. ReceiptHasItsWork /\ CallHolds /\ AnswerOK
  BY CommitAssumption DEF Init, ReceiptHasItsWork, CallHolds, RanToEnd, ResultStays, AnswerOK
<1> QED
  BY <1>6, <1>7, <1>8, <1>9, <1>10 DEF IInv

LEMMA CommitFromReceiptInv ==
  ASSUME IInv, NEW p \in Procs, NEW s \in Stages, CommitFromReceipt(p, s)
  PROVE  IInv'
<1>1. /\ lock = Nobody /\ answered'.stage = s /\ answered'.by \in {"receipt", "leftover"}
      /\ UNCHANGED <<d, shared, call, newest, redone, skipped, faults, raced>>
  BY DEF CommitFromReceipt
<1>2. /\ LocksOK /\ GhostsOK /\ Kept(d, shared) /\ ContentsOK(d)
      /\ PayloadBeforeJournal /\ ReceiptHasItsWork
  BY DEF IInv, CallOK
<1>3. LocksOK' /\ \A q \in Procs : at'[q] = "idle"
  BY <1>1, <1>2, CommitAssumption DEF LocksOK, call
<1>4. GhostsOK'
  BY <1>1, <1>2 DEF GhostsOK, faults
<1>5. answered'.by \notin {"commit", "recover"}
  BY <1>1
<1>6. PayloadBeforeJournal' /\ ReceiptHasItsWork'
  BY <1>1, <1>2, FewerJournals, FewerReceipts DEF faults
<1>7. Kept(d', shared') /\ ContentsOK(d')
  BY <1>1, <1>2
<1> QED
  BY <1>1, <1>3, <1>4, <1>5, <1>6, <1>7, NoAnswer, IdleInv DEF IInv, CallOK

LEMMA CommitStartInv ==
  ASSUME IInv, NEW p \in Procs, NEW s \in Stages, CommitStart(p, s)
  PROVE  IInv'
<1>1. /\ lock = Nobody /\ Preflight(d.seen, s) /\ Enter(p, s, "payload", DOMAIN Ops[s], FALSE)
      /\ UNCHANGED <<d, shared, newest, redone, answered, skipped, faults>> /\ raced' = {}
  BY DEF CommitStart, Enter
<1>2. LocksOK /\ GhostsOK /\ Kept(d, shared)
  BY DEF IInv, CallOK
<1>3. LocksOK' /\ at'[p] = "payload" /\ stage'[p] = s /\ todo'[p] = DOMAIN Ops[s]
  BY <1>1, <1>2, EnterOK
<1>4. GhostsOK'
  BY <1>1, <1>2 DEF GhostsOK, faults
<1>5. Firm(d') /\ UNCHANGED <<shared, newest, redone, answered, skipped, touched>>
  BY <1>1, <1>2, FirmSame DEF faults
<1>6. /\ Kept(d', shared') /\ ContentsOK(d') /\ AnswerOK'
      /\ PayloadBeforeJournal' /\ ReceiptHasItsWork' /\ CallHolds'
  BY <1>5, FirmGlobals
<1>7. Pend(p)'
  BY <1>1, <1>3 DEF Pend, Awaits, Preflight, PendingIn, Seen
<1>8. Done(p)' /\ Secured(p)'
  BY <1>3, NothingDone
<1>9. Answers(p)' /\ Unclaimed(p)' /\ PayloadReady(p)'
  BY <1>3 DEF Answers, Unclaimed, PayloadReady, Working, Unreceipted
<1>10. \A q \in Procs : CallInv(q)'
  <2>1. CallInv(p)'
    BY <1>7, <1>8, <1>9 DEF CallInv
  <2>2. Step(p)
    BY DEF Step
  <2> QED
    BY <1>2, <2>1, <2>2, AloneInv
<1> QED
  BY <1>3, <1>4, <1>6, <1>10 DEF IInv, CallOK

LEMMA RecoverStartInv ==
  ASSUME IInv, NEW p \in Procs, NEW s \in Stages, RecoverStart(p, s)
  PROVE  IInv'
<1> DEFINE done == {i \in DOMAIN Ops[s] : DoneIn(d.seen, Ops[s][i])}
<1>1. /\ lock = Nobody /\ \A i \in DOMAIN Ops[s] \ done : PendingIn(d.seen, Ops[s][i])
      /\ Enter(p, s, "apply", DOMAIN Ops[s] \ done, TRUE) /\ raced' = {}
      /\ UNCHANGED <<d, shared, faults>>
      /\ newest' = s /\ answered'.by = "none"
      /\ redone' = IF d.seen[Receipt(s)] = Absent THEN redone ELSE redone \cup {s}
      /\ skipped' = (skipped \/ Unordered(Journal(s)) \/ \E i \in done :
                       \E path \in PathsOf(Ops[s][i]) : Unordered(Target(path)))
  BY DEF RecoverStart, Enter, Begun
<1>d. done \subseteq DOMAIN Ops[s] /\ \A i \in done : DoneIn(d.seen, Ops[s][i])
  OBVIOUS
<1> HIDE DEF done
<1>2. LocksOK /\ GhostsOK /\ Kept(d, shared) /\ ContentsOK(d) /\ PayloadBeforeJournal
  BY DEF IInv, CallOK
<1>3. LocksOK' /\ at'[p] = "apply" /\ stage'[p] = s /\ todo'[p] = DOMAIN Ops[s] \ done
      /\ recovering'[p] = TRUE
  BY <1>1, <1>2, EnterOK
<1>4. GhostsOK'
  <2>1. skipped' \in BOOLEAN /\ newest' \in Stages /\ redone' \subseteq Stages
    BY <1>1, <1>2 DEF GhostsOK
  <2> QED
    BY <1>1, <1>2, <2>1 DEF GhostsOK, faults
<1>5. Kept(d', shared') /\ ContentsOK(d') /\ PayloadBeforeJournal'
  BY <1>1, <1>2, FewerJournals
<1>6. newest' \notin redone' => d'.seen[Receipt(newest')] = Absent
  BY <1>1
<1>7. ReceiptHasItsWork' /\ CallHolds' /\ AnswerOK'
  BY <1>1, <1>5, <1>6, NoReceiptYet, NoAnswer
<1>8. Pend(p)'
  BY <1>1, <1>3 DEF Pend, Awaits, PendingIn, Seen
<1>9. Done(p)'
  BY <1>1, <1>d, <1>3 DEF Done
<1>10. Secured(p)'
  <2> SUFFICES ASSUME ~skipped', NEW i \in done, NEW path \in PathsOf(Ops[s][i])
               PROVE  Guarded(d', shared', at'[p], dirs'[p], Target(path))
    BY <1>3, <1>d DEF Secured, Sure
  <2>1. ~Unordered(Target(path))
    BY <1>1
  <2>2. Target(path) \in TargetFiles
    BY <1>d, StageOps, FilesGiven DEF PathsOf
  <2>3. Secure(d, Target(path), shared)
    BY <1>2, <2>1, <2>2, OrderedSecure
  <2> QED
    BY <1>1, <1>3, <2>3 DEF Guarded
<1>11. Answers(p)' /\ Unclaimed(p)' /\ PayloadReady(p)'
  BY <1>1, <1>3, <1>6 DEF Answers, Unclaimed, PayloadReady
<1>12. \A q \in Procs : CallInv(q)'
  <2>1. CallInv(p)'
    BY <1>8, <1>9, <1>10, <1>11 DEF CallInv
  <2>2. Step(p)
    BY DEF Step
  <2> QED
    BY <1>2, <2>1, <2>2, AloneInv
<1> QED
  BY <1>3, <1>4, <1>5, <1>7, <1>12 DEF IInv, CallOK
-----------------------------------------------------------------------------
(* The steps that write *)

\* A write of other names leaves alone what p sees and what it has secured.
LEMMA WriteKeepsCall ==
  ASSUME CallOK, Kept(d, shared), NEW p \in Procs, at[p] # "idle", Pend(p), Done(p), Secured(p),
         NEW upd, NEW body, NEW left, NEW dev, Adds(d, d', upd, body, left, dev, shared),
         DOMAIN upd \cap TargetFiles = {}, UNCHANGED <<shared, raced, touched, skipped>>,
         stage'[p] = stage[p], todo'[p] = todo[p], recovering'[p] = recovering[p],
         dirs'[p] = dirs[p], at'[p] = "receipt_flush" => at[p] = "receipt",
         at'[p] # "receipt_flush" => todo[p] = DOMAIN Ops[stage[p]]
  PROVE  Pend(p)' /\ Done(p)' /\ Secured(p)'
<1>1. \A f \in TargetFiles :
        /\ d'.seen[f] = d.seen[f]
        /\ Secure(d, f, shared) => Secure(d', f, shared)
  <2>1. shared \in BOOLEAN /\ \A f \in TargetFiles : f \in Files /\ f \notin DOMAIN upd
    BY KindsApart DEF Kept
  <2> QED
    BY <2>1, SecureAdds
<1>2. Pend(p)' /\ Done(p)'
  BY <1>1, SeenKeeps
<1>3. CASE at'[p] = "receipt_flush"
  <2>1. \A f \in TargetFiles : Guarded(d, shared, at[p], dirs[p], f)
                                 => Guarded(d', shared', at'[p], dirs'[p], f)
    BY <1>1, <1>3 DEF Guarded
  <2> QED
    BY <1>2, <2>1, SecuredKeeps
<1>4. CASE at'[p] # "receipt_flush"
  BY <1>2, <1>4, NothingDone
<1> QED
  BY <1>3, <1>4

LEMMA WritePayloadInv ==
  ASSUME IInv, NEW p \in Procs, WritePayload(p)
  PROVE  IInv'
<1> DEFINE s == stage[p]
           f == Payload(s)
<1>1. /\ at[p] = "payload" /\ at[p] # "idle" /\ UNCHANGED <<shared, ghosts, faults, raced>>
      /\ \/ /\ d.seen[f] = Absent /\ Goto(p, "payload_fence")
            /\ d' = Publish(d, f, "whole", "blobs", StateDevice)
         \/ d.seen[f] = "whole" /\ d' = d /\ Goto(p, "payload_fence")
         \/ d' = d /\ Leave(p)
  BY DEF WritePayload
<1>2. /\ LocksOK /\ GhostsOK /\ CallOK /\ CallInv(p) /\ Kept(d, shared) /\ ContentsOK(d)
      /\ PayloadBeforeJournal /\ ReceiptHasItsWork /\ CallHolds /\ AnswerOK
  BY DEF IInv, CallOK
<1>3. s \in Stages /\ f \in Files /\ f \in PayloadFiles
  BY <1>1, <1>2, ActiveStage, FilesGiven
<1>4. /\ "payload_fence" \in {"apply"} \cup Begin \cup Working /\ at[p] \in Begin
      /\ "payload_fence" \notin Ended /\ "payload_fence" \notin Working
      /\ "payload_fence" \notin Unreceipted
  BY <1>1 DEF Begin, Working, Ended, Unreceipted
<1>5. Step(p)
  BY DEF Step
<1>6. CASE d' = d /\ Leave(p)
  BY <1>1, <1>6, QuietEnd DEF faults
<1>7. CASE d.seen[f] = "whole" /\ d' = d /\ Goto(p, "payload_fence")
  <2>1. at'[p] = "payload_fence" /\ stage'[p] = stage[p]
    BY <1>2, <1>7 DEF Goto, LocksOK
  <2>2. PayloadReady(p)'
    BY <1>7, <2>1 DEF PayloadReady
  <2>3. Firm(d')
    BY <1>2, <1>7, FirmSame
  <2>4. \A g : Guarded(d', shared', "payload_fence", dirs[p], g)
    BY DEF Guarded
  <2> QED
    BY <1>1, <1>4, <1>5, <1>7, <2>2, <2>3, <2>4, QuietStep
<1>8. CASE /\ d.seen[f] = Absent /\ Goto(p, "payload_fence")
           /\ d' = Publish(d, f, "whole", "blobs", StateDevice)
  <2> DEFINE upd == One(f, "whole")
  <2>1. PICK body : Adds(d, d', upd, body, {"blobs"}, "state", shared)
    BY <1>2, <1>3, <1>8, WritePayloadAdds
  <2>2. DOMAIN upd = {f} /\ upd[f] = "whole"
    BY OneValue
  <2> HIDE DEF upd
  <2>3. DOMAIN upd \cap TargetFiles = {} /\ DOMAIN upd \cap ReceiptFiles = {}
    BY <1>3, <2>2, KindsApart
  <2>4. Kept(d', shared') /\ ContentsOK(d')
    BY <1>1, <1>2, <2>1, AddsKept
  <2>5. LocksOK'
    BY <1>1, <1>2, <1>4, <1>8, GotoOK
  <2>6. GhostsOK'
    BY <1>1, <1>2, GhostsKept DEF faults
  <2>7. /\ at'[p] = "payload_fence" /\ stage'[p] = s /\ todo'[p] = todo[p]
        /\ recovering'[p] = recovering[p] /\ dirs'[p] = dirs[p] /\ todo[p] = DOMAIN Ops[s]
    BY <1>2, <1>4, <1>8 DEF Goto, LocksOK
  <2>8. UNCHANGED <<shared, raced, touched, skipped, newest, redone, answered>>
    BY <1>1 DEF ghosts, faults
  <2>9. Pend(p)' /\ Done(p)' /\ Secured(p)'
    BY <1>1, <1>2, <2>1, <2>3, <2>7, <2>8, WriteKeepsCall DEF CallInv
  <2>10. PayloadReady(p)'
    BY <1>2, <2>1, <2>2, <2>7, AddsSets DEF PayloadReady
  <2>11. Answers(p)' /\ Unclaimed(p)'
    BY <1>4, <2>7 DEF Answers, Unclaimed
  <2>12. \A q \in Procs : CallInv(q)'
    <3>1. CallInv(p)'
      BY <2>9, <2>10, <2>11 DEF CallInv
    <3> QED
      BY <1>2, <1>5, <3>1, AloneInv
  <2>13. ReceiptHasItsWork' /\ CallHolds' /\ AnswerOK'
    <3>1. DOMAIN upd \cap (ReceiptFiles \cup TargetFiles) = {}
      BY <2>3
    <3>2. ReceiptHasItsWork'
      BY <1>2, <2>1, <2>8, <3>1, OtherReceipts
    <3>3. CallHolds' /\ AnswerOK'
      BY <1>2, <2>1, <2>3, <2>8, CallOther DEF AnswerOK
    <3> QED
      BY <3>2, <3>3
  <2>14. PayloadBeforeJournal'
    <3> SUFFICES ASSUME NEW h \in Images(d'), NEW t \in Stages, h[Journal(t)] = "whole"
                 PROVE  h[Payload(t)] = "whole"
      BY DEF PayloadBeforeJournal
    <3>1. PICK m \in Images(d) : \A g \in Files \ DOMAIN upd : h[g] = m[g]
      BY <1>2, <2>1, AddsImage
    <3>2. Journal(t) \notin DOMAIN upd
      BY <2>2, <1>3, KindsApart, FilesGiven
    <3>3. m[Payload(t)] = "whole"
      BY <1>2, <3>1, <3>2, FilesGiven DEF PayloadBeforeJournal
    <3>4. CASE t = s
      <4>1. m[Payload(t)] = Absent
        BY <1>2, <1>3, <1>8, <3>4, AbsentStays DEF Fixed
      <4> QED
        BY <3>3, <4>1, CommitAssumption
    <3>5. CASE t # s
      <4>1. Payload(t) \notin DOMAIN upd
        BY <2>2, <3>5, NamesApart
      <4> QED
        BY <3>1, <3>3, <4>1, FilesGiven
    <3> QED
      BY <3>4, <3>5
  <2> QED
    BY <2>4, <2>5, <2>6, <2>12, <2>13, <2>14 DEF IInv, CallOK
<1> QED
  BY <1>1, <1>6, <1>7, <1>8

LEMMA WriteJournalInv ==
  ASSUME IInv, NEW p \in Procs, WriteJournal(p)
  PROVE  IInv'
<1> DEFINE s == stage[p]
           upd == One(Journal(s), "whole")
<1>1. /\ at[p] = "journal" /\ at[p] # "idle" /\ UNCHANGED <<shared, skipped, faults, raced>>
      /\ d' = Publish(d, Journal(s), "whole", "journals", StateDevice)
      /\ Goto(p, "journal_fence")
      /\ newest' = s /\ answered' = [stage |-> Nobody, by |-> "none"]
      /\ redone' = IF d.seen[Receipt(s)] = Absent THEN redone ELSE redone \cup {s}
  BY DEF WriteJournal, Begun
<1>2. /\ LocksOK /\ GhostsOK /\ CallOK /\ CallInv(p) /\ Kept(d, shared) /\ ContentsOK(d)
      /\ PayloadBeforeJournal
  BY DEF IInv, CallOK
<1>3. s \in Stages /\ Journal(s) \in Files /\ Journal(s) \in JournalFiles
  BY <1>1, <1>2, ActiveStage, FilesGiven
<1>4. /\ "journal_fence" \in {"apply"} \cup Begin \cup Working /\ at[p] \in Begin
      /\ "journal_fence" \notin Ended
  BY <1>1 DEF Begin, Working, Ended
<1>5. PICK body : Adds(d, d', upd, body, {"journals"}, "state", shared)
  BY <1>1, <1>2, <1>3, WriteJournalAdds
<1>6. DOMAIN upd = {Journal(s)} /\ upd[Journal(s)] = "whole"
  BY OneValue
<1> HIDE DEF upd
<1>7. DOMAIN upd \cap TargetFiles = {} /\ DOMAIN upd \cap ReceiptFiles = {}
      /\ DOMAIN upd \cap PayloadFiles = {}
  BY <1>3, <1>6, KindsApart
<1>8. Kept(d', shared') /\ ContentsOK(d')
  BY <1>1, <1>2, <1>5, AddsKept
<1>9. LocksOK'
  BY <1>1, <1>2, <1>4, GotoOK
<1>10. GhostsOK'
  <2>1. newest' \in Stages /\ redone' \subseteq Stages
    BY <1>1, <1>2, <1>3 DEF GhostsOK
  <2> QED
    BY <1>1, <1>2, <2>1 DEF GhostsOK, faults
<1>11. /\ at'[p] = "journal_fence" /\ stage'[p] = s /\ todo'[p] = todo[p]
       /\ recovering'[p] = recovering[p] /\ dirs'[p] = dirs[p] /\ todo[p] = DOMAIN Ops[s]
  BY <1>1, <1>2, <1>4 DEF Goto, LocksOK
<1>12. UNCHANGED <<shared, raced, touched, skipped>>
  BY <1>1 DEF faults
<1>13. Pend(p)' /\ Done(p)' /\ Secured(p)'
  BY <1>1, <1>2, <1>5, <1>7, <1>11, <1>12, WriteKeepsCall DEF CallInv
<1>14. newest' \notin redone' => d'.seen[Receipt(newest')] = Absent
  <2>1. Receipt(s) \in Files /\ Receipt(s) \notin DOMAIN upd
    BY <1>3, <1>7, FilesGiven
  <2>2. d'.seen[Receipt(s)] = d.seen[Receipt(s)] /\ shared \in BOOLEAN
    BY <1>2, <1>5, <2>1, SecureAdds DEF GhostsOK
  <2> QED
    BY <1>1, <2>2
<1>15. Answers(p)' /\ Unclaimed(p)' /\ PayloadReady(p)'
  BY <1>1, <1>11, <1>14 DEF Answers, Unclaimed, PayloadReady
<1>16. \A q \in Procs : CallInv(q)'
  <2>1. CallInv(p)'
    BY <1>13, <1>15 DEF CallInv
  <2>2. Step(p)
    BY DEF Step
  <2> QED
    BY <1>2, <2>1, <2>2, AloneInv
<1>17. ReceiptHasItsWork' /\ CallHolds' /\ AnswerOK'
  BY <1>1, <1>8, <1>14, NoReceiptYet, NoAnswer
<1>18. PayloadBeforeJournal'
  <2> SUFFICES ASSUME NEW h \in Images(d'), NEW t \in Stages, h[Journal(t)] = "whole"
               PROVE  h[Payload(t)] = "whole"
    BY DEF PayloadBeforeJournal
  <2>1. PICK m \in Images(d) : /\ \A g \in Files \ DOMAIN upd : h[g] = m[g]
                               /\ h = m \/ m \in After(d, "state")
    BY <1>2, <1>5, AddsImage
  <2>2. h[Payload(t)] = m[Payload(t)]
    BY <1>7, <2>1, FilesGiven
  <2>3. CASE h[Journal(t)] = m[Journal(t)]
    BY <1>2, <2>2, <2>3 DEF PayloadBeforeJournal
  <2>4. CASE h[Journal(t)] # m[Journal(t)]
    <3>1. t = s /\ m \in After(d, "state")
      BY <1>6, <2>1, <2>4, NamesApart, FilesGiven
    <3>2. Behind(d, Payload(s), "whole", "state")
      BY <1>1, <1>2 DEF CallInv, PayloadReady
    <3> QED
      BY <2>2, <3>1, <3>2 DEF Behind
  <2> QED
    BY <2>3, <2>4
<1> QED
  BY <1>8, <1>9, <1>10, <1>16, <1>17, <1>18 DEF IInv, CallOK

LEMMA WriteReceiptInv ==
  ASSUME IInv, NEW p \in Procs, WriteReceipt(p)
  PROVE  IInv'
<1> DEFINE s == stage[p]
           upd == One(Receipt(s), "whole")
<1>1. /\ at[p] = "receipt" /\ at[p] # "idle" /\ UNCHANGED <<shared, ghosts, faults, raced>>
      /\ d' = Publish(d, Receipt(s), "whole", "receipts", StateDevice)
      /\ Goto(p, "receipt_flush")
  BY DEF WriteReceipt
<1>2. /\ LocksOK /\ GhostsOK /\ CallOK /\ CallInv(p) /\ Kept(d, shared) /\ ContentsOK(d)
      /\ PayloadBeforeJournal /\ CallHolds /\ AnswerOK
  BY DEF IInv, CallOK
<1>3. s \in Stages /\ Receipt(s) \in Files /\ Receipt(s) \in ReceiptFiles
  BY <1>1, <1>2, ActiveStage, FilesGiven
<1>4. /\ "receipt_flush" \in {"apply"} \cup Begin \cup Working /\ "receipt_flush" \notin Begin
      /\ at[p] \in Ended /\ at[p] \in Working /\ at[p] \in Unreceipted
      /\ "receipt_flush" \notin Unreceipted
  BY <1>1 DEF Begin, Working, Ended, Unreceipted
<1>5. PICK body : Adds(d, d', upd, body, {"receipts"}, "state", shared)
  BY <1>1, <1>2, <1>3, WriteReceiptAdds
<1>6. DOMAIN upd = {Receipt(s)} /\ upd[Receipt(s)] = "whole"
  BY OneValue
<1> HIDE DEF upd
<1>7. DOMAIN upd \cap TargetFiles = {} /\ DOMAIN upd \cap (JournalFiles \cup PayloadFiles) = {}
  BY <1>3, <1>6, KindsApart
<1>8. Kept(d', shared') /\ ContentsOK(d')
  BY <1>1, <1>2, <1>5, AddsKept
<1>9. /\ todo[p] = {} /\ LocksOK'
  BY <1>1, <1>2, <1>4, GotoOK DEF LocksOK
<1>10. GhostsOK'
  BY <1>1, <1>2, GhostsKept DEF faults
<1>11. /\ at'[p] = "receipt_flush" /\ stage'[p] = s /\ todo'[p] = todo[p]
       /\ recovering'[p] = recovering[p] /\ dirs'[p] = dirs[p]
  BY <1>1, <1>2 DEF Goto, LocksOK
<1>12. UNCHANGED <<shared, raced, touched, skipped, newest, redone, answered>>
  BY <1>1 DEF faults, ghosts
<1>13. Pend(p)' /\ Done(p)' /\ Secured(p)'
  BY <1>1, <1>2, <1>5, <1>7, <1>11, <1>12, WriteKeepsCall DEF CallInv
<1>14. Answers(p)' /\ Unclaimed(p)' /\ PayloadReady(p)'
  BY <1>2, <1>4, <1>11, <1>12 DEF CallInv, Answers, Unclaimed, PayloadReady
<1>15. \A q \in Procs : CallInv(q)'
  <2>1. CallInv(p)'
    BY <1>13, <1>14 DEF CallInv
  <2>2. Step(p)
    BY DEF Step
  <2> QED
    BY <1>2, <2>1, <2>2, AloneInv
<1>16. PayloadBeforeJournal'
  BY <1>2, <1>5, <1>7, OtherJournals
<1>17. CallHolds' /\ AnswerOK'
  BY <1>2, <1>5, <1>7, <1>12, CallOther DEF AnswerOK
<1>18. ReceiptHasItsWork'
  <2> SUFFICES ASSUME newest \in Stages \ redone, touched = {}, ~skipped,
                      NEW h \in Images(d'), h[Receipt(newest)] = "whole"
               PROVE  AllDone(h, newest)
    BY <1>12 DEF ReceiptHasItsWork
  <2>1. newest = s /\ d.seen[Receipt(s)] = Absent
    BY <1>2, <1>4 DEF CallInv, Answers, Unclaimed
  <2>2. Fixed(d, Receipt(s), Absent)
    BY <1>2, <1>3, <2>1, AbsentStays
  <2>3. PICK m \in Images(d) : /\ \A g \in Files \ DOMAIN upd : h[g] = m[g]
                               /\ h = m \/ m \in After(d, "state")
    BY <1>2, <1>5, AddsImage
  <2>4. m \in After(d, "state")
    BY <2>1, <2>2, <2>3, CommitAssumption DEF Fixed
  <2>5. \A g \in TargetFiles : Secure(d, g, shared) => h[g] = d.seen[g]
    <3>1. \A g \in TargetFiles : h[g] = m[g]
      BY <1>7, <2>3, KindsApart
    <3> QED
      BY <2>4, <3>1 DEF Secure, Behind, Fixed
  <2>6. ASSUME NEW i \in DOMAIN Ops[s] PROVE DoneIn(h, Ops[s][i])
    <3>1. /\ DoneIn(d.seen, Ops[s][i])
          /\ Guarded(d, shared, "receipt", dirs[p], Target(Ops[s][i].from))
          /\ Guarded(d, shared, "receipt", dirs[p], Target(Ops[s][i].to))
      BY <1>1, <1>2, <1>9 DEF CallInv, Done, Secured, Sure, Clean, PathsOf
    <3>2. Target(Ops[s][i].from) \in TargetFiles /\ Target(Ops[s][i].to) \in TargetFiles
      BY <1>3, StageOps, FilesGiven
    <3>3. /\ h[Target(Ops[s][i].from)] = d.seen[Target(Ops[s][i].from)]
          /\ h[Target(Ops[s][i].to)] = d.seen[Target(Ops[s][i].to)]
      BY <2>5, <3>1, <3>2 DEF Guarded
    <3> QED
      BY <3>1, <3>3 DEF DoneIn
  <2> QED
    BY <2>1, <2>6 DEF AllDone
<1> QED
  BY <1>8, <1>9, <1>10, <1>15, <1>16, <1>17, <1>18 DEF IInv, CallOK

LEMMA RemoveJournalInv ==
  ASSUME IInv, NEW p \in Procs, RemoveJournal(p)
  PROVE  IInv'
<1> DEFINE s == stage[p]
           upd == One(Journal(s), Absent)
<1>1. /\ at[p] = "remove_journal" /\ at[p] # "idle" /\ Leave(p)
      /\ UNCHANGED <<shared, newest, redone, skipped, faults, raced>>
      /\ d' = d \/ d' = Write(d, upd, FALSE, {"journals"}, StateDevice)
      /\ answered'.stage = s /\ answered'.by = IF recovering[p] THEN "recover" ELSE "commit"
  BY DEF RemoveJournal
<1>2. /\ LocksOK /\ GhostsOK /\ CallOK /\ CallInv(p) /\ Kept(d, shared) /\ ContentsOK(d)
      /\ PayloadBeforeJournal /\ ReceiptHasItsWork
  BY DEF IInv, CallOK
<1>3. s \in Stages /\ Journal(s) \in Files /\ Journal(s) \in JournalFiles
  BY <1>1, <1>2, ActiveStage, FilesGiven
<1>4. LocksOK' /\ \A q \in Procs : at'[q] = "idle"
  BY <1>1, <1>2, LeaveOK
<1>5. GhostsOK'
  BY <1>1, <1>2 DEF GhostsOK, faults
<1>6. AnswerOK'
  BY <1>1, <1>3 DEF AnswerOK
<1>7. at[p] \in Ended /\ todo[p] = {}
  BY <1>1, <1>2 DEF Ended, LocksOK
<1>8. UNCHANGED <<newest, redone, touched, skipped>>
  BY <1>1 DEF faults
\* What the targets are is settled.
<1>9. ASSUME Sure(p), touched = {}, NEW h, NEW m \in Images(d),
             \A f \in TargetFiles : h[f] = m[f]
      PROVE  AllDone(h, s)
  <2>1. ASSUME NEW i \in DOMAIN Ops[s] PROVE DoneIn(h, Ops[s][i])
    <3>1. /\ DoneIn(d.seen, Ops[s][i])
          /\ Guarded(d, shared, "remove_journal", dirs[p], Target(Ops[s][i].from))
          /\ Guarded(d, shared, "remove_journal", dirs[p], Target(Ops[s][i].to))
      BY <1>1, <1>2, <1>7, <1>9 DEF CallInv, Done, Secured, Clean, PathsOf
    <3>2. Target(Ops[s][i].from) \in TargetFiles /\ Target(Ops[s][i].to) \in TargetFiles
      BY <1>3, StageOps, FilesGiven
    <3>3. /\ h[Target(Ops[s][i].from)] = d.seen[Target(Ops[s][i].from)]
          /\ h[Target(Ops[s][i].to)] = d.seen[Target(Ops[s][i].to)]
      BY <1>9, <3>1, <3>2 DEF Guarded, Fixed
    <3> QED
      BY <3>1, <3>3 DEF DoneIn
  <2> QED
    BY <2>1 DEF AllDone
<1>10. CASE d' = d
  <2>1. Kept(d', shared') /\ ContentsOK(d') /\ PayloadBeforeJournal' /\ ReceiptHasItsWork'
    BY <1>1, <1>2, <1>8, <1>10, FewerJournals, FewerReceipts
  <2>2. CallHolds'
    BY <1>1, <1>8, <1>9, <1>10 DEF CallHolds, ResultStays, RanToEnd, Sure
  <2> QED
    BY <1>4, <1>5, <1>6, <2>1, <2>2, IdleInv DEF IInv, CallOK
<1>11. CASE d' = Write(d, upd, FALSE, {"journals"}, StateDevice)
  <2>1. PICK body : Adds(d, d', upd, body, {"journals"}, "state", shared)
    BY <1>2, <1>3, <1>11, RemoveJournalAdds
  <2>2. DOMAIN upd = {Journal(s)} /\ upd[Journal(s)] = Absent
    BY OneValue
  <2>a. Absent # "whole" /\ Absent # Torn
    BY CommitAssumption
  <2> HIDE DEF upd
  <2>3. /\ DOMAIN upd \cap TargetFiles = {} /\ DOMAIN upd \cap (ReceiptFiles \cup TargetFiles) = {}
        /\ DOMAIN upd \cap PayloadFiles = {}
    BY <1>3, <2>2, KindsApart
  <2>4. Kept(d', shared') /\ ContentsOK(d')
    BY <1>1, <1>2, <2>1, AddsKept
  <2>5. ReceiptHasItsWork'
    BY <1>2, <1>8, <2>1, <2>3, OtherReceipts
  <2>6. CallHolds'
    <3> SUFFICES ASSUME RanToEnd', touched = {}, NEW h \in Images(d')
                 PROVE  AllDone(h, s)
      BY <1>1, <1>8 DEF CallHolds, ResultStays
    <3>1. PICK m \in Images(d) : \A f \in Files \ DOMAIN upd : h[f] = m[f]
      BY <1>2, <2>1, AddsImage
    <3>2. \A f \in TargetFiles : h[f] = m[f]
      BY <2>3, <3>1, KindsApart
    <3>3. Sure(p)
      BY <1>1, <1>8 DEF RanToEnd, Sure
    <3> QED
      BY <1>9, <3>2, <3>3
  <2>7. PayloadBeforeJournal'
    <3> SUFFICES ASSUME NEW h \in Images(d'), NEW t \in Stages, h[Journal(t)] = "whole"
                 PROVE  h[Payload(t)] = "whole"
      BY DEF PayloadBeforeJournal
    <3>1. PICK m \in Images(d) :
            /\ \A f \in Files \ DOMAIN upd : h[f] = m[f]
            /\ h = m \/ \A f \in DOMAIN upd : h[f] = upd[f] \/ (body /\ h[f] = Torn)
      BY <1>2, <2>1, AddsImage
    <3>2. h[Journal(t)] = m[Journal(t)]
      <4>1. Journal(t) \in Files
        BY FilesGiven
      <4> QED
        BY <2>2, <2>a, <3>1, <4>1, CommitAssumption
    <3>3. h[Payload(t)] = m[Payload(t)]
      BY <2>3, <3>1, FilesGiven
    <3> QED
      BY <1>2, <3>2, <3>3 DEF PayloadBeforeJournal
  <2> QED
    BY <1>4, <1>5, <1>6, <2>4, <2>5, <2>6, <2>7, IdleInv DEF IInv, CallOK
<1> QED
  BY <1>1, <1>10, <1>11

LEMMA LeastExists ==
  ASSUME NEW S, S \subseteq Nat, S # {}
  PROVE  \E i \in S : \A n \in S : i <= n
<1>1. PICK i \in S : \A n \in S : ~ (<<n, i>> \in OpToRel(<, Nat))
  BY NatLessThanWellFounded, WFMin
<1>2. \A n \in S : n \in Nat /\ i \in Nat /\ ~(n < i)
  BY <1>1 DEF OpToRel
<1> QED
  BY <1>2

\* apply_operation, once it can: the next operation as the preflight found it.
LEMMA ApplyNext ==
  ASSUME CallOK, NEW p \in Procs, Apply(p)
  PROVE  \/ d' = d /\ Leave(p) /\ skipped' = skipped
         \/ \E i \in todo[p] :
              /\ d' = Effect(Ops[stage[p]][i])
              /\ todo' = [todo EXCEPT ![p] = @ \ {i}]
              /\ dirs' = [dirs EXCEPT ![p] = @ \cup Swept(Ops[stage[p]][i])]
              /\ skipped' = (skipped \/ ~Named(Ops[stage[p]][i]))
              /\ UNCHANGED <<lock, at, stage, recovering>>
<1> DEFINE i == CHOOSE k \in todo[p] : \A n \in todo[p] : k <= n
<1>1. at[p] = "apply" /\ at[p] # "idle" /\ todo[p] # {}
  BY DEF Apply
<1>2. todo[p] \subseteq Nat
  BY <1>1, ActiveStage
<1>3. i \in todo[p]
  BY <1>1, <1>2, LeastExists
<1>4. IF CanApply(Ops[stage[p]][i])
      THEN /\ d' = Effect(Ops[stage[p]][i])
           /\ todo' = [todo EXCEPT ![p] = @ \ {i}]
           /\ dirs' = [dirs EXCEPT ![p] = @ \cup Swept(Ops[stage[p]][i])]
           /\ skipped' = (skipped \/ ~Named(Ops[stage[p]][i]))
           /\ UNCHANGED <<lock, at, stage, recovering>>
      ELSE d' = d /\ Leave(p) /\ skipped' = skipped
  BY DEF Apply
<1> HIDE DEF i
<1> QED
  BY <1>3, <1>4

LEMMA ApplyInv ==
  ASSUME IInv, NEW p \in Procs, Apply(p)
  PROVE  IInv'
<1> DEFINE s == stage[p]
<1>1. /\ at[p] = "apply" /\ at[p] # "idle"
      /\ UNCHANGED <<shared, newest, redone, answered, entangled, faults, raced>>
  BY DEF Apply
<1>2. /\ LocksOK /\ GhostsOK /\ CallOK /\ CallInv(p) /\ Kept(d, shared) /\ ContentsOK(d)
      /\ PayloadBeforeJournal
  BY DEF IInv, CallOK
<1>3. s \in Stages /\ todo[p] \subseteq DOMAIN Ops[s] /\ shared \in BOOLEAN
  BY <1>1, <1>2, ActiveStage DEF Kept
<1>4. UNCHANGED <<shared, touched, raced, losses, newest, redone, answered>>
  BY <1>1 DEF faults
<1>5. CASE d' = d /\ Leave(p) /\ skipped' = skipped
  BY <1>1, <1>4, <1>5, QuietEnd DEF ghosts
<1>6. CASE \E i \in todo[p] :
             /\ d' = Effect(Ops[s][i])
             /\ todo' = [todo EXCEPT ![p] = @ \ {i}]
             /\ dirs' = [dirs EXCEPT ![p] = @ \cup Swept(Ops[s][i])]
             /\ skipped' = (skipped \/ ~Named(Ops[s][i]))
             /\ UNCHANGED <<lock, at, stage, recovering>>
  <2>1. PICK i \in todo[p] :
             /\ d' = Effect(Ops[s][i])
             /\ todo' = [todo EXCEPT ![p] = @ \ {i}]
             /\ dirs' = [dirs EXCEPT ![p] = @ \cup Swept(Ops[s][i])]
             /\ skipped' = (skipped \/ ~Named(Ops[s][i]))
             /\ UNCHANGED <<lock, at, stage, recovering>>
    BY <1>6
  <2> DEFINE op == Ops[s][i]
             upd == EffectOf(op)
  <2>2. /\ WellFormed(op) /\ op.new \in Contents /\ op.from \in Paths /\ op.to \in Paths
        /\ \A j \in DOMAIN Ops[s] : i # j => Apart(op, Ops[s][j])
    BY <1>3, <2>1, StageOps
  <2>3. d' = Effect(op) /\ Awaits(op)
    BY <1>1, <1>2, <2>1 DEF CallInv, Pend
  <2>4. PICK body : Adds(d, d', upd, body, Carriers(op), TargetDevice, shared)
    BY <1>2, <2>2, <2>3, EffectAdds
  <2>5. /\ DOMAIN upd = {Target(op.from), Target(op.to)}
        /\ op.kind = "move" => /\ upd[Target(op.from)] = Absent
                               /\ upd[Target(op.to)] = Seen(op.from)
        /\ op.kind # "move" => upd[Target(op.to)] = op.new
    BY <2>2, EffectValues
  <2>6. LocksOK' /\ todo'[p] = todo[p] \ {i} /\ dirs'[p] = dirs[p] \cup Swept(op)
    <3>1. /\ todo' = [todo EXCEPT ![p] = @ \ {i}]
          /\ dirs' = [dirs EXCEPT ![p] = @ \cup Swept(op)]
          /\ UNCHANGED <<lock, at, stage, recovering>>
      BY <2>1
    <3> HIDE DEF op
    <3> QED
      BY <1>1, <1>2, <2>2, <3>1, ApplyOK
  <2>7. at'[p] = "apply" /\ stage'[p] = s /\ recovering'[p] = recovering[p]
    BY <1>1, <2>1
  <2>a. /\ skipped' = (skipped \/ ~Named(op)) /\ op = Ops[s][i] /\ i \in DOMAIN Ops[s]
    BY <1>3, <2>1
  <2> HIDE DEF op, upd
  <2>8. GhostsOK'
    <3>1. skipped' \in BOOLEAN
      BY <1>2, <2>a DEF GhostsOK
    <3> QED
      BY <1>2, <1>4, <3>1 DEF GhostsOK
  <2>9. Kept(d', shared') /\ ContentsOK(d')
    BY <1>2, <1>4, <2>4, AddsKept
  <2>10. Target(op.from) \in TargetFiles /\ Target(op.to) \in TargetFiles
    BY <2>2, FilesGiven
  <2>11. PayloadBeforeJournal'
    <3>1. DOMAIN upd \cap (JournalFiles \cup PayloadFiles) = {}
      BY <2>5, <2>10, KindsApart
    <3> QED
      BY <1>2, <2>4, <3>1, OtherJournals
  <2>12. /\ answered.by = "none" /\ newest = s
         /\ newest \notin redone => d.seen[Receipt(newest)] = Absent
    BY <1>1, <1>2 DEF CallInv, Answers, Unclaimed, Working, Unreceipted
  <2>13. newest' \notin redone' => d'.seen[Receipt(newest')] = Absent
    <3>1. Receipt(s) \in Files /\ Receipt(s) \notin DOMAIN upd
      BY <1>3, <2>5, <2>10, FilesGiven, KindsApart
    <3>2. d'.seen[Receipt(s)] = d.seen[Receipt(s)]
      BY <1>2, <1>3, <2>4, <3>1, SecureAdds
    <3> QED
      BY <1>4, <2>12, <3>2
  <2>14. ReceiptHasItsWork' /\ CallHolds' /\ AnswerOK'
    BY <1>4, <2>9, <2>12, <2>13, NoReceiptYet, NoAnswer
  <2>15. Answers(p)' /\ Unclaimed(p)' /\ PayloadReady(p)'
    BY <1>4, <2>7, <2>12, <2>13 DEF Answers, Unclaimed, PayloadReady
  \* The other operations are about other paths.
  <2>16. ASSUME NEW j \in DOMAIN Ops[s], j # i,
                NEW f \in {Target(Ops[s][j].from), Target(Ops[s][j].to)}
         PROVE  /\ d'.seen[f] = d.seen[f]
                /\ Secure(d, f, shared) => Secure(d', f, shared)
                /\ \A ds, x : Reachable(d, f, ds, x) => Reachable(d', f, ds, x)
    <3>1. Apart(op, Ops[s][j]) /\ Ops[s][j].from \in Paths /\ Ops[s][j].to \in Paths
      BY <1>3, <2>2, <2>16, StageOps
    <3>a. /\ op.from # Ops[s][j].from /\ op.from # Ops[s][j].to
          /\ op.to # Ops[s][j].from /\ op.to # Ops[s][j].to
      BY <3>1 DEF Apart, PathsOf
    <3>b. f # Target(op.from) /\ f # Target(op.to)
      BY <2>16, <3>a, NamesApart
    <3>2. f \notin DOMAIN upd
      BY <2>5, <3>b
    <3>3. f \in Files
      BY <2>16, <3>1, FilesGiven
    <3> QED
      BY <1>2, <1>3, <2>4, <3>2, <3>3, SecureAdds
  <2>17. d'.seen[Target(op.to)] = upd[Target(op.to)]
         /\ d'.seen[Target(op.from)] = upd[Target(op.from)]
         /\ Reachable(d', Target(op.to), Carriers(op), TargetDevice)
         /\ Reachable(d', Target(op.from), Carriers(op), TargetDevice)
    BY <1>2, <2>4, <2>5, AddsSets
  <2>18. Pend(p)'
    <3> SUFFICES ASSUME NEW j \in todo[p], j # i
                 PROVE  LET o == Ops[s][j] IN
                        /\ o.from \notin raced => d'.seen[Target(o.from)] = o.old
                        /\ o.kind = "move" /\ o.to \notin raced => d'.seen[Target(o.to)] = Absent
      BY <1>4, <2>6, <2>7 DEF Pend, Awaits, Seen
    <3>1. Awaits(Ops[s][j]) /\ j \in DOMAIN Ops[s]
      BY <1>1, <1>2, <1>3 DEF CallInv, Pend
    <3>2. /\ d'.seen[Target(Ops[s][j].from)] = d.seen[Target(Ops[s][j].from)]
          /\ d'.seen[Target(Ops[s][j].to)] = d.seen[Target(Ops[s][j].to)]
      BY <2>16, <3>1
    <3> QED
      BY <3>1, <3>2 DEF Awaits, Seen
  <2>19. Done(p)'
    <3> SUFFICES ASSUME NEW j \in DOMAIN Ops[s], j \notin todo[p] \/ j = i, Clean(Ops[s][j])
                 PROVE  DoneIn(d'.seen, Ops[s][j])
      BY <1>4, <2>6, <2>7 DEF Done, Clean
    <3>1. CASE j = i
      <4>1. op.from \notin raced
        BY <1>2, <3>1 DEF GhostsOK, Clean, PathsOf, op
      <4>2. op.kind = "move" => Seen(op.from) = op.new
        BY <2>2, <2>3, <4>1 DEF Awaits, WellFormed
      <4>3. DoneIn(d'.seen, op)
        BY <2>5, <2>17, <4>2 DEF DoneIn
      <4> QED
        BY <3>1, <4>3 DEF op
    <3>2. CASE j # i
      <4>1. DoneIn(d.seen, Ops[s][j])
        BY <1>1, <1>2, <3>2 DEF CallInv, Done
      <4>2. /\ d'.seen[Target(Ops[s][j].from)] = d.seen[Target(Ops[s][j].from)]
            /\ d'.seen[Target(Ops[s][j].to)] = d.seen[Target(Ops[s][j].to)]
        BY <2>16, <3>2
      <4> QED
        BY <4>1, <4>2 DEF DoneIn
    <3> QED
      BY <3>1, <3>2
  <2>20. Secured(p)'
    <3>a. Sure(p)' => Sure(p) /\ Named(op)
      BY <2>7, <2>a DEF Sure, NamedStage
    <3> SUFFICES ASSUME Sure(p), Named(op),
                        NEW j \in DOMAIN Ops[s], j \notin todo[p] \/ j = i,
                        NEW path \in PathsOf(Ops[s][j]) \ touched
                 PROVE  Guarded(d', shared', "apply", dirs'[p], Target(path))
      BY <1>4, <2>6, <2>7, <3>a DEF Secured
    <3> DEFINE f == Target(path)
    <3>0. f \in {Target(Ops[s][j].from), Target(Ops[s][j].to)}
      BY DEF PathsOf
    <3>1. CASE j = i
      <4>1. Reachable(d', f, Carriers(op), DeviceOf(shared)) /\ Swept(op) # {}
        BY <2>17, <2>a, <3>0, <3>1, TargetDeviceIs DEF Swept
      <4>2. dirs'[p] # {} /\ Carriers(op) \subseteq dirs'[p] \cup {"root"}
        BY <2>6, <4>1 DEF Named
      <4>3. Reachable(d', f, dirs'[p] \cup {"root"}, DeviceOf(shared))
        BY <4>1, <4>2 DEF Reachable
      <4> QED
        BY <1>4, <4>2, <4>3 DEF Guarded
    <3>2. CASE j # i
      <4>1. Guarded(d, shared, "apply", dirs[p], f)
        BY <1>1, <1>2, <3>2 DEF CallInv, Secured
      <4>2. /\ Secure(d, f, shared) => Secure(d', f, shared)
            /\ \A ds, x : Reachable(d, f, ds, x) => Reachable(d', f, ds, x)
        BY <2>16, <3>0, <3>2
      <4>3. Secure(d', f, shared) \/ (dirs[p] # {} /\ Reachable(d', f, dirs[p] \cup {"root"}, DeviceOf(shared)))
        BY <4>1, <4>2 DEF Guarded
      <4>4. Reachable(d', f, dirs[p] \cup {"root"}, DeviceOf(shared))
              => Reachable(d', f, dirs'[p] \cup {"root"}, DeviceOf(shared))
        BY <2>6 DEF Reachable
      <4>5. dirs[p] # {} => dirs'[p] # {}
        BY <2>6
      <4> QED
        BY <1>4, <4>3, <4>4, <4>5 DEF Guarded
    <3> QED
      BY <3>1, <3>2
  <2>21. \A q \in Procs : CallInv(q)'
    <3>1. CallInv(p)'
      BY <2>15, <2>18, <2>19, <2>20 DEF CallInv
    <3>2. Step(p)
      BY DEF Step
    <3> QED
      BY <1>2, <3>1, <3>2, AloneInv
  <2> QED
    BY <2>6, <2>8, <2>9, <2>11, <2>14, <2>21 DEF IInv, CallOK
<1> QED
  BY <1>2, <1>5, <1>6, ApplyNext

LEMMA EditInv ==
  ASSUME IInv, NEW path \in Paths, Edit(path)
  PROVE  IInv'
<1> DEFINE upd == One(Target(path), Edited)
<1>1. /\ d' = Write(d, upd, FALSE, Homes[path], TargetDevice)
      /\ touched' = touched \cup {path} /\ raced' = raced \cup {path}
      /\ answered' = [stage |-> Nobody, by |-> "none"]
      /\ UNCHANGED <<shared, call, newest, redone, skipped, entangled, losses>>
  BY DEF Edit
<1>2. /\ LocksOK /\ GhostsOK /\ Kept(d, shared) /\ ContentsOK(d) /\ PayloadBeforeJournal
      /\ CallOK /\ \A p \in Procs : CallInv(p)
  BY DEF IInv, CallOK
<1>3. PICK body : Adds(d, d', upd, body, Homes[path], TargetDevice, shared)
  BY <1>1, <1>2, EditAdds
<1>4. DOMAIN upd = {Target(path)}
  BY OneValue
<1> HIDE DEF upd
<1>5. Target(path) \in TargetFiles
  BY FilesGiven
<1>6. Kept(d', shared') /\ ContentsOK(d')
  BY <1>1, <1>2, <1>3, AddsKept
<1>7. LocksOK'
  BY <1>1, <1>2 DEF LocksOK, call
<1>8. GhostsOK'
  BY <1>1, <1>2 DEF GhostsOK
<1>9. PayloadBeforeJournal'
  <2>1. DOMAIN upd \cap (JournalFiles \cup PayloadFiles) = {}
    BY <1>4, <1>5, KindsApart
  <2> QED
    BY <1>2, <1>3, <2>1, OtherJournals
<1>10. ReceiptHasItsWork'
  BY <1>1 DEF ReceiptHasItsWork
<1>11. CallHolds' /\ AnswerOK'
  BY <1>1, NoAnswer
<1>12. \A f \in Files : f # Target(path) =>
         /\ d'.seen[f] = d.seen[f]
         /\ Secure(d, f, shared) => Secure(d', f, shared)
         /\ \A v : Fixed(d, f, v) => Fixed(d', f, v)
         /\ \A v, x : Behind(d, f, v, x) => Behind(d', f, v, x)
         /\ \A ds, x : Reachable(d, f, ds, x) => Reachable(d', f, ds, x)
  <2>1. shared \in BOOLEAN
    BY <1>2 DEF GhostsOK
  <2> QED
    BY <1>2, <1>3, <1>4, <2>1, SecureAdds
<1>13. ASSUME NEW p \in Procs PROVE CallInv(p)'
  <2>0. /\ CallInv(p) /\ at' = at /\ stage' = stage /\ todo' = todo /\ dirs' = dirs
        /\ recovering' = recovering /\ skipped' = skipped /\ shared' = shared
    BY <1>1, <1>2 DEF call
  <2>1. CASE at[p] = "idle"
    BY <2>0, <2>1, IdleInv
  <2>2. CASE at[p] # "idle"
    <3>1. stage[p] \in Stages /\ todo[p] \subseteq DOMAIN Ops[stage[p]]
      BY <1>2, <2>2, ActiveStage
    <3>2. PayloadReady(p)'
      <4>1. Payload(stage[p]) \in Files /\ Payload(stage[p]) # Target(path)
        BY <3>1, FilesGiven, NamesApart
      <4> QED
        BY <1>12, <2>0, <4>1 DEF CallInv, PayloadReady
    <3>3. Pend(p)'
      <4> SUFFICES ASSUME NEW i \in todo[p]
                   PROVE  LET o == Ops[stage[p]][i] IN
                          /\ o.from \notin raced' => d'.seen[Target(o.from)] = o.old
                          /\ o.kind = "move" /\ o.to \notin raced' => d'.seen[Target(o.to)] = Absent
        BY <2>0 DEF Pend, Awaits, Seen
      <4> DEFINE op == Ops[stage[p]][i]
      <4>1. Awaits(op) /\ op.from \in Paths /\ op.to \in Paths
        BY <2>0, <2>2, <3>1, StageOps DEF CallInv, Pend
      <4> HIDE DEF op
      <4>2. \A x \in Paths : x # path => d'.seen[Target(x)] = d.seen[Target(x)]
        BY <1>12, FilesGiven, NamesApart
      <4>3. /\ op.from \notin raced' => d'.seen[Target(op.from)] = op.old
            /\ op.kind = "move" /\ op.to \notin raced' => d'.seen[Target(op.to)] = Absent
        BY <1>1, <4>1, <4>2 DEF Awaits, Seen
      <4> QED
        BY <4>3 DEF op
    <3>4. Done(p)'
      <4> SUFFICES ASSUME NEW i \in DOMAIN Ops[stage[p]] \ todo[p],
                          PathsOf(Ops[stage[p]][i]) \cap touched' = {}
                   PROVE  DoneIn(d'.seen, Ops[stage[p]][i])
        BY <2>0 DEF Done, Clean
      <4> DEFINE op == Ops[stage[p]][i]
      <4>1. Clean(op) /\ path \notin PathsOf(op)
        BY <1>1 DEF Clean
      <4>2. DoneIn(d.seen, op) /\ op.from \in Paths /\ op.to \in Paths
        BY <2>0, <2>2, <3>1, <4>1, StageOps DEF CallInv, Done
      <4>3. d'.seen[Target(op.from)] = d.seen[Target(op.from)]
            /\ d'.seen[Target(op.to)] = d.seen[Target(op.to)]
        BY <1>12, <4>1, <4>2, FilesGiven, NamesApart DEF PathsOf
      <4> HIDE DEF op
      <4>4. DoneIn(d'.seen, op)
        BY <4>2, <4>3 DEF DoneIn
      <4> QED
        BY <4>4 DEF op
    <3>7. Secured(p)'
      <4> SUFFICES ASSUME Sure(p), NEW i \in DOMAIN Ops[stage[p]] \ todo[p],
                          NEW x \in PathsOf(Ops[stage[p]][i]) \ touched'
                   PROVE  Guarded(d', shared', at[p], dirs[p], Target(x))
        BY <2>0 DEF Secured, Sure
      <4>1. Guarded(d, shared, at[p], dirs[p], Target(x)) /\ x # path
        BY <1>1, <2>0, <2>2 DEF CallInv, Secured
      <4>2. Target(x) \in Files /\ Target(x) # Target(path)
        BY <3>1, <4>1, StageOps, FilesGiven, NamesApart DEF PathsOf
      <4> QED
        BY <1>12, <2>0, <4>1, <4>2 DEF Guarded
    <3>5. Answers(p)'
      BY <1>1, <2>0 DEF CallInv, Answers
    <3>6. Unclaimed(p)'
      <4> SUFFICES ASSUME at[p] \in Unreceipted, newest \notin redone
                   PROVE  d'.seen[Receipt(newest)] = Absent
        BY <1>1, <2>0 DEF Unclaimed
      <4>1. newest = stage[p] /\ d.seen[Receipt(newest)] = Absent
        BY <2>0 DEF CallInv, Answers, Unclaimed, Working, Unreceipted
      <4>2. Receipt(newest) \in Files /\ Receipt(newest) # Target(path)
        BY <3>1, <4>1, FilesGiven, NamesApart
      <4> QED
        BY <1>12, <4>1, <4>2
    <3> QED
      BY <3>2, <3>3, <3>4, <3>5, <3>6, <3>7 DEF CallInv
  <2> QED
    BY <2>1, <2>2
<1> QED
  BY <1>6, <1>7, <1>8, <1>9, <1>10, <1>11, <1>13 DEF IInv, CallOK

LEMMA StutterInv ==
  ASSUME IInv, UNCHANGED vars
  PROVE  IInv'
<1>1. UNCHANGED <<d, shared, lock, at, stage, todo, dirs, recovering, newest, redone,
                  answered, skipped, touched, raced, losses>>
  BY DEF vars, call, ghosts, faults
<1>2. CallOK' /\ Kept(d', shared') /\ ContentsOK(d') /\ AnswerOK'
  BY <1>1 DEF IInv, CallOK, LocksOK, GhostsOK, AnswerOK
<1>3. \A p \in Procs : CallInv(p)'
  BY <1>1 DEF IInv, CallInv, PayloadReady, Pend, Awaits, Seen, Done, Clean, Secured, Sure, Answers,
              Unclaimed
<1>4. PayloadBeforeJournal' /\ ReceiptHasItsWork' /\ CallHolds'
  BY <1>1 DEF IInv, PayloadBeforeJournal, ReceiptHasItsWork, CallHolds, RanToEnd, ResultStays
<1> QED
  BY <1>2, <1>3, <1>4 DEF IInv

LEMMA NextInv == IInv /\ [Next]_vars => IInv'
<1> SUFFICES ASSUME IInv, [Next]_vars PROVE IInv'
  OBVIOUS
<1>1. ASSUME NEW p \in Procs, Step(p) PROVE IInv'
  <2>1. ASSUME NEW s \in Stages, CommitFromReceipt(p, s) \/ CommitStart(p, s) \/ RecoverStart(p, s)
        PROVE  IInv'
    BY <2>1, CommitFromReceiptInv, CommitStartInv, RecoverStartInv
  <2>2. CASE WritePayload(p) \/ PayloadFence(p) \/ WriteJournal(p) \/ JournalFence(p)
    BY <2>2, WritePayloadInv, PayloadFenceInv, WriteJournalInv, JournalFenceInv
  <2>3. CASE Apply(p) \/ SyncTargets(p) \/ TargetFence(p)
    BY <2>3, ApplyInv, SyncTargetsInv, TargetFenceInv
  <2>4. CASE WriteReceipt(p) \/ ReceiptFlush(p) \/ RemoveJournal(p)
    BY <2>4, WriteReceiptInv, ReceiptFlushInv, RemoveJournalInv
  <2> QED
    BY <1>1, <2>1, <2>2, <2>3, <2>4 DEF Step
<1>2. ASSUME NEW p \in Procs, Kill(p) PROVE IInv'
  BY <1>2, KillInv
<1>3. ASSUME NEW path \in Paths, Edit(path) PROVE IInv'
  BY <1>3, EditInv
<1>4. CASE PowerLoss
  BY <1>4, PowerLossInv
<1>5. CASE UNCHANGED vars
  BY <1>5, StutterInv
<1> QED
  BY <1>1, <1>2, <1>3, <1>4, <1>5, CommitAssumption DEF Next
-----------------------------------------------------------------------------
(* Journals: stages that follow, undo or cross one another *)

\* No recovery built on writes that no one had ordered, and no call was begun over
\* the journal of another stage that shares a path with its own.
Calm == ~skipped /\ ~entangled

OfStage(path, s) == \E i \in DOMAIN Ops[s] : path \in PathsOf(Ops[s][i])

Early == {"payload", "payload_fence", "journal"}
Late  == {"apply"} \cup Ended

\* A path that no one has edited is settled, or a stage with a journal has it.
SettledPaths ==
  Calm => \A path \in Paths \ touched :
    \/ Fixed(d, Target(path), Seen(path))
    \/ \E s \in Stages : OfStage(path, s) /\ d.seen[Journal(s)] # Absent

\* A journal is still to be fenced, or the fence that secured it secured the removal
\* of the journals before it that share a path with it.
Linked ==
  Calm => \A t \in Stages : d.seen[Journal(t)] # Absent =>
    \/ Waits(d, Journal(t), "journals")
    \/ /\ Secure(d, Journal(t), shared)
       /\ \A s \in Stages : Cross(t, s) /\ d.seen[Journal(s)] = Absent
                              => Secure(d, Journal(s), shared)

\* What recover finds in the files h of an operation, of a stage.
Finishable(h, op, edited) ==
  \/ DoneIn(h, op) \/ PendingIn(h, op)
  \/ PathsOf(op) \cap edited # {}
  \/ \E path \in PathsOf(op) : h[Target(path)] = Torn

Recoverable(h, s, edited) ==
  h[Journal(s)] = "whole" => \A i \in DOMAIN Ops[s] : Finishable(h, Ops[s][i], edited)

Kempt(h, s) == AllDone(h, s) \/ Preflight(h, s) \/ h[Journal(s)] = "whole"

Finish == Calm => \A h \in Images(d) : \A s \in Stages : Recoverable(h, s, touched)

Logged ==
  Calm /\ touched = {} => \A h \in Images(d) : \A s \in Stages :
    s = newest \/ d.seen[Journal(s)] = "whole" => Kempt(h, s)

\* An answer from a receipt: the result is settled.
ReceiptHolds == answered.by = "receipt" /\ Calm /\ touched = {} => ResultStays

\* The journal of a call, and those of the stages that share a path with it.
Journaled(p) ==
  /\ at[p] \in Early => d.seen[Journal(stage[p])] = Absent
  /\ at[p] \in Working => d.seen[Journal(stage[p])] = "whole"

Untangled(p) ==
  ~entangled /\ at[p] # "idle" =>
    \A s \in Stages : Cross(stage[p], s) => d.seen[Journal(s)] = Absent

Fenced(p) ==
  Calm /\ at[p] \in Late =>
    \A s \in Stages : s = stage[p] \/ Cross(stage[p], s) => Secure(d, Journal(s), shared)

LogInv(p) == Journaled(p) /\ Untangled(p) /\ Fenced(p)

ChainInv ==
  /\ SettledPaths /\ Linked /\ Finish /\ Logged /\ ReceiptHolds
  /\ \A p \in Procs : LogInv(p)
-----------------------------------------------------------------------------

LEMMA CrossSym == \A s, t : Cross(s, t) => Cross(t, s)
  BY DEF Cross, Apart

LEMMA CrossPath ==
  ASSUME NEW s, NEW t, s # t, NEW path, OfStage(path, s), OfStage(path, t)
  PROVE  Cross(s, t)
<1>1. PICK i \in DOMAIN Ops[s] : path \in PathsOf(Ops[s][i])
  BY DEF OfStage
<1>2. PICK j \in DOMAIN Ops[t] : path \in PathsOf(Ops[t][j])
  BY DEF OfStage
<1>3. ~Apart(Ops[s][i], Ops[t][j])
  BY <1>1, <1>2 DEF Apart
<1> QED
  BY <1>3 DEF Cross

LEMMA StagePaths ==
  ASSUME NEW s \in Stages, NEW i \in DOMAIN Ops[s]
  PROVE  /\ OfStage(Ops[s][i].from, s) /\ OfStage(Ops[s][i].to, s)
         /\ \A path \in PathsOf(Ops[s][i]) : OfStage(path, s) /\ path \in Paths
  BY StageOps DEF OfStage, PathsOf

LEMMA OfPaths ==
  ASSUME NEW s \in Stages, NEW path, OfStage(path, s)
  PROVE  path \in Paths
  BY StagePaths DEF OfStage

LEMMA OpAgrees ==
  ASSUME NEW op, NEW h, NEW m, NEW edited,
         h[Target(op.from)] = m[Target(op.from)], h[Target(op.to)] = m[Target(op.to)]
  PROVE  /\ DoneIn(m, op) => DoneIn(h, op)
         /\ PendingIn(m, op) => PendingIn(h, op)
         /\ Finishable(m, op, edited) => Finishable(h, op, edited)
<1>1. DoneIn(m, op) => DoneIn(h, op)
  BY DEF DoneIn
<1>2. PendingIn(m, op) => PendingIn(h, op)
  BY DEF PendingIn
<1>3. \A path \in PathsOf(op) : m[Target(path)] = Torn => h[Target(path)] = Torn
  BY DEF PathsOf
<1> QED
  BY <1>1, <1>2, <1>3 DEF Finishable

\* The same files, as far as a stage is concerned.
LEMMA StageAgrees ==
  ASSUME NEW s \in Stages, NEW h, NEW m, NEW edited,
         \A path : OfStage(path, s) => h[Target(path)] = m[Target(path)]
  PROVE  /\ AllDone(m, s) => AllDone(h, s)
         /\ Preflight(m, s) => Preflight(h, s)
         /\ h[Journal(s)] = m[Journal(s)] =>
              /\ Recoverable(m, s, edited) => Recoverable(h, s, edited)
              /\ Kempt(m, s) => Kempt(h, s)
<1>1. \A i \in DOMAIN Ops[s] :
        /\ h[Target(Ops[s][i].from)] = m[Target(Ops[s][i].from)]
        /\ h[Target(Ops[s][i].to)] = m[Target(Ops[s][i].to)]
  BY StagePaths
<1>2. \A i \in DOMAIN Ops[s] :
        /\ DoneIn(m, Ops[s][i]) => DoneIn(h, Ops[s][i])
        /\ PendingIn(m, Ops[s][i]) => PendingIn(h, Ops[s][i])
        /\ Finishable(m, Ops[s][i], edited) => Finishable(h, Ops[s][i], edited)
  BY <1>1, OpAgrees
<1> QED
  BY <1>2 DEF AllDone, Preflight, Recoverable, Kempt

LEMMA JournalReached ==
  ASSUME NEW dd, NEW one, Kept(dd, one), NEW s \in Stages
  PROVE  Reachable(dd, Journal(s), {"journals"}, "state")
<1>1. Journal(s) \in JournalFiles
  BY FilesGiven
<1> QED
  BY <1>1, KindsApart DEF Reachable, Sets, Kept, Proper

\* The fence behind a journal secures all of them, and the removals before it.
LEMMA JournalFenceSecures ==
  ASSUME Kept(d, shared), NEW s \in Stages
  PROVE  Secure(CrossRoot(d, "journals", "state"), Journal(s), shared)
<1> DEFINE e == CrossRoot(d, "journals", "state")
           f == Journal(s)
<1>1. Reachable(d, f, {"journals"}, "state") /\ f \in Files
  BY JournalReached, FilesGiven
<1>2. e.seen = d.seen
  BY FirmCross, DevicesGiven DEF Firm, Tighter
<1>3. CASE shared
  <2>1. e = Fence(d, "journals", "state")
    BY <1>3 DEF CrossRoot
  <2>2. Behind(e, f, d.seen[f], "state") /\ Reachable(e, f, {}, "state")
    BY <1>1, <2>1, FirmFence
  <2> QED
    BY <1>2, <1>3, <2>2 DEF Secure
<1>4. CASE ~shared
  <2>1. e = Flush(d, "journals", "state")
    BY <1>4 DEF CrossRoot
  <2>2. Fixed(e, f, d.seen[f])
    BY <1>1, <2>1, FirmFlush, DevicesGiven
  <2> QED
    BY <1>2, <1>4, <2>2 DEF Secure
<1> QED
  BY <1>3, <1>4 DEF Kept

LEMMA WaitsAdds ==
  ASSUME Kept(d, shared), NEW e, NEW upd, NEW body, NEW left, NEW dev,
         Adds(d, e, upd, body, left, dev, shared), NEW s
  PROVE  /\ Journal(s) \notin DOMAIN upd /\ Waits(d, Journal(s), "journals")
              => Waits(e, Journal(s), "journals")
         /\ DOMAIN upd = {Journal(s)} /\ left = {"journals"} => Waits(e, Journal(s), "journals")
<1>1. StoreOK(d) /\ e = Write(d, upd, body, left, dev)
  BY DEF Kept, Adds
<1> QED
  BY <1>1, WaitsWrite

\* A journal that waits for its sync is one that recover finds unordered.
LEMMA WaitsUnordered ==
  ASSUME NEW f, Waits(d, f, "journals")
  PROVE  Unordered(f)
<1>1. PICK j \in All(d) : Sets(d, j, f) /\ d.pend[j].left = {"journals"}
  BY DEF Waits
<1> QED
  BY <1>1 DEF Unordered, Sets, All
-----------------------------------------------------------------------------

LEMMA LogIdle ==
  ASSUME NEW p, at'[p] = "idle"
  PROVE  LogInv(p)'
  BY DEF LogInv, Journaled, Untangled, Fenced, Early, Working, Late, Ended

LEMMA LogAlone ==
  ASSUME LocksOK, NEW q \in Procs, Step(q) \/ Kill(q), LogInv(q)'
  PROVE  \A p \in Procs : LogInv(p)'
  BY Alone, LogIdle

\* A call goes on over the journals as they were.
LEMMA LogKeeps ==
  ASSUME NEW p, LogInv(p), at[p] # "idle", stage'[p] = stage[p], stage[p] \in Stages,
         entangled' = entangled, ~skipped' => ~skipped,
         \A s \in Stages : /\ d'.seen[Journal(s)] = d.seen[Journal(s)]
                           /\ Secure(d, Journal(s), shared) => Secure(d', Journal(s), shared'),
         at'[p] \in Early => at[p] \in Early, at'[p] \in Working => at[p] \in Working,
         at'[p] \in Late => at[p] \in Late
  PROVE  LogInv(p)'
<1>1. Journaled(p)'
  BY DEF LogInv, Journaled
<1>2. Untangled(p)'
  BY DEF LogInv, Untangled
<1>3. Fenced(p)'
  BY DEF LogInv, Fenced, Calm
<1> QED
  BY <1>1, <1>2, <1>3 DEF LogInv

\* The device only comes to hold more of what was written.
LEMMA FirmChain ==
  ASSUME IInv, ChainInv, Firm(d'), UNCHANGED <<shared, touched>>, Calm' => Calm,
         newest' = newest \/ d.seen[Journal(newest')] = "whole",
         answered' = answered \/ answered'.by # "receipt",
         \/ \A t \in Stages : Waits(d, Journal(t), "journals") => Waits(d', Journal(t), "journals")
         \/ \A t \in Stages : Secure(d', Journal(t), shared)
  PROVE  SettledPaths' /\ Linked' /\ Finish' /\ Logged' /\ ReceiptHolds'
<1>1. /\ d'.seen = d.seen /\ Images(d') \subseteq Images(d) /\ shared' = shared
      /\ touched' = touched
  BY DEF Firm, Tighter
<1>2. \A f : Secure(d, f, shared) => Secure(d', f, shared)
  BY SecureTight DEF Firm, IInv, Kept
<1>3. \A f, v : Fixed(d, f, v) => Fixed(d', f, v)
  BY <1>1 DEF Fixed
<1>4. SettledPaths'
  BY <1>1, <1>3 DEF ChainInv, SettledPaths, Seen
<1>5. Linked'
  BY <1>1, <1>2 DEF ChainInv, Linked
<1>6. Finish'
  BY <1>1 DEF ChainInv, Finish
<1>7. Logged'
  BY <1>1 DEF ChainInv, Logged
<1>8. ReceiptHolds'
  BY <1>1 DEF ChainInv, ReceiptHolds, ResultStays
<1> QED
  BY <1>4, <1>5, <1>6, <1>7, <1>8

LEMMA CrossWaits ==
  ASSUME Kept(d, shared), NEW dir, dir # "journals", NEW dev \in Devices, NEW f,
         Waits(d, f, "journals")
  PROVE  Waits(CrossRoot(d, dir, dev), f, "journals")
<1>1. StoreOK(d) /\ shared \in BOOLEAN
  BY DEF Kept
<1>2. Waits(Fence(d, dir, dev), f, "journals") /\ Waits(Flush(d, dir, dev), f, "journals")
  BY <1>1, WaitsFence, WaitsFlush
<1> QED
  BY <1>2 DEF CrossRoot

\* A step of a call that goes on and writes nothing.
LEMMA QuietChain ==
  ASSUME IInv, ChainInv, NEW p \in Procs, at[p] # "idle", Step(p), NEW step, Goto(p, step),
         Firm(d'), UNCHANGED <<shared, ghosts, touched>>,
         \A t \in Stages : Waits(d, Journal(t), "journals") => Waits(d', Journal(t), "journals"),
         step \in Early => at[p] \in Early, step \in Working => at[p] \in Working,
         step \in Late => at[p] \in Late
  PROVE  ChainInv'
<1>1. LocksOK /\ CallOK /\ LogInv(p) /\ shared \in BOOLEAN
  BY DEF IInv, CallOK, ChainInv, Kept
<1>2. UNCHANGED <<skipped, entangled, newest, answered, shared, touched>>
  BY DEF ghosts
<1>3. SettledPaths' /\ Linked' /\ Finish' /\ Logged' /\ ReceiptHolds'
  <2>1. Calm' => Calm
    BY <1>2 DEF Calm
  <2> QED
    BY <1>2, <2>1, FirmChain
<1>4. at'[p] = step /\ stage'[p] = stage[p] /\ stage[p] \in Stages
  BY <1>1, ActiveStage DEF Goto, LocksOK
<1>5. \A s \in Stages : /\ d'.seen[Journal(s)] = d.seen[Journal(s)]
                        /\ Secure(d, Journal(s), shared) => Secure(d', Journal(s), shared')
  <2>1. d'.seen = d.seen
    BY DEF Firm, Tighter
  <2>2. Tighter(d, d')
    BY DEF Firm
  <2>3. \A f : Secure(d, f, shared) => Secure(d', f, shared)
    BY <1>1, <2>2, SecureTight
  <2> QED
    BY <1>2, <2>1, <2>3
<1>6. LogInv(p)'
  BY <1>1, <1>2, <1>4, <1>5, LogKeeps
<1> QED
  BY <1>1, <1>3, <1>6, LogAlone DEF ChainInv

\* A call ends.
LEMMA QuietLeave ==
  ASSUME IInv, ChainInv, \A q \in Procs : at'[q] = "idle", d' = d,
         UNCHANGED <<shared, ghosts, touched>>
  PROVE  ChainInv'
<1>1. UNCHANGED <<skipped, entangled, newest, answered, shared, touched>>
  BY DEF ghosts
<1>2. Firm(d')
  BY FirmSame DEF IInv
<1>3. Calm' => Calm
  BY <1>1 DEF Calm
<1>4. SettledPaths' /\ Linked' /\ Finish' /\ Logged' /\ ReceiptHolds'
  BY <1>1, <1>2, <1>3, FirmChain
<1> QED
  BY <1>4, LogIdle DEF ChainInv

LEMMA PayloadFenceChain ==
  ASSUME IInv, ChainInv, NEW p \in Procs, PayloadFence(p)
  PROVE  ChainInv'
<1>1. /\ at[p] = "payload_fence" /\ d' = Fence(d, "blobs", "state") /\ Goto(p, "journal")
      /\ UNCHANGED <<shared, ghosts, faults, raced>> /\ at[p] # "idle" /\ Step(p)
  BY DEF PayloadFence, StateDevice, Step
<1>2. Kept(d, shared) /\ StoreOK(d)
  BY DEF IInv, Kept
<1>3. Firm(d')
  BY <1>1, <1>2, FirmFence
<1>4. \A t \in Stages : Waits(d, Journal(t), "journals") => Waits(d', Journal(t), "journals")
  BY <1>1, <1>2, WaitsFence, DevicesGiven
<1>5. /\ at[p] \in Early /\ "journal" \notin Working /\ "journal" \notin Late
      /\ UNCHANGED <<shared, ghosts, touched>>
  BY <1>1 DEF Early, Working, Late, Ended, faults
<1> QED
  BY <1>1, <1>3, <1>4, <1>5, QuietChain

LEMMA SyncTargetsChain ==
  ASSUME IInv, ChainInv, NEW p \in Procs, SyncTargets(p)
  PROVE  ChainInv'
<1> DEFINE step == IF dirs[p] = {} THEN "receipt" ELSE "target_fence"
<1>1. /\ at[p] = "apply" /\ d' = SyncDirs(d, dirs[p]) /\ Goto(p, step)
      /\ UNCHANGED <<shared, ghosts, faults, raced>> /\ at[p] # "idle" /\ Step(p)
  BY DEF SyncTargets, Step
<1>2. Kept(d, shared) /\ StoreOK(d)
  BY DEF IInv, Kept
<1>3. Firm(d')
  BY <1>1, <1>2, FirmSync
<1>4. "journals" \notin dirs[p]
  <2>1. dirs[p] \in SUBSET {DirOf[path] : path \in Paths}
    BY DEF IInv, CallOK, LocksOK
  <2> QED
    BY <2>1, CommitAssumption
<1>5. \A t \in Stages : Waits(d, Journal(t), "journals") => Waits(d', Journal(t), "journals")
  BY <1>1, <1>2, <1>4, WaitsSync
<1>6. /\ at[p] \in Working /\ at[p] \in Late /\ step \notin Early
      /\ UNCHANGED <<shared, ghosts, touched>>
  BY <1>1 DEF Early, Working, Late, Ended, faults
<1> HIDE DEF step
<1> QED
  BY <1>1, <1>3, <1>5, <1>6, QuietChain

LEMMA TargetFenceChain ==
  ASSUME IInv, ChainInv, NEW p \in Procs, TargetFence(p)
  PROVE  ChainInv'
<1>1. /\ at[p] = "target_fence" /\ d' = CrossRoot(d, "root", TargetDevice) /\ Goto(p, "receipt")
      /\ UNCHANGED <<shared, ghosts, faults, raced>> /\ at[p] # "idle" /\ Step(p)
  BY DEF TargetFence, Step
<1>2. Kept(d, shared) /\ TargetDevice \in Devices
  BY DevicesGiven, TargetDeviceIs DEF IInv, Kept
<1>3. Firm(d')
  BY <1>1, <1>2, FirmCross
<1>4. \A t \in Stages : Waits(d, Journal(t), "journals") => Waits(d', Journal(t), "journals")
  BY <1>1, <1>2, CrossWaits
<1>5. /\ at[p] \in Working /\ at[p] \in Late /\ "receipt" \notin Early
      /\ UNCHANGED <<shared, ghosts, touched>>
  BY <1>1 DEF Early, Working, Late, Ended, faults
<1> QED
  BY <1>1, <1>3, <1>4, <1>5, QuietChain

LEMMA ReceiptFlushChain ==
  ASSUME IInv, ChainInv, NEW p \in Procs, ReceiptFlush(p)
  PROVE  ChainInv'
<1>1. /\ at[p] = "receipt_flush" /\ d' = Flush(d, "receipts", "state")
      /\ Goto(p, "remove_journal")
      /\ UNCHANGED <<shared, ghosts, faults, raced>> /\ at[p] # "idle" /\ Step(p)
  BY DEF ReceiptFlush, StateDevice, Step
<1>2. Kept(d, shared) /\ StoreOK(d)
  BY DEF IInv, Kept
<1>3. Firm(d')
  BY <1>1, <1>2, FirmFlush, DevicesGiven
<1>4. \A t \in Stages : Waits(d, Journal(t), "journals") => Waits(d', Journal(t), "journals")
  BY <1>1, <1>2, WaitsFlush, DevicesGiven
<1>5. /\ at[p] \in Working /\ at[p] \in Late /\ "remove_journal" \notin Early
      /\ UNCHANGED <<shared, ghosts, touched>>
  BY <1>1 DEF Early, Working, Late, Ended, faults
<1> QED
  BY <1>1, <1>3, <1>4, <1>5, QuietChain

LEMMA JournalFenceChain ==
  ASSUME IInv, ChainInv, NEW p \in Procs, JournalFence(p)
  PROVE  ChainInv'
<1>1. /\ at[p] = "journal_fence" /\ d' = CrossRoot(d, "journals", "state") /\ Goto(p, "apply")
      /\ UNCHANGED <<shared, ghosts, faults, raced>> /\ at[p] # "idle" /\ Step(p)
  BY DEF JournalFence, StateDevice, Step
<1>2. LocksOK /\ CallOK /\ LogInv(p) /\ Kept(d, shared)
  BY DEF IInv, CallOK, ChainInv
<1>3. UNCHANGED <<skipped, entangled, newest, answered, shared, touched>>
  BY <1>1 DEF ghosts, faults
<1>4. Firm(d')
  BY <1>1, <1>2, FirmCross, DevicesGiven
<1>5. \A t \in Stages : Secure(d', Journal(t), shared)
  BY <1>1, <1>2, JournalFenceSecures
<1>6. SettledPaths' /\ Linked' /\ Finish' /\ Logged' /\ ReceiptHolds'
  <2>1. Calm' => Calm
    BY <1>3 DEF Calm
  <2> QED
    BY <1>3, <1>4, <1>5, <2>1, FirmChain
<1>7. at'[p] = "apply" /\ stage'[p] = stage[p] /\ stage[p] \in Stages
  BY <1>1, <1>2, ActiveStage DEF Goto, LocksOK
<1>8. d'.seen = d.seen
  BY <1>4 DEF Firm, Tighter
<1>9. at[p] \in Working /\ "apply" \notin Early /\ at'[p] # "idle"
  BY <1>1, <1>7 DEF Early, Working
<1>10. LogInv(p)'
  <2>1. Journaled(p)'
    BY <1>2, <1>7, <1>8, <1>9 DEF LogInv, Journaled
  <2>2. Untangled(p)'
    BY <1>1, <1>2, <1>3, <1>7, <1>8 DEF LogInv, Untangled
  <2>3. Fenced(p)'
    BY <1>3, <1>5 DEF Fenced
  <2> QED
    BY <2>1, <2>2, <2>3 DEF LogInv
<1> QED
  BY <1>1, <1>2, <1>6, <1>10, LogAlone DEF ChainInv

LEMMA KillChain ==
  ASSUME IInv, ChainInv, NEW p \in Procs, Kill(p)
  PROVE  ChainInv'
<1>1. at[p] # "idle" /\ Leave(p) /\ d' = d /\ UNCHANGED <<shared, ghosts, touched>>
  BY DEF Kill
<1>2. \A q \in Procs : at'[q] = "idle"
  BY <1>1, LeaveOK DEF IInv, CallOK
<1> QED
  BY <1>1, <1>2, QuietLeave

LEMMA StutterChain ==
  ASSUME IInv, ChainInv, UNCHANGED vars
  PROVE  ChainInv'
<1>1. UNCHANGED <<d, shared, at, stage, newest, answered, skipped, entangled, touched>>
  BY DEF vars, call, ghosts, faults
<1>2. SettledPaths' /\ Linked' /\ Finish' /\ Logged' /\ ReceiptHolds'
  BY <1>1 DEF ChainInv, SettledPaths, Linked, Finish, Logged, ReceiptHolds, ResultStays, Calm, Seen
<1>3. \A p \in Procs : LogInv(p)'
  BY <1>1 DEF ChainInv, LogInv, Journaled, Untangled, Fenced, Calm
<1> QED
  BY <1>2, <1>3 DEF ChainInv

LEMMA PowerLossChain ==
  ASSUME IInv, ChainInv, PowerLoss
  PROVE  ChainInv'
<1>1. PICK h \in Images(d) : d' = Settled(h)
  BY DEF PowerLoss
<1>2. /\ Kept(d, shared) /\ shared' = shared /\ \A p \in Procs : at'[p] = "idle"
      /\ UNCHANGED <<skipped, entangled, newest, answered, touched>>
  BY DEF IInv, PowerLoss, ghosts
<1>3. d'.seen = h /\ Images(d') = {h} /\ All(d') = {}
  <2>1. IsMap(h)
    BY <1>2, ImageMap DEF Kept, StoreOK
  <2> QED
    BY <1>1, <2>1, SettledFacts DEF Settled
<1>4. \A f : Fixed(d', f, d'.seen[f]) /\ Secure(d', f, shared)
  <2>1. \A f : Fixed(d', f, d'.seen[f])
    BY <1>3 DEF Fixed
  <2>2. \A f, x : Behind(d', f, d'.seen[f], x) /\ Reachable(d', f, {}, x)
    BY <1>3, <2>1, AfterIsImage DEF Fixed, Behind, Reachable, Sets
  <2> QED
    BY <2>1, <2>2 DEF Secure
<1>5. Calm' => Calm
  BY <1>2 DEF Calm
<1>6. SettledPaths' /\ Linked'
  BY <1>2, <1>4 DEF SettledPaths, Linked, Seen
<1>7. Finish'
  BY <1>2, <1>3, <1>5 DEF ChainInv, Finish
<1>8. Logged'
  <2> SUFFICES ASSUME Calm', touched = {}, NEW s \in Stages,
                      s = newest \/ h[Journal(s)] = "whole"
               PROVE  Kempt(h, s)
    BY <1>2, <1>3 DEF Logged
  <2> QED
    BY <1>5 DEF ChainInv, Logged, Kempt
<1>9. ReceiptHolds'
  BY <1>2, <1>3, <1>5 DEF ChainInv, ReceiptHolds, ResultStays
<1> QED
  BY <1>2, <1>6, <1>7, <1>8, <1>9, LogIdle DEF ChainInv
-----------------------------------------------------------------------------

LEMMA InitChain == Init => ChainInv
<1> SUFFICES ASSUME Init PROVE ChainInv
  OBVIOUS
<1> DEFINE tree == [f \in Files |-> IF f[1] = "target" THEN Tree[f[2]] ELSE Absent]
<1>1. d = Settled(tree)
  BY DEF Init
<1>2. IsMap(tree)
  BY DEF IsMap
<1>3. \A s \in Stages : tree[Journal(s)] = Absent
  BY FilesGiven DEF Journal
<1> HIDE DEF tree
<1>4. Images(d) = {tree} /\ d.seen = tree
  BY <1>1, <1>2, SettledFacts DEF Settled
<1>5. SettledPaths
  BY <1>4 DEF SettledPaths, Fixed, Seen
<1>6. Linked
  BY <1>3, <1>4 DEF Linked
<1>7. Finish
  BY <1>3, <1>4, CommitAssumption DEF Finish, Recoverable
<1>8. Logged
  <2>1. newest \notin Stages
    BY CommitAssumption DEF Init
  <2> QED
    BY <1>3, <1>4, <2>1, CommitAssumption DEF Logged
<1>9. \A p \in Procs : LogInv(p)
  BY DEF Init, LogInv, Journaled, Untangled, Fenced, Early, Working, Late, Ended
<1>10. ReceiptHolds
  BY DEF Init, ReceiptHolds
<1> QED
  BY <1>5, <1>6, <1>7, <1>8, <1>9, <1>10 DEF ChainInv

\* A receipt that stands over settled targets answers for good.
LEMMA CommitFromReceiptChain ==
  ASSUME IInv, ChainInv, NEW p \in Procs, NEW s \in Stages, CommitFromReceipt(p, s)
  PROVE  ChainInv'
<1>1. /\ lock = Nobody /\ UNCHANGED <<d, shared, call, newest, skipped, entangled, faults>>
      /\ AllDone(d.seen, s)
      /\ answered' = [stage |-> s, by |-> IF Unfinished(s) THEN "leftover" ELSE "receipt"]
  BY DEF CommitFromReceipt, ReceiptStands
<1>2. \A q \in Procs : at'[q] = "idle"
  BY <1>1, CommitAssumption DEF IInv, CallOK, LocksOK, call
<1>3. UNCHANGED <<d, shared, newest, skipped, entangled, touched>>
  BY <1>1 DEF faults
<1>4. SettledPaths' /\ Linked' /\ Finish' /\ Logged'
  BY <1>3 DEF ChainInv, SettledPaths, Linked, Finish, Logged, Calm, Seen
<1>5. ReceiptHolds'
  <2> SUFFICES ASSUME ~Unfinished(s), Calm, touched = {}, NEW h \in Images(d),
                      NEW i \in DOMAIN Ops[s]
               PROVE  DoneIn(h, Ops[s][i])
    BY <1>1, <1>3 DEF ReceiptHolds, ResultStays, AllDone, Calm
  <2>1. ASSUME NEW path, OfStage(path, s) PROVE h[Target(path)] = d.seen[Target(path)]
    <3>1. \A t \in Stages : OfStage(path, t) => d.seen[Journal(t)] = Absent
      BY <2>1, CrossPath DEF Unfinished
    <3>2. path \in Paths \ touched
      BY <2>1, OfPaths
    <3> QED
      BY <3>1, <3>2 DEF ChainInv, SettledPaths, Fixed, Seen
  <2>2. DoneIn(d.seen, Ops[s][i])
    BY <1>1 DEF AllDone
  <2> QED
    BY <2>1, <2>2, StagePaths, OpAgrees
<1> QED
  BY <1>2, <1>4, <1>5, LogIdle DEF ChainInv

LEMMA CommitStartChain ==
  ASSUME IInv, ChainInv, NEW p \in Procs, NEW s \in Stages, CommitStart(p, s)
  PROVE  ChainInv'
<1>1. /\ lock = Nobody /\ Enter(p, s, "payload", DOMAIN Ops[s], FALSE)
      /\ d.seen[Journal(s)] = Absent
      /\ UNCHANGED <<d, shared, newest, answered, skipped, touched>> /\ Step(p)
      /\ entangled' = (entangled \/ \E t \in Stages : Cross(s, t) /\ d.seen[Journal(t)] # Absent)
  BY DEF CommitStart, faults, Step
<1>2. LocksOK /\ Kept(d, shared)
  BY DEF IInv, CallOK
<1>3. at'[p] = "payload" /\ stage'[p] = s
  BY <1>1, <1>2, EnterOK
<1>4. ~entangled' => /\ ~entangled
                     /\ \A t \in Stages : Cross(s, t) => d.seen[Journal(t)] = Absent
  BY <1>1
<1>5. Firm(d')
  BY <1>1, <1>2, FirmSame
<1>6. SettledPaths' /\ Linked' /\ Finish' /\ Logged' /\ ReceiptHolds'
  <2>1. Calm' => Calm
    BY <1>1, <1>4 DEF Calm
  <2> QED
    BY <1>1, <1>5, <2>1, FirmChain
<1>7. LogInv(p)'
  <2>1. "payload" \notin Working /\ "payload" \notin Late
    BY DEF Working, Late, Ended
  <2> QED
    BY <1>1, <1>3, <1>4, <2>1 DEF LogInv, Journaled, Untangled, Fenced
<1> QED
  BY <1>1, <1>2, <1>6, <1>7, LogAlone DEF ChainInv

\* A recovery builds on a journal that its own fence, or a power loss, has settled.
LEMMA RecoverStartChain ==
  ASSUME IInv, ChainInv, NEW p \in Procs, NEW s \in Stages, RecoverStart(p, s)
  PROVE  ChainInv'
<1> DEFINE left == {i \in DOMAIN Ops[s] : ~DoneIn(d.seen, Ops[s][i])}
           done == {i \in DOMAIN Ops[s] : DoneIn(d.seen, Ops[s][i])}
           Mixed == \E i \in done : \E path \in PathsOf(Ops[s][i]) : Unordered(Target(path))
<1>1. /\ lock = Nobody /\ Enter(p, s, "apply", DOMAIN Ops[s] \ done, TRUE)
      /\ d.seen[Journal(s)] = "whole" /\ newest' = s
      /\ UNCHANGED <<d, shared, touched>> /\ Step(p) /\ answered'.by = "none"
      /\ entangled' = (entangled \/ \E t \in Stages : Cross(s, t) /\ d.seen[Journal(t)] # Absent)
      /\ skipped' = (skipped \/ Unordered(Journal(s)) \/ Mixed)
  BY DEF RecoverStart, Begun, faults, Step
<1>d. DOMAIN Ops[s] \ done \in SUBSET DOMAIN Ops[s]
  OBVIOUS
<1> HIDE DEF done, Mixed
<1>2. LocksOK /\ Kept(d, shared)
  BY DEF IInv, CallOK
<1>3. at'[p] = "apply" /\ stage'[p] = s
  BY <1>1, <1>2, <1>d, EnterOK
<1>4. ~entangled' => /\ ~entangled
                     /\ \A t \in Stages : Cross(s, t) => d.seen[Journal(t)] = Absent
  BY <1>1
<1>5. ~skipped' => ~skipped /\ ~Unordered(Journal(s))
  BY <1>1
<1>6. Firm(d')
  BY <1>1, <1>2, FirmSame
<1>7. Calm' => Calm
  BY <1>4, <1>5 DEF Calm
<1>8. SettledPaths' /\ Linked' /\ Finish' /\ Logged' /\ ReceiptHolds'
  BY <1>1, <1>6, <1>7, FirmChain
<1>9. LogInv(p)'
  <2>1. "apply" \notin Early
    BY DEF Early
  <2>2. Journaled(p)' /\ Untangled(p)'
    BY <1>1, <1>3, <1>4, <2>1 DEF Journaled, Untangled
  <2>3. Fenced(p)'
    <3> SUFFICES ASSUME Calm', NEW t \in Stages, t = s \/ Cross(s, t)
                 PROVE  Secure(d', Journal(t), shared')
      BY <1>3 DEF Fenced
    <3>1. ~Waits(d, Journal(s), "journals") /\ Calm
      BY <1>5, <1>7, WaitsUnordered DEF Calm
    <3>2. d.seen[Journal(s)] # Absent
      BY <1>1, CommitAssumption
    <3>3. /\ Secure(d, Journal(s), shared)
          /\ \A x \in Stages : Cross(s, x) /\ d.seen[Journal(x)] = Absent
                                 => Secure(d, Journal(x), shared)
      BY <3>1, <3>2 DEF ChainInv, Linked
    <3>4. Cross(s, t) => d.seen[Journal(t)] = Absent
      BY <1>4 DEF Calm
    <3> QED
      BY <1>1, <3>3, <3>4
  <2> QED
    BY <2>2, <2>3 DEF LogInv
<1> QED
  BY <1>1, <1>2, <1>8, <1>9, LogAlone DEF ChainInv
-----------------------------------------------------------------------------
(* Writes of other names *)

LEMMA LinkedOther ==
  ASSUME Kept(d, shared), Linked, NEW upd, NEW body, NEW left, NEW dev,
         Adds(d, d', upd, body, left, dev, shared), DOMAIN upd \cap JournalFiles = {},
         shared' = shared, Calm' => Calm
  PROVE  Linked'
<1>1. ASSUME NEW s \in Stages
      PROVE  /\ d'.seen[Journal(s)] = d.seen[Journal(s)]
             /\ Secure(d, Journal(s), shared) => Secure(d', Journal(s), shared)
             /\ Waits(d, Journal(s), "journals") => Waits(d', Journal(s), "journals")
  <2>1. Journal(s) \in Files /\ Journal(s) \notin DOMAIN upd /\ shared \in BOOLEAN
    BY FilesGiven DEF Kept
  <2>2. Waits(d, Journal(s), "journals") => Waits(d', Journal(s), "journals")
    BY <2>1, WaitsAdds
  <2>3. /\ d'.seen[Journal(s)] = d.seen[Journal(s)]
        /\ Secure(d, Journal(s), shared) => Secure(d', Journal(s), shared)
    BY <2>1, SecureAdds
  <2> QED
    BY <2>2, <2>3
<1> QED
  BY <1>1 DEF Linked

LEMMA LogOther ==
  ASSUME IInv, NEW p \in Procs, LogInv(p), at[p] # "idle", NEW upd, NEW body, NEW left, NEW dev,
         Adds(d, d', upd, body, left, dev, shared), DOMAIN upd \cap JournalFiles = {},
         stage'[p] = stage[p], UNCHANGED <<shared, entangled>>, ~skipped' => ~skipped,
         at'[p] \in Early => at[p] \in Early, at'[p] \in Working => at[p] \in Working,
         at'[p] \in Late => at[p] \in Late
  PROVE  LogInv(p)'
<1>1. \A s \in Stages : /\ d'.seen[Journal(s)] = d.seen[Journal(s)]
                        /\ Secure(d, Journal(s), shared) => Secure(d', Journal(s), shared')
  <2>1. \A s \in Stages : Journal(s) \in Files /\ Journal(s) \notin DOMAIN upd
    BY FilesGiven
  <2>2. Kept(d, shared) /\ shared \in BOOLEAN
    BY DEF IInv, Kept
  <2> QED
    BY <2>1, <2>2, SecureAdds
<1>2. stage[p] \in Stages
  BY ActiveStage DEF IInv
<1> QED
  BY <1>1, <1>2, LogKeeps

LEMMA SettledOther ==
  ASSUME Kept(d, shared), SettledPaths, NEW upd, NEW body, NEW left, NEW dev,
         Adds(d, d', upd, body, left, dev, shared), DOMAIN upd \cap JournalFiles = {},
         Calm' => Calm, touched \subseteq touched',
         \A path \in Paths \ touched' : Target(path) \in DOMAIN upd =>
           \E s \in Stages : OfStage(path, s) /\ d.seen[Journal(s)] # Absent
  PROVE  SettledPaths'
<1> SUFFICES ASSUME Calm', NEW path \in Paths \ touched'
             PROVE  \/ Fixed(d', Target(path), d'.seen[Target(path)])
                    \/ \E s \in Stages : OfStage(path, s) /\ d'.seen[Journal(s)] # Absent
  BY DEF SettledPaths, Seen
<1>1. \A s \in Stages : d'.seen[Journal(s)] = d.seen[Journal(s)]
  <2>1. \A s \in Stages : Journal(s) \in Files /\ Journal(s) \notin DOMAIN upd
    BY FilesGiven
  <2> QED
    BY <2>1, SecureAdds DEF Kept
<1>2. CASE \E s \in Stages : OfStage(path, s) /\ d.seen[Journal(s)] # Absent
  BY <1>1, <1>2
<1>3. CASE Target(path) \notin DOMAIN upd /\ Fixed(d, Target(path), d.seen[Target(path)])
  <2>1. Target(path) \in Files
    BY FilesGiven
  <2> QED
    BY <1>3, <2>1, SecureAdds DEF Kept
<1> QED
  BY <1>2, <1>3 DEF SettledPaths, Seen

\* Neither a target nor a journal: nothing that these properties see.
LEMMA OtherChain ==
  ASSUME IInv, ChainInv, NEW p \in Procs, at[p] # "idle", Step(p), NEW step, Goto(p, step),
         NEW upd, NEW body, NEW left, NEW dev,
         Adds(d, d', upd, body, left, dev, shared),
         DOMAIN upd \cap (JournalFiles \cup TargetFiles) = {},
         UNCHANGED <<shared, ghosts, touched>>,
         step \in Early => at[p] \in Early, step \in Working => at[p] \in Working,
         step \in Late => at[p] \in Late
  PROVE  ChainInv'
<1>1. /\ Kept(d, shared) /\ LocksOK /\ LogInv(p)
      /\ SettledPaths /\ Linked /\ Finish /\ Logged /\ ReceiptHolds /\ AnswerOK
  BY DEF IInv, CallOK, ChainInv
<1>2. /\ DOMAIN upd \cap JournalFiles = {} /\ DOMAIN upd \cap TargetFiles = {}
      /\ UNCHANGED <<skipped, entangled, newest, answered, shared, touched>>
  BY DEF ghosts
<1>3. Calm' <=> Calm
  BY <1>2 DEF Calm
<1>4. Linked'
  BY <1>1, <1>2, <1>3, LinkedOther
<1>5. SettledPaths'
  <2>1. \A path \in Paths : Target(path) \notin DOMAIN upd
    BY <1>2, FilesGiven
  <2> QED
    BY <1>1, <1>2, <1>3, <2>1, SettledOther
<1>6. ASSUME NEW h \in Images(d')
      PROVE  \E m \in Images(d) : \A s \in Stages :
               /\ h[Journal(s)] = m[Journal(s)]
               /\ Recoverable(m, s, touched) => Recoverable(h, s, touched)
               /\ Kempt(m, s) => Kempt(h, s)
  <2>1. PICK m \in Images(d) : \A f \in Files \ DOMAIN upd : h[f] = m[f]
    BY <1>1, AddsImage
  <2>2. ASSUME NEW s \in Stages
        PROVE  /\ h[Journal(s)] = m[Journal(s)]
               /\ \A path : OfStage(path, s) => h[Target(path)] = m[Target(path)]
    BY <1>2, <2>1, OfPaths, FilesGiven
  <2> QED
    BY <2>2, StageAgrees
<1>7. Finish'
  BY <1>1, <1>2, <1>3, <1>6 DEF Finish
<1>8. Logged'
  <2>1. \A s \in Stages : d'.seen[Journal(s)] = d.seen[Journal(s)]
    <3>1. \A s \in Stages : Journal(s) \in Files /\ Journal(s) \notin DOMAIN upd
      BY <1>2, FilesGiven
    <3> QED
      BY <1>1, <3>1, SecureAdds DEF Kept
  <2> QED
    BY <1>1, <1>2, <1>3, <1>6, <2>1 DEF Logged
<1>9. LogInv(p)'
  <2>1. at'[p] = step /\ stage'[p] = stage[p]
    BY <1>1 DEF Goto, LocksOK
  <2> QED
    BY <1>1, <1>2, <2>1, LogOther
<1>10. ReceiptHolds'
  <2> SUFFICES ASSUME answered.by = "receipt", Calm, touched = {} PROVE ResultStays'
    BY <1>2, <1>3 DEF ReceiptHolds
  <2>1. ResultStays /\ answered.stage \in Stages
    BY <1>1 DEF ReceiptHolds, AnswerOK
  <2> QED
    BY <1>1, <1>2, <2>1, OtherAnswers
<1> QED
  BY <1>1, <1>4, <1>5, <1>7, <1>8, <1>9, <1>10, LogAlone DEF ChainInv

LEMMA WritePayloadChain ==
  ASSUME IInv, ChainInv, NEW p \in Procs, WritePayload(p)
  PROVE  ChainInv'
<1> DEFINE s == stage[p]
           f == Payload(s)
<1>1. /\ at[p] = "payload" /\ at[p] # "idle" /\ UNCHANGED <<shared, ghosts, touched>> /\ Step(p)
      /\ \/ Goto(p, "payload_fence") /\ d' = Publish(d, f, "whole", "blobs", StateDevice)
         \/ d' = d /\ Goto(p, "payload_fence")
         \/ d' = d /\ Leave(p)
  BY DEF WritePayload, faults, Step
<1>2. LocksOK /\ CallOK /\ Kept(d, shared)
  BY DEF IInv, CallOK
<1>3. s \in Stages /\ f \in PayloadFiles
  BY <1>1, <1>2, ActiveStage, FilesGiven
<1>4. /\ at[p] \in Early /\ "payload_fence" \notin Working /\ "payload_fence" \notin Late
  BY <1>1 DEF Early, Working, Late, Ended
<1>5. CASE d' = d /\ Leave(p)
  <2>1. \A q \in Procs : at'[q] = "idle"
    BY <1>1, <1>2, <1>5, LeaveOK
  <2> QED
    BY <1>1, <1>5, <2>1, QuietLeave
<1>6. CASE d' = d /\ Goto(p, "payload_fence")
  <2>1. Firm(d')
    BY <1>2, <1>6, FirmSame
  <2> QED
    BY <1>1, <1>4, <1>6, <2>1, QuietChain
<1>7. CASE Goto(p, "payload_fence") /\ d' = Publish(d, f, "whole", "blobs", StateDevice)
  <2> DEFINE upd == One(f, "whole")
  <2>1. PICK body : Adds(d, d', upd, body, {"blobs"}, "state", shared)
    BY <1>2, <1>3, <1>7, WritePayloadAdds
  <2>2. DOMAIN upd = {f}
    BY OneValue
  <2> HIDE DEF upd
  <2>3. DOMAIN upd \cap (JournalFiles \cup TargetFiles) = {}
    BY <1>3, <2>2, KindsApart
  <2> QED
    BY <1>1, <1>4, <1>7, <2>1, <2>3, OtherChain
<1> QED
  BY <1>1, <1>5, <1>6, <1>7

LEMMA WriteReceiptChain ==
  ASSUME IInv, ChainInv, NEW p \in Procs, WriteReceipt(p)
  PROVE  ChainInv'
<1> DEFINE s == stage[p]
           upd == One(Receipt(s), "whole")
<1>1. /\ at[p] = "receipt" /\ at[p] # "idle" /\ UNCHANGED <<shared, ghosts, touched>> /\ Step(p)
      /\ d' = Publish(d, Receipt(s), "whole", "receipts", StateDevice)
      /\ Goto(p, "receipt_flush")
  BY DEF WriteReceipt, faults, Step
<1>2. CallOK /\ Kept(d, shared)
  BY DEF IInv
<1>3. s \in Stages /\ Receipt(s) \in ReceiptFiles
  BY <1>1, <1>2, ActiveStage, FilesGiven
<1>4. PICK body : Adds(d, d', upd, body, {"receipts"}, "state", shared)
  BY <1>1, <1>2, <1>3, WriteReceiptAdds
<1>5. DOMAIN upd = {Receipt(s)}
  BY OneValue
<1> HIDE DEF upd
<1>6. DOMAIN upd \cap (JournalFiles \cup TargetFiles) = {}
  BY <1>3, <1>5, KindsApart
<1>7. at[p] \in Working /\ at[p] \in Late /\ "receipt_flush" \notin Early
  BY <1>1 DEF Early, Working, Late, Ended
<1> QED
  BY <1>1, <1>4, <1>6, <1>7, OtherChain

\* An editor excuses the operations of the path it writes, and no others.
LEMMA EditChain ==
  ASSUME IInv, ChainInv, NEW path \in Paths, Edit(path)
  PROVE  ChainInv'
<1> DEFINE upd == One(Target(path), Edited)
<1>1. /\ d' = Write(d, upd, FALSE, Homes[path], TargetDevice)
      /\ touched' = touched \cup {path}
      /\ UNCHANGED <<shared, call, newest, skipped, entangled>>
  BY DEF Edit
<1>2. /\ Kept(d, shared) /\ CallOK /\ SettledPaths /\ Linked /\ Finish
      /\ \A p \in Procs : LogInv(p)
  BY DEF IInv, ChainInv
<1>3. PICK body : Adds(d, d', upd, body, Homes[path], TargetDevice, shared)
  BY <1>1, <1>2, EditAdds
<1>4. DOMAIN upd = {Target(path)} /\ Target(path) \in TargetFiles
  BY OneValue, FilesGiven
<1> HIDE DEF upd
<1>5. DOMAIN upd \cap JournalFiles = {}
  BY <1>4, KindsApart
<1>6. Calm' <=> Calm
  BY <1>1 DEF Calm
<1>7. Linked'
  BY <1>1, <1>2, <1>3, <1>5, <1>6, LinkedOther
<1>8. SettledPaths'
  <2>1. \A x \in Paths \ touched' : Target(x) \notin DOMAIN upd
    BY <1>1, <1>4, NamesApart
  <2>2. touched \subseteq touched'
    BY <1>1
  <2> QED
    BY <1>2, <1>3, <1>5, <1>6, <2>1, <2>2, SettledOther
<1>9. Finish'
  <2> SUFFICES ASSUME Calm, NEW h \in Images(d'), NEW s \in Stages, h[Journal(s)] = "whole",
                      NEW i \in DOMAIN Ops[s], path \notin PathsOf(Ops[s][i])
               PROVE  Finishable(h, Ops[s][i], touched')
    <3>1. ASSUME NEW op, path \in PathsOf(op), NEW h PROVE Finishable(h, op, touched')
      BY <1>1, <3>1 DEF Finishable
    <3> QED
      BY <1>6, <3>1 DEF Finish, Recoverable
  <2> DEFINE op == Ops[s][i]
  <2>1. PICK m \in Images(d) : \A f \in Files \ DOMAIN upd : h[f] = m[f]
    BY <1>2, <1>3, AddsImage
  <2>2. Journal(s) \in Files \ DOMAIN upd
    BY <1>5, FilesGiven
  <2>3. Finishable(m, op, touched)
    BY <1>2, <2>1, <2>2 DEF Finish, Recoverable
  <2>4. h[Target(op.from)] = m[Target(op.from)] /\ h[Target(op.to)] = m[Target(op.to)]
    <3>1. op.from \in Paths /\ op.to \in Paths /\ op.from # path /\ op.to # path
      BY StageOps DEF PathsOf
    <3> HIDE DEF op
    <3> QED
      BY <1>4, <2>1, <3>1, FilesGiven, NamesApart
  <2> HIDE DEF op
  <2>5. Finishable(h, op, touched)
    BY <2>3, <2>4, OpAgrees
  <2>6. Finishable(h, op, touched')
    BY <1>1, <2>5 DEF Finishable
  <2> QED
    BY <2>6 DEF op
<1>10. Logged'
  BY <1>1 DEF Logged
<1>11. \A p \in Procs : LogInv(p)'
  <2> SUFFICES ASSUME NEW p \in Procs PROVE LogInv(p)'
    OBVIOUS
  <2>1. at' = at /\ stage' = stage
    BY <1>1 DEF call
  <2>2. CASE at[p] = "idle"
    BY <2>1, <2>2, LogIdle
  <2>3. CASE at[p] # "idle"
    BY <1>1, <1>2, <1>3, <1>5, <2>1, <2>3, LogOther
  <2> QED
    BY <2>2, <2>3
<1>12. ReceiptHolds'
  BY DEF Edit, ReceiptHolds
<1> QED
  BY <1>7, <1>8, <1>9, <1>10, <1>11, <1>12 DEF ChainInv
-----------------------------------------------------------------------------
(* Writes of journals and targets *)

\* A journal is written over targets that are settled as its preflight saw them.
LEMMA WriteJournalChain ==
  ASSUME IInv, ChainInv, NEW p \in Procs, WriteJournal(p)
  PROVE  ChainInv'
<1> DEFINE s == stage[p]
           upd == One(Journal(s), "whole")
<1>1. /\ at[p] = "journal" /\ at[p] # "idle"
      /\ UNCHANGED <<shared, skipped, entangled, touched>> /\ Step(p)
      /\ d' = Publish(d, Journal(s), "whole", "journals", StateDevice)
      /\ Goto(p, "journal_fence") /\ newest' = s
  BY DEF WriteJournal, Begun, faults, Step
<1>2. /\ LocksOK /\ GhostsOK /\ CallOK /\ CallInv(p) /\ Kept(d, shared) /\ LogInv(p)
      /\ SettledPaths /\ Linked /\ Finish /\ Logged
  BY DEF IInv, CallOK, ChainInv
<1>3. s \in Stages
  BY <1>1, <1>2, ActiveStage
<1>4. at[p] \in Early /\ at[p] \in Begin /\ at'[p] = "journal_fence" /\ stage'[p] = s
      /\ todo[p] = DOMAIN Ops[s]
  BY <1>1, <1>2 DEF Early, Begin, Goto, LocksOK
<1>5. PICK body : Adds(d, d', upd, body, {"journals"}, "state", shared)
  BY <1>1, <1>2, <1>3, WriteJournalAdds
<1>6. DOMAIN upd = {Journal(s)} /\ upd[Journal(s)] = "whole"
  BY OneValue
<1> HIDE DEF upd
<1>7. Calm' <=> Calm
  BY <1>1 DEF Calm
<1>8. \A t \in Stages : t # s => Journal(t) \in Files /\ Journal(t) \notin DOMAIN upd
  BY <1>6, FilesGiven, NamesApart
<1>9. \A path \in Paths : Target(path) \in Files /\ Target(path) \notin DOMAIN upd
  BY <1>6, FilesGiven, NamesApart
<1>10. /\ d'.seen[Journal(s)] = "whole" /\ d.seen[Journal(s)] = Absent
       /\ "whole" # Absent
       /\ \A t \in Stages : t # s =>
            /\ d'.seen[Journal(t)] = d.seen[Journal(t)]
            /\ Secure(d, Journal(t), shared) => Secure(d', Journal(t), shared)
  <2>1. d'.seen[Journal(s)] = "whole"
    BY <1>2, <1>5, <1>6, AddsSets
  <2>2. d.seen[Journal(s)] = Absent
    BY <1>2, <1>4 DEF LogInv, Journaled
  <2>3. shared \in BOOLEAN
    BY <1>2 DEF Kept
  <2> QED
    BY <1>2, <1>5, <1>8, <2>1, <2>2, <2>3, SecureAdds, CommitAssumption
<1>11. \A path \in Paths : /\ Seen(path)' = Seen(path)
                           /\ \A v : Fixed(d, Target(path), v) => Fixed(d', Target(path), v)
  BY <1>2, <1>5, <1>9, SecureAdds DEF Kept, Seen
<1>12. SettledPaths'
  <2> SUFFICES ASSUME Calm, NEW path \in Paths \ touched
               PROVE  \/ Fixed(d', Target(path), Seen(path)')
                      \/ \E t \in Stages : OfStage(path, t) /\ d'.seen[Journal(t)] # Absent
    BY <1>1, <1>7 DEF SettledPaths
  <2>1. CASE Fixed(d, Target(path), Seen(path))
    BY <1>11, <2>1
  <2>2. CASE \E t \in Stages : OfStage(path, t) /\ d.seen[Journal(t)] # Absent
    BY <1>10, <2>2
  <2> QED
    BY <1>2, <2>1, <2>2 DEF SettledPaths
<1>13. Linked'
  <2> SUFFICES ASSUME Calm, NEW t \in Stages, d'.seen[Journal(t)] # Absent
               PROVE  \/ Waits(d', Journal(t), "journals")
                      \/ /\ Secure(d', Journal(t), shared)
                         /\ \A x \in Stages : Cross(t, x) /\ d'.seen[Journal(x)] = Absent
                                                => Secure(d', Journal(x), shared)
    BY <1>1, <1>7 DEF Linked
  <2>1. CASE t = s
    BY <1>2, <1>5, <1>6, <2>1, WaitsAdds
  <2>2. CASE t # s
    <3>1. d.seen[Journal(t)] # Absent
      BY <1>10, <2>2
    <3>2. CASE Waits(d, Journal(t), "journals")
      BY <1>2, <1>5, <1>8, <2>2, <3>2, WaitsAdds
    <3>3. CASE ~Waits(d, Journal(t), "journals")
      <4>1. /\ Secure(d, Journal(t), shared)
            /\ \A x \in Stages : Cross(t, x) /\ d.seen[Journal(x)] = Absent
                                   => Secure(d, Journal(x), shared)
        BY <1>2, <3>1, <3>3 DEF Linked
      <4> QED
        BY <1>10, <2>2, <4>1
    <3> QED
      BY <3>2, <3>3
  <2> QED
    BY <2>1, <2>2
\* No other journal has its paths.
<1>14. ASSUME Calm, NEW path \in Paths \ touched, OfStage(path, s)
       PROVE  Fixed(d, Target(path), Seen(path))
  <2>1. ASSUME NEW t \in Stages, OfStage(path, t) PROVE d.seen[Journal(t)] = Absent
    <3>1. t # s => Cross(s, t)
      BY <1>14, <2>1, CrossPath
    <3>2. Cross(s, t) => d.seen[Journal(t)] = Absent
      BY <1>1, <1>2, <1>14 DEF LogInv, Untangled, Calm
    <3> QED
      BY <1>10, <3>1, <3>2
  <2> QED
    BY <1>2, <1>14, <2>1 DEF SettledPaths
<1>15. ASSUME Calm, NEW m \in Images(d), NEW i \in DOMAIN Ops[s], Clean(Ops[s][i])
       PROVE  PendingIn(m, Ops[s][i])
  <2> DEFINE op == Ops[s][i]
  <2>1. \A path \in PathsOf(op) : path \in Paths \ touched /\ OfStage(path, s)
    BY <1>3, <1>15, StagePaths DEF Clean
  <2>2. \A path \in PathsOf(op) : m[Target(path)] = Seen(path)
    BY <1>14, <1>15, <2>1 DEF Fixed
  <2>3. Awaits(op)
    BY <1>1, <1>2, <1>4 DEF CallInv, Pend
  <2>4. op.from \notin raced /\ op.to \notin raced
    BY <1>2, <2>1 DEF GhostsOK, PathsOf
  <2>5. op.from \in PathsOf(op) /\ op.to \in PathsOf(op)
    BY DEF PathsOf
  <2> HIDE DEF op
  <2>6. PendingIn(m, op)
    BY <2>2, <2>3, <2>4, <2>5 DEF Awaits, PendingIn
  <2> QED
    BY <2>6 DEF op
<1>16. ASSUME NEW h \in Images(d')
       PROVE  \E m \in Images(d) :
                /\ \A path \in Paths : h[Target(path)] = m[Target(path)]
                /\ \A t \in Stages : t # s => h[Journal(t)] = m[Journal(t)]
  <2>1. PICK m \in Images(d) : \A f \in Files \ DOMAIN upd : h[f] = m[f]
    BY <1>2, <1>5, AddsImage
  <2> QED
    BY <1>8, <1>9, <2>1
<1>17. ASSUME Calm, NEW h \in Images(d'), NEW t \in Stages
       PROVE  /\ Recoverable(h, t, touched)
              /\ touched = {} /\ (t = s \/ d'.seen[Journal(t)] = "whole") => Kempt(h, t)
  <2>1. PICK m \in Images(d) :
          /\ \A path \in Paths : h[Target(path)] = m[Target(path)]
          /\ \A x \in Stages : x # s => h[Journal(x)] = m[Journal(x)]
    BY <1>16
  <2>2. \A path : OfStage(path, t) => h[Target(path)] = m[Target(path)]
    BY <2>1, OfPaths
  <2>3. CASE t # s
    <3>1. Recoverable(m, t, touched) /\ d'.seen[Journal(t)] = d.seen[Journal(t)]
      BY <1>2, <1>10, <1>17, <2>3 DEF Finish
    <3>2. touched = {} /\ d'.seen[Journal(t)] = "whole" => Kempt(m, t)
      BY <1>2, <1>17, <3>1 DEF Logged
    <3> QED
      BY <2>1, <2>2, <2>3, <3>1, <3>2, StageAgrees
  <2>4. CASE t = s
    <3>1. \A i \in DOMAIN Ops[s] : Clean(Ops[s][i]) => PendingIn(h, Ops[s][i])
      <4> SUFFICES ASSUME NEW i \in DOMAIN Ops[s], Clean(Ops[s][i])
                   PROVE  PendingIn(h, Ops[s][i])
        OBVIOUS
      <4>1. PendingIn(m, Ops[s][i])
        BY <1>15, <1>17
      <4>2. /\ h[Target(Ops[s][i].from)] = m[Target(Ops[s][i].from)]
            /\ h[Target(Ops[s][i].to)] = m[Target(Ops[s][i].to)]
        BY <1>3, <2>2, <2>4, StagePaths
      <4> QED
        BY <4>1, <4>2, OpAgrees
    <3>2. Recoverable(h, t, touched)
      BY <2>4, <3>1 DEF Recoverable, Finishable, Clean
    <3>3. touched = {} => Kempt(h, t)
      BY <2>4, <3>1 DEF Kempt, Preflight, Clean
    <3> QED
      BY <3>2, <3>3
  <2> QED
    BY <2>3, <2>4
<1>18. Finish' /\ Logged'
  BY <1>1, <1>7, <1>17 DEF Finish, Logged
<1>19. LogInv(p)'
  <2>1. "journal_fence" \notin Early /\ "journal_fence" \notin Late
    BY DEF Early, Late, Ended
  <2>2. Journaled(p)' /\ Fenced(p)'
    BY <1>4, <1>10, <2>1 DEF Journaled, Fenced
  <2>3. Untangled(p)'
    <3> SUFFICES ASSUME ~entangled, NEW t \in Stages, Cross(s, t)
                 PROVE  d'.seen[Journal(t)] = Absent
      BY <1>1, <1>4 DEF Untangled
    <3>1. t # s
      BY DEF Cross
    <3>2. d.seen[Journal(t)] = Absent
      BY <1>1, <1>2 DEF LogInv, Untangled
    <3> QED
      BY <1>10, <3>1, <3>2
  <2> QED
    BY <2>2, <2>3 DEF LogInv
<1>20. ReceiptHolds'
  BY DEF WriteJournal, Begun, ReceiptHolds
<1> QED
  BY <1>1, <1>2, <1>12, <1>13, <1>18, <1>19, <1>20, LogAlone DEF ChainInv

\* A journal goes when its targets are settled and no other journal has them.
LEMMA RemoveJournalChain ==
  ASSUME IInv, ChainInv, NEW p \in Procs, RemoveJournal(p)
  PROVE  ChainInv'
<1> DEFINE s == stage[p]
           upd == One(Journal(s), Absent)
<1>1. /\ at[p] = "remove_journal" /\ at[p] # "idle" /\ Leave(p)
      /\ UNCHANGED <<shared, newest, skipped, entangled, touched>>
      /\ d' = IF d.seen[Journal(s)] = Absent THEN d
              ELSE Write(d, upd, FALSE, {"journals"}, StateDevice)
  BY DEF RemoveJournal, faults
<1>2. /\ LocksOK /\ CallOK /\ CallInv(p) /\ Kept(d, shared) /\ LogInv(p)
      /\ SettledPaths /\ Linked /\ Finish /\ Logged
  BY DEF IInv, CallOK, ChainInv
<1>3. /\ s \in Stages /\ at[p] \in Ended /\ at[p] \in Working /\ todo[p] = {}
      /\ "whole" # Absent /\ "whole" # Torn
  BY <1>1, <1>2, ActiveStage, CommitAssumption DEF Ended, Working, LocksOK
<1>4. d.seen[Journal(s)] = "whole" /\ newest = s
  BY <1>2, <1>3 DEF LogInv, Journaled, CallInv, Answers
<1>5. PICK body : Adds(d, d', upd, body, {"journals"}, "state", shared)
  BY <1>1, <1>2, <1>3, <1>4, RemoveJournalAdds
<1>6. DOMAIN upd = {Journal(s)} /\ upd[Journal(s)] = Absent
  BY OneValue
<1> HIDE DEF upd
<1>7. Calm' <=> Calm
  BY <1>1 DEF Calm
<1>8. \A t \in Stages : t # s => Journal(t) \in Files /\ Journal(t) \notin DOMAIN upd
  BY <1>6, FilesGiven, NamesApart
<1>9. \A path \in Paths : Target(path) \in Files /\ Target(path) \notin DOMAIN upd
  BY <1>6, FilesGiven, NamesApart
<1>10. /\ d'.seen[Journal(s)] = Absent
       /\ \A t \in Stages : t # s =>
            /\ d'.seen[Journal(t)] = d.seen[Journal(t)]
            /\ Secure(d, Journal(t), shared) => Secure(d', Journal(t), shared)
  <2>1. d'.seen[Journal(s)] = Absent
    BY <1>2, <1>5, <1>6, AddsSets
  <2>2. shared \in BOOLEAN
    BY <1>2 DEF Kept
  <2> QED
    BY <1>2, <1>5, <1>8, <2>1, <2>2, SecureAdds
<1>11. \A path \in Paths : /\ Seen(path)' = Seen(path)
                           /\ \A v : Fixed(d, Target(path), v) => Fixed(d', Target(path), v)
  BY <1>2, <1>5, <1>9, SecureAdds DEF Kept, Seen
<1>12. ASSUME Calm, NEW path \in Paths \ touched, OfStage(path, s)
       PROVE  Fixed(d, Target(path), Seen(path))
  <2>1. PICK i \in DOMAIN Ops[s] : path \in PathsOf(Ops[s][i])
    BY <1>12 DEF OfStage
  <2>2. Guarded(d, shared, at[p], dirs[p], Target(path))
    BY <1>1, <1>2, <1>3, <1>12, <2>1 DEF CallInv, Secured, Sure, Calm
  <2> QED
    BY <1>1, <2>2 DEF Guarded, Seen
<1>13. SettledPaths'
  <2> SUFFICES ASSUME Calm, NEW path \in Paths \ touched
               PROVE  \/ Fixed(d', Target(path), Seen(path)')
                      \/ \E t \in Stages : OfStage(path, t) /\ d'.seen[Journal(t)] # Absent
    BY <1>1, <1>7 DEF SettledPaths
  <2>1. CASE Fixed(d, Target(path), Seen(path))
    BY <1>11, <2>1
  <2>2. CASE OfStage(path, s)
    BY <1>11, <1>12, <2>2
  <2>3. CASE \E t \in Stages : t # s /\ OfStage(path, t) /\ d.seen[Journal(t)] # Absent
    BY <1>10, <2>3
  <2> QED
    BY <1>2, <2>1, <2>2, <2>3 DEF SettledPaths
<1>14. Linked'
  <2> SUFFICES ASSUME Calm, NEW t \in Stages, d'.seen[Journal(t)] # Absent
               PROVE  \/ Waits(d', Journal(t), "journals")
                      \/ /\ Secure(d', Journal(t), shared)
                         /\ \A x \in Stages : Cross(t, x) /\ d'.seen[Journal(x)] = Absent
                                                => Secure(d', Journal(x), shared)
    BY <1>1, <1>7 DEF Linked
  <2>1. t # s /\ d.seen[Journal(t)] # Absent
    BY <1>10
  <2>2. CASE Waits(d, Journal(t), "journals")
    BY <1>2, <1>5, <1>8, <2>1, <2>2, WaitsAdds
  <2>3. CASE ~Waits(d, Journal(t), "journals")
    <3>1. /\ Secure(d, Journal(t), shared)
          /\ \A x \in Stages : Cross(t, x) /\ d.seen[Journal(x)] = Absent
                                 => Secure(d, Journal(x), shared)
      BY <1>2, <2>1, <2>3 DEF Linked
    <3>2. ~Cross(t, s)
      BY <1>1, <1>2, <2>1, CrossSym DEF LogInv, Untangled, Calm
    <3> QED
      BY <1>10, <2>1, <3>1, <3>2
  <2> QED
    BY <2>2, <2>3
<1>15. ASSUME NEW h \in Images(d')
       PROVE  \E m \in Images(d) :
                /\ \A path \in Paths : h[Target(path)] = m[Target(path)]
                /\ \A t \in Stages : h[Journal(t)] = m[Journal(t)]
                                     \/ (t = s /\ h[Journal(t)] # "whole")
  <2>1. PICK m \in Images(d) :
          /\ \A f \in Files \ DOMAIN upd : h[f] = m[f]
          /\ h = m \/ \A f \in DOMAIN upd : h[f] = upd[f] \/ (body /\ h[f] = Torn)
    BY <1>2, <1>5, AddsImage
  <2>2. \A path \in Paths : h[Target(path)] = m[Target(path)]
    BY <1>9, <2>1
  <2>3. \A t \in Stages : t # s => h[Journal(t)] = m[Journal(t)]
    BY <1>8, <2>1
  <2>4. h[Journal(s)] = m[Journal(s)] \/ h[Journal(s)] # "whole"
    BY <1>3, <1>6, <2>1
  <2> QED
    BY <2>2, <2>3, <2>4
<1>16. ASSUME Calm, NEW h \in Images(d'), NEW t \in Stages
       PROVE  /\ Recoverable(h, t, touched)
              /\ touched = {} /\ (t = s \/ d'.seen[Journal(t)] = "whole") => Kempt(h, t)
  <2>1. PICK m \in Images(d) :
          /\ \A path \in Paths : h[Target(path)] = m[Target(path)]
          /\ \A x \in Stages : h[Journal(x)] = m[Journal(x)]
                               \/ (x = s /\ h[Journal(x)] # "whole")
    BY <1>15
  <2>2. \A path : OfStage(path, t) => h[Target(path)] = m[Target(path)]
    BY <2>1, OfPaths
  <2>3. Recoverable(m, t, touched)
    BY <1>2, <1>16 DEF Finish
  <2>4. Recoverable(h, t, touched)
    <3>1. CASE h[Journal(t)] = m[Journal(t)]
      BY <2>2, <2>3, <3>1, StageAgrees
    <3>2. CASE h[Journal(t)] # "whole"
      BY <3>2 DEF Recoverable
    <3> QED
      BY <2>1, <3>1, <3>2
  <2>5. ASSUME touched = {}, t # s, d'.seen[Journal(t)] = "whole" PROVE Kempt(h, t)
    <3>1. Kempt(m, t)
      BY <1>2, <1>10, <1>16, <2>5 DEF Logged
    <3> QED
      BY <2>1, <2>2, <2>5, <3>1, StageAgrees
  <2>6. ASSUME touched = {}, t = s PROVE Kempt(h, t)
    <3>1. ASSUME NEW i \in DOMAIN Ops[s] PROVE DoneIn(h, Ops[s][i])
      <4>1. DoneIn(d.seen, Ops[s][i])
        BY <1>1, <1>2, <1>3, <2>6 DEF CallInv, Done, Clean
      <4>2. /\ Ops[s][i].from \in Paths \ touched /\ OfStage(Ops[s][i].from, s)
            /\ Ops[s][i].to \in Paths \ touched /\ OfStage(Ops[s][i].to, s)
        BY <1>3, <2>6, StageOps, StagePaths
      <4>3. /\ m[Target(Ops[s][i].from)] = Seen(Ops[s][i].from)
            /\ m[Target(Ops[s][i].to)] = Seen(Ops[s][i].to)
        BY <1>12, <1>16, <4>2 DEF Fixed
      <4>4. /\ h[Target(Ops[s][i].from)] = d.seen[Target(Ops[s][i].from)]
            /\ h[Target(Ops[s][i].to)] = d.seen[Target(Ops[s][i].to)]
        BY <2>1, <4>2, <4>3 DEF Seen
      <4> QED
        BY <4>1, <4>4 DEF DoneIn
    <3> QED
      BY <2>6, <3>1 DEF Kempt, AllDone
  <2> QED
    BY <2>4, <2>5, <2>6
<1>17. Finish' /\ Logged'
  BY <1>1, <1>4, <1>7, <1>16 DEF Finish, Logged
<1>18. \A q \in Procs : LogInv(q)'
  <2>1. \A q \in Procs : at'[q] = "idle"
    BY <1>1, <1>2, LeaveOK
  <2> QED
    BY <2>1, LogIdle
<1>19. ReceiptHolds'
  BY DEF RemoveJournal, ReceiptHolds
<1> QED
  BY <1>13, <1>14, <1>17, <1>18, <1>19 DEF ChainInv

\* A secured file holds, after any power loss that leaves a later write, what all see.
LEMMA SecureBehind ==
  ASSUME Kept(d, shared), NEW f, Secure(d, f, shared), NEW m \in After(d, TargetDevice)
  PROVE  m[f] = d.seen[f]
<1>1. CASE shared
  <2>1. TargetDevice = "state"
    BY <1>1 DEF TargetDevice
  <2> QED
    BY <1>1, <2>1 DEF Secure, Behind
<1>2. CASE ~shared
  BY <1>2, AfterIsImage DEF Secure, Fixed
<1> QED
  BY <1>1, <1>2

\* An operation lands whole, or torn, behind the journal that has it.
LEMMA ApplyChain ==
  ASSUME IInv, ChainInv, NEW p \in Procs, Apply(p)
  PROVE  ChainInv'
<1> DEFINE s == stage[p]
<1>1. /\ at[p] = "apply" /\ at[p] # "idle" /\ Step(p)
      /\ UNCHANGED <<shared, newest, redone, answered, entangled, faults, raced>>
  BY DEF Apply, Step
<1>2. /\ LocksOK /\ GhostsOK /\ CallOK /\ CallInv(p) /\ Kept(d, shared) /\ ContentsOK(d)
      /\ LogInv(p) /\ SettledPaths /\ Linked /\ Finish /\ Logged
  BY DEF IInv, CallOK, ChainInv
<1>3. s \in Stages /\ todo[p] \subseteq DOMAIN Ops[s]
  BY <1>1, <1>2, ActiveStage
<1>4. UNCHANGED <<shared, touched, entangled, newest, answered>>
  BY <1>1 DEF faults
<1>5. CASE d' = d /\ Leave(p) /\ skipped' = skipped
  <2>1. \A q \in Procs : at'[q] = "idle"
    BY <1>1, <1>2, <1>5, LeaveOK
  <2> QED
    BY <1>1, <1>4, <1>5, <2>1, QuietLeave DEF ghosts
<1>6. ASSUME NEW i \in todo[p], d' = Effect(Ops[s][i]), UNCHANGED <<at, stage>>,
             ~skipped' => ~skipped
      PROVE  ChainInv'
  <2> DEFINE op == Ops[s][i]
             upd == EffectOf(op)
  <2>1. /\ i \in DOMAIN Ops[s] /\ WellFormed(op) /\ op.new \in Contents
        /\ op.from \in Paths /\ op.to \in Paths
        /\ \A j \in DOMAIN Ops[s] : i # j => Apart(op, Ops[s][j])
        /\ \A path \in PathsOf(op) : OfStage(path, s)
    BY <1>3, <1>6, StageOps, StagePaths
  <2>2. Awaits(op) /\ d' = Effect(op)
    BY <1>1, <1>2, <1>6 DEF CallInv, Pend
  <2>d. op = Ops[s][i]
    OBVIOUS
  <2> HIDE DEF op
  <2>3. PICK body : Adds(d, d', upd, body, Carriers(op), TargetDevice, shared)
    BY <1>2, <2>1, <2>2, EffectAdds
  <2>4. /\ DOMAIN upd = {Target(op.from), Target(op.to)}
        /\ op.kind = "move" => /\ upd[Target(op.from)] = Absent
                               /\ upd[Target(op.to)] = Seen(op.from)
        /\ op.kind # "move" => upd[Target(op.to)] = op.new
    BY <2>1, EffectValues
  <2> HIDE DEF upd
  <2>5. DOMAIN upd \cap JournalFiles = {}
    BY <2>1, <2>4, FilesGiven, KindsApart
  <2>6. \A path \in Paths \ PathsOf(op) : Target(path) \in Files \ DOMAIN upd
    BY <2>4, FilesGiven, NamesApart DEF PathsOf
  <2>7. \A t \in Stages : Journal(t) \in Files \ DOMAIN upd
    BY <2>5, FilesGiven
  <2>8. Calm' => Calm
    BY <1>4, <1>6 DEF Calm
  <2>9. d.seen[Journal(s)] = "whole" /\ newest = s /\ "whole" # Absent
    BY <1>1, <1>2, CommitAssumption DEF LogInv, Journaled, CallInv, Answers, Working
  <2>10. \A t \in Stages : d'.seen[Journal(t)] = d.seen[Journal(t)]
    BY <1>2, <2>3, <2>7, SecureAdds DEF Kept
  <2>11. Calm => \A t \in Stages : Cross(s, t) => d.seen[Journal(t)] = Absent
    BY <1>1, <1>2 DEF LogInv, Untangled, Calm
  <2>12. Calm => \A t \in Stages : t = s \/ Cross(s, t) => Secure(d, Journal(t), shared)
    BY <1>1, <1>2 DEF LogInv, Fenced, Late
  <2>13. Linked'
    BY <1>2, <1>4, <2>3, <2>5, <2>8, LinkedOther
  <2>14. SettledPaths'
    <3>1. \A path \in Paths \ touched' : Target(path) \in DOMAIN upd =>
            \E t \in Stages : OfStage(path, t) /\ d.seen[Journal(t)] # Absent
      BY <1>3, <2>1, <2>6, <2>9
    <3> QED
      BY <1>2, <1>4, <2>3, <2>5, <2>8, <3>1, SettledOther
  <2>15. ASSUME Clean(op) PROVE op.kind = "move" => upd[Target(op.to)] = op.new
    <3>1. op.from \notin raced
      BY <1>2, <2>15 DEF GhostsOK, Clean, PathsOf
    <3> QED
      BY <2>1, <2>2, <2>4, <3>1 DEF Awaits, WellFormed
  <2>16. ASSUME Calm, NEW h \in Images(d')
         PROVE  \E m \in Images(d) :
                  /\ \A t \in Stages : h[Journal(t)] = m[Journal(t)]
                  /\ \A path \in Paths \ PathsOf(op) : h[Target(path)] = m[Target(path)]
                  /\ \/ h = m
                     \/ /\ m[Journal(s)] = "whole"
                        /\ \A t \in Stages : Cross(s, t) => m[Journal(t)] = Absent
                        /\ Finishable(h, op, touched)
    <3>1. PICK m \in Images(d) :
            /\ \A f \in Files \ DOMAIN upd : h[f] = m[f]
            /\ \/ h = m
               \/ /\ m \in After(d, TargetDevice)
                  /\ \A f \in DOMAIN upd : h[f] = upd[f] \/ (body /\ h[f] = Torn)
      BY <1>2, <2>3, AddsImage
    <3>2. CASE h # m
      <4>1. m[Journal(s)] = "whole"
        BY <1>2, <1>3, <2>9, <2>12, <2>16, <3>1, <3>2, SecureBehind
      <4>2. \A t \in Stages : Cross(s, t) => m[Journal(t)] = Absent
        BY <1>2, <2>11, <2>12, <2>16, <3>1, <3>2, SecureBehind
      <4>3. Finishable(h, op, touched)
        <5> SUFFICES ASSUME Clean(op), \A path \in PathsOf(op) : h[Target(path)] # Torn
                     PROVE  DoneIn(h, op)
          BY DEF Finishable, Clean
        <5>1. h[Target(op.from)] = upd[Target(op.from)] /\ h[Target(op.to)] = upd[Target(op.to)]
          BY <2>4, <3>1, <3>2 DEF PathsOf
        <5> QED
          BY <2>4, <2>15, <5>1 DEF DoneIn
      <4> QED
        BY <2>6, <2>7, <3>1, <4>1, <4>2, <4>3
    <3>3. CASE h = m
      BY <3>3
    <3> QED
      BY <3>2, <3>3
  <2>17. ASSUME Calm, NEW h \in Images(d'), NEW t \in Stages
         PROVE  /\ Recoverable(h, t, touched)
                /\ touched = {} /\ (t = s \/ d.seen[Journal(t)] = "whole") => Kempt(h, t)
    <3>1. PICK m \in Images(d) :
            /\ \A x \in Stages : h[Journal(x)] = m[Journal(x)]
            /\ \A path \in Paths \ PathsOf(op) : h[Target(path)] = m[Target(path)]
            /\ \/ h = m
               \/ /\ m[Journal(s)] = "whole"
                  /\ \A x \in Stages : Cross(s, x) => m[Journal(x)] = Absent
                  /\ Finishable(h, op, touched)
      BY <2>16, <2>17
    <3>2. /\ Recoverable(m, t, touched)
          /\ touched = {} /\ (t = s \/ d.seen[Journal(t)] = "whole") => Kempt(m, t)
      BY <1>2, <2>9, <2>17 DEF Finish, Logged
    <3>3. CASE h = m
      BY <3>2, <3>3
    <3>4. CASE h # m /\ t = s
      <4>1. ASSUME NEW j \in DOMAIN Ops[s], j # i
            PROVE  Finishable(h, Ops[s][j], touched)
        <5>1. /\ Ops[s][j].from \in Paths \ PathsOf(op) /\ Ops[s][j].to \in Paths \ PathsOf(op)
          BY <1>3, <2>1, <4>1, StageOps DEF Apart, PathsOf
        <5>2. Finishable(m, Ops[s][j], touched)
          BY <3>1, <3>2, <3>4 DEF Recoverable
        <5> QED
          BY <3>1, <5>1, <5>2, OpAgrees
      <4>2. Recoverable(h, s, touched)
        BY <2>d, <3>1, <3>4, <4>1 DEF Recoverable
      <4> QED
        BY <1>3, <3>1, <3>4, <4>2 DEF Kempt
    <3>5. CASE h # m /\ t # s /\ Cross(s, t)
      <4>1. h[Journal(t)] = Absent
        BY <3>1, <3>5
      <4> QED
        BY <2>9, <2>11, <2>17, <3>5, <4>1 DEF Recoverable
    <3>6. CASE t # s /\ ~Cross(s, t)
      <4>1. ASSUME NEW path, OfStage(path, t) PROVE h[Target(path)] = m[Target(path)]
        <5>1. path \in Paths \ PathsOf(op)
          BY <2>1, <3>6, <4>1, CrossPath, OfPaths
        <5> QED
          BY <3>1, <5>1
      <4> QED
        BY <3>1, <3>2, <4>1, StageAgrees
    <3> QED
      BY <3>3, <3>4, <3>5, <3>6
  <2>18. Finish' /\ Logged'
    BY <1>4, <2>8, <2>9, <2>10, <2>17 DEF Finish, Logged
  <2>19. LogInv(p)'
    BY <1>1, <1>2, <1>4, <1>6, <2>3, <2>5, LogOther
  <2>20. ReceiptHolds'
    <3>1. answered'.by = "none"
      BY <1>1, <1>2, <1>4 DEF CallInv, Answers, Working
    <3> QED
      BY <3>1 DEF ReceiptHolds
  <2> QED
    BY <1>1, <1>2, <2>13, <2>14, <2>18, <2>19, <2>20, LogAlone DEF ChainInv
<1> QED
  BY <1>2, <1>5, <1>6, ApplyNext

LEMMA ChainNext == IInv /\ ChainInv /\ [Next]_vars => ChainInv'
<1> SUFFICES ASSUME IInv, ChainInv, [Next]_vars PROVE ChainInv'
  OBVIOUS
<1>1. ASSUME NEW p \in Procs, Step(p) PROVE ChainInv'
  <2>1. ASSUME NEW s \in Stages, CommitFromReceipt(p, s) \/ CommitStart(p, s) \/ RecoverStart(p, s)
        PROVE  ChainInv'
    BY <2>1, CommitFromReceiptChain, CommitStartChain, RecoverStartChain
  <2>2. CASE WritePayload(p) \/ PayloadFence(p) \/ WriteJournal(p) \/ JournalFence(p)
    BY <2>2, WritePayloadChain, PayloadFenceChain, WriteJournalChain, JournalFenceChain
  <2>3. CASE Apply(p) \/ SyncTargets(p) \/ TargetFence(p)
    BY <2>3, ApplyChain, SyncTargetsChain, TargetFenceChain
  <2>4. CASE WriteReceipt(p) \/ ReceiptFlush(p) \/ RemoveJournal(p)
    BY <2>4, WriteReceiptChain, ReceiptFlushChain, RemoveJournalChain
  <2> QED
    BY <1>1, <2>1, <2>2, <2>3, <2>4 DEF Step
<1>2. ASSUME NEW p \in Procs, Kill(p) PROVE ChainInv'
  BY <1>2, KillChain
<1>3. ASSUME NEW path \in Editable, Edit(path) PROVE ChainInv'
  BY <1>3, EditChain, CommitAssumption
<1>4. CASE PowerLoss
  BY <1>4, PowerLossChain
<1>5. CASE UNCHANGED vars
  BY <1>5, StutterChain
<1> QED
  BY <1>1, <1>2, <1>3, <1>4, <1>5 DEF Next
-----------------------------------------------------------------------------
(* Theorems *)

LEMMA TargetsApart ==
  \A p, s, v : /\ Target(p) \notin DOMAIN One(Payload(s), v)
               /\ Target(p) \notin DOMAIN One(Journal(s), v)
               /\ Target(p) \notin DOMAIN One(Receipt(s), v)
  BY DEF One, Target, Payload, Journal, Receipt

\* The invariant that the steps of commit, recover, kills, edits and power
\* losses keep: how far the targets, the journal and the payloads of a call are
\* on their way to the disk at each of its steps.
THEOREM Inductive == Spec => []IInv
<1> QED
  BY InitInv, NextInv, PTL DEF Spec

\* RootLock: the lock is held exactly by the process that is inside commit or
\* recover, and files only ever hold contents that a stage, the tree or a
\* fault gave them.
THEOREM TypeCorrect == Spec => []TypeOK
<1>1. IInv => TypeOK
  <2> SUFFICES ASSUME IInv PROVE TypeOK
    OBVIOUS
  <2>1. LocksOK /\ GhostsOK /\ Kept(d, shared) /\ ContentsOK(d)
    BY DEF IInv, CallOK
  <2>2. d.seen \in [Files -> Contents]
    <3>1. IsMap(d.seen) /\ DOMAIN d.seen = Files
      BY <2>1 DEF Kept, StoreOK, StoreType
    <3>2. \A f \in Files : d.seen[f] \in Contents
      BY <2>1, SeenContents
    <3> QED
      BY <3>1, <3>2 DEF IsMap
  <2>3. DOMAIN d.disk = Files
    BY <2>1 DEF Kept
  <2>4. ASSUME NEW p \in Procs
        PROVE  /\ (lock = p) <=> (at[p] # "idle")
               /\ (stage[p] # Nobody) <=> (at[p] # "idle")
               /\ todo[p] \subseteq IF stage[p] = Nobody THEN {} ELSE DOMAIN Ops[stage[p]]
    BY <2>1 DEF LocksOK
  <2> QED
    BY <2>1, <2>2, <2>3, <2>4 DEF TypeOK, LocksOK, GhostsOK
<1> QED
  BY <1>1, Inductive, PTL

\* materialize_payloads before write_journal: no power loss leaves a journal
\* whose payloads are torn or missing.
THEOREM PayloadsComeFirst == Spec => []PayloadBeforeJournal
<1>1. IInv => PayloadBeforeJournal
  BY DEF IInv
<1> QED
  BY <1>1, Inductive, PTL

\* apply_journal before write_receipt: no power loss leaves a first receipt
\* without the work it claims, unless a recovery took over writes that nothing
\* had ordered.
THEOREM ReceiptsAreEarned == Spec => []ReceiptHasItsWork
<1>1. IInv => ReceiptHasItsWork
  BY DEF IInv
<1> QED
  BY <1>1, Inductive, PTL

\* The invariant behind the next three: unless someone built on writes no one had
\* ordered, or began a call over the journal of another stage, a target path is
\* settled or a stage whose journal stands has it, and the fence behind a journal
\* lies behind the removal of the journals before it that share a path with it.
THEOREM ChainInductive == Spec => [](IInv /\ ChainInv)
<1>1. Init => IInv /\ ChainInv
  BY InitInv, InitChain
<1>2. (IInv /\ ChainInv) /\ [Next]_vars => (IInv /\ ChainInv)'
  BY NextInv, ChainNext
<1> QED
  BY <1>1, <1>2, PTL DEF Spec

\* write_journal before apply_journal, remove_journal after write_receipt: no power
\* loss leaves a tree between before and after the stage started last without the
\* journal to finish it from, also when stages follow or undo one another.
THEOREM HalfStagesAreLogged == Spec => []HalfAppliedIsLogged
<1>1. IInv /\ ChainInv => HalfAppliedIsLogged
  <2> SUFFICES ASSUME IInv, ChainInv, newest # Nobody, touched = {}, ~skipped, ~entangled,
                      NEW files \in Images(d)
               PROVE  Kempt(files, newest)
    BY DEF HalfAppliedIsLogged, Kempt
  <2>1. newest \in Stages
    BY DEF IInv, CallOK, GhostsOK
  <2> QED
    BY <2>1 DEF ChainInv, Logged, Calm
<1> QED
  BY <1>1, ChainInductive, PTL

\* classify_operation: whatever a kill or a power loss leaves, recover finds each
\* operation of a stage with a journal done or still to do, but for what an editor
\* wrote and for torn files.
THEOREM JournalsCanFinish == Spec => []JournalCanFinish
<1>1. IInv /\ ChainInv => JournalCanFinish
  <2> SUFFICES ASSUME ChainInv, ~skipped, ~entangled, NEW files \in Images(d), NEW s \in Stages,
                      files[Journal(s)] = "whole", NEW i \in DOMAIN Ops[s]
               PROVE  Finishable(files, Ops[s][i], touched)
    BY DEF JournalCanFinish, Finishable
  <2> QED
    BY DEF ChainInv, Finish, Calm, Recoverable
<1> QED
  BY <1>1, ChainInductive, PTL

\* CommitReceipt: once a call that ran to its end has answered, no power loss takes
\* an operation of its stage back, nor once one has answered from the receipt of a
\* stage no journal of which is left.
THEOREM CommitsAreDurable == Spec => []CommittedIsDurable
<1>1. IInv /\ ChainInv => CommittedIsDurable
  BY DEF IInv, ChainInv, CallHolds, ReceiptHolds, RanToEnd, ResultStays, Calm,
         CommittedIsDurable, Lasting
<1> QED
  BY <1>1, ChainInductive, PTL

\* preflight and classify_operation: a call overwrites or removes no file that
\* an editor saved before it took the lock.
THEOREM EditsAreKept == Spec => KeepsEarlierEdits
<1> DEFINE Keep(path) == (Seen(path) = Edited /\ Seen(path)' # Edited /\ losses' = losses)
                            => path \in raced
<1>1. IInv /\ [Next]_vars => [\A path \in Paths : Keep(path)]_vars
  <2> SUFFICES ASSUME IInv, Next, NEW path \in Paths,
                      Seen(path) = Edited, Seen(path)' # Edited, losses' = losses
               PROVE  path \in raced
    OBVIOUS
  <2>0. /\ LocksOK /\ GhostsOK /\ CallOK /\ Kept(d, shared) /\ ContentsOK(d)
        /\ \A p \in Procs : CallInv(p)
    BY DEF IInv, CallOK
  <2>1. Target(path) \in Files /\ Target(path) \in TargetFiles
    BY FilesGiven
  <2>2. \A e : Firm(e) => e.seen[Target(path)] = Seen(path)
    BY DEF Firm, Tighter, Seen
  <2>3. ASSUME NEW upd, NEW body, NEW left, NEW dev,
               Adds(d, d', upd, body, left, dev, shared), Target(path) \notin DOMAIN upd
        PROVE  FALSE
    <3>1. shared \in BOOLEAN
      BY <2>0 DEF GhostsOK
    <3> QED
      BY <2>0, <2>1, <2>3, <3>1, SecureAdds DEF Seen
  <2>4. ASSUME NEW p \in Procs, Step(p) PROVE path \in raced
    <3>1. CASE d' = d
      BY <3>1 DEF Seen
    <3>2. CASE PayloadFence(p) \/ JournalFence(p) \/ SyncTargets(p) \/ TargetFence(p) \/ ReceiptFlush(p)
      <4>1. TargetDevice \in Devices /\ "state" \in Devices
        BY <2>0, DevicesGiven, TargetDeviceIs DEF Kept
      <4>2. Firm(d')
        <5>1. CASE PayloadFence(p)
          BY <2>0, <5>1, FirmFence DEF PayloadFence, StateDevice
        <5>2. CASE JournalFence(p)
          BY <2>0, <4>1, <5>2, FirmCross DEF JournalFence, StateDevice
        <5>3. CASE SyncTargets(p)
          BY <2>0, <5>3, FirmSync DEF SyncTargets
        <5>4. CASE TargetFence(p)
          BY <2>0, <4>1, <5>4, FirmCross DEF TargetFence
        <5>5. CASE ReceiptFlush(p)
          BY <2>0, <4>1, <5>5, FirmFlush DEF ReceiptFlush, StateDevice
        <5> QED
          BY <3>2, <5>1, <5>2, <5>3, <5>4, <5>5
      <4> QED
        BY <2>2, <4>2 DEF Seen
    <3>3. CASE WritePayload(p) /\ d' # d
      <4>1. at[p] # "idle" /\ d' = Publish(d, Payload(stage[p]), "whole", "blobs", StateDevice)
        BY <3>3 DEF WritePayload
      <4>2. stage[p] \in Stages
        BY <2>0, <4>1, ActiveStage
      <4>3. PICK body : Adds(d, d', One(Payload(stage[p]), "whole"), body, {"blobs"}, "state", shared)
        BY <2>0, <4>1, <4>2, WritePayloadAdds
      <4>4. Target(path) \notin DOMAIN One(Payload(stage[p]), "whole")
        BY TargetsApart
      <4> QED
        BY <2>3, <4>3, <4>4
    <3>4. CASE WriteJournal(p)
      <4>1. at[p] # "idle" /\ d' = Publish(d, Journal(stage[p]), "whole", "journals", StateDevice)
        BY <3>4 DEF WriteJournal
      <4>2. stage[p] \in Stages
        BY <2>0, <4>1, ActiveStage
      <4>3. PICK body : Adds(d, d', One(Journal(stage[p]), "whole"), body, {"journals"}, "state", shared)
        BY <2>0, <4>1, <4>2, WriteJournalAdds
      <4>4. Target(path) \notin DOMAIN One(Journal(stage[p]), "whole")
        BY TargetsApart
      <4> QED
        BY <2>3, <4>3, <4>4
    <3>5. CASE WriteReceipt(p)
      <4>1. at[p] # "idle" /\ d' = Publish(d, Receipt(stage[p]), "whole", "receipts", StateDevice)
        BY <3>5 DEF WriteReceipt
      <4>2. stage[p] \in Stages
        BY <2>0, <4>1, ActiveStage
      <4>3. PICK body : Adds(d, d', One(Receipt(stage[p]), "whole"), body, {"receipts"}, "state", shared)
        BY <2>0, <4>1, <4>2, WriteReceiptAdds
      <4>4. Target(path) \notin DOMAIN One(Receipt(stage[p]), "whole")
        BY TargetsApart
      <4> QED
        BY <2>3, <4>3, <4>4
    <3>6. CASE RemoveJournal(p) /\ d' # d
      <4>1. at[p] # "idle" /\ d' = Write(d, One(Journal(stage[p]), Absent), FALSE, {"journals"}, StateDevice)
        BY <3>6 DEF RemoveJournal
      <4>2. stage[p] \in Stages
        BY <2>0, <4>1, ActiveStage
      <4>3. PICK body : Adds(d, d', One(Journal(stage[p]), Absent), body, {"journals"}, "state", shared)
        BY <2>0, <4>1, <4>2, RemoveJournalAdds
      <4>4. Target(path) \notin DOMAIN One(Journal(stage[p]), Absent)
        BY TargetsApart
      <4> QED
        BY <2>3, <4>3, <4>4
    <3>7. CASE Apply(p) /\ d' # d
      <4>1. PICK i \in todo[p] : d' = Effect(Ops[stage[p]][i])
        BY <2>0, <3>7, ApplyNext
      <4>2. at[p] # "idle"
        BY <3>7 DEF Apply
      <4>3. stage[p] \in Stages /\ i \in DOMAIN Ops[stage[p]]
        BY <2>0, <4>1, <4>2, ActiveStage
      <4> DEFINE op == Ops[stage[p]][i]
      <4>4. WellFormed(op) /\ op.new \in Contents /\ Awaits(op)
        BY <2>0, <4>2, <4>3, StageOps DEF CallInv, Pend
      <4>5. d' = Effect(op)
        BY <4>1
      <4> HIDE DEF op
      <4>6. PICK body : Adds(d, d', EffectOf(op), body, Carriers(op), TargetDevice, shared)
        BY <2>0, <4>4, <4>5, EffectAdds
      <4>7. path = op.from \/ path = op.to
        BY <2>3, <4>4, <4>6, EffectValues, NamesApart
      <4>8. path = op.to /\ path # op.from => op.kind = "move"
        BY <4>4 DEF WellFormed
      <4>9. op.old # Edited /\ Absent # Edited
        BY <4>4, CommitAssumption DEF WellFormed
      <4> QED
        BY <4>4, <4>7, <4>8, <4>9 DEF Awaits
    <3>8. CASE \E s \in Stages : CommitFromReceipt(p, s) \/ CommitStart(p, s) \/ RecoverStart(p, s)
      BY <3>1, <3>8 DEF CommitFromReceipt, CommitStart, RecoverStart
    <3> QED
      BY <2>4, <3>1, <3>2, <3>3, <3>4, <3>5, <3>6, <3>7, <3>8 DEF Step
  <2>5. ASSUME NEW p \in Procs, Kill(p) PROVE path \in raced
    BY <2>5 DEF Kill, Seen
  <2>6. ASSUME NEW x \in Paths, Edit(x) PROVE path \in raced
    <3>1. d' = Write(d, One(Target(x), Edited), FALSE, Homes[x], TargetDevice)
      BY <2>6 DEF Edit
    <3>2. PICK body : Adds(d, d', One(Target(x), Edited), body, Homes[x], TargetDevice, shared)
      BY <2>0, <3>1, EditAdds
    <3>3. Target(path) \in DOMAIN One(Target(x), Edited)
      BY <2>3, <3>2
    <3>a. One(Target(x), Edited)[Target(path)] = Edited
      BY <3>3 DEF One
    <3>4. d'.seen[Target(path)] = Edited
      BY <2>0, <3>2, <3>3, <3>a, AddsSets
    <3> QED
      BY <3>4 DEF Seen
  <2>7. CASE PowerLoss
    BY <2>0, <2>7 DEF PowerLoss, GhostsOK
  <2> QED
    BY <2>4, <2>5, <2>6, <2>7, CommitAssumption DEF Next
<1> QED
  BY <1>1, Inductive, PTL DEF Spec, KeepsEarlierEdits
=============================================================================
