----------------------------- MODULE WriteCache -----------------------------
(***************************************************************************)
(* A disk behind a volatile write cache, as the sync levels of             *)
(* crates/soopy/src/_0a_durable_write.rs describe it.                      *)
(*                                                                         *)
(* A store `d' is what processes see (`seen'), what a power loss is sure   *)
(* to leave (`disk'), the writes in between by their serial numbers        *)
(* (`pend'), and the fences issued per device (`epoch').  A write changes  *)
(* some names at once:                                                     *)
(*   upd   the names it sets and their values,                             *)
(*   body  whether it published bytes, synced to Data before the rename,   *)
(*   left  the directories that carry its names and are not synced yet,    *)
(*   dev   the device it is on,                                            *)
(*   born  the number of fences on that device when it was issued,         *)
(*   ord   the number of fences when its last directory was synced.        *)
(* Nothing reads pend back except a power loss, which leaves one of Images.*)
(***************************************************************************)
EXTENDS Naturals

CONSTANTS
    Absent,     \* the value of a name that does not exist
    Torn,       \* a name whose bytes did not reach the device
    Devices     \* the devices names live on

\* One value under a name, and the values of f in front of those of g.
One(x, v) == [y \in {x} |-> v]

Over(f, g) ==
    [x \in DOMAIN f \cup DOMAIN g |-> IF x \in DOMAIN f THEN f[x] ELSE g[x]]

\* A store that has settled in the given files.
Settled(files) ==
    [seen |-> files, disk |-> files, pend |-> [k \in {} |-> {}],
     epoch |-> [dev \in Devices |-> 0]]

\* The last of some writes.
Newest(serials) == CHOOSE k \in serials : \A i \in serials : i <= k

NextSerial(d) == IF DOMAIN d.pend = {} THEN 1 ELSE Newest(DOMAIN d.pend) + 1

(***************************************************************************)
(* One write: publish_file's temporary and rename (body TRUE), a rename, a *)
(* removal.  Everyone sees it at once; the device may hold it at any later *)
(* time, or never.                                                         *)
(***************************************************************************)
Write(d, upd, body, dirs, dev) ==
    LET new == [upd |-> upd, body |-> body, left |-> dirs, dev |-> dev,
                born |-> d.epoch[dev], ord |-> 0]
    IN  [seen  |-> Over(upd, d.seen),
         disk  |-> d.disk,
         pend  |-> Over(One(NextSerial(d), new), d.pend),
         epoch |-> d.epoch]

\* fsync of directories: their names reach the device, nothing is ordered.
SyncDirs(d, dirs) ==
    LET Synced(w) == IF w.left \cap dirs # {}
                     THEN [w EXCEPT !.left = @ \ dirs, !.ord = d.epoch[w.dev]]
                     ELSE w
    IN  [seen |-> d.seen, disk |-> d.disk, epoch |-> d.epoch,
         pend |-> [k \in DOMAIN d.pend |-> Synced(d.pend[k])]]

\* Everything synced on the device persists before any later write does.
Fence(d, dir, dev) == [SyncDirs(d, {dir}) EXCEPT !.epoch[dev] = @ + 1]

-----------------------------------------------------------------------------

Shares(v, w) == DOMAIN v.upd \cap DOMAIN w.upd # {}

\* v is ordered before w: a fence lies between them, or they set one name.
Precedes(pend, i, j) ==
    LET v == pend[i]  w == pend[j]
    IN  \/ v.left = {} /\ v.dev = w.dev /\ v.ord < w.born
        \/ i < j /\ Shares(v, w)

\* The sets of writes that may be all that reached the device.
Orderly(d) ==
    {S \in SUBSET DOMAIN d.pend :
       \A i \in DOMAIN d.pend \ S : \A j \in S : ~Precedes(d.pend, i, j)}

\* Those of them that may lack their bytes: nothing that a fence put behind the
\* bytes is there.
MayTear(d, S) ==
    {k \in S : /\ d.pend[k].body
               /\ \A j \in S : d.pend[j].dev = d.pend[k].dev
                               => d.pend[j].born <= d.pend[k].born}

\* The files that result when the writes S reach the device, those of T
\* without their bytes: of the writes of a name the last one stays.
Names(d, S) == UNION {DOMAIN d.pend[k].upd : k \in S}

Last(d, S, f) == Newest({k \in S : f \in DOMAIN d.pend[k].upd})

Landed(d, S, T) ==
    LET Value(f) == IF Last(d, S, f) \in T THEN Torn
                                           ELSE d.pend[Last(d, S, f)].upd[f]
    IN  Over([f \in Names(d, S) |-> Value(f)], d.disk)

\* What has been synced on the device.
Durable(d, dev) == {k \in DOMAIN d.pend : d.pend[k].left = {} /\ d.pend[k].dev = dev}

Least(family) == CHOOSE S \in family : \A R \in family : S \subseteq R

\* The writes in `gone' are on the disk for good, and the device has no bytes to
\* lose.
Drained(d, gone, dev) ==
    LET Aged(w) == IF w.dev = dev THEN [w EXCEPT !.born = 0, !.body = FALSE] ELSE w
    IN  [seen  |-> d.seen,
         disk  |-> Landed(d, gone, {}),
         pend  |-> [k \in DOMAIN d.pend \ gone |-> Aged(d.pend[k])],
         epoch |-> [d.epoch EXCEPT ![dev] = 0]]

\* F_FULLFSYNC of a directory: what has been synced on its device is durable,
\* and whatever is ordered before it.
Enough(d, dev) == {S \in Orderly(d) : Durable(d, dev) \subseteq S}

Flush(d, dir, dev) ==
    LET s == SyncDirs(d, {dir})
    IN  Drained(s, Least(Enough(s, dev)), dev)

\* Every content of the disk a power loss may leave.
Images(d) ==
    UNION {{Landed(d, S, T) : T \in SUBSET MayTear(d, S)} : S \in Orderly(d)}
=============================================================================
