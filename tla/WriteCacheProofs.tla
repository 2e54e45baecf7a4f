--------------------------- MODULE WriteCacheProofs ---------------------------
(***************************************************************************)
(* Proofs about WriteCache, for any names, values and devices: syncing     *)
(* only narrows what a power loss may leave, a write adds at most itself   *)
(* on top of what it may leave, and what a fence or a flush has behind it  *)
(* is there.                                                               *)
(***************************************************************************)
EXTENDS WriteCache, WellFoundedInduction, TLAPS

All(d) == DOMAIN d.pend

IsMap(f) == f = [x \in DOMAIN f |-> f[x]]

WriteOK(d, w) ==
  /\ DOMAIN w = {"upd", "body", "left", "dev", "born", "ord"}
  /\ DOMAIN w.upd \subseteq DOMAIN d.disk
  /\ w.dev \in Devices /\ w.born \in Nat /\ w.ord \in Nat
  /\ w.born <= d.epoch[w.dev]
  /\ w.left = {} => w.born <= w.ord /\ w.ord <= d.epoch[w.dev]

\* A store whose serials and counters are numbers that the fences bound, whose
\* names live on one device each.
StoreType(d) ==
  /\ d.epoch \in [Devices -> Nat]
  /\ All(d) \subseteq Nat
  /\ \E n \in Nat : \A k \in All(d) : k <= n
  /\ \A k \in All(d) : WriteOK(d, d.pend[k])
  /\ \A i, j \in All(d) :
       Shares(d.pend[i], d.pend[j]) => d.pend[i].dev = d.pend[j].dev
  /\ DOMAIN d.seen = DOMAIN d.disk
  /\ IsMap(d.disk)

\* What processes see is what all the writes leave.
SeenLands(d) == \A f \in DOMAIN d.disk : d.seen[f] = Landed(d, All(d), {})[f]

StoreOK(d) == StoreType(d) /\ SeenLands(d)

\* The writes that a fence has put before the next write on the device.
Barred(d, dev) ==
  {k \in All(d) : /\ d.pend[k].left = {} /\ d.pend[k].dev = dev
                  /\ d.pend[k].ord < d.epoch[dev]}

\* The images of a power loss that leaves the next write on the device as well.
MayTearBelow(d, S, dev) ==
  {k \in MayTear(d, S) : d.pend[k].dev = dev => d.epoch[dev] <= d.pend[k].born}

After(d, dev) ==
  UNION {{Landed(d, S, T) : T \in SUBSET MayTearBelow(d, S, dev)} :
           S \in {S \in Orderly(d) : Barred(d, dev) \subseteq S}}
-----------------------------------------------------------------------------

LEMMA LargestExists ==
  ASSUME NEW S \in SUBSET Nat, S # {}, NEW n \in Nat, \A k \in S : k <= n
  PROVE  /\ Newest(S) \in S
         /\ \A i \in S : i <= Newest(S)
<1> DEFINE Below == {m \in Nat : \E k \in S : m = n - k}
<1>1. Below \subseteq Nat /\ Below # {}
  <2>1. PICK k \in S : k \in Nat
    OBVIOUS
  <2>2. n - k \in Nat
    BY <2>1
  <2>3. n - k \in Below
    BY <2>1, <2>2
  <2> QED
    BY <2>3
<1> HIDE DEF Below
<1>2. PICK m \in Below : \A j \in Below : ~ (<<j, m>> \in OpToRel(<, Nat))
  BY <1>1, NatLessThanWellFounded, WFMin
<1>3. PICK k \in S : m = n - k
  BY DEF Below
<1>4. \A i \in S : i <= k
  <2> SUFFICES ASSUME NEW i \in S, ~(i <= k) PROVE FALSE
    OBVIOUS
  <2>1. n - i \in Nat /\ n - i < m
    BY <1>3
  <2>3. n - i \in Below
    BY <2>1 DEF Below
  <2>2. <<n - i, m>> \in OpToRel(<, Nat)
    BY <2>1, <2>3, <1>1 DEF OpToRel
  <2> QED
    BY <1>2, <2>3, <2>2
<1> QED
  BY <1>4 DEF Newest

\* The last setter of a name is one, and no other is later.
LEMMA LastFacts ==
  ASSUME NEW d, StoreType(d), NEW S, S \subseteq All(d), NEW f \in Names(d, S)
  PROVE  /\ Last(d, S, f) \in S /\ Last(d, S, f) \in Nat
         /\ f \in DOMAIN d.pend[Last(d, S, f)].upd
         /\ \A k \in S : f \in DOMAIN d.pend[k].upd => k <= Last(d, S, f)
<1> DEFINE By == {k \in S : f \in DOMAIN d.pend[k].upd}
<1>1. By # {}
  BY DEF Names
<1>2. By \in SUBSET Nat
  BY DEF StoreType
<1>3. PICK n \in Nat : \A k \in By : k <= n
  BY DEF StoreType
<1>4. Newest(By) \in By /\ \A i \in By : i <= Newest(By)
  <2> HIDE DEF By
  <2> QED
    BY <1>1, <1>2, <1>3, LargestExists
<1> QED
  BY <1>2, <1>4 DEF Last

LEMMA LastIs ==
  ASSUME NEW d, StoreType(d), NEW S, S \subseteq All(d), NEW f,
         NEW k \in S, f \in DOMAIN d.pend[k].upd,
         \A i \in S : f \in DOMAIN d.pend[i].upd => i <= k
  PROVE  f \in Names(d, S) /\ Last(d, S, f) = k
<1>1. f \in Names(d, S)
  BY DEF Names
<1>2. k <= Last(d, S, f) /\ Last(d, S, f) <= k
  BY <1>1, LastFacts
<1>3. k \in Nat /\ Last(d, S, f) \in Nat
  BY <1>1, LastFacts DEF StoreType
<1> QED
  BY <1>1, <1>2, <1>3

LEMMA SameMap ==
  ASSUME NEW f, NEW g, IsMap(f), IsMap(g), DOMAIN f = DOMAIN g,
         \A x \in DOMAIN f : f[x] = g[x]
  PROVE  f = g
  BY DEF IsMap

\* What lands is a value for every name, the one of the last setter.
LEMMA LandedMap ==
  ASSUME NEW d, StoreType(d), NEW S, S \subseteq All(d), NEW T
  PROVE  IsMap(Landed(d, S, T)) /\ DOMAIN Landed(d, S, T) = DOMAIN d.disk
<1>1. Names(d, S) \subseteq DOMAIN d.disk
  BY DEF Names, StoreType, WriteOK
<1> QED
  BY <1>1 DEF Landed, Over, IsMap

LEMMA LandedSet ==
  ASSUME NEW d, StoreType(d), NEW S, S \subseteq All(d), NEW T, NEW f \in Names(d, S)
  PROVE  /\ f \in DOMAIN d.disk
         /\ Last(d, S, f) \in T => Landed(d, S, T)[f] = Torn
         /\ Last(d, S, f) \notin T =>
              Landed(d, S, T)[f] = d.pend[Last(d, S, f)].upd[f]
<1>1. Names(d, S) \subseteq DOMAIN d.disk
  BY DEF Names, StoreType, WriteOK
<1> QED
  BY <1>1 DEF Landed, Over

LEMMA LandedKept ==
  ASSUME NEW d, StoreType(d), NEW S, S \subseteq All(d), NEW T,
         NEW f \in DOMAIN d.disk, f \notin Names(d, S)
  PROVE  Landed(d, S, T)[f] = d.disk[f]
  BY DEF Landed, Over

\* What lands depends on the disk and on what the writes set, alone.
LEMMA LandedSame ==
  ASSUME NEW d, NEW e, StoreType(d), StoreType(e), d.disk = e.disk,
         NEW S, S \subseteq All(d), S \subseteq All(e),
         \A k \in S : e.pend[k].upd = d.pend[k].upd,
         NEW T
  PROVE  Landed(e, S, T) = Landed(d, S, T)
<1>1. Names(e, S) = Names(d, S)
  BY DEF Names
<1>2. \A f : Last(e, S, f) = Last(d, S, f)
  <2> TAKE f
  <2>1. {k \in S : f \in DOMAIN e.pend[k].upd} = {k \in S : f \in DOMAIN d.pend[k].upd}
    OBVIOUS
  <2> QED
    BY <2>1 DEF Last
<1>3. \A f \in Names(d, S) : e.pend[Last(e, S, f)].upd = d.pend[Last(d, S, f)].upd
  BY <1>2, LastFacts
<1>4. ASSUME NEW f \in DOMAIN d.disk
      PROVE  Landed(e, S, T)[f] = Landed(d, S, T)[f]
  <2>1. CASE f \notin Names(d, S)
    BY <1>1, <2>1, LandedKept
  <2>2. CASE f \in Names(d, S) /\ Last(d, S, f) \in T
    BY <1>1, <1>2, <2>2, LandedSet
  <2>3. CASE f \in Names(d, S) /\ Last(d, S, f) \notin T
    BY <1>1, <1>2, <1>3, <2>3, LandedSet
  <2> QED
    BY <2>1, <2>2, <2>3
<1>5. /\ IsMap(Landed(d, S, T)) /\ DOMAIN Landed(d, S, T) = DOMAIN d.disk
      /\ IsMap(Landed(e, S, T)) /\ DOMAIN Landed(e, S, T) = DOMAIN d.disk
  BY LandedMap
<1> QED
  BY <1>4, <1>5, SameMap

LEMMA NextFacts ==
  ASSUME NEW d, StoreType(d)
  PROVE  /\ NextSerial(d) \in Nat
         /\ \A k \in All(d) : k < NextSerial(d)
<1>1. CASE All(d) = {}
  BY <1>1 DEF NextSerial, All
<1>2. CASE All(d) # {}
  <2>1. Newest(All(d)) \in All(d) /\ \A i \in All(d) : i <= Newest(All(d))
    BY <1>2, LargestExists DEF StoreType
  <2>2. NextSerial(d) = Newest(All(d)) + 1
    BY <1>2 DEF NextSerial, All
  <2> QED
    BY <2>1, <2>2 DEF StoreType
<1> QED
  BY <1>1, <1>2

\* All the writes may be what reached the device: what processes see may stay.
LEMMA SeenIsImage ==
  ASSUME NEW d, StoreOK(d)
  PROVE  /\ Landed(d, All(d), {}) \in Images(d)
         /\ \A f \in DOMAIN d.disk : Landed(d, All(d), {})[f] = d.seen[f]
<1>1. All(d) \in Orderly(d)
  BY DEF Orderly, All
<1>2. {} \in SUBSET MayTear(d, All(d))
  OBVIOUS
<1> QED
  BY <1>1, <1>2 DEF Images, StoreOK, SeenLands

\* Nothing is in the cache of a disk that has settled.
LEMMA SettledFacts ==
  ASSUME NEW files, IsMap(files)
  PROVE  /\ StoreOK(Settled(files))
         /\ All(Settled(files)) = {}
         /\ Images(Settled(files)) = {files}
         /\ \A dev : After(Settled(files), dev) = {files}
<1> DEFINE d == Settled(files)
<1>1. /\ d.seen = files /\ d.disk = files /\ All(d) = {}
      /\ d.epoch = [dev \in Devices |-> 0]
  BY DEF Settled, All
<1> HIDE DEF d
<1>2. StoreType(d)
  BY <1>1 DEF StoreType
<1>3. \A T : Landed(d, {}, T) = files
  <2> TAKE T
  <2>1. Names(d, {}) = {}
    BY DEF Names
  <2>2. \A f \in DOMAIN d.disk : Landed(d, {}, T)[f] = d.disk[f]
    BY <1>1, <1>2, <2>1, LandedKept
  <2>3. IsMap(Landed(d, {}, T)) /\ DOMAIN Landed(d, {}, T) = DOMAIN d.disk
    BY <1>1, <1>2, LandedMap
  <2> QED
    BY <1>1, <2>2, <2>3, SameMap
<1>4. Orderly(d) = {{}}
  BY <1>1 DEF Orderly, All
<1>5. MayTear(d, {}) = {} /\ \A dev : MayTearBelow(d, {}, dev) = {} /\ Barred(d, dev) = {}
  BY <1>1 DEF MayTear, MayTearBelow, Barred
<1>6. Images(d) = {files}
  BY <1>3, <1>4, <1>5 DEF Images
<1>7. \A dev : After(d, dev) = {files}
  <2> TAKE dev
  <2>1. {S \in Orderly(d) : Barred(d, dev) \subseteq S} = {{}}
    BY <1>4, <1>5
  <2>2. {Landed(d, {}, T) : T \in SUBSET MayTearBelow(d, {}, dev)} = {files}
    BY <1>3, <1>5
  <2> QED
    <3>1. After(d, dev) = UNION {{Landed(d, S, T) : T \in SUBSET MayTearBelow(d, S, dev)} : S \in {{}}}
      BY <2>1 DEF After
    <3> QED
      BY <2>2, <3>1
<1>8. SeenLands(d)
  BY <1>1, <1>3 DEF SeenLands
<1> QED
  BY <1>1, <1>2, <1>6, <1>7, <1>8 DEF d, StoreOK
-----------------------------------------------------------------------------

\* More order between the same writes leaves fewer images.
LEMMA Narrower ==
  ASSUME NEW d, NEW e, StoreType(d), StoreType(e),
         All(e) = All(d), e.disk = d.disk,
         \A k \in All(d) :
           /\ e.pend[k].upd = d.pend[k].upd /\ e.pend[k].body = d.pend[k].body
           /\ e.pend[k].dev = d.pend[k].dev /\ e.pend[k].born = d.pend[k].born,
         \A i, j \in All(d) : Precedes(d.pend, i, j) => Precedes(e.pend, i, j)
  PROVE  /\ Images(e) \subseteq Images(d)
         /\ \A dev : Barred(d, dev) \subseteq Barred(e, dev) /\ d.epoch[dev] <= e.epoch[dev]
                     /\ d.epoch[dev] \in Nat /\ e.epoch[dev] \in Nat
                       => After(e, dev) \subseteq After(d, dev)
<1>1. \A S \in Orderly(e) : S \in Orderly(d)
  BY DEF Orderly, All
<1>2. \A S \in SUBSET All(d) : MayTear(e, S) = MayTear(d, S)
  BY DEF MayTear
<1>3. \A S \in SUBSET All(d) : \A T : Landed(e, S, T) = Landed(d, S, T)
  BY LandedSame
<1>4. \A S \in Orderly(d) : S \in SUBSET All(d)
  BY DEF Orderly, All
<1>5. Images(e) \subseteq Images(d)
  <2> SUFFICES ASSUME NEW S \in Orderly(e), NEW T \in SUBSET MayTear(e, S)
               PROVE  Landed(e, S, T) \in Images(d)
    BY DEF Images
  <2>1. S \in Orderly(d) /\ T \in SUBSET MayTear(d, S) /\ Landed(e, S, T) = Landed(d, S, T)
    BY <1>1, <1>2, <1>3, <1>4
  <2> QED
    BY <2>1 DEF Images
<1>6. ASSUME NEW dev, Barred(d, dev) \subseteq Barred(e, dev), d.epoch[dev] <= e.epoch[dev],
             d.epoch[dev] \in Nat, e.epoch[dev] \in Nat
      PROVE  After(e, dev) \subseteq After(d, dev)
  <2> SUFFICES ASSUME NEW S \in Orderly(e), Barred(e, dev) \subseteq S,
                      NEW T \in SUBSET MayTearBelow(e, S, dev)
               PROVE  Landed(e, S, T) \in After(d, dev)
    BY DEF After
  <2>1. S \in Orderly(d) /\ S \in SUBSET All(d) /\ Landed(e, S, T) = Landed(d, S, T)
    BY <1>1, <1>3, <1>4
  <2>2. Barred(d, dev) \subseteq S
    BY <1>6
  <2>3. \A k \in T : k \in All(d) /\ d.pend[k].born \in Nat
    BY <2>1, <1>2 DEF MayTearBelow, MayTear, StoreType, WriteOK
  <2>4. T \in SUBSET MayTearBelow(d, S, dev)
    BY <1>2, <1>6, <2>1, <2>3 DEF MayTearBelow
  <2> QED
    BY <2>1, <2>2, <2>4 DEF After
<1> QED
  BY <1>5, <1>6

\* A directory sync, field by field.
LEMMA SyncFields ==
  ASSUME NEW d, StoreType(d), NEW dirs
  PROVE  LET e == SyncDirs(d, dirs)
         IN  /\ e.seen = d.seen /\ e.disk = d.disk /\ e.epoch = d.epoch
             /\ DOMAIN e = {"seen", "disk", "epoch", "pend"}
             /\ All(e) = All(d)
             /\ \A k \in All(d) :
                  /\ DOMAIN e.pend[k] = DOMAIN d.pend[k]
                  /\ e.pend[k].upd = d.pend[k].upd /\ e.pend[k].body = d.pend[k].body
                  /\ e.pend[k].dev = d.pend[k].dev /\ e.pend[k].born = d.pend[k].born
                  /\ e.pend[k].left = d.pend[k].left \ dirs
                  /\ \/ e.pend[k].ord = d.pend[k].ord /\ e.pend[k].left = d.pend[k].left
                     \/ e.pend[k].ord = d.epoch[d.pend[k].dev] /\ d.pend[k].left # {}
<1> DEFINE e == SyncDirs(d, dirs)
<1>1. /\ e.seen = d.seen /\ e.disk = d.disk /\ e.epoch = d.epoch /\ All(e) = All(d)
      /\ DOMAIN e = {"seen", "disk", "epoch", "pend"}
  BY DEF SyncDirs, All
<1>2. ASSUME NEW k \in All(d)
      PROVE  /\ DOMAIN e.pend[k] = DOMAIN d.pend[k]
             /\ e.pend[k].upd = d.pend[k].upd /\ e.pend[k].body = d.pend[k].body
             /\ e.pend[k].dev = d.pend[k].dev /\ e.pend[k].born = d.pend[k].born
             /\ e.pend[k].left = d.pend[k].left \ dirs
             /\ \/ e.pend[k].ord = d.pend[k].ord /\ e.pend[k].left = d.pend[k].left
                \/ e.pend[k].ord = d.epoch[d.pend[k].dev] /\ d.pend[k].left # {}
  <2> DEFINE w == d.pend[k]
  <2>1. DOMAIN w = {"upd", "body", "left", "dev", "born", "ord"}
    BY DEF StoreType, WriteOK
  <2>2. CASE w.left \cap dirs = {}
    <3>1. e.pend[k] = w
      BY <2>2, <1>2 DEF SyncDirs, All
    <3> QED
      BY <2>2, <3>1
  <2>3. CASE w.left \cap dirs # {}
    <3>1. e.pend[k] = [w EXCEPT !.left = @ \ dirs, !.ord = d.epoch[w.dev]]
      BY <2>3, <1>2 DEF SyncDirs, All
    <3> QED
      BY <2>1, <2>3, <3>1
  <2> QED
    BY <2>2, <2>3
<1> QED
  BY <1>1, <1>2

LEMMA SyncStore ==
  ASSUME NEW d, StoreOK(d), NEW dirs
  PROVE  StoreOK(SyncDirs(d, dirs))
<1> DEFINE e == SyncDirs(d, dirs)
<1>0. StoreType(d)
  BY DEF StoreOK
<1>1. /\ e.seen = d.seen /\ e.disk = d.disk /\ e.epoch = d.epoch
      /\ All(e) = All(d)
      /\ \A k \in All(d) :
           /\ DOMAIN e.pend[k] = DOMAIN d.pend[k]
           /\ e.pend[k].upd = d.pend[k].upd /\ e.pend[k].body = d.pend[k].body
           /\ e.pend[k].dev = d.pend[k].dev /\ e.pend[k].born = d.pend[k].born
           /\ e.pend[k].left = d.pend[k].left \ dirs
           /\ \/ e.pend[k].ord = d.pend[k].ord /\ e.pend[k].left = d.pend[k].left
              \/ e.pend[k].ord = d.epoch[d.pend[k].dev] /\ d.pend[k].left # {}
  BY <1>0, SyncFields
<1> HIDE DEF e
<1>2. ASSUME NEW k \in All(d)
      PROVE  WriteOK(e, e.pend[k])
  <2>1. WriteOK(d, d.pend[k]) /\ d.epoch \in [Devices -> Nat]
    BY <1>0 DEF StoreType
  <2>2. d.epoch[d.pend[k].dev] \in Nat
    BY <2>1 DEF WriteOK
  <2> QED
    BY <1>1, <1>2, <2>1, <2>2 DEF WriteOK
<1>3. \A i, j \in All(e) :
       Shares(e.pend[i], e.pend[j]) => e.pend[i].dev = e.pend[j].dev
  BY <1>0, <1>1 DEF StoreType, Shares
<1>4. StoreType(e)
  BY <1>0, <1>1, <1>2, <1>3 DEF StoreType
<1>5. Landed(e, All(d), {}) = Landed(d, All(d), {})
  BY <1>0, <1>1, <1>4, LandedSame
<1>6. SeenLands(e)
  BY <1>1, <1>5 DEF SeenLands, StoreOK
<1> QED
  BY <1>4, <1>6 DEF StoreOK, e

\* A directory sync takes no content from what a power loss may leave to add one.
LEMMA SyncNarrows ==
  ASSUME NEW d, StoreOK(d), NEW dirs
  PROVE  /\ Images(SyncDirs(d, dirs)) \subseteq Images(d)
         /\ \A dev \in Devices : After(SyncDirs(d, dirs), dev) \subseteq After(d, dev)
<1> DEFINE e == SyncDirs(d, dirs)
<1>0. StoreType(d) /\ StoreType(e)
  BY SyncStore DEF StoreOK
<1>1. /\ e.disk = d.disk /\ e.epoch = d.epoch /\ All(e) = All(d)
      /\ \A k \in All(d) :
           /\ e.pend[k].upd = d.pend[k].upd /\ e.pend[k].body = d.pend[k].body
           /\ e.pend[k].dev = d.pend[k].dev /\ e.pend[k].born = d.pend[k].born
           /\ d.pend[k].left = {} => e.pend[k].left = {} /\ e.pend[k].ord = d.pend[k].ord
  BY <1>0, SyncFields
<1> HIDE DEF e
<1>2. \A i, j \in All(d) : Precedes(d.pend, i, j) => Precedes(e.pend, i, j)
  BY <1>1 DEF Precedes, Shares
<1>3. \A dev \in Devices : /\ Barred(d, dev) \subseteq Barred(e, dev)
                           /\ d.epoch[dev] <= e.epoch[dev]
                           /\ d.epoch[dev] \in Nat /\ e.epoch[dev] \in Nat
  BY <1>0, <1>1 DEF Barred, StoreType
<1> QED
  BY <1>0, <1>1, <1>2, <1>3, Narrower DEF e

LEMMA FenceFields ==
  ASSUME NEW d, StoreType(d), NEW dir, NEW dev \in Devices
  PROVE  LET e == SyncDirs(d, {dir})
             g == Fence(d, dir, dev)
         IN  /\ g.seen = d.seen /\ g.disk = d.disk /\ g.pend = e.pend
             /\ g.epoch = [d.epoch EXCEPT ![dev] = d.epoch[dev] + 1]
<1> DEFINE e == SyncDirs(d, {dir})
<1>1. e.seen = d.seen /\ e.disk = d.disk /\ e.epoch = d.epoch
      /\ DOMAIN e = {"seen", "disk", "epoch", "pend"}
  BY SyncFields
<1>2. Fence(d, dir, dev) = [e EXCEPT !.epoch[dev] = e.epoch[dev] + 1]
  BY DEF Fence
<1> HIDE DEF e
<1> QED
  BY <1>1, <1>2 DEF e

LEMMA FenceStore ==
  ASSUME NEW d, StoreOK(d), NEW dir, NEW dev \in Devices
  PROVE  StoreOK(Fence(d, dir, dev))
<1> DEFINE e == SyncDirs(d, {dir})
           g == Fence(d, dir, dev)
<1>0. StoreType(d) /\ StoreOK(e) /\ StoreType(e) /\ e.epoch = d.epoch
  BY SyncStore, SyncFields DEF StoreOK
<1>a. /\ g.seen = d.seen /\ g.disk = d.disk /\ g.pend = e.pend
      /\ g.epoch = [d.epoch EXCEPT ![dev] = d.epoch[dev] + 1]
  BY <1>0, FenceFields
<1>b. e.seen = d.seen /\ e.disk = d.disk
  BY <1>0, SyncFields
<1> HIDE DEF e, g
<1>1. /\ g.seen = e.seen /\ g.disk = e.disk /\ g.pend = e.pend /\ All(g) = All(e)
      /\ g.epoch = [e.epoch EXCEPT ![dev] = e.epoch[dev] + 1]
  BY <1>0, <1>a, <1>b DEF All
<1>2. \A x \in Devices : /\ e.epoch[x] \in Nat /\ g.epoch[x] \in Nat
                         /\ e.epoch[x] <= g.epoch[x]
  BY <1>0, <1>1 DEF StoreType
<1>3. ASSUME NEW k \in All(g) PROVE WriteOK(g, g.pend[k])
  <2>1. WriteOK(e, e.pend[k])
    BY <1>0, <1>1 DEF StoreType
  <2> QED
    BY <1>1, <1>2, <2>1 DEF WriteOK
<1>4. g.epoch \in [Devices -> Nat]
  BY <1>0, <1>1 DEF StoreType
<1>5. StoreType(g)
  BY <1>0, <1>1, <1>3, <1>4 DEF StoreType
<1>6. Landed(g, All(e), {}) = Landed(e, All(e), {})
  BY <1>0, <1>1, <1>5, LandedSame
<1>7. SeenLands(g)
  BY <1>0, <1>1, <1>6 DEF SeenLands, StoreOK
<1> QED
  BY <1>5, <1>7 DEF StoreOK, g

LEMMA FenceNarrows ==
  ASSUME NEW d, StoreOK(d), NEW dir, NEW dev \in Devices
  PROVE  /\ Images(Fence(d, dir, dev)) \subseteq Images(d)
         /\ \A x \in Devices : After(Fence(d, dir, dev), x) \subseteq After(d, x)
<1> DEFINE e == SyncDirs(d, {dir})
           g == Fence(d, dir, dev)
<1>0. /\ StoreType(d) /\ StoreOK(e) /\ StoreType(e) /\ e.epoch = d.epoch /\ StoreType(g)
      /\ Images(e) \subseteq Images(d)
      /\ \A x \in Devices : After(e, x) \subseteq After(d, x)
  BY SyncStore, SyncFields, SyncNarrows, FenceStore DEF StoreOK
<1>a. /\ g.disk = d.disk /\ g.pend = e.pend
      /\ g.epoch = [d.epoch EXCEPT ![dev] = d.epoch[dev] + 1]
  BY <1>0, FenceFields
<1>b. e.disk = d.disk
  BY <1>0, SyncFields
<1> HIDE DEF e, g
<1>1. /\ g.disk = e.disk /\ g.pend = e.pend /\ All(g) = All(e)
      /\ g.epoch = [e.epoch EXCEPT ![dev] = e.epoch[dev] + 1]
  BY <1>0, <1>a, <1>b DEF All
<1>2. \A x \in Devices : /\ e.epoch[x] \in Nat /\ g.epoch[x] \in Nat
                         /\ e.epoch[x] <= g.epoch[x]
  BY <1>0, <1>1 DEF StoreType
<1>3. \A x \in Devices : Barred(e, x) \subseteq Barred(g, x)
  <2> SUFFICES ASSUME NEW x \in Devices, NEW k \in Barred(e, x)
               PROVE  k \in Barred(g, x)
    OBVIOUS
  <2>1. e.pend[k].ord \in Nat /\ e.pend[k].ord < e.epoch[x] /\ k \in All(e)
    BY <1>0 DEF Barred, StoreType, WriteOK
  <2> QED
    BY <1>1, <1>2, <2>1 DEF Barred
<1>4. \A i, j \in All(e) : Precedes(e.pend, i, j) => Precedes(g.pend, i, j)
  BY <1>1
<1>5. /\ Images(g) \subseteq Images(e)
      /\ \A x \in Devices : After(g, x) \subseteq After(e, x)
  BY <1>0, <1>1, <1>2, <1>3, <1>4, Narrower
<1> QED
  BY <1>0, <1>5 DEF g
-----------------------------------------------------------------------------

\* A flush takes the least set of writes that holds what was synced and whatever
\* is ordered before it; the sharing of names does not lead to another device.
LEMMA LeastEnough ==
  ASSUME NEW d, StoreType(d), NEW dev
  PROVE  LET G == Least(Enough(d, dev))
         IN  /\ G \in Orderly(d) /\ Durable(d, dev) \subseteq G
             /\ \A k \in G : d.pend[k].dev = dev
<1> DEFINE G == {k \in All(d) : \A S \in Enough(d, dev) : k \in S}
           O == {k \in All(d) : d.pend[k].dev = dev}
<1>1. G \in Enough(d, dev)
  <2>1. Durable(d, dev) \subseteq G
    BY DEF Durable, Enough, All
  <2>2. G \in SUBSET DOMAIN d.pend
    BY DEF All
  <2>3. \A i \in DOMAIN d.pend \ G : \A j \in G : ~Precedes(d.pend, i, j)
    BY DEF Enough, Orderly, All
  <2> QED
    BY <2>1, <2>2, <2>3 DEF Enough, Orderly
<1>2. O \in Enough(d, dev)
  <2>1. \A i \in DOMAIN d.pend \ O : \A j \in O : ~Precedes(d.pend, i, j)
    BY DEF StoreType, Precedes, All
  <2> QED
    BY <2>1 DEF Enough, Orderly, Durable, All
<1>3. \A S \in Enough(d, dev) : G \subseteq S
  OBVIOUS
<1> HIDE DEF G, O
<1>4. Least(Enough(d, dev)) \in Enough(d, dev)
      /\ \A S \in Enough(d, dev) : Least(Enough(d, dev)) \subseteq S
  BY <1>1, <1>3 DEF Least
<1> QED
  BY <1>2, <1>4 DEF Enough, O

DrainedTo(d, e, gone, dev) ==
  /\ e.seen = d.seen /\ e.disk = Landed(d, gone, {})
  /\ e.epoch = [d.epoch EXCEPT ![dev] = 0]
  /\ gone \subseteq All(d)
  /\ \A k : k \in All(e) <=> k \in All(d) /\ k \notin gone
  /\ DOMAIN e.disk = DOMAIN d.disk
  /\ \A k \in All(e) :
       /\ DOMAIN e.pend[k] = DOMAIN d.pend[k]
       /\ e.pend[k].upd = d.pend[k].upd /\ e.pend[k].dev = d.pend[k].dev
       /\ e.pend[k].left = d.pend[k].left /\ e.pend[k].ord = d.pend[k].ord
       /\ IF d.pend[k].dev = dev
          THEN e.pend[k].born = 0 /\ e.pend[k].body = FALSE
          ELSE e.pend[k].born = d.pend[k].born /\ e.pend[k].body = d.pend[k].body

LEMMA DrainedFields ==
  ASSUME NEW d, StoreType(d), NEW dev \in Devices, NEW G \in Orderly(d)
  PROVE  DrainedTo(d, Drained(d, G, dev), G, dev)
<1> DEFINE e == Drained(d, G, dev)
<1>1. G \subseteq All(d)
  BY DEF Orderly, All
<1>2. /\ e.seen = d.seen /\ e.disk = Landed(d, G, {})
      /\ e.epoch = [d.epoch EXCEPT ![dev] = 0] /\ All(e) = All(d) \ G
  BY DEF Drained, All
<1>3. DOMAIN e.disk = DOMAIN d.disk
  BY <1>1, LandedMap DEF Drained
<1>4. ASSUME NEW k \in All(e)
      PROVE  /\ DOMAIN e.pend[k] = DOMAIN d.pend[k]
             /\ e.pend[k].upd = d.pend[k].upd /\ e.pend[k].dev = d.pend[k].dev
             /\ e.pend[k].left = d.pend[k].left /\ e.pend[k].ord = d.pend[k].ord
             /\ IF d.pend[k].dev = dev
                THEN e.pend[k].born = 0 /\ e.pend[k].body = FALSE
                ELSE e.pend[k].born = d.pend[k].born /\ e.pend[k].body = d.pend[k].body
  <2> DEFINE w == d.pend[k]
  <2>1. DOMAIN w = {"upd", "body", "left", "dev", "born", "ord"} /\ k \in DOMAIN d.pend \ G
    BY <1>2 DEF StoreType, WriteOK, All
  <2>2. CASE w.dev = dev
    <3>1. e.pend[k] = [w EXCEPT !.born = 0, !.body = FALSE]
      BY <2>1, <2>2 DEF Drained
    <3> QED
      BY <2>1, <2>2, <3>1
  <2>3. CASE w.dev # dev
    <3>1. e.pend[k] = w
      BY <2>1, <2>3 DEF Drained
    <3> QED
      BY <2>3, <3>1
  <2> QED
    BY <2>2, <2>3
<1> QED
  BY <1>1, <1>2, <1>3, <1>4 DEF DrainedTo

LEMMA DrainedType ==
  ASSUME NEW d, StoreType(d), NEW dev \in Devices,
         NEW G \in Orderly(d), Durable(d, dev) \subseteq G
  PROVE  StoreType(Drained(d, G, dev))
<1> DEFINE e == Drained(d, G, dev)
<1>0. DrainedTo(d, e, G, dev)
  BY DrainedFields
<1> HIDE DEF e
<1>1. G \subseteq All(d) /\ \A k \in All(e) : k \in All(d) /\ k \notin G
  BY <1>0 DEF DrainedTo
<1>2. ASSUME NEW k \in All(e) PROVE WriteOK(e, e.pend[k])
  <2>1. WriteOK(d, d.pend[k]) /\ k \in All(d) /\ k \notin G
    BY <1>1 DEF StoreType
  <2>2. d.pend[k].dev = dev => d.pend[k].left # {}
    BY <2>1 DEF Durable, All
  <2>3. e.epoch[e.pend[k].dev] = IF d.pend[k].dev = dev THEN 0 ELSE d.epoch[d.pend[k].dev]
    BY <1>0, <2>1 DEF StoreType, WriteOK, DrainedTo
  <2> QED
    BY <1>0, <2>1, <2>2, <2>3 DEF WriteOK, DrainedTo
<1>3. \A i, j \in All(e) :
       Shares(e.pend[i], e.pend[j]) => e.pend[i].dev = e.pend[j].dev
  BY <1>0, <1>1 DEF StoreType, Shares, DrainedTo
<1>4. IsMap(e.disk)
  <2>1. G \subseteq All(d) /\ e.disk = Landed(d, G, {})
    BY <1>0 DEF DrainedTo
  <2> QED
    BY <2>1, LandedMap
<1>5. e.epoch \in [Devices -> Nat]
  BY <1>0 DEF StoreType, DrainedTo
<1> QED
  BY <1>0, <1>1, <1>2, <1>3, <1>4, <1>5 DEF StoreType, DrainedTo, e

\* What lands on a drained disk is what lands on the old one with the writes
\* that are gone: none of them is later than one of the same name that stays.
LEMMA DrainedLands ==
  ASSUME NEW d, StoreType(d), NEW dev \in Devices,
         NEW G \in Orderly(d), Durable(d, dev) \subseteq G,
         NEW S, S \subseteq All(d) \ G, NEW T \in SUBSET S
  PROVE  Landed(Drained(d, G, dev), S, T) = Landed(d, S \cup G, T)
<1> DEFINE e == Drained(d, G, dev)
           U == S \cup G
<1>1. /\ S \subseteq All(d) /\ G \subseteq All(d) /\ U \subseteq All(d)
      /\ S \cap G = {} /\ S \cap T = T /\ T \subseteq U
  BY DEF Orderly, All
<1>0. DrainedTo(d, e, G, dev)
  BY DrainedFields
<1>2. /\ e.disk = Landed(d, G, {}) /\ S \subseteq All(e)
      /\ \A k \in S : e.pend[k].upd = d.pend[k].upd
  <2> HIDE DEF e, U
  <2> QED
    BY <1>0, <1>1 DEF DrainedTo
<1>3. StoreType(e)
  BY DrainedType
<1>4. \A k : k \in U <=> k \in S \/ k \in G
  OBVIOUS
<1> HIDE DEF e, U
<1>5. Names(e, S) = Names(d, S)
  BY <1>2 DEF Names
<1>6. \A f : f \in Names(d, U) <=> f \in Names(d, S) \/ f \in Names(d, G)
  BY <1>4 DEF Names
<1>7. DOMAIN e.disk = DOMAIN d.disk
  BY <1>1, <1>2, LandedMap
<1>8. ASSUME NEW f \in Names(d, S)
      PROVE  Landed(e, S, T)[f] = Landed(d, U, T)[f]
  <2> DEFINE l == Last(e, S, f)
  <2>1. /\ l \in S /\ l \in Nat /\ f \in DOMAIN e.pend[l].upd
        /\ \A k \in S : f \in DOMAIN e.pend[k].upd => k <= l
    BY <1>2, <1>3, <1>5, LastFacts
  <2> HIDE DEF l
  <2>2. ASSUME NEW g \in G, f \in DOMAIN d.pend[g].upd PROVE g <= l
    <3>1. g \in All(d) /\ l \in All(d) /\ l \notin G /\ g \in Nat
          /\ f \in DOMAIN d.pend[l].upd
      BY <1>1, <1>2, <2>1, <2>2 DEF StoreType
    <3>2. ~Precedes(d.pend, l, g)
      BY <3>1 DEF Orderly, All
    <3>3. Shares(d.pend[l], d.pend[g])
      BY <3>1, <2>2 DEF Shares
    <3> QED
      BY <2>1, <3>1, <3>2, <3>3 DEF Precedes
  <2>3. \A k \in U : f \in DOMAIN d.pend[k].upd => k <= l
    BY <1>2, <1>4, <2>1, <2>2
  <2>4. f \in DOMAIN d.pend[l].upd /\ l \in U
    BY <1>2, <1>4, <2>1
  <2>5. f \in Names(d, U) /\ Last(d, U, f) = l
    BY <1>1, <2>3, <2>4, LastIs
  <2>6. e.pend[l].upd = d.pend[l].upd
    BY <1>2, <2>1
  <2>7. /\ l \in T => Landed(e, S, T)[f] = Torn
        /\ l \notin T => Landed(e, S, T)[f] = e.pend[l].upd[f]
    BY <1>2, <1>3, <1>5, LandedSet DEF l
  <2>8. /\ l \in T => Landed(d, U, T)[f] = Torn
        /\ l \notin T => Landed(d, U, T)[f] = d.pend[l].upd[f]
    BY <1>1, <2>5, LandedSet
  <2> QED
    BY <2>6, <2>7, <2>8
<1>9. ASSUME NEW f \in DOMAIN d.disk, f \notin Names(d, S)
      PROVE  Landed(e, S, T)[f] = Landed(d, U, T)[f]
  <2>1. Landed(e, S, T)[f] = Landed(d, G, {})[f]
    BY <1>2, <1>3, <1>5, <1>7, <1>9, LandedKept
  <2>2. CASE f \in Names(d, G)
    <3> DEFINE l == Last(d, G, f)
    <3>1. /\ l \in G /\ f \in DOMAIN d.pend[l].upd
          /\ \A k \in G : f \in DOMAIN d.pend[k].upd => k <= l
      BY <1>1, <2>2, LastFacts
    <3>2. Landed(d, G, {})[f] = d.pend[l].upd[f]
      BY <1>1, <2>2, LandedSet
    <3> HIDE DEF l
    <3>3. \A k \in U : f \in DOMAIN d.pend[k].upd => k <= l
      BY <1>4, <1>9, <3>1 DEF Names
    <3>4. l \in U /\ l \notin T
      BY <1>1, <1>4, <3>1
    <3>5. f \in Names(d, U) /\ Last(d, U, f) = l
      <4>1. f \in DOMAIN d.pend[l].upd /\ U \subseteq All(d)
        BY <1>1, <3>1
      <4> QED
        BY <3>3, <3>4, <4>1, LastIs
    <3>6. Landed(d, U, T)[f] = d.pend[l].upd[f]
      BY <1>1, <3>4, <3>5, LandedSet
    <3> QED
      BY <2>1, <3>2, <3>6
  <2>3. CASE f \notin Names(d, G)
    <3>1. Landed(d, U, T)[f] = d.disk[f]
      BY <1>1, <1>6, <1>9, <2>3, LandedKept
    <3>2. Landed(d, G, {})[f] = d.disk[f]
      BY <1>1, <2>3, LandedKept
    <3> QED
      BY <2>1, <3>1, <3>2
  <2> QED
    BY <2>2, <2>3
<1>10. IsMap(Landed(e, S, T)) /\ DOMAIN Landed(e, S, T) = DOMAIN d.disk
  BY <1>2, <1>3, <1>7, LandedMap
<1>11. IsMap(Landed(d, U, T)) /\ DOMAIN Landed(d, U, T) = DOMAIN d.disk
  BY <1>1, LandedMap
<1>12. Landed(e, S, T) = Landed(d, U, T)
  BY <1>8, <1>9, <1>10, <1>11, SameMap
<1> QED
  BY <1>12 DEF e, U
-----------------------------------------------------------------------------

\* A flush is a directory sync and the drain of what it makes durable.
LEMMA FlushFields ==
  ASSUME NEW d, StoreOK(d), NEW dir, NEW dev \in Devices
  PROVE  \E G \in Orderly(SyncDirs(d, {dir})) :
            /\ Durable(SyncDirs(d, {dir}), dev) \subseteq G
            /\ \A k \in G : SyncDirs(d, {dir}).pend[k].dev = dev
            /\ Flush(d, dir, dev) = Drained(SyncDirs(d, {dir}), G, dev)
<1> DEFINE s == SyncDirs(d, {dir})
           G == Least(Enough(s, dev))
<1>1. StoreType(s)
  BY SyncStore DEF StoreOK
<1>2. Flush(d, dir, dev) = Drained(s, G, dev)
  BY DEF Flush
<1> HIDE DEF s
<1>3. G \in Orderly(s) /\ Durable(s, dev) \subseteq G /\ \A k \in G : s.pend[k].dev = dev
  BY <1>1, LeastEnough
<1> HIDE DEF G
<1> QED
  BY <1>2, <1>3 DEF s

LEMMA DrainedStore ==
  ASSUME NEW d, StoreOK(d), NEW dev \in Devices,
         NEW G \in Orderly(d), Durable(d, dev) \subseteq G
  PROVE  StoreOK(Drained(d, G, dev))
<1> DEFINE e == Drained(d, G, dev)
<1>1. StoreType(d) /\ SeenLands(d)
  BY DEF StoreOK
<1>2. DrainedTo(d, e, G, dev) /\ StoreType(e)
  BY <1>1, DrainedFields, DrainedType
<1>3. \A S : S \subseteq All(d) \ G => Landed(e, S, {}) = Landed(d, S \cup G, {})
  BY <1>1, DrainedLands
<1> HIDE DEF e
<1>4. All(e) \subseteq All(d) \ G /\ All(e) \cup G = All(d)
  BY <1>2 DEF DrainedTo
<1>5. Landed(e, All(e), {}) = Landed(d, All(d), {})
  BY <1>3, <1>4
<1>6. e.seen = d.seen /\ DOMAIN e.disk = DOMAIN d.disk
  BY <1>2 DEF DrainedTo
<1> QED
  BY <1>1, <1>2, <1>5, <1>6 DEF StoreOK, SeenLands, e

LEMMA DrainedNarrows ==
  ASSUME NEW d, StoreOK(d), NEW dev \in Devices,
         NEW G \in Orderly(d), Durable(d, dev) \subseteq G,
         \A k \in G : d.pend[k].dev = dev
  PROVE  /\ Images(Drained(d, G, dev)) \subseteq Images(d)
         /\ \A x \in Devices : After(Drained(d, G, dev), x) \subseteq After(d, x)
<1> DEFINE e == Drained(d, G, dev)
<1>1. StoreType(d)
  BY DEF StoreOK
<1>2. DrainedTo(d, e, G, dev)
  BY <1>1, DrainedFields
<1>3. \A S : S \subseteq All(d) \ G =>
        \A T \in SUBSET S : Landed(e, S, T) = Landed(d, S \cup G, T)
  BY <1>1, DrainedLands
<1> HIDE DEF e
<1>4. ASSUME NEW i \in All(e), NEW j \in All(e), Precedes(d.pend, i, j)
      PROVE  Precedes(e.pend, i, j)
  <2>1. i \in All(d) /\ i \notin G /\ ~(i \in Durable(d, dev))
    BY <1>2, <1>4 DEF DrainedTo
  <2>2. d.pend[i].left = {} => d.pend[i].dev # dev
    BY <2>1 DEF Durable, All
  <2>3. /\ e.pend[i].left = d.pend[i].left /\ e.pend[i].dev = d.pend[i].dev
        /\ e.pend[i].ord = d.pend[i].ord /\ e.pend[i].upd = d.pend[i].upd
        /\ e.pend[j].dev = d.pend[j].dev /\ e.pend[j].upd = d.pend[j].upd
        /\ d.pend[j].dev # dev => e.pend[j].born = d.pend[j].born
    BY <1>2, <1>4 DEF DrainedTo
  <2> QED
    BY <1>4, <2>2, <2>3 DEF Precedes, Shares
<1>5. ASSUME NEW S \in Orderly(e)
      PROVE  S \cup G \in Orderly(d) /\ S \subseteq All(d) \ G
  <2>1. S \subseteq All(e) /\ \A i \in All(e) \ S : \A j \in S : ~Precedes(e.pend, i, j)
    BY <1>5 DEF Orderly, All
  <2>2. S \subseteq All(d) \ G /\ S \cup G \subseteq All(d)
    BY <1>2, <2>1 DEF DrainedTo
  <2>3. ASSUME NEW i \in All(d), i \notin S, i \notin G, NEW j \in S \cup G
        PROVE  ~Precedes(d.pend, i, j)
    <3>1. CASE j \in G
      BY <2>3, <3>1 DEF Orderly, All
    <3>2. CASE j \in S
      <4>1. i \in All(e) /\ j \in All(e)
        BY <1>2, <2>1, <2>3, <3>2 DEF DrainedTo
      <4> QED
        BY <1>4, <2>1, <2>3, <3>2, <4>1
    <3> QED
      BY <3>1, <3>2
  <2> QED
    BY <2>2, <2>3 DEF Orderly, All
<1>6. ASSUME NEW S \in Orderly(e), NEW T \in SUBSET MayTear(e, S)
      PROVE  /\ T \in SUBSET MayTear(d, S \cup G) /\ T \in SUBSET S
             /\ \A k \in T : d.pend[k].dev # dev /\ e.pend[k].dev = d.pend[k].dev
                             /\ e.pend[k].born = d.pend[k].born
  <2>1. \A k \in S : /\ k \in All(e)
                     /\ e.pend[k].dev = d.pend[k].dev
                     /\ d.pend[k].dev = dev => e.pend[k].body = FALSE
                     /\ d.pend[k].dev # dev => /\ e.pend[k].body = d.pend[k].body
                                               /\ e.pend[k].born = d.pend[k].born
    BY <1>2 DEF DrainedTo, Orderly, All
  <2>2. ASSUME NEW k \in T
        PROVE  /\ k \in MayTear(d, S \cup G) /\ k \in S /\ d.pend[k].dev # dev
               /\ e.pend[k].dev = d.pend[k].dev /\ e.pend[k].born = d.pend[k].born
    <3>1. k \in S /\ e.pend[k].body
          /\ \A j \in S : e.pend[j].dev = e.pend[k].dev => e.pend[j].born <= e.pend[k].born
      BY <1>6, <2>2 DEF MayTear
    <3>2. d.pend[k].dev # dev
      BY <2>1, <3>1
    <3>3. d.pend[k].body /\ e.pend[k].dev = d.pend[k].dev /\ e.pend[k].born = d.pend[k].born
      BY <2>1, <3>1, <3>2
    <3>4. ASSUME NEW j \in S \cup G, d.pend[j].dev = d.pend[k].dev
          PROVE  d.pend[j].born <= d.pend[k].born
      <4>1. j \in S
        BY <3>2, <3>4
      <4> QED
        BY <2>1, <3>1, <3>2, <3>3, <3>4, <4>1
    <3> QED
      BY <3>1, <3>2, <3>3, <3>4 DEF MayTear
  <2> QED
    BY <2>2
<1>7. Images(e) \subseteq Images(d)
  <2> SUFFICES ASSUME NEW S \in Orderly(e), NEW T \in SUBSET MayTear(e, S)
               PROVE  Landed(e, S, T) \in Images(d)
    BY DEF Images
  <2>1. S \cup G \in Orderly(d) /\ T \in SUBSET MayTear(d, S \cup G)
        /\ Landed(e, S, T) = Landed(d, S \cup G, T)
    BY <1>3, <1>5, <1>6
  <2> QED
    BY <2>1 DEF Images
<1>8. ASSUME NEW x \in Devices
      PROVE  After(e, x) \subseteq After(d, x)
  <2> SUFFICES ASSUME NEW S \in Orderly(e), Barred(e, x) \subseteq S,
                      NEW T \in SUBSET MayTearBelow(e, S, x)
               PROVE  Landed(e, S, T) \in After(d, x)
    BY DEF After
  <2>0. T \in SUBSET MayTear(e, S)
    BY DEF MayTearBelow
  <2>1. S \cup G \in Orderly(d) /\ T \in SUBSET MayTear(d, S \cup G)
        /\ Landed(e, S, T) = Landed(d, S \cup G, T)
    BY <2>0, <1>3, <1>5, <1>6
  <2>e. x # dev => e.epoch[x] = d.epoch[x]
    BY <1>1, <1>2 DEF DrainedTo, StoreType
  <2>2. Barred(d, x) \subseteq S \cup G
    <3> SUFFICES ASSUME NEW k \in Barred(d, x), k \notin G
                 PROVE  k \in S
      OBVIOUS
    <3>1. k \in All(d) /\ d.pend[k].left = {} /\ d.pend[k].dev = x /\ d.pend[k].ord < d.epoch[x]
      BY DEF Barred
    <3>2. x # dev
      BY <3>1 DEF Durable, All
    <3>3. k \in Barred(e, x)
      BY <1>2, <2>e, <3>1, <3>2 DEF DrainedTo, Barred
    <3> QED
      BY <3>3
  <2>3. T \in SUBSET MayTearBelow(d, S \cup G, x)
    <3> SUFFICES ASSUME NEW k \in T PROVE k \in MayTearBelow(d, S \cup G, x)
      OBVIOUS
    <3>1. k \in MayTear(d, S \cup G)
      BY <2>1
    <3>2. /\ d.pend[k].dev # dev /\ e.pend[k].dev = d.pend[k].dev
          /\ e.pend[k].born = d.pend[k].born
      BY <1>6, <2>0
    <3>3. e.pend[k].dev = x => e.epoch[x] <= e.pend[k].born
      BY DEF MayTearBelow
    <3> QED
      BY <2>e, <3>1, <3>2, <3>3 DEF MayTearBelow
  <2> DEFINE U == S \cup G
  <2>4. /\ U \in Orderly(d) /\ Barred(d, x) \subseteq U
        /\ T \in SUBSET MayTearBelow(d, U, x) /\ Landed(e, S, T) = Landed(d, U, T)
    BY <2>1, <2>2, <2>3
  <2> HIDE DEF U
  <2> QED
    BY <2>4 DEF After
<1> QED
  BY <1>7, <1>8 DEF e

LEMMA FlushStore ==
  ASSUME NEW d, StoreOK(d), NEW dir, NEW dev \in Devices
  PROVE  StoreOK(Flush(d, dir, dev))
<1>1. StoreOK(SyncDirs(d, {dir}))
  BY SyncStore
<1> QED
  BY <1>1, FlushFields, DrainedStore

LEMMA FlushNarrows ==
  ASSUME NEW d, StoreOK(d), NEW dir, NEW dev \in Devices
  PROVE  /\ Images(Flush(d, dir, dev)) \subseteq Images(d)
         /\ \A x \in Devices : After(Flush(d, dir, dev), x) \subseteq After(d, x)
<1> DEFINE s == SyncDirs(d, {dir})
<1>1. /\ StoreOK(s) /\ Images(s) \subseteq Images(d)
      /\ \A x \in Devices : After(s, x) \subseteq After(d, x)
  BY SyncStore, SyncNarrows
<1>2. PICK G \in Orderly(s) :
         /\ Durable(s, dev) \subseteq G
         /\ \A k \in G : s.pend[k].dev = dev
         /\ Flush(d, dir, dev) = Drained(s, G, dev)
  BY FlushFields
<1> HIDE DEF s
<1>3. /\ Images(Drained(s, G, dev)) \subseteq Images(s)
      /\ \A x \in Devices : After(Drained(s, G, dev), x) \subseteq After(s, x)
  BY <1>1, <1>2, DrainedNarrows
<1> QED
  BY <1>1, <1>2, <1>3
-----------------------------------------------------------------------------

\* What a power loss may leave has a value for every name.
LEMMA ImageMap ==
  ASSUME NEW d, StoreType(d), NEW h \in Images(d)
  PROVE  IsMap(h) /\ DOMAIN h = DOMAIN d.disk
<1>1. PICK S \in Orderly(d) : \E T \in SUBSET MayTear(d, S) : h = Landed(d, S, T)
  BY DEF Images
<1>2. PICK T : h = Landed(d, S, T)
  BY <1>1
<1>3. S \subseteq All(d)
  BY DEF Orderly, All
<1> QED
  BY <1>2, <1>3, LandedMap

LEMMA AfterIsImage ==
  ASSUME NEW d, NEW dev
  PROVE  After(d, dev) \subseteq Images(d)
<1> SUFFICES ASSUME NEW S \in Orderly(d), NEW T \in SUBSET MayTearBelow(d, S, dev)
             PROVE  Landed(d, S, T) \in Images(d)
  BY DEF After
<1>1. T \in SUBSET MayTear(d, S)
  BY DEF MayTearBelow
<1> QED
  BY <1>1 DEF Images

\* A write, field by field: one more, later than the others.
Wrote(d, g, n, upd, body, dirs, dev) ==
  /\ g.seen = Over(upd, d.seen) /\ g.disk = d.disk /\ g.epoch = d.epoch
  /\ n \in Nat
  /\ \A k \in All(d) : k < n /\ k # n /\ g.pend[k] = d.pend[k]
  /\ \A k : k \in All(g) <=> k \in All(d) \/ k = n
  /\ DOMAIN g.pend[n] = {"upd", "body", "left", "dev", "born", "ord"}
  /\ g.pend[n].upd = upd /\ g.pend[n].body = body /\ g.pend[n].left = dirs
  /\ g.pend[n].dev = dev /\ g.pend[n].born = d.epoch[dev] /\ g.pend[n].ord = 0

LEMMA WriteFields ==
  ASSUME NEW d, StoreType(d), NEW upd, NEW body, NEW dirs, NEW dev
  PROVE  Wrote(d, Write(d, upd, body, dirs, dev), NextSerial(d), upd, body, dirs, dev)
<1> DEFINE g == Write(d, upd, body, dirs, dev)
           n == NextSerial(d)
           w == [upd |-> upd, body |-> body, left |-> dirs, dev |-> dev,
                 born |-> d.epoch[dev], ord |-> 0]
<1>1. n \in Nat /\ \A k \in All(d) : k < n /\ k # n
  <2>1. n \in Nat /\ \A k \in All(d) : k < n
    BY NextFacts
  <2> QED
    BY <2>1 DEF StoreType
<1>2. /\ g.seen = Over(upd, d.seen) /\ g.disk = d.disk /\ g.epoch = d.epoch
      /\ g.pend = Over(One(n, w), d.pend)
  BY DEF Write
<1> HIDE DEF g, n
<1>3. All(g) = All(d) \cup {n} /\ g.pend[n] = w /\ \A k \in All(d) : g.pend[k] = d.pend[k]
  BY <1>1, <1>2 DEF Over, One, All
<1> QED
  BY <1>1, <1>2, <1>3 DEF Wrote, g, n

\* The names of a write belong to its device.
Fits(d, upd, dev) ==
  /\ DOMAIN upd \subseteq DOMAIN d.disk /\ dev \in Devices
  /\ \A k \in All(d) : DOMAIN upd \cap DOMAIN d.pend[k].upd # {} => d.pend[k].dev = dev

\* A write that lacks its bytes.
Blank(upd) == [f \in DOMAIN upd |-> Torn]

LEMMA WroteType ==
  ASSUME NEW d, StoreType(d), NEW g, NEW n, NEW upd, NEW body, NEW dirs, dirs # {},
         NEW dev, Fits(d, upd, dev), Wrote(d, g, n, upd, body, dirs, dev)
  PROVE  StoreType(g)
<1>1. d.epoch[dev] \in Nat /\ dev \in Devices /\ n \in Nat
  BY DEF StoreType, Fits, Wrote
<1>2. WriteOK(g, g.pend[n])
  BY <1>1 DEF WriteOK, Wrote, Fits
<1>3. \A k \in All(d) : WriteOK(g, g.pend[k])
  BY DEF WriteOK, Wrote, StoreType
<1>4. All(g) \subseteq Nat /\ \A k \in All(g) : WriteOK(g, g.pend[k])
  BY <1>1, <1>2, <1>3 DEF Wrote, StoreType
<1>5. \A k \in All(g) : k <= n
  BY <1>1 DEF Wrote, StoreType
<1>6. ASSUME NEW i \in All(g), NEW j \in All(g), Shares(g.pend[i], g.pend[j])
      PROVE  g.pend[i].dev = g.pend[j].dev
  <2>1. CASE i = n /\ j \in All(d)
    BY <1>6, <2>1 DEF Wrote, Fits, Shares
  <2>2. CASE j = n /\ i \in All(d)
    BY <1>6, <2>2 DEF Wrote, Fits, Shares
  <2>3. CASE i \in All(d) /\ j \in All(d)
    BY <1>6, <2>3 DEF Wrote, StoreType
  <2> QED
    BY <2>1, <2>2, <2>3 DEF Wrote
<1>7. DOMAIN g.seen = DOMAIN g.disk /\ IsMap(g.disk) /\ g.epoch \in [Devices -> Nat]
  BY DEF Wrote, StoreType, Over, Fits
<1> QED
  BY <1>1, <1>4, <1>5, <1>6, <1>7 DEF StoreType

\* Without the new write the old ones land as before; with it, it lies on top.
LEMMA WroteLands ==
  ASSUME NEW d, StoreType(d), NEW g, StoreType(g), NEW n, NEW upd, NEW body, NEW dirs,
         NEW dev, Fits(d, upd, dev), Wrote(d, g, n, upd, body, dirs, dev),
         NEW S, S \subseteq All(d), NEW T
  PROVE  /\ Landed(g, S, T) = Landed(d, S, T)
         /\ n \notin T => Landed(g, S \cup {n}, T) = Over(upd, Landed(d, S, T))
         /\ n \in T => Landed(g, S \cup {n}, T) =
                         Over(Blank(upd), Landed(d, S, T))
<1>1. d.disk = g.disk /\ S \subseteq All(g) /\ n \notin All(d)
      /\ \A k \in S : g.pend[k].upd = d.pend[k].upd
  BY DEF Wrote
<1>2. Landed(g, S, T) = Landed(d, S, T)
  BY <1>1, LandedSame
<1> DEFINE U == S \cup {n}
<1>3. U \subseteq All(g) /\ \A k : k \in U <=> k \in S \/ k = n
  BY <1>1 DEF Wrote
<1> HIDE DEF U
<1>4. ASSUME NEW f \in DOMAIN upd
      PROVE  /\ n \in T => Landed(g, U, T)[f] = Torn
             /\ n \notin T => Landed(g, U, T)[f] = upd[f]
  <2>1. n \in U /\ f \in DOMAIN g.pend[n].upd /\ g.pend[n].upd = upd
    BY <1>3 DEF Wrote
  <2>2. \A i \in U : f \in DOMAIN g.pend[i].upd => i <= n
    BY <1>3 DEF Wrote, StoreType
  <2>3. f \in Names(g, U) /\ Last(g, U, f) = n
    BY <1>3, <2>1, <2>2, LastIs
  <2> QED
    BY <1>3, <2>1, <2>3, LandedSet
<1>5. ASSUME NEW f \in DOMAIN d.disk, f \notin DOMAIN upd
      PROVE  Landed(g, U, T)[f] = Landed(d, S, T)[f]
  <2>1. CASE f \in Names(d, S)
    <3> DEFINE l == Last(d, S, f)
    <3>1. /\ l \in S /\ f \in DOMAIN d.pend[l].upd
          /\ \A k \in S : f \in DOMAIN d.pend[k].upd => k <= l
      BY <2>1, LastFacts
    <3>2. /\ l \in T => Landed(d, S, T)[f] = Torn
          /\ l \notin T => Landed(d, S, T)[f] = d.pend[l].upd[f]
      BY <2>1, LandedSet
    <3> HIDE DEF l
    <3>3. \A i \in U : f \in DOMAIN g.pend[i].upd => i <= l
      BY <1>1, <1>3, <1>5, <3>1 DEF Wrote
    <3>4. l \in U /\ f \in DOMAIN g.pend[l].upd /\ g.pend[l].upd = d.pend[l].upd
      BY <1>1, <1>3, <3>1
    <3>5. f \in Names(g, U) /\ Last(g, U, f) = l
      BY <1>3, <3>3, <3>4, LastIs
    <3>6. /\ l \in T => Landed(g, U, T)[f] = Torn
          /\ l \notin T => Landed(g, U, T)[f] = g.pend[l].upd[f]
      BY <1>3, <3>5, LandedSet
    <3> QED
      BY <3>2, <3>4, <3>6
  <2>2. CASE f \notin Names(d, S)
    <3>1. \A k \in U : f \notin DOMAIN g.pend[k].upd
      BY <1>1, <1>3, <1>5, <2>2 DEF Names, Wrote
    <3>2. f \notin Names(g, U)
      BY <3>1 DEF Names
    <3>3. Landed(g, U, T)[f] = g.disk[f]
      BY <1>1, <1>3, <3>2, LandedKept
    <3> QED
      BY <1>1, <2>2, <3>3, LandedKept
  <2> QED
    BY <2>1, <2>2
<1>6. IsMap(Landed(g, U, T)) /\ DOMAIN Landed(g, U, T) = DOMAIN d.disk
  BY <1>1, <1>3, LandedMap
<1>7. IsMap(Landed(d, S, T)) /\ DOMAIN Landed(d, S, T) = DOMAIN d.disk
  BY LandedMap
<1>8. ASSUME NEW v, DOMAIN v = DOMAIN upd, \A f \in DOMAIN upd : Landed(g, U, T)[f] = v[f]
      PROVE  Landed(g, U, T) = Over(v, Landed(d, S, T))
  <2> DEFINE o == Over(v, Landed(d, S, T))
  <2>1. DOMAIN upd \subseteq DOMAIN d.disk
    BY DEF Fits
  <2>2. IsMap(o) /\ DOMAIN o = DOMAIN d.disk
    BY <1>7, <1>8, <2>1 DEF Over, IsMap
  <2>3. \A f \in DOMAIN d.disk :
          o[f] = IF f \in DOMAIN upd THEN v[f] ELSE Landed(d, S, T)[f]
    BY <1>7, <1>8, <2>1 DEF Over
  <2> HIDE DEF o
  <2>4. \A f \in DOMAIN d.disk : Landed(g, U, T)[f] = o[f]
    BY <1>5, <1>8, <2>3
  <2>5. Landed(g, U, T) = o
    BY <1>6, <2>2, <2>4, SameMap
  <2> QED
    BY <2>5 DEF o
<1>9. n \notin T => Landed(g, U, T) = Over(upd, Landed(d, S, T))
  BY <1>4, <1>8
<1>10. ASSUME n \in T
       PROVE  Landed(g, U, T) = Over(Blank(upd), Landed(d, S, T))
  <2>1. /\ DOMAIN Blank(upd) = DOMAIN upd
        /\ \A f \in DOMAIN upd : Landed(g, U, T)[f] = Blank(upd)[f]
    BY <1>4, <1>10 DEF Blank
  <2> QED
    BY <1>8, <2>1
<1> QED
  BY <1>2, <1>9, <1>10 DEF U

LEMMA WriteStore ==
  ASSUME NEW d, StoreOK(d), NEW upd, NEW body, NEW dirs, dirs # {},
         NEW dev, Fits(d, upd, dev)
  PROVE  StoreOK(Write(d, upd, body, dirs, dev))
<1> DEFINE g == Write(d, upd, body, dirs, dev)
           n == NextSerial(d)
<1>1. StoreType(d) /\ SeenLands(d)
  BY DEF StoreOK
<1>2. Wrote(d, g, n, upd, body, dirs, dev)
  BY <1>1, WriteFields
<1> HIDE DEF g, n
<1>3. StoreType(g)
  BY <1>1, <1>2, WroteType
<1>4. Landed(g, All(d) \cup {n}, {}) = Over(upd, Landed(d, All(d), {}))
  <2> DEFINE S == All(d)  T == {}
  <2>1. S \subseteq All(d) /\ n \notin T
    OBVIOUS
  <2> HIDE DEF S, T
  <2>2. Landed(g, S \cup {n}, T) = Over(upd, Landed(d, S, T))
    BY <1>1, <1>2, <1>3, <2>1, WroteLands
  <2> QED
    BY <2>2 DEF S, T
<1>5. All(g) = All(d) \cup {n}
  BY <1>2 DEF Wrote
<1>6. DOMAIN Landed(d, All(d), {}) = DOMAIN d.disk /\ DOMAIN d.seen = DOMAIN d.disk
  BY <1>1, LandedMap DEF StoreType
<1>7. \A f \in DOMAIN d.disk :
        Over(upd, d.seen)[f] = Over(upd, Landed(d, All(d), {}))[f]
  BY <1>1, <1>6 DEF Over, SeenLands
<1>8. g.seen = Over(upd, d.seen) /\ g.disk = d.disk
  BY <1>2 DEF Wrote
<1>9. SeenLands(g)
  BY <1>4, <1>5, <1>7, <1>8 DEF SeenLands
<1> QED
  BY <1>3, <1>9 DEF StoreOK, g

\* A choice of old and new writes is one of old writes, with the new one on top
\* only when everything the fences put before it is there.
Chosen(d, n, R, Q, S, T, body, dev) ==
  /\ S \in Orderly(d) /\ S \subseteq All(d)
  /\ T \in SUBSET MayTear(d, S)
  /\ Landed(d, S, Q) = Landed(d, S, T)
  /\ n \in R => /\ Barred(d, dev) \subseteq S
                /\ T \in SUBSET MayTearBelow(d, S, dev)
  /\ n \in Q => body

LEMMA WroteChoice ==
  ASSUME NEW d, StoreType(d), NEW g, StoreType(g), NEW n, NEW upd, NEW body,
         NEW dirs, dirs # {}, NEW dev, Fits(d, upd, dev),
         Wrote(d, g, n, upd, body, dirs, dev),
         NEW R \in Orderly(g), NEW Q \in SUBSET MayTear(g, R)
  PROVE  Chosen(d, n, R, Q, R \ {n}, Q \ {n}, body, dev)
<1> DEFINE S == R \ {n}
           T == Q \ {n}
<1>1. R \subseteq All(g) /\ \A i \in All(g) \ R : \A j \in R : ~Precedes(g.pend, i, j)
  BY DEF Orderly, All
<1>2. S \subseteq All(d) /\ \A k \in S : k \in R /\ k # n /\ g.pend[k] = d.pend[k]
  BY <1>1 DEF Wrote
<1>3. ASSUME NEW i \in All(d) \ S, NEW j \in S PROVE ~Precedes(d.pend, i, j)
  <2>1. i \in All(g) \ R /\ j \in R /\ g.pend[i] = d.pend[i] /\ g.pend[j] = d.pend[j]
    BY <1>1, <1>2, <1>3 DEF Wrote
  <2> QED
    BY <1>1, <2>1 DEF Precedes
<1>4. S \in Orderly(d)
  BY <1>2, <1>3 DEF Orderly, All
<1>5. ASSUME NEW k \in T
      PROVE  /\ k \in MayTear(d, S)
             /\ n \in R => (d.pend[k].dev = dev => d.epoch[dev] <= d.pend[k].born)
  <2>1. k \in R /\ k # n /\ k \in MayTear(g, R)
    BY <1>5 DEF MayTear
  <2>2. k \in S /\ g.pend[k] = d.pend[k]
    BY <1>2, <2>1
  <2>3. g.pend[k].body /\ \A j \in R : g.pend[j].dev = g.pend[k].dev
                                        => g.pend[j].born <= g.pend[k].born
    BY <2>1 DEF MayTear
  <2>4. k \in MayTear(d, S)
    BY <1>2, <2>2, <2>3 DEF MayTear
  <2>5. g.pend[n].dev = dev /\ g.pend[n].born = d.epoch[dev]
    BY DEF Wrote
  <2> QED
    BY <2>2, <2>3, <2>4, <2>5
<1>6. Landed(d, S, Q) = Landed(d, S, T)
  <2>1. \A f \in Names(d, S) : Last(d, S, f) \in Q <=> Last(d, S, f) \in T
    BY <1>2, LastFacts
  <2>2. [f \in Names(d, S) |-> IF Last(d, S, f) \in Q THEN Torn
                               ELSE d.pend[Last(d, S, f)].upd[f]]
        = [f \in Names(d, S) |-> IF Last(d, S, f) \in T THEN Torn
                                 ELSE d.pend[Last(d, S, f)].upd[f]]
    BY <2>1
  <2> QED
    BY <2>2 DEF Landed
<1>7. ASSUME n \in R PROVE Barred(d, dev) \subseteq S
  <2> SUFFICES ASSUME NEW k \in Barred(d, dev), k \notin S PROVE FALSE
    OBVIOUS
  <2>1. /\ k \in All(d) /\ d.pend[k].left = {} /\ d.pend[k].dev = dev
        /\ d.pend[k].ord < d.epoch[dev]
    BY DEF Barred
  <2>2. k \in All(g) /\ k # n /\ g.pend[k] = d.pend[k]
    BY <2>1 DEF Wrote
  <2>3. g.pend[n].dev = dev /\ g.pend[n].born = d.epoch[dev]
    BY DEF Wrote
  <2>4. Precedes(g.pend, k, n)
    BY <2>1, <2>2, <2>3 DEF Precedes
  <2> QED
    BY <1>1, <1>7, <2>2, <2>4
<1>8. ASSUME n \in Q PROVE body
  <2>1. g.pend[n].body /\ g.pend[n].body = body
    BY <1>8 DEF MayTear, Wrote
  <2> QED
    BY <2>1
<1>9. n \in R => T \in SUBSET MayTearBelow(d, S, dev)
  BY <1>5 DEF MayTearBelow
<1>10. T \in SUBSET MayTear(d, S)
  BY <1>5
<1> HIDE DEF S, T
<1> QED
  <2>1. Chosen(d, n, R, Q, S, T, body, dev)
    BY <1>2, <1>4, <1>6, <1>7, <1>8, <1>9, <1>10 DEF Chosen
  <2> QED
    BY <2>1 DEF S, T

\* What the write may lay over the files.
Laid(upd, body) == {upd} \cup {v \in {Blank(upd)} : body}

LEMMA WroteOver ==
  ASSUME NEW d, StoreType(d), NEW g, StoreType(g), NEW n, NEW upd, NEW body,
         NEW dirs, dirs # {}, NEW dev, Fits(d, upd, dev),
         Wrote(d, g, n, upd, body, dirs, dev),
         NEW R \in Orderly(g), NEW Q \in SUBSET MayTear(g, R)
  PROVE  /\ n \notin R => Landed(g, R, Q) = Landed(d, R \ {n}, Q \ {n})
         /\ n \in R => \E v \in Laid(upd, body) :
                         Landed(g, R, Q) = Over(v, Landed(d, R \ {n}, Q \ {n}))
<1> DEFINE S == R \ {n}
           T == Q \ {n}
<1>c. Chosen(d, n, R, Q, S, T, body, dev)
  BY WroteChoice
<1>2. /\ n \notin R => R = S
      /\ n \in R => R = S \cup {n}
  OBVIOUS
<1> HIDE DEF S, T
<1>1. /\ S \subseteq All(d) /\ Landed(d, S, Q) = Landed(d, S, T)
      /\ n \in Q => body
  BY <1>c DEF Chosen
<1>3. /\ Landed(g, S, Q) = Landed(d, S, Q)
      /\ n \notin Q => Landed(g, S \cup {n}, Q) = Over(upd, Landed(d, S, Q))
      /\ n \in Q => Landed(g, S \cup {n}, Q) = Over(Blank(upd), Landed(d, S, Q))
  BY <1>1, WroteLands
<1>4. CASE n \notin R
  BY <1>1, <1>2, <1>3, <1>4 DEF S, T
<1>5. CASE n \in R /\ n \notin Q
  <2>1. upd \in Laid(upd, body) /\ Landed(g, R, Q) = Over(upd, Landed(d, S, T))
    BY <1>1, <1>2, <1>3, <1>5 DEF Laid
  <2> QED
    BY <1>5, <2>1 DEF S, T
<1>6. CASE n \in R /\ n \in Q
  <2>1. Blank(upd) \in Laid(upd, body) /\ Landed(g, R, Q) = Over(Blank(upd), Landed(d, S, T))
    BY <1>1, <1>2, <1>3, <1>6 DEF Laid
  <2> QED
    BY <1>6, <2>1 DEF S, T
<1> QED
  BY <1>4, <1>5, <1>6

\* A power loss after a write leaves what it might have left before, or the write
\* on top of what it might leave behind the fences.
LEMMA WriteImages ==
  ASSUME NEW d, StoreOK(d), NEW upd, NEW body, NEW dirs, dirs # {},
         NEW dev, Fits(d, upd, dev),
         NEW h \in Images(Write(d, upd, body, dirs, dev))
  PROVE  \/ h \in Images(d)
         \/ \E v \in Laid(upd, body), m \in After(d, dev) : h = Over(v, m)
<1> DEFINE g == Write(d, upd, body, dirs, dev)
           n == NextSerial(d)
<1>1. StoreType(d) /\ StoreType(g) /\ Wrote(d, g, n, upd, body, dirs, dev)
  BY WriteStore, WriteFields DEF StoreOK
<1>r. PICK R \in Orderly(g) : \E Q \in SUBSET MayTear(g, R) : h = Landed(g, R, Q)
  BY DEF Images
<1>2. PICK Q \in SUBSET MayTear(g, R) : h = Landed(g, R, Q)
  BY <1>r
<1> HIDE DEF g, n
<1> DEFINE S == R \ {n}
           T == Q \ {n}
<1>c. Chosen(d, n, R, Q, S, T, body, dev)
  BY <1>1, WroteChoice
<1>4. /\ n \notin R => Landed(g, R, Q) = Landed(d, S, T)
      /\ n \in R => \E v \in Laid(upd, body) : Landed(g, R, Q) = Over(v, Landed(d, S, T))
  BY <1>1, WroteOver
<1> HIDE DEF S, T
<1>3. /\ S \in Orderly(d) /\ T \in SUBSET MayTear(d, S)
      /\ n \in R => /\ Barred(d, dev) \subseteq S
                    /\ T \in SUBSET MayTearBelow(d, S, dev)
  BY <1>c DEF Chosen
<1>5. CASE n \notin R
  BY <1>2, <1>3, <1>4, <1>5 DEF Images
<1>6. CASE n \in R
  <2>1. Landed(d, S, T) \in After(d, dev)
    BY <1>3, <1>6 DEF After
  <2> QED
    BY <1>2, <1>4, <1>6, <2>1
<1> QED
  BY <1>5, <1>6

LEMMA WriteAfter ==
  ASSUME NEW d, StoreOK(d), NEW upd, NEW body, NEW dirs, dirs # {},
         NEW dev, Fits(d, upd, dev), NEW x,
         NEW h \in After(Write(d, upd, body, dirs, dev), x)
  PROVE  \/ h \in After(d, x)
         \/ \E v \in Laid(upd, body), m \in After(d, dev) \cap After(d, x) : h = Over(v, m)
<1> DEFINE g == Write(d, upd, body, dirs, dev)
           n == NextSerial(d)
<1>1. StoreType(d) /\ StoreType(g) /\ Wrote(d, g, n, upd, body, dirs, dev)
  BY WriteStore, WriteFields DEF StoreOK
<1>r. PICK R \in Orderly(g) :
        Barred(g, x) \subseteq R /\ \E Q \in SUBSET MayTearBelow(g, R, x) : h = Landed(g, R, Q)
  BY DEF After
<1>2. PICK Q \in SUBSET MayTearBelow(g, R, x) : Barred(g, x) \subseteq R /\ h = Landed(g, R, Q)
  BY <1>r
<1> HIDE DEF g, n
<1> DEFINE S == R \ {n}
           T == Q \ {n}
<1>q. Q \in SUBSET MayTear(g, R)
  BY <1>2 DEF MayTearBelow
<1>c. Chosen(d, n, R, Q, S, T, body, dev)
  BY <1>1, <1>q, WroteChoice
<1>4. /\ n \notin R => Landed(g, R, Q) = Landed(d, S, T)
      /\ n \in R => \E v \in Laid(upd, body) : Landed(g, R, Q) = Over(v, Landed(d, S, T))
  BY <1>1, <1>q, WroteOver
<1>3. S \in Orderly(d) /\ T \in SUBSET MayTear(d, S) /\ (n \in R => Barred(d, dev) \subseteq S
                    /\ T \in SUBSET MayTearBelow(d, S, dev))
  BY <1>c DEF Chosen
<1>5. Barred(d, x) \subseteq S
  <2> SUFFICES ASSUME NEW k \in Barred(d, x) PROVE k \in S
    OBVIOUS
  <2>1. k \in All(d) /\ k \in All(g) /\ k # n /\ g.pend[k] = d.pend[k] /\ g.epoch = d.epoch
    BY <1>1 DEF Barred, Wrote
  <2>2. k \in Barred(g, x)
    BY <2>1 DEF Barred
  <2> QED
    BY <1>2, <2>1, <2>2
<1>6. T \in SUBSET MayTearBelow(d, S, x)
  <2> SUFFICES ASSUME NEW k \in T PROVE k \in MayTearBelow(d, S, x)
    OBVIOUS
  <2>1. k \in MayTear(d, S) /\ k \in All(d) /\ k \in MayTearBelow(g, R, x)
    BY <1>2, <1>3 DEF MayTear, Orderly, All
  <2>2. g.pend[k] = d.pend[k] /\ g.epoch = d.epoch
    BY <1>1, <2>1 DEF Wrote
  <2> QED
    BY <2>1, <2>2 DEF MayTearBelow
<1> HIDE DEF S, T
<1>7. Landed(d, S, T) \in After(d, x)
  BY <1>3, <1>5, <1>6 DEF After
<1>8. CASE n \notin R
  BY <1>2, <1>4, <1>7, <1>8
<1>9. CASE n \in R
  <2>1. Landed(d, S, T) \in After(d, dev)
    BY <1>3, <1>9 DEF After
  <2> QED
    BY <1>2, <1>4, <1>7, <1>9, <2>1
<1> QED
  BY <1>8, <1>9
-----------------------------------------------------------------------------

\* A power loss leaves v under the name f: always, or when it leaves a write that
\* is still to come on the device as well.
Fixed(d, f, v) == \A h \in Images(d) : h[f] = v
Behind(d, f, v, dev) == \A h \in After(d, dev) : h[f] = v

\* The write that set f last, if it has not settled.
Sets(d, k, f) ==
  /\ k \in All(d) /\ f \in DOMAIN d.pend[k].upd
  /\ \A i \in All(d) : f \in DOMAIN d.pend[i].upd => i <= k

\* A sync of the directories settles the name f on the device.
Reachable(d, f, dirs, dev) ==
  \A k : Sets(d, k, f) => d.pend[k].left \subseteq dirs /\ d.pend[k].dev = dev

\* What processes see under a name is what its last write set.
LEMMA SeenSet ==
  ASSUME NEW d, StoreOK(d), NEW f \in DOMAIN d.disk
  PROVE  /\ \A k : Sets(d, k, f) => d.seen[f] = d.pend[k].upd[f]
         /\ (\A k \in All(d) : f \notin DOMAIN d.pend[k].upd) => Fixed(d, f, d.seen[f])
         /\ (\E k \in All(d) : f \in DOMAIN d.pend[k].upd) => \E k : Sets(d, k, f)
<1> DEFINE A == All(d)  N == {}
<1>1. StoreType(d) /\ d.seen[f] = Landed(d, A, N)[f] /\ A \subseteq All(d) /\ A = All(d)
  BY DEF StoreOK, SeenLands
<1>n. \A k : k \notin N
  OBVIOUS
<1> HIDE DEF A, N
<1>2. ASSUME NEW k, Sets(d, k, f) PROVE d.seen[f] = d.pend[k].upd[f]
  <2>1. k \in A /\ f \in DOMAIN d.pend[k].upd
        /\ \A i \in A : f \in DOMAIN d.pend[i].upd => i <= k
    BY <1>1, <1>2 DEF Sets
  <2>2. f \in Names(d, A) /\ Last(d, A, f) = k
    BY <1>1, <2>1, LastIs
  <2>3. Landed(d, A, N)[f] = d.pend[k].upd[f]
    BY <1>1, <1>n, <2>2, LandedSet
  <2> QED
    BY <1>1, <2>3
<1>3. ASSUME \A k \in All(d) : f \notin DOMAIN d.pend[k].upd
      PROVE  Fixed(d, f, d.seen[f])
  <2>1. \A S, T : S \subseteq All(d) => Landed(d, S, T)[f] = d.disk[f]
    <3> SUFFICES ASSUME NEW S, NEW T, S \subseteq All(d) PROVE Landed(d, S, T)[f] = d.disk[f]
      OBVIOUS
    <3>1. f \notin Names(d, S)
      BY <1>3 DEF Names
    <3> QED
      BY <1>1, <3>1, LandedKept
  <2>2. d.seen[f] = d.disk[f]
    BY <1>1, <2>1
  <2>3. \A S \in Orderly(d) : S \subseteq All(d)
    BY DEF Orderly, All
  <2> QED
    BY <2>1, <2>2, <2>3 DEF Fixed, Images
<1>4. ASSUME NEW k \in All(d), f \in DOMAIN d.pend[k].upd
      PROVE  \E j : Sets(d, j, f)
  <2>1. f \in Names(d, A)
    BY <1>1, <1>4 DEF Names
  <2>2. /\ Last(d, A, f) \in A /\ f \in DOMAIN d.pend[Last(d, A, f)].upd
        /\ \A i \in A : f \in DOMAIN d.pend[i].upd => i <= Last(d, A, f)
    BY <1>1, <2>1, LastFacts
  <2>3. Sets(d, Last(d, A, f), f)
    BY <1>1, <2>2 DEF Sets
  <2> QED
    BY <2>3
<1> QED
  BY <1>2, <1>3, <1>4

\* Whoever sees a name at all sees what some power loss may leave.
LEMMA SeenImage ==
  ASSUME NEW d, StoreOK(d)
  PROVE  \E h \in Images(d) : \A f \in DOMAIN d.disk : h[f] = d.seen[f]
  BY SeenIsImage

\* A last write behind a fence stays, with its bytes.
LEMMA BarredHolds ==
  ASSUME NEW d, StoreOK(d), NEW dev \in Devices, NEW f \in DOMAIN d.disk,
         \A k : Sets(d, k, f) => k \in Barred(d, dev) /\ d.pend[k].born < d.epoch[dev]
  PROVE  Behind(d, f, d.seen[f], dev)
<1>1. CASE \A k \in All(d) : f \notin DOMAIN d.pend[k].upd
  BY <1>1, SeenSet, AfterIsImage DEF Fixed, Behind
<1>2. CASE \E k \in All(d) : f \in DOMAIN d.pend[k].upd
  <2>1. PICK k : Sets(d, k, f)
    BY <1>2, SeenSet
  <2>2. /\ k \in Barred(d, dev) /\ d.pend[k].born < d.epoch[dev]
        /\ d.seen[f] = d.pend[k].upd[f]
    BY <2>1, SeenSet
  <2> SUFFICES ASSUME NEW S \in Orderly(d), Barred(d, dev) \subseteq S,
                      NEW T \in SUBSET MayTearBelow(d, S, dev)
               PROVE  Landed(d, S, T)[f] = d.pend[k].upd[f]
    BY <2>2 DEF Behind, After
  <2>3. /\ k \in S /\ S \subseteq All(d) /\ StoreType(d)
        /\ f \in DOMAIN d.pend[k].upd /\ d.pend[k].dev = dev
        /\ \A i \in S : f \in DOMAIN d.pend[i].upd => i <= k
    BY <2>1, <2>2 DEF Sets, Orderly, All, StoreOK, Barred
  <2>4. d.pend[k].born \in Nat /\ d.epoch[dev] \in Nat
    BY <2>3 DEF StoreType, WriteOK
  <2>5. k \notin T
    BY <2>2, <2>3, <2>4 DEF MayTearBelow
  <2>6. f \in Names(d, S) /\ Last(d, S, f) = k
    BY <2>3, LastIs
  <2> QED
    BY <2>3, <2>5, <2>6, LandedSet
<1> QED
  BY <1>1, <1>2

\* A store that promises at least what another one does.
Tighter(d, e) ==
  /\ StoreOK(e) /\ e.seen = d.seen /\ DOMAIN e.disk = DOMAIN d.disk
  /\ Images(e) \subseteq Images(d)
  /\ \A x \in Devices : After(e, x) \subseteq After(d, x)
  /\ \A k \in All(e) : /\ k \in All(d)
                       /\ e.pend[k].upd = d.pend[k].upd /\ e.pend[k].dev = d.pend[k].dev
                       /\ e.pend[k].left \subseteq d.pend[k].left
  /\ \A f, dirs, dev : Reachable(d, f, dirs, dev) => Reachable(e, f, dirs, dev)

LEMMA SyncTightens ==
  ASSUME NEW d, StoreOK(d), NEW dirs
  PROVE  /\ Tighter(d, SyncDirs(d, dirs)) /\ SyncDirs(d, dirs).epoch = d.epoch
         /\ \A f, dev : Reachable(d, f, dirs, dev) => Reachable(SyncDirs(d, dirs), f, {}, dev)
         /\ \A f, dev, ds : Reachable(d, f, dirs \cup ds, dev)
                               => Reachable(SyncDirs(d, dirs), f, ds, dev)
<1> DEFINE e == SyncDirs(d, dirs)
<1>1. StoreType(d) /\ StoreOK(e) /\ Images(e) \subseteq Images(d)
      /\ \A x \in Devices : After(e, x) \subseteq After(d, x)
  BY SyncStore, SyncNarrows DEF StoreOK
<1>2. /\ e.seen = d.seen /\ e.disk = d.disk /\ e.epoch = d.epoch /\ All(e) = All(d)
      /\ \A k \in All(d) : /\ e.pend[k].upd = d.pend[k].upd /\ e.pend[k].dev = d.pend[k].dev
                           /\ e.pend[k].left = d.pend[k].left \ dirs
  BY <1>1, SyncFields
<1> HIDE DEF e
<1>3. \A k, f : Sets(e, k, f) => Sets(d, k, f)
  BY <1>2 DEF Sets
<1>4. \A f, ds, dev : Reachable(d, f, ds, dev) => Reachable(e, f, ds, dev)
  BY <1>2, <1>3 DEF Reachable, Sets
<1>5. \A f, dev : Reachable(d, f, dirs, dev) => Reachable(e, f, {}, dev)
  BY <1>2, <1>3 DEF Reachable, Sets
<1>6. \A f, dev, ds : Reachable(d, f, dirs \cup ds, dev) => Reachable(e, f, ds, dev)
  BY <1>2, <1>3 DEF Reachable, Sets
<1> QED
  BY <1>1, <1>2, <1>4, <1>5, <1>6 DEF Tighter, e

LEMMA FenceTightens ==
  ASSUME NEW d, StoreOK(d), NEW dir, NEW dev \in Devices
  PROVE  /\ Tighter(d, Fence(d, dir, dev))
         /\ \A x \in Devices : x # dev => Fence(d, dir, dev).epoch[x] = d.epoch[x]
         /\ \A f \in DOMAIN d.disk : Reachable(d, f, {dir}, dev) =>
              /\ Behind(Fence(d, dir, dev), f, d.seen[f], dev)
              /\ Reachable(Fence(d, dir, dev), f, {}, dev)
<1> DEFINE s == SyncDirs(d, {dir})
           e == Fence(d, dir, dev)
<1>1. StoreType(d) /\ StoreOK(e) /\ Images(e) \subseteq Images(d)
      /\ \A x \in Devices : After(e, x) \subseteq After(d, x)
  BY FenceStore, FenceNarrows DEF StoreOK
<1>2. Tighter(d, s) /\ s.epoch = d.epoch
      /\ \A f : Reachable(d, f, {dir}, dev) => Reachable(s, f, {}, dev)
  BY SyncTightens
<1>3. /\ e.seen = d.seen /\ e.disk = d.disk /\ e.pend = s.pend
      /\ e.epoch = [d.epoch EXCEPT ![dev] = d.epoch[dev] + 1]
  BY <1>1, FenceFields
<1> HIDE DEF s, e
<1>4. All(e) = All(s) /\ \A k, f : Sets(e, k, f) <=> Sets(s, k, f)
  BY <1>3 DEF Sets, All
<1>5. \A f, ds, x : Reachable(s, f, ds, x) <=> Reachable(e, f, ds, x)
  BY <1>3, <1>4 DEF Reachable
<1>6. Tighter(d, e)
  BY <1>1, <1>2, <1>3, <1>4, <1>5 DEF Tighter
<1>7. /\ e.epoch[dev] = d.epoch[dev] + 1 /\ d.epoch[dev] \in Nat
      /\ \A x \in Devices : x # dev => e.epoch[x] = d.epoch[x]
  BY <1>1, <1>3 DEF StoreType
<1>8. ASSUME NEW f \in DOMAIN d.disk, Reachable(d, f, {dir}, dev)
      PROVE  Behind(e, f, d.seen[f], dev) /\ Reachable(e, f, {}, dev)
  <2>1. Reachable(e, f, {}, dev)
    BY <1>2, <1>5, <1>8
  <2>2. ASSUME NEW k, Sets(e, k, f)
        PROVE  k \in Barred(e, dev) /\ e.pend[k].born < e.epoch[dev]
    <3>1. k \in All(e) /\ k \in All(s) /\ e.pend[k].left = {} /\ e.pend[k].dev = dev
      BY <1>4, <2>1, <2>2 DEF Reachable, Sets
    <3>2. WriteOK(s, s.pend[k]) /\ e.pend[k] = s.pend[k]
      BY <1>2, <1>3, <3>1 DEF Tighter, StoreOK, StoreType
    <3>3. e.pend[k].born <= e.pend[k].ord /\ e.pend[k].ord <= d.epoch[dev]
          /\ e.pend[k].born \in Nat /\ e.pend[k].ord \in Nat
      BY <1>2, <3>1, <3>2 DEF WriteOK
    <3> QED
      BY <1>7, <3>1, <3>3 DEF Barred
  <2>3. Behind(e, f, e.seen[f], dev)
    BY <1>1, <1>3, <2>2, BarredHolds
  <2> QED
    BY <1>3, <2>1, <2>3
<1> QED
  BY <1>6, <1>7, <1>8 DEF e

LEMMA FlushTightens ==
  ASSUME NEW d, StoreOK(d), NEW dir, NEW dev \in Devices
  PROVE  /\ Tighter(d, Flush(d, dir, dev))
         /\ \A x \in Devices : d.epoch[x] = 0 => Flush(d, dir, dev).epoch[x] = 0
         /\ \A f \in DOMAIN d.disk : Reachable(d, f, {dir}, dev) =>
              Fixed(Flush(d, dir, dev), f, d.seen[f])
<1> DEFINE s == SyncDirs(d, {dir})
           e == Flush(d, dir, dev)
<1>1. StoreOK(e) /\ Images(e) \subseteq Images(d)
      /\ \A x \in Devices : After(e, x) \subseteq After(d, x)
  BY FlushStore, FlushNarrows
<1>2. Tighter(d, s) /\ s.epoch = d.epoch
      /\ \A f : Reachable(d, f, {dir}, dev) => Reachable(s, f, {}, dev)
  BY SyncTightens
<1>3. PICK G \in Orderly(s) : /\ Durable(s, dev) \subseteq G
                              /\ \A k \in G : s.pend[k].dev = dev
                              /\ e = Drained(s, G, dev)
  BY FlushFields
<1>4. StoreOK(s) /\ StoreType(s)
  BY <1>2 DEF Tighter, StoreOK
<1> HIDE DEF s, e
<1>5. DrainedTo(s, e, G, dev)
  BY <1>3, <1>4, DrainedFields
\* A last write that is gone has taken the earlier ones of its name with it.
<1>6. ASSUME NEW f, NEW k, Sets(s, k, f), k \in G
      PROVE  \A i \in All(e) : f \notin DOMAIN e.pend[i].upd
  <2> SUFFICES ASSUME NEW i \in All(e), f \in DOMAIN e.pend[i].upd PROVE FALSE
    OBVIOUS
  <2>1. i \in All(s) /\ i \notin G /\ f \in DOMAIN s.pend[i].upd /\ i # k
    BY <1>5, <1>6 DEF DrainedTo
  <2>2. i <= k /\ i \in Nat /\ k \in Nat /\ f \in DOMAIN s.pend[k].upd
    BY <1>4, <1>6, <2>1 DEF Sets, StoreType
  <2>3. i < k /\ Shares(s.pend[i], s.pend[k])
    BY <2>1, <2>2 DEF Shares
  <2>4. Precedes(s.pend, i, k)
    BY <2>3 DEF Precedes
  <2> QED
    BY <1>6, <2>1, <2>4 DEF Orderly, All
<1>7. ASSUME NEW f, NEW k, Sets(e, k, f)
      PROVE  Sets(s, k, f) /\ k \in All(e)
  <2>1. k \in All(e) /\ f \in DOMAIN e.pend[k].upd
        /\ \A i \in All(e) : f \in DOMAIN e.pend[i].upd => i <= k
    BY <1>7 DEF Sets
  <2>2. k \in All(s) /\ f \in DOMAIN s.pend[k].upd
    BY <1>5, <2>1 DEF DrainedTo
  <2>3. \E j : Sets(s, j, f)
    <3>1. f \in Names(s, All(s)) /\ Names(s, All(s)) \subseteq DOMAIN s.disk
      BY <1>4, <2>2 DEF Names, StoreType, WriteOK
    <3> QED
      BY <1>4, <2>2, <3>1, SeenSet
  <2>4. PICK j : Sets(s, j, f)
    BY <2>3
  <2>5. j \notin G
    BY <1>6, <2>1, <2>4
  <2>6. j \in All(e) /\ f \in DOMAIN e.pend[j].upd
    BY <1>5, <2>4, <2>5 DEF DrainedTo, Sets
  <2>7. j <= k /\ k <= j /\ j \in Nat /\ k \in Nat
    BY <1>4, <2>1, <2>2, <2>4, <2>6 DEF Sets, StoreType
  <2> QED
    BY <2>1, <2>4, <2>7
<1>8. \A f, ds, x : Reachable(s, f, ds, x) => Reachable(e, f, ds, x)
  BY <1>5, <1>7 DEF Reachable, DrainedTo
<1>9. Tighter(d, e)
  <2>1. e.seen = d.seen /\ DOMAIN e.disk = DOMAIN d.disk
    BY <1>2, <1>5 DEF Tighter, DrainedTo
  <2>2. \A k \in All(e) : /\ k \in All(d)
                          /\ e.pend[k].upd = d.pend[k].upd /\ e.pend[k].dev = d.pend[k].dev
                          /\ e.pend[k].left \subseteq d.pend[k].left
    BY <1>2, <1>5 DEF Tighter, DrainedTo
  <2>3. \A f, ds, x : Reachable(d, f, ds, x) => Reachable(e, f, ds, x)
    BY <1>2, <1>8 DEF Tighter
  <2> QED
    BY <1>1, <2>1, <2>2, <2>3 DEF Tighter
<1>10. \A x \in Devices : d.epoch[x] = 0 => e.epoch[x] = 0
  BY <1>2, <1>4, <1>5 DEF DrainedTo, StoreType
<1>11. ASSUME NEW f \in DOMAIN d.disk, Reachable(d, f, {dir}, dev)
       PROVE  Fixed(e, f, d.seen[f])
  <2>1. ASSUME NEW k, Sets(e, k, f) PROVE FALSE
    <3>1. Sets(s, k, f) /\ k \in All(e)
      BY <1>7, <2>1
    <3>2. s.pend[k].left = {} /\ s.pend[k].dev = dev /\ k \in All(s)
      BY <1>2, <1>11, <3>1 DEF Reachable, Sets
    <3>3. k \in G
      BY <1>3, <3>2 DEF Durable, All
    <3> QED
      BY <1>5, <3>1, <3>3 DEF DrainedTo
  <2>2. f \in DOMAIN e.disk /\ e.seen = d.seen
    BY <1>9, <1>11 DEF Tighter
  <2> QED
    BY <1>1, <2>1, <2>2, SeenSet
<1> QED
  BY <1>9, <1>10, <1>11 DEF e

\* What a write leaves of the promises, and what it adds.
LEMMA WriteKeeps ==
  ASSUME NEW d, StoreOK(d), NEW upd, NEW body, NEW dirs, dirs # {},
         NEW dev, Fits(d, upd, dev)
  PROVE  LET e == Write(d, upd, body, dirs, dev) IN
         /\ \A f, v : f \notin DOMAIN upd /\ f \in DOMAIN d.disk =>
              /\ Fixed(d, f, v) => Fixed(e, f, v)
              /\ \A x : Behind(d, f, v, x) => Behind(e, f, v, x)
         /\ \A f, ds, x : f \notin DOMAIN upd /\ Reachable(d, f, ds, x) => Reachable(e, f, ds, x)
         /\ \A f \in DOMAIN upd : Reachable(e, f, dirs, dev)
<1> DEFINE e == Write(d, upd, body, dirs, dev)
           n == NextSerial(d)
<1>1. StoreType(d) /\ Wrote(d, e, n, upd, body, dirs, dev)
  BY WriteFields DEF StoreOK
<1>a. \A v \in Laid(upd, body) : DOMAIN v = DOMAIN upd
  BY DEF Laid, Blank
<1>b. \A m \in Images(d) : DOMAIN m = DOMAIN d.disk
  BY <1>1, ImageMap
<1>c. ASSUME NEW f, f \notin DOMAIN upd, f \in DOMAIN d.disk, NEW v \in Laid(upd, body),
             NEW m \in Images(d)
      PROVE  Over(v, m)[f] = m[f]
  BY <1>a, <1>b, <1>c DEF Over
<1>2. ASSUME NEW f, NEW v, f \notin DOMAIN upd, f \in DOMAIN d.disk, Fixed(d, f, v)
      PROVE  Fixed(e, f, v)
  BY <1>c, <1>2, WriteImages, AfterIsImage DEF Fixed
<1>3. ASSUME NEW f, NEW v, f \notin DOMAIN upd, f \in DOMAIN d.disk, NEW x, Behind(d, f, v, x)
      PROVE  Behind(e, f, v, x)
  BY <1>c, <1>3, WriteAfter, AfterIsImage DEF Behind
<1> HIDE DEF e, n
<1>4. ASSUME NEW f, f \notin DOMAIN upd, NEW ds, NEW x, Reachable(d, f, ds, x)
      PROVE  Reachable(e, f, ds, x)
  <2>1. \A k : Sets(e, k, f) => Sets(d, k, f) /\ e.pend[k] = d.pend[k]
    BY <1>1, <1>4 DEF Sets, Wrote
  <2> QED
    BY <1>4, <2>1 DEF Reachable
<1>5. ASSUME NEW f \in DOMAIN upd PROVE Reachable(e, f, dirs, dev)
  <2>1. \A k : Sets(e, k, f) => k = n
    <3> SUFFICES ASSUME NEW k, Sets(e, k, f), k # n PROVE FALSE
      OBVIOUS
    <3>1. k \in All(d) /\ n \in All(e) /\ f \in DOMAIN e.pend[n].upd
      BY <1>1 DEF Sets, Wrote
    <3>2. n <= k /\ k < n /\ n \in Nat /\ k \in Nat
      BY <1>1, <3>1 DEF Sets, Wrote, StoreType
    <3> QED
      BY <3>2
  <2> QED
    BY <1>1, <2>1 DEF Reachable, Wrote
<1> QED
  BY <1>2, <1>3, <1>4, <1>5 DEF e
-----------------------------------------------------------------------------
(* Writes that no one has synced *)

\* What set the name f last set nothing else and waits for a sync of the directory.
Waits(d, f, dir) ==
  \E j \in All(d) : Sets(d, j, f) /\ DOMAIN d.pend[j].upd = {f} /\ d.pend[j].left = {dir}

LEMMA WaitsSync ==
  ASSUME NEW d, StoreOK(d), NEW dirs, NEW f, NEW dir, dir \notin dirs, Waits(d, f, dir)
  PROVE  Waits(SyncDirs(d, dirs), f, dir)
<1> DEFINE e == SyncDirs(d, dirs)
<1>1. /\ All(e) = All(d)
      /\ \A k \in All(d) : e.pend[k].upd = d.pend[k].upd /\ e.pend[k].left = d.pend[k].left \ dirs
  BY SyncFields DEF StoreOK
<1> HIDE DEF e
<1>2. PICK j \in All(d) : /\ Sets(d, j, f) /\ DOMAIN d.pend[j].upd = {f}
                          /\ d.pend[j].left = {dir}
  BY DEF Waits
<1>3. Sets(e, j, f)
  BY <1>1, <1>2 DEF Sets
<1>4. e.pend[j].left = {dir}
  BY <1>1, <1>2
<1> QED
  BY <1>1, <1>2, <1>3, <1>4 DEF Waits, e

LEMMA WaitsFence ==
  ASSUME NEW d, StoreOK(d), NEW other, NEW dev \in Devices, NEW f, NEW dir, dir # other,
         Waits(d, f, dir)
  PROVE  Waits(Fence(d, other, dev), f, dir)
<1> DEFINE s == SyncDirs(d, {other})
           e == Fence(d, other, dev)
<1>1. Waits(s, f, dir)
  BY WaitsSync
<1>2. StoreType(d)
  BY DEF StoreOK
<1>3. /\ e.seen = d.seen /\ e.disk = d.disk /\ e.pend = s.pend
      /\ e.epoch = [d.epoch EXCEPT ![dev] = d.epoch[dev] + 1]
  BY <1>2, FenceFields
<1> HIDE DEF s, e
<1> QED
  BY <1>1, <1>3 DEF Waits, Sets, All, e

\* A flush leaves alone a write that is not synced and that no other builds on.
LEMMA LeastLacks ==
  ASSUME NEW d, StoreType(d), NEW dev, NEW f, NEW dir, NEW j \in All(d), Sets(d, j, f),
         DOMAIN d.pend[j].upd = {f}, d.pend[j].left = {dir}
  PROVE  j \notin Least(Enough(d, dev))
<1> DEFINE G == {k \in All(d) : \A S \in Enough(d, dev) : k \in S}
           O == {k \in All(d) : d.pend[k].dev = dev} \ {j}
<1>1. G \in Enough(d, dev)
  <2>1. Durable(d, dev) \subseteq G
    BY DEF Durable, Enough, All
  <2>2. G \in SUBSET DOMAIN d.pend
    BY DEF All
  <2>3. \A i \in DOMAIN d.pend \ G : \A k \in G : ~Precedes(d.pend, i, k)
    BY DEF Enough, Orderly, All
  <2> QED
    BY <2>1, <2>2, <2>3 DEF Enough, Orderly
<1>2. O \in Enough(d, dev)
  <2>1. ASSUME NEW k \in O, Precedes(d.pend, j, k) PROVE FALSE
    <3>1. j < k /\ Shares(d.pend[j], d.pend[k]) /\ k \in All(d) /\ j \in Nat /\ k \in Nat
      BY <2>1 DEF Precedes, StoreType
    <3>2. f \in DOMAIN d.pend[k].upd
      BY <3>1 DEF Shares
    <3>3. k <= j
      BY <3>1, <3>2 DEF Sets
    <3> QED
      BY <3>1, <3>3
  <2>2. ASSUME NEW i \in All(d), d.pend[i].dev # dev, NEW k \in O, Precedes(d.pend, i, k)
        PROVE  FALSE
    BY <2>2 DEF StoreType, Precedes
  <2>3. \A i \in DOMAIN d.pend \ O : \A k \in O : ~Precedes(d.pend, i, k)
    BY <2>1, <2>2 DEF All
  <2>4. Durable(d, dev) \subseteq O
    BY DEF Durable, All
  <2>5. O \in SUBSET DOMAIN d.pend
    BY DEF All
  <2> QED
    BY <2>3, <2>4, <2>5 DEF Enough, Orderly
<1>3. \A S \in Enough(d, dev) : G \subseteq S
  OBVIOUS
<1> HIDE DEF G
<1>4. \A S \in Enough(d, dev) : Least(Enough(d, dev)) \subseteq S
  BY <1>1, <1>3 DEF Least
<1> QED
  BY <1>2, <1>4

LEMMA WaitsFlush ==
  ASSUME NEW d, StoreOK(d), NEW other, NEW dev \in Devices, NEW f, NEW dir, dir # other,
         Waits(d, f, dir)
  PROVE  Waits(Flush(d, other, dev), f, dir)
<1> DEFINE s == SyncDirs(d, {other})
           G == Least(Enough(s, dev))
           e == Flush(d, other, dev)
<1>1. StoreType(s)
  BY SyncStore DEF StoreOK
<1>2. Waits(s, f, dir)
  BY WaitsSync
<1>3. e = Drained(s, G, dev)
  BY DEF Flush
<1> HIDE DEF s, e
<1>4. G \in Orderly(s)
  BY <1>1, LeastEnough
<1>5. PICK j \in All(s) : /\ Sets(s, j, f) /\ DOMAIN s.pend[j].upd = {f}
                          /\ s.pend[j].left = {dir}
  BY <1>2 DEF Waits
<1>6. j \notin G
  BY <1>1, <1>5, LeastLacks
<1> HIDE DEF G
<1>7. DrainedTo(s, e, G, dev)
  BY <1>1, <1>3, <1>4, DrainedFields
<1>8. /\ j \in All(e) /\ e.pend[j].upd = s.pend[j].upd /\ e.pend[j].left = s.pend[j].left
      /\ \A k \in All(e) : k \in All(s) /\ e.pend[k].upd = s.pend[k].upd
  BY <1>5, <1>6, <1>7 DEF DrainedTo
<1>9. Sets(e, j, f)
  BY <1>5, <1>8 DEF Sets
<1> QED
  BY <1>5, <1>8, <1>9 DEF Waits, e

LEMMA WaitsWrite ==
  ASSUME NEW d, StoreOK(d), NEW upd, NEW body, NEW dirs, NEW dev, NEW f, NEW dir
  PROVE  LET e == Write(d, upd, body, dirs, dev) IN
         /\ f \notin DOMAIN upd /\ Waits(d, f, dir) => Waits(e, f, dir)
         /\ DOMAIN upd = {f} /\ dirs = {dir} => Waits(e, f, dir)
<1> DEFINE e == Write(d, upd, body, dirs, dev)
           n == NextSerial(d)
<1>1. StoreType(d) /\ Wrote(d, e, n, upd, body, dirs, dev)
  BY WriteFields DEF StoreOK
<1> HIDE DEF e, n
<1>2. ASSUME f \notin DOMAIN upd, Waits(d, f, dir) PROVE Waits(e, f, dir)
  <2>1. PICK j \in All(d) : /\ Sets(d, j, f) /\ DOMAIN d.pend[j].upd = {f}
                            /\ d.pend[j].left = {dir}
    BY <1>2 DEF Waits
  <2>2. j \in All(e) /\ e.pend[j] = d.pend[j] /\ Sets(e, j, f)
    BY <1>1, <1>2, <2>1 DEF Sets, Wrote
  <2> QED
    BY <2>1, <2>2 DEF Waits
<1>3. ASSUME DOMAIN upd = {f}, dirs = {dir} PROVE Waits(e, f, dir)
  <2>1. n \in All(e) /\ \A k \in All(e) : k <= n
    BY <1>1 DEF Wrote, StoreType
  <2>2. Sets(e, n, f)
    BY <1>1, <1>3, <2>1 DEF Sets, Wrote
  <2> QED
    BY <1>1, <1>3, <2>1, <2>2 DEF Waits, Wrote
<1> QED
  BY <1>2, <1>3 DEF e
=============================================================================
