------------------------- MODULE ProjectFilesProofs -------------------------
(***************************************************************************)
(* The directory of a project, for any number of creators and generators,  *)
(* any revisions of the skeleton, any files and any clock.                 *)
(*                                                                         *)
(* Creators interfere through the directory only.  A creator owns the      *)
(* scripts of its version and name from its first create_new to its end    *)
(* (Mine): the invariant says what an owner finds on the disk              *)
(* (CreatorDisk), that there is one owner at a time (OneOwner) and that    *)
(* half a pair has an owner or is excused (PairsOwned).  Everything else   *)
(* is that nobody touches the scripts of another owner, those a creator    *)
(* has reported, or the pair that was the newest when one started (Kept).  *)
(***************************************************************************)
EXTENDS ProjectFiles, SequenceTheorems, WellFoundedInduction, TLAPS

At(d, me, half) == d[Script(me.version, me.name, half)]

\* me has created a script that it has neither reported nor given up.
Mine(me) == me.pc = "write" \/ (me.pc = "open" /\ me.half = "down")

SameScripts(me, you) == me.version = you.version /\ me.name = you.name

Whole(d, v, n) == \A half \in Halves : d[Script(v, n, half)] \notin {"none", "partial"}

\* A script of version v that nobody will remove.
Kept(d, v) ==
    \E n \in Names : IF n \in NewNames THEN Whole(d, v, n) ELSE d[Script(v, n, "up")] # "none"

CreatorShape(me) ==
    /\ me \in CreatorType
    /\ me.pc # "err" => me.name \in NewNames
    /\ me.pc = "scan" => me.half = "up" /\ me.version = 0
    /\ me.pc \in {"open", "write", "ok"} => me.version > me.floor

CreatorDisk(me, d, gone) ==
    /\ me.pc = "scan" /\ me.floor # 0 => Kept(d, me.floor)
    /\ me.pc = "ok" => \A half \in Halves : At(d, me, half) = "template"
    /\ me.pc = "write" => At(d, me, me.half) = "partial"
    /\ Mine(me) /\ me.half = "down" => At(d, me, "up") = "template"
    /\ Mine(me) /\ (me.pc = "open" \/ me.half = "up") =>
          \/ At(d, me, "down") = "none"
          \/ At(d, me, "down") = "partial" /\ <<me.version, me.name>> \in gone

OneOwner(cr) ==
    \A b, c \in Creators : Mine(cr[b]) /\ Mine(cr[c]) /\ SameScripts(cr[b], cr[c]) => b = c

Paired(d, v, n) == d[Script(v, n, "up")] # "none" <=> d[Script(v, n, "down")] # "none"

PairsOwned(cr, d, gone) ==
    \A v \in 1..MaxVersion, n \in NewNames :
        \/ Paired(d, v, n)
        \/ <<v, n>> \in gone
        \/ \E c \in Creators : Mine(cr[c]) /\ cr[c].version = v /\ cr[c].name = n

\* A script down that was written comes after its script up.
UpFirst(d) ==
    \A v \in 1..MaxVersion, n \in NewNames :
        d[Script(v, n, "down")] \in {"none", "partial"} \/ d[Script(v, n, "up")] = "template"

CreatorsGood(cr, d, gone) ==
    /\ d \in [Paths -> Contents]
    /\ gone \subseteq (1..MaxVersion) \X NewNames
    /\ cr \in [Creators -> CreatorType]
    /\ \A c \in Creators : CreatorShape(cr[c])
    /\ \A c \in Creators : CreatorDisk(cr[c], d, gone)
    /\ OneOwner(cr)
    /\ PairsOwned(cr, d, gone)
    /\ UpFirst(d)

\* The part of the inductive invariant about creators.
MInv == CreatorsGood(creator, disk, excused)

-----------------------------------------------------------------------------
(* Versions. *)

LEMMA HasMinimum ==
    ASSUME NEW S, S \subseteq Nat, S # {}
    PROVE  \E m \in S : \A k \in S : m <= k
<1> DEFINE less == OpToRel(<, Nat)
<1>1. IsWellFoundedOn(less, Nat)
  BY NatLessThanWellFounded
<1>2. \A x, y \in Nat : x < y => <<x, y>> \in less
  BY DEF OpToRel
<1> HIDE DEF less
<1>3. PICK m \in S : \A k \in S : <<k, m>> \notin less
  BY <1>1, WFMin
<1>4. \A k \in S : m <= k
  <2> SUFFICES ASSUME NEW k \in S PROVE ~(k < m)
    BY SMT
  <2> QED
    BY <1>2, <1>3
<1> QED
  BY <1>4

LEMMA HasMaximum ==
    ASSUME NEW N \in Nat, NEW S, S \subseteq 0..N, S # {}
    PROVE  \E m \in S : \A k \in S : k <= m
<1> DEFINE T == {N - k : k \in S}
<1>1. T \subseteq Nat /\ T # {}
  <2>1. PICK s \in S : TRUE
    OBVIOUS
  <2>2. N - s \in T
    BY <2>1
  <2> QED
    BY <2>2
<1> HIDE DEF T
<1>2. PICK m \in T : \A k \in T : m <= k
  BY <1>1, HasMinimum
<1>3. N - m \in S /\ \A k \in S : k <= N - m
  BY <1>2 DEF T
<1> QED
  BY <1>3

\* The version newest_pair is 0 or one that will stay.
LEMMA NewestIsKept ==
    Newest \in 0..MaxVersion /\ (Newest # 0 => Kept(disk, Newest))
<1> DEFINE whole == {v \in 1..MaxVersion : \E n \in Names : \A half \in Halves :
                        disk[Script(v, n, half)] \notin {"none", "partial"}}
<1>1. Newest = IF whole = {} THEN 0 ELSE CHOOSE v \in whole : \A w \in whole : w <= v
  BY DEF Newest
<1>2. \A v \in whole : v \in 1..MaxVersion /\ Kept(disk, v)
  BY DEF Kept, Whole, Halves
<1>3. whole \subseteq 0..MaxVersion
  BY DiskConstants, SMT
<1> HIDE DEF whole
<1>4. CASE whole = {}
  BY <1>1, <1>4, DiskConstants, SMT
<1>5. CASE whole # {}
  <2>1. Newest \in whole
    BY <1>1, <1>3, <1>5, HasMaximum, DiskConstants
  <2> QED
    BY <1>2, <1>3, <2>1
<1> QED
  BY <1>4, <1>5

LEMMA NextIsNewer ==
    ASSUME NEW now \in Clock
    PROVE  /\ NextVersion(now) \in Nat \ {0}
           /\ \A v \in 1..MaxVersion : Kept(disk, v) => v < NextVersion(now)
<1> DEFINE above == {v \in Versions : v >= now}
           top == CHOOSE v \in above : \A w \in above : w <= v
<1>1. NextVersion(now) = IF above = {} THEN now ELSE 1 + top
  BY DEF NextVersion
<1>2. now \in Nat \ {0}
  BY CreatorConstants
<1>3. Versions \subseteq 1..MaxVersion
  BY DEF Versions, Scripts
<1>4. \A v \in 1..MaxVersion : Kept(disk, v) => v \in Versions
  <2> SUFFICES ASSUME NEW v \in 1..MaxVersion, Kept(disk, v) PROVE v \in Versions
    OBVIOUS
  <2>1. PICK n \in Names : There(Script(v, n, "up"))
    BY DEF Kept, Whole, There, Halves
  <2>2. Script(v, n, "up") \in Scripts /\ Script(v, n, "up")[1] = v
    BY DEF Script, Scripts, Halves
  <2> QED
    BY <2>1, <2>2 DEF Versions
<1>5. above \subseteq Versions /\ above \subseteq 0..MaxVersion
  <2>1. above \subseteq Versions
    BY Zenon
  <2>2. 1..MaxVersion \subseteq 0..MaxVersion
    BY DiskConstants, SMT
  <2> HIDE DEF above
  <2> QED
    BY <1>3, <2>1, <2>2
<1>6. \A v \in Versions : v \in Nat /\ (v \in above \/ v < now)
  <2> SUFFICES ASSUME NEW v \in Versions PROVE v \in Nat /\ (v \in above \/ v < now)
    OBVIOUS
  <2>1. v \in Nat
    BY <1>3, DiskConstants
  <2>2. v >= now \/ v < now
    BY <1>2, <2>1
  <2> QED
    BY <2>1, <2>2
<1> HIDE DEF above
<1>7. CASE above = {}
  BY <1>1, <1>2, <1>4, <1>6, <1>7
<1>8. CASE above # {}
  <2>1. top \in above /\ \A w \in above : w <= top
    BY <1>5, <1>8, HasMaximum, DiskConstants
  <2>2. top \in Nat /\ now <= top
    BY <2>1, <1>5, DiskConstants DEF above
  <2> HIDE DEF top
  <2>3. NextVersion(now) = 1 + top
    BY <1>1, <1>8
  <2>4. \A v \in Versions : v <= top
    BY <1>2, <1>6, <2>1, <2>2, SMT
  <2> QED
    BY <1>4, <1>6, <2>2, <2>3, <2>4, SMT
<1> QED
  BY <1>7, <1>8

-----------------------------------------------------------------------------
(* What one creator does to the others.                                    *)

\* A creator that finds its own scripts, and the versions that are kept, as
\* they were is not disturbed.
LEMMA Undisturbed ==
    ASSUME NEW me, CreatorShape(me), NEW d, NEW e, NEW gone, NEW more, gone \subseteq more,
           CreatorDisk(me, d, gone),
           Mine(me) \/ me.pc = "ok" => \A half \in Halves : At(e, me, half) = At(d, me, half),
           \A v \in 1..MaxVersion : Kept(d, v) => Kept(e, v)
    PROVE  CreatorDisk(me, e, more)
<1>1. me.half \in Halves /\ "up" \in Halves /\ "down" \in Halves
  BY DEF CreatorShape, CreatorType, Halves
<1>2. me.floor # 0 => me.floor \in 1..MaxVersion
  BY DiskConstants DEF CreatorShape, CreatorType
<1>3. me.pc = "scan" /\ me.floor # 0 => Kept(e, me.floor)
  BY <1>2 DEF CreatorDisk
<1> QED
  BY <1>1, <1>3 DEF CreatorDisk, Mine

\* Changing the scripts of a migration that is not whole loses no version.
LEMMA KeptStays ==
    ASSUME NEW d, NEW e, NEW v, NEW n \in NewNames, ~Whole(d, v, n),
           \A u \in 1..MaxVersion, m \in Names, half \in Halves :
               <<u, m>> # <<v, n>> => e[Script(u, m, half)] = d[Script(u, m, half)],
           NEW u \in 1..MaxVersion, Kept(d, u)
    PROVE  Kept(e, u)
<1>1. PICK m \in Names : IF m \in NewNames THEN Whole(d, u, m) ELSE d[Script(u, m, "up")] # "none"
  BY DEF Kept
<1>2. <<u, m>> # <<v, n>>
  BY <1>1
<1>3. \A half \in Halves : e[Script(u, m, half)] = d[Script(u, m, half)]
  BY <1>2
<1> QED
  BY <1>1, <1>3 DEF Kept, Whole, Halves

\* c owns its scripts, or is about to create the first one.
Writes(c) ==
    \/ Mine(creator[c])
    \/ creator[c].pc = "open" /\ creator[c].half = "up" /\ ~There(Path(c))

\* They are those of no other owner and of no creator that reported them, and
\* no pair that is whole.
LEMMA OwnScripts ==
    ASSUME MInv, NEW c \in Creators, Writes(c)
    PROVE  /\ ~Whole(disk, creator[c].version, creator[c].name)
           /\ \A b \in Creators \ {c} :
                 Mine(creator[b]) \/ creator[b].pc = "ok" =>
                     ~SameScripts(creator[b], creator[c])
<1> DEFINE me == creator[c]
<1>1. /\ me \in CreatorType /\ CreatorShape(me) /\ CreatorDisk(me, disk, excused)
      /\ me.half \in Halves /\ "up" \in Halves /\ "down" \in Halves
  BY DEF MInv, CreatorsGood, CreatorType, Halves
<1>2. \/ me.pc = "write" /\ At(disk, me, me.half) = "partial"
      \/ me.pc = "open" /\ me.half = "down" /\ At(disk, me, "down") \in {"none", "partial"}
      \/ me.pc = "open" /\ me.half = "up" /\ At(disk, me, "up") = "none"
  BY <1>1 DEF Writes, Mine, CreatorDisk, There, Path, At
<1>3. \E half \in Halves : At(disk, me, half) \in {"none", "partial"}
  BY <1>1, <1>2
<1>4. ASSUME NEW b \in Creators \ {c}, creator[b].pc = "ok"
      PROVE  ~SameScripts(creator[b], me)
  <2>1. \A half \in Halves : At(disk, creator[b], half) = "template"
    BY <1>4 DEF MInv, CreatorsGood, CreatorDisk
  <2> QED
    BY <2>1, <1>3 DEF SameScripts, At
<1>5. ASSUME NEW b \in Creators \ {c}, Mine(creator[b]), SameScripts(creator[b], me)
      PROVE  FALSE
  <2>1. CASE Mine(me)
    BY <1>5, <2>1 DEF MInv, CreatorsGood, OneOwner
  <2>2. CASE ~Mine(me)
    <3>1. At(disk, creator[b], "up") = "none"
      BY <1>2, <1>5, <2>2 DEF Mine, SameScripts, At
    <3>2. creator[b].half \in Halves /\ CreatorDisk(creator[b], disk, excused)
      BY DEF MInv, CreatorsGood, CreatorType
    <3> QED
      BY <1>5, <3>1, <3>2 DEF CreatorDisk, Mine, Halves
  <2> QED
    BY <2>1, <2>2
<1>6. ~Whole(disk, me.version, me.name)
  BY <1>3 DEF Whole, At
<1> QED
  BY <1>4, <1>5, <1>6

-----------------------------------------------------------------------------
(* Steps of creators.                                                      *)

\* A step of c that touches its own scripts only, and leaves them in order.
LEMMA OwnStep ==
    ASSUME MInv, NEW c \in Creators, NEW me,
           creator' = [creator EXCEPT ![c] = me],
           disk' \in [Paths -> Contents],
           excused \subseteq excused', excused' \subseteq (1..MaxVersion) \X NewNames,
           CreatorShape(me), CreatorDisk(me, disk', excused'),
           \A u \in 1..MaxVersion, m \in Names, half \in Halves :
               \/ disk'[Script(u, m, half)] = disk[Script(u, m, half)]
               \/ Writes(c) /\ u = creator[c].version /\ m = creator[c].name,
           Mine(me) => Writes(c) /\ SameScripts(me, creator[c]),
           \/ Paired(disk', creator[c].version, creator[c].name)
           \/ <<creator[c].version, creator[c].name>> \in excused'
           \/ Mine(me)
           \/ disk' = disk /\ ~Mine(creator[c]),
           \/ disk' = disk
           \/ At(disk', creator[c], "down") \in {"none", "partial"}
           \/ At(disk', creator[c], "up") = "template"
    PROVE  MInv'
<1> USE DEF MInv, CreatorsGood
<1>1. creator'[c] = me /\ \A b \in Creators \ {c} : creator'[b] = creator[b]
  OBVIOUS
<1>2. creator' \in [Creators -> CreatorType]
  BY DEF CreatorShape
<1>3. \A b \in Creators : CreatorShape(creator'[b])
  BY <1>1
<1>4. \A u \in 1..MaxVersion : Kept(disk, u) => Kept(disk', u)
  <2> SUFFICES ASSUME NEW u \in 1..MaxVersion, Kept(disk, u) PROVE Kept(disk', u)
    OBVIOUS
  <2>1. CASE Writes(c)
    <3>1. creator[c].name \in NewNames
      BY <2>1 DEF CreatorShape, Writes, Mine
    <3> QED
      BY <2>1, <3>1, OwnScripts, KeptStays
  <2>2. CASE ~Writes(c)
    BY <2>2 DEF Kept, Whole, Halves
  <2> QED
    BY <2>1, <2>2
<1>5. ASSUME NEW b \in Creators PROVE CreatorDisk(creator'[b], disk', excused')
  <2>1. CASE b = c
    BY <1>1, <2>1
  <2>2. CASE b # c
    <3> DEFINE you == creator[b]
    <3>1. CreatorShape(you) /\ CreatorDisk(you, disk, excused)
      OBVIOUS
    <3>2. ASSUME Mine(you) \/ you.pc = "ok", NEW half \in Halves
          PROVE  At(disk', you, half) = At(disk, you, half)
      <4>1. you.name \in Names /\ you.version \in 1..MaxVersion
        BY <3>1, <3>2, CreatorConstants, DiskConstants DEF CreatorShape, CreatorType, Mine
      <4>2. Writes(c) => ~SameScripts(you, creator[c])
        BY <2>2, <3>2, OwnScripts
      <4> QED
        BY <4>1, <4>2 DEF SameScripts, At
    <3> HIDE DEF you
    <3>3. CreatorDisk(you, disk', excused')
      BY <1>4, <3>1, <3>2, Undisturbed
    <3> QED
      BY <1>1, <2>2, <3>3 DEF you
  <2> QED
    BY <2>1, <2>2
<1>6. OneOwner(creator')
  <2> SUFFICES ASSUME NEW a \in Creators, NEW b \in Creators, Mine(creator'[a]), Mine(creator'[b]),
                      SameScripts(creator'[a], creator'[b]), a # b
               PROVE  FALSE
    BY DEF OneOwner
  <2>1. CASE a # c /\ b # c
    BY <1>1, <2>1 DEF OneOwner
  <2>2. CASE a = c
    <3>1. Mine(creator[b]) /\ SameScripts(creator[b], creator[c]) /\ Writes(c)
      BY <1>1, <2>2 DEF SameScripts
    <3> QED
      BY <2>2, <3>1, OwnScripts
  <2>3. CASE b = c
    <3>1. Mine(creator[a]) /\ SameScripts(creator[a], creator[c]) /\ Writes(c)
      BY <1>1, <2>3 DEF SameScripts
    <3> QED
      BY <2>3, <3>1, OwnScripts
  <2> QED
    BY <2>1, <2>2, <2>3
<1>7. PairsOwned(creator', disk', excused')
  <2> SUFFICES ASSUME NEW u \in 1..MaxVersion, NEW n \in NewNames,
                      ~Paired(disk', u, n), <<u, n>> \notin excused'
               PROVE  \E b \in Creators :
                         Mine(creator'[b]) /\ creator'[b].version = u /\ creator'[b].name = n
    <3> HIDE DEF MInv, CreatorsGood
    <3> QED
      BY Zenon DEF PairsOwned
  <2>1. CASE u = creator[c].version /\ n = creator[c].name /\ Mine(me)
    BY <1>1, <2>1 DEF SameScripts
  <2>2. CASE ~(u = creator[c].version /\ n = creator[c].name /\ Mine(me))
    <3>1. ~Paired(disk, u, n)
      <4>1. n \in Names /\ "up" \in Halves /\ "down" \in Halves
        BY CreatorConstants DEF Halves
      <4> QED
        BY <2>2, <4>1 DEF Paired
    <3>2. PICK b \in Creators : Mine(creator[b]) /\ creator[b].version = u /\ creator[b].name = n
      BY <3>1 DEF PairsOwned
    <3>3. b # c
      BY <2>2, <3>2
    <3> QED
      BY <1>1, <3>2, <3>3
  <2> QED
    BY <2>1, <2>2
<1>8. UpFirst(disk')
  <2> SUFFICES ASSUME NEW u \in 1..MaxVersion, NEW n \in NewNames
               PROVE  \/ disk'[Script(u, n, "down")] \in {"none", "partial"}
                      \/ disk'[Script(u, n, "up")] = "template"
    BY DEF UpFirst
  <2>1. CASE disk' # disk /\ u = creator[c].version /\ n = creator[c].name
    BY <2>1 DEF At
  <2>2. CASE disk' = disk \/ ~(u = creator[c].version /\ n = creator[c].name)
    <3>1. n \in Names /\ "up" \in Halves /\ "down" \in Halves
      BY CreatorConstants DEF Halves
    <3> QED
      BY <2>2, <3>1 DEF UpFirst
  <2> QED
    BY <2>1, <2>2
<1> QED
  BY <1>2, <1>3, <1>5, <1>6, <1>7, <1>8

\* What the invariant says of c before its step.
LEMMA CreatorFacts ==
    ASSUME MInv, NEW c \in Creators
    PROVE  /\ disk \in [Paths -> Contents]
           /\ excused \subseteq (1..MaxVersion) \X NewNames
           /\ creator[c] \in CreatorType
           /\ CreatorShape(creator[c])
           /\ CreatorDisk(creator[c], disk, excused)
BY DEF MInv, CreatorsGood

LEMMA RestShape == CreatorShape(CRest("err")) /\ ~Mine(CRest("err"))
BY DiskConstants DEF CRest, CreatorShape, CreatorType, Creating, Halves, Mine

LEMMA RestDisk == \A d, gone : CreatorDisk(CRest("err"), d, gone)
BY DEF CRest, CreatorDisk, Mine

\* The script c works on.
LEMMA OwnPath ==
    ASSUME NEW me, CreatorShape(me), me.pc \in {"open", "write"}, NEW half \in Halves
    PROVE  /\ me.version \in 1..MaxVersion /\ me.name \in NewNames /\ me.name \in Names
           /\ Script(me.version, me.name, half) \in Paths
BY DiskConstants, CreatorConstants DEF CreatorShape, CreatorType, Paths, Scripts, Script

LEMMA StartCreateKeeps ==
    ASSUME MInv, NEW c \in Creators, NEW name \in NewNames \cup {"none"}, StartCreate(c, name)
    PROVE  MInv'
<1> DEFINE me == IF name = "none" THEN CRest("err")
                 ELSE [CRest("scan") EXCEPT !.name = name, !.floor = Newest]
<1>1. creator' = [creator EXCEPT ![c] = me] /\ disk' = disk /\ excused' = excused
  BY DEF StartCreate
<1>2. CreatorShape(me) /\ CreatorDisk(me, disk, excused) /\ ~Mine(me)
  <2>1. CASE name = "none"
    BY <2>1, RestShape, RestDisk
  <2>2. CASE name # "none"
    <3>1. /\ me.pc = "scan" /\ me.name = name /\ me.version = 0 /\ me.half = "up"
          /\ me.floor = Newest /\ me \in CreatorType
      <4> DEFINE floor == Newest
      <4>1. floor \in 0..MaxVersion /\ name \in NewNames
        BY <2>2, NewestIsKept
      <4>2. me = [CRest("scan") EXCEPT !.name = name, !.floor = floor]
        BY <2>2
      <4> HIDE DEF floor, me
      <4>3. me = [pc |-> "scan", name |-> name, version |-> 0, half |-> "up", floor |-> floor]
        BY <4>2 DEF CRest
      <4> QED
        BY <4>1, <4>3, DiskConstants DEF CreatorType, Creating, Halves, floor
    <3> HIDE DEF me
    <3> QED
      BY <2>2, <3>1, NewestIsKept DEF CreatorShape, CreatorDisk, Mine
  <2> QED
    BY <2>1, <2>2
<1>3. ~Mine(creator[c])
  BY DEF StartCreate, Creating, Mine
<1> HIDE DEF me
<1> QED
  BY <1>1, <1>2, <1>3, CreatorFacts, OwnStep

LEMMA ScanKeeps ==
    ASSUME MInv, NEW c \in Creators, NEW now \in Clock, Scan(c, now)
    PROVE  MInv'
<1> DEFINE next == NextVersion(now)
           me == IF next > MaxVersion THEN CRest("err")
                 ELSE [creator[c] EXCEPT !.pc = "open", !.version = next]
<1>1. creator' = [creator EXCEPT ![c] = me] /\ disk' = disk /\ excused' = excused
  BY DEF Scan
<1>2. creator[c].pc = "scan" /\ ~Mine(creator[c])
  BY DEF Scan, Mine
<1>3. CreatorShape(me) /\ CreatorDisk(me, disk, excused) /\ ~Mine(me)
  <2>1. CASE next > MaxVersion
    BY <2>1, RestShape, RestDisk
  <2>2. CASE ~(next > MaxVersion)
    <3>0. next \in 1..MaxVersion
      BY <2>2, NextIsNewer, DiskConstants
    <3>1. creator[c].floor < next
      <4>1. creator[c].floor \in 0..MaxVersion
        BY CreatorFacts DEF CreatorType
      <4>2. creator[c].floor # 0 => Kept(disk, creator[c].floor)
        BY <1>2, CreatorFacts DEF CreatorDisk
      <4>3. creator[c].floor # 0 => creator[c].floor < next
        BY <4>1, <4>2, NextIsNewer, DiskConstants
      <4> HIDE DEF next
      <4> QED
        BY <3>0, <4>1, <4>3, DiskConstants, SMT
    <3>2. /\ me.pc = "open" /\ me.name = creator[c].name /\ me.version = next
          /\ me.half = "up" /\ me.floor = creator[c].floor /\ me \in CreatorType
      <4>1. me = [creator[c] EXCEPT !.pc = "open", !.version = next]
        BY <2>2
      <4>2. creator[c] \in CreatorType /\ creator[c].half = "up"
        BY <1>2, CreatorFacts DEF CreatorShape
      <4>3. next \in 0..MaxVersion
        BY <3>0, DiskConstants
      <4> HIDE DEF me, next
      <4>4. me \in CreatorType
        BY <4>1, <4>2, <4>3 DEF CreatorType, Creating
      <4> QED
        BY <4>1, <4>2, <4>3, <4>4 DEF CreatorType
    <3> HIDE DEF me, next
    <3> QED
      BY <1>2, <3>0, <3>1, <3>2, CreatorFacts, DiskConstants
         DEF CreatorShape, CreatorDisk, CreatorType, Mine
  <2> QED
    BY <2>1, <2>2
<1> HIDE DEF me
<1> QED
  BY <1>1, <1>2, <1>3, CreatorFacts, OwnStep

LEMMA OpenKeeps ==
    ASSUME MInv, NEW c \in Creators, Open(c)
    PROVE  MInv'
<1> DEFINE old == creator[c]
           me == [old EXCEPT !.pc = "write"]
<1>1. old.pc = "open" /\ ~There(Path(c)) /\ creator' = [creator EXCEPT ![c] = me] /\ excused' = excused
  BY DEF Open, Opens
<1>2. /\ old \in CreatorType /\ CreatorShape(old) /\ CreatorDisk(old, disk, excused)
      /\ disk \in [Paths -> Contents] /\ excused \subseteq (1..MaxVersion) \X NewNames
      /\ old.half \in Halves /\ "up" \in Halves /\ "down" \in Halves
  BY CreatorFacts DEF CreatorType, Halves
<1>3. /\ me.pc = "write" /\ me.name = old.name /\ me.version = old.version
      /\ me.half = old.half /\ me.floor = old.floor /\ me \in CreatorType
  BY <1>2 DEF CreatorType, Creating
<1>4. Path(c) = Script(old.version, old.name, old.half) /\ Path(c) \in Paths
  BY <1>1, <1>2, OwnPath DEF Path
<1>5. disk' = [disk EXCEPT ![Path(c)] = "partial"]
  BY DEF Open, Put
<1>6. Writes(c)
  BY <1>1, <1>2 DEF Writes, Mine, Halves
<1>7. disk' \in [Paths -> Contents]
  BY <1>2, <1>5 DEF Contents
<1>8. \A u, m, half : <<u, m, half>> # Path(c) /\ <<u, m, half>> \in Paths =>
          disk'[<<u, m, half>>] = disk[<<u, m, half>>]
  BY <1>2, <1>5
<1>9. disk'[Path(c)] = "partial"
  BY <1>2, <1>4, <1>5
<1> HIDE DEF me
<1>10. CreatorShape(me) /\ Mine(me) /\ SameScripts(me, old)
  BY <1>1, <1>2, <1>3 DEF CreatorShape, Mine, SameScripts
<1>11. CreatorDisk(me, disk', excused')
  <2>1. At(disk', me, me.half) = "partial"
    BY <1>3, <1>4, <1>9 DEF At
  <2>2. me.half = "down" => At(disk', me, "up") = "template"
    <3>1. ASSUME me.half = "down" PROVE At(disk', me, "up") = At(disk, old, "up")
      BY <1>1, <1>2, <1>3, <1>4, <1>8, <3>1, OwnPath DEF At, Script
    <3> QED
      BY <1>1, <1>2, <1>3, <3>1 DEF CreatorDisk, Mine
  <2>3. ASSUME me.half = "up"
        PROVE  \/ At(disk', me, "down") = "none"
               \/ At(disk', me, "down") = "partial" /\ <<me.version, me.name>> \in excused'
    <3>1. At(disk', me, "down") = At(disk, old, "down")
      BY <1>1, <1>2, <1>3, <1>4, <1>8, <2>3, OwnPath DEF At, Script
    <3>2. At(disk, old, "up") = "none"
      BY <1>1, <1>3, <1>4, <2>3 DEF There, At
    <3>3. \A b \in Creators : ~(Mine(creator[b]) /\ SameScripts(creator[b], old))
      BY <1>1, <1>3, <1>6, <2>3, OwnScripts DEF Mine
    <3>4. old.version \in 1..MaxVersion /\ old.name \in NewNames
      BY <1>1, <1>2, OwnPath
    <3>5. Paired(disk, old.version, old.name) \/ <<old.version, old.name>> \in excused
      BY <3>3, <3>4 DEF MInv, CreatorsGood, PairsOwned, SameScripts
    <3>6. At(disk, old, "down") \in {"none", "partial"}
      BY <3>2, <3>4 DEF MInv, CreatorsGood, UpFirst, At
    <3> QED
      BY <1>1, <1>3, <3>1, <3>2, <3>5, <3>6 DEF Paired, At
  <2> QED
    BY <1>3, <2>1, <2>2, <2>3 DEF CreatorDisk, Mine
<1>12. \A u \in 1..MaxVersion, m \in Names, half \in Halves :
          \/ disk'[Script(u, m, half)] = disk[Script(u, m, half)]
          \/ Writes(c) /\ u = old.version /\ m = old.name
  <2> SUFFICES ASSUME NEW u \in 1..MaxVersion, NEW m \in Names, NEW half \in Halves,
                      ~(u = old.version /\ m = old.name)
               PROVE  disk'[Script(u, m, half)] = disk[Script(u, m, half)]
    BY <1>6
  <2>1. <<u, m, half>> # Path(c) /\ <<u, m, half>> \in Paths
    BY <1>4 DEF Script, Paths, Scripts
  <2> QED
    BY <1>8, <2>1 DEF Script
<1>13. \/ At(disk', old, "down") \in {"none", "partial"}
       \/ At(disk', old, "up") = "template"
  BY <1>2, <1>3, <1>10, <1>11 DEF CreatorDisk, At, Halves
<1> QED
  BY <1>1, <1>2, <1>6, <1>7, <1>10, <1>11, <1>12, <1>13, OwnStep

\* What an owner finds.
LEMMA OwnerFacts ==
    ASSUME MInv, NEW c \in Creators, Mine(creator[c])
    PROVE  /\ Writes(c)
           /\ creator[c].pc \in {"open", "write"} /\ creator[c].half \in Halves
           /\ creator[c].version \in 1..MaxVersion /\ creator[c].name \in NewNames
           /\ creator[c].name \in Names
           /\ At(disk, creator[c], "down") \in {"none", "partial"}
           /\ creator[c].half = "down" => At(disk, creator[c], "up") = "template"
           /\ creator[c].half = "up" => creator[c].pc = "write" /\ At(disk, creator[c], "up") = "partial"
           /\ \/ At(disk, creator[c], "down") = "none"
              \/ <<creator[c].version, creator[c].name>> \in excused
              \/ creator[c].pc = "write" /\ creator[c].half = "down"
<1>1. creator[c].pc \in {"open", "write"} /\ creator[c].half \in Halves
  BY CreatorFacts DEF Mine, CreatorType
<1>2. Writes(c)
  BY DEF Writes
<1>3. /\ creator[c].version \in 1..MaxVersion /\ creator[c].name \in NewNames
      /\ creator[c].name \in Names
  BY <1>1, CreatorFacts, OwnPath
<1> QED
  BY <1>1, <1>2, <1>3, CreatorFacts DEF CreatorDisk, Mine, Halves

LEMMA WrittenKeeps ==
    ASSUME MInv, NEW c \in Creators, Written(c)
    PROVE  MInv'
<1> DEFINE old == creator[c]
           me == IF old.half = "up" THEN [old EXCEPT !.pc = "open", !.half = "down"]
                 ELSE [old EXCEPT !.pc = "ok"]
<1>1. /\ old.pc = "write" /\ Mine(old)
      /\ creator' = [creator EXCEPT ![c] = me] /\ excused' = excused
  BY DEF Written, Mine
<1>2. /\ old \in CreatorType /\ CreatorShape(old) /\ CreatorDisk(old, disk, excused)
      /\ disk \in [Paths -> Contents] /\ excused \subseteq (1..MaxVersion) \X NewNames
      /\ old.half \in Halves /\ "up" \in Halves /\ "down" \in Halves
  BY CreatorFacts DEF CreatorType, Halves
<1>3. /\ me.pc = (IF old.half = "up" THEN "open" ELSE "ok") /\ me.half = "down"
      /\ me.name = old.name /\ me.version = old.version
      /\ me.floor = old.floor /\ me \in CreatorType
  BY <1>2 DEF CreatorType, Creating, Halves
<1>4. \A half \in Halves : Script(old.version, old.name, half) \in Paths
  BY <1>1, <1>2, OwnPath
<1>5. disk' = [disk EXCEPT ![Script(old.version, old.name, old.half)] = "template"]
  BY DEF Written, Put, Path
<1>6. disk' \in [Paths -> Contents]
  BY <1>2, <1>5 DEF Contents
<1> HIDE DEF me
<1>7. CreatorShape(me) /\ SameScripts(me, old) /\ (Mine(me) => Writes(c))
  BY <1>1, <1>2, <1>3, OwnerFacts DEF CreatorShape, SameScripts
<1>8. /\ At(disk', old, old.half) = "template"
      /\ old.half = "up" => At(disk', old, "down") = At(disk, old, "down")
      /\ old.half = "down" => At(disk', old, "up") = At(disk, old, "up")
  BY <1>2, <1>4, <1>5 DEF At, Script
<1>9. CreatorDisk(me, disk', excused')
  BY <1>1, <1>3, <1>8, OwnerFacts DEF CreatorDisk, Mine, At, Halves
<1>10. \A u \in 1..MaxVersion, m \in Names, half \in Halves :
          \/ disk'[Script(u, m, half)] = disk[Script(u, m, half)]
          \/ Writes(c) /\ u = old.version /\ m = old.name
  BY <1>1, <1>2, <1>5, OwnerFacts DEF Script, Paths, Scripts
<1>11. At(disk', old, "up") = "template"
  BY <1>1, <1>2, <1>8, OwnerFacts DEF Halves
<1>12. Paired(disk', old.version, old.name) \/ Mine(me)
  BY <1>2, <1>3, <1>8, <1>11 DEF Paired, Mine, At, Halves
<1> QED
  BY <1>1, <1>2, <1>6, <1>7, <1>9, <1>10, <1>11, <1>12, OwnStep

\* A creator gives up, or dies, when scripts of its own may be there.
LEMMA EndKeeps ==
    ASSUME MInv, NEW c \in Creators, Mine(creator[c]),
           NEW lost, lost \subseteq {UpPath(c), Path(c)},
           disk' = [p \in Paths |-> IF p \in lost THEN "none" ELSE disk[p]],
           creator' = [creator EXCEPT ![c] = CRest("err")],
           \/ excused' = excused \cup LeftHalf(c)
           \/ excused' = excused /\ lost = Created(c) \cup
                 (IF creator[c].pc = "write" THEN {Path(c)} ELSE {})
    PROVE  MInv'
<1> DEFINE old == creator[c]
<1>1. /\ old \in CreatorType /\ CreatorShape(old) /\ CreatorDisk(old, disk, excused)
      /\ disk \in [Paths -> Contents] /\ excused \subseteq (1..MaxVersion) \X NewNames
      /\ old.half \in Halves /\ "up" \in Halves /\ "down" \in Halves
  BY CreatorFacts DEF CreatorType, Halves
<1>2. \A half \in Halves : Script(old.version, old.name, half) \in Paths
  BY <1>1, OwnerFacts, OwnPath
<1>3. disk' \in [Paths -> Contents]
  BY <1>1 DEF Contents
<1>4. LeftHalf(c) \subseteq {<<old.version, old.name>>}
  BY DEF LeftHalf
<1>5. excused \subseteq excused' /\ excused' \subseteq (1..MaxVersion) \X NewNames
  BY <1>1, <1>4, OwnerFacts
<1>6. \A u \in 1..MaxVersion, m \in Names, half \in Halves :
          \/ disk'[Script(u, m, half)] = disk[Script(u, m, half)]
          \/ Writes(c) /\ u = old.version /\ m = old.name
  BY <1>1, OwnerFacts DEF Script, Paths, Scripts, UpPath, Path
<1>7. \A half \in Halves :
          At(disk', old, half) = IF Script(old.version, old.name, half) \in lost
                                 THEN "none" ELSE At(disk, old, half)
  BY <1>2 DEF At
<1>8. At(disk', old, "down") \in {"none", "partial"}
  BY <1>1, <1>7, OwnerFacts
<1>9. Paired(disk', old.version, old.name) \/ <<old.version, old.name>> \in excused'
  <2>1. CASE excused' = excused \cup LeftHalf(c)
    BY <2>1, OwnerFacts DEF LeftHalf, Paired
  <2>2. CASE excused' = excused /\ lost = Created(c) \cup
                 (IF creator[c].pc = "write" THEN {Path(c)} ELSE {})
    <3>1. At(disk', old, "up") = "none"
      BY <1>1, <1>7, <2>2, OwnerFacts DEF Created, UpPath, Path, Halves
    <3>2. At(disk', old, "down") = "none" \/ <<old.version, old.name>> \in excused'
      BY <1>1, <1>7, <2>2, OwnerFacts DEF Created, UpPath, Path, Halves
    <3> QED
      BY <3>1, <3>2 DEF Paired, At
  <2> QED
    BY <2>1, <2>2
<1> QED
  BY <1>3, <1>5, <1>6, <1>8, <1>9, RestShape, RestDisk, OwnStep

\* ... or when none is.
LEMMA QuietEndKeeps ==
    ASSUME MInv, NEW c \in Creators, ~Mine(creator[c]), disk' = disk,
           creator' = [creator EXCEPT ![c] = CRest("err")],
           creator[c].pc \in Creating,
           excused' = excused \/ excused' = excused \cup LeftHalf(c)
    PROVE  MInv'
<1>1. LeftHalf(c) \subseteq (1..MaxVersion) \X NewNames
  <2>1. creator[c].name \in NewNames
    BY CreatorFacts DEF CreatorShape, Creating
  <2>2. creator[c].version # 0 => creator[c].version \in 1..MaxVersion
    BY CreatorFacts, DiskConstants DEF CreatorType
  <2> QED
    BY <2>1, <2>2 DEF LeftHalf
<1> QED
  BY <1>1, CreatorFacts, RestShape, RestDisk, OwnStep

LEMMA FailKeeps ==
    ASSUME MInv, NEW c \in Creators, OpenFails(c) \/ WriteFails(c) \/ KillCreator(c)
    PROVE  MInv'
<1>1. disk \in [Paths -> Contents] /\ creator[c].half \in Halves
  BY CreatorFacts DEF CreatorType
<1>2. creator[c].pc \in Creating /\ creator' = [creator EXCEPT ![c] = CRest("err")]
  BY DEF OpenFails, WriteFails, KillCreator, GiveUp, Creating
<1>3. CASE OpenFails(c)
  <2>1. PICK lost \in SUBSET Created(c) :
          /\ disk' = [p \in Paths |-> IF p \in lost THEN "none" ELSE disk[p]]
          /\ excused' = IF lost = Created(c) THEN excused ELSE excused \cup LeftHalf(c)
    BY <1>3 DEF OpenFails, GiveUp
  <2>2. CASE creator[c].half = "up"
    <3>1. disk' = disk
      BY <1>1, <2>1, <2>2 DEF Created
    <3>2. ~Mine(creator[c])
      BY <1>3, <2>2 DEF OpenFails, Mine
    <3> QED
      BY <1>2, <2>1, <3>1, <3>2, QuietEndKeeps
  <2>3. CASE creator[c].half = "down"
    <3>1. Mine(creator[c]) /\ creator[c].pc # "write"
      BY <1>3, <2>3 DEF OpenFails, Mine
    <3>2. Created(c) \cup (IF creator[c].pc = "write" THEN {Path(c)} ELSE {}) = Created(c)
      BY <3>1
    <3>3. lost \subseteq {UpPath(c), Path(c)}
      BY DEF Created
    <3> QED
      BY <1>2, <2>1, <3>1, <3>2, <3>3, EndKeeps
  <2> QED
    BY <1>1, <2>2, <2>3 DEF Halves
<1>4. CASE WriteFails(c)
  <2>1. PICK lost \in SUBSET (Created(c) \cup {Path(c)}) :
          /\ disk' = [p \in Paths |-> IF p \in lost THEN "none" ELSE disk[p]]
          /\ excused' = IF lost = Created(c) \cup {Path(c)} THEN excused
                        ELSE excused \cup LeftHalf(c)
    BY <1>4 DEF WriteFails, GiveUp
  <2>2. Mine(creator[c]) /\ creator[c].pc = "write"
    BY <1>4 DEF WriteFails, Mine
  <2>3. Created(c) \subseteq {UpPath(c), Path(c)}
    BY DEF Created
  <2> QED
    BY <1>2, <2>1, <2>2, <2>3, EndKeeps
<1>5. CASE KillCreator(c)
  <2>1. disk' = disk /\ excused' = excused \cup LeftHalf(c)
    BY <1>5 DEF KillCreator
  <2> DEFINE lost == {}
  <2>2. /\ disk' = [p \in Paths |-> IF p \in lost THEN "none" ELSE disk[p]]
        /\ lost \subseteq {UpPath(c), Path(c)}
    BY <1>1, <2>1
  <2> HIDE DEF lost
  <2>3. CASE Mine(creator[c])
    BY <1>2, <2>1, <2>2, <2>3, EndKeeps
  <2>4. CASE ~Mine(creator[c])
    BY <1>2, <2>1, <2>4, QuietEndKeeps
  <2> QED
    BY <2>3, <2>4
<1> QED
  BY <1>3, <1>4, <1>5

-----------------------------------------------------------------------------
(* Steps of generators, as the creators see them.                          *)

\* The files of the skeleton, in any of its revisions.
SkeletonFiles == UNION {Files(r) : r \in Revisions}

\* They are written over, never removed.
LEMMA SkeletonStepKeeps ==
    ASSUME NewNamesApart, MInv, creator' = creator, excused' = excused,
           disk' \in [Paths -> Contents],
           \A p \in Paths \ SkeletonFiles : disk'[p] = disk[p],
           \A p \in Paths : disk[p] # "none" => disk'[p] # "none"
    PROVE  MInv'
<1>1. \A v \in 1..MaxVersion, m \in Names, half \in Halves : Script(v, m, half) \in Paths
  BY DEF Script, Paths, Scripts
<1>2. \A v \in 1..MaxVersion, n \in NewNames, half \in Halves :
          disk'[Script(v, n, half)] = disk[Script(v, n, half)]
  BY <1>1, CreatorConstants DEF NewNamesApart, SkeletonFiles
<1>3. \A v \in 1..MaxVersion : Kept(disk, v) => Kept(disk', v)
  BY <1>1, <1>2 DEF Kept, Whole, Halves
<1>4. ASSUME NEW c \in Creators PROVE CreatorDisk(creator'[c], disk', excused')
  <2>1. CreatorShape(creator[c]) /\ CreatorDisk(creator[c], disk, excused)
    BY DEF MInv, CreatorsGood
  <2>2. ASSUME Mine(creator[c]) \/ creator[c].pc = "ok", NEW half \in Halves
        PROVE  At(disk', creator[c], half) = At(disk, creator[c], half)
    <3>1. creator[c].version \in 1..MaxVersion /\ creator[c].name \in NewNames
      BY <2>1, <2>2, DiskConstants DEF CreatorShape, CreatorType, Mine
    <3> QED
      BY <1>2, <3>1 DEF At
  <2> QED
    BY <1>3, <2>1, <2>2, Undisturbed
<1>5. PairsOwned(creator', disk', excused') /\ UpFirst(disk')
  BY <1>2 DEF MInv, CreatorsGood, PairsOwned, UpFirst, Paired, Halves
<1> QED
  BY <1>4, <1>5 DEF MInv, CreatorsGood

-----------------------------------------------------------------------------
(* Generators.                                                             *)

Remainders(r) == {SubSeq(Tracked[r], i, Len(Tracked[r])) : i \in 1..Len(Tracked[r]) + 1}

GoodGenerator(me) ==
    /\ me \in GeneratorType
    /\ me.pc \in {"copy", "format"} => me.revision \in Revisions
    /\ me.pc = "copy" => me.todo \in Remainders(me.revision)

\* How far a generator that nobody overlaps has come.
Progress(me, d) ==
    /\ me.pc = "clone" => \A p \in SkeletonFiles : d[p] = "none"
    /\ me.pc \in {"copy", "format"} =>
          \A p \in SkeletonFiles :
              IF p \in Files(me.revision)
              THEN d[p] = me.revision \/ (me.pc = "copy" /\ \E k \in DOMAIN me.todo : me.todo[k] = p)
              ELSE d[p] = "none"

\* The part of the inductive invariant about generators.
GeneratorsGood ==
    /\ generator \in [Generators -> GeneratorType]
    /\ checkouts \subseteq Generators /\ alone \subseteq Generators
    /\ \A g \in Generators : GoodGenerator(generator[g])
    /\ CheckoutRemoved

Undisputed ==
    /\ \A g \in alone, h \in Generators : Running(g) /\ (Running(h) => h = g)
    /\ \A g \in alone : Progress(generator[g], disk)

LEMMA GeneratorTyped ==
    ASSUME NEW pc \in Generating \cup {"ok", "err"}, NEW revision \in Revisions \cup {"none"},
           NEW todo, todo = <<>> \/ \E r \in Revisions : todo \in Remainders(r)
    PROVE  [pc |-> pc, revision |-> revision, todo |-> todo] \in GeneratorType
<1> DEFINE todos == (UNION {Remainders(r) : r \in Revisions}) \cup {<<>>}
<1>1. GeneratorType = [pc : Generating \cup {"ok", "err"}, revision : Revisions \cup {"none"}, todo : todos]
  BY Zenon DEF GeneratorType, Remainders
<1>2. todo \in todos
  BY Zenon
<1> HIDE DEF todos
<1> QED
  BY <1>1, <1>2

LEMMA GeneratorFields ==
    ASSUME NEW me \in GeneratorType, NEW todo
    PROVE  /\ me = [pc |-> me.pc, revision |-> me.revision, todo |-> me.todo]
           /\ [me EXCEPT !.todo = todo] = [pc |-> me.pc, revision |-> me.revision, todo |-> todo]
<1> DEFINE todos == (UNION {{SubSeq(Tracked[r], i, Len(Tracked[r])) :
                               i \in 1..Len(Tracked[r]) + 1} : r \in Revisions}) \cup {<<>>}
<1>1. me \in [pc : Generating \cup {"ok", "err"}, revision : Revisions \cup {"none"}, todo : todos]
  BY Zenon DEF GeneratorType
<1> HIDE DEF todos
<1> QED
  BY <1>1

LEMMA RestGood == \A result \in {"clone", "err", "ok"} : GoodGenerator(GRest(result))
BY GeneratorTyped DEF GoodGenerator, GRest, Generating

LEMMA TrackedSequence ==
    ASSUME NEW r \in Revisions
    PROVE  /\ Tracked[r] \in Seq(Paths) /\ Len(Tracked[r]) \in Nat
           /\ DOMAIN Tracked[r] = 1..Len(Tracked[r])
           /\ Tracked[r] \in Remainders(r)
           /\ Files(r) \subseteq SkeletonFiles /\ Files(r) \subseteq Paths
<1>1. Tracked[r] \in Seq(Paths)
  BY DiskConstants
<1>2. Len(Tracked[r]) \in Nat /\ DOMAIN Tracked[r] = 1..Len(Tracked[r])
  BY <1>1, LenProperties
<1>3. SubSeq(Tracked[r], 1, Len(Tracked[r])) = Tracked[r]
  BY <1>1, SubSeqFull
<1>4. 1 \in 1..Len(Tracked[r]) + 1
  BY <1>2
<1>5. \A i \in 1..Len(Tracked[r]) : Tracked[r][i] \in Paths
  BY <1>1, ElementOfSeq
<1> QED
  BY <1>1, <1>2, <1>3, <1>4, <1>5 DEF Remainders, Files, SkeletonFiles

LEMMA NextFile ==
    ASSUME NEW r \in Revisions, NEW todo \in Remainders(r), todo # <<>>
    PROVE  /\ Head(todo) \in Files(r)
           /\ Tail(todo) \in Remainders(r)
           /\ \A k \in DOMAIN todo :
                 todo[k] = Head(todo) \/ \E j \in DOMAIN Tail(todo) : Tail(todo)[j] = todo[k]
<1> DEFINE s == Tracked[r]
           n == Len(s)
<1>1. s \in Seq(Paths) /\ n \in Nat /\ DOMAIN s = 1..n
  BY TrackedSequence
<1>2. PICK i \in 1..n + 1 : todo = SubSeq(s, i, n)
  BY DEF Remainders
<1>3. i \in 1..n
  <2>1. i # n + 1
    BY <1>1, <1>2, SubSeqEmpty
  <2> QED
    BY <1>1, <1>2, <2>1
<1>4. Head(todo) = s[i] /\ Tail(todo) = SubSeq(s, i + 1, n)
  BY <1>1, <1>2, <1>3, HeadTailOfSubSeq
<1>5. todo \in Seq(Paths)
  <2>1. \A k \in i..n : s[k] \in Paths
    BY <1>1, <1>3, ElementOfSeq
  <2> QED
    BY <1>1, <1>2, <1>3, <2>1, SubSeqProperties
<1>6. /\ Tail(todo) \in Seq(Paths) /\ Len(Tail(todo)) = Len(todo) - 1
      /\ \A k \in 1..Len(Tail(todo)) : Tail(todo)[k] = todo[k + 1]
  BY <1>5, HeadTailProperties
<1>7. /\ DOMAIN todo = 1..Len(todo) /\ DOMAIN Tail(todo) = 1..Len(Tail(todo))
      /\ Len(todo) \in Nat
  BY <1>5, <1>6, LenProperties
<1>8. Head(todo) = todo[1]
  BY <1>5
<1>9. ASSUME NEW k \in DOMAIN todo, k # 1
      PROVE  \E j \in DOMAIN Tail(todo) : Tail(todo)[j] = todo[k]
  <2>1. k - 1 \in DOMAIN Tail(todo)
    BY <1>6, <1>7, <1>9
  <2>2. Tail(todo)[k - 1] = todo[(k - 1) + 1]
    BY <1>6, <1>7, <2>1
  <2>3. (k - 1) + 1 = k
    BY <1>7
  <2> QED
    BY <2>1, <2>2, <2>3
<1>10. i + 1 \in 1..n + 1
  BY <1>1, <1>3
<1> QED
  BY <1>1, <1>3, <1>4, <1>8, <1>9, <1>10 DEF Files, Remainders

\* A step of g.
LEMMA GeneratorStep ==
    ASSUME GeneratorsGood, NEW g \in Generators, NEW me,
           generator' = [generator EXCEPT ![g] = me],
           GoodGenerator(me),
           checkouts' \subseteq checkouts \cup {g},
           g \in checkouts' => me.pc \in {"clone", "copy"},
           \/ Running(g) /\ me.pc \in Generating /\ alone' = alone
           \/ me.pc \notin Generating /\ alone' = alone \ {g}
           \/ ~Running(g) /\ me.pc \notin Generating /\ alone' = alone
           \/ alone' = {}
           \/ alone' = {g} /\ me.pc \in Generating /\ \A h \in Generators : ~Running(h),
           Running(g) \/ disk' = disk,
           Undisputed /\ g \in alone' => Progress(me, disk')
    PROVE  GeneratorsGood' /\ (Undisputed => Undisputed')
<1> USE DEF GeneratorsGood
<1>1. generator'[g] = me /\ \A h \in Generators \ {g} : generator'[h] = generator[h]
  OBVIOUS
<1>2. generator' \in [Generators -> GeneratorType]
  BY DEF GoodGenerator
<1>3. \A h \in Generators : GoodGenerator(generator'[h])
  BY <1>1
<1>4. checkouts' \subseteq Generators /\ CheckoutRemoved'
  BY <1>1 DEF CheckoutRemoved
<1>5. alone' \subseteq Generators
  OBVIOUS
<1>6. ASSUME Undisputed, NEW a \in alone'
      PROVE  Progress(generator'[a], disk') /\ \A h \in Generators : Running(a)' /\ (Running(h)' => h = a)
  <2>1. ASSUME NEW h \in Generators PROVE Running(a)' /\ (Running(h)' => h = a)
    BY <1>1, <1>5, <1>6 DEF Undisputed, Running
  <2>2. CASE a = g
    BY <1>1, <1>6, <2>1, <2>2
  <2>3. CASE a # g
    <3>1. a \in alone /\ a \in Generators
      BY <2>3
    <3>2. ~Running(g)
      BY <1>6, <2>3, <3>1 DEF Undisputed
    <3> QED
      BY <1>1, <1>6, <2>1, <2>3, <3>1, <3>2 DEF Undisputed
  <2> QED
    BY <2>2, <2>3
<1> QED
  BY <1>1, <1>2, <1>3, <1>4, <1>5, <1>6 DEF Undisputed

\* What a file that is written does to the disk.
LEMMA PutFile ==
    ASSUME disk \in [Paths -> Contents], NEW r \in Revisions, NEW p \in Files(r),
           NEW content \in Contents, Put(p, content), content = "none" => disk[p] = "none"
    PROVE  /\ disk' \in [Paths -> Contents]
           /\ disk'[p] = content /\ \A q \in Paths \ {p} : disk'[q] = disk[q]
           /\ \A q \in Paths \ SkeletonFiles : disk'[q] = disk[q]
           /\ \A q \in Paths : disk[q] # "none" => disk'[q] # "none"
BY TrackedSequence DEF Put

LEMMA StartGenerateKeeps ==
    ASSUME GeneratorsGood, NEW g \in Generators, StartGenerate(g)
    PROVE  GeneratorsGood' /\ (Undisputed => Undisputed') /\ disk' = disk
<1>1. ~Running(g) /\ disk' = disk
  BY DEF StartGenerate
<1>2. g \notin checkouts /\ (Undisputed => g \notin alone)
  BY <1>1 DEF GeneratorsGood, CheckoutRemoved, Undisputed, Running, Generating
<1>3. CASE /\ generator' = [generator EXCEPT ![g] = GRest("err")]
           /\ UNCHANGED <<checkouts, alone>>
  <2>1. GRest("err").pc \notin Generating
    BY DEF GRest, Generating
  <2> QED
    BY <1>1, <1>2, <1>3, <2>1, RestGood, GeneratorStep
<1>4. CASE /\ EmptyTarget
           /\ generator' = [generator EXCEPT ![g] = GRest("clone")]
           /\ checkouts' = checkouts \cup {g}
           /\ alone' = IF \E h \in Generators : Running(h) THEN {} ELSE {g}
  <2>1. GRest("clone").pc = "clone" /\ GRest("clone").pc \in Generating
    BY DEF GRest, Generating
  <2>2. \A p \in SkeletonFiles : disk[p] = "none"
    BY <1>4, TrackedSequence DEF EmptyTarget, There, SkeletonFiles
  <2>3. Progress(GRest("clone"), disk')
    BY <1>1, <2>1, <2>2 DEF Progress
  <2> QED
    BY <1>1, <1>4, <2>1, <2>3, RestGood, GeneratorStep
<1> QED
  BY <1>1, <1>3, <1>4 DEF StartGenerate

LEMMA FetchedKeeps ==
    ASSUME GeneratorsGood, NEW g \in Generators, NEW r \in Revisions, Fetched(g, r)
    PROVE  GeneratorsGood' /\ (Undisputed => Undisputed') /\ disk' = disk
<1> DEFINE me == [pc |-> "copy", revision |-> r, todo |-> Tracked[r]]
<1>1. /\ generator[g].pc = "clone" /\ disk' = disk /\ checkouts' = checkouts /\ alone' = alone
      /\ generator' = [generator EXCEPT ![g] = me]
  BY DEF Fetched
<1>2. GoodGenerator(me)
  BY TrackedSequence, GeneratorTyped DEF GoodGenerator, Generating
<1>3. Running(g) /\ me.pc = "copy" /\ me.pc \in Generating
  BY <1>1 DEF Running, Generating
<1>4. Undisputed /\ g \in alone => Progress(me, disk')
  <2> SUFFICES ASSUME Undisputed, g \in alone, NEW p \in SkeletonFiles, p \in Files(r)
               PROVE  \E k \in DOMAIN Tracked[r] : Tracked[r][k] = p
    BY <1>1 DEF Undisputed, Progress
  <2> QED
    BY DEF Files
<1> HIDE DEF me
<1> QED
  BY <1>1, <1>2, <1>3, <1>4, GeneratorStep

\* A generator ends, at whatever step.
LEMMA GeneratorEnds ==
    ASSUME GeneratorsGood, NEW g \in Generators, NEW result \in {"ok", "err"},
           Ends(g, result), checkouts' \subseteq checkouts \ {g},
           Running(g)
    PROVE  GeneratorsGood' /\ (Undisputed => Undisputed')
<1>1. GRest(result).pc \notin Generating
  BY DEF GRest, Generating
<1>2. g \notin alone' /\ alone' = alone \ {g} /\ generator' = [generator EXCEPT ![g] = GRest(result)]
  BY DEF Ends
<1> QED
  BY <1>1, <1>2, RestGood, GeneratorStep

LEMMA CopyFileKeeps ==
    ASSUME GeneratorsGood, disk \in [Paths -> Contents], NEW g \in Generators, CopyFile(g)
    PROVE  /\ GeneratorsGood' /\ (Undisputed => Undisputed')
           /\ disk' \in [Paths -> Contents]
           /\ \A q \in Paths \ SkeletonFiles : disk'[q] = disk[q]
           /\ \A q \in Paths : disk[q] # "none" => disk'[q] # "none"
<1> DEFINE old == generator[g]
           r == old.revision
           p == Head(old.todo)
           me == [old EXCEPT !.todo = Tail(@)]
<1>1. /\ old.pc = "copy" /\ old.todo # <<>> /\ Put(p, r)
      /\ checkouts' = checkouts /\ alone' = alone
      /\ generator' = [generator EXCEPT ![g] = me]
  BY DEF CopyFile
<1>2. old \in GeneratorType /\ r \in Revisions /\ old.todo \in Remainders(r)
  BY <1>1 DEF GeneratorsGood, GoodGenerator
<1>3. /\ p \in Files(r) /\ Tail(old.todo) \in Remainders(r)
      /\ \A k \in DOMAIN old.todo :
            old.todo[k] = p \/ \E j \in DOMAIN Tail(old.todo) : Tail(old.todo)[j] = old.todo[k]
  BY <1>1, <1>2, NextFile
<1>4. r \in Contents /\ r # "none"
  BY <1>2, DiskConstants DEF Contents
<1>5. /\ disk' \in [Paths -> Contents]
      /\ disk'[p] = r /\ \A q \in Paths \ {p} : disk'[q] = disk[q]
      /\ \A q \in Paths \ SkeletonFiles : disk'[q] = disk[q]
      /\ \A q \in Paths : disk[q] # "none" => disk'[q] # "none"
  BY <1>1, <1>2, <1>3, <1>4, PutFile
<1>6. me = [pc |-> "copy", revision |-> r, todo |-> Tail(old.todo)]
  BY <1>1, <1>2, GeneratorFields
<1>7. me.pc = "copy" /\ me.revision = r /\ me.todo = Tail(old.todo)
  BY <1>6
<1> HIDE DEF me
<1>8. GoodGenerator(me)
  <2>1. me \in GeneratorType
    BY <1>2, <1>3, <1>6, GeneratorTyped DEF Generating
  <2> QED
    BY <1>2, <1>3, <1>7, <2>1 DEF GoodGenerator
<1>9. Running(g) /\ me.pc \in Generating
  BY <1>1, <1>7 DEF Running, Generating
<1> HIDE DEF p, r
<1>10. Undisputed /\ g \in alone => Progress(me, disk')
  <2> SUFFICES ASSUME Undisputed, g \in alone, NEW q \in SkeletonFiles
               PROVE  IF q \in Files(r)
                      THEN disk'[q] = r \/ \E k \in DOMAIN me.todo : me.todo[k] = q
                      ELSE disk'[q] = "none"
    BY <1>7 DEF Progress
  <2>1. IF q \in Files(r)
        THEN disk[q] = r \/ \E k \in DOMAIN old.todo : old.todo[k] = q
        ELSE disk[q] = "none"
    BY <1>1 DEF Undisputed, Progress, r
  <2>2. q \in Paths
    BY TrackedSequence DEF SkeletonFiles
  <2> QED
    BY <1>3, <1>5, <1>7, <2>1, <2>2
<1> QED
  BY <1>1, <1>5, <1>7, <1>8, <1>9, <1>10, GeneratorStep

LEMMA CopyFailsKeeps ==
    ASSUME GeneratorsGood, disk \in [Paths -> Contents], NEW g \in Generators, CopyFails(g)
    PROVE  /\ GeneratorsGood' /\ (Undisputed => Undisputed')
           /\ disk' \in [Paths -> Contents]
           /\ \A q \in Paths \ SkeletonFiles : disk'[q] = disk[q]
           /\ \A q \in Paths : disk[q] # "none" => disk'[q] # "none"
<1> DEFINE old == generator[g]
           p == Head(old.todo)
<1>1. old.pc = "copy" /\ old.todo # <<>> /\ Ends(g, "err") /\ checkouts' = checkouts \ {g}
  BY DEF CopyFails, Fails, DropCheckout
<1>2. PICK content \in {disk[p], "partial", old.revision} : Put(p, content)
  BY DEF CopyFails
<1>3. old.revision \in Revisions /\ old.todo \in Remainders(old.revision)
  BY <1>1 DEF GeneratorsGood, GoodGenerator
<1>4. p \in Files(old.revision) /\ p \in Paths
  BY <1>1, <1>3, NextFile, TrackedSequence
<1>5. content \in Contents /\ (content = "none" => disk[p] = "none")
  BY <1>3, <1>4, DiskConstants DEF Contents
<1>6. Running(g)
  BY <1>1 DEF Running, Generating
<1>7. GeneratorsGood' /\ (Undisputed => Undisputed')
  BY <1>1, <1>6, GeneratorEnds DEF GeneratorsGood
<1> HIDE DEF p, old
<1> QED
  BY <1>2, <1>3, <1>4, <1>5, <1>7, PutFile

LEMMA CopiedKeeps ==
    ASSUME GeneratorsGood, NEW g \in Generators, Copied(g)
    PROVE  GeneratorsGood' /\ (Undisputed => Undisputed') /\ disk' = disk
<1> DEFINE old == generator[g]
           me == [old EXCEPT !.pc = "format"]
<1>1. old.pc = "copy" /\ old.todo = <<>> /\ disk' = disk /\ checkouts' = checkouts \ {g}
  BY DEF Copied, Fails, DropCheckout
<1>2. Running(g)
  BY <1>1 DEF Running, Generating
<1>3. CASE Tracked[old.revision] = <<>>
  BY <1>1, <1>2, <1>3, GeneratorEnds DEF Copied, Fails
<1>4. CASE Tracked[old.revision] # <<>>
  <2>1. generator' = [generator EXCEPT ![g] = me] /\ alone' = alone
    BY <1>4 DEF Copied
  <2>2. old \in GeneratorType /\ old.revision \in Revisions
    BY <1>1 DEF GeneratorsGood, GoodGenerator
  <2>3. me = [pc |-> "format", revision |-> old.revision, todo |-> old.todo]
    <3>1. old = [pc |-> old.pc, revision |-> old.revision, todo |-> old.todo]
      BY <2>2, GeneratorFields
    <3> QED
      BY <3>1
  <2>4. me.pc = "format" /\ me.revision = old.revision /\ me.todo = <<>> /\ me.pc \in Generating
    BY <1>1, <2>3 DEF Generating
  <2> HIDE DEF me
  <2>5. GoodGenerator(me)
    <3>1. me \in GeneratorType
      BY <1>1, <2>2, <2>3, GeneratorTyped DEF Generating
    <3> QED
      BY <2>2, <2>4, <3>1 DEF GoodGenerator
  <2>6. Undisputed /\ g \in alone => Progress(me, disk')
    <3> SUFFICES ASSUME Undisputed, g \in alone, NEW p \in SkeletonFiles
                 PROVE  IF p \in Files(old.revision) THEN disk[p] = old.revision ELSE disk[p] = "none"
      BY <1>1, <2>4 DEF Progress
    <3>1. DOMAIN old.todo = {}
      BY <1>1
    <3> QED
      BY <1>1, <3>1 DEF Undisputed, Progress
  <2> QED
    BY <1>1, <1>2, <2>1, <2>4, <2>5, <2>6, GeneratorStep
<1> QED
  BY <1>3, <1>4

LEMMA GeneratorEndKeeps ==
    ASSUME GeneratorsGood, NEW g \in Generators,
           FetchFails(g) \/ Format(g) \/ KillGenerator(g)
    PROVE  GeneratorsGood' /\ (Undisputed => Undisputed') /\ disk' = disk
<1>1. Running(g) /\ disk' = disk
  BY DEF FetchFails, Format, KillGenerator, Running, Generating
<1>2. CASE FetchFails(g) \/ KillGenerator(g)
  BY <1>1, <1>2, GeneratorEnds DEF FetchFails, KillGenerator, Fails, DropCheckout
<1>3. CASE Format(g)
  <2>1. PICK result \in {"ok", "err"} : Ends(g, result)
    BY <1>3 DEF Format
  <2>2. checkouts' = checkouts /\ g \notin checkouts
    BY <1>3 DEF Format, GeneratorsGood, CheckoutRemoved
  <2> QED
    BY <1>1, <2>1, <2>2, GeneratorEnds
<1> QED
  BY <1>2, <1>3

LEMMA GeneratorsStep ==
    ASSUME GeneratorsGood, disk \in [Paths -> Contents], SNext
    PROVE  /\ GeneratorsGood' /\ (Undisputed => Undisputed')
           /\ disk' \in [Paths -> Contents]
           /\ \A q \in Paths \ SkeletonFiles : disk'[q] = disk[q]
           /\ \A q \in Paths : disk[q] # "none" => disk'[q] # "none"
BY StartGenerateKeeps, FetchedKeeps, CopyFileKeeps, CopyFailsKeeps, CopiedKeeps,
   GeneratorEndKeeps DEF SNext

-----------------------------------------------------------------------------
(* Steps of creators, as the generators see them.                          *)

\* The skeleton's files are not theirs.
LEMMA CreatorsSpareSkeleton ==
    ASSUME NewNamesApart, MInv, MNext
    PROVE  \A p \in SkeletonFiles : disk'[p] = disk[p]
<1>1. SkeletonFiles \subseteq Paths
  BY TrackedSequence DEF SkeletonFiles
<1>2. ASSUME NEW c \in Creators, creator[c].pc \in {"open", "write"}
      PROVE  Path(c) \notin SkeletonFiles /\ UpPath(c) \notin SkeletonFiles
  <2>1. creator[c].half \in Halves /\ "up" \in Halves
    BY CreatorFacts DEF CreatorType, Halves
  <2>2. creator[c].version \in 1..MaxVersion /\ creator[c].name \in NewNames
    BY <1>2, <2>1, CreatorFacts, OwnPath
  <2> QED
    BY <2>1, <2>2 DEF NewNamesApart, SkeletonFiles, Path, UpPath
<1>3. PICK c \in Creators :
        \/ \E name \in NewNames \cup {"none"} : StartCreate(c, name)
        \/ \E now \in Clock : Scan(c, now)
        \/ Open(c) \/ OpenFails(c) \/ Written(c) \/ WriteFails(c) \/ KillCreator(c)
  BY DEF MNext
<1>4. CASE (\E name \in NewNames \cup {"none"} : StartCreate(c, name))
           \/ (\E now \in Clock : Scan(c, now)) \/ KillCreator(c)
  BY <1>4 DEF StartCreate, Scan, KillCreator
<1>5. CASE Open(c) \/ Written(c)
  BY <1>1, <1>2, <1>5, CreatorFacts DEF Open, Written, Put
<1>6. CASE OpenFails(c) \/ WriteFails(c)
  <2>1. PICK lost \in SUBSET {UpPath(c), Path(c)} :
          disk' = [p \in Paths |-> IF p \in lost THEN "none" ELSE disk[p]]
    BY <1>6 DEF OpenFails, WriteFails, GiveUp, Created
  <2>2. creator[c].pc \in {"open", "write"}
    BY <1>6 DEF OpenFails, WriteFails
  <2> QED
    BY <1>1, <1>2, <2>1, <2>2
<1> QED
  BY <1>3, <1>4, <1>5, <1>6

LEMMA CreatorsStep ==
    ASSUME MInv, MNext
    PROVE  MInv'
BY StartCreateKeeps, ScanKeeps, OpenKeeps, WrittenKeeps, FailKeeps DEF MNext

-----------------------------------------------------------------------------
(* The project.                                                            *)

\* What holds whatever the names of the skeleton's migrations are.
Typed ==
    /\ disk \in [Paths -> Contents]
    /\ excused \subseteq (1..MaxVersion) \X NewNames
    /\ creator \in [Creators -> CreatorType]
    /\ \A c \in Creators :
          /\ creator[c].pc # "err" => creator[c].name \in NewNames
          /\ creator[c].pc \in {"open", "write"} => creator[c].version # 0
    /\ GeneratorsGood

\* The inductive invariant, where they are not those of new ones.
PInv == MInv /\ GeneratorsGood /\ Undisputed

LEMMA RestTyped ==
    /\ CRest("err") \in CreatorType /\ CRest("err").pc = "err"
    /\ EmptyDisk \in [Paths -> Contents]
    /\ [c \in Creators |-> CRest("err")] \in [Creators -> CreatorType]
    /\ \A c \in Creators : [d \in Creators |-> CRest("err")][c] = CRest("err")
<1>1. CRest("err") \in CreatorType /\ CRest("err").pc = "err"
  BY RestShape DEF CreatorShape, CRest
<1>2. EmptyDisk \in [Paths -> Contents]
  BY DEF EmptyDisk, Contents
<1> QED
  BY <1>1, <1>2

LEMMA CreatorsTyped ==
    ASSUME Typed, MNext
    PROVE  /\ disk' \in [Paths -> Contents]
           /\ excused' \subseteq (1..MaxVersion) \X NewNames
           /\ creator' \in [Creators -> CreatorType]
           /\ \A c \in Creators :
                 /\ creator'[c].pc # "err" => creator'[c].name \in NewNames
                 /\ creator'[c].pc \in {"open", "write"} => creator'[c].version # 0
<1> PICK c \in Creators :
        \/ \E name \in NewNames \cup {"none"} : StartCreate(c, name)
        \/ \E now \in Clock : Scan(c, now)
        \/ Open(c) \/ OpenFails(c) \/ Written(c) \/ WriteFails(c) \/ KillCreator(c)
  BY DEF MNext
<1> DEFINE old == creator[c]
<1>1. /\ disk \in [Paths -> Contents] /\ excused \subseteq (1..MaxVersion) \X NewNames
      /\ old \in CreatorType /\ old.half \in Halves
      /\ old.pc # "err" => old.name \in NewNames
      /\ old.pc \in {"open", "write"} => old.version \in 1..MaxVersion
  BY DiskConstants DEF Typed, CreatorType
<1>2. ASSUME old.pc \in {"open", "write"} PROVE Path(c) \in Paths
  BY <1>1, <1>2, CreatorConstants DEF Path, Script, Paths, Scripts
<1>3. ASSUME NEW me \in CreatorType, creator' = [creator EXCEPT ![c] = me],
             me.pc # "err" => me.name \in NewNames,
             me.pc \in {"open", "write"} => me.version # 0
      PROVE  /\ creator' \in [Creators -> CreatorType]
             /\ \A d \in Creators :
                   /\ creator'[d].pc # "err" => creator'[d].name \in NewNames
                   /\ creator'[d].pc \in {"open", "write"} => creator'[d].version # 0
  BY <1>3 DEF Typed
<1>4. ASSUME old.pc \in Creating PROVE LeftHalf(c) \subseteq (1..MaxVersion) \X NewNames
  <2>1. old.name \in NewNames /\ (old.version # 0 => old.version \in 1..MaxVersion)
    BY <1>1, <1>4, DiskConstants DEF Creating, CreatorType
  <2> QED
    BY <2>1 DEF LeftHalf
<1>5. ASSUME NEW name \in NewNames \cup {"none"}, StartCreate(c, name)
      PROVE  \E me \in CreatorType :
                 /\ creator' = [creator EXCEPT ![c] = me]
                 /\ me.pc # "err" => me.name \in NewNames
                 /\ me.pc \notin {"open", "write"}
  <2>1. CASE name = "none"
    BY <1>5, <2>1, RestTyped DEF StartCreate
  <2>2. CASE name # "none"
    <3> DEFINE floor == Newest
               me == [pc |-> "scan", name |-> name, version |-> 0, half |-> "up", floor |-> floor]
    <3>1. floor \in 0..MaxVersion /\ name \in NewNames
      BY <2>2, NewestIsKept
    <3>2. creator' = [creator EXCEPT ![c] = [CRest("scan") EXCEPT !.name = name, !.floor = floor]]
      BY <1>5, <2>2 DEF StartCreate
    <3> HIDE DEF floor
    <3>3. ASSUME NEW x, x = [CRest("scan") EXCEPT !.name = name, !.floor = floor] PROVE x = me
      BY <3>3 DEF CRest
    <3>4. me \in CreatorType
      BY <3>1, DiskConstants DEF CreatorType, Creating, Halves
    <3>5. me.pc = "scan" /\ me.name = name
      OBVIOUS
    <3> HIDE DEF me
    <3> QED
      BY <3>1, <3>2, <3>3, <3>4, <3>5
  <2> QED
    BY <2>1, <2>2
<1>6. ASSUME NEW now \in Clock, Scan(c, now)
      PROVE  \E me \in CreatorType :
                 /\ creator' = [creator EXCEPT ![c] = me]
                 /\ me.pc # "err" => me.name \in NewNames
                 /\ me.pc \in {"open", "write"} => me.version # 0
  <2> DEFINE next == NextVersion(now)
             me == [old EXCEPT !.pc = "open", !.version = next]
  <2>1. CASE next > MaxVersion
    BY <1>6, <2>1, RestTyped DEF Scan
  <2>2. CASE ~(next > MaxVersion)
    <3>1. next \in 0..MaxVersion /\ next # 0
      BY <2>2, NextIsNewer, DiskConstants
    <3>2. creator' = [creator EXCEPT ![c] = me] /\ old.pc = "scan"
      BY <1>6, <2>2 DEF Scan
    <3> HIDE DEF next
    <3>3. me \in CreatorType /\ me.name = old.name /\ me.version = next
      BY <1>1, <3>1 DEF CreatorType, Creating
    <3> QED
      BY <1>1, <3>1, <3>2, <3>3
  <2> QED
    BY <2>1, <2>2
<1>7. CASE \E name \in NewNames \cup {"none"} : StartCreate(c, name)
  BY <1>1, <1>3, <1>5, <1>7 DEF StartCreate
<1>8. CASE \E now \in Clock : Scan(c, now)
  BY <1>1, <1>3, <1>6, <1>8 DEF Scan
<1>9. CASE Open(c)
  <2> DEFINE me == [old EXCEPT !.pc = "write"]
  <2>1. me \in CreatorType /\ me.name = old.name /\ me.version = old.version
    BY <1>1 DEF CreatorType, Creating
  <2>2. disk' \in [Paths -> Contents] /\ excused' = excused
    BY <1>1, <1>2, <1>9 DEF Open, Put, Contents
  <2>3. /\ creator' = [creator EXCEPT ![c] = me]
        /\ old.name \in NewNames /\ old.version # 0
    BY <1>1, <1>9, DiskConstants DEF Open
  <2> HIDE DEF me
  <2> QED
    BY <1>1, <1>3, <2>1, <2>2, <2>3
<1>10. CASE Written(c)
  <2>1. /\ [old EXCEPT !.pc = "open", !.half = "down"] \in CreatorType
        /\ [old EXCEPT !.pc = "ok"] \in CreatorType
    BY <1>1 DEF CreatorType, Creating, Halves
  <2>2. disk' \in [Paths -> Contents] /\ excused' = excused
    BY <1>1, <1>2, <1>10 DEF Written, Put, Contents
  <2> QED
    BY <1>1, <1>3, <1>10, <2>1, <2>2 DEF Written, CreatorType
<1>11. CASE OpenFails(c) \/ WriteFails(c)
  <2>1. PICK lost : /\ disk' = [p \in Paths |-> IF p \in lost THEN "none" ELSE disk[p]]
                    /\ excused' = excused \/ excused' = excused \cup LeftHalf(c)
    BY <1>11 DEF OpenFails, WriteFails, GiveUp
  <2>2. old.pc \in Creating /\ creator' = [creator EXCEPT ![c] = CRest("err")]
    BY <1>11 DEF OpenFails, WriteFails, GiveUp, Creating
  <2>3. disk' \in [Paths -> Contents]
    BY <1>1, <2>1 DEF Contents
  <2> QED
    BY <1>1, <1>3, <1>4, <2>1, <2>2, <2>3, RestTyped
<1>12. CASE KillCreator(c)
  BY <1>1, <1>3, <1>4, <1>12, RestTyped DEF KillCreator
<1> QED
  BY <1>7, <1>8, <1>9, <1>10, <1>11, <1>12

LEMMA EmptyDiskGood ==
    ASSUME NEW cr, cr = [c \in Creators |-> CRest("err")]
    PROVE  CreatorsGood(cr, EmptyDisk, {})
<1>1. EmptyDisk \in [Paths -> Contents] /\ \A p \in Paths : EmptyDisk[p] = "none"
  BY DEF EmptyDisk, Contents
<1>2. \A c \in Creators : cr[c] = CRest("err")
  OBVIOUS
<1>3. cr \in [Creators -> CreatorType]
  BY RestShape DEF CreatorShape
<1>4. \A c \in Creators : CreatorShape(cr[c]) /\ CreatorDisk(cr[c], EmptyDisk, {}) /\ ~Mine(cr[c])
  BY <1>2, RestShape, RestDisk
<1>5. \A v \in 1..MaxVersion, n \in NewNames, half \in Halves : EmptyDisk[Script(v, n, half)] = "none"
  BY <1>1, CreatorConstants DEF Script, Paths, Scripts
<1>6. PairsOwned(cr, EmptyDisk, {}) /\ UpFirst(EmptyDisk)
  BY <1>5 DEF PairsOwned, UpFirst, Paired, Halves
<1> QED
  BY <1>1, <1>3, <1>4, <1>6 DEF CreatorsGood, OneOwner

LEMMA InitPInv == Init => PInv
<1> SUFFICES ASSUME Init PROVE PInv
  OBVIOUS
<1>1. MInv
  BY EmptyDiskGood DEF Init, MInit, MInv
<1>2. GeneratorsGood /\ Undisputed
  <2>1. GRest("err") \in GeneratorType /\ GoodGenerator(GRest("err"))
    BY RestGood DEF GoodGenerator
  <2> QED
    BY <2>1 DEF Init, SInit, GeneratorsGood, Undisputed, CheckoutRemoved
<1> QED
  BY <1>1, <1>2 DEF PInv

LEMMA StartOverKeeps ==
    ASSUME PInv, StartOver
    PROVE  PInv'
<1>1. MInv'
  BY EmptyDiskGood DEF StartOver, MInv
<1>2. alone = {}
  BY DEF PInv, GeneratorsGood, Undisputed, StartOver, AtRest
<1>3. UNCHANGED svars
  BY DEF StartOver
<1> QED
  BY <1>1, <1>2, <1>3 DEF PInv, GeneratorsGood, Undisputed, CheckoutRemoved, Running, svars

LEMMA StepPInv == ASSUME NewNamesApart, PInv, [Next]_vars PROVE PInv'
<1>1. CASE MNext /\ UNCHANGED svars
  <2>1. MInv'
    BY <1>1, CreatorsStep DEF PInv
  <2>2. \A p \in SkeletonFiles : disk'[p] = disk[p]
    BY <1>1, CreatorsSpareSkeleton DEF PInv
  <2>3. \A me : Progress(me, disk) => Progress(me, disk')
    BY <2>2 DEF Progress
  <2> QED
    BY <1>1, <2>1, <2>3 DEF PInv, GeneratorsGood, Undisputed, CheckoutRemoved, Running, svars
<1>2. CASE SNext /\ UNCHANGED mvars
  <2>1. disk \in [Paths -> Contents]
    BY DEF PInv, MInv, CreatorsGood
  <2> QED
    BY <1>2, <2>1, GeneratorsStep, SkeletonStepKeeps DEF PInv, mvars
<1>3. CASE StartOver
  BY <1>3, StartOverKeeps
<1>4. CASE UNCHANGED vars
  BY <1>4 DEF vars, mvars, svars, PInv, MInv, GeneratorsGood, Undisputed, CheckoutRemoved, Running
<1> QED
  BY <1>1, <1>2, <1>3, <1>4 DEF Next

LEMMA PInvInductive == ASSUME NewNamesApart PROVE Spec => []PInv
<1>1. PInv /\ [Next]_vars => PInv'
  BY StepPInv
<1> QED
  BY <1>1, InitPInv, PTL DEF Spec

LEMMA InitTyped == Init => Typed
<1>1. Init => GeneratorsGood
  BY InitPInv DEF PInv
<1>2. Init => disk \in [Paths -> Contents] /\ excused = {} /\ creator = [c \in Creators |-> CRest("err")]
  BY RestTyped DEF Init, MInit
<1> QED
  BY <1>1, <1>2, RestTyped DEF Typed

LEMMA StepTyped == ASSUME Typed, [Next]_vars PROVE Typed'
<1>1. CASE MNext /\ UNCHANGED svars
  BY <1>1, CreatorsTyped DEF Typed, GeneratorsGood, CheckoutRemoved, svars
<1>2. CASE SNext /\ UNCHANGED mvars
  BY <1>2, GeneratorsStep DEF Typed, mvars
<1>3. CASE StartOver
  <2>1. /\ disk' = EmptyDisk /\ creator' = [c \in Creators |-> CRest("err")]
        /\ excused' = {} /\ UNCHANGED svars
    BY <1>3 DEF StartOver
  <2> QED
    BY <2>1, RestTyped DEF Typed, GeneratorsGood, CheckoutRemoved, svars
<1>4. CASE UNCHANGED vars
  BY <1>4 DEF vars, mvars, svars, Typed, GeneratorsGood, CheckoutRemoved
<1> QED
  BY <1>1, <1>2, <1>3, <1>4 DEF Next

LEMMA TypedInductive == Spec => []Typed
BY InitTyped, StepTyped, PTL DEF Spec

-----------------------------------------------------------------------------
(* The lockfile.                                                           *)

LEMMA Slice ==
    ASSUME NEW S, NEW s \in Seq(S), NEW i \in 1..Len(s) + 1, NEW j \in 0..Len(s), i <= j + 1
    PROVE  /\ SubSeq(s, i, j) \in Seq(S) /\ Len(SubSeq(s, i, j)) = j + 1 - i
           /\ \A k \in 1..j + 1 - i : SubSeq(s, i, j)[k] = s[i + k - 1]
<1>1. Len(s) \in Nat /\ \A k \in 1..Len(s) : s[k] \in S
  BY LenProperties, ElementOfSeq
<1>2. i \in Int /\ j \in Int /\ \A k \in i..j : s[k] \in S
  BY <1>1
<1>3. SubSeq(s, i, j) \in Seq(S)
  BY <1>2, SubSeqProperties
<1>4. Len(SubSeq(s, i, j)) = IF i <= j THEN j - i + 1 ELSE 0
  BY <1>2, SubSeqProperties
<1>5. \A k \in 1..j - i + 1 : SubSeq(s, i, j)[k] = s[i + k - 1]
  BY <1>2, SubSeqProperties
<1>6. j - i + 1 = j + 1 - i /\ (~(i <= j) => j + 1 - i = 0)
  BY <1>1
<1> QED
  BY <1>3, <1>4, <1>5, <1>6

LEMMA InsertAtProperties ==
    ASSUME NEW S, NEW s \in Seq(S), NEW i \in 1..Len(s) + 1, NEW e \in S
    PROVE  /\ InsertAt(s, i, e) \in Seq(S) /\ Len(InsertAt(s, i, e)) = Len(s) + 1
           /\ \A k \in 1..Len(s) + 1 :
                 InsertAt(s, i, e)[k] = IF k < i THEN s[k] ELSE IF k = i THEN e ELSE s[k - 1]
<1>1. Len(s) \in Nat
  BY LenProperties
<1> DEFINE before == SubSeq(s, 1, i - 1)
           after == SubSeq(s, i, Len(s))
           front == before \o <<e>>
<1>2. /\ before \in Seq(S) /\ Len(before) = i - 1
      /\ \A k \in 1..i - 1 : before[k] = s[k]
  <2>1. i - 1 \in 0..Len(s) /\ 1 \in 1..Len(s) + 1 /\ 1 <= (i - 1) + 1
    BY <1>1
  <2>2. /\ before \in Seq(S) /\ Len(before) = (i - 1) + 1 - 1
        /\ \A k \in 1..(i - 1) + 1 - 1 : before[k] = s[1 + k - 1]
    BY <2>1, Slice
  <2> HIDE DEF before
  <2> QED
    BY <1>1, <2>2
<1>3. /\ after \in Seq(S) /\ Len(after) = Len(s) + 1 - i
      /\ \A k \in 1..Len(s) + 1 - i : after[k] = s[i + k - 1]
  <2>1. Len(s) \in 0..Len(s) /\ i <= Len(s) + 1
    BY <1>1
  <2> QED
    BY <2>1, Slice
<1>4. InsertAt(s, i, e) = front \o after
  BY DEF InsertAt
<1> HIDE DEF before, after
<1>5. front \in Seq(S) /\ Len(front) = i /\ \A k \in 1..i : front[k] = IF k < i THEN s[k] ELSE e
  <2>1. <<e>> \in Seq(S) /\ Len(<<e>>) = 1 /\ <<e>>[1] = e /\ i - 1 \in Nat /\ 1 \in Nat
    BY <1>1
  <2>2. front \in Seq(S) /\ Len(front) = Len(before) + Len(<<e>>)
    BY <1>2, <2>1, ConcatProperties
  <2>3. \A k \in 1..Len(before) + Len(<<e>>) :
           front[k] = IF k <= Len(before) THEN before[k] ELSE <<e>>[k - Len(before)]
    BY <1>2, <2>1, ConcatProperties
  <2>4. /\ front \in Seq(S) /\ Len(front) = (i - 1) + 1
        /\ \A k \in 1..(i - 1) + 1 : front[k] = IF k <= i - 1 THEN before[k] ELSE <<e>>[k - (i - 1)]
    BY <1>2, <2>1, <2>2, <2>3
  <2> HIDE DEF front
  <2>5. (i - 1) + 1 = i
    BY <1>1
  <2>6. ASSUME NEW k \in 1..i PROVE front[k] = IF k < i THEN s[k] ELSE e
    <3>1. CASE k < i
      <4>1. k \in 1..i - 1 /\ k \in 1..(i - 1) + 1 /\ k <= i - 1
        BY <1>1, <3>1
      <4> QED
        BY <1>2, <2>4, <3>1, <4>1
    <3>2. CASE ~(k < i)
      <4>1. k \in 1..(i - 1) + 1 /\ ~(k <= i - 1) /\ k - (i - 1) = 1
        BY <1>1, <3>2
      <4> QED
        BY <2>1, <2>4, <3>2, <4>1
    <3> QED
      BY <3>1, <3>2
  <2> QED
    BY <2>4, <2>5, <2>6
<1> HIDE DEF front
<1>6. Len(s) + 1 - i \in Nat /\ i \in Nat /\ i + (Len(s) + 1 - i) = Len(s) + 1
  BY <1>1
<1>7. /\ front \o after \in Seq(S) /\ Len(front \o after) = i + (Len(s) + 1 - i)
      /\ \A k \in 1..i + (Len(s) + 1 - i) :
            (front \o after)[k] = IF k <= i THEN front[k] ELSE after[k - i]
  <2>1. front \in Seq(S) /\ after \in Seq(S) /\ Len(front) = i /\ Len(after) = Len(s) + 1 - i
    BY <1>3, <1>5
  <2>2. front \o after \in Seq(S) /\ Len(front \o after) = Len(front) + Len(after)
    BY <2>1, ConcatProperties
  <2>3. \A k \in 1..Len(front) + Len(after) :
           (front \o after)[k] = IF k <= Len(front) THEN front[k] ELSE after[k - Len(front)]
    BY <2>1, ConcatProperties
  <2> QED
    BY <2>1, <2>2, <2>3
<1>8. \A k \in 1..Len(s) + 1 : k > i => after[k - i] = s[k - 1]
  <2> SUFFICES ASSUME NEW k \in 1..Len(s) + 1, k > i
               PROVE  after[k - i] = s[k - 1]
    OBVIOUS
  <2>1. k - i \in 1..Len(s) + 1 - i /\ i + (k - i) - 1 = k - 1
    BY <1>1
  <2> QED
    BY <1>3, <2>1
<1>9. \A k \in 1..Len(s) + 1 :
         (front \o after)[k] = IF k < i THEN s[k] ELSE IF k = i THEN e ELSE s[k - 1]
  BY <1>1, <1>5, <1>6, <1>7, <1>8
<1> QED
  BY <1>4, <1>6, <1>7, <1>9

LEMMA RemoveAtProperties ==
    ASSUME NEW S, NEW s \in Seq(S), NEW i \in 1..Len(s)
    PROVE  /\ RemoveAt(s, i) \in Seq(S) /\ Len(RemoveAt(s, i)) = Len(s) - 1
           /\ \A k \in 1..Len(s) - 1 : RemoveAt(s, i)[k] = IF k < i THEN s[k] ELSE s[k + 1]
<1>1. Len(s) \in Nat
  BY LenProperties
<1> DEFINE before == SubSeq(s, 1, i - 1)
           after == SubSeq(s, i + 1, Len(s))
<1>2. /\ before \in Seq(S) /\ Len(before) = i - 1
      /\ \A k \in 1..i - 1 : before[k] = s[k]
  <2>1. i - 1 \in 0..Len(s) /\ 1 \in 1..Len(s) + 1 /\ 1 <= (i - 1) + 1
    BY <1>1
  <2>2. /\ before \in Seq(S) /\ Len(before) = (i - 1) + 1 - 1
        /\ \A k \in 1..(i - 1) + 1 - 1 : before[k] = s[1 + k - 1]
    BY <2>1, Slice
  <2> HIDE DEF before
  <2> QED
    BY <1>1, <2>2
<1>3. /\ after \in Seq(S) /\ Len(after) = Len(s) - i
      /\ \A k \in 1..Len(s) - i : after[k] = s[i + k]
  <2>1. i + 1 \in 1..Len(s) + 1 /\ Len(s) \in 0..Len(s) /\ i + 1 <= Len(s) + 1
    BY <1>1
  <2>2. /\ after \in Seq(S) /\ Len(after) = Len(s) + 1 - (i + 1)
        /\ \A k \in 1..Len(s) + 1 - (i + 1) : after[k] = s[(i + 1) + k - 1]
    BY <2>1, Slice
  <2> HIDE DEF after
  <2>3. Len(s) + 1 - (i + 1) = Len(s) - i /\ \A k \in 1..Len(s) - i : (i + 1) + k - 1 = i + k
    BY <1>1
  <2> QED
    BY <2>2, <2>3
<1>4. RemoveAt(s, i) = before \o after
  BY DEF RemoveAt
<1> HIDE DEF before, after
<1>5. i - 1 \in Nat /\ Len(s) - i \in Nat /\ (i - 1) + (Len(s) - i) = Len(s) - 1
  BY <1>1
<1>6. /\ before \o after \in Seq(S) /\ Len(before \o after) = (i - 1) + (Len(s) - i)
      /\ \A k \in 1..(i - 1) + (Len(s) - i) :
            (before \o after)[k] = IF k <= i - 1 THEN before[k] ELSE after[k - (i - 1)]
  <2>1. /\ before \in Seq(S) /\ after \in Seq(S)
        /\ Len(before) = i - 1 /\ Len(after) = Len(s) - i
    BY <1>2, <1>3
  <2>2. before \o after \in Seq(S) /\ Len(before \o after) = Len(before) + Len(after)
    BY <2>1, ConcatProperties
  <2>3. \A k \in 1..Len(before) + Len(after) :
           (before \o after)[k] = IF k <= Len(before) THEN before[k] ELSE after[k - Len(before)]
    BY <2>1, ConcatProperties
  <2> QED
    BY <2>1, <2>2, <2>3
<1>7. \A k \in 1..Len(s) - 1 : k >= i => after[k - (i - 1)] = s[k + 1]
  <2> SUFFICES ASSUME NEW k \in 1..Len(s) - 1, k >= i
               PROVE  after[k - (i - 1)] = s[k + 1]
    OBVIOUS
  <2>1. k - (i - 1) \in 1..Len(s) - i /\ i + (k - (i - 1)) = k + 1
    BY <1>1
  <2> QED
    BY <1>3, <2>1
<1>8. \A k \in 1..Len(s) - 1 : (before \o after)[k] = IF k < i THEN s[k] ELSE s[k + 1]
  <2> SUFFICES ASSUME NEW k \in 1..Len(s) - 1
               PROVE  (before \o after)[k] = IF k < i THEN s[k] ELSE s[k + 1]
    OBVIOUS
  <2>1. (before \o after)[k] = IF k <= i - 1 THEN before[k] ELSE after[k - (i - 1)]
    BY <1>5, <1>6
  <2>2. CASE k < i
    <3>1. k \in 1..i - 1 /\ k <= i - 1
      BY <1>1, <2>2
    <3> QED
      BY <1>2, <2>1, <2>2, <3>1
  <2>3. CASE ~(k < i)
    <3>1. k >= i /\ ~(k <= i - 1)
      BY <1>1, <2>3
    <3> QED
      BY <1>7, <2>1, <2>3, <3>1
  <2> QED
    BY <2>2, <2>3
<1> QED
  BY <1>4, <1>5, <1>6, <1>8

\* Removing what was inserted gives the sequence back.
LEMMA RemoveInserted ==
    ASSUME NEW S, NEW s \in Seq(S), NEW i \in 1..Len(s) + 1, NEW e \in S
    PROVE  RemoveAt(InsertAt(s, i, e), i) = s
<1> DEFINE t == InsertAt(s, i, e)
<1>1. /\ t \in Seq(S) /\ Len(t) = Len(s) + 1 /\ Len(s) \in Nat
      /\ \A k \in 1..Len(s) + 1 : t[k] = IF k < i THEN s[k] ELSE IF k = i THEN e ELSE s[k - 1]
  BY InsertAtProperties, LenProperties
<1> HIDE DEF t
<1>2. /\ RemoveAt(t, i) \in Seq(S) /\ Len(RemoveAt(t, i)) = Len(t) - 1
      /\ \A k \in 1..Len(t) - 1 : RemoveAt(t, i)[k] = IF k < i THEN t[k] ELSE t[k + 1]
  BY <1>1, RemoveAtProperties
<1>3. ASSUME NEW k \in 1..Len(s) PROVE RemoveAt(t, i)[k] = s[k]
  <2>1. /\ k \in 1..Len(t) - 1 /\ k \in 1..Len(s) + 1 /\ k + 1 \in 1..Len(s) + 1
        /\ (k + 1) - 1 = k
    BY <1>1
  <2>2. CASE k < i
    BY <1>1, <1>2, <2>1, <2>2
  <2>3. CASE ~(k < i)
    <3>1. ~(k + 1 < i) /\ k + 1 # i
      BY <1>1, <2>3
    <3>2. t[k + 1] = s[(k + 1) - 1]
      BY <1>1, <2>1, <3>1
    <3> QED
      BY <1>2, <2>1, <2>3, <3>2
  <2> QED
    BY <2>2, <2>3
<1> QED
  BY <1>1, <1>2, <1>3, SeqEqual DEF t

Block == [name : LockNames, root : BOOLEAN]

\* One lockfile: the root is found, leaves the dependencies as they were, and
\* goes where both its neighbours are in order.
LEMMA LockSorted ==
    ASSUME NEW deps \in {lock \in Locks : ByName(lock)}, NEW root \in LockNames,
           NEW i \in 1..Len(deps) + 1
    PROVE  LET package == [name |-> root, root |-> TRUE]
               blocks  == RepositionRoot(InsertAt(deps, i, package), root)
           IN  /\ ByName(blocks)
               /\ \E k \in DOMAIN blocks : blocks[k] = package /\ RemoveAt(blocks, k) = deps
<1> DEFINE package == [name |-> root, root |-> TRUE]
           inserted == InsertAt(deps, i, package)
           target == PlaceFor(root, deps)
<1>1. /\ deps \in Seq(Block) /\ Len(deps) \in Nat /\ DOMAIN deps = 1..Len(deps)
      /\ \A k \in 1..Len(deps) : deps[k].name \in Nat /\ deps[k].root = FALSE
      /\ \A k \in 1..Len(deps) - 1 : deps[k].name <= deps[k + 1].name
      /\ root \in Nat
  <2>1. PICK n \in 0..LockLength : deps \in [1..n -> [name : LockNames, root : {FALSE}]]
    BY DEF Locks
  <2>2. n \in Nat
    BY <2>1, LockConstants
  <2>3. deps \in [1..n -> Block]
    BY <2>1 DEF Block
  <2>4. deps \in Seq(Block) /\ Len(deps) = n /\ DOMAIN deps = 1..n
    BY <2>2, <2>3
  <2>5. \A k \in 1..n : deps[k].name \in Nat /\ deps[k].root = FALSE
    BY <2>1, LockConstants
  <2>6. root \in Nat
    BY LockConstants
  <2> QED
    BY <2>2, <2>4, <2>5, <2>6 DEF ByName
<1>2. package \in Block /\ package.name = root /\ package.root = TRUE
  BY DEF Block
<1> HIDE DEF package
<1>3. /\ inserted \in Seq(Block) /\ Len(inserted) = Len(deps) + 1
      /\ \A k \in 1..Len(deps) + 1 :
            inserted[k] = IF k < i THEN deps[k] ELSE IF k = i THEN package ELSE deps[k - 1]
  BY <1>1, <1>2, InsertAtProperties
<1>4. RemoveAt(inserted, i) = deps
  BY <1>1, <1>2, RemoveInserted
<1> HIDE DEF inserted
<1>5. DOMAIN inserted = 1..Len(deps) + 1
  BY <1>1, <1>3
<1>6. inserted[i] = package
  BY <1>1, <1>3
<1>7. \A k \in DOMAIN inserted : (inserted[k].name = root /\ inserted[k].root) <=> k = i
  <2> SUFFICES ASSUME NEW k \in 1..Len(deps) + 1, k # i
               PROVE  inserted[k].root = FALSE
    BY <1>2, <1>5, <1>6
  <2>1. CASE k < i
    BY <1>1, <1>3, <2>1
  <2>2. CASE k > i
    BY <1>1, <1>3, <2>2
  <2>3. k < i \/ k > i
    BY <1>1
  <2> QED
    BY <2>1, <2>2, <2>3
<1>8. (CHOOSE k \in DOMAIN inserted : inserted[k].name = root /\ inserted[k].root) = i
  BY <1>1, <1>5, <1>7
<1> DEFINE blocks == InsertAt(deps, target, package)
<1>9. RepositionRoot(inserted, root) = blocks
  BY <1>4, <1>6, <1>8 DEF RepositionRoot
<1>10. /\ target \in 1..Len(deps) + 1
       /\ \A k \in 1..Len(deps) : k < target => deps[k].name <= root
       /\ target <= Len(deps) => deps[target].name > root
  <2> DEFINE later == {k \in DOMAIN deps : deps[k].name > root}
  <2>1. CASE later = {}
    <3>1. target = Len(deps) + 1
      BY <2>1 DEF PlaceFor
    <3> HIDE DEF target
    <3>2. ASSUME NEW k \in 1..Len(deps) PROVE deps[k].name <= root
      BY <1>1, <2>1
    <3> QED
      BY <1>1, <3>1, <3>2
  <2>2. CASE later # {}
    <3>1. later \subseteq Nat
      BY <1>1
    <3>2. target = CHOOSE k \in later : \A l \in later : k <= l
      BY <2>2 DEF PlaceFor
    <3>3. \E k \in later : \A l \in later : k <= l
      <4> HIDE DEF later
      <4> QED
        BY <2>2, <3>1, HasMinimum
    <3> HIDE DEF target
    <3>4. target \in later /\ \A l \in later : target <= l
      <4> HIDE DEF later
      <4> QED
        BY <3>2, <3>3
    <3>5. target \in 1..Len(deps) /\ deps[target].name > root
      BY <1>1, <3>4
    <3>6. ASSUME NEW k \in 1..Len(deps), k < target PROVE deps[k].name <= root
      BY <1>1, <3>4, <3>5, <3>6
    <3> QED
      BY <1>1, <3>5, <3>6
  <2> QED
    BY <2>1, <2>2
<1> HIDE DEF target
<1>11. /\ blocks \in Seq(Block) /\ Len(blocks) = Len(deps) + 1
       /\ \A k \in 1..Len(deps) + 1 :
             blocks[k] = IF k < target THEN deps[k]
                         ELSE IF k = target THEN package ELSE deps[k - 1]
  <2>1. deps \in Seq(Block) /\ target \in 1..Len(deps) + 1 /\ package \in Block
    BY <1>1, <1>2, <1>10
  <2> QED
    BY <2>1, InsertAtProperties
<1>12. RemoveAt(blocks, target) = deps
  BY <1>1, <1>2, <1>10, RemoveInserted
<1> HIDE DEF blocks
<1>13. ByName(blocks)
  <2> SUFFICES ASSUME NEW k \in 1..Len(deps)
               PROVE  blocks[k].name <= blocks[k + 1].name
    BY <1>1, <1>11 DEF ByName
  <2>1. k \in Nat /\ k + 1 \in 1..Len(deps) + 1 /\ k \in 1..Len(deps) + 1 /\ target \in Nat
    BY <1>1, <1>10
  <2>2. CASE k + 1 < target
    <3>1. blocks[k] = deps[k] /\ blocks[k + 1] = deps[k + 1] /\ k \in 1..Len(deps) - 1
      BY <1>1, <1>10, <1>11, <2>1, <2>2
    <3> QED
      BY <1>1, <3>1
  <2>3. CASE k + 1 = target
    <3>1. blocks[k] = deps[k] /\ blocks[k + 1] = package
      BY <1>11, <2>1, <2>3
    <3> QED
      BY <1>2, <1>10, <2>1, <2>3, <3>1
  <2>4. CASE k = target
    <3>1. blocks[k] = package /\ blocks[k + 1] = deps[k]
      BY <1>11, <2>1, <2>4
    <3> QED
      BY <1>1, <1>2, <1>10, <2>1, <2>4, <3>1
  <2>5. CASE k > target
    <3>1. blocks[k] = deps[k - 1] /\ blocks[k + 1] = deps[k] /\ k - 1 \in 1..Len(deps) - 1
      BY <1>1, <1>10, <1>11, <2>1, <2>5
    <3>2. (k - 1) + 1 = k
      BY <2>1
    <3>3. deps[k - 1].name <= deps[(k - 1) + 1].name
      BY <1>1, <3>1
    <3> QED
      BY <3>1, <3>2, <3>3
  <2> QED
    BY <2>1, <2>2, <2>3, <2>4, <2>5
<1>14. target \in DOMAIN blocks /\ blocks[target] = package
  BY <1>1, <1>10, <1>11
<1> QED
  BY <1>9, <1>12, <1>13, <1>14 DEF inserted, package

LEMMA LocksSorted == EveryLockSorted
BY LockSorted DEF EveryLockSorted

-----------------------------------------------------------------------------
\* The disk, the creators and the generators keep their types, whatever the
\* skeleton's files are called.
THEOREM ProjectTypes == Spec => []TypeOK
<1>1. Typed => TypeOK
  BY DEF Typed, GeneratorsGood, TypeOK, MTypeOK, STypeOK
<1> QED
  BY <1>1, TypedInductive, PTL

\* Checkout::drop: a generator that has ended or formats keeps no checkout, at
\* whatever step it failed or was killed.
THEOREM NoCheckoutLeft == Spec => []CheckoutRemoved
<1>1. Typed => CheckoutRemoved
  BY DEF Typed, GeneratorsGood
<1> QED
  BY <1>1, TypedInductive, PTL

\* write_new_migration_files, however many run at once: a migration nobody
\* works on has both its scripts or none, unless its creator died or could not
\* remove what it had made.
THEOREM PairsStayWhole == ASSUME NewNamesApart PROVE Spec => []PairOrNothing
<1>1. PInv => PairsOwned(creator, disk, excused)
  BY DEF PInv, MInv, CreatorsGood
<1>2. \A me : Mine(me) => me.pc \in Creating
  BY DEF Mine, Creating
<1>3. PairsOwned(creator, disk, excused) => PairOrNothing
  <2> SUFFICES ASSUME PairsOwned(creator, disk, excused),
                      NEW v \in 1..MaxVersion, NEW n \in NewNames,
                      ~Paired(disk, v, n), <<v, n>> \notin excused
               PROVE  \E c \in Creators : /\ creator[c].pc \in Creating
                                          /\ creator[c].version = v /\ creator[c].name = n
    BY DEF PairOrNothing, Paired, There
  <2>1. PICK c \in Creators : Mine(creator[c]) /\ creator[c].version = v /\ creator[c].name = n
    BY DEF PairsOwned
  <2> QED
    BY <1>2, <2>1
<1> QED
  BY <1>1, <1>3, PInvInductive, PTL

\* create_new: no other creator writes over the pair a creator reported, or
\* cleans it up.
THEOREM ReportedPairsStay == ASSUME NewNamesApart PROVE Spec => []ReportedFilesExist
<1>1. PInv => ReportedFilesExist
  BY DEF PInv, MInv, CreatorsGood, CreatorDisk, At, ReportedFilesExist
<1> QED
  BY <1>1, PInvInductive, PTL

\* next_migration_version: the new migration comes after every one that was
\* whole when migration:create started.
THEOREM NewMigrationsAreNewest == ASSUME NewNamesApart PROVE Spec => []LaterIsNewer
<1>1. PInv => LaterIsNewer
  BY DEF PInv, MInv, CreatorsGood, CreatorShape, LaterIsNewer
<1> QED
  BY <1>1, PInvInductive, PTL

\* generate: without another generator at work, success means all the files of
\* one revision and no other file of the skeleton.
THEOREM GenerationIsComplete == ASSUME NewNamesApart PROVE Spec => []SuccessIsComplete
<1>1. PInv => SuccessIsComplete
  <2> SUFFICES ASSUME PInv, NEW g \in Generators, generator[g].pc = "format", g \in alone,
                      NEW p \in SkeletonFiles
               PROVE  disk[p] = IF p \in Files(generator[g].revision)
                                THEN generator[g].revision ELSE "none"
    BY DEF SuccessIsComplete, SkeletonFiles
  <2>1. Progress(generator[g], disk)
    BY DEF PInv, Undisputed
  <2> QED
    BY <2>1 DEF Progress
<1> QED
  BY <1>1, PInvInductive, PTL

\* reposition_root_package: whatever the project is called and wherever the
\* skeleton's own package stood, a lockfile Cargo sorted is sorted again.
THEOREM LocksStaySorted == Spec => []LockStaysSorted
<1>1. LockStaysSorted
  BY LocksSorted DEF LockStaysSorted
<1> QED
  BY <1>1, PTL
=============================================================================
