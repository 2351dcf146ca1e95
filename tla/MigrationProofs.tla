-------------------------- MODULE MigrationProofs --------------------------
(***************************************************************************)
(* Migrations, for any builds, versions and processes: what a revert takes *)
(* away, what a successful migrate leaves, and, if builds share one        *)
(* history that every build can take back, that the schema has no gaps.    *)
(***************************************************************************)
EXTENDS Migrations, FiniteSetTheorems, WellFoundedInduction, TLAPS

-----------------------------------------------------------------------------
(* The invariant.  Who works holds the lock, so the table stays one its    *)
(* build knows; a revert takes what is above its target, which is below    *)
(* the latest migration it read.                                           *)

Locked(p) ==
    /\ lock = p <=> proc[p].pc = "work"
    /\ proc[p].pc = "work" => Extra(proc[p].build) = {}

Above(q) ==
    /\ \A v \in q.seen : v # Newest(q.seen) => v <= q.target
    /\ \A v \in q.undone : v > q.target

Commanded(q) ==
    /\ q.pc \in Working => q.build \in Builds
    /\ q.pc = "read" => q.undone = {}
    /\ q.op = "migrate" => q.pc \in Working

MInv ==
    /\ TypeOK
    /\ \A p \in Processes : Locked(p) /\ Above(proc[p]) /\ Commanded(proc[p])

-----------------------------------------------------------------------------
(* Versions. *)

\* A set of versions that is not empty has a newest and an oldest one.
LEMMA Extremes ==
    ASSUME NEW S \in SUBSET Versions, S # {}
    PROVE  /\ \E v \in S : \A w \in S : w <= v
           /\ \E v \in S : \A w \in S : v <= w
<1>1. IsFiniteSet(S) /\ S \subseteq Nat
  BY FS_Subset, MigrationConstants
<1>2. IsWellFoundedOn(StrictSubsetOrdering(S), SUBSET S)
  BY <1>1, FS_StrictSubsetOrderingWellFounded, FS_FiniteSubsetsOfFinite
<1>3. \E v \in S : \A w \in S : w <= v
  <2> DEFINE Higher(v) == {w \in S : w > v}
             T == {Higher(v) : v \in S}
  <2>1. T \subseteq SUBSET S /\ T # {}
    OBVIOUS
  <2>2. PICK X \in T : \A Y \in T : <<Y, X>> \notin StrictSubsetOrdering(S)
    BY <1>2, <2>1, WFMin
  <2>3. PICK v \in S : X = Higher(v)
    OBVIOUS
  <2>4. ASSUME NEW w \in S, w > v PROVE FALSE
    <3>1. Higher(w) \subseteq X /\ w \in X /\ w \notin Higher(w) /\ Higher(w) \in T
      BY <1>1, <2>3, <2>4
    <3>2. <<Higher(w), X>> \in StrictSubsetOrdering(S)
      BY <3>1, <2>1 DEF StrictSubsetOrdering
    <3> QED
      BY <2>2, <3>1, <3>2
  <2> QED
    BY <1>1, <2>4
<1>4. \E v \in S : \A w \in S : v <= w
  <2> DEFINE Below(v) == {w \in S : w < v}
             T == {Below(v) : v \in S}
  <2>1. T \subseteq SUBSET S /\ T # {}
    OBVIOUS
  <2>2. PICK X \in T : \A Y \in T : <<Y, X>> \notin StrictSubsetOrdering(S)
    BY <1>2, <2>1, WFMin
  <2>3. PICK v \in S : X = Below(v)
    OBVIOUS
  <2>4. ASSUME NEW w \in S, w < v PROVE FALSE
    <3>1. Below(w) \subseteq X /\ w \in X /\ w \notin Below(w) /\ Below(w) \in T
      BY <1>1, <2>3, <2>4
    <3>2. <<Below(w), X>> \in StrictSubsetOrdering(S)
      BY <3>1, <2>1 DEF StrictSubsetOrdering
    <3> QED
      BY <2>2, <3>1, <3>2
  <2> QED
    BY <1>1, <2>4
<1> QED
  BY <1>3, <1>4

LEMMA NewestIsLargest ==
    ASSUME NEW S \in SUBSET Versions
    PROVE  /\ Newest(S) \in Versions \cup {0}
           /\ S = {} => Newest(S) = 0
           /\ S # {} => Newest(S) \in S
           /\ \A v \in S : v <= Newest(S)
<1>1. CASE S = {}
  BY <1>1 DEF Newest
<1>2. CASE S # {}
  <2>1. Newest(S) \in S /\ \A w \in S : w <= Newest(S)
    BY <1>2, Extremes DEF Newest
  <2> QED
    BY <1>2, <2>1
<1> QED
  BY <1>1, <1>2

LEMMA OldestIsLeast ==
    ASSUME NEW S \in SUBSET Versions, S # {}
    PROVE  Oldest(S) \in S /\ \A w \in S : Oldest(S) <= w
BY Extremes DEF Oldest

LEMMA VersionSets ==
    /\ Rows \subseteq Versions /\ Versions \subseteq Nat \ {0}
    /\ \A b : Known(b) \subseteq Versions /\ Pending(b) \subseteq Versions
              /\ Modified(b) \subseteq Versions
BY MigrationConstants DEF Rows, Known, Pending, Modified

LEMMA VersionsAreNaturals == \A v : v \in Versions \cup {0} => v \in Nat
<1>1. Versions \subseteq Nat /\ 0 \in Nat
  BY MigrationConstants
<1> QED
  BY <1>1

-----------------------------------------------------------------------------
(* Every action keeps the invariant. *)

LEMMA InitInv == Init => MInv
<1> SUFFICES ASSUME Init PROVE MInv
  OBVIOUS
<1>1. Rest("ok") \in ProcType /\ Above(Rest("ok")) /\ Commanded(Rest("ok"))
  BY MigrationConstants DEF Rest, Start, ProcType, Above, Commanded, Working
<1>2. \A p \in Processes : proc[p] = Rest("ok") /\ proc[p].pc = "ok"
  BY DEF Init, Rest, Start
<1>3. TypeOK
  BY <1>1 DEF Init, TypeOK
<1>4. \A p \in Processes : Locked(p)
  BY <1>2, MigrationConstants DEF Init, Locked
<1> QED
  BY <1>1, <1>2, <1>3, <1>4 DEF MInv

\* One process goes on without a change of the table or the lock.
LEMMA ProceedKeeps ==
    ASSUME MInv, NEW p \in Processes, NEW q \in ProcType, q.pc # "work", proc[p].pc # "work",
           Above(q), Commanded(q), proc' = [proc EXCEPT ![p] = q], UNCHANGED <<applied, lock>>
    PROVE  MInv'
<1>1. proc'[p] = q /\ \A r \in Processes \ {p} : proc'[r] = proc[r]
  BY DEF MInv, TypeOK
<1>2. TypeOK'
  BY DEF MInv, TypeOK
<1>3. \A r \in Processes : Locked(r)' /\ Above(proc'[r]) /\ Commanded(proc'[r])
  BY <1>1 DEF MInv, Locked, Extra, Rows
<1> QED
  BY <1>2, <1>3 DEF MInv, Above, Commanded

LEMMA EndsKeeps ==
    ASSUME MInv, NEW p \in Processes, NEW result \in {"ok", "err"}, Ends(p, result),
           UNCHANGED applied
    PROVE  MInv'
<1>1. /\ Rest(result) \in ProcType /\ Above(Rest(result)) /\ Commanded(Rest(result))
      /\ Rest(result).pc = result
  BY MigrationConstants DEF Rest, Start, ProcType, Above, Commanded, Working
<1>2. /\ proc'[p] = Rest(result) /\ \A r \in Processes \ {p} : proc'[r] = proc[r]
      /\ lock' = IF lock = p THEN Null ELSE lock
  BY DEF MInv, TypeOK, Ends
<1>3. TypeOK'
  BY <1>1, <1>2 DEF MInv, TypeOK, Ends
<1>4. \A r \in Processes : Locked(r)' /\ Above(proc'[r]) /\ Commanded(proc'[r])
  BY <1>1, <1>2, MigrationConstants DEF MInv, Locked, Extra, Rows
<1> QED
  BY <1>3, <1>4 DEF MInv, Above, Commanded

LEMMA StartKeeps ==
    ASSUME MInv, NEW p \in Processes, NEW b \in Builds, StartMigrate(p, b) \/ StartRevert(p, b)
    PROVE  MInv'
<1>1. ASSUME NEW q, q \in {Start("lock", "migrate", b), Start("read", "revert", b)}
      PROVE  q \in ProcType /\ Above(q) /\ Commanded(q) /\ q.pc # "work"
  BY <1>1, MigrationConstants DEF Start, ProcType, Above, Commanded, Working
<1>2. proc[p].pc # "work"
  BY DEF StartMigrate, StartRevert, Working
<1> QED
  BY <1>1, <1>2, ProceedKeeps DEF StartMigrate, StartRevert

\* The target is the second of the list, so only the latest is above it.
LEMMA ReadAppliedKeeps ==
    ASSUME MInv, NEW p \in Processes, ReadApplied(p)
    PROVE  MInv'
<1> DEFINE latest == Newest(Rows)
<1>1. CASE latest \in Down[proc[p].build]
  <2> DEFINE q == [proc[p] EXCEPT !.pc = "lock", !.seen = Rows, !.target = TargetBelow(latest)]
  <2>1. /\ proc[p] \in ProcType /\ proc[p].pc = "read" /\ proc[p].undone = {}
        /\ proc[p].build \in Builds
    BY DEF MInv, TypeOK, ReadApplied, Commanded, Working
  <2>2. /\ TargetBelow(latest) \in Versions \cup {0}
        /\ \A v \in Rows : v # latest => v <= TargetBelow(latest)
    BY VersionSets, NewestIsLargest DEF TargetBelow
  <2>3. /\ q \in ProcType /\ q.pc = "lock" /\ q.undone = {} /\ q.seen = Rows
        /\ q.target = TargetBelow(latest) /\ q.build \in Builds
    BY <2>1, <2>2, VersionSets DEF ProcType, Working
  <2>4. proc' = [proc EXCEPT ![p] = q] /\ UNCHANGED <<applied, lock>>
    BY <1>1 DEF ReadApplied, MInv, TypeOK
  <2> HIDE DEF q
  <2>5. Above(q) /\ Commanded(q)
    BY <2>2, <2>3 DEF Above, Commanded, Working
  <2> QED
    BY <2>1, <2>3, <2>4, <2>5, ProceedKeeps
<1>2. CASE latest \notin Down[proc[p].build]
  BY <1>2, EndsKeeps DEF ReadApplied
<1> QED
  BY <1>1, <1>2

LEMMA AcquireKeeps ==
    ASSUME MInv, NEW p \in Processes, Acquire(p)
    PROVE  MInv'
<1>1. CASE Extra(proc[p].build) = {}
  <2> DEFINE q == [proc[p] EXCEPT !.pc = "work"]
  <2>1. /\ proc[p] \in ProcType /\ proc[p].pc = "lock" /\ lock = Null /\ lock' = p
        /\ proc' = [proc EXCEPT ![p] = q] /\ UNCHANGED applied
    BY <1>1 DEF MInv, TypeOK, Acquire
  <2>2. /\ q \in ProcType /\ q.pc = "work" /\ q.build = proc[p].build /\ q.op = proc[p].op
        /\ q.seen = proc[p].seen /\ q.undone = proc[p].undone /\ q.target = proc[p].target
    BY <2>1 DEF ProcType, Working
  <2> HIDE DEF q
  <2>3. proc'[p] = q /\ \A r \in Processes \ {p} : proc'[r] = proc[r]
    BY <2>1 DEF MInv, TypeOK
  <2>4. Above(q) /\ Commanded(q)
    BY <2>1, <2>2 DEF MInv, Above, Commanded, Working
  <2>5. TypeOK'
    BY <2>1, <2>2 DEF MInv, TypeOK
  <2>6. \A r \in Processes : Locked(r)' /\ Above(proc'[r]) /\ Commanded(proc'[r])
    BY <1>1, <2>1, <2>2, <2>3, <2>4, MigrationConstants DEF MInv, Locked, Extra, Rows
  <2> QED
    BY <2>5, <2>6 DEF MInv, Above, Commanded
<1>2. CASE Extra(proc[p].build) # {}
  BY <1>2, EndsKeeps DEF Acquire
<1> QED
  BY <1>1, <1>2

\* Who works holds the lock, so nobody else works.
LEMMA OnlyOneWorks ==
    ASSUME MInv, NEW p \in Processes, proc[p].pc = "work"
    PROVE  /\ \A r \in Processes \ {p} : proc[r].pc # "work"
           /\ proc[p].build \in Builds /\ Rows \subseteq Known(proc[p].build)
BY DEF MInv, Locked, Commanded, Working, Extra

\* The table gains a version the working build embeds.
LEMMA GainKeeps ==
    ASSUME MInv, NEW p \in Processes, proc[p].pc = "work",
           NEW v \in Pending(proc[p].build),
           applied' = [applied EXCEPT ![v] = Embedded[proc[p].build][v]],
           UNCHANGED <<lock, proc>>
    PROVE  MInv' /\ Rows' = Rows \cup {v}
<1> DEFINE b == proc[p].build
<1>1. b \in Builds /\ Rows \subseteq Known(b) /\ v \in Known(b) /\ v \in Versions
      /\ \A r \in Processes \ {p} : proc[r].pc # "work"
  BY OnlyOneWorks, VersionSets DEF Pending
<1>2. Embedded[b][v] \in Nat /\ Embedded[b][v] # 0
  BY <1>1, MigrationConstants DEF Known
<1>3. TypeOK' /\ Rows' = Rows \cup {v}
  BY <1>1, <1>2 DEF MInv, TypeOK, Rows
<1>4. \A r \in Processes : Locked(r)'
  BY <1>1, <1>3 DEF MInv, Locked, Extra
<1> QED
  BY <1>3, <1>4 DEF MInv, Above, Commanded

LEMMA ApplyKeeps ==
    ASSUME MInv, NEW p \in Processes, Apply(p)
    PROVE  MInv'
<1> DEFINE b == proc[p].build
           todo == Pending(b) \cup Modified(b)
<1>1. CASE UNCHANGED applied /\ \E result \in {"ok", "err"} : Ends(p, result)
  BY <1>1, EndsKeeps
<1>2. CASE /\ Oldest(todo) \in Pending(b)
           /\ applied' = [applied EXCEPT ![Oldest(todo)] = Embedded[b][Oldest(todo)]]
           /\ UNCHANGED <<lock, proc>>
  <2>1. proc[p].pc = "work"
    BY DEF Apply
  <2> HIDE DEF todo
  <2> QED
    BY <1>2, <2>1, GainKeeps
<1> QED
  BY <1>1, <1>2 DEF Apply

\* What undo takes is above the target of the read.
LEMMA UndoKeeps ==
    ASSUME MInv, NEW p \in Processes, Undo(p)
    PROVE  MInv'
<1>1. CASE Undoable(p) = 0
  BY <1>1, EndsKeeps DEF Undo
<1>2. CASE Undoable(p) # 0
  <2> DEFINE v == Undoable(p)
             q == [proc[p] EXCEPT !.undone = proc[p].undone \cup {v}]
  <2>1. /\ proc[p].pc = "work" /\ proc[p].op = "revert" /\ proc[p] \in ProcType
        /\ lock' = lock /\ applied' = [applied EXCEPT ![v] = 0]
        /\ proc' = [proc EXCEPT ![p] = q]
    BY <1>2 DEF MInv, TypeOK, Undo
  <2>2. v \in Rows /\ v \in Versions /\ v > proc[p].target
    BY <1>2, VersionSets, NewestIsLargest DEF Undoable
  <2> HIDE DEF v
  <2>3. /\ q \in ProcType /\ q.pc = "work" /\ q.build = proc[p].build /\ q.op = "revert"
        /\ q.seen = proc[p].seen /\ q.target = proc[p].target
        /\ q.undone = proc[p].undone \cup {v}
    BY <2>1, <2>2 DEF ProcType
  <2> HIDE DEF q
  <2>4. proc'[p] = q /\ \A r \in Processes \ {p} : proc'[r] = proc[r]
    BY <2>1 DEF MInv, TypeOK
  <2>5. TypeOK' /\ Rows' \subseteq Rows
    BY <2>1, <2>2, <2>3 DEF MInv, TypeOK, Rows
  <2>6. Above(q) /\ Commanded(q)
    BY <2>1, <2>2, <2>3, MigrationConstants DEF MInv, Above, Commanded, Working
  <2>7. \A r \in Processes : Locked(r)' /\ Above(proc'[r]) /\ Commanded(proc'[r])
    BY <2>1, <2>3, <2>4, <2>5, <2>6, OnlyOneWorks DEF MInv, Locked, Extra
  <2> QED
    BY <2>5, <2>7 DEF MInv, Above, Commanded
<1> QED
  BY <1>1, <1>2

LEMMA Inductive ==
    ASSUME MInv, [Next]_vars
    PROVE  MInv'
<1>1. CASE UNCHANGED vars
  BY <1>1 DEF vars, MInv, TypeOK, Locked, Above, Commanded, Extra, Rows
<1>2. ASSUME NEW p \in Processes, Fail(p) PROVE MInv'
  BY <1>2, EndsKeeps DEF Fail
<1> QED
  BY <1>1, <1>2, StartKeeps, ReadAppliedKeeps, AcquireKeeps, ApplyKeeps, UndoKeeps DEF Next

LEMMA Invariant == Spec => []MInv
<1>1. MInv /\ [Next]_vars => MInv'
  BY Inductive
<1> QED
  BY InitInv, <1>1, PTL DEF Spec

-----------------------------------------------------------------------------
(* Theorems. *)

\* db revert, whatever others did between its read and sqlx's lock: of what it
\* read it takes only the latest migration away.
THEOREM RevertsOnlyTheLatest == Spec => []RevertSparesWhatItRead
<1>1. ASSUME MInv PROVE RevertSparesWhatItRead
  <2> SUFFICES ASSUME NEW p \in Processes, NEW v \in proc[p].undone \cap proc[p].seen
               PROVE  v = Newest(proc[p].seen)
    BY DEF RevertSparesWhatItRead
  <2>1. proc[p].undone \subseteq Versions /\ proc[p].target \in Versions \cup {0}
    BY <1>1 DEF MInv, TypeOK, ProcType
  <2>2. v \in Nat /\ proc[p].target \in Nat
    BY <2>1, VersionsAreNaturals
  <2>3. Above(proc[p])
    BY <1>1 DEF MInv
  <2> QED
    BY <2>2, <2>3 DEF Above
<1> QED
  BY <1>1, Invariant, PTL

\* A migrate of a build that embeds a migration succeeds only on a database
\* that build calls ready.
THEOREM MigratesToReady == ASSUME Embeds PROVE Spec => MigratedMeansReady
<1>1. ASSUME MInv, [Next]_vars, NEW p \in Processes,
             proc[p].op = "migrate", proc'[p].pc = "ok"
      PROVE  IsCurrent(proc[p].build)
  <2>0. proc[p].pc \in Working /\ proc[p].build \in Builds /\ DOMAIN proc = Processes
    BY <1>1 DEF MInv, TypeOK, Commanded
  <2>1. proc'[p] # proc[p]
    BY <1>1, <2>0 DEF Working
  <2>2. ASSUME NEW r \in Processes, r # p,
               \/ \E b \in Builds : StartMigrate(r, b) \/ StartRevert(r, b)
               \/ ReadApplied(r) \/ Acquire(r) \/ Apply(r) \/ Undo(r) \/ Fail(r)
        PROVE  FALSE
    BY <2>0, <2>1, <2>2
       DEF StartMigrate, StartRevert, ReadApplied, Acquire, Apply, Undo, Fail, Ends
  <2>3. ASSUME \/ \E b \in Builds : StartMigrate(p, b) \/ StartRevert(p, b)
               \/ ReadApplied(p) \/ Acquire(p) \/ Undo(p) \/ Fail(p)
        PROVE  FALSE
    BY <1>1, <2>0, <2>3
       DEF StartMigrate, StartRevert, ReadApplied, Acquire, Undo, Fail, Ends, Start, Rest,
           MInv, TypeOK, ProcType
  <2>4. Apply(p)
    BY <1>1, <2>1, <2>2, <2>3 DEF Next, vars
  <2>5. Pending(proc[p].build) \cup Modified(proc[p].build) = {}
    BY <1>1, <2>0, <2>1, <2>4 DEF Apply, Ends, Rest, Start
  <2> QED
    BY <2>0, <2>5 DEF IsCurrent, Pending, Modified, Embeds
<1>2. MInv /\ [Next]_vars =>
        [\A p \in Processes :
            proc[p].op = "migrate" /\ proc'[p].pc = "ok" => IsCurrent(proc[p].build)]_vars
  BY <1>1
<1> QED
  BY Invariant, <1>2, PTL DEF Spec, MigratedMeansReady

\* The oldest pending migration goes in first and the newest one out first,
\* so builds that share one history never leave a gap in the schema.
THEOREM SchemaHasNoGaps == ASSUME Linear, Reversible PROVE Spec => []NoGaps
<1>1. Init => NoGaps
  BY DEF Init, NoGaps, Rows
<1>2. ASSUME MInv, NoGaps, [Next]_vars PROVE NoGaps'
  <2>1. CASE UNCHANGED applied
    BY <1>2, <2>1 DEF NoGaps, Rows
  <2>2. ASSUME NEW p \in Processes, Apply(p), applied' # applied PROVE NoGaps'
    <3> DEFINE b == proc[p].build
               todo == Pending(b) \cup Modified(b)
               v == Oldest(todo)
    <3>1. /\ proc[p].pc = "work" /\ todo # {} /\ v \in Pending(b)
          /\ applied' = [applied EXCEPT ![v] = Embedded[b][v]] /\ UNCHANGED <<lock, proc>>
      BY <2>2 DEF Apply
    <3>2. b \in Builds /\ todo \subseteq Versions /\ \A w \in todo : v <= w
      BY <1>2, <3>1, OnlyOneWorks, VersionSets, OldestIsLeast
    <3> HIDE DEF todo
    <3>3. Rows' = Rows \cup {v}
      BY <1>2, <3>1, GainKeeps
    <3>4. ASSUME NEW w \in Versions, w < v PROVE w \in Rows
      <4>1. w \in Known(b) /\ v \in Nat /\ w \in Nat
        BY <3>1, <3>2, <3>4, VersionSets DEF Linear, Pending
      <4>2. w \notin todo
        BY <3>2, <3>4, <4>1
      <4> QED
        BY <4>1, <4>2 DEF todo, Pending
    <3> HIDE DEF v
    <3> QED
      BY <1>2, <3>3, <3>4 DEF NoGaps
  <2>3. ASSUME NEW p \in Processes, Undo(p), applied' # applied PROVE NoGaps'
    <3> DEFINE b == proc[p].build
               v == Undoable(p)
               S == {w \in Rows \cap Down[b] : w > proc[p].target}
    <3>1. proc[p].pc = "work" /\ v # 0 /\ applied' = [applied EXCEPT ![v] = 0]
      BY <2>3 DEF Undo
    <3>2. v \in S /\ \A w \in S : w <= v
      BY <3>1, VersionSets, NewestIsLargest DEF Undoable
    <3>3. Rows \subseteq Down[b]
      BY <1>2, <3>1, OnlyOneWorks DEF Reversible
    <3>4. v \in Versions /\ proc[p].target \in Nat /\ Rows' = Rows \ {v}
      <4>1. proc[p].target \in Versions \cup {0} /\ applied \in [Versions -> Nat]
        BY <1>2 DEF MInv, TypeOK, ProcType
      <4>2. v \in Versions /\ proc[p].target \in Nat
        BY <3>2, <4>1, VersionSets, VersionsAreNaturals
      <4> HIDE DEF v
      <4> QED
        BY <3>1, <4>1, <4>2 DEF Rows
    <3> HIDE DEF v
    <3>5. \A w \in Rows : w <= v
      BY <3>2, <3>3, <3>4, VersionSets
    <3> QED
      BY <1>2, <3>4, <3>5, VersionSets DEF NoGaps
  <2>4. ASSUME NEW p \in Processes, ~Apply(p), ~Undo(p),
               \/ \E b \in Builds : StartMigrate(p, b) \/ StartRevert(p, b)
               \/ ReadApplied(p) \/ Acquire(p) \/ Fail(p)
        PROVE  UNCHANGED applied
    BY <2>4 DEF StartMigrate, StartRevert, ReadApplied, Acquire, Fail
  <2> QED
    BY <1>2, <2>1, <2>2, <2>3, <2>4 DEF Next, vars
<1> QED
  BY <1>1, <1>2, Invariant, PTL DEF Spec

\* db info and the readiness check agree on every table, as long as every
\* build embeds a migration: on an empty one, of which a build without any has
\* nothing pending, it would not be ready.
THEOREM InfoAndReadinessAgree == ASSUME Embeds PROVE Spec => []InfoAgreesWithReadiness
<1>1. InfoAgreesWithReadiness
  <2> SUFFICES ASSUME NEW b \in Builds, Modified(b) = {}
               PROVE  IsCurrent(b) <=> Pending(b) = {}
    BY DEF InfoAgreesWithReadiness, InfoSucceeds
  <2>1. IsCurrent(b) => Pending(b) = {}
    BY DEF IsCurrent, Pending
  <2>2. ASSUME Pending(b) = {} PROVE IsCurrent(b)
    <3>1. Known(b) \subseteq Rows
      BY <2>2 DEF Pending
    <3>2. Rows # {}
      BY <3>1 DEF Embeds
    <3>3. \A v \in Known(b) : applied[v] = Embedded[b][v]
      BY <3>1 DEF Modified
    <3> QED
      BY <3>1, <3>2, <3>3 DEF IsCurrent
  <2> QED
    BY <2>1, <2>2
<1> QED
  BY <1>1, PTL
=============================================================================
