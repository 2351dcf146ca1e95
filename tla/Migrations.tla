----------------------------- MODULE Migrations -----------------------------
(***************************************************************************)
(* Schema migrations: db migrate, db revert, db info and the readiness     *)
(* check (src/src/bootstrap/database.rs, postgres/migrations.rs), run by   *)
(* processes of several builds against one database.                       *)
(*                                                                         *)
(* Migrator::run and undo are sqlx's: they hold an advisory lock, and each *)
(* migration commits together with its row of _sqlx_migrations, so a row   *)
(* is there exactly if its migration is, and `success` is always true.     *)
(***************************************************************************)
EXTENDS Integers, FiniteSets

CONSTANTS
    Processes,   \* processes that run commands
    Builds,      \* binaries
    Embedded,    \* build -> version -> checksum of its up script, 0 if none
    Down,        \* build -> versions with an embedded down script
    Null

VARIABLES
    applied,     \* _sqlx_migrations: version -> checksum, 0 if there is no row
    lock,        \* the process that holds sqlx's advisory lock
    proc         \* process -> the command it runs

vars == <<applied, lock, proc>>

Versions == UNION {DOMAIN Embedded[b] : b \in Builds}

ASSUME MigrationConstants ==
    /\ Null \notin Processes \cup {"migrate", "revert"}
    /\ IsFiniteSet(Versions)
    /\ \A b \in Builds : Embedded[b] \in [Versions -> Nat] /\ Down[b] \subseteq Versions
    /\ Versions \subseteq Nat \ {0}

-----------------------------------------------------------------------------
(* What a build sees in a table. *)

Rows == {v \in Versions : applied[v] # 0}

Known(b) == {v \in Versions : Embedded[b][v] # 0}

Pending(b) == Known(b) \ Rows

\* MUTANT of Modified: checksums are not compared.
ModifiedIgnored(b) == {}

\* Applied from a script other than the embedded one.
Modified(b) == {v \in Known(b) \cap Rows : applied[v] # Embedded[b][v]}

Extra(b) == Rows \ Known(b)

\* migration_state_is_current, the readiness check.
IsCurrent(b) ==
    /\ Rows # {}
    /\ \A v \in Known(b) : v \in Rows /\ applied[v] = Embedded[b][v]

\* db info ends without an error.
InfoSucceeds(b) == Modified(b) = {} /\ Extra(b) = {}

Newest(S) == IF S = {} THEN 0 ELSE CHOOSE v \in S : \A w \in S : w <= v

Oldest(S) == CHOOSE v \in S : \A w \in S : v <= w

\* What migrations/ and migration:create give: one history, of which a
\* build embeds a beginning, and a down script for every migration.
Linear == \A b \in Builds : \A v \in Known(b) : \A w \in Versions : w < v => w \in Known(b)

Reversible == \A b \in Builds : Known(b) \subseteq Down[b]

Embeds == \A b \in Builds : Known(b) # {}

-----------------------------------------------------------------------------
(* Commands.  pc is what the process does next; "ok" and "err" are results. *)

Start(pc, op, b) == [pc |-> pc, op |-> op, build |-> b, target |-> 0, seen |-> {}, undone |-> {}]

Rest(result) == Start(result, Null, Null)

Working == {"read", "lock", "work"}

ProcType ==
    [pc     : Working \cup {"ok", "err"},
     op     : {"migrate", "revert", Null},
     build  : Builds \cup {Null},
     target : Versions \cup {0},
     seen   : SUBSET Versions,               \* applied_versions of a revert
     undone : SUBSET Versions]               \* HISTORY: what it took away

Ends(p, result) ==
    /\ proc' = [proc EXCEPT ![p] = Rest(result)]
    /\ lock' = IF lock = p THEN Null ELSE lock

\* db migrate, or all --migrate.
StartMigrate(p, b) ==
    /\ proc[p].pc \notin Working
    /\ proc' = [proc EXCEPT ![p] = Start("lock", "migrate", b)]
    /\ UNCHANGED <<applied, lock>>

\* db revert --yes.
StartRevert(p, b) ==
    /\ proc[p].pc \notin Working
    /\ proc' = [proc EXCEPT ![p] = Start("read", "revert", b)]
    /\ UNCHANGED <<applied, lock>>

\* MUTANT of TargetBelow: the third of the list.
TargetBelowNext(latest) == Newest(Rows \ {latest, Newest(Rows \ {latest})})

\* applied_versions.get(1), or 0.
TargetBelow(latest) == Newest(Rows \ {latest})

\* revert reads the table before it takes any lock: the newest row must be
\* reversible in this build, and the one below it is the target of undo.
ReadApplied(p) ==
    /\ proc[p].pc = "read"
    /\ LET latest == Newest(Rows)
       IN  IF latest \in Down[proc[p].build]
           THEN /\ proc' = [proc EXCEPT ![p].pc = "lock", ![p].seen = Rows,
                                           ![p].target = TargetBelow(latest)]
                /\ UNCHANGED lock
           ELSE Ends(p, "err")
    /\ UNCHANGED applied

\* sqlx: the lock, then every row must be of a migration the build knows.
Acquire(p) ==
    /\ proc[p].pc = "lock"
    /\ lock = Null
    /\ IF Extra(proc[p].build) = {} THEN /\ lock' = p
                                         /\ proc' = [proc EXCEPT ![p].pc = "work"]
                                    ELSE Ends(p, "err")
    /\ UNCHANGED applied

\* sqlx run: in the order of the versions, a modified migration is an error
\* and a pending one is applied, each in its own transaction.
Apply(p) ==
    /\ proc[p].pc = "work" /\ proc[p].op = "migrate"
    /\ LET b == proc[p].build
           todo == Pending(b) \cup Modified(b)
       IN  \/ /\ todo = {}
              /\ Ends(p, "ok")
              /\ UNCHANGED applied
           \/ /\ todo # {} /\ Oldest(todo) \in Modified(b)
              /\ Ends(p, "err")
              /\ UNCHANGED applied
           \/ /\ todo # {} /\ Oldest(todo) \in Pending(b)
              /\ applied' = [applied EXCEPT ![Oldest(todo)] = Embedded[b][Oldest(todo)]]
              /\ UNCHANGED <<lock, proc>>

\* MUTANT of Undoable: the rows go in the order in which they came.
UndoableUpwards(p) ==
    LET S == {v \in Rows \cap Down[proc[p].build] : v > proc[p].target}
    IN  IF S = {} THEN 0 ELSE Oldest(S)

\* The next migration undo reverts: newest first, down to the target.
Undoable(p) == Newest({v \in Rows \cap Down[proc[p].build] : v > proc[p].target})

\* sqlx undo, each migration in its own transaction.
Undo(p) ==
    /\ proc[p].pc = "work" /\ proc[p].op = "revert"
    /\ IF Undoable(p) = 0
       THEN /\ Ends(p, "ok")
            /\ UNCHANGED applied
       ELSE /\ applied' = [applied EXCEPT ![Undoable(p)] = 0]
            /\ proc' = [proc EXCEPT ![p].undone = @ \cup {Undoable(p)}]
            /\ UNCHANGED lock

\* The process dies, loses its connection or its script fails: what was
\* committed stays, and the session's lock is released.
Fail(p) ==
    /\ proc[p].pc \in Working
    /\ Ends(p, "err")
    /\ UNCHANGED applied

Init ==
    /\ applied = [v \in Versions |-> 0]
    /\ lock = Null
    /\ proc = [p \in Processes |-> Rest("ok")]

Next ==
    \E p \in Processes :
        \/ \E b \in Builds : StartMigrate(p, b) \/ StartRevert(p, b)
        \/ ReadApplied(p) \/ Acquire(p) \/ Apply(p) \/ Undo(p) \/ Fail(p)

Spec == Init /\ [][Next]_vars

-----------------------------------------------------------------------------
(* Properties. *)

\* TYPE.
TypeOK ==
    /\ applied \in [Versions -> Nat]
    /\ lock \in Processes \cup {Null}
    /\ proc \in [Processes -> ProcType]

\* The schema is always one that some build went through: no migration is
\* there without the ones before it, however migrations, reverts and crashes
\* of several builds interleave.
NoGaps == \A v \in Rows : \A w \in Versions : w < v => w \in Rows

\* db migrate of a build succeeds only on a database that build calls ready:
\* neither a revert, a crash nor a build with other scripts leaves a table
\* that sqlx accepts and migration_state_is_current does not.
MigratedMeansReady ==
    [][\A p \in Processes :
          proc[p].op = "migrate" /\ proc'[p].pc = "ok" => IsCurrent(proc[p].build)]_vars

\* db info and the readiness check, which compare the table each in its own
\* way, agree: where info finds nothing wrong, ready is what has nothing
\* pending.
InfoAgreesWithReadiness ==
    \A b \in Builds : InfoSucceeds(b) => (IsCurrent(b) <=> Pending(b) = {})

\* db revert takes its target from a read that precedes sqlx's lock.  Whatever
\* others apply and revert in between, of the migrations it read it takes away
\* the latest one and no other; what else it takes came after its read.
RevertSparesWhatItRead ==
    \A p \in Processes : proc[p].undone \cap proc[p].seen \subseteq {Newest(proc[p].seen)}
=============================================================================
