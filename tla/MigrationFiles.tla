--------------------------- MODULE MigrationFiles ---------------------------
(***************************************************************************)
(* migration:create (src/src/bootstrap/database.rs): processes that each   *)
(* add a pair of scripts to the migrations of a project.  A step is what   *)
(* happens between two system calls on the directory.                      *)
(***************************************************************************)
EXTENDS ProjectDisk

CONSTANTS
    Creators,     \* processes that run migration:create
    NewNames,     \* names developers give
    Clock         \* values of the clock, read to the second; it may go back

VARIABLES
    creator,      \* process -> its progress
    excused       \* HISTORY: <<version, name>> a dead creator left, or a failed removal

mvars == <<creator, excused>>

ASSUME CreatorConstants == NewNames \subseteq Names /\ Clock \subseteq Nat \ {0}

Creating == {"scan", "open", "write"}

\* half is the file being made: both are made in the same way, up first.
CreatorType ==
    [pc      : Creating \cup {"ok", "err"},
     name    : NewNames \cup {"none"},
     version : 0..MaxVersion,
     half    : Halves,
     floor   : 0..MaxVersion]        \* HISTORY: newest pair when it started

CRest(result) ==
    [pc |-> result, name |-> "none", version |-> 0, half |-> "up", floor |-> 0]

Path(c) == Script(creator[c].version, creator[c].name, creator[c].half)

UpPath(c) == Script(creator[c].version, creator[c].name, "up")

\* The newest version of which both scripts are there and written.
Newest ==
    LET whole == {v \in 1..MaxVersion : \E n \in Names : \A half \in Halves :
                     disk[Script(v, n, half)] \notin {"none", "partial"}}
    IN  IF whole = {} THEN 0 ELSE CHOOSE v \in whole : \A w \in whole : w <= v

\* The migration c works on, if only one of its scripts stays in this step.
LeftHalf(c) ==
    LET v == creator[c].version
        n == creator[c].name
    IN  IF v # 0 /\ (disk'[Script(v, n, "up")] # "none") # (disk'[Script(v, n, "down")] # "none")
        THEN {<<v, n>>} ELSE {}

-----------------------------------------------------------------------------
\* validate_migration_name refuses the name, or it does not.
StartCreate(c, name) ==
    /\ creator[c].pc \notin Creating
    /\ Buildable
    /\ creator' = [creator EXCEPT ![c] =
          IF name = "none" THEN CRest("err")
          ELSE [CRest("scan") EXCEPT !.name = name, !.floor = Newest]]
    /\ UNCHANGED <<disk, excused>>

Versions == {p[1] : p \in {q \in Scripts : There(q)}}

\* MUTANT of NextVersion: a version that is taken is taken once more.
NextVersionOrEqual(now) ==
    LET above == {v \in Versions : v > now}
    IN  IF above = {} THEN now ELSE CHOOSE v \in above : \A w \in above : w <= v

\* next_migration_version: the clock's, or one more than the newest there is.
NextVersion(now) ==
    LET above == {v \in Versions : v >= now}
    IN  IF above = {} THEN now ELSE 1 + CHOOSE v \in above : \A w \in above : w <= v

\* MUTANT of Scan: the addition is not checked.
ScanUnchecked(c, now) ==
    /\ creator[c].pc = "scan"
    /\ creator' = [creator EXCEPT ![c].pc = "open", ![c].version = NextVersion(now)]
    /\ UNCHANGED <<disk, excused>>

\* The directory is read; the next version may not exist.
Scan(c, now) ==
    /\ creator[c].pc = "scan"
    /\ creator' = [creator EXCEPT ![c] =
          IF NextVersion(now) > MaxVersion THEN CRest("err")
          ELSE [@ EXCEPT !.pc = "open", !.version = NextVersion(now)]]
    /\ UNCHANGED <<disk, excused>>

\* MUTANT of Opens: create instead of create_new.
OpensAny(p) == TRUE

\* create_new: the file must not be there.
Opens(p) == ~There(p)

Open(c) ==
    /\ creator[c].pc = "open"
    /\ Opens(Path(c))
    /\ Put(Path(c), "partial")
    /\ creator' = [creator EXCEPT ![c].pc = "write"]
    /\ UNCHANGED excused

\* The files `gone` are removed, as far as that succeeds, and c fails.
GiveUp(c, gone) ==
    /\ \E removed \in SUBSET gone :
          /\ disk' = [p \in Paths |-> IF p \in removed THEN "none" ELSE disk[p]]
          /\ excused' = IF removed = gone THEN excused
                        ELSE excused \cup LeftHalf(c)
    /\ creator' = [creator EXCEPT ![c] = CRest("err")]

\* MUTANT of Created: the other half is forgotten.
CreatedNothing(c) == {}

\* What write_new_migration_files has already created.
Created(c) == IF creator[c].half = "down" THEN {UpPath(c)} ELSE {}

\* The file is there already, or cannot be created.
OpenFails(c) ==
    /\ creator[c].pc = "open"
    /\ GiveUp(c, Created(c))

WriteFails(c) ==
    /\ creator[c].pc = "write"
    /\ GiveUp(c, Created(c) \cup {Path(c)})

\* The template is written; the other half follows, or success is reported.
Written(c) ==
    /\ creator[c].pc = "write"
    /\ Put(Path(c), "template")
    /\ IF creator[c].half = "up"
       THEN creator' = [creator EXCEPT ![c].pc = "open", ![c].half = "down"]
       ELSE creator' = [creator EXCEPT ![c].pc = "ok"]
    /\ UNCHANGED excused

KillCreator(c) ==
    /\ creator[c].pc \in Creating
    /\ UNCHANGED disk
    /\ excused' = excused \cup LeftHalf(c)
    /\ creator' = [creator EXCEPT ![c] = CRest("err")]

MInit ==
    /\ creator = [c \in Creators |-> CRest("err")]
    /\ excused = {}

MNext ==
    \E c \in Creators :
        \/ \E name \in NewNames \cup {"none"} : StartCreate(c, name)
        \/ \E now \in Clock : Scan(c, now)
        \/ Open(c) \/ OpenFails(c) \/ Written(c) \/ WriteFails(c) \/ KillCreator(c)

-----------------------------------------------------------------------------
(* Properties. *)

MTypeOK ==
    /\ creator \in [Creators -> CreatorType]
    /\ excused \subseteq (1..MaxVersion) \X NewNames

\* "Every migration:create generates a matching .up.sql and .down.sql pair":
\* once nobody works on it, a migration has both its scripts or none, unless
\* its creator died or could not remove what it had made.
PairOrNothing ==
    \A v \in 1..MaxVersion, n \in NewNames :
        \/ There(Script(v, n, "up")) <=> There(Script(v, n, "down"))
        \/ <<v, n>> \in excused
        \/ \E c \in Creators : /\ creator[c].pc \in Creating
                               /\ creator[c].version = v /\ creator[c].name = n

\* The pair a creator reported stays there as it wrote it, whatever other
\* creators of the same version and name do, fail at and clean up.
ReportedFilesExist ==
    \A c \in Creators : creator[c].pc = "ok" =>
        \A half \in Halves :
            disk[Script(creator[c].version, creator[c].name, half)] = "template"

\* A migration is newer than every one that was whole when its creation began,
\* the skeleton's included, though the clock be behind.  Of creations that
\* overlap it says nothing: either may get the lower version.
LaterIsNewer ==
    \A c \in Creators : creator[c].pc = "ok" => creator[c].version > creator[c].floor
=============================================================================
