---------------------------- MODULE ProjectDisk ----------------------------
(***************************************************************************)
(* The directory of one generated project, which skeleton-new writes       *)
(* (Scaffold.tla) and migration:create adds to (MigrationFiles.tla).       *)
(***************************************************************************)
EXTENDS Integers, Sequences, FiniteSets

CONSTANTS
    Revisions,    \* commits of the skeleton
    Tracked,      \* revision -> its tracked files outside scaffold/, sorted
    Others,       \* files that are no migration scripts
    Names,        \* names of migrations
    MaxVersion    \* i64::MAX

VARIABLE disk     \* path -> what is there

Script(version, name, half) == <<version, name, half>>

Halves == {"up", "down"}

Scripts == (1..MaxVersion) \X Names \X Halves

Paths == Others \cup Scripts

\* "partial" is a file that was created and not written to its end;
\* "template" the script migration:create writes; a revision, the file as
\* skeleton-new renders it.
Contents == {"none", "partial", "template"} \cup Revisions

Files(r) == {Tracked[r][i] : i \in DOMAIN Tracked[r]}

ASSUME DiskConstants ==
    /\ MaxVersion \in Nat
    /\ Revisions \cap {"none", "partial", "template"} = {}
    /\ \A r \in Revisions : Tracked[r] \in Seq(Paths)

There(p) == disk[p] # "none"

Put(p, content) == disk' = [disk EXCEPT ![p] = content]

EmptyDisk == [p \in Paths |-> "none"]

\* cargo run finds a whole project.
Buildable == \E r \in Revisions : \A p \in Files(r) : disk[p] \notin {"none", "partial"}
=============================================================================
