---------------------------- MODULE ProjectFiles ----------------------------
(***************************************************************************)
(* The life of a project's directory: it is generated, perhaps in several  *)
(* attempts, and migrations are added to it.                               *)
(***************************************************************************)
EXTENDS MigrationFiles, Scaffold

vars == <<disk, mvars, svars>>

AtRest ==
    /\ \A c \in Creators : creator[c].pc \notin Creating
    /\ \A g \in Generators : ~Running(g)

\* The developer removes the directory, to start again after a failure.
StartOver ==
    /\ AtRest
    /\ disk' = EmptyDisk
    /\ creator' = [c \in Creators |-> CRest("err")]
    /\ excused' = {}
    /\ UNCHANGED svars

Init == disk = EmptyDisk /\ MInit /\ SInit

Next ==
    \/ MNext /\ UNCHANGED svars
    \/ SNext /\ UNCHANGED mvars
    \/ StartOver

Spec == Init /\ [][Next]_vars

\* The names developers give are none of the skeleton's: where they are not, a
\* generator that another one overlapped may still write a script of its
\* revision over one that migration:create made.
NewNamesApart ==
    \A r \in Revisions, v \in 1..MaxVersion, n \in NewNames, half \in Halves :
        Script(v, n, half) \notin Files(r)

\* TYPE.
TypeOK ==
    /\ disk \in [Paths -> Contents]
    /\ MTypeOK
    /\ STypeOK
=============================================================================
