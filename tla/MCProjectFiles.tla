-------------------------- MODULE MCProjectFiles --------------------------
(* ProjectFiles for TLC. *)
EXTENDS ProjectFiles

CONSTANTS r1, r2, readme, skeleton

Migration(v) == <<Script(v, skeleton, "down"), Script(v, skeleton, "up")>>

\* The second revision has lost a file and gained a migration.
TheTracked ==
    [r \in {r1, r2} |-> IF r = r1 THEN Migration(1) \o <<readme>>
                                  ELSE Migration(1) \o Migration(2)]

\* The hypothesis of the theorems holds of these revisions and names.
ASSUME NewNamesApart

Symmetry == Permutations(Creators) \cup Permutations(Generators)
===========================================================================
