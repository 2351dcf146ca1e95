---------------------------- MODULE MCMigrations ----------------------------
(* Migrations for TLC. *)
EXTENDS Migrations, TLC

CONSTANTS older, newer, edited

\* The newer build has one migration more than the older one; the edited one
\* has changed the script of a migration that others may have applied.
TheBuilds == {older, newer, edited}

TheEmbedded ==
    [b \in TheBuilds |->
        CASE b = older  -> <<1, 1, 0>>
          [] b = newer  -> <<1, 1, 1>>
          [] b = edited -> <<1, 2, 1>>]

TheDown == [b \in TheBuilds |-> IF b = older THEN {1, 2} ELSE {1, 2, 3}]

\* The hypotheses of the theorems hold of these builds.
ASSUME Linear /\ Reversible /\ Embeds

Symmetry == Permutations(Processes)
=============================================================================
