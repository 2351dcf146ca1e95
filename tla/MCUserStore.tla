---------------------------- MODULE MCUserStore ----------------------------
(* UserStore for TLC. *)
EXTENDS UserStore, TLC

Symmetry == Permutations(Requests) \cup Permutations(Users)
============================================================================
