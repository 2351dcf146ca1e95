----------------------------- MODULE MCHttpApi -----------------------------
(* HttpApi for TLC. *)
EXTENDS HttpApi

Symmetry == Permutations(Requests) \cup Permutations(Users)
============================================================================
