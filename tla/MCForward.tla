----------------------------- MODULE MCForward ------------------------------
(* Two requests at a time, one JSON handler.                               *)
EXTENDS Forward, TLC

Symmetry == Permutations(Requests) \cup Permutations(Handlers)
=============================================================================
