----------------------------- MODULE MCDatabase -----------------------------
(* Callers and the sweeping goroutine over a few keys.                     *)
EXTENDS Database, TLC

CONSTANTS Callers

MCHandles == Callers \cup {Sweeper}

\* Values and keys are interchangeable; no property tells them apart.
MCSymmetry == {p @@ q : p \in Permutations(Values), q \in Permutations(Keys)}
=============================================================================
