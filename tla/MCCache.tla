------------------------------ MODULE MCCache -------------------------------
(* One key, found empty or with two responses, which may come to share a   *)
(* body.                                                                   *)
EXTENDS Cache, TLC

CONSTANTS s1, s2, h1, h2

MCBefore == {(s1 :> h1) @@ (s2 :> h2)}
=============================================================================
