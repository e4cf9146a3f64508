---------------------------- MODULE MCFileCache -----------------------------
(* Two bodies that fit, which together make Prune necessary, in two        *)
(* directories, and one that is too big.                                   *)
EXTENDS FileCache, TLC

CONSTANTS b, d, big

MCContents == {b, d, big}
MCSize == (b :> 2) @@ (d :> 2) @@ (big :> 3)
MCDirOf == (b :> 1) @@ (d :> 0) @@ (big :> 1)
=============================================================================
