----------------------------- MODULE MCMediaFiles -----------------------------
(* MediaFiles for TLC: a post of two files, and the same post after one of *)
(* them was removed on Instagram.                                          *)
EXTENDS MediaFiles, TLC

CONSTANTS v1, v2

PostSize == (v1 :> 2) @@ (v2 :> 1)

JobSymmetry == Permutations(Jobs)

=============================================================================
