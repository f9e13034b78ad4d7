---------------------------- MODULE MCBatchTree ----------------------------
(* A small instance of BatchTree for TLC: a batch of two whose first child *)
(* may become a batch of one.                                              *)
EXTENDS BatchTree, TLC

CONSTANTS r, a, b, x

MCParentOf == (r :> None) @@ (a :> r) @@ (b :> r) @@ (x :> a)
MCDepth    == (r :> 0) @@ (a :> 1) @@ (b :> 1) @@ (x :> 2)
=============================================================================
