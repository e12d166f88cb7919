------------------------------ MODULE MCBcache ------------------------------
(***************************************************************************)
(* Bcache for TLC: processes and blocks are interchangeable.               *)
(***************************************************************************)
EXTENDS Bcache, TLC

MCSymmetry == Permutations(Proc) \cup Permutations(Block)
=============================================================================
