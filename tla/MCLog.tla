------------------------------- MODULE MCLog -------------------------------
(***************************************************************************)
(* Log for TLC: processes and blocks are interchangeable.                  *)
(***************************************************************************)
EXTENDS Log, TLC

MCSymmetry == Permutations(Proc) \cup Permutations(Block)
=============================================================================
