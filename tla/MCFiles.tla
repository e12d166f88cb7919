------------------------------ MODULE MCFiles ------------------------------
(***************************************************************************)
(* Files for TLC.  A pipe has room for two bytes and its counters wrap     *)
(* after four; a write does not fit at once.                         *)
(***************************************************************************)
EXTENDS Files, TLC

MCWrites == {<<1, 0, 1>>}
MCSymmetry == Permutations(Proc)
=============================================================================
