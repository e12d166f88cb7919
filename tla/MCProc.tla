------------------------------- MODULE MCProc -------------------------------
EXTENDS Proc
MCQuantum == [l \in 0 .. 3 |-> 1]
=============================================================================
