------------------------------ MODULE MCMemory ------------------------------
(***************************************************************************)
(* Small instances of Memory for TLC.                                      *)
(***************************************************************************)
EXTENDS Memory, TLC

\* A segment that ends inside a page; two segments; two with a gap, the second of them
\* not aligned; one that leaves no room for the stack; one that does not fit at all; a
\* second header with memsz below filesz.
MCPrograms ==
    LET ph(vaddr, memsz) == [vaddr |-> vaddr, memsz |-> memsz, sound |-> TRUE]
    IN  {<<ph(0, 1)>>, <<ph(0, 1), ph(2, 1)>>, <<ph(0, 1), ph(3, 2)>>, <<ph(4, 1)>>, <<ph(8, 2)>>,
         <<ph(0, 1), [vaddr |-> 2, memsz |-> 0, sound |-> FALSE]>>}

\* Into another page, inside a page, across a boundary of page tables, and to size 0.
MCGrowths == {1, 3, -1, -2}

\* The processes other than the first are alike.
MCSymmetry == Permutations(Proc \ {initproc})
=============================================================================
