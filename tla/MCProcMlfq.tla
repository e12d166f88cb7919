---------------------------- MODULE MCProcMlfq ----------------------------
(***************************************************************************)
(* Proc with a history variable: passed[q] is the set of processes that    *)
(* were chosen at the level of q while q was ready at that level, since    *)
(* the scan positions were last reset by a boost.                          *)
(***************************************************************************)
EXTENDS Proc

VARIABLE passed

MCQuantum == [l \in 0 .. 3 |-> IF l = 2 THEN 2 ELSE 1]

\* CPU c chooses p for level l in this step.
Chooses(l, p) ==
    \E c \in Cpu :
        /\ spc[c] = "next" /\ spc'[c] = "run"
        /\ si[c] = l /\ sp'[c] = p

MlfqInit == Init /\ passed = [q \in Slot |-> {}]

Boosts == ticks' % BOOST = 0 /\ queue_position' = [l \in 0 .. 3 |-> 0]

MlfqNext ==
    /\ Next
    /\ passed' = [q \in Slot |->
            IF state'[q] # "RUNNABLE" \/ level'[q] # level[q] \/ Boosts
               \/ level[q] \notin 0 .. 2 \/ Chooses(level[q], q)
            THEN {}
            ELSE passed[q] \cup {p \in Slot : Chooses(level[q], p)}]

MlfqSpec == MlfqInit /\ [][MlfqNext]_<<vars, passed>>

\* Round robin in L0..L2: no process is chosen a second time while another one
\* of its level has been ready all along and has not been chosen.
NoOvertaking ==
    [][\A q \in Slot, p \in Slot :
        q \in Ready(level[q]) /\ Chooses(level[q], p) => p \notin passed[q]]_<<vars, passed>>
=============================================================================
