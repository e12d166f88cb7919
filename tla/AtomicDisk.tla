----------------------------- MODULE AtomicDisk -----------------------------
(***************************************************************************)
(* What log.c promises the file system: the writes of the calls between    *)
(* begin_op() and end_op() reach the disk together or not at all, and only *)
(* when none of these calls is half done.                                  *)
(***************************************************************************)
CONSTANTS Proc, Block, Value, InitValue

VARIABLES
    open,      \* the processes between begin_op() and end_op()
    current,   \* the blocks as the file system sees them
    durable    \* the blocks as they will be after a crash

avars == <<open, current, durable>>

AInit ==
    /\ open = {}
    /\ current = [b \in Block |-> InitValue]
    /\ durable = current

Begin(p) == p \notin open /\ open' = open \cup {p} /\ UNCHANGED <<current, durable>>

Write(p, b, v) ==
    /\ p \in open
    /\ current' = [current EXCEPT ![b] = v]
    /\ UNCHANGED <<open, durable>>

End(p) == p \in open /\ open' = open \ {p} /\ UNCHANGED <<current, durable>>

Commit == open = {} /\ durable' = current /\ UNCHANGED <<open, current>>

Crash == open' = {} /\ current' = durable /\ UNCHANGED durable

ANext ==
    \/ \E p \in Proc : Begin(p) \/ End(p) \/ \E b \in Block, v \in Value : Write(p, b, v)
    \/ Commit
    \/ Crash

ASpec == AInit /\ [][ANext]_avars
=============================================================================
