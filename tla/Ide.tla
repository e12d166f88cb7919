-------------------------------- MODULE Ide --------------------------------
(***************************************************************************)
(* The disk driver (ide.c) and the disk.  iderw() and ideintr() are        *)
(* sections under idelock; the disk works on its own and interrupts.       *)
(* Module Bcache calls iderw().                                            *)
(***************************************************************************)
EXTENDS Integers, Sequences, FiniteSets, FiniteSetsExt, SequencesExt

CONSTANTS
    Proc, NoProc,
    NBUF,          \* buffers (30 in param.h)
    Block, NoBlock,
    Value, InitValue,
    MaxErrors      \* bound on the number of failing reads

Buf == 1 .. NBUF
NoBuf == 0

ASSUME IdeAssumption ==
    /\ NoProc \notin Proc /\ NoBlock \notin Block
    /\ NBUF \in Nat /\ MaxErrors \in Nat /\ InitValue \in Value

VARIABLES
    disk,          \* the blocks on the disk
    ctl,           \* the command in the controller: [op, block, val]
    irq,           \* the controller has finished it and interrupts
    errors,        \* how many reads have failed
    failed,        \* the buffers whose last read has failed
    blockno, data, valid, dirty,    \* struct buf; valid and dirty are sets of buffers
    idequeue,      \* the buffers that wait for the disk, the active one first
    buf,           \* the buffer a process works with
    pc             \* where a process is

device == <<disk, ctl, irq, errors, failed>>
buffers == <<blockno, data, valid, dirty>>

Idle == [op |-> "idle", block |-> NoBlock, val |-> InitValue]
Command == [op : {"read", "write", "idle"}, block : Block \cup {NoBlock}, val : Value]

IdeInit ==
    /\ disk = [k \in Block |-> InitValue]
    /\ ctl = Idle /\ irq = FALSE /\ errors = 0 /\ failed = {}
    /\ blockno = [b \in Buf |-> NoBlock]
    /\ data = [b \in Buf |-> InitValue]
    /\ valid = {} /\ dirty = {}
    /\ idequeue = <<>>
    /\ buf = [p \in Proc |-> NoBuf]
    /\ pc = [p \in Proc |-> "out"]

\* wakeup(b): the sleepers look at the flags again.
WakeIo(b) == [p \in Proc |-> IF pc[p] = "asleep_io" /\ buf[p] = b THEN "io" ELSE pc[p]]

\* A dirty buffer is written, any other is read.
idestart(b) ==
    ctl' = [op |-> IF b \in dirty THEN "write" ELSE "read",
            block |-> blockno[b], val |-> data[b]]

Enqueued(b) == Append(idequeue, b)

\* iderw() up to its sleep: the flags are not yet those that it waits for.
iderw(p) ==
    /\ pc[p] = "iderw"
    /\ idequeue' = Enqueued(buf[p])
    /\ IF idequeue = <<>> THEN idestart(buf[p]) ELSE UNCHANGED ctl
    /\ pc' = [pc EXCEPT ![p] = "asleep_io"]
    /\ UNCHANGED <<disk, irq, errors, failed, buffers, buf>>

\* The test of the loop in iderw(), after a wakeup.
iderw_test(p) ==
    /\ pc[p] = "io"
    /\ pc' = [pc EXCEPT ![p] =
                IF buf[p] \in valid \ dirty THEN "held" ELSE "asleep_io"]
    /\ UNCHANGED <<device, buffers, idequeue, buf>>

\* The disk finishes the command: data are on the disk, or ready to be read.
disk_done ==
    /\ ctl.op # "idle" /\ ~irq
    /\ irq' = TRUE
    /\ disk' = IF ctl.op = "write" THEN [disk EXCEPT ![ctl.block] = ctl.val] ELSE disk
    /\ UNCHANGED <<ctl, errors, failed, buffers, idequeue, buf, pc>>

\* Mutant: the next request waits for a request to come.
StartNext_Not(q) == ctl' = Idle

StartNext(q) == IF q = <<>> THEN ctl' = Idle ELSE idestart(Head(q))

\* If a read fails, idewait(1) < 0, the data stay what they were.
ideintr ==
    LET b == Head(idequeue)
    IN  /\ irq
        /\ irq' = FALSE
        /\ idequeue' = Tail(idequeue)
        /\ \/ /\ b \notin dirty
              /\ data' = [data EXCEPT ![b] = disk[ctl.block]]
              /\ failed' = failed \ {b}
              /\ UNCHANGED errors
           \/ /\ b \notin dirty /\ errors < MaxErrors
              /\ errors' = errors + 1 /\ failed' = failed \cup {b}
              /\ UNCHANGED data
           \/ b \in dirty /\ UNCHANGED <<data, errors, failed>>
        /\ valid' = valid \cup {b}
        /\ dirty' = dirty \ {b}
        /\ pc' = WakeIo(b)
        /\ StartNext(Tail(idequeue))
        /\ UNCHANGED <<disk, blockno, buf>>
=============================================================================
