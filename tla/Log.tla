-------------------------------- MODULE Log --------------------------------
(***************************************************************************)
(* The write-ahead log: log.c, with the part of the buffer cache it relies *)
(* on (bio.c: one locked buffer per block, dirty buffers are not recycled, *)
(* bwrite is synchronous).                                                 *)
(*                                                                         *)
(* A step is a section under log.lock, or one write to the disk.  A crash  *)
(* may come between any two steps, also during recovery; the disk writes a *)
(* block (one sector) completely or not at all.                            *)
(***************************************************************************)
EXTENDS Integers, Sequences, FiniteSets, FiniteSetsExt, SequencesExt

CONSTANTS
    Proc,          \* processes that make file system calls
    NoProc,        \* nobody
    Block,         \* blocks of the file system, outside the log
    Value,         \* contents of a block
    InitValue,     \* contents of all blocks of a fresh file system
    LOGSIZE,       \* size of logheader.block[] (30 in param.h)
    MAXOPBLOCKS,   \* blocks that a file system call may write (10 in param.h)
    nlog           \* blocks of the log on disk, its header included (30 in mkfs.c)

ASSUME LogAssumption ==
    /\ NoProc \notin Proc
    /\ InitValue \in Value
    /\ LOGSIZE \in Nat \ {0} /\ MAXOPBLOCKS \in Nat \ {0} /\ nlog \in Nat \ {0}

VARIABLES
    home,          \* disk: the blocks in their places
    logged,        \* disk: the blocks of the log after the header
    head,          \* disk: the header block, as the sequence of its block numbers
    data,          \* buffer cache: the contents of each block
    dirty,         \* buffer cache: B_DIRTY
    holder,        \* buffer cache: the process that has the block locked, or NoProc
    lh, outstanding, committing,    \* struct log
    pc,            \* where a process is
    wrote,         \* the blocks that the call of a process has written
    cpc, tail,     \* where commit() or recover_from_log() is
    panicked

Points == {"out", "asleep", "begin", "in", "modified", "log_written", "commit"}
CommitPoints == {"idle", "write_log", "write_head", "install_trans", "erase", "end",
                 "read_head"}
Panics == {"no", "too big a transaction", "log_write outside of trans", "log.committing"}

disk == <<home, logged, head>>
cache == <<data, dirty, holder>>
log == <<lh, outstanding, committing>>
commit == <<cpc, tail>>
vars == <<disk, cache, log, pc, wrote, commit, panicked>>

Init ==
    /\ home = [b \in Block |-> InitValue]
    /\ logged = [i \in 1 .. nlog - 1 |-> InitValue]
    /\ head = <<>>
    /\ data = home
    /\ dirty = [b \in Block |-> FALSE]
    /\ holder = [b \in Block |-> NoProc]
    /\ lh = <<>> /\ outstanding = 0 /\ committing = FALSE
    /\ pc = [p \in Proc |-> "out"]
    /\ wrote = [p \in Proc |-> {}]
    /\ cpc = "read_head" /\ tail = 0
    /\ panicked = "no"

\* initlog() runs before the first process enters user mode.
Booting == cpc # "idle" /\ ~committing

At(p, at) == panicked = "no" /\ ~Booting /\ pc[p] = at
Goto(p, at) == pc' = [pc EXCEPT ![p] = at]

\* The processes after wakeup(&log), as a function of their points f.
wakeup(f) == [p \in Proc |-> IF f[p] = "asleep" THEN "begin" ELSE f[p]]

-----------------------------------------------------------------------------
(* begin_op(), end_op(), log_write() and the buffer cache.                 *)


LogHasSpace == Len(lh) + (outstanding + 1) * MAXOPBLOCKS <= LOGSIZE

begin_op(p) ==
    /\ At(p, "out") \/ At(p, "begin")
    /\ IF committing \/ ~LogHasSpace
       THEN Goto(p, "asleep") /\ UNCHANGED outstanding
       ELSE Goto(p, "in") /\ outstanding' = outstanding + 1
    /\ UNCHANGED <<disk, cache, lh, committing, wrote, commit, panicked>>

\* b = bread(); the caller changes b->data.  MAXOPBLOCKS is the caller's promise.
bread_modify(p, b, v) ==
    /\ At(p, "in")
    /\ Cardinality(wrote[p] \cup {b}) <= MAXOPBLOCKS
    /\ holder[b] = NoProc
    /\ holder' = [holder EXCEPT ![b] = p]
    /\ data' = [data EXCEPT ![b] = v]
    /\ Goto(p, "modified")
    /\ UNCHANGED <<disk, dirty, log, wrote, commit, panicked>>

\* Mutants: no absorption; the buffer is not pinned.
Absorbed_Not(b) == Append(lh, b)
Pinned_Not(b) == dirty

TooBig == Len(lh) >= LOGSIZE \/ Len(lh) >= nlog - 1

\* The header after log_write(): a block that is there already is absorbed.
Absorbed(b) == IF Contains(lh, b) THEN lh ELSE Append(lh, b)

Pinned(b) == [dirty EXCEPT ![b] = TRUE]

log_write(p, b) ==
    /\ At(p, "modified") /\ holder[b] = p
    /\ IF TooBig \/ outstanding < 1
       THEN /\ panicked' = IF TooBig THEN "too big a transaction" ELSE "log_write outside of trans"
            /\ UNCHANGED <<lh, dirty, wrote, pc>>
       ELSE /\ lh' = Absorbed(b)
            /\ dirty' = Pinned(b)
            /\ wrote' = [wrote EXCEPT ![p] = @ \cup {b}]
            /\ Goto(p, "log_written")
            /\ UNCHANGED panicked
    /\ UNCHANGED <<disk, data, holder, outstanding, committing, commit>>

brelse(p, b) ==
    /\ At(p, "log_written") /\ holder[b] = p
    /\ holder' = [holder EXCEPT ![b] = NoProc]
    /\ Goto(p, "in")
    /\ UNCHANGED <<disk, data, dirty, log, wrote, commit, panicked>>

\* bget() recycles the buffer of b; the next bread() of b reads it from the disk.
bget_recycle(b) ==
    /\ panicked = "no" /\ ~Booting
    /\ holder[b] = NoProc /\ ~dirty[b]
    /\ data' = [data EXCEPT ![b] = home[b]]
    /\ UNCHANGED <<disk, dirty, holder, log, pc, wrote, commit, panicked>>

\* The call that ends is the last one outstanding.
LastOp == outstanding - 1 = 0

end_op(p) ==
    /\ At(p, "in")
    /\ outstanding' = outstanding - 1
    /\ wrote' = [wrote EXCEPT ![p] = {}]
    /\ IF committing THEN
          panicked' = "log.committing" /\ UNCHANGED <<committing, pc, cpc, tail>>
       ELSE IF LastOp THEN
          /\ committing' = TRUE
          /\ Goto(p, "commit")
          /\ cpc' = (IF Len(lh) > 0 THEN "write_log" ELSE "end") /\ tail' = 0
          /\ UNCHANGED panicked
       ELSE
          /\ pc' = wakeup([pc EXCEPT ![p] = "out"])
          /\ UNCHANGED <<committing, cpc, tail, panicked>>
    /\ UNCHANGED <<disk, cache, lh>>

\* Mutant: nobody is woken.
AfterCommit_NoWakeup(p) == [pc EXCEPT ![p] = "out"]

AfterCommit(p) == wakeup([pc EXCEPT ![p] = "out"])

\* commit() has returned.
end_op_committed(p) ==
    /\ At(p, "commit") /\ cpc = "end"
    /\ committing' = FALSE
    /\ pc' = AfterCommit(p)
    /\ cpc' = "idle"
    /\ UNCHANGED <<disk, cache, lh, outstanding, wrote, tail, panicked>>

-----------------------------------------------------------------------------
(* commit() and recover_from_log(), one write to the disk per step.        *)

Committing(at) == panicked = "no" /\ cpc = at

\* Mutant: the loop stops before the last block.
Loop_LastMissed(body, next) ==
    \/ tail < Len(lh) - 1 /\ body /\ tail' = tail + 1 /\ UNCHANGED cpc
    \/ tail >= Len(lh) - 1 /\ cpc' = next /\ tail' = 0 /\ UNCHANGED <<disk, cache>>

\* A step of the loop over the blocks of the log; when it ends, go to next.
Loop(body, next) ==
    \/ tail < Len(lh) /\ body /\ tail' = tail + 1 /\ UNCHANGED cpc
    \/ tail = Len(lh) /\ cpc' = next /\ tail' = 0 /\ UNCHANGED <<disk, cache>>

write_log ==
    /\ Committing("write_log")
    /\ Loop(/\ logged' = [logged EXCEPT ![tail + 1] = data[lh[tail + 1]]]
            /\ UNCHANGED <<home, head, cache>>, "write_head")
    /\ UNCHANGED <<log, pc, wrote, panicked>>

write_head ==
    /\ Committing("write_head")
    /\ head' = lh
    /\ cpc' = "install_trans"
    /\ UNCHANGED <<home, logged, cache, log, pc, wrote, tail, panicked>>

install_trans ==
    /\ Committing("install_trans")
    /\ Loop(LET b == lh[tail + 1] IN
            /\ data' = [data EXCEPT ![b] = logged[tail + 1]]
            /\ home' = [home EXCEPT ![b] = logged[tail + 1]]
            /\ dirty' = [dirty EXCEPT ![b] = FALSE]
            /\ UNCHANGED <<logged, head, holder>>, "erase")
    /\ UNCHANGED <<log, pc, wrote, panicked>>

\* log.lh.n = 0; write_head(): the end of commit() and of recover_from_log().
erase ==
    /\ Committing("erase")
    /\ lh' = <<>>
    /\ head' = <<>>
    /\ cpc' = IF committing THEN "end" ELSE "idle"
    /\ UNCHANGED <<home, logged, cache, outstanding, committing, pc, wrote, tail, panicked>>

read_head ==
    /\ Committing("read_head")
    /\ lh' = head
    /\ cpc' = "install_trans"
    /\ UNCHANGED <<disk, cache, outstanding, committing, pc, wrote, tail, panicked>>

\* The machine stops, possibly after a panic, and boots: initlog() starts.
crash ==
    /\ data' = home
    /\ dirty' = [b \in Block |-> FALSE]
    /\ holder' = [b \in Block |-> NoProc]
    /\ lh' = <<>> /\ outstanding' = 0 /\ committing' = FALSE
    /\ pc' = [p \in Proc |-> "out"]
    /\ wrote' = [p \in Proc |-> {}]
    /\ cpc' = "read_head" /\ tail' = 0
    /\ panicked' = "no"
    /\ UNCHANGED disk

-----------------------------------------------------------------------------
Next ==
    \/ \E p \in Proc :
        \/ begin_op(p) \/ end_op(p) \/ end_op_committed(p)
        \/ \E b \in Block :
            \/ \E v \in Value : bread_modify(p, b, v)
            \/ log_write(p, b) \/ brelse(p, b)
    \/ \E b \in Block : bget_recycle(b)
    \/ write_log \/ write_head \/ install_trans \/ erase \/ read_head
    \/ crash

Spec == Init /\ [][Next]_vars

-----------------------------------------------------------------------------
\* Types of struct log, of the disk, and of the calls in progress.
TypeOK ==
    /\ home \in [Block -> Value]
    /\ logged \in [1 .. nlog - 1 -> Value]
    /\ head \in Seq(Block) /\ Len(head) <= nlog - 1
    /\ data \in [Block -> Value]
    /\ dirty \in [Block -> BOOLEAN]
    /\ holder \in [Block -> Proc \cup {NoProc}]
    /\ lh \in Seq(Block) /\ Len(lh) <= nlog - 1 /\ IsInjective(lh)
    /\ outstanding \in Nat
    /\ committing \in BOOLEAN
    /\ pc \in [Proc -> Points]
    /\ wrote \in [Proc -> SUBSET Block]
    /\ cpc \in CommitPoints
    /\ tail \in 0 .. nlog - 1
    /\ panicked \in Panics

\* Between begin_op() and end_op().
InOp == {p \in Proc : pc[p] \in {"in", "modified", "log_written"}}


\* No process sleeps in begin_op() without someone who will wake it: a call or a
\* commit under way.
SleeperWoken ==
    (\E p \in Proc : pc[p] = "asleep") => InOp # {} \/ committing

\* The blocks that recovery would leave.
Recovered ==
    [b \in Block |->
        IF Contains(head, b) THEN logged[CHOOSE i \in 1 .. Len(head) : head[i] = b] ELSE home[b]]

\* When no call is under way and none is being committed, all that the calls
\* wrote is on the disk: the last end_op() returns only then.
QuietIsDurable ==
    ~Booting /\ ~committing /\ outstanding = 0 => Recovered = data

\* Calls of the file system are atomic with respect to crashes, wherever in
\* commit() or in recovery the machine stops.
Disk ==
    INSTANCE AtomicDisk WITH
        open <- InOp,
        current <- IF Booting THEN Recovered ELSE data,
        durable <- Recovered

Atomic == Disk!ASpec
=============================================================================
