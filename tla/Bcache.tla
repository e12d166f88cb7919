------------------------------- MODULE Bcache -------------------------------
(***************************************************************************)
(* The buffer cache (bio.c) with its sleep locks (sleeplock.c), on top of  *)
(* the disk driver.  A step is a section under bcache.lock, under the      *)
(* spinlock of a sleep lock, or under idelock.                             *)
(*                                                                         *)
(* The callers are those of fs.c and log.c: bread(), perhaps a change of   *)
(* the data followed by bwrite() or by log_write(), which pins the buffer  *)
(* with B_DIRTY, then brelse().                                            *)
(***************************************************************************)
EXTENDS Ide

VARIABLES
    refcnt,        \* of each buffer
    holder,        \* the process that has b->lock, or NoProc
    mru,           \* bcache.head: all buffers, the most recently used first
    panicked       \* bget() has found no buffer

bcache == <<refcnt, mru>>
vars == <<device, buffers, idequeue, buf, pc, bcache, holder, panicked>>

Points == {"out", "lock", "asleep_lock", "iderw", "asleep_io", "io", "held", "changed",
           "brelse"}

\* binit() puts each buffer in front of the ones before it.
Init ==
    /\ IdeInit
    /\ refcnt = [b \in Buf |-> 0]
    /\ holder = [b \in Buf |-> NoProc]
    /\ mru = [i \in Buf |-> NBUF + 1 - i]
    /\ panicked = FALSE

At(p, point) == pc[p] = point /\ ~panicked
Goto(p, point) == pc' = [pc EXCEPT ![p] = point]

\* Mutant: a buffer that is being read is not yet found.
Cached_Valid(k) == {b \in valid : blockno[b] = k}

Cached(k) == {b \in Buf : blockno[b] = k}

\* Mutant: a buffer that log.c has pinned is recycled.
Recyclable_Dirty(b) == refcnt[b] = 0

Recyclable(b) == refcnt[b] = 0 /\ b \notin dirty

\* The least recently used buffer that can be recycled.
Victim == mru[Max({i \in Buf : Recyclable(mru[i])})]

bget(p, k) ==
    /\ At(p, "out")
    /\ \/ \E b \in Cached(k) :
            /\ buf' = [buf EXCEPT ![p] = b]
            /\ refcnt' = [refcnt EXCEPT ![b] = @ + 1]
            /\ Goto(p, "lock")
            /\ UNCHANGED <<blockno, valid, failed, panicked>>
       \/ /\ Cached(k) = {}
          /\ \E b \in Buf : Recyclable(b)
          /\ buf' = [buf EXCEPT ![p] = Victim]
          /\ refcnt' = [refcnt EXCEPT ![Victim] = 1]
          /\ blockno' = [blockno EXCEPT ![Victim] = k]
          /\ valid' = valid \ {Victim} /\ failed' = failed \ {Victim}
          /\ Goto(p, "lock")
          /\ UNCHANGED panicked
       \/ /\ Cached(k) = {}
          /\ ~\E b \in Buf : Recyclable(b)
          /\ panicked' = TRUE
          /\ UNCHANGED <<buf, refcnt, blockno, valid, failed, pc>>
    /\ UNCHANGED <<disk, ctl, irq, errors, data, dirty, idequeue, holder, mru>>

\* acquiresleep(&b->lock); the rest of bread() looks at B_VALID.
acquiresleep(p) ==
    /\ At(p, "lock")
    /\ IF holder[buf[p]] # NoProc
       THEN Goto(p, "asleep_lock") /\ UNCHANGED holder
       ELSE /\ holder' = [holder EXCEPT ![buf[p]] = p]
            /\ Goto(p, IF buf[p] \in valid THEN "held" ELSE "iderw")
    /\ UNCHANGED <<device, buffers, idequeue, buf, bcache, panicked>>

\* The caller of bread() changes b->data.
change(p, v) ==
    /\ At(p, "held")
    /\ data' = [data EXCEPT ![buf[p]] = v]
    /\ Goto(p, "changed")
    /\ UNCHANGED <<device, blockno, valid, dirty, idequeue, buf, bcache, holder, panicked>>

bwrite(p) ==
    /\ At(p, "changed")
    /\ dirty' = dirty \cup {buf[p]}
    /\ Goto(p, "iderw")
    /\ UNCHANGED <<device, blockno, data, valid, idequeue, buf, bcache, holder, panicked>>

\* log_write() sets B_DIRTY; log.c writes the buffer later.
log_write(p) ==
    /\ At(p, "changed")
    /\ dirty' = dirty \cup {buf[p]}
    /\ Goto(p, "held")
    /\ UNCHANGED <<device, blockno, data, valid, idequeue, buf, bcache, holder, panicked>>

\* Mutant: releasesleep() wakes nobody.
WakeLock_Not(p) == pc

\* wakeup(lk)
WakeLock(p) ==
    [q \in Proc |-> IF pc[q] = "asleep_lock" /\ buf[q] = buf[p] THEN "lock" ELSE pc[q]]

\* brelse(): releasesleep(), then the section under bcache.lock.
releasesleep(p) ==
    /\ At(p, "held")
    /\ holder' = [holder EXCEPT ![buf[p]] = NoProc]
    /\ pc' = [WakeLock(p) EXCEPT ![p] = "brelse"]
    /\ UNCHANGED <<device, buffers, idequeue, buf, bcache, panicked>>

\* Mutant: the buffer is not unlinked from its place.
MovedToFront_Linked(b) == <<b>> \o mru

MovedToFront(b) == <<b>> \o SelectSeq(mru, LAMBDA x : x # b)

brelse(p) ==
    LET b == buf[p]
    IN  /\ At(p, "brelse")
        /\ refcnt' = [refcnt EXCEPT ![b] = @ - 1]
        /\ mru' = IF refcnt[b] = 1 THEN MovedToFront(b) ELSE mru
        /\ buf' = [buf EXCEPT ![p] = NoBuf]
        /\ Goto(p, "out")
        /\ UNCHANGED <<device, buffers, idequeue, holder, panicked>>

\* kill() makes a sleeper RUNNABLE, whatever it sleeps on.
kill(p) ==
    /\ ~panicked
    /\ pc[p] \in {"asleep_lock", "asleep_io"}
    /\ Goto(p, IF pc[p] = "asleep_lock" THEN "lock" ELSE "io")
    /\ UNCHANGED <<device, buffers, idequeue, buf, bcache, holder, panicked>>

Driver(A) == A /\ ~panicked /\ UNCHANGED <<bcache, holder, panicked>>

\* panic() stops the machine.
halted == panicked /\ UNCHANGED vars

Next ==
    \/ \E p \in Proc :
        \/ \E k \in Block : bget(p, k)
        \/ \E v \in Value : change(p, v)
        \/ acquiresleep(p) \/ bwrite(p) \/ log_write(p) \/ releasesleep(p) \/ brelse(p)
        \/ kill(p)
        \/ Driver(iderw(p)) \/ Driver(iderw_test(p))
    \/ Driver(disk_done) \/ Driver(ideintr)
    \/ halted

Spec == Init /\ [][Next]_vars

-----------------------------------------------------------------------------
(* Properties.                                                             *)

\* Types of struct buf, of bcache and of the driver; the lists hold a buffer once.
TypeOK ==
    /\ disk \in [Block -> Value] /\ ctl \in Command
    /\ irq \in BOOLEAN /\ errors \in 0 .. MaxErrors /\ failed \subseteq Buf
    /\ blockno \in [Buf -> Block \cup {NoBlock}] /\ data \in [Buf -> Value]
    /\ valid \subseteq Buf /\ dirty \subseteq Buf
    /\ idequeue \in Seq(Buf) /\ IsInjective(idequeue)
    /\ buf \in [Proc -> Buf \cup {NoBuf}] /\ pc \in [Proc -> Points]
    /\ refcnt \in [Buf -> 0 .. Cardinality(Proc)]
    /\ holder \in [Buf -> Proc \cup {NoProc}]
    /\ mru \in Seq(Buf) /\ IsInjective(mru) /\ Len(mru) = NBUF
    /\ panicked \in BOOLEAN

\* The cache holds a block at most once, and a buffer that a process works with is not
\* given to another block (bio.c, bget): the processes that have it are those counted
\* in refcnt, and their lock protects the one copy of the block.
OneBufferPerBlock ==
    /\ \A b, c \in Buf : blockno[b] = blockno[c] /\ blockno[b] # NoBlock => b = c
    /\ \A b \in Buf : refcnt[b] = Cardinality({p \in Proc : buf[p] = b})

\* The queue and the controller agree (ide.c): the command under way is for the first
\* buffer of the queue; a queued buffer needs its transfer and is locked by the process
\* that waits for it, so its block and data stay what they are.
QueueSound ==
    /\ ctl.op = "idle" <=> idequeue = <<>>
    /\ irq => idequeue # <<>>
    /\ idequeue # <<>> =>
        LET b == Head(idequeue)
        IN  /\ ctl.block = blockno[b]
            /\ ctl.op = IF b \in dirty THEN "write" ELSE "read"
            /\ ctl.val = data[b]
    /\ \A i \in DOMAIN idequeue :
        LET b == idequeue[i]
        IN  /\ b \notin valid \ dirty
            /\ \E p \in Proc : holder[b] = p /\ buf[p] = b /\ pc[p] \in {"asleep_io", "io"}

\* No wakeup is lost: who sleeps in iderw() is still in the queue, and who sleeps in
\* acquiresleep() waits for a lock that some process holds (ide.c, sleeplock.c).
SleepersWaited ==
    \A p \in Proc :
        /\ pc[p] = "asleep_io" => Contains(idequeue, buf[p])
        /\ pc[p] = "asleep_lock" => holder[buf[p]] # NoProc

\* A block is what its valid buffer says, or else the disk.
Content(k) ==
    IF Cached(k) \cap valid # {}
    THEN data[CHOOSE b \in Cached(k) \cap valid : TRUE] ELSE disk[k]
Owner(k) ==
    IF \E b \in Cached(k) \cap valid : holder[b] # NoProc
    THEN holder[CHOOSE b \in Cached(k) \cap valid : holder[b] # NoProc] ELSE NoProc

Store == INSTANCE BlockStore WITH content <- [k \in Block |-> Content(k)],
                                  owner <- [k \in Block |-> Owner(k)],
                                  damaged <- {blockno[b] : b \in failed}

\* bio.c over ide.c is a store of blocks, each used by one process at a time: through
\* hits, misses, recycling, queueing and delayed writes a process finds in a block what
\* the last one left, except after a read error.
CacheIsStore == Store!AStore
=============================================================================
