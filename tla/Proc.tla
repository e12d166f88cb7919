-------------------------------- MODULE Proc --------------------------------
(***************************************************************************)
(* The process table and the scheduler of the kernel: proc.c, the part of  *)
(* trap.c that charges ticks, demotes, boosts and kills, and the process   *)
(* system calls of sysproc.c.                                              *)
(*                                                                         *)
(* A step is what the code does between two points at which another CPU or *)
(* an interrupt can get in: a section under ptable.lock is one step, a     *)
(* store made without the lock is a step of its own.  The one section that *)
(* spans two threads, from the dispatch in scheduler() to the release in   *)
(* the thread that swtch resumes, is kept as two steps with the lock       *)
(* (variable lock) held in between.                                        *)
(***************************************************************************)
EXTENDS Integers, FiniteSets

CONSTANTS
    NPROC,       \* size of ptable.proc (64 in param.h)
    NCPU,        \* CPUs that run scheduler()
    BOOST,       \* ticks between two priority boosts (100 in trap.c)
    TickMod,     \* number of values of the uint ticks (2^32)
    Quantum,     \* time quantum of L0..L3 (2, 4, 6, 8 in trap.c)
    Calls,       \* the system calls that the user programs make
    Admins,      \* the processes that call setmonopoly()
    KillPids,    \* arguments of kill()
    TargetPids,  \* pid arguments of setpriority() and setmonopoly()
    Priorities,  \* priority arguments of setpriority()
    SleepTicks,  \* arguments of sleep()
    MaxPid,      \* bound: fork() is not called when nextpid exceeds it
    MaxMoq       \* bound: setmonopoly() is not called when moq_priority reaches it

Slot == 0 .. NPROC - 1
Cpu == 0 .. NCPU - 1
NULL == -1                  \* the null pointer
NoCpu == -1                 \* ptable.lock is free
INIT == 0                   \* initproc: userinit() allocates the first slot
TICKS == NPROC              \* the wait channel &ticks
IO == NPROC + 1             \* the wait channels of devices, pipes and sleeplocks
MOQ == 99                   \* the level of the processes in the MoQ
Levels == {0, 1, 2, 3, MOQ}
MaxPriority == 10
QuantumFloor == -1          \* bound: a MoQ process is charged ticks for ever

States == {"UNUSED", "EMBRYO", "SLEEPING", "RUNNABLE", "RUNNING", "ZOMBIE"}

\* Where the kernel thread of a process is.  "none": the slot has no thread;
\* "embryo": allocated, fork() has not built its stack and memory yet; "user":
\* in user mode; "ret": about to leave trap() with killed set; the others are
\* inside the system call they are named after.
Points == {"none", "embryo", "forkret", "user", "ret", "fork", "fork_run", "exit",
           "zombie", "wait", "io", "sleep", "yield", "setpriority",
           "mon_level", "mon_state", "mon_cnt"}

\* Where the loop of scheduler() is on a CPU.
SchedPoints == {"top", "moq", "moq_empty", "can", "next", "run", "swtch"}

Panics == {"no", "init exiting", "zombie exit", "yield in scheduler",
           "switchuvm: no process", "switchuvm: no kstack"}

CallNames == {"fork", "exit", "wait", "kill", "sleep", "yield", "io", "fault",
              "setpriority", "setmonopoly", "monopolize", "unmonopolize"}

ASSUME SizeAssumption == NPROC \in Nat \ {0} /\ NCPU \in Nat \ {0}
ASSUME TickAssumption == BOOST \in Nat \ {0} /\ TickMod \in Nat \ {0}
ASSUME QuantumAssumption == Quantum \in [0 .. 3 -> Nat \ {0}]
ASSUME InputAssumption ==
    /\ Calls \subseteq CallNames
    /\ Admins \subseteq Slot
    /\ KillPids \subseteq Nat
    /\ TargetPids \subseteq Nat
    /\ Priorities \subseteq Int
    /\ SleepTicks \subseteq Nat
    /\ MaxPid \in Nat
    /\ MaxMoq \in Nat

VARIABLES
    \* struct proc
    state, pid, parent, chan, killed, level, quantum, priority,
    kstack,           \* the slot has a kernel stack and a page directory
    \* the kernel thread of each process
    pc,
    trap,             \* 0, or the `if' of the tail of trap() that is next (1..4)
    np,               \* local process pointer: np in fork, p in setpriority, setmonopoly
    arg,              \* local integer: priority, the loaded moq_cnt, ticks0
    narg,             \* local integer: n in sys_sleep
    \* struct cpu and the locals of scheduler()
    on,               \* the process whose thread the CPU executes, NULL in scheduler()
    cproc,            \* c->proc
    spc, si, sp,      \* control point, i and p of scheduler()
    \* globals
    lock,             \* the CPU that holds ptable.lock between two steps
    nextpid, is_monopolized, moq_cnt, moq_priority, queue_position, ticks,
    panicked          \* "no", or the panic that stopped the machine

ids == <<pid, parent, kstack, nextpid>>
mlfq == <<level, quantum, priority>>
locals == <<np, arg, narg>>
cpus == <<on, cproc, spc, si, sp>>
moq == <<is_monopolized, moq_cnt, moq_priority>>
clock == <<ticks, queue_position>>
vars == <<state, chan, killed, ids, mlfq, pc, trap, locals, cpus, lock, moq,
          clock, panicked>>

-----------------------------------------------------------------------------
(* The table after userinit(): one RUNNABLE process, the CPUs enter        *)
(* scheduler().                                                            *)
Init ==
    /\ state = [p \in Slot |-> IF p = INIT THEN "RUNNABLE" ELSE "UNUSED"]
    /\ pid = [p \in Slot |-> IF p = INIT THEN 1 ELSE 0]
    /\ parent = [p \in Slot |-> NULL]
    /\ chan = [p \in Slot |-> NULL]
    /\ killed = [p \in Slot |-> FALSE]
    /\ level = [p \in Slot |-> 0]
    /\ quantum = [p \in Slot |-> IF p = INIT THEN Quantum[0] ELSE 0]
    /\ priority = [p \in Slot |-> 0]
    /\ kstack = [p \in Slot |-> p = INIT]
    /\ pc = [p \in Slot |-> IF p = INIT THEN "forkret" ELSE "none"]
    /\ trap = [p \in Slot |-> 0]
    /\ np = [p \in Slot |-> NULL]
    /\ arg = [p \in Slot |-> 0]
    /\ narg = [p \in Slot |-> 0]
    /\ on = [c \in Cpu |-> NULL]
    /\ cproc = [c \in Cpu |-> NULL]
    /\ spc = [c \in Cpu |-> "top"]
    /\ si = [c \in Cpu |-> 0]
    /\ sp = [c \in Cpu |-> NULL]
    /\ lock = NoCpu
    /\ nextpid = 2
    /\ is_monopolized = FALSE
    /\ moq_cnt = 0
    /\ moq_priority = 0
    /\ queue_position = [l \in 0 .. 3 |-> 0]
    /\ ticks = 0
    /\ panicked = "no"

-----------------------------------------------------------------------------
(* Helpers over the table.                                                 *)

\* q is the slot that a scan of the table for pid n stops at; with none, the
\* system call returns -1 and changes nothing.
find_with_pid(n, q) ==
    /\ pid[q] = n
    /\ \A r \in Slot : pid[r] = n => q <= r


Ready(l) == {p \in Slot : state[p] = "RUNNABLE" /\ level[p] = l}

can_mlfq(l) == Ready(l) # {}

\* How far the scan of level l, which starts at queue_position[l], is when it
\* meets slot p.
Distance(l, p) == (p - queue_position[l]) % NPROC

\* next_proc(l) prefers p to q.
Precedes(l, p, q) ==
    IF l = MOQ THEN priority[p] < priority[q] \/ (priority[p] = priority[q] /\ p <= q)
    ELSE \/ l = 3 /\ priority[p] > priority[q]
         \/ /\ l = 3 => priority[p] = priority[q]
            /\ Distance(l, p) <= Distance(l, q)

\* p is what next_proc(l) returns.
next_proc(l, p) ==
    IF Ready(l) = {} THEN p = NULL
    ELSE p \in Ready(l) /\ \A q \in Ready(l) : Precedes(l, p, q)

\* The table after wakeup1(ch), as a function of its states st.
wakeup1(st, ch) ==
    [q \in Slot |-> IF st[q] = "SLEEPING" /\ chan[q] = ch THEN "RUNNABLE" ELSE st[q]]

\* Mutants of priority_boosting(): the MoQ is boosted too; the quanta stay.
BoostedLevel_Moq == [q \in Slot |-> 0]
BoostedQuantum_Kept(qt) == qt

\* priority_boosting(), on the levels and the quanta qt it is applied to.
BoostedLevel == [q \in Slot |-> IF level[q] \in 0 .. 3 THEN 0 ELSE level[q]]
BoostedQuantum(qt) == [q \in Slot |-> IF level[q] \in 0 .. 3 THEN Quantum[0] ELSE qt[q]]

\* sched() on CPU c, after the caller has changed its state: swtch to the
\* scheduler, which releases ptable.lock and starts its next round.  c->proc
\* keeps its value.
sched(c) ==
    /\ on' = [on EXCEPT ![c] = NULL]
    /\ spc' = [spc EXCEPT ![c] = "top"]
    /\ lock' = NoCpu
    /\ UNCHANGED <<cproc, si, sp>>

\* CPU c executes the thread of p, outside the interrupt handler, at point at.
Thread(c, p, at) ==
    /\ panicked = "no"
    /\ on[c] = p
    /\ lock # c
    /\ trap[p] = 0
    /\ pc[p] = at

\* The same, entering a section under ptable.lock.
LockedThread(c, p, at) == Thread(c, p, at) /\ lock = NoCpu

\* A user program makes a system call; a killed one exits instead (exit_begin).
UserCall(p, call) == call \in Calls /\ ~killed[p]

\* Where a system call of p returns to, with killed bits k.
Return(k, p) == IF k[p] THEN "ret" ELSE "user"

Goto(p, at) == pc' = [pc EXCEPT ![p] = at]
SetState(p, s) == state' = [state EXCEPT ![p] = s]

-----------------------------------------------------------------------------
(* fork(): allocproc under the lock, then the copies without it, then the  *)
(* lock again to make the child RUNNABLE.  With no UNUSED slot it returns  *)
(* -1 and changes nothing.                                                 *)

fork_allocproc(c, p) ==
    /\ LockedThread(c, p, "user")
    /\ UserCall(p, "fork")
    /\ nextpid <= MaxPid
    /\ \E q \in Slot :
        /\ state[q] = "UNUSED" /\ \A r \in Slot : r < q => state[r] # "UNUSED"
        /\ SetState(q, "EMBRYO")
        /\ pid' = [pid EXCEPT ![q] = nextpid]
        /\ nextpid' = nextpid + 1
        /\ level' = [level EXCEPT ![q] = 0]
        /\ quantum' = [quantum EXCEPT ![q] = Quantum[0]]
        /\ priority' = [priority EXCEPT ![q] = 0]
        /\ np' = [np EXCEPT ![p] = q]
        /\ pc' = [pc EXCEPT ![p] = "fork", ![q] = "embryo"]
    /\ UNCHANGED <<chan, killed, parent, kstack, trap, arg, narg, cpus, lock, moq,
                   clock, panicked>>

\* kalloc for the stack and copyuvm for the memory both succeed.
fork_copy(c, p) ==
    /\ Thread(c, p, "fork")
    /\ kstack' = [kstack EXCEPT ![np[p]] = TRUE]
    /\ parent' = [parent EXCEPT ![np[p]] = p]
    /\ pc' = [pc EXCEPT ![p] = "fork_run", ![np[p]] = "forkret"]
    /\ UNCHANGED <<state, chan, killed, pid, nextpid, mlfq, trap, locals, cpus,
                   lock, moq, clock, panicked>>

\* One of them fails: the slot is given back without the lock, its pid stays.
fork_fail(c, p) ==
    /\ Thread(c, p, "fork")
    /\ SetState(np[p], "UNUSED")
    /\ np' = [np EXCEPT ![p] = NULL]
    /\ pc' = [pc EXCEPT ![p] = Return(killed, p), ![np[p]] = "none"]
    /\ UNCHANGED <<chan, killed, ids, mlfq, trap, arg, narg, cpus, lock, moq,
                   clock, panicked>>

fork_run(c, p) ==
    /\ LockedThread(c, p, "fork_run")
    /\ SetState(np[p], "RUNNABLE")
    /\ np' = [np EXCEPT ![p] = NULL]
    /\ Goto(p, Return(killed, p))
    /\ UNCHANGED <<chan, killed, ids, mlfq, trap, arg, narg, cpus, lock, moq,
                   clock, panicked>>

-----------------------------------------------------------------------------
(* exit(), from sys_exit, from trap() when the process has been killed, or *)
(* from a system call on the way in or out when it has.                    *)


MoqCntAfterExit(p) == IF level[p] = MOQ THEN moq_cnt - 1 ELSE moq_cnt

exit_begin(c, p) ==
    /\ \/ Thread(c, p, "user") /\ (killed[p] \/ ("exit" \in Calls /\ p # INIT))
       \/ Thread(c, p, "ret")
    /\ IF p = INIT
       THEN panicked' = "init exiting" /\ UNCHANGED <<pc, moq_cnt>>
       ELSE /\ moq_cnt' = MoqCntAfterExit(p)
            /\ Goto(p, "exit")
            /\ UNCHANGED panicked
    /\ UNCHANGED <<state, chan, killed, ids, mlfq, trap, locals, cpus, lock,
                   is_monopolized, moq_priority, clock>>

\* Mutants: only ZOMBIE children are passed to init; init is not woken for them;
\* the parent is not woken.
Reparented_Zombies(p) ==
    [q \in Slot |-> IF parent[q] = p /\ state[q] = "ZOMBIE" THEN INIT ELSE parent[q]]
ExitWakes_ParentOnly(p) == wakeup1(state, parent[p])
ExitWakes_InitOnly(p) ==
    IF \E q \in Slot : parent[q] = p /\ state[q] = "ZOMBIE"
    THEN wakeup1(state, INIT) ELSE state

\* The parents after exit() of p has passed its children to init.
Reparented(p) == [q \in Slot |-> IF parent[q] = p THEN INIT ELSE parent[q]]

\* The states after exit() of p has woken its parent, and init for a child that
\* is a ZOMBIE already.
ExitWakes(p) ==
    LET woken == wakeup1(state, parent[p])
    IN  IF \E q \in Slot : parent[q] = p /\ woken[q] = "ZOMBIE"
        THEN wakeup1(woken, INIT) ELSE woken

\* Files are closed: the locked end of exit().
exit_end(c, p) ==
    /\ LockedThread(c, p, "exit")
    /\ parent' = Reparented(p)
    /\ state' = [ExitWakes(p) EXCEPT ![p] = "ZOMBIE"]
    /\ Goto(p, "zombie")
    /\ sched(c)
    /\ UNCHANGED <<chan, killed, pid, kstack, nextpid, mlfq, trap, locals, moq,
                   clock, panicked>>

-----------------------------------------------------------------------------
(* wait(): a scan of the table, entered from user mode or, with the lock   *)
(* still held, when sleep() returns inside wait().                         *)

WaitScan(c, p) ==
    \/ LockedThread(c, p, "user") /\ UserCall(p, "wait")
    \/ panicked = "no" /\ on[c] = p /\ lock = c /\ trap[p] = 0 /\ pc[p] = "wait"

Zombies(p) == {q \in Slot : parent[q] = p /\ state[q] = "ZOMBIE"}
HasKids(p) == \E q \in Slot : parent[q] = p

wait_reap(c, p) ==
    /\ WaitScan(c, p)
    /\ \E q \in Zombies(p) :
        /\ \A r \in Zombies(p) : q <= r
        /\ kstack' = [kstack EXCEPT ![q] = FALSE]
        /\ pid' = [pid EXCEPT ![q] = 0]
        /\ parent' = [parent EXCEPT ![q] = NULL]
        /\ killed' = [killed EXCEPT ![q] = FALSE]
        /\ SetState(q, "UNUSED")
        /\ pc' = [pc EXCEPT ![q] = "none", ![p] = Return(killed, p)]
    /\ chan' = [chan EXCEPT ![p] = NULL]
    /\ lock' = NoCpu
    /\ UNCHANGED <<nextpid, mlfq, trap, locals, cpus, moq, clock, panicked>>

wait_nokids(c, p) ==
    /\ WaitScan(c, p)
    /\ Zombies(p) = {}
    /\ ~HasKids(p) \/ killed[p]
    /\ chan' = [chan EXCEPT ![p] = NULL]
    /\ lock' = NoCpu
    /\ Goto(p, Return(killed, p))
    /\ UNCHANGED <<state, killed, ids, mlfq, trap, locals, cpus, moq, clock, panicked>>

wait_sleep(c, p) ==
    /\ WaitScan(c, p)
    /\ Zombies(p) = {} /\ HasKids(p) /\ ~killed[p]
    /\ chan' = [chan EXCEPT ![p] = p]
    /\ SetState(p, "SLEEPING")
    /\ Goto(p, "wait")
    /\ sched(c)
    /\ UNCHANGED <<killed, ids, mlfq, trap, locals, moq, clock, panicked>>

-----------------------------------------------------------------------------
(* kill(), the sleeps, yield().                                            *)

\* Mutants: a sleeper is not woken; every process is taken for a sleeper.
KillWakes_Never(q) == state

KillWakes(q) ==
    IF state[q] = "SLEEPING" THEN [state EXCEPT ![q] = "RUNNABLE"] ELSE state

kill(c, p, n) ==
    /\ LockedThread(c, p, "user")
    /\ UserCall(p, "kill")
    /\ \E q \in Slot :
        /\ find_with_pid(n, q)
        /\ killed' = [killed EXCEPT ![q] = TRUE]
        /\ state' = KillWakes(q)
    /\ Goto(p, Return(killed', p))
    /\ UNCHANGED <<chan, ids, mlfq, trap, locals, cpus, lock, moq, clock, panicked>>

\* A fault in user mode: trap() sets killed and goes on with its tail.
fault(c, p) ==
    /\ Thread(c, p, "user")
    /\ UserCall(p, "fault") /\ p # INIT
    /\ killed' = [killed EXCEPT ![p] = TRUE]
    /\ trap' = [trap EXCEPT ![p] = 1]
    /\ UNCHANGED <<state, chan, ids, mlfq, pc, locals, cpus, lock, moq, clock, panicked>>

\* sleep(ch, lk) of the thread of p, which goes on at point at when it wakes.
sleep(c, p, ch, at) ==
    /\ chan' = [chan EXCEPT ![p] = ch]
    /\ SetState(p, "SLEEPING")
    /\ Goto(p, at)
    /\ sched(c)

\* The kernel waits for a device, a pipe or a sleeplock: in a system call, or
\* while exit() closes the files.  A waiter that is woken may wait again.
io_sleep(c, p) ==
    /\ \/ LockedThread(c, p, "user") /\ UserCall(p, "io") /\ sleep(c, p, IO, "io")
       \/ LockedThread(c, p, "io") /\ sleep(c, p, IO, "io")
       \/ LockedThread(c, p, "exit") /\ "io" \in Calls /\ sleep(c, p, IO, "exit")
    /\ UNCHANGED <<killed, ids, mlfq, trap, locals, moq, clock, panicked>>

io_done(c, p) ==
    /\ Thread(c, p, "io")
    /\ Goto(p, Return(killed, p))
    /\ UNCHANGED <<state, chan, killed, ids, mlfq, trap, locals, cpus, lock, moq,
                   clock, panicked>>

\* Mutant: the difference is taken as a signed integer.
Elapsed_Signed(p) == ticks - arg[p]

\* ticks - ticks0 in sys_sleep(), a difference of unsigned integers.
Elapsed(p) == (ticks - arg[p]) % TickMod

sys_sleep(c, p, n) ==
    /\ LockedThread(c, p, "user")
    /\ UserCall(p, "sleep") /\ n > 0
    /\ arg' = [arg EXCEPT ![p] = ticks]
    /\ narg' = [narg EXCEPT ![p] = n]
    /\ sleep(c, p, TICKS, "sleep")
    /\ UNCHANGED <<killed, ids, mlfq, trap, np, moq, clock, panicked>>

sleep_again(c, p) ==
    /\ LockedThread(c, p, "sleep")
    /\ Elapsed(p) < narg[p] /\ ~killed[p]
    /\ sleep(c, p, TICKS, "sleep")
    /\ UNCHANGED <<killed, ids, mlfq, trap, locals, moq, clock, panicked>>

sleep_return(c, p) ==
    /\ Thread(c, p, "sleep")
    /\ Elapsed(p) >= narg[p] \/ killed[p]
    /\ arg' = [arg EXCEPT ![p] = 0]
    /\ narg' = [narg EXCEPT ![p] = 0]
    /\ Goto(p, Return(killed, p))
    /\ UNCHANGED <<state, chan, killed, ids, mlfq, trap, np, cpus, lock, moq, clock,
                   panicked>>

sys_yield(c, p) ==
    /\ LockedThread(c, p, "user")
    /\ UserCall(p, "yield")
    /\ SetState(p, "RUNNABLE")
    /\ Goto(p, "yield")
    /\ sched(c)
    /\ UNCHANGED <<chan, killed, ids, mlfq, trap, locals, moq, clock, panicked>>

-----------------------------------------------------------------------------
(* setpriority(), setmonopoly(), monopolize(), unmonopolize(): the target  *)
(* is looked up under the lock and written without it.  moq_cnt++ is a     *)
(* load and a store, since its value is returned.                          *)

setpriority_find(c, p, n, pr) ==
    /\ LockedThread(c, p, "user")
    /\ UserCall(p, "setpriority")
    /\ pr \in 0 .. MaxPriority
    /\ \E q \in Slot : find_with_pid(n, q) /\ np' = [np EXCEPT ![p] = q]
    /\ arg' = [arg EXCEPT ![p] = pr]
    /\ Goto(p, "setpriority")
    /\ UNCHANGED <<state, chan, killed, ids, mlfq, trap, narg, cpus, lock, moq, clock,
                   panicked>>

setpriority_store(c, p) ==
    /\ Thread(c, p, "setpriority")
    /\ priority' = [priority EXCEPT ![np[p]] = arg[p]]
    /\ np' = [np EXCEPT ![p] = NULL]
    /\ arg' = [arg EXCEPT ![p] = 0]
    /\ Goto(p, Return(killed, p))
    /\ UNCHANGED <<state, chan, killed, ids, level, quantum, trap, narg, cpus, lock,
                   moq, clock, panicked>>

setmonopoly_find(c, p, n) ==
    /\ LockedThread(c, p, "user")
    /\ UserCall(p, "setmonopoly") /\ p \in Admins
    /\ moq_priority < MaxMoq
    /\ \E q \in Slot : find_with_pid(n, q) /\ np' = [np EXCEPT ![p] = q]
    /\ Goto(p, "mon_level")
    /\ UNCHANGED <<state, chan, killed, ids, mlfq, trap, arg, narg, cpus, lock, moq,
                   clock, panicked>>

setmonopoly_level(c, p) ==
    /\ Thread(c, p, "mon_level")
    /\ priority' = [priority EXCEPT ![np[p]] = moq_priority]
    /\ moq_priority' = moq_priority + 1
    /\ level' = [level EXCEPT ![np[p]] = MOQ]
    /\ Goto(p, "mon_state")
    /\ UNCHANGED <<state, chan, killed, ids, quantum, trap, locals, cpus, lock,
                   is_monopolized, moq_cnt, clock, panicked>>

setmonopoly_state(c, p) ==
    /\ Thread(c, p, "mon_state")
    /\ SetState(np[p], "RUNNABLE")
    /\ arg' = [arg EXCEPT ![p] = moq_cnt]
    /\ np' = [np EXCEPT ![p] = NULL]
    /\ Goto(p, "mon_cnt")
    /\ UNCHANGED <<chan, killed, ids, mlfq, trap, narg, cpus, lock, moq, clock,
                   panicked>>

setmonopoly_cnt(c, p) ==
    /\ Thread(c, p, "mon_cnt")
    /\ moq_cnt' = arg[p] + 1
    /\ arg' = [arg EXCEPT ![p] = 0]
    /\ Goto(p, Return(killed, p))
    /\ UNCHANGED <<state, chan, killed, ids, mlfq, trap, np, narg, cpus, lock,
                   is_monopolized, moq_priority, clock, panicked>>

monopolize(c, p) ==
    /\ Thread(c, p, "user")
    /\ UserCall(p, "monopolize")
    /\ is_monopolized' = TRUE
    /\ UNCHANGED <<state, chan, killed, ids, mlfq, pc, trap, locals, cpus, lock,
                   moq_cnt, moq_priority, clock, panicked>>

unmonopolize(c, p) ==
    /\ Thread(c, p, "user")
    /\ UserCall(p, "unmonopolize")
    /\ is_monopolized' = FALSE
    /\ UNCHANGED <<state, chan, killed, ids, mlfq, pc, trap, locals, cpus, lock,
                   moq_cnt, moq_priority, clock, panicked>>

-----------------------------------------------------------------------------
(* Interrupts: trap() up to line 99.  CPU 0 owns the tick; it charges      *)
(* myproc(), which in scheduler() is the last process that ran there.      *)

Interrupts == {"timer", "device"}

TickOf(c, irq) == irq = "timer" /\ c = 0

tick(c, irq) == ticks' = IF TickOf(c, irq) THEN (ticks + 1) % TickMod ELSE ticks

\* quantum-- for the running process q of CPU c.
Charged(c, irq, q) ==
    IF TickOf(c, irq) /\ q # NULL /\ state[q] = "RUNNING" /\ quantum[q] > QuantumFloor
    THEN [quantum EXCEPT ![q] = quantum[q] - 1]
    ELSE quantum

\* Mutant: a tick wakes nobody.
Woken_NotByTick(c, irq) == IF irq = "device" THEN wakeup1(state, IO) ELSE state

\* wakeup(&ticks), or what the device handlers wake.
Woken(c, irq) ==
    IF irq = "device" THEN wakeup1(state, IO)
    ELSE IF c = 0 THEN wakeup1(state, TICKS) ELSE state

\* An interrupt while a thread runs; the tail of trap() follows (trap[p] = 1).
interrupt(c, p, irq) ==
    /\ panicked = "no" /\ on[c] = p /\ trap[p] = 0 /\ lock = NoCpu
    /\ tick(c, irq)
    /\ quantum' = Charged(c, irq, p)
    /\ state' = Woken(c, irq)
    /\ trap' = [trap EXCEPT ![p] = 1]
    /\ UNCHANGED <<chan, killed, ids, level, priority, pc, locals, cpus, lock, moq,
                   queue_position, panicked>>

\* Mutant: the last `if' does not exclude the MoQ.
Expired_Moq(p) ==
    /\ state[p] = "RUNNING" /\ quantum[p] <= 0
    /\ \/ trap[p] = 1 /\ level[p] = 0
       \/ trap[p] <= 2 /\ level[p] \in {1, 2}
       \/ trap[p] <= 3 /\ level[p] >= 3

\* Mutant: a process in L0 is not preempted.
Expired_NotL0(p) ==
    /\ state[p] = "RUNNING" /\ quantum[p] <= 0
    /\ \/ trap[p] <= 2 /\ level[p] \in {1, 2}
       \/ trap[p] <= 3 /\ level[p] = 3

\* The `if' of the tail that makes p yield, if one of those not yet passed does.
Expired(p) ==
    /\ state[p] = "RUNNING" /\ quantum[p] <= 0
    /\ \/ trap[p] = 1 /\ level[p] = 0
       \/ trap[p] <= 2 /\ level[p] \in {1, 2}
       \/ trap[p] <= 3 /\ level[p] = 3

DemotedLevel(p) ==
    IF level[p] = 0 THEN (IF pid[p] % 2 = 0 THEN 2 ELSE 1) ELSE 3

StageAfter(p) == IF level[p] = 0 THEN 2 ELSE IF level[p] = 3 THEN 4 ELSE 3

Aged(p) ==
    IF level[p] # 3 THEN priority[p]
    ELSE IF priority[p] - 1 < 0 THEN 0 ELSE priority[p] - 1

\* p is in the tail of trap(), with interrupts off.
InTail(c, p) == panicked = "no" /\ on[c] = p /\ lock = NoCpu /\ trap[p] > 0

\* Line 104: killed in user mode, before the tail has started.
KilledInUser(p) == trap[p] = 1 /\ killed[p] /\ pc[p] = "user"

trap_killed(c, p) ==
    /\ InTail(c, p) /\ KilledInUser(p)
    /\ trap' = [trap EXCEPT ![p] = 0]
    /\ Goto(p, "ret")
    /\ UNCHANGED <<state, chan, killed, ids, mlfq, locals, cpus, lock, moq, clock,
                   panicked>>

trap_yield(c, p) ==
    /\ InTail(c, p) /\ ~KilledInUser(p)
    /\ Expired(p)
    /\ level' = [level EXCEPT ![p] = DemotedLevel(p)]
    /\ quantum' = [quantum EXCEPT ![p] = Quantum[DemotedLevel(p)]]
    /\ priority' = [priority EXCEPT ![p] = Aged(p)]
    /\ SetState(p, "RUNNABLE")
    /\ trap' = [trap EXCEPT ![p] = StageAfter(p)]
    /\ sched(c)
    /\ UNCHANGED <<chan, killed, ids, pc, locals, moq, clock, panicked>>

\* priority_boosting() when ticks % 100 == 0.
boost(tk, qt) ==
    /\ level' = IF tk % BOOST = 0 THEN BoostedLevel ELSE level
    /\ quantum' = IF tk % BOOST = 0 THEN BoostedQuantum(qt) ELSE qt
    /\ queue_position' = IF tk % BOOST = 0 THEN [l \in 0 .. 3 |-> 0] ELSE queue_position

trap_end(c, p) ==
    /\ InTail(c, p) /\ ~KilledInUser(p)
    /\ ~Expired(p)
    /\ boost(ticks, quantum)
    /\ trap' = [trap EXCEPT ![p] = 0]
    /\ Goto(p, IF pc[p] = "user" THEN Return(killed, p) ELSE pc[p])
    /\ UNCHANGED <<state, chan, killed, ids, priority, locals, cpus, lock, moq, ticks,
                   panicked>>

\* An interrupt in scheduler().  A yield() of the stale c->proc from here would
\* run on the stack of the scheduler: the model stops there.
interrupt_idle(c, irq) ==
    LET q == cproc[c]
        qt == Charged(c, irq, q)
        wild == /\ q # NULL /\ state[q] = "RUNNING"
                /\ level[q] \in 0 .. 3 /\ qt[q] <= 0
    IN  /\ panicked = "no" /\ on[c] = NULL /\ lock = NoCpu
        /\ tick(c, irq)
        /\ state' = Woken(c, irq)
        /\ boost(ticks', qt)
        /\ panicked' = IF wild THEN "yield in scheduler" ELSE panicked
        /\ UNCHANGED <<chan, killed, ids, priority, pc, trap, locals, cpus, lock, moq>>

-----------------------------------------------------------------------------
(* scheduler(), one step per section between two releases of ptable.lock.  *)

Loop(c, at) == panicked = "no" /\ on[c] = NULL /\ spc[c] = at

scheduler_top(c) ==
    /\ Loop(c, "top")
    /\ spc' = [spc EXCEPT ![c] = IF is_monopolized THEN "moq" ELSE "can"]
    /\ si' = [si EXCEPT ![c] = 0]
    /\ sp' = [sp EXCEPT ![c] = NULL]
    /\ UNCHANGED <<state, chan, killed, ids, mlfq, pc, trap, locals, on, cproc, lock,
                   moq, clock, panicked>>


AfterMoq(p) == IF p = NULL THEN "moq_empty" ELSE "run"

scheduler_moq(c) ==
    /\ Loop(c, "moq") /\ lock = NoCpu
    /\ \E p \in Slot \cup {NULL} :
        /\ next_proc(MOQ, p)
        /\ sp' = [sp EXCEPT ![c] = p]
        /\ spc' = [spc EXCEPT ![c] = AfterMoq(p)]
    /\ UNCHANGED <<state, chan, killed, ids, mlfq, pc, trap, locals, on, cproc, si,
                   lock, moq, clock, panicked>>

scheduler_moq_empty(c) ==
    /\ Loop(c, "moq_empty")
    /\ is_monopolized' = IF moq_cnt = 0 THEN FALSE ELSE is_monopolized
    /\ spc' = [spc EXCEPT ![c] = "top"]
    /\ UNCHANGED <<state, chan, killed, ids, mlfq, pc, trap, locals, on, cproc, si,
                   sp, lock, moq_cnt, moq_priority, clock, panicked>>

scheduler_can(c) ==
    /\ Loop(c, "can") /\ lock = NoCpu
    /\ spc' = [spc EXCEPT ![c] = IF can_mlfq(si[c]) THEN "next"
                                 ELSE IF si[c] = 3 THEN "top" ELSE "can"]
    /\ si' = [si EXCEPT ![c] = IF can_mlfq(si[c]) \/ si[c] = 3 THEN si[c] ELSE si[c] + 1]
    /\ UNCHANGED <<state, chan, killed, ids, mlfq, pc, trap, locals, on, cproc, sp,
                   lock, moq, clock, panicked>>

\* Mutants: the index is not wrapped; the scan starts at the chosen process.
NextPosition_NoWrap(l, q) == IF q # NULL THEN {q + 1} ELSE {queue_position[l]}
NextPosition_Same(l, q) == IF q # NULL THEN {q} ELSE {queue_position[l]}

\* When L3 has become empty, the position is computed from a null pointer: any
\* remainder modulo NPROC.
NextPosition(l, q) ==
    IF q # NULL THEN {(q + 1) % NPROC}
    ELSE IF l = 3 THEN (1 - NPROC) .. (NPROC - 1)
    ELSE {queue_position[l]}

scheduler_next(c) ==
    /\ Loop(c, "next") /\ lock = NoCpu
    /\ \E p \in Slot \cup {NULL} :
        /\ next_proc(si[c], p)
        /\ sp' = [sp EXCEPT ![c] = p]
        /\ \E pos \in NextPosition(si[c], p) :
            queue_position' = [queue_position EXCEPT ![si[c]] = pos]
    /\ spc' = [spc EXCEPT ![c] = "run"]
    /\ UNCHANGED <<state, chan, killed, ids, mlfq, pc, trap, locals, on, cproc, si,
                   lock, moq, ticks, panicked>>

\* The dispatch; switchuvm() panics on a null process or stack.
scheduler_run(c) ==
    LET p == sp[c] IN
    /\ Loop(c, "run") /\ lock = NoCpu
    /\ cproc' = [cproc EXCEPT ![c] = p]
    /\ IF p = NULL THEN
          panicked' = "switchuvm: no process" /\ UNCHANGED <<state, on, spc, lock>>
       ELSE IF ~kstack[p] THEN
          panicked' = "switchuvm: no kstack" /\ UNCHANGED <<state, on, spc, lock>>
       ELSE /\ SetState(p, "RUNNING")
            /\ on' = [on EXCEPT ![c] = p]
            /\ spc' = [spc EXCEPT ![c] = "swtch"]
            /\ lock' = c
            /\ UNCHANGED panicked
    /\ UNCHANGED <<chan, killed, ids, mlfq, pc, trap, locals, si, sp, moq, clock>>

\* swtch has resumed the thread of p, which holds ptable.lock: in forkret(), in
\* yield() or in sleep(), which release it; in wait() see WaitScan; in exit()
\* it must not happen.
resume(c, p) ==
    /\ panicked = "no" /\ on[c] = p /\ lock = c
    /\ trap[p] > 0 \/ pc[p] # "wait"
    /\ lock' = NoCpu
    /\ chan' = IF trap[p] = 0 THEN [chan EXCEPT ![p] = NULL] ELSE chan
    /\ panicked' = IF trap[p] = 0 /\ pc[p] = "zombie" THEN "zombie exit" ELSE "no"
    /\ Goto(p, IF trap[p] > 0 THEN pc[p]
               ELSE IF pc[p] = "forkret" THEN "user"
               ELSE IF pc[p] = "yield" THEN Return(killed, p)
               ELSE pc[p])
    /\ UNCHANGED <<state, killed, ids, mlfq, trap, locals, cpus, moq, clock>>

-----------------------------------------------------------------------------
System(c, p) ==
    \/ fork_copy(c, p) \/ fork_fail(c, p) \/ fork_run(c, p)
    \/ exit_begin(c, p) \/ exit_end(c, p)
    \/ wait_reap(c, p) \/ wait_nokids(c, p) \/ wait_sleep(c, p)
    \/ io_done(c, p) \/ sleep_again(c, p) \/ sleep_return(c, p)
    \/ setpriority_store(c, p)
    \/ setmonopoly_level(c, p) \/ setmonopoly_state(c, p) \/ setmonopoly_cnt(c, p)
    \/ trap_killed(c, p) \/ trap_yield(c, p) \/ trap_end(c, p)
    \/ resume(c, p)

User(c, p) ==
    \/ fork_allocproc(c, p)
    \/ \E n \in KillPids : kill(c, p, n)
    \/ fault(c, p)
    \/ io_sleep(c, p)
    \/ \E n \in SleepTicks : sys_sleep(c, p, n)
    \/ sys_yield(c, p)
    \/ \E n \in TargetPids, pr \in Priorities : setpriority_find(c, p, n, pr)
    \/ \E n \in TargetPids : setmonopoly_find(c, p, n)
    \/ monopolize(c, p) \/ unmonopolize(c, p)

Scheduler(c) ==
    \/ scheduler_top(c) \/ scheduler_moq(c) \/ scheduler_moq_empty(c)
    \/ scheduler_can(c) \/ scheduler_next(c) \/ scheduler_run(c)

Interrupt(c) ==
    \E irq \in Interrupts :
        interrupt_idle(c, irq) \/ \E p \in Slot : interrupt(c, p, irq)

Next ==
    \E c \in Cpu :
        \/ Scheduler(c)
        \/ Interrupt(c)
        \/ \E p \in Slot : System(c, p) \/ User(c, p)

Spec == Init /\ [][Next]_vars

-----------------------------------------------------------------------------
TypeOK ==
    /\ state \in [Slot -> States]
    /\ pid \in [Slot -> Nat]
    /\ parent \in [Slot -> Slot \cup {NULL}]
    /\ chan \in [Slot -> Slot \cup {NULL, TICKS, IO}]
    /\ killed \in [Slot -> BOOLEAN]
    /\ level \in [Slot -> Levels]
    /\ quantum \in [Slot -> Int]
    /\ priority \in [Slot -> Int]
    /\ kstack \in [Slot -> BOOLEAN]
    /\ pc \in [Slot -> Points]
    /\ trap \in [Slot -> 0 .. 4]
    /\ np \in [Slot -> Slot \cup {NULL}]
    /\ arg \in [Slot -> Int]
    /\ narg \in [Slot -> Nat]
    /\ on \in [Cpu -> Slot \cup {NULL}]
    /\ cproc \in [Cpu -> Slot \cup {NULL}]
    /\ spc \in [Cpu -> SchedPoints]
    /\ si \in [Cpu -> 0 .. 3]
    /\ sp \in [Cpu -> Slot \cup {NULL}]
    /\ lock \in Cpu \cup {NoCpu}
    /\ nextpid \in Nat
    /\ is_monopolized \in BOOLEAN
    /\ moq_cnt \in Int
    /\ moq_priority \in Nat
    /\ queue_position \in [0 .. 3 -> (1 - NPROC) .. (NPROC - 1)]
    /\ ticks \in 0 .. TickMod - 1
    /\ panicked \in Panics

-----------------------------------------------------------------------------
(* Properties of the life cycle of processes.                              *)

Alive == {"SLEEPING", "RUNNABLE", "RUNNING"}

\* exit() never slips past a parent that is going to sleep: a process asleep
\* in wait() has no ZOMBIE child (exit_end wakes the parent, or init for an
\* orphan, in the section that makes the child a ZOMBIE).
NoLostChild ==
    \A p \in Slot : state[p] = "SLEEPING" /\ pc[p] = "wait" => Zombies(p) = {}

\* A parent pointer never dangles: it names a process that has not exited, and
\* only init is without one.
ParentAlive ==
    /\ \A p \in Slot : parent[p] # NULL => state[parent[p]] \in Alive
    /\ \A p \in Slot \ {INIT} :
        state[p] \notin {"UNUSED", "EMBRYO"} => parent[p] # NULL


\* No tick is lost on a process in sys_sleep(): when enough ticks have passed,
\* it is no longer asleep.
SleeperNotOverdue ==
    \A p \in Slot :
        state[p] = "SLEEPING" /\ pc[p] = "sleep" => (ticks - arg[p]) % TickMod < narg[p]

-----------------------------------------------------------------------------
(* Properties of the MLFQ.                                                 *)

\* Outside the interrupt that has just charged it, a process of L0..L3 has ticks
\* left, and no more than its level grants: no path (fork, demotion, boost,
\* voluntary yield) leaves a process with an expired or a foreign quantum.
QuantumLeft ==
    \A p \in Slot :
        state[p] # "UNUSED" /\ level[p] \in 0 .. 3 /\ trap[p] # 1 =>
            quantum[p] \in 1 .. Quantum[level[p]]


\* scheduler() switches only to a process: can_mlfq() and next_proc() agree.
NoNullDispatch == panicked # "switchuvm: no process"

-----------------------------------------------------------------------------
(* Properties of the MoQ.                                                  *)

\* The processes in the MoQ that have not begun to exit.
MoqMembers ==
    {p \in Slot : level[p] = MOQ /\ pc[p] \notin {"none", "exit", "zombie"}}

\* A call of setmonopoly() that has written the level and not yet moq_cnt.
Enrolling == {p \in Slot : pc[p] \in {"mon_state", "mon_cnt"}}



\* A process stays in the MoQ until its slot is allocated again: neither the
\* demotions in trap() nor a boost move it.
MoqSticky ==
    [][\A p \in Slot : level[p] = MOQ /\ level'[p] # MOQ => state'[p] = "EMBRYO"]_vars

\* First come, first served: a process of the MoQ gives up the CPU only by a
\* call of its own, never to an interrupt.
MoqNotPreempted ==
    [][\A c \in Cpu, p \in Slot :
        on[c] = p /\ on'[c] # p /\ level[p] = MOQ =>
            trap[p] = 0 /\ pc'[p] \in {"yield", "io", "sleep", "wait", "exit", "zombie"}]_vars

-----------------------------------------------------------------------------
(* Liveness; the fairness is in MCProcLive.                                *)

\* A process that exits after its parent did is removed from the table by init.
OrphanReaped ==
    \A p \in Slot :
        state[p] = "ZOMBIE" /\ parent[p] = INIT ~>
            state[p] = "UNUSED" \/ panicked # "no"

\* A process in sys_sleep() returns from it, also when ticks wraps meanwhile.
SleepReturns ==
    \A p \in Slot :
        state[p] = "SLEEPING" /\ pc[p] = "sleep" ~>
            pc[p] # "sleep" \/ panicked # "no"

\* A killed process exits, whatever it was doing.
KilledExits ==
    \A p \in Slot :
        killed[p] /\ state[p] \in Alive ~>
            state[p] \notin Alive \/ panicked # "no"

\* A process that is ready to run is run in the end, as long as a round of L0 fits into
\* the period of the boost, which sets the scan back to the first slot (proc.c:396).
ReadyRuns ==
    \A p \in Slot :
        state[p] = "RUNNABLE" ~> state[p] # "RUNNABLE" \/ panicked # "no"
=============================================================================
