-------------------------- MODULE ProcType_proof --------------------------
(***************************************************************************)
(* Type correctness of Proc, for every table size, number of CPUs, period, *)
(* quanta and set of system calls.                                         *)
(***************************************************************************)
EXTENDS Proc, TLAPS

\* A remainder, of a slot or of the tick counter, is below the modulus.
LEMMA Remainder ==
    ASSUME NEW a \in Int, NEW n \in Nat \ {0}
    PROVE  a % n \in 0 .. n - 1
BY Z3

\* initproc is a slot of the table.
LEMMA InitSlot == INIT \in Slot
BY SizeAssumption DEF SizeAssumption, INIT, Slot

\* 0, what a boost stores in queue_position[], is a position of the table.
LEMMA ZeroPosition == 0 \in (1 - NPROC) .. (NPROC - 1)
BY SizeAssumption DEF SizeAssumption

\* The table that userinit() leaves is well typed.
LEMMA TypeInit == Init => TypeOK
<1> SUFFICES ASSUME Init PROVE TypeOK
  OBVIOUS
<1> USE SizeAssumption, TickAssumption, QuantumAssumption, InitSlot
    DEF SizeAssumption, TickAssumption, QuantumAssumption, Init, INIT
<1>1. /\ state \in [Slot -> States]
      /\ pid \in [Slot -> Nat]
      /\ parent \in [Slot -> Slot \cup {NULL}]
      /\ chan \in [Slot -> Slot \cup {NULL, TICKS, IO}]
      /\ killed \in [Slot -> BOOLEAN]
      /\ level \in [Slot -> Levels]
  BY DEF States, Levels
<1>2. /\ quantum \in [Slot -> Int]
      /\ priority \in [Slot -> Int]
      /\ kstack \in [Slot -> BOOLEAN]
      /\ pc \in [Slot -> Points]
      /\ trap \in [Slot -> 0 .. 4]
      /\ np \in [Slot -> Slot \cup {NULL}]
      /\ arg \in [Slot -> Int]
      /\ narg \in [Slot -> Nat]
  BY DEF Points
<1>3. /\ on \in [Cpu -> Slot \cup {NULL}]
      /\ cproc \in [Cpu -> Slot \cup {NULL}]
      /\ spc \in [Cpu -> SchedPoints]
      /\ si \in [Cpu -> 0 .. 3]
      /\ sp \in [Cpu -> Slot \cup {NULL}]
      /\ lock \in Cpu \cup {NoCpu}
  BY DEF SchedPoints
<1>4. /\ nextpid \in Nat
      /\ moq_cnt \in Int
      /\ moq_priority \in Nat
      /\ ticks \in 0 .. TickMod - 1
      /\ panicked \in Panics
  BY DEF Panics
<1>5. is_monopolized \in BOOLEAN
  BY Zenon
<1>6. queue_position \in [0 .. 3 -> (1 - NPROC) .. (NPROC - 1)]
  BY ZeroPosition
<1> QED
  BY <1>1, <1>2, <1>3, <1>4, <1>5, <1>6 DEF TypeOK

\* A step of a system call or of the tail of trap() keeps the types.
LEMMA TypeSystem ==
    ASSUME TypeOK, NEW c \in Cpu, NEW p \in Slot, System(c, p)
    PROVE  TypeOK'
<1> USE DEF TypeOK, ids, mlfq, locals, cpus, moq, clock
<1>1. CASE fork_copy(c, p)
  BY <1>1, Zenon DEF fork_copy, Points
<1>2. CASE fork_fail(c, p)
  BY <1>2, Zenon DEF fork_fail, SetState, Return, States, Points
<1>3. CASE fork_run(c, p)
  BY <1>3, Zenon DEF fork_run, SetState, Goto, Return, States, Points
<1>4. CASE exit_begin(c, p)
  <2>1. moq_cnt' = moq_cnt \/ moq_cnt' = moq_cnt - 1
    BY <1>4, Zenon DEF exit_begin, MoqCntAfterExit
  <2>2. moq_cnt' \in Int
    BY <2>1
  <2>3. pc' \in [Slot -> Points] /\ panicked' \in Panics
    BY <1>4, Zenon DEF exit_begin, Goto, Points, Panics
  <2> QED
    BY <1>4, <2>2, <2>3, Zenon DEF exit_begin
<1>5. CASE exit_end(c, p)
  BY <1>5, InitSlot DEF exit_end, ExitWakes, wakeup1, Reparented, Goto, sched,
     States, Points, SchedPoints
<1>6. CASE wait_reap(c, p)
  BY <1>6 DEF wait_reap, Zombies, SetState, Return, States, Points
<1>7. CASE wait_nokids(c, p)
  BY <1>7 DEF wait_nokids, Goto, Return, Points
<1>8. CASE wait_sleep(c, p)
  BY <1>8 DEF wait_sleep, SetState, Goto, sched, States, Points, SchedPoints
<1>9. CASE io_done(c, p)
  BY <1>9 DEF io_done, Goto, Return, Points
<1>10. CASE sleep_again(c, p)
  BY <1>10 DEF sleep_again, sleep, SetState, Goto, sched, States, Points,
     SchedPoints
<1>11. CASE sleep_return(c, p)
  BY <1>11 DEF sleep_return, Goto, Return, Points
<1>12. CASE setpriority_store(c, p)
  <2>1. PICK v \in Int : v = arg[p]
    OBVIOUS
  <2>2. priority' = [priority EXCEPT ![np[p]] = v]
    BY <1>12, <2>1 DEF setpriority_store
  <2>3. priority' \in [Slot -> Int]
    BY <2>2, Zenon
  <2> QED
    BY <1>12, <2>3 DEF setpriority_store, Goto, Return, Points
<1>13. CASE setmonopoly_level(c, p)
  <2>1. PICK v \in Int : v = moq_priority
    OBVIOUS
  <2>2. priority' = [priority EXCEPT ![np[p]] = v]
    BY <1>13, <2>1 DEF setmonopoly_level
  <2>3. priority' \in [Slot -> Int]
    BY <2>2, Zenon
  <2> QED
    BY <1>13, <2>3 DEF setmonopoly_level, Goto, Levels, Points
<1>14. CASE setmonopoly_state(c, p)
  BY <1>14, Zenon DEF setmonopoly_state, SetState, Goto, States, Points
<1>15. CASE setmonopoly_cnt(c, p)
  BY <1>15 DEF setmonopoly_cnt, Goto, Return, Points
<1>16. CASE trap_killed(c, p)
  BY <1>16 DEF trap_killed, Goto, Points
<1>17. CASE trap_yield(c, p)
  BY <1>17, QuantumAssumption DEF trap_yield, DemotedLevel, Aged, StageAfter,
     SetState, sched, States, Levels, SchedPoints, QuantumAssumption
<1>18. CASE trap_end(c, p)
  BY <1>18, QuantumAssumption, SizeAssumption DEF trap_end, boost, BoostedLevel,
     BoostedQuantum, Goto, Return, Points, Levels, QuantumAssumption
<1>19. CASE resume(c, p)
  BY <1>19, Zenon DEF resume, Goto, Return, Points, Panics
<1> QED
  BY <1>1, <1>2, <1>3, <1>4, <1>5, <1>6, <1>7, <1>8, <1>9, <1>10, <1>11, <1>12,
     <1>13, <1>14, <1>15, <1>16, <1>17, <1>18, <1>19, Zenon DEF System

\* So does the first step of a system call.
LEMMA TypeUser ==
    ASSUME TypeOK, NEW c \in Cpu, NEW p \in Slot, User(c, p)
    PROVE  TypeOK'
<1> USE DEF TypeOK, ids, mlfq, locals, cpus, moq, clock
<1>1. CASE fork_allocproc(c, p)
  <2>1. PICK q \in Slot :
            /\ state' = [state EXCEPT ![q] = "EMBRYO"]
            /\ pid' = [pid EXCEPT ![q] = nextpid]
            /\ nextpid' = nextpid + 1
            /\ level' = [level EXCEPT ![q] = 0]
            /\ quantum' = [quantum EXCEPT ![q] = Quantum[0]]
            /\ priority' = [priority EXCEPT ![q] = 0]
            /\ np' = [np EXCEPT ![p] = q]
            /\ pc' = [pc EXCEPT ![p] = "fork", ![q] = "embryo"]
    BY <1>1, Zenon DEF fork_allocproc, SetState
  <2>2. state' \in [Slot -> States] /\ pc' \in [Slot -> Points] /\ np' \in [Slot -> Slot \cup {NULL}]
    BY <2>1 DEF States, Points
  <2>3. pid' \in [Slot -> Nat] /\ nextpid' \in Nat
    BY <2>1
  <2>4. level' \in [Slot -> Levels] /\ priority' \in [Slot -> Int]
    BY <2>1 DEF Levels
  <2>5. quantum' \in [Slot -> Int]
    BY <2>1, QuantumAssumption DEF QuantumAssumption
  <2> QED
    BY <1>1, <2>2, <2>3, <2>4, <2>5, Zenon DEF fork_allocproc
<1>2. ASSUME NEW n \in KillPids, kill(c, p, n) PROVE TypeOK'
  BY <1>2 DEF kill, KillWakes, Goto, Return, States, Points
<1>3. CASE fault(c, p)
  BY <1>3 DEF fault
<1>4. CASE io_sleep(c, p)
  <2>1. /\ pc' = [pc EXCEPT ![p] = "io"] \/ pc' = [pc EXCEPT ![p] = "exit"]
        /\ chan' = [chan EXCEPT ![p] = IO]
        /\ state' = [state EXCEPT ![p] = "SLEEPING"]
        /\ sched(c)
    BY <1>4, Zenon DEF io_sleep, sleep, SetState, Goto
  <2>2. pc' \in [Slot -> Points] /\ state' \in [Slot -> States]
    BY <2>1 DEF Points, States
  <2>3. chan' \in [Slot -> Slot \cup {NULL, TICKS, IO}]
    BY <2>1
  <2>4. on' \in [Cpu -> Slot \cup {NULL}] /\ spc' \in [Cpu -> SchedPoints] /\ lock' = NoCpu
    BY <2>1 DEF sched, SchedPoints
  <2>5. UNCHANGED <<killed, ids, mlfq, trap, locals, moq, clock, panicked, cproc, si, sp>>
    BY <1>4, <2>1, Zenon DEF io_sleep, sched
  <2> QED
    BY <2>2, <2>3, <2>4, <2>5, Zenon
<1>5. ASSUME NEW n \in SleepTicks, sys_sleep(c, p, n) PROVE TypeOK'
  BY <1>5, InputAssumption, TickAssumption DEF sys_sleep, sleep, SetState, Goto,
     sched, States, Points, SchedPoints, InputAssumption
<1>6. CASE sys_yield(c, p)
  BY <1>6 DEF sys_yield, SetState, Goto, sched, States, Points, SchedPoints
<1>7. ASSUME NEW n \in TargetPids, NEW pr \in Priorities, setpriority_find(c, p, n, pr)
      PROVE  TypeOK'
  BY <1>7, InputAssumption DEF setpriority_find, Goto, Points, InputAssumption
<1>8. ASSUME NEW n \in TargetPids, setmonopoly_find(c, p, n) PROVE TypeOK'
  BY <1>8 DEF setmonopoly_find, Goto, Points
<1>9. CASE monopolize(c, p)
  BY <1>9 DEF monopolize
<1>10. CASE unmonopolize(c, p)
  BY <1>10, Zenon DEF unmonopolize
<1> QED
  BY <1>1, <1>2, <1>3, <1>4, <1>5, <1>6, <1>7, <1>8, <1>9, <1>10, Zenon DEF User

\* So does a step of scheduler().
LEMMA TypeScheduler ==
    ASSUME TypeOK, NEW c \in Cpu, Scheduler(c)
    PROVE  TypeOK'
<1> USE DEF TypeOK, ids, mlfq, locals, cpus, moq, clock
<1>1. CASE scheduler_top(c)
  BY <1>1 DEF scheduler_top, SchedPoints
<1>2. CASE scheduler_moq(c)
  BY <1>2 DEF scheduler_moq, AfterMoq, SchedPoints
<1>3. CASE scheduler_moq_empty(c)
  BY <1>3, Zenon DEF scheduler_moq_empty, SchedPoints
<1>4. CASE scheduler_can(c)
  BY <1>4 DEF scheduler_can, SchedPoints
<1>5. CASE scheduler_next(c)
  <2>0. PICK q \in Slot \cup {NULL} : \E pos \in NextPosition(si[c], q) :
            queue_position' = [queue_position EXCEPT ![si[c]] = pos]
    BY <1>5, Zenon DEF scheduler_next
  <2>1. PICK pos \in NextPosition(si[c], q) :
            queue_position' = [queue_position EXCEPT ![si[c]] = pos]
    BY <2>0, Zenon
  <2>2. pos \in (1 - NPROC) .. (NPROC - 1)
    <3>1. CASE q # NULL
      <4>1. q + 1 \in Int
        BY <3>1, SizeAssumption DEF SizeAssumption, Slot
      <4>2. (q + 1) % NPROC \in 0 .. NPROC - 1
        BY <4>1, Remainder, SizeAssumption, Zenon DEF SizeAssumption
      <4>3. pos = (q + 1) % NPROC
        BY <3>1 DEF NextPosition
      <4> QED
        BY <4>2, <4>3, SizeAssumption DEF SizeAssumption
    <3>2. CASE q = NULL
      BY <3>2 DEF NextPosition
    <3> QED
      BY <3>1, <3>2
  <2>3. queue_position' \in [0 .. 3 -> (1 - NPROC) .. (NPROC - 1)]
    BY <2>1, <2>2
  <2> QED
    BY <1>5, <2>3 DEF scheduler_next, SchedPoints
<1>6. CASE scheduler_run(c)
  BY <1>6, Zenon DEF scheduler_run, SetState, States, SchedPoints, Panics
<1> QED
  BY <1>1, <1>2, <1>3, <1>4, <1>5, <1>6, Zenon DEF Scheduler

\* The clock wraps: ticks stays an unsigned integer.
LEMMA TickType ==
    ASSUME TypeOK, NEW c, NEW irq, tick(c, irq)
    PROVE  ticks' \in 0 .. TickMod - 1
<1>1. ticks \in 0 .. TickMod - 1 /\ TickMod \in Nat \ {0}
  BY TickAssumption DEF TypeOK, TickAssumption
<1>2. (ticks + 1) % TickMod \in 0 .. TickMod - 1
  BY <1>1, Remainder
<1> QED
  BY <1>1, <1>2 DEF tick

\* So does an interrupt.
LEMMA TypeInterrupt ==
    ASSUME TypeOK, NEW c \in Cpu, Interrupt(c)
    PROVE  TypeOK'
<1> USE DEF TypeOK, ids, mlfq, locals, cpus, moq, clock
<1>1. ASSUME NEW irq \in Interrupts, interrupt_idle(c, irq)
      PROVE  TypeOK'
  <2> DEFINE qt == Charged(c, irq, cproc[c])
  <2>1. qt \in [Slot -> Int]
    BY DEF Charged
  <2>2. boost(ticks', qt) /\ tick(c, irq)
    BY <1>1, Zenon DEF interrupt_idle
  <2>3. ticks' \in 0 .. TickMod - 1
    BY <2>2, TickType
  <2> HIDE DEF qt
  <2>4. level' \in [Slot -> Levels]
    BY <2>2 DEF boost, BoostedLevel, Levels
  <2>5. quantum' \in [Slot -> Int]
    BY <2>1, <2>2, QuantumAssumption DEF boost, BoostedQuantum, QuantumAssumption
  <2>6. queue_position' \in [0 .. 3 -> (1 - NPROC) .. (NPROC - 1)]
    BY <2>2, ZeroPosition DEF boost
  <2>7. state' \in [Slot -> States] /\ panicked' \in Panics
    BY <1>1, Zenon DEF interrupt_idle, Woken, wakeup1, States, Panics
  <2> QED
    BY <1>1, <2>3, <2>4, <2>5, <2>6, <2>7, Zenon DEF interrupt_idle
<1>2. ASSUME NEW irq \in Interrupts, NEW p \in Slot, interrupt(c, p, irq)
      PROVE  TypeOK'
  BY <1>2, TickType DEF interrupt, Charged, Woken, wakeup1, States
<1> QED
  BY <1>1, <1>2 DEF Interrupt

\* Every step of the kernel keeps the types.
LEMMA TypeNext == TypeOK /\ [Next]_vars => TypeOK'
<1> SUFFICES ASSUME TypeOK, [Next]_vars PROVE TypeOK'
  OBVIOUS
<1>1. CASE UNCHANGED vars
  BY <1>1 DEF TypeOK, vars, ids, mlfq, locals, cpus, moq, clock
<1>2. CASE Next
  BY <1>2, TypeSystem, TypeUser, TypeScheduler, TypeInterrupt DEF Next
<1> QED
  BY <1>1, <1>2

\* Every reachable state is well typed: no index leaves the process table, no
\* level but 0..3 and 99 is ever stored, ticks wraps within its width.
THEOREM TypeCorrect == Spec => []TypeOK
<1> QED
  BY TypeInit, TypeNext, PTL DEF Spec
=============================================================================
