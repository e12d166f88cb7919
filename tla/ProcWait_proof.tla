-------------------------- MODULE ProcWait_proof --------------------------
(***************************************************************************)
(* wait() and exit() lose no wakeup, for every table size, number of CPUs, *)
(* period, quanta and set of system calls.                                 *)
(***************************************************************************)
EXTENDS ProcType_proof

\* init is never in exit(), and its slot is never given away.
InitStays ==
    /\ pc[INIT] \notin {"none", "embryo", "exit", "zombie"}
    /\ parent[INIT] = NULL

\* A slot that is free has no thread; one that is a ZOMBIE is at the end of exit().
FreeSlots ==
    \A p \in Slot :
        /\ state[p] = "UNUSED" => pc[p] = "none"
        /\ state[p] = "ZOMBIE" => pc[p] = "zombie"

\* Between allocproc and the copy, the child of a fork() is an embryo, and the
\* child of nobody else.
Forking ==
    /\ \A p \in Slot : pc[p] = "fork" => np[p] \in Slot /\ pc[np[p]] = "embryo"
    /\ \A p, q \in Slot : pc[p] = "fork" /\ pc[q] = "fork" /\ np[p] = np[q] => p = q

\* No process is its own parent.
Parents == \A p \in Slot : parent[p] # p

\* A process asleep in wait() sleeps on its own address.
WaitChannel ==
    \A p \in Slot : state[p] = "SLEEPING" /\ pc[p] = "wait" => chan[p] = p

\* NoLostChild, strengthened to be inductive.
WaitParts ==
    InitStays /\ FreeSlots /\ Forking /\ Parents /\ WaitChannel /\ NoLostChild

WaitInv == TypeOK /\ WaitParts

\* The part of TypeOK that the proof needs.
WaitTypes ==
    /\ state \in [Slot -> States]
    /\ parent \in [Slot -> Slot \cup {NULL}]
    /\ chan \in [Slot -> Slot \cup {NULL, TICKS, IO}]
    /\ pc \in [Slot -> Points]
    /\ np \in [Slot -> Slot \cup {NULL}]

-----------------------------------------------------------------------------
\* The null pointer is no slot.
LEMMA NullNotSlot == NULL \notin Slot
BY SizeAssumption DEF SizeAssumption, NULL, Slot

\* Only states, and channels of processes that are not in wait(), change, and no
\* process goes to sleep, exits or is reaped.
Frame ==
    /\ UNCHANGED <<pc, parent, np>>
    /\ \A q \in Slot : pc[q] = "wait" => chan'[q] = chan[q]
    /\ \A q \in Slot :
        state'[q] = state[q] \/ state'[q] \notin {"UNUSED", "ZOMBIE", "SLEEPING"}

\* The thread of p goes to point at, outside the ends of fork(), exit() and wait().
Moves(p, at) ==
    /\ pc[p] \notin {"none", "embryo", "zombie"}
    /\ at \notin {"none", "embryo", "zombie", "fork", "wait"}
    /\ at = "exit" => p # INIT
    /\ pc' = [pc EXCEPT ![p] = at]
    /\ parent' = parent
    /\ \A q \in Slot \ {p} : np'[q] = np[q] /\ chan'[q] = chan[q]
    /\ \A q \in Slot :
        \/ state'[q] = state[q]
        \/ state'[q] \notin {"UNUSED", "ZOMBIE", "SLEEPING"}
        \/ q = p /\ state'[q] = "SLEEPING"

\* A step that changes nothing but states, and those harmlessly, keeps the
\* invariant: scheduler(), wakeups, stores to other fields.
LEMMA WaitFrame ==
    ASSUME WaitParts, WaitTypes, Frame
    PROVE  WaitParts'
<1> USE DEF WaitParts, WaitTypes, Frame
<1>1. InitStays' /\ Forking' /\ Parents'
  BY DEF InitStays, Forking, Parents
<1>2. FreeSlots' /\ WaitChannel'
  BY DEF FreeSlots, WaitChannel
<1>3. NoLostChild'
  BY DEF NoLostChild, Zombies
<1> QED
  BY <1>1, <1>2, <1>3

\* So does a step of one thread from one point of the kernel to another.
LEMMA WaitMove ==
    ASSUME WaitParts, WaitTypes, NEW p \in Slot, NEW at, Moves(p, at)
    PROVE  WaitParts'
<1> USE DEF WaitParts, WaitTypes, Moves
<1>1. InitStays' /\ Parents'
  BY InitSlot DEF InitStays, Parents
<1>2. FreeSlots'
  BY DEF FreeSlots
<1>3. WaitChannel'
  BY DEF WaitChannel
<1>4. Forking'
  BY DEF Forking
<1>5. NoLostChild'
  BY DEF NoLostChild, Zombies
<1> QED
  BY <1>1, <1>2, <1>3, <1>4, <1>5

\* A step of a system call or of the tail of trap() keeps the invariant.
LEMMA WaitSystem ==
    ASSUME WaitParts, WaitTypes, NEW c \in Cpu, NEW p \in Slot, System(c, p)
    PROVE  WaitParts'
<1> USE DEF WaitTypes, Thread, LockedThread, WaitScan, Goto, SetState, Return, ids,
            locals, cpus
<1>1. CASE fork_copy(c, p)
  <2> USE InitSlot, NullNotSlot
      DEF WaitParts, InitStays, FreeSlots, Forking, Parents, WaitChannel, NoLostChild, Zombies
  <2>1. /\ pc[p] = "fork" /\ np[p] \in Slot /\ pc[np[p]] = "embryo"
        /\ parent' = [parent EXCEPT ![np[p]] = p]
        /\ pc' = [pc EXCEPT ![p] = "fork_run", ![np[p]] = "forkret"]
        /\ UNCHANGED <<state, chan, np>>
    BY <1>1 DEF fork_copy
  <2>2. np[p] # p /\ np[p] # INIT
    BY <2>1
  <2>3. InitStays' /\ Parents' /\ FreeSlots'
    BY <2>1, <2>2
  <2>4. Forking' /\ WaitChannel'
    BY <2>1, <2>2
  <2>5. NoLostChild'
    BY <2>1, <2>2
  <2> QED
    BY <2>3, <2>4, <2>5
<1>2. CASE fork_fail(c, p)
  <2> USE InitSlot, NullNotSlot
      DEF WaitParts, InitStays, FreeSlots, Forking, Parents, WaitChannel, NoLostChild, Zombies
  <2> DEFINE at == Return(killed, p)
  <2>1. /\ pc[p] = "fork" /\ np[p] \in Slot /\ pc[np[p]] = "embryo"
        /\ state' = [state EXCEPT ![np[p]] = "UNUSED"]
        /\ np' = [np EXCEPT ![p] = NULL]
        /\ pc' = [pc EXCEPT ![p] = at, ![np[p]] = "none"]
        /\ UNCHANGED <<parent, chan>>
    BY <1>2 DEF fork_fail
  <2>2. at \in {"user", "ret"}
    OBVIOUS
  <2> HIDE DEF at
  <2>3. np[p] # p /\ np[p] # INIT
    BY <2>1
  <2>4. InitStays' /\ Parents' /\ FreeSlots'
    BY <2>1, <2>2, <2>3
  <2>5. Forking' /\ WaitChannel'
    BY <2>1, <2>2, <2>3
  <2>6. NoLostChild'
    BY <2>1, <2>2, <2>3
  <2> QED
    BY <2>4, <2>5, <2>6
<1>3. CASE fork_run(c, p)
  <2>1. Moves(p, Return(killed, p))
    BY <1>3 DEF fork_run, Moves
  <2> QED
    BY <2>1, WaitMove, Zenon
<1>4. CASE exit_begin(c, p)
  <2>1. CASE p = INIT
    <3>1. Frame
      BY <1>4, <2>1, Zenon DEF exit_begin, Frame
    <3> QED
      BY <3>1, WaitFrame, Zenon
  <2>2. CASE p # INIT
    <3>1. /\ pc[p] \in {"user", "ret"} /\ pc' = [pc EXCEPT ![p] = "exit"]
          /\ UNCHANGED <<state, parent, np, chan>>
      BY <1>4, <2>2, Zenon DEF exit_begin
    <3>2. Moves(p, "exit")
      BY <2>2, <3>1 DEF Moves
    <3> QED
      BY <3>2, WaitMove, Zenon
  <2> QED
    BY <2>1, <2>2
<1>5. CASE exit_end(c, p)
  <2> USE InitSlot, NullNotSlot
      DEF WaitParts, InitStays, FreeSlots, Forking, Parents, WaitChannel, NoLostChild, Zombies
  <2> DEFINE st == ExitWakes(p)
  <2>1. pc[p] = "exit" /\ pc' = [pc EXCEPT ![p] = "zombie"] /\ UNCHANGED <<np, chan>>
    BY <1>5 DEF exit_end
  <2>2. p # INIT
    BY <2>1
  <2>3. \A q \in Slot : parent'[q] = IF parent[q] = p THEN INIT ELSE parent[q]
    BY <1>5 DEF exit_end, Reparented
  <2>4. \A q \in Slot :
            /\ state[q] # "SLEEPING" => st[q] = state[q]
            /\ state[q] = "SLEEPING" => st[q] \in {"SLEEPING", "RUNNABLE"}
            /\ state[q] = "SLEEPING" /\ chan[q] = parent[p] => st[q] = "RUNNABLE"
    BY DEF ExitWakes, wakeup1
  <2>5. ASSUME NEW q \in Slot, parent[q] = p, state[q] = "ZOMBIE",
               state[INIT] = "SLEEPING", chan[INIT] = INIT
        PROVE  st[INIT] = "RUNNABLE"
    BY <2>5 DEF ExitWakes, wakeup1
  <2>6. \A q \in Slot : state'[q] = IF q = p THEN "ZOMBIE" ELSE st[q]
    BY <1>5 DEF exit_end, ExitWakes, wakeup1
  <2> HIDE DEF st
  <2>7. InitStays' /\ Forking' /\ Parents'
    BY <2>1, <2>2, <2>3
  <2>8. ASSUME NEW q \in Slot
        PROVE  /\ state'[q] = "UNUSED" => pc'[q] = "none"
               /\ state'[q] = "ZOMBIE" => pc'[q] = "zombie"
               /\ state'[q] = "SLEEPING" /\ pc'[q] = "wait" => chan'[q] = q
    <3>1. CASE q = p
      BY <2>1, <2>6, <3>1
    <3>2. CASE q # p
      BY <2>1, <2>4, <2>6, <3>2
    <3> QED
      BY <3>1, <3>2
  <2>9. ASSUME NEW m \in Slot, state'[m] = "SLEEPING", pc'[m] = "wait",
               NEW q \in Slot, parent'[q] = m, state'[q] = "ZOMBIE"
        PROVE  FALSE
    <3>1. m # p /\ state[m] = "SLEEPING" /\ pc[m] = "wait" /\ chan[m] = m
      BY <2>1, <2>4, <2>6, <2>9
    <3>2. st[m] = "SLEEPING"
      BY <2>6, <2>9, <3>1
    <3>3. CASE q = p
      BY <2>3, <2>4, <2>9, <3>1, <3>2, <3>3
    <3>4. CASE q # p
      <4>1. state[q] = "ZOMBIE"
        BY <2>4, <2>6, <2>9, <3>4
      <4> QED
        BY <2>3, <2>5, <2>9, <3>1, <3>2, <4>1
    <3> QED
      BY <3>3, <3>4
  <2>10. NoLostChild'
    BY <2>9
  <2> QED
    BY <2>7, <2>8, <2>10
<1>6. CASE wait_reap(c, p)
  <2> USE InitSlot, NullNotSlot
      DEF WaitParts, InitStays, FreeSlots, Forking, Parents, WaitChannel, NoLostChild, Zombies
  <2>1. PICK q \in Slot :
            /\ parent[q] = p /\ state[q] = "ZOMBIE"
            /\ state' = [state EXCEPT ![q] = "UNUSED"]
            /\ parent' = [parent EXCEPT ![q] = NULL]
            /\ pc' = [pc EXCEPT ![q] = "none", ![p] = Return(killed, p)]
    BY <1>6, Zenon DEF wait_reap
  <2>2. /\ pc[p] \in {"user", "wait"} /\ pc[q] = "zombie"
        /\ Return(killed, p) \in {"user", "ret"}
        /\ chan' = [chan EXCEPT ![p] = NULL] /\ UNCHANGED np
    BY <1>6, <2>1 DEF wait_reap, WaitScan
  <2>3. p # q /\ q # INIT
    BY <2>2
  <2>4. InitStays' /\ Parents'
    BY <2>1, <2>2, <2>3
  <2>5. FreeSlots' /\ WaitChannel'
    BY <2>1, <2>2, <2>3
  <2>6. Forking'
    BY <2>1, <2>2, <2>3
  <2>7. NoLostChild'
    BY <2>1, <2>2, <2>3
  <2> QED
    BY <2>4, <2>5, <2>6, <2>7
<1>7. CASE wait_nokids(c, p)
  <2>1. Moves(p, Return(killed, p))
    BY <1>7 DEF wait_nokids, Moves
  <2> QED
    BY <2>1, WaitMove, Zenon
<1>8. CASE wait_sleep(c, p)
  <2> USE InitSlot, NullNotSlot
      DEF WaitParts, InitStays, FreeSlots, Forking, Parents, WaitChannel, NoLostChild, Zombies
  <2>1. /\ pc[p] \in {"user", "wait"} /\ Zombies(p) = {}
        /\ chan' = [chan EXCEPT ![p] = p]
        /\ state' = [state EXCEPT ![p] = "SLEEPING"]
        /\ pc' = [pc EXCEPT ![p] = "wait"]
        /\ UNCHANGED <<parent, np>>
    BY <1>8 DEF wait_sleep
  <2>2. InitStays' /\ Parents' /\ FreeSlots'
    BY <2>1
  <2>3. Forking' /\ WaitChannel'
    BY <2>1
  <2>4. NoLostChild'
    BY <2>1
  <2> QED
    BY <2>2, <2>3, <2>4
<1>9. CASE io_done(c, p)
  <2>1. Moves(p, Return(killed, p))
    BY <1>9 DEF io_done, Moves
  <2> QED
    BY <2>1, WaitMove, Zenon
<1>10. CASE sleep_again(c, p)
  <2>1. Moves(p, "sleep")
    BY <1>10 DEF sleep_again, sleep, Moves
  <2> QED
    BY <2>1, WaitMove, Zenon
<1>11. CASE sleep_return(c, p)
  <2>1. Moves(p, Return(killed, p))
    BY <1>11 DEF sleep_return, Moves
  <2> QED
    BY <2>1, WaitMove, Zenon
<1>12. CASE setpriority_store(c, p)
  <2>1. Moves(p, Return(killed, p))
    BY <1>12 DEF setpriority_store, Moves
  <2> QED
    BY <2>1, WaitMove, Zenon
<1>13. CASE setmonopoly_level(c, p)
  <2>1. Moves(p, "mon_state")
    BY <1>13 DEF setmonopoly_level, Moves
  <2> QED
    BY <2>1, WaitMove, Zenon
<1>14. CASE setmonopoly_state(c, p)
  <2>1. Moves(p, "mon_cnt")
    BY <1>14 DEF setmonopoly_state, Moves
  <2> QED
    BY <2>1, WaitMove, Zenon
<1>15. CASE setmonopoly_cnt(c, p)
  <2>1. Moves(p, Return(killed, p))
    BY <1>15 DEF setmonopoly_cnt, Moves
  <2> QED
    BY <2>1, WaitMove, Zenon
<1>16. CASE trap_killed(c, p)
  <2>1. Moves(p, "ret")
    BY <1>16 DEF trap_killed, KilledInUser, Moves
  <2> QED
    BY <2>1, WaitMove, Zenon
<1>17. CASE trap_yield(c, p)
  <2>1. Frame
    BY <1>17 DEF trap_yield, Frame
  <2> QED
    BY <2>1, WaitFrame, Zenon
<1>18. CASE trap_end(c, p)
  <2>1. UNCHANGED <<state, parent, np, chan>>
    BY <1>18, Zenon DEF trap_end
  <2>2. CASE pc[p] = "user"
    <3>1. pc' = [pc EXCEPT ![p] = Return(killed, p)]
      BY <1>18, <2>2, Zenon DEF trap_end
    <3>2. Moves(p, Return(killed, p))
      BY <2>1, <2>2, <3>1 DEF Moves
    <3> QED
      BY <3>2, WaitMove, Zenon
  <2>3. CASE pc[p] # "user"
    <3>1. pc' = [pc EXCEPT ![p] = pc[p]]
      BY <1>18, <2>3, Zenon DEF trap_end
    <3>2. Frame
      BY <2>1, <3>1 DEF Frame
    <3> QED
      BY <3>2, WaitFrame, Zenon
  <2> QED
    BY <2>2, <2>3, Zenon
<1>19. CASE resume(c, p)
  <2> DEFINE at == IF pc[p] = "forkret" THEN "user"
                   ELSE IF pc[p] = "yield" THEN Return(killed, p) ELSE pc[p]
  <2>1. UNCHANGED <<state, parent, np>>
    BY <1>19, Zenon DEF resume
  <2>2. CASE trap[p] > 0
    <3>1. ~(trap[p] = 0)
      BY <2>2
    <3>2. pc' = [pc EXCEPT ![p] = pc[p]] /\ chan' = chan
      BY <1>19, <2>2, <3>1, Zenon DEF resume
    <3>3. Frame
      BY <2>1, <3>2 DEF Frame
    <3> QED
      BY <3>3, WaitFrame, Zenon
  <2>3. CASE ~(trap[p] > 0)
    <3>1. pc[p] # "wait" /\ pc' = [pc EXCEPT ![p] = at]
      BY <1>19, <2>3, Zenon DEF resume
    <3>2. chan' = chan \/ chan' = [chan EXCEPT ![p] = NULL]
      BY <1>19, Zenon DEF resume
    <3>3. CASE pc[p] \in {"forkret", "yield"}
      <4>1. at \in {"user", "ret"}
        BY <3>3
      <4> HIDE DEF at
      <4>2. Moves(p, at)
        BY <2>1, <3>1, <3>2, <3>3, <4>1 DEF Moves
      <4> QED
        BY <4>2, WaitMove, Zenon
    <3>4. CASE pc[p] \notin {"forkret", "yield"}
      <4>1. at = pc[p]
        BY <3>4
      <4> HIDE DEF at
      <4>2. Frame
        BY <2>1, <3>1, <3>2, <4>1 DEF Frame
      <4> QED
        BY <4>2, WaitFrame, Zenon
    <3> QED
      BY <3>3, <3>4
  <2> QED
    BY <2>2, <2>3
<1> QED
  BY <1>1, <1>2, <1>3, <1>4, <1>5, <1>6, <1>7, <1>8, <1>9, <1>10, <1>11, <1>12,
     <1>13, <1>14, <1>15, <1>16, <1>17, <1>18, <1>19, Zenon DEF System

\* So does the first step of a system call.
LEMMA WaitUser ==
    ASSUME WaitParts, WaitTypes, NEW c \in Cpu, NEW p \in Slot, User(c, p)
    PROVE  WaitParts'
<1> USE DEF WaitTypes, Thread, LockedThread, Goto, SetState, Return, ids, locals, cpus
<1>1. CASE fork_allocproc(c, p)
  <2> USE InitSlot, NullNotSlot
      DEF WaitParts, InitStays, FreeSlots, Forking, Parents, WaitChannel, NoLostChild, Zombies
  <2>1. PICK q \in Slot :
            /\ state[q] = "UNUSED"
            /\ state' = [state EXCEPT ![q] = "EMBRYO"]
            /\ np' = [np EXCEPT ![p] = q]
            /\ pc' = [pc EXCEPT ![p] = "fork", ![q] = "embryo"]
    BY <1>1, Zenon DEF fork_allocproc
  <2>2. pc[p] = "user" /\ pc[q] = "none" /\ UNCHANGED <<parent, chan>>
    BY <1>1, <2>1 DEF fork_allocproc
  <2>3. p # q /\ q # INIT
    BY <2>2
  <2>4. InitStays' /\ Parents'
    BY <2>1, <2>2, <2>3
  <2>5. FreeSlots' /\ WaitChannel'
    BY <2>1, <2>2, <2>3
  <2>6. Forking'
    BY <2>1, <2>2, <2>3
  <2>7. NoLostChild'
    BY <2>1, <2>2, <2>3
  <2> QED
    BY <2>4, <2>5, <2>6, <2>7
<1>2. ASSUME NEW n \in KillPids, kill(c, p, n) PROVE WaitParts'
  <2>1. Moves(p, Return(killed', p))
    BY <1>2 DEF kill, KillWakes, Moves
  <2> QED
    BY <2>1, WaitMove, Zenon
<1>3. CASE fault(c, p)
  <2>1. Frame
    BY <1>3, Zenon DEF fault, Frame
  <2> QED
    BY <2>1, WaitFrame, Zenon
<1>4. CASE io_sleep(c, p)
  <2>1. /\ pc[p] \in {"user", "io", "exit"}
        /\ chan' = [chan EXCEPT ![p] = IO]
        /\ state' = [state EXCEPT ![p] = "SLEEPING"]
        /\ UNCHANGED <<parent, np>>
    BY <1>4, Zenon DEF io_sleep, sleep
  <2>2. \E at \in {"io", "exit"} :
            pc' = [pc EXCEPT ![p] = at] /\ (at = "exit" => pc[p] = "exit")
    BY <1>4, Zenon DEF io_sleep, sleep
  <2>3. PICK at \in {"io", "exit"} :
            pc' = [pc EXCEPT ![p] = at] /\ (at = "exit" => pc[p] = "exit")
    BY <2>2, Zenon
  <2>4. Moves(p, at)
    BY <2>1, <2>3 DEF WaitParts, InitStays, Moves
  <2> QED
    BY <2>4, WaitMove, Zenon
<1>5. ASSUME NEW n \in SleepTicks, sys_sleep(c, p, n) PROVE WaitParts'
  <2>1. Moves(p, "sleep")
    BY <1>5 DEF sys_sleep, sleep, Moves
  <2> QED
    BY <2>1, WaitMove, Zenon
<1>6. CASE sys_yield(c, p)
  <2>1. Moves(p, "yield")
    BY <1>6 DEF sys_yield, Moves
  <2> QED
    BY <2>1, WaitMove, Zenon
<1>7. ASSUME NEW n \in TargetPids, NEW pr \in Priorities, setpriority_find(c, p, n, pr)
      PROVE WaitParts'
  <2>1. Moves(p, "setpriority")
    BY <1>7 DEF setpriority_find, Moves
  <2> QED
    BY <2>1, WaitMove, Zenon
<1>8. ASSUME NEW n \in TargetPids, setmonopoly_find(c, p, n) PROVE WaitParts'
  <2>1. Moves(p, "mon_level")
    BY <1>8 DEF setmonopoly_find, Moves
  <2> QED
    BY <2>1, WaitMove, Zenon
<1>9. CASE monopolize(c, p)
  <2>1. Frame
    BY <1>9 DEF monopolize, Frame
  <2> QED
    BY <2>1, WaitFrame, Zenon
<1>10. CASE unmonopolize(c, p)
  <2>1. Frame
    BY <1>10 DEF unmonopolize, Frame
  <2> QED
    BY <2>1, WaitFrame, Zenon
<1> QED
  BY <1>1, <1>2, <1>3, <1>4, <1>5, <1>6, <1>7, <1>8, <1>9, <1>10, Zenon DEF User

\* So does a step of scheduler().
LEMMA WaitScheduler ==
    ASSUME WaitParts, WaitTypes, NEW c \in Cpu, Scheduler(c)
    PROVE  WaitParts'
<1>1. UNCHANGED <<pc, parent, np, chan>>
  BY Zenon DEF Scheduler, scheduler_top, scheduler_moq, scheduler_moq_empty, scheduler_can,
     scheduler_next, scheduler_run, ids, locals
<1>2. state' = state \/ state' = [state EXCEPT ![sp[c]] = "RUNNING"]
  BY Zenon DEF Scheduler, scheduler_top, scheduler_moq, scheduler_moq_empty, scheduler_can,
     scheduler_next, scheduler_run, SetState
<1>3. Frame
  BY <1>1, <1>2 DEF Frame, WaitTypes
<1> QED
  BY <1>3, WaitFrame, Zenon

\* So does an interrupt.
LEMMA WaitInterrupt ==
    ASSUME WaitParts, WaitTypes, NEW c \in Cpu, Interrupt(c)
    PROVE  WaitParts'
<1>1. PICK irq \in Interrupts : state' = Woken(c, irq)
  BY Zenon DEF Interrupt, interrupt_idle, interrupt
<1>2. UNCHANGED <<pc, parent, np, chan>>
  BY Zenon DEF Interrupt, interrupt_idle, interrupt, ids, locals
<1>3. Frame
  BY <1>1, <1>2 DEF Frame, Woken, wakeup1, WaitTypes
<1> QED
  BY <1>3, WaitFrame, Zenon

\* The table that userinit() leaves satisfies the invariant about wait().
LEMMA WaitInit == Init => WaitInv
<1> SUFFICES ASSUME Init PROVE WaitParts
  BY TypeInit DEF WaitInv
<1> QED
  BY InitSlot, NullNotSlot
  DEF Init, WaitParts, InitStays, FreeSlots, Forking, Parents, WaitChannel, NoLostChild, INIT

\* Every step of the kernel keeps the invariant about wait().
LEMMA WaitNext == WaitInv /\ [Next]_vars => WaitInv'
<1> SUFFICES ASSUME WaitInv, [Next]_vars PROVE WaitInv'
  OBVIOUS
<1>1. TypeOK'
  BY TypeNext DEF WaitInv
<1>2. CASE UNCHANGED vars
  BY <1>1, <1>2
  DEF WaitInv, WaitParts, InitStays, FreeSlots, Forking, Parents, WaitChannel, NoLostChild,
      Zombies, vars, ids, locals
<1>3. CASE Next
  <2>1. WaitParts /\ WaitTypes
    BY Zenon DEF WaitInv, TypeOK, WaitTypes
  <2>2. WaitParts'
    BY <1>3, <2>1, WaitSystem, WaitUser, WaitScheduler, WaitInterrupt, Zenon DEF Next
  <2> QED
    BY <1>1, <2>2 DEF WaitInv
<1> QED
  BY <1>2, <1>3

\* No wakeup of wait() is lost, on any number of CPUs and whatever the programs
\* call: a process asleep in wait() never has a ZOMBIE child.
THEOREM WaitCorrect == Spec => []NoLostChild
<1>1. WaitInv => NoLostChild
  BY DEF WaitInv, WaitParts
<1> QED
  BY WaitInit, WaitNext, <1>1, PTL DEF Spec
=============================================================================
