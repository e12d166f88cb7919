----------------------------- MODULE MCProcLive -----------------------------
(***************************************************************************)
(* Proc under a clock that is slow compared with the kernel: a tick (10ms) *)
(* does not fall into a pass through the kernel, but interrupts a process  *)
(* in user mode or an idle CPU; a device interrupts only for a process     *)
(* that waits for it.                                                      *)
(*                                                                         *)
(* Fairness: a CPU keeps executing kernel code; a timer interrupt that is  *)
(* possible again and again is delivered; and init, whenever it runs, gets *)
(* to the wait() in its loop (init.c).                                     *)
(***************************************************************************)
EXTENDS Proc

MCQuantum == [l \in 0 .. 3 |-> 1]

\* Kernel code of CPU c: all steps but those that a user program decides on.
KernelStep(c) ==
    \/ Scheduler(c)
    \/ \E p \in Slot : System(c, p) /\ (pc[p] # "user" \/ trap[p] > 0)

TimerInterrupt ==
    interrupt_idle(0, "timer") \/ \E p \in Slot : interrupt(0, p, "timer")

InitWaits ==
    \E c \in Cpu : wait_reap(c, INIT) \/ wait_sleep(c, INIT)

\* CPU 0 is in user mode, or idle with nothing to run.
Interruptible ==
    \/ on[0] # NULL /\ pc[on[0]] = "user"
    \/ on[0] = NULL /\ \A p \in Slot : state[p] # "RUNNABLE"

SlowTimer == Interruptible /\ TimerInterrupt

\* A device interrupts when a process waits for it.
SlowDevice ==
    /\ Interruptible
    /\ \E p \in Slot : state[p] = "SLEEPING" /\ chan[p] = IO
    /\ interrupt_idle(0, "device") \/ \E p \in Slot : interrupt(0, p, "device")

SlowNext ==
    \/ SlowTimer
    \/ SlowDevice
    \/ \E c \in Cpu :
        \/ Scheduler(c)
        \/ \E p \in Slot : System(c, p) \/ User(c, p)

LiveSpec ==
    /\ Init
    /\ [][SlowNext]_vars
    /\ \A c \in Cpu : WF_vars(KernelStep(c))
    /\ SF_vars(SlowTimer)
    /\ SF_vars(SlowDevice)
    /\ SF_vars(InitWaits)
=============================================================================
