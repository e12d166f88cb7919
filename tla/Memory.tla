------------------------------- MODULE Memory -------------------------------
(***************************************************************************)
(* Physical pages and address spaces: kalloc.c, vm.c, exec.c, growproc()   *)
(* and the memory side of fork(), exit() and wait() (proc.c).              *)
(*                                                                         *)
(* A step that allocates is one call of kalloc(), so that processes can    *)
(* run out of memory because of each other at any point.  Freeing, which   *)
(* cannot fail, is done at once: a page that is freed later would only     *)
(* make another process find less memory in between.  Pages are alike: the *)
(* model has how many are free, and which places hold one.                 *)
(***************************************************************************)
EXTENDS Integers, Sequences, FiniteSets, FiniteSetsExt

CONSTANTS
    Proc,
    initproc,      \* the first process, which does not exit
    NPAGE,         \* physical pages for kalloc()
    PGSIZE,        \* bytes of a page
    KERNBASE,      \* end of user addresses
    NPTE,          \* entries of a page table (1024 in mmu.h)
    NKPT,          \* page tables for the addresses of the kernel
    Programs,      \* sequences of program headers [vaddr, memsz, sound]
    Growths,       \* arguments of sbrk()
    NONE

\* Virtual page numbers of user addresses, and the page directory entries in use.
VPage == 0 .. KERNBASE \div PGSIZE - 1
UserPde == {a \div NPTE : a \in VPage}
KernelPde == {Max(UserPde) + i : i \in 1 .. NKPT}
Pde == UserPde \cup KernelPde

ASSUME MemoryAssumption ==
    /\ initproc \in Proc /\ NONE \notin Proc
    /\ NPAGE \in Nat /\ PGSIZE \in Nat \ {0} /\ NPTE \in Nat \ {0} /\ NKPT \in Nat
    /\ KERNBASE \in Nat /\ KERNBASE % PGSIZE = 0 /\ KERNBASE > PGSIZE
    /\ NPAGE >= 4 + NKPT
    /\ Growths \subseteq Int

\* A page directory, if any, the entries of it that have a page table, the user pages
\* that are mapped, and those that have PTE_U.
Spaces == [dir : BOOLEAN, tab : SUBSET Pde, map : SUBSET VPage, user : SUBSET VPage]
NoSpace == [dir |-> FALSE, tab |-> {}, map |-> {}, user |-> {}]

VARIABLES
    free,          \* length of kmem.freelist
    own,           \* proc.pgdir with all it refers to
    sz,            \* proc.sz
    kstack,        \* the processes that have a kernel stack (proc.kstack)
    new,           \* exec(), fork(): the address space under construction
    mem,           \* the processes with a page to be mapped (allocuvm(), copyuvm())
    job,           \* the call that a process executes, see NoJob
    locked,        \* the processes that have a program locked, in a transaction
    pc             \* where a process is

vars == <<free, own, sz, kstack, new, mem, job, locked, pc>>

\* kind of the call; next virtual page to map, old and new size; exec(): the headers
\* still to load; fork(): the child.
NoJob == [kind |-> "none", a |-> 0, old |-> 0, goal |-> 0, ph |-> <<>>, child |-> NONE]
Points == {"none", "user", "zombie", "setupkvm", "page", "table", "header", "load", "args"}

PGROUNDUP(n) == (n + PGSIZE - 1) \div PGSIZE    \* as a page number

\* The virtual pages from size lo up to size hi.
Between(lo, hi) == {a \in VPage : PGROUNDUP(lo) <= a /\ a * PGSIZE < hi}

\* Number of pages that an address space consists of: what freevm() frees.
Pages(s) == (IF s.dir THEN 1 ELSE 0) + Cardinality(s.tab) + Cardinality(s.map)

Map(s, a, u) ==
    [s EXCEPT !.tab = @ \cup {a \div NPTE}, !.map = @ \cup {a},
              !.user = IF u THEN @ \cup {a} ELSE @]

\* deallocuvm() for the pages in A, which are unmapped and freed.
Unmap(s, A) == [s EXCEPT !.map = @ \ A, !.user = @ \ A]

\* userinit(): setupkvm() and inituvm() for one page of code.
Init ==
    LET s == Map([NoSpace EXCEPT !.dir = TRUE, !.tab = KernelPde], 0, TRUE)
    IN  /\ own = [p \in Proc |-> IF p = initproc THEN s ELSE NoSpace]
        /\ sz = [p \in Proc |-> IF p = initproc THEN PGSIZE ELSE 0]
        /\ kstack = {initproc}
        /\ free = NPAGE - Pages(s) - 1
        /\ new = [p \in Proc |-> NoSpace] /\ mem = {}
        /\ job = [p \in Proc |-> NoJob] /\ locked = {}
        /\ pc = [p \in Proc |-> IF p = initproc THEN "user" ELSE "none"]

\* kalloc() finds a page.
kalloc == free > 0 /\ free' = free - 1

\* kfree() of n pages.
kfree(n) == free' = free + n

Goto(p, point) == pc' = [pc EXCEPT ![p] = point]

\* Who has no page to execute from takes a page fault and makes no system call.
Calls(p) == pc[p] = "user" /\ own[p].user # {}

-----------------------------------------------------------------------------
(* How calls end.                                                          *)

\* The call of p returns; it had no effect but those of the other conjuncts.
Return(p) ==
    /\ Goto(p, "user")
    /\ job' = [job EXCEPT ![p] = NoJob]

\* Mutant: the page that could not be mapped is forgotten.
InHand_Lost(p) == 0

\* kfree(mem) when mappages() has failed.
InHand(p) == IF p \in mem THEN 1 ELSE 0

\* sbrk(): allocuvm() unmaps what it has mapped; page tables stay.
sbrk_fail(p) ==
    LET A == own[p].map \cap Between(job[p].old, job[p].goal)
    IN  /\ kfree(Cardinality(A) + InHand(p))
        /\ own' = [own EXCEPT ![p] = Unmap(@, A)]
        /\ mem' = mem \ {p}
        /\ Return(p)
        /\ UNCHANGED <<sz, kstack, new, locked>>

\* exec(): the label bad.
exec_bad(p) ==
    /\ kfree(Pages(new[p]) + InHand(p))
    /\ new' = [new EXCEPT ![p] = NoSpace] /\ mem' = mem \ {p}
    /\ locked' = locked \ {p}
    /\ Return(p)
    /\ UNCHANGED <<own, sz, kstack>>

\* fork(): copyuvm() has freed its pages; the slot of the child is given back.
fork_fail(p) ==
    /\ kfree(Pages(new[p]) + InHand(p) + 1)
    /\ new' = [new EXCEPT ![p] = NoSpace] /\ mem' = mem \ {p}
    /\ kstack' = kstack \ {job[p].child}
    /\ Return(p)
    /\ UNCHANGED <<own, sz, locked>>

Fail(p) ==
    CASE job[p].kind = "sbrk" -> sbrk_fail(p)
      [] job[p].kind = "exec" -> exec_bad(p)
      [] job[p].kind = "fork" -> fork_fail(p)

-----------------------------------------------------------------------------
(* setupkvm(), allocuvm() and copyuvm(), one kalloc() at a time.           *)

\* sbrk() works on the address space in use, the other calls on a new one.
Space(p) == IF job[p].kind = "sbrk" THEN own[p] ELSE new[p]

SetSpace(p, s) ==
    IF job[p].kind = "sbrk"
    THEN own' = [own EXCEPT ![p] = s] /\ UNCHANGED new
    ELSE new' = [new EXCEPT ![p] = s] /\ UNCHANGED own

\* The directory first, then a page table for each entry of the kernel.
setupkvm(p) ==
    LET s == new[p]
        todo == KernelPde \ s.tab
    IN  /\ pc[p] = "setupkvm"
        /\ \/ free = 0 /\ IF job[p].kind = "exec" THEN exec_bad(p) ELSE fork_fail(p)
           \/ /\ kalloc
              /\ new' = [new EXCEPT ![p] = IF s.dir THEN [s EXCEPT !.tab = @ \cup {Min(todo)}]
                                          ELSE [s EXCEPT !.dir = TRUE]]
              /\ Goto(p, IF ~s.dir \/ Cardinality(todo) > 1 THEN "setupkvm"
                         ELSE IF job[p].kind = "exec" THEN "header" ELSE "page")
              /\ UNCHANGED <<own, sz, kstack, mem, job, locked>>

\* copyuvm() copies the flags of the parent's page; allocuvm() sets PTE_U.
Flag(p) == job[p].kind = "fork" => job[p].a \in own[p].user

\* fork() after copyuvm(): the child has its memory and becomes RUNNABLE.
fork_done(p, s) ==
    LET c == job[p].child
    IN  /\ own' = [own EXCEPT ![c] = s] /\ new' = [new EXCEPT ![p] = NoSpace]
        /\ sz' = [sz EXCEPT ![c] = sz[p]]
        /\ pc' = [pc EXCEPT ![p] = "user", ![c] = "user"]
        /\ job' = [job EXCEPT ![p] = NoJob]
        /\ UNCHANGED locked

clearpteu(s, a) == [s EXCEPT !.user = @ \ {a}]

\* exec(): the stack is there, and the page below it is made inaccessible.
stack_done(p, s) ==
    /\ new' = [new EXCEPT ![p] = clearpteu(s, job[p].a - 1)]
    /\ Goto(p, "args")
    /\ UNCHANGED <<own, sz, job, locked>>

\* allocuvm() returns the new size.
alloc_done(p, s) ==
    /\ SetSpace(p, s)
    /\ IF job[p].kind = "sbrk" THEN sz' = [sz EXCEPT ![p] = job[p].goal] /\ Return(p)
                                ELSE Goto(p, "load") /\ UNCHANGED <<sz, job>>
    /\ UNCHANGED locked

\* The page mem is mapped at a, in a page table that exists: one round of the loop.
mapped(p, s) ==
    IF (job[p].a + 1) * PGSIZE < job[p].goal
    THEN /\ SetSpace(p, s) /\ Goto(p, "page")
         /\ job' = [job EXCEPT ![p].a = @ + 1]
         /\ UNCHANGED <<sz, locked>>
    ELSE CASE job[p].kind = "fork" -> fork_done(p, s)
           [] job[p].kind = "exec" /\ job[p].ph = <<>> -> stack_done(p, s)
           [] OTHER -> alloc_done(p, s)

\* mem = kalloc(), and mappages() when walkpgdir() finds the page table.
alloc_page(p) ==
    LET a == job[p].a
        s == Space(p)
    IN  /\ pc[p] = "page"
        /\ \/ free = 0 /\ Fail(p)
           \/ /\ kalloc
              /\ IF a \div NPTE \in s.tab
                 THEN mapped(p, Map(s, a, Flag(p))) /\ UNCHANGED mem
                 ELSE /\ mem' = mem \cup {p} /\ Goto(p, "table")
                      /\ UNCHANGED <<own, sz, new, job, locked>>
              /\ UNCHANGED kstack

\* walkpgdir() allocates the page table.
walkpgdir(p) ==
    /\ pc[p] = "table"
    /\ \/ free = 0 /\ Fail(p)
       \/ /\ kalloc /\ mem' = mem \ {p}
          /\ mapped(p, Map(Space(p), job[p].a, Flag(p)))
          /\ UNCHANGED kstack

-----------------------------------------------------------------------------
(* The calls.                                                              *)

\* Mutant: allocuvm() lets a process grow up to the kernel.
Fits_Kernel(size) == size <= KERNBASE

\* The first check of allocuvm().
Fits(size) == size < KERNBASE

\* sbrk(n), n > 0.  A size inside the last page needs no page.
grow(p, n) ==
    LET goal == sz[p] + n
    IN  /\ Calls(p) /\ n > 0 /\ Fits(goal)
        /\ IF Between(sz[p], goal) = {}
           THEN sz' = [sz EXCEPT ![p] = goal] /\ UNCHANGED <<job, pc>>
           ELSE /\ job' = [job EXCEPT ![p] = [NoJob EXCEPT !.kind = "sbrk", !.old = sz[p],
                                               !.goal = goal, !.a = PGROUNDUP(sz[p])]]
                /\ Goto(p, "page") /\ UNCHANGED sz
        /\ UNCHANGED <<free, own, kstack, new, mem, locked>>

\* Mutant: deallocuvm() starts one page too low.
Cut_Low(p, n) == {a \in VPage : (sz[p] + n) \div PGSIZE <= a /\ a * PGSIZE < sz[p]}

\* The virtual pages that sbrk(n), n < 0, gives up.
Cut(p, n) == Between(sz[p] + n, sz[p])

\* sbrk(n), n < 0.  deallocuvm() returns the new size; growproc() takes 0 for a
\* failure and leaves proc.sz.  A size below 0 wraps and changes nothing.  The first
\* process keeps its code: its exit would be a panic.
shrink(p, n) ==
    /\ Calls(p) /\ n < 0 /\ sz[p] + n >= (IF p = initproc THEN 1 ELSE 0)
    /\ kfree(Cardinality(own[p].map \cap Cut(p, n)))
    /\ own' = [own EXCEPT ![p] = Unmap(@, Cut(p, n))]
    /\ sz' = [sz EXCEPT ![p] = IF @ + n = 0 THEN @ ELSE @ + n]
    /\ UNCHANGED <<kstack, new, mem, job, locked, pc>>

sbrk(p) == \E n \in Growths : grow(p, n) \/ shrink(p, n)

\* allocproc() takes a slot and allocates the kernel stack; copyuvm() begins.
fork(p, c) ==
    /\ Calls(p) /\ pc[c] = "none" /\ c \notin kstack
    /\ kalloc /\ kstack' = kstack \cup {c}
    /\ job' = [job EXCEPT ![p] = [NoJob EXCEPT !.kind = "fork", !.goal = sz[p], !.child = c]]
    /\ Goto(p, "setupkvm")
    /\ UNCHANGED <<own, sz, new, mem, locked>>

\* exec() up to setupkvm(): the program is found, locked, and has a good ELF header.
exec(p, prog) ==
    /\ Calls(p)
    /\ job' = [job EXCEPT ![p] = [NoJob EXCEPT !.kind = "exec", !.ph = prog]]
    /\ locked' = locked \cup {p}
    /\ Goto(p, "setupkvm")
    /\ UNCHANGED <<free, own, sz, kstack, new, mem>>

\* allocuvm(pgdir, sz, goal) in exec(), whose sz is job.goal; L: locked afterwards.
exec_alloc(p, goal, L) ==
    LET size == job[p].goal
    IN  IF ~Fits(goal) \/ Max({goal, size}) = 0
        THEN exec_bad(p)
        ELSE /\ job' = [job EXCEPT ![p].goal = Max({goal, size}), ![p].a = PGROUNDUP(size)]
             /\ Goto(p, IF Between(size, goal) = {} THEN "load" ELSE "page")
             /\ locked' = L
             /\ UNCHANGED <<free, own, sz, kstack, new, mem>>


\* iunlockput() and end_op() when the last header is done.
Released(p) == locked \ {p}

\* The next program header; after the last one, the two pages for the stack.
exec_header(p) ==
    /\ pc[p] = "header"
    /\ IF job[p].ph = <<>>
       THEN exec_alloc(p, (PGROUNDUP(job[p].goal) + 2) * PGSIZE, Released(p))
       ELSE LET ph == Head(job[p].ph)
            IN  IF ph.sound THEN exec_alloc(p, ph.vaddr + ph.memsz, locked) ELSE exec_bad(p)

\* The segment has its memory: loaduvm(), which may come short of the file.
exec_load(p) ==
    /\ pc[p] = "load"
    /\ \/ exec_bad(p)
       \/ /\ Head(job[p].ph).vaddr % PGSIZE = 0
          /\ job' = [job EXCEPT ![p].ph = Tail(@)]
          /\ Goto(p, "header")
          /\ UNCHANGED <<free, own, sz, kstack, new, mem, locked>>

\* The arguments are copied out, which fails when they do not fit; commit.
exec_commit(p) ==
    /\ pc[p] = "args"
    /\ \/ exec_bad(p)
       \/ /\ own' = [own EXCEPT ![p] = new[p]] /\ new' = [new EXCEPT ![p] = NoSpace]
          /\ sz' = [sz EXCEPT ![p] = job[p].goal]
          /\ kfree(Pages(own[p]))
          /\ Return(p)
          /\ UNCHANGED <<kstack, mem, locked>>

\* exit(), also after a page fault.
exit(p) ==
    /\ p # initproc /\ pc[p] = "user" /\ Goto(p, "zombie")
    /\ UNCHANGED <<free, own, sz, kstack, new, mem, job, locked>>

\* wait() of some process finds the zombie c.  It leaves p->sz, which nobody reads until
\* fork() sets it again: here, a free slot has size 0.
wait(c) ==
    /\ pc[c] = "zombie" /\ Goto(c, "none")
    /\ kfree(Pages(own[c]) + 1)
    /\ own' = [own EXCEPT ![c] = NoSpace]
    /\ kstack' = kstack \ {c}
    /\ sz' = [sz EXCEPT ![c] = 0]
    /\ UNCHANGED <<new, mem, job, locked>>

Next == \E p \in Proc :
    \/ setupkvm(p) \/ alloc_page(p) \/ walkpgdir(p)
    \/ sbrk(p)
    \/ \E c \in Proc : fork(p, c)
    \/ \E prog \in Programs : exec(p, prog)
    \/ exec_header(p) \/ exec_load(p) \/ exec_commit(p)
    \/ exit(p) \/ wait(p)

Spec == Init /\ [][Next]_vars

-----------------------------------------------------------------------------
\* Types of kmem.freelist, of the fields of struct proc, and of the locals of the calls.
TypeOK ==
    /\ free \in 0 .. NPAGE
    /\ own \in [Proc -> Spaces] /\ new \in [Proc -> Spaces]
    /\ sz \in [Proc -> 0 .. KERNBASE - 1]
    /\ kstack \subseteq Proc /\ mem \subseteq Proc /\ locked \subseteq Proc
    /\ pc \in [Proc -> Points]
    /\ \A p \in Proc : /\ job[p].kind \in {"none", "sbrk", "exec", "fork"}
                       /\ job[p].a \in VPage /\ job[p].child \in Proc \cup {NONE}

\* Every page is accounted for: it is free, or a page directory, a page table, a page
\* that is mapped, a kernel stack, or on its way into a page table.  No call of exec(),
\* fork(), sbrk() or wait(), at whatever kalloc() it fails, leaks a page or frees one
\* that is still in use (exec.c:106, vm.c:234, proc.c:236).
PagesAccounted ==
    LET held(p) == Pages(own[p]) + Pages(new[p])
    IN  NPAGE = free + MapThenSumSet(held, Proc) + Cardinality(kstack) + Cardinality(mem)

\* The pages mapped are those below the size, in the image of a process and in the one
\* that exec() is about to commit, where all but the guard page have PTE_U; a child gets
\* the flags of its parent, page by page.  So a call that fails leaves the image it found,
\* and neither copyuvm() nor loaduvm() meets a page that is not there (vm.c:326, vm.c:206).
\* The exception is sbrk(-sz), after which nothing is mapped and no call follows
\* (proc.c:211).
ImagesWhole ==
    \A p \in Proc :
        /\ job[p].kind # "sbrk" => \/ own[p].map = Between(0, sz[p])
                                   \/ own[p].map = {} /\ job[p].kind = "none" /\ p # initproc
        /\ job[p].kind = "fork" => /\ own[p].map = Between(0, sz[p])
                                   /\ new[p].user = own[p].user \cap new[p].map
        /\ pc[p] \in {"load", "args"} => new[p].map = Between(0, job[p].goal)
        /\ pc[p] = "args" => new[p].map \ new[p].user = {Max(new[p].map) - 1}

=============================================================================
