------------------------------- MODULE Files -------------------------------
(***************************************************************************)
(* Open files and pipes: file.c, pipe.c and the calls of sysfile.c that    *)
(* work on file descriptors, with what fork(), exit() and kill() do to     *)
(* them.  A file of type FD_INODE takes descriptors and a file here; what  *)
(* is done to its inode is in the module Inodes.                           *)
(*                                                                         *)
(* A step is a section under ftable.lock or under the lock of a pipe, with *)
(* the local computation around it; a process may be preempted, killed or  *)
(* put to sleep between any two steps.                                     *)
(***************************************************************************)
EXTENDS Integers, Sequences, FiniteSets, FiniteSetsExt, SequencesExt

CONSTANTS
    Proc,          \* process slots
    NFILE,         \* size of ftable (100 in param.h)
    NOFILE,        \* descriptors of a process (16 in param.h)
    Page,          \* the pages that kalloc() has for pipes
    PIPESIZE,      \* bytes in a pipe (512)
    UintMod,       \* nread and nwrite are counted modulo this (2^32)
    Byte,
    Writes,        \* what processes write: a set of sequences of bytes
    ReadSizes,     \* how much they ask for
    INODE,         \* stands for the fields of a file of type FD_INODE
    NONE           \* a null pointer

ASSUME FilesAssumption ==
    /\ NFILE \in Nat \ {0} /\ NOFILE \in Nat \ {0}
    /\ PIPESIZE \in Nat \ {0} /\ UintMod \in Nat
    /\ PIPESIZE < UintMod /\ UintMod % PIPESIZE = 0
    /\ Writes \subseteq Seq(Byte) /\ ReadSizes \subseteq Nat \ {0}
    /\ NONE \notin Page \cup 1 .. NFILE /\ INODE # NONE

File == 1 .. NFILE
Fd == 0 .. NOFILE - 1

\* The part of a struct file that is meaningful when its type is FD_PIPE.
End == [pipe : Page, writable : BOOLEAN]
Ring == 0 .. PIPESIZE - 1
Uint == 0 .. UintMod - 1
Pipe == [data : [Ring -> Byte], nread : Uint, nwrite : Uint,
         readopen : BOOLEAN, writeopen : BOOLEAN]

VARIABLES
    ofile,         \* the descriptors of each process
    ref, end,      \* ftable: reference counts; the other fields (NONE: FD_NONE)
    pipe,          \* the pages that hold pipes; NONE is a page that is free
    pc,            \* where each process is
    hand,          \* files in local variables: to be closed, or not yet in ofile
    ff,            \* fileclose(): the copy of the file
    at, rest,      \* pipewrite(): the pipe and the bytes still to be written
    want,          \* piperead(): the bytes asked for; at is the pipe
    kid,           \* fork(): the child
    killed, exiting,    \* sets of processes
    out            \* the pipe and the bytes that the last step has read

ftable == <<ref, end>>
local == <<hand, ff, at, rest, want, kid>>
vars == <<ofile, ftable, pipe, pc, local, killed, exiting, out>>

Points == {"none", "embryo", "user", "dup", "pipe1", "pipe2", "closing", "pipeclose",
           "write", "asleep_write", "read", "asleep_read", "fork"}

\* The first process has opened the console.
Init ==
    /\ \E first \in Proc :
        /\ ofile = [p \in Proc |-> [d \in Fd |-> IF p = first /\ d = 0 THEN 1 ELSE NONE]]
        /\ pc = [p \in Proc |-> IF p = first THEN "user" ELSE "none"]
    /\ ref = [f \in File |-> IF f = 1 THEN 1 ELSE 0]
    /\ end = [f \in File |-> IF f = 1 THEN INODE ELSE NONE]
    /\ pipe = [k \in Page |-> NONE]
    /\ hand = [p \in Proc |-> <<>>] /\ ff = [p \in Proc |-> NONE]
    /\ at = [p \in Proc |-> NONE] /\ rest = [p \in Proc |-> <<>>]
    /\ want = [p \in Proc |-> 0] /\ kid = [p \in Proc |-> NONE]
    /\ killed = {} /\ exiting = {}
    /\ out = <<>>

Goto(p, point) == pc' = [pc EXCEPT ![p] = point]
Silent == out' = <<>>

\* A system call is entered by a process that is not marked to die (trap.c).
Calls(p) == pc[p] = "user" /\ p \notin killed

-----------------------------------------------------------------------------
(* Descriptors and the file table.                                         *)

\* The descriptor d is open.
argfd(p, d) == ofile[p][d] # NONE

IsPipe(f) == end[f] \notin {NONE, INODE}

FreeFds(p) == {d \in Fd : ofile[p][d] = NONE}
FreeFiles == {f \in File : ref[f] = 0}

\* fdalloc() and filealloc() take the first free entry.
fdalloc(p, f) == [ofile EXCEPT ![p][Min(FreeFds(p))] = f]
filealloc == Min(FreeFiles)

sys_dup(p, d) ==
    /\ Calls(p)
    /\ argfd(p, d)
    /\ FreeFds(p) # {}
    /\ ofile' = fdalloc(p, ofile[p][d])
    /\ hand' = [hand EXCEPT ![p] = <<ofile[p][d]>>]
    /\ Goto(p, "dup")
    /\ UNCHANGED <<ftable, pipe, ff, at, rest, want, kid, killed, exiting>> /\ Silent

filedup(p) ==
    /\ pc[p] = "dup"
    /\ ref' = [ref EXCEPT ![Head(hand[p])] = @ + 1]
    /\ hand' = [hand EXCEPT ![p] = <<>>]
    /\ Goto(p, "user")
    /\ UNCHANGED <<ofile, end, pipe, ff, at, rest, want, kid, killed, exiting>> /\ Silent

sys_close(p, d) ==
    /\ Calls(p)
    /\ argfd(p, d)
    /\ ofile' = [ofile EXCEPT ![p][d] = NONE]
    /\ hand' = [hand EXCEPT ![p] = <<ofile[p][d]>>]
    /\ Goto(p, "closing")
    /\ UNCHANGED <<ftable, pipe, ff, at, rest, want, kid, killed, exiting>> /\ Silent

\* Where a process is that has closed a file and still has the files h to close.
AfterClose(p, h) ==
    IF h # <<>> THEN "closing" ELSE IF p \in exiting THEN "none" ELSE "user"

\* After exit(), wait() frees the slot and resets p->killed.
Reset(p) ==
    /\ killed' = IF pc'[p] = "none" THEN killed \ {p} ELSE killed
    /\ exiting' = IF pc'[p] = "none" THEN exiting \ {p} ELSE exiting

\* Mutant: only the last reference is counted down.
Dropped_LastOnly(f) == IF ref[f] > 1 THEN ref ELSE [ref EXCEPT ![f] = 0]

Dropped(f) == [ref EXCEPT ![f] = @ - 1]

fileclose(p) ==
    LET f == Head(hand[p])
        last == ref[f] = 1
        h == Tail(hand[p])
        towait == last /\ IsPipe(f)
    IN  /\ pc[p] = "closing"
        /\ ref' = Dropped(f)
        /\ end' = IF last THEN [end EXCEPT ![f] = NONE] ELSE end
        /\ ff' = IF towait THEN [ff EXCEPT ![p] = end[f]] ELSE ff
        /\ hand' = [hand EXCEPT ![p] = h]
        /\ Goto(p, IF towait THEN "pipeclose" ELSE AfterClose(p, h))
        /\ Reset(p)
        /\ UNCHANGED <<ofile, pipe, at, rest, want, kid>> /\ Silent

-----------------------------------------------------------------------------
(* pipe.c                                                                  *)

NewPipe ==
    [data |-> [i \in Ring |-> CHOOSE b \in Byte : TRUE],
     nread |-> 0, nwrite |-> 0, readopen |-> TRUE, writeopen |-> TRUE]

\* pipealloc(), called by sys_pipe(): the first file, the second, the page.
pipealloc_f0(p) ==
    /\ Calls(p)
    /\ FreeFiles # {}
    /\ ref' = [ref EXCEPT ![filealloc] = 1]
    /\ hand' = [hand EXCEPT ![p] = <<filealloc>>]
    /\ Goto(p, "pipe1")
    /\ UNCHANGED <<ofile, end, pipe, ff, at, rest, want, kid, killed, exiting>> /\ Silent

pipealloc_f1(p) ==
    /\ pc[p] = "pipe1"
    /\ IF FreeFiles = {}
       THEN Goto(p, "closing") /\ UNCHANGED <<ref, hand>>
       ELSE /\ ref' = [ref EXCEPT ![filealloc] = 1]
            /\ hand' = [hand EXCEPT ![p] = Append(@, filealloc)]
            /\ Goto(p, "pipe2")
    /\ UNCHANGED <<ofile, end, pipe, ff, at, rest, want, kid, killed, exiting>> /\ Silent

\* Both fdalloc() of sys_pipe(): NOFILE may have room for none, one or two.
TwoFds(p) == Cardinality(FreeFds(p)) >= 2
WithPipe(p, rf, wf) ==
    LET fd0 == Min(FreeFds(p))
        fd1 == Min(FreeFds(p) \ {fd0})
    IN  [ofile EXCEPT ![p] = [@ EXCEPT ![fd0] = rf, ![fd1] = wf]]

\* kalloc(), the rest of pipealloc(), and the rest of sys_pipe().
pipealloc_page(p) ==
    LET rf == hand[p][1]
        wf == hand[p][2]
    IN  /\ pc[p] = "pipe2"
        /\ \/ /\ \A k \in Page : pipe[k] # NONE
              /\ Goto(p, "closing")
              /\ UNCHANGED <<ofile, end, pipe, hand>>
           \/ \E k \in Page :
              /\ pipe[k] = NONE
              /\ pipe' = [pipe EXCEPT ![k] = NewPipe]
              /\ end' = [end EXCEPT ![rf] = [pipe |-> k, writable |-> FALSE],
                                    ![wf] = [pipe |-> k, writable |-> TRUE]]
              /\ IF TwoFds(p)
                 THEN /\ ofile' = WithPipe(p, rf, wf)
                      /\ hand' = [hand EXCEPT ![p] = <<>>]
                      /\ Goto(p, "user")
                 ELSE Goto(p, "closing") /\ UNCHANGED <<ofile, hand>>
        /\ UNCHANGED <<ref, ff, at, rest, want, kid, killed, exiting>> /\ Silent

\* The points of all processes after a wakeup on &k->nread or &k->nwrite.
\* The sleepers wake up inside their loops and look at the pipe again.
WakeReaders(f, k) ==
    [p \in Proc |-> IF f[p] = "asleep_read" /\ at[p] = k THEN "read" ELSE f[p]]
WakeWriters(f, k) ==
    [p \in Proc |-> IF f[p] = "asleep_write" /\ at[p] = k THEN "write" ELSE f[p]]


CloseWakes(f, e) == IF e.writable THEN WakeReaders(f, e.pipe) ELSE WakeWriters(f, e.pipe)

\* Mutant: the ends are mixed up.
ClosedPipe_Swapped(q, writable) ==
    IF writable THEN [q EXCEPT !.readopen = FALSE] ELSE [q EXCEPT !.writeopen = FALSE]

ClosedPipe(q, writable) ==
    IF writable THEN [q EXCEPT !.writeopen = FALSE] ELSE [q EXCEPT !.readopen = FALSE]

pipeclose(p) ==
    LET e == ff[p]
        q == ClosedPipe(pipe[e.pipe], e.writable)
    IN  /\ pc[p] = "pipeclose"
        /\ pipe' = [pipe EXCEPT ![e.pipe] = IF q.readopen \/ q.writeopen THEN q ELSE NONE]
        /\ pc' = CloseWakes([pc EXCEPT ![p] = AfterClose(p, hand[p])], e)
        /\ ff' = [ff EXCEPT ![p] = NONE]
        /\ Reset(p)
        /\ UNCHANGED <<ofile, ftable, hand, at, rest, want, kid>> /\ Silent

\* The bytes in the ring: nwrite - nread in unsigned arithmetic.
Used(q) == (q.nwrite - q.nread) % UintMod

\* p->data[p->nwrite++ % PIPESIZE] = addr[i], for the bytes s, at most PIPESIZE
Stored(q, s) ==
    [i \in Ring |-> LET js == {j \in DOMAIN s : (q.nwrite + j - 1) % PIPESIZE = i}
                    IN  IF js = {} THEN q.data[i] ELSE s[Max(js)]]

\* Mutant: nwrite is not counted in 32 bits.
Written_NoWrap(q, s) == [q EXCEPT !.data = Stored(q, s), !.nwrite = @ + Len(s)]

Written(q, s) == [q EXCEPT !.data = Stored(q, s), !.nwrite = (@ + Len(s)) % UintMod]

sys_write(p, d, s) ==
    /\ Calls(p)
    /\ argfd(p, d)
    /\ IsPipe(ofile[p][d]) /\ end[ofile[p][d]].writable
    /\ at' = [at EXCEPT ![p] = end[ofile[p][d]].pipe]
    /\ rest' = [rest EXCEPT ![p] = s]
    /\ Goto(p, "write")
    /\ UNCHANGED <<ofile, ftable, pipe, hand, ff, want, kid, killed, exiting>> /\ Silent

\* The section of pipewrite() up to its return or to sleep().
pipewrite(p) ==
    LET k == at[p]
        q == pipe[k]
        m == Min({Len(rest[p]), PIPESIZE - Used(q)})
        left == SubSeq(rest[p], m + 1, Len(rest[p]))
        giveup == left # <<>> /\ (~q.readopen \/ p \in killed)
    IN  /\ pc[p] = "write"
        /\ pipe' = [pipe EXCEPT ![k] = Written(q, SubSeq(rest[p], 1, m))]
        /\ IF left # <<>> /\ ~giveup
           THEN /\ pc' = WakeReaders([pc EXCEPT ![p] = "asleep_write"], k)
                /\ rest' = [rest EXCEPT ![p] = left]
                /\ UNCHANGED at
           ELSE /\ pc' = IF giveup THEN [pc EXCEPT ![p] = "user"]
                                   ELSE WakeReaders([pc EXCEPT ![p] = "user"], k)
                /\ rest' = [rest EXCEPT ![p] = <<>>]
                /\ at' = [at EXCEPT ![p] = NONE]
        /\ UNCHANGED <<ofile, ftable, hand, ff, want, kid, killed, exiting>> /\ Silent

\* Mutant: the ring is read without wrapping around.
Bytes_NoModulo(q, m) == [j \in 1 .. m |-> q.data[Min({q.nread + j - 1, PIPESIZE - 1})]]

\* The next m bytes: addr[i] = p->data[p->nread++ % PIPESIZE]
Bytes(q, m) == [j \in 1 .. m |-> q.data[(q.nread + j - 1) % PIPESIZE]]

sys_read(p, d, n) ==
    /\ Calls(p)
    /\ argfd(p, d)
    /\ IsPipe(ofile[p][d]) /\ ~end[ofile[p][d]].writable
    /\ at' = [at EXCEPT ![p] = end[ofile[p][d]].pipe]
    /\ want' = [want EXCEPT ![p] = n]
    /\ Goto(p, "read")
    /\ UNCHANGED <<ofile, ftable, pipe, hand, ff, rest, kid, killed, exiting>> /\ Silent

\* The section of piperead() up to its return or to sleep().
piperead(p) ==
    LET k == at[p]
        q == pipe[k]
        m == Min({want[p], Used(q)})
        wait == Used(q) = 0 /\ q.writeopen
    IN  /\ pc[p] = "read"
        /\ \/ /\ wait /\ p \notin killed
              /\ Goto(p, "asleep_read")
              /\ UNCHANGED <<pipe, at, want>> /\ Silent
           \/ /\ wait /\ p \in killed
              /\ Goto(p, "user")
              /\ at' = [at EXCEPT ![p] = NONE] /\ want' = [want EXCEPT ![p] = 0]
              /\ UNCHANGED pipe /\ Silent
           \/ /\ ~wait
              /\ pipe' = [pipe EXCEPT ![k].nread = (@ + m) % UintMod]
              /\ out' = <<k, Bytes(q, m)>>
              /\ pc' = WakeWriters([pc EXCEPT ![p] = "user"], k)
              /\ at' = [at EXCEPT ![p] = NONE] /\ want' = [want EXCEPT ![p] = 0]
        /\ UNCHANGED <<ofile, ftable, hand, ff, rest, kid, killed, exiting>>

-----------------------------------------------------------------------------
(* fork(), exit() and kill(), as far as files are concerned.               *)

\* allocproc() has found an UNUSED slot.
fork(p, c) ==
    /\ Calls(p)
    /\ pc[c] = "none"
    /\ pc' = [pc EXCEPT ![p] = "fork", ![c] = "embryo"]
    /\ kid' = [kid EXCEPT ![p] = c]
    /\ UNCHANGED <<ofile, ftable, pipe, hand, ff, at, rest, want, killed, exiting>> /\ Silent

\* One filedup() of the loop over curproc->ofile; after the last, RUNNABLE.
fork_filedup(p) ==
    LET c == kid[p]
        todo == {d \in Fd : ofile[p][d] # NONE /\ ofile[c][d] = NONE}
        d == Min(todo)
        done == pc' = [pc EXCEPT ![p] = "user", ![c] = "user"]
                /\ kid' = [kid EXCEPT ![p] = NONE]
    IN  /\ pc[p] = "fork"
        /\ IF todo = {}
           THEN done /\ UNCHANGED <<ofile, ref>>
           ELSE /\ ofile' = [ofile EXCEPT ![c][d] = ofile[p][d]]
                /\ ref' = [ref EXCEPT ![ofile[p][d]] = @ + 1]
                /\ UNCHANGED <<pc, kid>>
        /\ UNCHANGED <<end, pipe, hand, ff, at, rest, want, killed, exiting>> /\ Silent

\* The open files of p in the order of their descriptors.
OpenFiles(p) == SelectSeq([i \in 1 .. NOFILE |-> ofile[p][i - 1]], LAMBDA f : f # NONE)

\* exit() closes every file; a killed process calls it when trap() returns.  Nobody
\* else reads ofile, so its entries are cleared at once.
exit(p) ==
    /\ pc[p] = "user"
    /\ hand' = [hand EXCEPT ![p] = OpenFiles(p)]
    /\ ofile' = [ofile EXCEPT ![p] = [d \in Fd |-> NONE]]
    /\ IF OpenFiles(p) = <<>>
       THEN Goto(p, "none") /\ Reset(p)
       ELSE Goto(p, "closing") /\ exiting' = exiting \cup {p} /\ UNCHANGED killed
    /\ UNCHANGED <<ftable, pipe, ff, at, rest, want, kid>> /\ Silent

\* kill() of any process, by anybody: a sleeper is made RUNNABLE.
kill(p) ==
    /\ pc[p] # "none" /\ p \notin killed
    /\ killed' = killed \cup {p}
    /\ pc' = [pc EXCEPT ![p] = CASE @ = "asleep_read" -> "read"
                                 [] @ = "asleep_write" -> "write"
                                 [] OTHER -> @]
    /\ UNCHANGED <<ofile, ftable, pipe, local, exiting>> /\ Silent

Kernel(p) ==
    \/ filedup(p) \/ fileclose(p) \/ pipeclose(p)
    \/ pipealloc_f1(p) \/ pipealloc_page(p)
    \/ pipewrite(p) \/ piperead(p) \/ fork_filedup(p)

User(p) ==
    \/ pipealloc_f0(p) \/ exit(p)
    \/ \E d \in Fd :
        \/ sys_dup(p, d) \/ sys_close(p, d)
        \/ \E s \in Writes : sys_write(p, d, s)
        \/ \E n \in ReadSizes : sys_read(p, d, n)
    \/ \E c \in Proc : fork(p, c)

Next == \E p \in Proc : Kernel(p) \/ User(p) \/ kill(p)

Spec == Init /\ [][Next]_vars

-----------------------------------------------------------------------------
(* Properties.                                                             *)

\* Types of struct proc, ftable and the pipes, whose counters stay in their width.
TypeOK ==
    /\ ofile \in [Proc -> [Fd -> File \cup {NONE}]]
    /\ ref \in [File -> Nat] /\ end \in [File -> End \cup {INODE, NONE}]
    /\ pipe \in [Page -> Pipe \cup {NONE}]
    /\ pc \in [Proc -> Points]
    /\ hand \in [Proc -> Seq(File)] /\ ff \in [Proc -> End \cup {NONE}]
    /\ at \in [Proc -> Page \cup {NONE}]
    /\ rest \in [Proc -> Seq(Byte)] /\ want \in [Proc -> Nat]
    /\ kid \in [Proc -> Proc \cup {NONE}]
    /\ killed \subseteq Proc /\ exiting \subseteq Proc

\* How often f is in the local variables of process p.
InHand(p, f) == Cardinality({i \in DOMAIN hand[p] : hand[p][i] = f})

\* The count of a file is the number of descriptors that name it in all processes,
\* corrected by the calls under way (file.c): a file is neither closed under a
\* process that can use it nor kept when nobody can.
RefsCounted ==
    \A f \in File :
        ref[f] = Cardinality({pd \in Proc \X Fd : ofile[pd[1]][pd[2]] = f})
               + MapThenSumSet(LAMBDA p : IF pc[p] = "dup" THEN -InHand(p, f)
                                                      ELSE InHand(p, f), Proc)

IsOpen(q, writable) == IF writable THEN q.writeopen ELSE q.readopen

\* An end of a pipe is open exactly as long as one open file, or the copy that a
\* fileclose() under way has made of it, stands for it; and a process inside
\* piperead() or pipewrite(), asleep or not, has its end open, so the page is not
\* freed under it (pipe.c, pipeclose).
PipeEnds ==
    /\ \A k \in Page, w \in BOOLEAN :
        LET e == [pipe |-> k, writable |-> w]
        IN  Cardinality({f \in File : end[f] = e}) + Cardinality({p \in Proc : ff[p] = e})
            = IF pipe[k] # NONE /\ IsOpen(pipe[k], w) THEN 1 ELSE 0
    /\ \A p \in Proc : at[p] # NONE =>
        pipe[at[p]] # NONE /\ IsOpen(pipe[at[p]], pc[p] \in {"write", "asleep_write"})


\* The pipes are streams: pages that hold no pipe are streams with no open end.
Content(k) == IF pipe[k] = NONE THEN <<>> ELSE Bytes(pipe[k], Used(pipe[k]))
Ends(k) == IF pipe[k] = NONE THEN {}
           ELSE {e \in {"r", "w"} : IsOpen(pipe[k], e = "w")}

Pipes == INSTANCE Stream WITH queue <- [k \in Page |-> Content(k)],
                              ends <- [k \in Page |-> Ends(k)]

\* Through every interleaving of reads, writes, closes and kills, bytes come out of a
\* pipe once and in order, and a reader is told the end of the stream only when the
\* pipe is empty and cannot be written any more (pipe.c).
PipesAreStreams == Pipes!AStream
=============================================================================
