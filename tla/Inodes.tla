------------------------------- MODULE Inodes -------------------------------
(***************************************************************************)
(* Inodes, directories and path names: fs.c, and the system calls of       *)
(* sysfile.c that take a path, with the inode side of file.c, fork() and   *)
(* exit().                                                                 *)
(*                                                                         *)
(* A step is what a process does while it holds the sleep lock of an inode *)
(* (or two), up to the point where it has to wait for another lock or has  *)
(* given up the one it had.  iput() is two steps, since it drops the       *)
(* reference after it has released the lock.  The transaction around a     *)
(* call is the subject of the module Log.                                  *)
(***************************************************************************)
EXTENDS Integers, Sequences, FiniteSets, SequencesExt

CONSTANTS
    Proc,
    NINODES,       \* inodes of the file system, 1 is the root
    NBLOCK,        \* data blocks
    MAXFILE,       \* blocks of a file
    Name,          \* names of directory entries other than the dots
    Calls,         \* calls with a path: [call, path, new], see Enter
    NONE

ROOTINO == 1
Inum == 1 .. NINODES
NoInode == 0
Dots == {".", ".."}
Creating == {"create", "mkdir", "mknod"}

ASSUME InodesAssumption ==
    /\ NINODES \in Nat \ {0} /\ NBLOCK \in Nat \ {0} /\ MAXFILE \in Nat
    /\ NONE \notin Proc /\ Name \cap Dots = {}
    /\ \A c \in Calls :     \* nameiparent("/") fails at once
        /\ c.call \in Creating \cup {"unlink"} => c.path.names # <<>>
        /\ c.call = "link" => c.new.names # <<>>

\* struct dinode; size in blocks.
Dinode == [type : {"free", "dir", "file", "dev"}, nlink : Nat, size : Nat]
NoDinode == [type |-> "free", nlink |-> 0, size |-> 0]
NoEntries == [n \in Name \cup Dots |-> NoInode]

VARIABLES
    ino,           \* per inode: disk, the dinode; dir, the entries of a directory; and
                   \* the entry of icache: ref, valid, mem (copy of the dinode), lock
    nfree,         \* zero bits of the free bit map
    cwd,           \* proc.cwd
    fd,            \* the inode that a process has open, one file each
    fr,            \* the call that a process executes, see NoFrame
    stray          \* ghost: inodes that had an entry in a directory that was freed

vars == <<ino, nfree, cwd, fd, fr, stray>>

NoCall == [call |-> "none"]

\* pc; the call; names still to look up; the inodes ip, dp (a directory that stays
\* locked) and old (link(): the one whose nlink was raised); the inodes for iput(), and
\* the point after that.  Each inode of a frame is one reference.
NoFrame == [pc |-> "user", call |-> NoCall, rest |-> <<>>, ip |-> NoInode, dp |-> NoInode,
            old |-> NoInode, put |-> <<>>, then |-> "user"]
Points == {"user", "gone", "walk", "got", "iput", "put", "undp", "bad", "unlink2",
           "unlink3", "exists", "create2", "opened"}

\* A file system as mkfs makes it: a root directory, which is its own parent.
Init ==
    LET none == [disk |-> NoDinode, dir |-> NoEntries, ref |-> 0, valid |-> FALSE,
                 mem |-> NoDinode, lock |-> NONE]
    IN  /\ ino = [i \in Inum |-> IF i # ROOTINO THEN none ELSE
                    [none EXCEPT !.disk = [type |-> "dir", nlink |-> 1, size |-> 1],
                                 !.dir = [n \in Name \cup Dots |->
                                             IF n \in Dots THEN ROOTINO ELSE NoInode],
                                 !.ref = Cardinality(Proc)]]
        /\ nfree = NBLOCK - 1
        /\ cwd = [p \in Proc |-> ROOTINO] /\ fd = [p \in Proc |-> NoInode]
        /\ fr = [p \in Proc |-> NoFrame] /\ stray = {}

-----------------------------------------------------------------------------
(* One inode.  These operators take the record of an inode to a new one.   *)

\* iget() and idup().
Ref(n) == [n EXCEPT !.ref = @ + 1]

\* What ilock() has when it returns.
Loaded(n) == IF n.valid THEN n ELSE [n EXCEPT !.valid = TRUE, !.mem = n.disk]

\* iupdate() after a change of the inode, which is write-through.
Update(n, d) == [n EXCEPT !.mem = d, !.disk = d]
Links(n, k) == Update(n, [n.mem EXCEPT !.nlink = @ + k])

Lock(n, p) == [n EXCEPT !.lock = p]
Unlock(n) == [n EXCEPT !.lock = NONE]

\* The inode that a name leads to in a directory.
dirlookup(n, name) == n.dir[name]

\* dirlink() and its opposite in sys_unlink(): writei() of one entry.
Enter(n, name, i) == [n EXCEPT !.dir[name] = i]

\* ialloc() on the disk.
Alloc(n, type) == [n EXCEPT !.disk = [NoDinode EXCEPT !.type = type]]

\* Mutant: the copy in memory stays valid.
Freed_Valid(n) == [n EXCEPT !.disk = NoDinode, !.mem = NoDinode, !.dir = NoEntries]

\* itrunc() and the end of an inode in iput().
Freed(n) == [n EXCEPT !.disk = NoDinode, !.mem = NoDinode, !.dir = NoEntries,
                      !.valid = FALSE]

\* ip->ref--; iget() clears valid when it takes the entry for another inode.
Unref(n) == IF n.ref = 1 THEN [n EXCEPT !.ref = 0, !.valid = FALSE, !.mem = NoDinode]
            ELSE [n EXCEPT !.ref = @ - 1]

\* ilock() and iput() wait for the sleep lock, whoever has it.  ilock() panics on an inode
\* without a type.
Available(i) == ino[i].lock = NONE
Lockable(i) == Available(i) /\ Loaded(ino[i]).mem.type # "free"

Set(p, f) == fr' = [fr EXCEPT ![p] = f]

\* f goes on with iput() for each inode of s, and then at the point given.
Put(f, s, point) == [f EXCEPT !.pc = "iput", !.put = s, !.then = point]

\* Mutant: other references are not looked at.
Unused_Refs(n) == n.valid /\ n.mem.nlink = 0

\* The inode has no links, and nobody else has a reference.
Unused(n) == n.valid /\ n.mem.nlink = 0 /\ n.ref = 1


\* The blocks of a file, which itrunc() gives back.
Blocks(n) == n.mem.size

bfree(k) == nfree' = nfree + k

\* iput(): under the lock, free an inode that has no links and no other reference.
iput(p) ==
    LET f == fr[p]
        i == Head(f.put)
        n == ino[i]
    IN  /\ f.pc = "iput" /\ Available(i)
        /\ Set(p, [f EXCEPT !.pc = "put"])
        /\ IF Unused(n)
           THEN /\ ino' = [ino EXCEPT ![i] = Freed(n)]
                /\ bfree(Blocks(n))
                /\ stray' = (stray \cup {n.dir[name] : name \in Name}) \ {NoInode, i}
           ELSE UNCHANGED <<ino, nfree, stray>>
        /\ UNCHANGED <<cwd, fd>>

\* The rest of iput(): ip->ref--.
iput_ref(p) ==
    LET f == fr[p]
        s == Tail(f.put)
    IN  /\ f.pc = "put"
        /\ ino' = [ino EXCEPT ![Head(f.put)] = Unref(@)]
        /\ Set(p, IF s # <<>> THEN Put(f, s, f.then)
                  ELSE IF f.then \in {"user", "gone"} THEN [NoFrame EXCEPT !.pc = f.then]
                  ELSE [f EXCEPT !.pc = f.then, !.put = <<>>])
        /\ UNCHANGED <<nfree, cwd, fd, stray>>

-----------------------------------------------------------------------------
(* Path names.                                                             *)

Start(p, path) == IF path.abs THEN ROOTINO ELSE cwd[p]

\* The call looks for the parent (nameiparent()); for link() in its second walk.
Parent(f) == f.call.call \in Creating \cup {"unlink"} \/ f.old # NoInode

\* Where a call goes when namex() returns 0.
Lost(f) == IF f.old # NoInode THEN "bad" ELSE "user"

\* A call begins with namei() or nameiparent().
enter(p) ==
    \E c \in Calls :
        /\ fr[p].pc = "user"
        /\ Set(p, [NoFrame EXCEPT !.pc = "walk", !.call = c, !.rest = c.path.names,
                                  !.ip = Start(p, c.path)])
        /\ ino' = [ino EXCEPT ![Start(p, c.path)] = Ref(@)]
        /\ UNCHANGED <<nfree, cwd, fd, stray>>

\* One round of the loop of namex(): the lock on ip is held for the lookup only.
namex(p) ==
    LET f == fr[p]
        i == f.ip
        n == Loaded(ino[i])
        next == dirlookup(n, Head(f.rest))
    IN  /\ f.pc = "walk" /\ f.rest # <<>> /\ Lockable(i)
        /\ IF n.mem.type = "dir" /\ Parent(f) /\ Len(f.rest) = 1
           THEN Set(p, [f EXCEPT !.pc = "got"]) /\ ino' = [ino EXCEPT ![i] = n]
           ELSE IF n.mem.type # "dir" \/ next = NoInode
           THEN /\ Set(p, Put([f EXCEPT !.ip = NoInode], <<i>>, Lost(f)))
                /\ ino' = [ino EXCEPT ![i] = n]
           ELSE /\ Set(p, Put([f EXCEPT !.ip = next, !.rest = Tail(@)], <<i>>, "walk"))
                /\ ino' = [ino EXCEPT ![i] = n, ![next] = Ref(@)]
        /\ UNCHANGED <<nfree, cwd, fd, stray>>

\* namex() has returned ip, and ip can be locked.
Got(p, call) ==
    LET f == fr[p]
    IN  /\ f.call.call \in call
        /\ f.pc = "got" \/ (f.pc = "walk" /\ f.rest = <<>>)
        /\ Lockable(f.ip)

-----------------------------------------------------------------------------
(* link()                                                                  *)

\* ip->nlink++ for the old path, then nameiparent() for the new one.
link_inode(p) ==
    LET f == fr[p]
        i == f.ip
        n == Loaded(ino[i])
        s == Start(p, f.call.new)
    IN  /\ Got(p, {"link"}) /\ f.old = NoInode
        /\ IF n.mem.type = "dir"
           THEN /\ Set(p, Put([f EXCEPT !.ip = NoInode], <<i>>, "user"))
                /\ ino' = [ino EXCEPT ![i] = n]
           ELSE /\ Set(p, [f EXCEPT !.pc = "walk", !.rest = f.call.new.names,
                                    !.ip = s, !.old = i])
                /\ ino' = [ino EXCEPT ![i] = Links(n, 1), ![s] = Ref(@)]
        /\ UNCHANGED <<nfree, cwd, fd, stray>>

\* dirlink() in the parent.  When the name is there, iput() runs with the parent locked.
link_dir(p) ==
    LET f == fr[p]
        d == f.ip
        n == Loaded(ino[d])
        name == Head(f.rest)
        e == dirlookup(n, name)
    IN  /\ Got(p, {"link"}) /\ f.old # NoInode
        /\ IF e = NoInode
           THEN /\ Set(p, Put([f EXCEPT !.ip = NoInode, !.old = NoInode], <<d, f.old>>, "user"))
                /\ ino' = [ino EXCEPT ![d] = Enter(n, name, f.old)]
           ELSE /\ Set(p, Put([f EXCEPT !.ip = NoInode, !.dp = d], <<e>>, "undp"))
                /\ ino' = [ino EXCEPT ![d] = Lock(n, p), ![e] = Ref(@)]
        /\ UNCHANGED <<nfree, cwd, fd, stray>>

\* iunlockput(dp) on the failing paths of link() and unlink().
unlock_dp(p) ==
    LET f == fr[p]
    IN  /\ f.pc = "undp"
        /\ Set(p, Put([f EXCEPT !.dp = NoInode], <<f.dp>>, Lost(f)))
        /\ ino' = [ino EXCEPT ![f.dp] = Unlock(@)]
        /\ UNCHANGED <<nfree, cwd, fd, stray>>

\* Mutant: ip->nlink stays raised.
LessLink_Not(n) == n

\* ip->nlink-- at the label bad.
LessLink(n) == Links(n, -1)

link_bad(p) ==
    LET f == fr[p]
        i == f.old
    IN  /\ f.pc = "bad" /\ Lockable(i)
        /\ Set(p, Put([f EXCEPT !.old = NoInode], <<i>>, "user"))
        /\ ino' = [ino EXCEPT ![i] = LessLink(Loaded(@))]
        /\ UNCHANGED <<nfree, cwd, fd, stray>>

-----------------------------------------------------------------------------
(* unlink()                                                                *)

\* With the parent locked, find the inode.
unlink_dir(p) ==
    LET f == fr[p]
        d == f.ip
        n == Loaded(ino[d])
        name == Head(f.rest)
        e == dirlookup(n, name)
    IN  /\ Got(p, {"unlink"})
        /\ IF name \in Dots \/ e = NoInode
           THEN /\ Set(p, Put([f EXCEPT !.ip = NoInode], <<d>>, "user"))
                /\ ino' = [ino EXCEPT ![d] = n]
           ELSE /\ Set(p, [f EXCEPT !.pc = "unlink2", !.ip = e, !.dp = d])
                /\ ino' = [ino EXCEPT ![d] = Lock(n, p), ![e] = Ref(@)]
        /\ UNCHANGED <<nfree, cwd, fd, stray>>

\* isdirempty().
Empty(n) == \A name \in Name : n.dir[name] = NoInode

\* With both locked, erase the entry; then the parent is given up, the inode is not.
unlink_entry(p) ==
    LET f == fr[p]
        i == f.ip
        d == f.dp
        n == Loaded(ino[i])
        isdir == n.mem.type = "dir"
        erased == Unlock(Enter(ino[d], Head(f.rest), NoInode))
    IN  /\ f.pc = "unlink2" /\ Lockable(i) /\ n.mem.nlink >= 1
        /\ IF isdir /\ ~Empty(n)
           THEN /\ Set(p, Put([f EXCEPT !.ip = NoInode], <<i>>, "undp"))
                /\ ino' = [ino EXCEPT ![i] = n]
           ELSE /\ Set(p, Put([f EXCEPT !.dp = NoInode], <<d>>, "unlink3"))
                /\ ino' = [ino EXCEPT ![i] = Lock(n, p),
                                      ![d] = IF isdir THEN Links(erased, -1) ELSE erased]
        /\ UNCHANGED <<nfree, cwd, fd, stray>>

\* ip->nlink--, iunlockput(ip).
unlink_inode(p) ==
    LET f == fr[p]
        i == f.ip
    IN  /\ f.pc = "unlink3"
        /\ Set(p, Put([f EXCEPT !.ip = NoInode], <<i>>, "user"))
        /\ ino' = [ino EXCEPT ![i] = Unlock(Links(@, -1))]
        /\ UNCHANGED <<nfree, cwd, fd, stray>>

-----------------------------------------------------------------------------
(* create(), open(), mkdir(), mknod() and chdir()                          *)

TypeOf(call) == CASE call = "create" -> "file" [] call = "mkdir" -> "dir" [] call = "mknod" -> "dev"

\* With the parent locked, look for the name; when it is new, ialloc() a free inode.  (The
\* file system has one: without, ialloc() panics.)
create_dir(p) ==
    LET f == fr[p]
        d == f.ip
        n == Loaded(ino[d])
        e == dirlookup(n, Head(f.rest))
    IN  /\ Got(p, Creating)
        /\ \/ /\ e # NoInode
              /\ Set(p, Put([f EXCEPT !.ip = e], <<d>>, "exists"))
              /\ ino' = [ino EXCEPT ![d] = n, ![e] = Ref(@)]
           \/ /\ e = NoInode
              /\ \E i \in Inum :
                    /\ ino[i].disk.type = "free"
                    /\ Set(p, [f EXCEPT !.pc = "create2", !.ip = i, !.dp = d])
                    /\ ino' = [ino EXCEPT ![d] = Lock(n, p),
                                          ![i] = Ref(Alloc(@, TypeOf(f.call.call)))]
        /\ UNCHANGED <<nfree, cwd, fd, stray>>

\* The name exists: create() returns a file to open(), and nothing else.
create_exists(p) ==
    LET f == fr[p]
        i == f.ip
        n == Loaded(ino[i])
    IN  /\ f.pc = "exists" /\ Lockable(i)
        /\ IF f.call.call = "create" /\ n.mem.type = "file"
           THEN Set(p, [f EXCEPT !.pc = "opened"]) /\ ino' = [ino EXCEPT ![i] = Lock(n, p)]
           ELSE /\ Set(p, Put([f EXCEPT !.ip = NoInode], <<i>>, "user"))
                /\ ino' = [ino EXCEPT ![i] = n]
        /\ UNCHANGED <<nfree, cwd, fd, stray>>

\* Mutant: balloc() takes a block that is in use.
balloc_Used == nfree' = nfree - 1

\* A block with a zero bit; balloc() panics without.
balloc == nfree > 0 /\ nfree' = nfree - 1

\* With both locked, set up the inode, the dots of a directory (which take a block, or
\* balloc() panics) and the entry; then the parent is given up, the inode is not.
create_inode(p) ==
    LET f == fr[p]
        i == f.ip
        d == f.dp
        isdir == f.call.call = "mkdir"
        n == Loaded(ino[i])
        made == Lock(Update(n, [n.mem EXCEPT !.nlink = 1, !.size = IF isdir THEN 1 ELSE 0]), p)
        entered == Unlock(Enter(ino[d], Head(f.rest), i))
    IN  /\ f.pc = "create2" /\ Lockable(i)
        /\ Set(p, Put([f EXCEPT !.dp = NoInode], <<d>>, "opened"))
        /\ ino' = [ino EXCEPT ![i] = IF isdir THEN Enter(Enter(made, ".", i), "..", d) ELSE made,
                              ![d] = IF isdir THEN Links(entered, 1) ELSE entered]
        /\ IF isdir THEN balloc ELSE UNCHANGED nfree
        /\ UNCHANGED <<cwd, fd, stray>>

\* The inode gets a file descriptor if the call is for one and one is free.
created(p) ==
    LET f == fr[p]
        i == f.ip
    IN  /\ f.pc = "opened"
        /\ \/ /\ f.call.call = "create" /\ fd[p] = NoInode
              /\ fd' = [fd EXCEPT ![p] = i] /\ Set(p, NoFrame)
           \/ /\ f.call.call # "create" \/ fd[p] # NoInode
              /\ Set(p, Put([f EXCEPT !.ip = NoInode], <<i>>, "user")) /\ UNCHANGED fd
        /\ ino' = [ino EXCEPT ![i] = Unlock(@)]
        /\ UNCHANGED <<nfree, cwd, stray>>

\* open() without O_CREATE; a directory for reading only.
open(p) ==
    LET f == fr[p]
        i == f.ip
        n == Loaded(ino[i])
    IN  /\ Got(p, {"open"})
        /\ IF fd[p] = NoInode /\ (n.mem.type = "dir" => f.call.rdonly)
           THEN fd' = [fd EXCEPT ![p] = i] /\ Set(p, NoFrame)
           ELSE Set(p, Put([f EXCEPT !.ip = NoInode], <<i>>, "user")) /\ UNCHANGED fd
        /\ ino' = [ino EXCEPT ![i] = n]
        /\ UNCHANGED <<nfree, cwd, stray>>

\* The reference of the old directory is the one that is put.
chdir(p) ==
    LET f == fr[p]
        i == f.ip
        n == Loaded(ino[i])
        isdir == n.mem.type = "dir"
    IN  /\ Got(p, {"chdir"})
        /\ Set(p, Put([f EXCEPT !.ip = NoInode], <<IF isdir THEN cwd[p] ELSE i>>, "user"))
        /\ cwd' = IF isdir THEN [cwd EXCEPT ![p] = i] ELSE cwd
        /\ ino' = [ino EXCEPT ![i] = n]
        /\ UNCHANGED <<nfree, fd, stray>>

-----------------------------------------------------------------------------
(* Open files, and processes.                                              *)

\* fileread(), filestat(), and a filewrite() that needs no new block.
fileread(p) ==
    LET i == fd[p]
    IN  /\ fr[p].pc = "user" /\ i # NoInode /\ Lockable(i)
        /\ ino' = [ino EXCEPT ![i] = Loaded(@)]
        /\ UNCHANGED <<nfree, cwd, fd, fr, stray>>

\* The dinode after bmap() has put a new block at the end.
bmap(d) == [d EXCEPT !.size = @ + 1]

\* writei() of a new block.
writei(n) == Update(n, bmap(n.mem))

filewrite(p) ==
    LET i == fd[p]
        n == Loaded(ino[i])
    IN  /\ fr[p].pc = "user" /\ i # NoInode /\ Lockable(i)
        /\ n.mem.type = "file" /\ n.mem.size < MAXFILE /\ balloc
        /\ ino' = [ino EXCEPT ![i] = writei(n)]
        /\ UNCHANGED <<cwd, fd, fr, stray>>

\* fileclose() of the last reference to a file.
fileclose(p) ==
    /\ fr[p].pc = "user" /\ fd[p] # NoInode
    /\ Set(p, Put(NoFrame, <<fd[p]>>, "user"))
    /\ fd' = [fd EXCEPT ![p] = NoInode]
    /\ UNCHANGED <<ino, nfree, cwd, stray>>

\* exit() when the files are closed: iput(curproc->cwd).
exit(p) ==
    /\ fr[p].pc = "user" /\ fd[p] = NoInode
    /\ Set(p, Put(NoFrame, <<cwd[p]>>, "gone"))
    /\ cwd' = [cwd EXCEPT ![p] = NoInode]
    /\ UNCHANGED <<ino, nfree, fd, stray>>

\* np->cwd = idup(curproc->cwd).
fork(p, c) ==
    /\ fr[p].pc = "user" /\ fr[c].pc = "gone"
    /\ Set(c, NoFrame)
    /\ cwd' = [cwd EXCEPT ![c] = cwd[p]]
    /\ ino' = [ino EXCEPT ![cwd[p]] = Ref(@)]
    /\ UNCHANGED <<nfree, fd, stray>>

Next == \E p \in Proc :
    \/ enter(p) \/ namex(p) \/ iput(p) \/ iput_ref(p)
    \/ link_inode(p) \/ link_dir(p) \/ unlock_dp(p) \/ link_bad(p)
    \/ unlink_dir(p) \/ unlink_entry(p) \/ unlink_inode(p)
    \/ create_dir(p) \/ create_exists(p) \/ create_inode(p) \/ created(p)
    \/ open(p) \/ chdir(p)
    \/ fileread(p) \/ filewrite(p) \/ fileclose(p)
    \/ exit(p) \/ \E c \in Proc : fork(p, c)

Spec == Init /\ [][Next]_vars

-----------------------------------------------------------------------------
\* Types of the inodes, of struct proc, and of the frames.
TypeOK ==
    /\ \A i \in Inum : /\ ino[i].disk \in Dinode /\ ino[i].mem \in Dinode
                       /\ ino[i].dir \in [Name \cup Dots -> Inum \cup {NoInode}]
                       /\ ino[i].ref \in Nat /\ ino[i].valid \in BOOLEAN
                       /\ ino[i].lock \in Proc \cup {NONE}
    /\ nfree \in 0 .. NBLOCK /\ stray \subseteq Inum
    /\ cwd \in [Proc -> Inum \cup {NoInode}] /\ fd \in [Proc -> Inum \cup {NoInode}]
    /\ \A p \in Proc : fr[p].pc \in Points /\ fr[p].then \in Points

\* The references that process p has: its directory, its file, and those of its frame.
Held(p) == <<cwd[p], fd[p], fr[p].ip, fr[p].dp, fr[p].old>> \o fr[p].put

\* ip->ref is the number of pointers to the inode that processes have, on every path of
\* every call, so that an entry of icache is recycled when nobody can use it any more;
\* and an entry that is valid agrees with the disk (fs.c:122, fs.c:218).
CacheCoherent ==
    LET held == FoldFunction(\o, <<>>, [p \in Proc |-> Held(p)])
    IN  \A i \in Inum :
            /\ ino[i].ref = Len(SelectSeq(held, LAMBDA j : j = i))
            /\ ino[i].valid => ino[i].mem = ino[i].disk

\* The entries by which an inode counts: names that lead to it, the ".." of each
\* directory named in it, and one for the root.
Entries(i) ==
    Cardinality({<<d, n>> \in Inum \X Name : ino[d].dir[n] = i})
    + Cardinality({n \in Name : LET c == ino[i].dir[n]
                                IN  c # NoInode /\ ino[c].disk.type = "dir"})
    + (IF i = ROOTINO THEN 1 ELSE 0)

\* link() before its entry is written, and unlink() after its entry is erased.
Pending(i) ==
    Cardinality({p \in Proc : LET f == fr[p]
                             IN  f.old = i \/ (f.ip = i /\ "unlink3" \in {f.pc, f.then})})

\* nlink on the disk is the number of directory entries of an inode, up to what the calls
\* in progress still have to do, whatever they do to the same inodes.  The exception is
\* an inode whose entry went away with the directory it was in: create() in a directory
\* that has been removed puts it there (fs.h:33, sysfile.c:249).
LinksCounted ==
    \A i \in Inum \ stray : ino[i].disk.nlink = Entries(i) + Pending(i)

\* No name, open file, current directory, or inode that a call works on, is one that has
\* been freed: iput() frees an inode only when nothing leads to it (fs.c:335).
NothingDangles ==
    LET used == {i \in Inum : ino[i].disk.type # "free"} \cup {NoInode}
    IN  /\ \A d \in Inum, n \in Name : ino[d].dir[n] \in used
        /\ \A p \in Proc : LET held == IF fr[p].pc = "put" THEN RemoveAt(Held(p), 6) ELSE Held(p)
                           IN  ToSet(held) \subseteq used


\* An inode that has neither links nor references is free (fs.c:118-120).
InodesFreed ==
    \A i \in Inum : ino[i].ref = 0 /\ ino[i].disk.type # "free" => ino[i].disk.nlink > 0
=============================================================================
