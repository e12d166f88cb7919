------------------------------ MODULE MCInodes ------------------------------
(***************************************************************************)
(* Small instances of Inodes for TLC.                                      *)
(***************************************************************************)
EXTENDS Inodes, TLC

Abs(names) == [abs |-> TRUE, names |-> names]
Rel(names) == [abs |-> FALSE, names |-> names]

Call(call, path) == [call |-> call, path |-> path]
LinkCall(old, new) == [call |-> "link", path |-> old, new |-> new]
OpenCall(path, rdonly) == [call |-> "open", path |-> path, rdonly |-> rdonly]

\* One directory d; files in it and in the root under the same name x, or links.  A
\* relative path starts in the root or in d, which may have been removed.
MCCalls == {Call("mkdir", Abs(<<"d">>)), Call("chdir", Abs(<<"d">>)),
            Call("unlink", Abs(<<"d">>)), Call("create", Rel(<<"x">>)),
            Call("unlink", Abs(<<"d", "x">>)), Call("mknod", Abs(<<"x">>)),
            LinkCall(Abs(<<"d", "x">>), Abs(<<"x">>)), LinkCall(Abs(<<"d">>), Abs(<<"x">>)),
            OpenCall(Rel(<<"x">>), FALSE)}

MCSymmetry == Permutations(Proc)
=============================================================================
