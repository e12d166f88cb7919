----------------------------- MODULE BlockStore -----------------------------
(***************************************************************************)
(* What the buffer cache and the disk driver together promise: blocks that *)
(* one process at a time holds, reads and changes.  A process that gets a  *)
(* block finds what the last holder left.  Only a read error of the disk   *)
(* can change a block otherwise: once when it happens, and once more when  *)
(* the block is read again.                                                *)
(***************************************************************************)
EXTENDS Naturals

CONSTANTS Proc, NoProc, Block, Value, InitValue

VARIABLES
    content,       \* of each block
    owner,         \* the process that holds the block, or NoProc
    damaged        \* the blocks of which the last read has failed

avars == <<content, owner, damaged>>

AInit ==
    /\ content = [k \in Block |-> InitValue]
    /\ owner = [k \in Block |-> NoProc]
    /\ damaged = {}

Get(p, k) ==
    /\ owner[k] = NoProc
    /\ owner' = [owner EXCEPT ![k] = p]
    /\ UNCHANGED <<content, damaged>>

Set(p, k, v) ==
    /\ owner[k] = p
    /\ content' = [content EXCEPT ![k] = v]
    /\ UNCHANGED <<owner, damaged>>

Put(p, k) ==
    /\ owner[k] = p
    /\ owner' = [owner EXCEPT ![k] = NoProc]
    /\ UNCHANGED <<content, damaged>>

BadGet(p, k, v) ==
    /\ owner[k] = NoProc
    /\ owner' = [owner EXCEPT ![k] = p]
    /\ content' = [content EXCEPT ![k] = v]
    /\ damaged' = damaged \cup {k}

Reload(k, v) ==
    /\ k \in damaged /\ owner[k] = NoProc
    /\ content' = [content EXCEPT ![k] = v]
    /\ damaged' = damaged \ {k}
    /\ UNCHANGED owner

\* The step is about block k.
About(k) ==
    content'[k] # content[k] \/ owner'[k] # owner[k] \/ (k \in damaged') # (k \in damaged)

ANext ==
    \E k \in Block : About(k) /\ \E p \in Proc :
        \/ Get(p, k) \/ Put(p, k)
        \/ \E v \in Value : Set(p, k, v) \/ BadGet(p, k, v) \/ Reload(k, v)

AStore == AInit /\ [][ANext]_avars
=============================================================================
