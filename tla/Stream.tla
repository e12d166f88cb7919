------------------------------- MODULE Stream -------------------------------
(***************************************************************************)
(* What a pipe promises: a bounded first-in first-out stream of bytes with *)
(* a read end and a write end.  Bytes come out once, in the order they     *)
(* went in; only an open end moves bytes; the end of the stream is seen    *)
(* only when it is empty and the write end is closed.                      *)
(***************************************************************************)
EXTENDS Naturals, Sequences

CONSTANTS
    Page,          \* names of streams
    Byte,
    PIPESIZE       \* capacity of a stream

VARIABLES
    queue,         \* the bytes in each stream
    ends,          \* the open ends of each stream, "r" and "w"
    out            \* what the last step has taken from a stream, as <<page, bytes>>

avars == <<queue, ends, out>>

AInit ==
    /\ queue = [k \in Page |-> <<>>]
    /\ ends = [k \in Page |-> {}]
    /\ out = <<>>

Open(k) ==
    /\ ends[k] = {} /\ queue[k] = <<>>
    /\ ends' = [ends EXCEPT ![k] = {"r", "w"}]
    /\ out' = <<>>
    /\ UNCHANGED queue

Put(k, s) ==
    /\ "w" \in ends[k]
    /\ Len(queue[k]) + Len(s) <= PIPESIZE
    /\ queue' = [queue EXCEPT ![k] = @ \o s]
    /\ out' = <<>>
    /\ UNCHANGED ends

Take(k, n) ==
    /\ "r" \in ends[k]
    /\ out' = <<k, SubSeq(queue[k], 1, n)>>
    /\ queue' = [queue EXCEPT ![k] = SubSeq(@, n + 1, Len(@))]
    /\ UNCHANGED ends

EndOfFile(k) ==
    /\ ends[k] = {"r"} /\ queue[k] = <<>>
    /\ out' = <<k, <<>>>>
    /\ UNCHANGED <<queue, ends>>

\* When the last end is closed, the bytes that were not read are gone.
Close(k, e) ==
    /\ e \in ends[k]
    /\ ends' = [ends EXCEPT ![k] = @ \ {e}]
    /\ queue' = IF ends[k] = {e} THEN [queue EXCEPT ![k] = <<>>] ELSE queue
    /\ out' = <<>>

Quiet == out' = <<>> /\ UNCHANGED <<queue, ends>>

ANext ==
    \/ Quiet
    \/ \E k \in Page :
        \/ Open(k)
        \/ \E n \in 1 .. PIPESIZE : \E s \in [1 .. n -> Byte] : Put(k, s)
        \/ \E n \in 1 .. Len(queue[k]) : Take(k, n)
        \/ EndOfFile(k)
        \/ \E e \in {"r", "w"} : Close(k, e)

AStream == AInit /\ [][ANext]_avars
=============================================================================
