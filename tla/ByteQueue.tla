----------------------------- MODULE ByteQueue -----------------------------
(***************************************************************************)
(* What a buffer of the serial driver promises: bytes leave in the order   *)
(* they came, none is lost between, and at most Size wait.                 *)
(***************************************************************************)
EXTENDS Integers, Sequences

CONSTANTS
    Byte,    \* the bytes
    Size     \* the room there is

VARIABLE queue

Init == queue = <<>>

\* Bytes come all at once, if there is room for all of them.
Put ==
    /\ Len(queue') \in Len(queue) + 1 .. Size
    /\ SubSeq(queue', 1, Len(queue)) = queue
    /\ \A i \in Len(queue) + 1 .. Len(queue') : queue'[i] \in Byte

\* The first ones leave.
Get == \E n \in 1 .. Len(queue) : queue' = SubSeq(queue, n + 1, Len(queue))

Next == Put \/ Get

Spec == Init /\ [][Next]_queue

=============================================================================
