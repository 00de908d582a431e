------------------------------ MODULE ByteFifo ------------------------------
(***************************************************************************)
(* What a pipe promises: a bounded first-in first-out queue of bytes.      *)
(***************************************************************************)
EXTENDS Naturals, Sequences

CONSTANTS Bytes, Capacity

VARIABLE queue

FifoInit == queue = <<>>

\* One byte or more are written, or read, at once.
FifoWrite ==
  \E n \in 1 .. Capacity : \E s \in [1 .. n -> Bytes] :
    /\ Len(queue) + n <= Capacity
    /\ queue' = queue \o s

FifoRead ==
  \E n \in 1 .. Len(queue) : queue' = SubSeq(queue, n + 1, Len(queue))

FifoSpec == FifoInit /\ [][FifoWrite \/ FifoRead]_queue
=============================================================================
