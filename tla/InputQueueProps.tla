-------------------------- MODULE InputQueueProps --------------------------
(***************************************************************************)
(* What the input queue must guarantee between the thread that fills it    *)
(* and the thread that empties it.                                         *)
(***************************************************************************)
EXTENDS InputQueue

(* The number of the oldest code the drain has not finished with: codes    *)
(* below it have been delivered or cleared, the others have not.           *)
Frontier == nextSeq - Len(pending) + (IF drain = "pop" THEN 1 ELSE 0)

Delivered == {delivered[i] : i \in DOMAIN delivered}

(* The queue holds exactly the most recent codes, in the order in which    *)
(* they were accepted, whatever the reader thread queued between the two   *)
(* locked sections of a drain; and a drain that has looked at the head     *)
(* finds the same head when it comes back to remove it.                    *)
QueueOrdered ==
    /\ \A i \in 1 .. Len(pending) :
           pending[i] = nextSeq - Len(pending) + i - 1
    /\ drain \in {"add", "pop"} => pending # <<>> /\ peeked = Head(pending)

(* Codes are handed to the BIOS in the order they were accepted, none of   *)
(* them twice, and none that is still waiting or was cleared.              *)
DeliveredInOrder ==
    /\ \A i, j \in DOMAIN delivered : i < j => delivered[i] < delivered[j]
    /\ \A i \in DOMAIN delivered : delivered[i] < Frontier
    /\ Delivered \cap cleared = {}

(* "Do not silently drop input": every code whose acceptance was reported  *)
(* is still waiting, was handed to the BIOS, or was thrown away on purpose *)
(* by clear_queued_input: a drain never removes what a full ring refused.  *)
NoSilentDrop ==
    \A n \in 0 .. acked - 1 : n < Frontier => n \in Delivered \cup cleared

(* The strengthening that makes the conjunction inductive on a machine     *)
(* without DOS/V: every queued code was acknowledged, nothing at or above  *)
(* the head of the queue was cleared, nothing went to over_key_buffer.     *)
Bookkeeping ==
    /\ acked = nextSeq
    /\ Len(pending) <= nextSeq
    /\ \A n \in cleared : n < nextSeq - Len(pending)
    /\ over = <<>>

OrderInv == TypeOK /\ QueueOrdered /\ Bookkeeping /\ DeliveredInOrder

DropInv == OrderInv /\ NoSilentDrop

(* The queue implements the FIFO that host control promises: the code      *)
(* moves from the backlog to the BIOS when BIOS_AddKeyToBuffer takes it,   *)
(* although it is removed from the deque only two steps later.             *)
Backlog == IF drain = "pop" THEN Tail(pending) ELSE pending

Fifo == INSTANCE InputFifo
        WITH next <- nextSeq, backlog <- Backlog, given <- delivered

ImplementsFifo == Fifo!Spec

(* Every accepted code leaves the queue in the end (given a guest that     *)
(* reads its keyboard), even if the reader thread keeps adding more.       *)
Waiting(n) == n \in {pending[i] : i \in DOMAIN pending}

EventuallyLeaves ==
    \A n \in 0 .. MaxAccepted - 1 : Waiting(n) ~> ~Waiting(n)

=============================================================================
