----------------------------- MODULE InputFifo -----------------------------
(***************************************************************************)
(* What host control promises about keyboard input it has acknowledged     *)
(* (docs/superpowers/specs/2026-07-06-host-control-input-design.md, "Input *)
(* Injection Semantics" and "Queue errors"): a bounded FIFO.  Codes are    *)
(* numbered in the order they are accepted.  A batch is accepted as a      *)
(* whole or not at all; accepted codes reach the guest one at a time and   *)
(* in order; the whole backlog may be discarded when a command is          *)
(* cancelled; nothing else ever leaves the backlog.                        *)
(***************************************************************************)
EXTENDS Integers, Sequences

CONSTANT Capacity         \* how many codes may wait at a time

VARIABLES
    next,                 \* the number the next accepted code gets
    backlog,              \* accepted codes the guest has not been given
    given                 \* codes given to the guest, in order

vars == <<next, backlog, given>>

Init ==
    /\ next = 0
    /\ backlog = <<>>
    /\ given = <<>>

Accept ==
    \E k \in 0 .. Capacity - Len(backlog) :
        /\ backlog' = backlog \o [i \in 1 .. k |-> next + i - 1]
        /\ next' = next + k
        /\ UNCHANGED given

Give ==
    /\ backlog # <<>>
    /\ given' = Append(given, Head(backlog))
    /\ backlog' = Tail(backlog)
    /\ UNCHANGED next

Discard ==
    /\ backlog' = <<>>
    /\ UNCHANGED <<next, given>>

Next == Accept \/ Give \/ Discard

Spec == Init /\ [][Next]_vars

=============================================================================
