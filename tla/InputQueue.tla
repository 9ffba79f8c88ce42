----------------------------- MODULE InputQueue -----------------------------
(***************************************************************************)
(* The keyboard-input queue of host control: the deque pending_input_codes *)
(* of src/src/misc/host_control.cpp, filled by the session's reader thread *)
(* and by the emulator thread, and drained by the emulator thread into the *)
(* BIOS keyboard ring of src/src/ints/bios_keyboard.cpp.                   *)
(*                                                                         *)
(* drain_queued_input holds pending_input_mutex only while it looks at the *)
(* head and again while it removes it; between the two it calls            *)
(* BIOS_AddKeyToBuffer unlocked.  Each locked section is one action here.  *)
(* A code is represented by its sequence number: which key it is does not  *)
(* influence any of these functions.                                       *)
(***************************************************************************)
EXTENDS Integers, Sequences

CONSTANTS
    Capacity,     \* input_queue_max_codes
    RingSlots,    \* usable slots of the BIOS keyboard ring
    MaxAccepted,  \* bound of the model: codes accepted in one behaviour
    MaxOver,      \* bound of the model: length of over_key_buffer
    PauseKey,     \* TRUE when the guest keyboard's Pause key may be used
    DosV          \* TRUE on a DOS/V machine (IS_DOSV)

ASSUME QueueAssumption ==
    /\ Capacity \in Nat \ {0}
    /\ RingSlots \in Nat \ {0}
    /\ MaxAccepted \in Nat
    /\ MaxOver \in Nat
    /\ PauseKey \in BOOLEAN
    /\ DosV \in BOOLEAN

VARIABLES
    pending,      \* pending_input_codes, as sequence numbers
    nextSeq,      \* next_pending_input_sequence
    acked,        \* sum of the "queued" counts reported to callers
    drain,        \* where the emulator thread is in drain_queued_input
    peeked,       \* its local variable sequence
    ring,         \* the BIOS keyboard ring, oldest code first
    over,         \* over_key_buffer
    paused,       \* BIOS_KEYBOARD_FLAGS2, bit 3
    swallowed,    \* history: codes dropped by the BIOS during a pause
    delivered,    \* history: codes handed to the BIOS, in order
    cleared       \* history: codes removed by clear_queued_input

vars == <<pending, nextSeq, acked, drain, peeked, ring, over, paused,
          swallowed, delivered, cleared>>

queueVars == <<pending, nextSeq, acked>>
drainVars == <<drain, peeked>>
biosVars  == <<ring, over, paused, swallowed>>

TypeOK ==
    /\ pending \in Seq(Nat)
    /\ Len(pending) <= Capacity
    /\ nextSeq \in Nat
    /\ acked \in Nat
    /\ drain \in {"away", "peek", "add", "pop"}
    /\ peeked \in Nat
    /\ ring \in Seq(Nat)
    /\ Len(ring) <= RingSlots
    /\ over \in Seq(Nat)
    /\ paused \in BOOLEAN
    /\ swallowed \subseteq Nat
    /\ delivered \in Seq(Nat)
    /\ cleared \subseteq Nat

Init ==
    /\ pending = <<>>
    /\ nextSeq = 0
    /\ acked = 0
    /\ drain = "away"
    /\ peeked = 0
    /\ ring = <<>>
    /\ over = <<>>
    /\ paused = FALSE
    /\ swallowed = {}
    /\ delivered = <<>>
    /\ cleared = {}

-----------------------------------------------------------------------------
(* queue_input_codes: the reader thread calls it for input_text, key and   *)
(* cancel, the emulator thread for the input an exec request carries.      *)

Numbered(first, k) == [i \in 1 .. k |-> first + i - 1]

(* Faulty: compared before the codes are counted in, with one to spare.    *)
FitsOneMore(k) == Len(pending) + k <= Capacity + 1

Fits(k) == Len(pending) + k <= Capacity

QueueInputCodes(k) ==
    /\ nextSeq + k <= MaxAccepted
    /\ Fits(k)
    /\ pending' = pending \o Numbered(nextSeq, k)
    /\ nextSeq' = nextSeq + k
    /\ acked' = acked + k
    /\ UNCHANGED <<drainVars, biosVars, delivered, cleared>>

(* "input queue full": nothing is queued and an error is reported.         *)
QueueFull(k) ==
    /\ ~Fits(k)
    /\ UNCHANGED vars

(* The emulator thread, after a cancelled exec; it is not draining then.   *)
ClearQueuedInput ==
    /\ drain = "away"
    /\ cleared' = cleared \cup {pending[i] : i \in DOMAIN pending}
    /\ pending' = <<>>
    /\ UNCHANGED <<nextSeq, acked, drainVars, biosVars, delivered>>

-----------------------------------------------------------------------------
(* drain_queued_input, called once per iteration of Normal_Loop.           *)

DrainEnter ==
    /\ drain = "away"
    /\ drain' = "peek"
    /\ UNCHANGED <<queueVars, peeked, biosVars, delivered, cleared>>

DrainPeek ==
    /\ drain = "peek"
    /\ IF pending = <<>>
       THEN drain' = "away" /\ UNCHANGED peeked
       ELSE drain' = "add" /\ peeked' = Head(pending)
    /\ UNCHANGED <<queueVars, biosVars, delivered, cleared>>

RingFull == Len(ring) = RingSlots

(* BIOS_AddKeyToBuffer drops the code and reports success while the guest  *)
(* is paused, reports failure when the ring is full (after putting a copy  *)
(* into over_key_buffer on a DOS/V machine), and stores it otherwise.      *)
ReportSuccess ==
    /\ drain' = "pop"
    /\ delivered' = Append(delivered, peeked)
    /\ UNCHANGED <<queueVars, peeked, over, paused, cleared>>

AddWhilePaused ==
    /\ drain = "add" /\ paused
    /\ swallowed' = swallowed \cup {peeked}
    /\ ReportSuccess
    /\ UNCHANGED ring

(* Faulty: the answer of BIOS_AddKeyToBuffer is ignored.                   *)
AddRingFullIgnored ==
    /\ drain = "add" /\ ~paused /\ RingFull
    /\ drain' = "pop"
    /\ UNCHANGED <<queueVars, peeked, biosVars, delivered, cleared>>

(* Faulty: the drain waits inside its loop for room in the ring.           *)
AddRingFullSpins ==
    /\ drain = "add" /\ ~paused /\ RingFull
    /\ UNCHANGED vars

AddRingFull ==
    /\ drain = "add" /\ ~paused /\ RingFull
    /\ drain' = "away"
    /\ IF DosV
       THEN Len(over) < MaxOver /\ over' = Append(over, peeked)
       ELSE UNCHANGED over
    /\ UNCHANGED <<queueVars, peeked, ring, paused, swallowed, delivered,
                   cleared>>

AddStored ==
    /\ drain = "add" /\ ~paused /\ ~RingFull
    /\ ring' = Append(ring, peeked)
    /\ ReportSuccess
    /\ UNCHANGED swallowed

(* Faulty: the code that was delivered stays in the deque.                 *)
DrainPopForgotten ==
    /\ drain = "pop"
    /\ drain' = "peek"
    /\ UNCHANGED <<queueVars, peeked, biosVars, delivered, cleared>>

DrainPop ==
    /\ drain = "pop"
    /\ drain' = "peek"
    /\ pending' = IF pending # <<>> /\ Head(pending) = peeked
                  THEN Tail(pending) ELSE pending
    /\ UNCHANGED <<nextSeq, acked, peeked, biosVars, delivered, cleared>>

-----------------------------------------------------------------------------
(* The guest, on the emulator thread when it is not draining.  INT 16h     *)
(* removes a key with get_key, which on a DOS/V machine then moves one     *)
(* code from over_key_buffer into the slot it has freed.                   *)

GuestReadKey ==
    /\ drain = "away" /\ ~paused /\ ring # <<>>
    /\ IF DosV /\ over # <<>>
       THEN /\ ring' = Append(Tail(ring), Head(over))
            /\ over' = Tail(over)
            /\ delivered' = Append(delivered, Head(over))
       ELSE /\ ring' = Tail(ring)
            /\ UNCHANGED <<over, delivered>>
    /\ UNCHANGED <<queueVars, drainVars, paused, swallowed, cleared>>

(* IRQ 1 handler: the Pause key sets the flag and loops in CALLBACK_Idle,  *)
(* which keeps running Normal_Loop; the next key pressed clears it.        *)
PressPause ==
    /\ PauseKey /\ drain = "away" /\ ~paused
    /\ paused' = TRUE
    /\ UNCHANGED <<queueVars, drainVars, ring, over, swallowed, delivered,
                   cleared>>

EndPause ==
    /\ drain = "away" /\ paused
    /\ paused' = FALSE
    /\ UNCHANGED <<queueVars, drainVars, ring, over, swallowed, delivered,
                   cleared>>

-----------------------------------------------------------------------------
DrainStep == \/ DrainEnter
             \/ DrainPeek
             \/ AddWhilePaused
             \/ AddRingFull
             \/ AddStored
             \/ DrainPop

Next == \/ \E k \in 0 .. Capacity + 1 : QueueInputCodes(k) \/ QueueFull(k)
        \/ ClearQueuedInput
        \/ DrainStep
        \/ GuestReadKey
        \/ PressPause
        \/ EndPause

Spec == Init /\ [][Next]_vars

(* Normal_Loop calls drain_queued_input on every iteration and the call    *)
(* always returns.  A guest that reads its keyboard does so between two    *)
(* calls, so it is never shut out for good although it is not enabled      *)
(* inside a call: strong fairness.  Someone ends a pause eventually.       *)
Fairness == /\ WF_vars(DrainStep)
            /\ SF_vars(GuestReadKey)
            /\ SF_vars(EndPause)

FairSpec == Spec /\ Fairness

=============================================================================
