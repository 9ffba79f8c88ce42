----------------------------- MODULE EventQueue -----------------------------
(***************************************************************************)
(* The queue of timed events of src/src/hardware/pic.cpp and the emulator  *)
(* loop around it: the CPU core runs for CPU_Cycles, PIC_RunQueue serves   *)
(* what is due and deals out the next CPU_Cycles, and TIMER_AddTick begins *)
(* a millisecond.  Handlers, tick handlers and the devices an instruction  *)
(* reaches add and remove events.                                          *)
(*                                                                         *)
(* Times are whole units of Frac per cycle, counted from the start of the  *)
(* millisecond, where the code has fractions of a millisecond: an event    *)
(* may be due between two cycles.                                          *)
(***************************************************************************)
EXTENDS Integers, Sequences, SequencesExt

CONSTANTS
  Handlers,     \* event handlers with their values; each is queued at most once
  NoHandler,
  CycleMax,     \* CPU_CycleMax, cycles in a millisecond
  Frac,         \* units of time in a cycle
  Delays,       \* delays of PIC_AddEvent, in units
  MaxIoDelay,   \* the most cycles an I/O instruction costs on top (iohandler.cpp)
  QueueSize     \* PIC_QUEUESIZE

ASSUME QueueSizeAssumption ==
  /\ NoHandler \notin Handlers
  /\ CycleMax \in Nat \ {0} /\ Frac \in Nat \ {0} /\ QueueSize \in Nat \ {0}
  /\ Delays \subseteq Nat /\ MaxIoDelay \in Nat

VARIABLES
  pc,          \* where the emulator is, see Places
  CPU_Cycles, CPU_CycleLeft,
  queue,       \* pic_queue.next_entry and its successors
  running,     \* the entry whose handler runs, in neither list
  index_nd,    \* PIC_RunQueue's reading of the clock, in cycles
  calls        \* history: handlers in the queue, in the order of their AddEvent

vars == <<pc, CPU_Cycles, CPU_CycleLeft, queue, running, index_nd, calls>>
clock == <<CPU_Cycles, CPU_CycleLeft>>

\* cpu: in the core; loop: about to call PIC_RunQueue; serve: in its loop;
\* handler: in an event handler; tickers: in the tick handlers.
Places == {"cpu", "loop", "serve", "handler", "tick", "tickers"}

Entry(h, t) == [handler |-> h, index |-> t]
NoEntry == Entry(NoHandler, 0)

Init ==
  /\ pc = "loop" /\ CPU_Cycles = 0 /\ CPU_CycleLeft = CycleMax
  /\ queue = <<>> /\ running = NoEntry /\ index_nd = 0 /\ calls = <<>>

\* PIC_TickIndexND, in cycles.
TickIndexND(left, cycles) == CycleMax - left - cycles

\* A C++ conversion to Bits drops the fraction of a cycle, toward zero.
Cycles(t) == IF t >= 0 THEN t \div Frac ELSE -((-t) \div Frac)

Queued == {queue[i].handler : i \in 1..Len(queue)}

\* Faulty: the entry is free while its handler runs.
FreeEntriesEarly == QueueSize - Len(queue)

FreeEntries == QueueSize - Len(queue) - (IF running = NoEntry THEN 0 ELSE 1)

-----------------------------------------------------------------------------
\* Faulty: in front of those due at the same time.
GoesBeforeEquals(n, t) ==
  /\ n <= Len(queue) => queue[n].index >= t
  /\ \A i \in 1..(n - 1) : queue[i].index < t

\* AddEntry: in front of the first event that is due later.
GoesAt(n, t) ==
  /\ n <= Len(queue) => queue[n].index > t
  /\ \A i \in 1..(n - 1) : queue[i].index <= t

\* Faulty: the slice goes on.
PreemptNever(q, left, cycles) == [left |-> left, cycles |-> cycles]

\* The end of AddEntry: an event due within the slice ends the slice.
Preempt(q, left, cycles) ==
  LET ahead == Cycles(Head(q).index - Frac * TickIndexND(left, cycles))
  IN  IF ahead < cycles THEN [left |-> left + cycles, cycles |-> 0]
                        ELSE [left |-> left, cycles |-> cycles]

\* What PIC_AddEvent counts a delay from: in a handler the time at which its
\* event was due (srv_lag), elsewhere the clock.
From(cycles, left) ==
  IF pc = "handler" THEN running.index ELSE Frac * TickIndexND(left, cycles)

\* PIC_AddEvent, refused when no entry is free.
AddEvent(h, delay, left, cycles) ==
  IF FreeEntries = 0
  THEN /\ CPU_Cycles' = cycles /\ CPU_CycleLeft' = left
       /\ UNCHANGED <<queue, calls>>
  ELSE \E n \in 1..(Len(queue) + 1) :
         LET e == Entry(h, From(cycles, left) + delay)
             q == InsertAt(queue, n, e)
             slice == Preempt(q, left, cycles)
         IN  /\ GoesAt(n, e.index)
             /\ queue' = q /\ calls' = Append(calls, h)
             /\ CPU_Cycles' = slice.cycles /\ CPU_CycleLeft' = slice.left

\* History: h is in the queue no longer.
Forget(h) ==
  \E i \in 1..Len(calls) : calls[i] = h /\ calls' = RemoveAt(calls, i)

\* PIC_RemoveEvents: there is one entry for each handler that is queued.
RemoveEvents(h, left, cycles) ==
  /\ \E i \in 1..Len(queue) : queue[i].handler = h /\ queue' = RemoveAt(queue, i)
  /\ Forget(h)
  /\ CPU_Cycles' = cycles /\ CPU_CycleLeft' = left

NoEvent(left, cycles) ==
  /\ CPU_Cycles' = cycles /\ CPU_CycleLeft' = left
  /\ UNCHANGED <<queue, calls>>

\* What a device may do to the queue while the clock reads left and cycles.
\* Handlers and tick handlers always ask for a delay.
Touch(left, cycles) ==
  \/ NoEvent(left, cycles)
  \/ \E h \in Handlers \ Queued, d \in Delays :
        /\ pc = "cpu" \/ d > 0
        /\ AddEvent(h, d, left, cycles)
  \/ \E h \in Queued : RemoveEvents(h, left, cycles)

-----------------------------------------------------------------------------
\* An instruction; one that does I/O may cost more than its cycle.
Instruction ==
  /\ pc = "cpu" /\ CPU_Cycles > 0
  /\ \E io \in 0..MaxIoDelay : Touch(CPU_CycleLeft, CPU_Cycles - 1 - io)
  /\ UNCHANGED <<pc, running, index_nd>>

\* The core's test CPU_Cycles-- > 0 fails.
SliceEnds ==
  /\ pc = "cpu" /\ CPU_Cycles <= 0
  /\ CPU_Cycles' = CPU_Cycles - 1 /\ pc' = "loop"
  /\ UNCHANGED <<CPU_CycleLeft, queue, running, index_nd, calls>>

\* The core returns early, for a callback or an interrupt.
CoreReturns ==
  /\ pc = "cpu" /\ pc' = "loop"
  /\ UNCHANGED <<clock, queue, running, index_nd, calls>>

\* PIC_RunQueue up to its loop; out of cycles, the millisecond is over.
RunQueueBegin ==
  /\ pc = "loop"
  /\ CPU_CycleLeft' = CPU_CycleLeft + CPU_Cycles /\ CPU_Cycles' = 0
  /\ IF CPU_CycleLeft' > 0
     THEN pc' = "serve" /\ index_nd' = TickIndexND(CPU_CycleLeft', 0)
     ELSE pc' = "tick" /\ UNCHANGED index_nd
  /\ UNCHANGED <<queue, running, calls>>

IsDue(e) == e.index <= Frac * index_nd

ServeEvent ==
  /\ pc = "serve" /\ queue # <<>> /\ IsDue(Head(queue))
  /\ running' = Head(queue) /\ queue' = Tail(queue) /\ pc' = "handler"
  /\ Forget(Head(queue).handler)
  /\ UNCHANGED <<clock, index_nd>>

\* The event handler, or a tick handler, uses the queue.
HandlerActs ==
  /\ pc \in {"handler", "tickers"} /\ Touch(CPU_CycleLeft, CPU_Cycles)
  /\ UNCHANGED <<pc, running, index_nd>>

\* Only now is the entry of the event free.
HandlerReturns ==
  /\ pc = "handler" /\ pc' = "serve" /\ running' = NoEntry
  /\ UNCHANGED <<clock, queue, index_nd, calls>>

\* The slice that reaches up to the next event, at least one cycle long.
Slice ==
  LET ahead == Cycles(Head(queue).index - Frac * index_nd)
      cycles == IF ahead = 0 THEN 1 ELSE ahead
  IN  IF queue # <<>> /\ cycles < CPU_CycleLeft THEN cycles ELSE CPU_CycleLeft

RunQueueEnd ==
  /\ pc = "serve" /\ ~(queue # <<>> /\ IsDue(Head(queue)))
  /\ CPU_Cycles' = Slice /\ CPU_CycleLeft' = CPU_CycleLeft - Slice
  /\ pc' = "cpu"
  /\ UNCHANGED <<queue, running, index_nd, calls>>

\* Faulty: the times still count from the start of the last millisecond.
LoweredNot(q) == q

Lowered(q) == [i \in 1..Len(q) |-> [q[i] EXCEPT !.index = @ - Frac * CycleMax]]

\* TIMER_AddTick: cycles for another millisecond, what was overdrawn deducted.
AddTick ==
  /\ pc = "tick" /\ pc' = "tickers"
  /\ CPU_CycleLeft' = CPU_CycleLeft + CycleMax + CPU_Cycles /\ CPU_Cycles' = 0
  /\ queue' = Lowered(queue)
  /\ UNCHANGED <<running, index_nd, calls>>

TickersReturn ==
  /\ pc = "tickers" /\ pc' = "loop"
  /\ UNCHANGED <<clock, queue, running, index_nd, calls>>

-----------------------------------------------------------------------------
Loop == SliceEnds \/ RunQueueBegin \/ ServeEvent \/ HandlerReturns
          \/ RunQueueEnd \/ AddTick \/ TickersReturn

Next == Instruction \/ CoreReturns \/ HandlerActs \/ Loop

Spec == Init /\ [][Next]_vars

\* The emulator loop goes on, and the core runs: it does not return for ever
\* without having run an instruction.
FairSpec == Spec /\ WF_vars(Loop) /\ SF_vars(Instruction)
=============================================================================
