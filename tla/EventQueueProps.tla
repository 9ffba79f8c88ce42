-------------------------- MODULE EventQueueProps --------------------------
(***************************************************************************)
(* Properties of the event queue of pic.cpp.                               *)
(***************************************************************************)
EXTENDS EventQueue

Entries == [handler : Handlers, index : Int]

\* Entries are well formed, no more of them are in use than there are, and
\* one is running exactly while a handler is.
TypeOK ==
  /\ pc \in Places
  /\ CPU_Cycles \in Int /\ CPU_CycleLeft \in Int /\ index_nd \in Int
  /\ queue \in Seq(Entries)
  /\ Len(queue) + (IF running = NoEntry THEN 0 ELSE 1) <= QueueSize
  /\ running \in Entries \cup {NoEntry}
  /\ (running # NoEntry) <=> (pc = "handler")
  /\ calls \in Seq(Handlers)

\* Events are served in the order of their times, those of one time in the
\* order in which they were added, from whatever context: by the CPU with the
\* clock, by handlers with the time of their event, by tick handlers.
AddedBefore(g, h) == \E i, j \in 1..Len(calls) : i < j /\ calls[i] = g /\ calls[j] = h

QueueStable ==
  \A i, j \in 1..Len(queue) :
    i < j => \/ queue[i].index < queue[j].index
             \/ /\ queue[i].index = queue[j].index
                /\ AddedBefore(queue[i].handler, queue[j].handler)

\* The largest lateness the code allows: what an I/O instruction overdraws,
\* the cycle of a slice that cannot be shorter, and the core's last test.
MaxLate == Frac * (MaxIoDelay + 2)

\* No event is forgotten by the slice: it is served at most MaxLate after its
\* time, also one that is added in the middle of a slice, or across the end of
\* a millisecond, and none is served early.
ServedOnTime ==
  pc = "handler" =>
     LET late == Frac * index_nd - running.index IN 0 <= late /\ late <= MaxLate

\* An event in the queue is served or removed: handlers that add events again
\* and again do not keep the loop from getting to it.
EventuallyServed ==
  \A h \in Handlers : (h \in Queued) ~> (running.handler = h \/ h \notin Queued)
=============================================================================
