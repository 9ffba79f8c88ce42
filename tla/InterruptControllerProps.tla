--------------------- MODULE InterruptControllerProps ---------------------
(***************************************************************************)
(* Properties of the interrupt controllers of pic.cpp.                     *)
(***************************************************************************)
EXTENDS InterruptController

\* No wake-up is lost: while the master has a request the CPU should take,
\* a check is due or under way.  This is what DEBUG_PIC_IRQCHECK_VS_IRR of
\* PIC_RunQueue looks for ("PIC_IRQCheck not set and interrupts pending").
NoLostWakeup ==
  Deliverable("master", board) # {} => IRQCheck \/ board.pending

\* No request is lost: what a device asked for and did not withdraw stays in
\* the request register until the CPU takes it, and nothing else is there.
NoRequestLost ==
  owed = {d \in Devices : d[2] \in board[d[1]].irr}

\* A request of the slave that may interrupt what the slave has in service is
\* visible on the master, through any order of acknowledgements, masks and
\* withdrawals (in special mask mode the slave is looked at only at its EOI).
SlaveIsHeard ==
  Deliverable("slave", board) # {} =>
     Cascade \in board.master.irr \/ board.slave.special

\* The level against which requests are compared is the highest one in
\* service, on a controller that is never put into special mask mode: a request is not
\* nested into the service of a more urgent one, whatever was acknowledged,
\* masked or reprogrammed in between.
ActiveIsHighest ==
  \A p \in Pics :
    IF p \in Specials
    THEN board[p].active_irq \in board[p].isr \cup {8}
    ELSE board[p].active_irq = Highest(board[p].isr)

\* Registers hold lines, the pending check and the flags are booleans, and
\* active_irq, which the code keeps beside isr, agrees with it.
TypeOK ==
  /\ board \in Board
  /\ IRQCheck \in BOOLEAN /\ iflag \in BOOLEAN
  /\ owed \subseteq Devices
  /\ raises \in 0..MaxRaises
  /\ ActiveIsHighest

\* Devices make finitely many requests, so if again and again none of ds is
\* waiting unmasked, each was taken or withdrawn.  The guest is assumed to
\* acknowledge and to enable interrupts again and again.
Served(ds) == []<>(\A d \in ds : d \in owed => d[2] \in board[d[1]].imr)

\* The slave's requests and those more urgent than the cascade are served.
UrgentServed == Served({d \in Devices : d[1] = "slave" \/ d[2] < Cascade})

\* All requests are, according to slave_startIRQ, whose comment says of a
\* cascade request with nothing behind it: "clear it".  The call under it
\* lowers line 2 of the slave instead; the request stays on the master and
\* shuts out IRQ 3 to 7.
AllServed == Served(Devices)
=============================================================================
