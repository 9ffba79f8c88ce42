------------------------ MODULE InterruptController ------------------------
(***************************************************************************)
(* The pair of 8259 interrupt controllers of src/src/hardware/pic.cpp and  *)
(* the part of the emulator loop that asks them for interrupts.  Devices   *)
(* raise and lower their lines, the guest masks, reprograms and            *)
(* acknowledges, and PIC_runIRQs gives the highest-priority request to the *)
(* CPU.  A register of eight bits is the set of its lines.                 *)
(***************************************************************************)
EXTENDS Integers, FiniteSets, FiniteSetsExt

CONSTANTS
  Lines,        \* [Pics -> SUBSET 0..7]: lines with a device on them
  Edge,         \* device lines whose raising edge alone counts (PIC_EdgeTrigger)
  Masks,        \* [Pics -> sets of lines]: mask registers the guest writes
  Specials,     \* controllers whose special mask mode the guest switches
  Icw1,         \* [Pics -> sets of [single, icw4]]: initialisations it performs
  Cascade,      \* master_cascade_irq: the line of the master the slave drives
  IgnoreCascade,     \* ignore_cascade_in_service
  NeverMarkCascade,  \* never_mark_cascade_in_service
  HackLines,    \* lines with the hack "no interrupt unless CS = DS"
  MaxRaises     \* bound on the requests devices make

Pics == {"master", "slave"}
Bits == 0..7
Devices == UNION {{<<p, i>> : i \in Lines[p]} : p \in Pics}

ASSUME ControllerAssumption ==
  /\ Lines \in [Pics -> SUBSET Bits]
  /\ Cascade \in Bits \ Lines["master"]
  /\ Edge \subseteq Devices /\ HackLines \subseteq Devices
  /\ Masks \in [Pics -> SUBSET SUBSET Bits] /\ Specials \subseteq Pics
  /\ Icw1 \in [Pics -> SUBSET [single : BOOLEAN, icw4 : BOOLEAN]]
  /\ IgnoreCascade \in BOOLEAN /\ NeverMarkCascade \in BOOLEAN
  /\ MaxRaises \in Nat

Controller == [irr : SUBSET Bits, imr : SUBSET Bits, isr : SUBSET Bits,
               input : SUBSET Bits, active_irq : 0..8,
               special : BOOLEAN, auto_eoi : BOOLEAN,
               single : BOOLEAN, icw_index : 0..3, icw_words : {0, 2, 3}]

VARIABLES
  board,        \* both controllers and PIC_IRQCheckPending
  IRQCheck,     \* PIC_IRQCheck
  iflag,        \* the interrupt flag of the CPU
  owed,         \* device requests neither withdrawn nor taken by the CPU
  raises        \* requests made so far

vars == <<board, IRQCheck, iflag, owed, raises>>

Board == [master : Controller, slave : Controller, pending : BOOLEAN]

\* PIC_Reset: everything masked except timer, keyboard, clock and cascade.
Reset(unmasked) ==
  [irr |-> {}, imr |-> Bits \ unmasked, isr |-> {}, input |-> {},
   active_irq |-> 8, special |-> FALSE, auto_eoi |-> FALSE,
   single |-> FALSE, icw_index |-> 0, icw_words |-> 0]

Init ==
  /\ board = [master |-> Reset({0, 1, Cascade}), slave |-> Reset({0}),
              pending |-> FALSE]
  /\ IRQCheck = FALSE /\ iflag = TRUE
  /\ owed = {} /\ raises = 0

-----------------------------------------------------------------------------
(* The rules of priority.                                                  *)

\* (irr & imrr) & isrr, isrr being the complement of isr plus isr_ignore.
Ready(p, b) ==
  LET ignored == IF p = "master" /\ IgnoreCascade THEN {Cascade} ELSE {}
  IN  {i \in b[p].irr \ b[p].imr : i \notin b[p].isr \/ i \in ignored}

\* Lines below this one may interrupt what is in service.
Limit(p, b) ==
  LET a == IF b[p].special THEN 8 ELSE b[p].active_irq
  IN  IF p = "master" /\ IgnoreCascade /\ a = Cascade THEN a + 1 ELSE a

Deliverable(p, b) == {i \in Ready(p, b) : i < Limit(p, b)}

Highest(isr) == Min(isr \cup {8})

(* What a change of a controller tells the next one: the master the CPU,   *)
(* the slave its line on the master.                                       *)

\* raise_irq: the registers after it; a level that an edge line has kept is not
\* seen again.
Filtered(p, i, b) == <<p, i>> \in Edge /\ i \in b[p].input

Raised(p, i, b) ==
  IF Filtered(p, i, b) THEN b
  ELSE [b EXCEPT ![p].irr = @ \cup {i},
                 ![p].input = IF <<p, i>> \in Edge THEN @ \cup {i} ELSE @]

\* ... and whether it calls activate.
Signals(p, i, b) ==
  /\ ~Filtered(p, i, b) /\ i \notin b[p].irr /\ i \in Ready(p, Raised(p, i, b))
  /\ \/ b[p].special \/ i < b[p].active_irq
     \/ (p = "master" /\ IgnoreCascade /\ i = Cascade)

\* lower_irq: the registers after it, and whether it calls check_for_irq.
Withdrawn(p, i, b) == [b EXCEPT ![p].irr = @ \ {i}, ![p].input = @ \ {i}]

LooksAgain(p, i, b) ==
  i \in Ready(p, b) /\ (b[p].special \/ i < b[p].active_irq)

\* activate of the master: one delayed check at a time.
ActivateMaster(b) == [b EXCEPT !.pending = TRUE]

\* check_for_irq of the master.  Its deactivate deliberately does nothing.
CheckMaster(b) == IF Deliverable("master", b) # {} THEN ActivateMaster(b) ELSE b

RaiseMaster(i, b) ==
  LET r == Raised("master", i, b)
  IN  IF Signals("master", i, b) THEN ActivateMaster(r) ELSE r

LowerMaster(i, b) ==
  LET r == Withdrawn("master", i, b)
  IN  IF LooksAgain("master", i, b) THEN CheckMaster(r) ELSE r

\* Faulty: a cascade in service is thought to need no request.
ActivateSlaveIdle(b) ==
  IF Cascade \in b.master.isr THEN b ELSE RaiseMaster(Cascade, b)

\* activate and deactivate of the slave drive the cascade line.
ActivateSlave(b) == RaiseMaster(Cascade, b)

DeactivateSlave(b) ==
  IF b.slave.irr \ b.slave.imr = {} THEN LowerMaster(Cascade, b) ELSE b

\* check_for_irq of the slave.
CheckSlave(b) ==
  IF Deliverable("slave", b) # {} THEN ActivateSlave(b) ELSE DeactivateSlave(b)

RaiseSlave(i, b) ==
  LET r == Raised("slave", i, b)
  IN  IF Signals("slave", i, b) THEN ActivateSlave(r) ELSE r

LowerSlave(i, b) ==
  LET r == Withdrawn("slave", i, b)
  IN  IF LooksAgain("slave", i, b) THEN CheckSlave(r) ELSE r

Check(p, b) == IF p = "master" THEN CheckMaster(b) ELSE CheckSlave(b)

Raise(p, i, b) == IF p = "master" THEN RaiseMaster(i, b) ELSE RaiseSlave(i, b)

Lower(p, i, b) == IF p = "master" THEN LowerMaster(i, b) ELSE LowerSlave(i, b)

\* Faulty: unmasking does not look for requests that came before.
SetImrBlind(p, mask, b) == [b EXCEPT ![p].imr = mask]

\* set_imr looks again only if a request that is not in service changed.
SetImr(p, mask, b) ==
  LET r == [b EXCEPT ![p].imr = mask]
      changed == (b[p].imr \ mask) \cup (mask \ b[p].imr)
      open == [r EXCEPT ![p].imr = {}]
  IN  IF changed \cap Ready(p, open) # {} THEN Check(p, r) ELSE r

\* Faulty: the end of a service does not look for waiting requests.
AfterEoiBlind(p, b) == [b EXCEPT ![p].active_irq = Highest(b[p].isr)]

\* check_after_EOI, once isr has lost a line.
AfterEoi(p, b) ==
  LET r == [b EXCEPT ![p].active_irq = Highest(b[p].isr)]
  IN  IF Ready(p, r) # {} THEN Check(p, r) ELSE r

\* Faulty: taking one request clears the request register.
StartClearing(p, i, b) ==
  [b EXCEPT ![p].irr = {}, ![p].isr = @ \cup {i}, ![p].active_irq = i]

\* start_irq: the request becomes the service, unless EOI is automatic.
Start(p, i, b) ==
  LET r == [b EXCEPT ![p].irr = @ \ {i}]
  IN  IF b[p].auto_eoi \/ (p = "master" /\ i = Cascade /\ NeverMarkCascade) THEN r
      ELSE [r EXCEPT ![p].isr = @ \cup {i}, ![p].active_irq = i]

-----------------------------------------------------------------------------
(* Devices: PIC_ActivateIRQ and PIC_DeActivateIRQ.                         *)

ActivateIRQ(d) ==
  /\ raises < MaxRaises /\ raises' = raises + 1
  /\ board' = Raise(d[1], d[2], board)
  /\ owed' = IF d \in Edge /\ d[2] \in board[d[1]].input THEN owed
             ELSE owed \cup {d}
  /\ UNCHANGED <<IRQCheck, iflag>>

DeActivateIRQ(d) ==
  /\ board' = Lower(d[1], d[2], board)
  /\ owed' = owed \ {d}
  /\ UNCHANGED <<IRQCheck, iflag, raises>>

-----------------------------------------------------------------------------
(* The guest: write_command and write_data.                                *)

Guest == UNCHANGED <<IRQCheck, iflag, owed, raises>>

\* OCW1, the mask register, unless an initialisation is under way.
WriteMask(p) ==
  /\ board[p].icw_index = 0
  /\ \E mask \in Masks[p] : board' = SetImr(p, mask, board)
  /\ Guest

\* OCW2: nonspecific EOI ends what is active, a specific one any service.
Eoi(p) ==
  /\ board[p].active_irq # 8
  /\ board' = AfterEoi(p, [board EXCEPT ![p].isr = @ \ {board[p].active_irq}])
  /\ Guest

SpecificEoi(p) ==
  /\ \E i \in Lines[p] \cup {Cascade} :
        board' = AfterEoi(p, [board EXCEPT ![p].isr = @ \ {i}])
  /\ Guest

\* OCW3: special mask mode on or off.
SetSpecial(p) ==
  /\ p \in Specials
  /\ \E on \in BOOLEAN :
        board' = Check(p, [board EXCEPT ![p].special = on])
  /\ Guest

\* ICW1 unmasks every line and starts an initialisation; isr stays.
WriteIcw1(p) ==
  /\ \E w \in Icw1[p] :
        board' = [SetImr(p, {}, board) EXCEPT
                    ![p].single = w.single, ![p].icw_index = 1,
                    ![p].icw_words = IF w.icw4 THEN 3 ELSE 2]
  /\ Guest

\* Faulty: the last word of an initialisation does not end it.
IcwAfterUnended(c) == IF c.icw_index = 1 /\ c.single THEN 3 ELSE c.icw_index + 1

\* The word expected next: ICW2, ICW3 unless single, ICW4 if announced.
IcwAfter(c) ==
  IF c.icw_index >= c.icw_words THEN 0
  ELSE IF c.icw_index = 1 /\ c.single THEN 3 ELSE c.icw_index + 1

\* The data writes of an initialisation; ICW4 sets automatic EOI.
WriteIcw(p) ==
  /\ board[p].icw_index > 0
  /\ \E auto \in (IF board[p].icw_index = 3 THEN BOOLEAN ELSE {board[p].auto_eoi}) :
        board' = [board EXCEPT ![p].icw_index = IcwAfter(board[p]),
                               ![p].auto_eoi = auto]
  /\ Guest

SetIF ==
  /\ iflag' = ~iflag
  /\ UNCHANGED <<board, IRQCheck, owed, raises>>

-----------------------------------------------------------------------------
(* The emulator.                                                           *)

\* The event PIC_IRQCheckDelayed, PIC_irq_delay_ns after activate.
IRQCheckDelayed ==
  /\ board.pending
  /\ IRQCheck' = TRUE /\ board' = [board EXCEPT !.pending = FALSE]
  /\ UNCHANGED <<iflag, owed, raises>>

\* slave_startIRQ: the result, and the device line given to the CPU if any.
StartSlave(b, csEqDs) ==
  LET hacked == {i \in Bits : <<"slave", i>> \in HackLines /\ ~csEqDs}
      open == Deliverable("slave", b)
      i == Min(open \ hacked)
  IN  IF open \ hacked # {}
      THEN [b |-> Start("master", Cascade, Start("slave", i, b)),
            taken |-> {<<"slave", i>>}]
      ELSE [b |-> IF open = {} THEN Lower("slave", Cascade, b) ELSE b, taken |-> {}]

\* The check for more that follows if a controller acknowledges by itself.
AutoEoiCheck(b) ==
  LET s == IF b.slave.auto_eoi THEN CheckSlave(b) ELSE b
  IN  IF s.master.auto_eoi THEN CheckMaster(s) ELSE s

\* PIC_runIRQs with interrupts enabled, called by PIC_RunQueue.
RunIRQs(csEqDs) ==
  /\ IRQCheck /\ iflag
  /\ LET hacked == {i \in Bits : <<"master", i>> \in HackLines /\ ~csEqDs}
         open == Deliverable("master", board) \ hacked
         i == Min(open)
         r == IF open = {} THEN [b |-> board, taken |-> {}]
              ELSE IF i = Cascade THEN StartSlave(board, csEqDs)
              ELSE [b |-> Start("master", i, board), taken |-> {<<"master", i>>}]
         after == AutoEoiCheck(r.b)
     IN  /\ board' = IF open = {} THEN after ELSE ActivateMaster(after)
         /\ owed' = owed \ r.taken
         /\ iflag' = (r.taken = {})
  /\ IRQCheck' = FALSE
  /\ UNCHANGED raises

-----------------------------------------------------------------------------
Next ==
  \/ \E d \in Devices : ActivateIRQ(d) \/ DeActivateIRQ(d)
  \/ \E p \in Pics : \/ WriteMask(p) \/ Eoi(p) \/ SpecificEoi(p)
                     \/ SetSpecial(p) \/ WriteIcw1(p) \/ WriteIcw(p)
  \/ SetIF
  \/ IRQCheckDelayed
  \/ \E csEqDs \in BOOLEAN : RunIRQs(csEqDs)

Spec == Init /\ [][Next]_vars

\* The emulator runs; the guest acknowledges, enables interrupts again and
\* again, and finishes an initialisation it has begun.
Fairness ==
  /\ WF_vars(IRQCheckDelayed) /\ SF_vars(RunIRQs(TRUE))
  /\ WF_vars(SetIF /\ iflag')
  /\ \A p \in Pics : SF_vars(Eoi(p)) /\ WF_vars(WriteIcw(p))

FairSpec == Spec /\ Fairness
=============================================================================
