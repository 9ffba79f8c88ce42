--------------------- MODULE InterruptControllerProofs ---------------------
(***************************************************************************)
(* Proofs about the interrupt controllers of pic.cpp, for every set of     *)
(* lines, every choice of edge lines and cascade options and any number of *)
(* requests.  A change of the board is described by Step, which composes   *)
(* and which every action of a device or of the guest is; what PIC_runIRQs *)
(* does is described by RunStep.  The theorems are at the end.             *)
(***************************************************************************)
EXTENDS InterruptControllerProps, TLAPS

-----------------------------------------------------------------------------
(* Priorities.                                                             *)

\* A set of lines has a least one.
LEMMA MinFacts ==
  ASSUME NEW S, S \subseteq 0..8, S # {}
  PROVE  Min(S) \in S /\ \A y \in S : Min(S) <= y
<1>1. \E x \in S : \A y \in S : x <= y
  <2> SUFFICES ASSUME \A x \in S : \E y \in S : y < x PROVE FALSE
    OBVIOUS
  <2>0. 0 \notin S OBVIOUS
  <2>1. 1 \notin S BY <2>0
  <2>2. 2 \notin S BY <2>0, <2>1
  <2>3. 3 \notin S BY <2>0, <2>1, <2>2
  <2>4. 4 \notin S BY <2>0, <2>1, <2>2, <2>3
  <2>5. 5 \notin S BY <2>0, <2>1, <2>2, <2>3, <2>4
  <2>6. 6 \notin S BY <2>0, <2>1, <2>2, <2>3, <2>4, <2>5
  <2>7. 7 \notin S BY <2>0, <2>1, <2>2, <2>3, <2>4, <2>5, <2>6
  <2>8. 8 \notin S BY <2>0, <2>1, <2>2, <2>3, <2>4, <2>5, <2>6, <2>7
  <2>9. PICK x \in S : TRUE
    OBVIOUS
  <2>10. x \in 0..8
    OBVIOUS
  <2> QED BY <2>0, <2>1, <2>2, <2>3, <2>4, <2>5, <2>6, <2>7, <2>8, <2>10
<1> QED
  BY <1>1 DEF Min

\* The highest line in service is the least number in isr, or 8.
LEMMA HighestFacts ==
  ASSUME NEW isr \in SUBSET Bits
  PROVE  /\ Highest(isr) \in isr \cup {8} /\ Highest(isr) \in 0..8
         /\ \A y \in isr : Highest(isr) <= y
<1>1. isr \cup {8} \subseteq 0..8 /\ isr \cup {8} # {}
  BY DEF Bits
<1> QED
  BY <1>1, MinFacts DEF Highest

-----------------------------------------------------------------------------
(* Steps of the devices and of the guest.                                  *)

\* What raising and lowering lines leaves alone.
Kept(c, d) ==
  /\ d.imr = c.imr /\ d.isr = c.isr /\ d.active_irq = c.active_irq
  /\ d.special = c.special /\ d.auto_eoi = c.auto_eoi /\ d.single = c.single
  /\ d.icw_index = c.icw_index /\ d.icw_words = c.icw_words

\* check_for_irq of the master changes nothing but the pending check.
LEMMA CheckMasterFacts ==
  ASSUME NEW b \in Board
  PROVE  LET r == CheckMaster(b)
         IN  /\ r \in Board /\ r.master = b.master /\ r.slave = b.slave
             /\ b.pending => r.pending
             /\ Deliverable("master", b) # {} => r.pending
  BY DEF CheckMaster, ActivateMaster, Board

\* A raised line is in the request register unless an edge was filtered.
LEMMA RaisedFacts ==
  ASSUME NEW b \in Board, NEW p \in Pics, NEW i \in Bits
  PROVE  LET r == Raised(p, i, b)
         IN  /\ r \in Board /\ r.pending = b.pending
             /\ \A q \in Pics \ {p} : r[q] = b[q]
             /\ ~Filtered(p, i, b) => r[p].irr = b[p].irr \cup {i}
             /\ Filtered(p, i, b) => r = b
             /\ Kept(b[p], r[p])
<1>1. CASE p = "master"
  BY <1>1 DEF Raised, Filtered, Board, Controller, Pics, Kept
<1>2. CASE p = "slave"
  BY <1>2 DEF Raised, Filtered, Board, Controller, Pics, Kept
<1> QED
  BY <1>1, <1>2 DEF Pics

\* A lowered line is not in the request register.
LEMMA WithdrawnFacts ==
  ASSUME NEW b \in Board, NEW p \in Pics, NEW i \in Bits
  PROVE  LET r == Withdrawn(p, i, b)
         IN  /\ r \in Board /\ r.pending = b.pending
             /\ \A q \in Pics \ {p} : r[q] = b[q]
             /\ r[p].irr = b[p].irr \ {i}
             /\ Kept(b[p], r[p])
<1>1. CASE p = "master"
  BY <1>1 DEF Withdrawn, Board, Controller, Pics, Kept
<1>2. CASE p = "slave"
  BY <1>2 DEF Withdrawn, Board, Controller, Pics, Kept
<1> QED
  BY <1>1, <1>2 DEF Pics

\* What a controller may deliver is a matter of its own registers.
LEMMA DeliverableDepends ==
  ASSUME NEW p \in Pics, NEW b, NEW r, r[p] = b[p]
  PROVE  Deliverable(p, r) = Deliverable(p, b) /\ Ready(p, r) = Ready(p, b)
  BY DEF Deliverable, Ready, Limit

\* A master with something to deliver has a check due.
Awake(b) == Deliverable("master", b) # {} => b.pending

\* Raising a line of the master makes nothing deliverable without a check.
LEMMA RaiseMasterFacts ==
  ASSUME NEW b \in Board, NEW i \in Bits
  PROVE  LET r == RaiseMaster(i, b)
         IN  /\ r \in Board /\ r.slave = b.slave
             /\ b.pending => r.pending
             /\ ~Filtered("master", i, b) => r.master.irr = b.master.irr \cup {i}
             /\ Filtered("master", i, b) => r = b
             /\ Kept(b.master, r.master)
             /\ Deliverable("master", r) \subseteq Deliverable("master", b) \/ r.pending
<1> DEFINE m == Raised("master", i, b)
           r == RaiseMaster(i, b)
<1>1. /\ m \in Board /\ m.pending = b.pending /\ m.slave = b.slave
      /\ ~Filtered("master", i, b) => m.master.irr = b.master.irr \cup {i}
      /\ Filtered("master", i, b) => m = b
      /\ Kept(b.master, m.master)
  BY RaisedFacts DEF Pics
<1>2. CASE Signals("master", i, b)
  <2>1. r = [m EXCEPT !.pending = TRUE]
    BY <1>2 DEF RaiseMaster, ActivateMaster
  <2> QED
    BY <1>1, <1>2, <2>1 DEF Board, Signals, Kept
<1>3. CASE ~Signals("master", i, b)
  <2>1. r = m
    BY <1>3 DEF RaiseMaster
  <2>2. ASSUME NEW j \in Deliverable("master", m)
        PROVE  j \in Deliverable("master", b)
    BY <1>1, <1>3, <2>2, ControllerAssumption
       DEF Deliverable, Ready, Limit, Signals, Kept, Board, Controller, Bits
  <2> QED
    BY <1>1, <2>1, <2>2
<1> QED
  BY <1>2, <1>3

\* What a change of one controller does to the rest of the board.
Told(b, r) ==
  /\ r \in Board /\ r.slave = b.slave /\ Kept(b.master, r.master)
  /\ r.master.irr \ {Cascade} = b.master.irr \ {Cascade}
  /\ b.pending => r.pending
  /\ Deliverable("master", r) \subseteq Deliverable("master", b) \/ r.pending

\* Lowering one makes nothing deliverable.
LEMMA LowerMasterFacts ==
  ASSUME NEW b \in Board, NEW i \in Bits
  PROVE  LET r == LowerMaster(i, b)
         IN  /\ r \in Board /\ r.slave = b.slave
             /\ b.pending => r.pending
             /\ r.master.irr = b.master.irr \ {i}
             /\ Kept(b.master, r.master)
             /\ Deliverable("master", r) \subseteq Deliverable("master", b)
<1> DEFINE m == Withdrawn("master", i, b)
           r == LowerMaster(i, b)
<1>1. /\ m \in Board /\ m.pending = b.pending /\ m.slave = b.slave
      /\ m.master.irr = b.master.irr \ {i}
      /\ Kept(b.master, m.master)
  BY WithdrawnFacts DEF Pics
<1>2. /\ r \in Board /\ r.slave = m.slave /\ r.master = m.master
      /\ m.pending => r.pending
  BY <1>1, CheckMasterFacts DEF LowerMaster
<1>3. ASSUME NEW j \in Deliverable("master", r)
      PROVE  j \in Deliverable("master", b)
  BY <1>1, <1>2, <1>3 DEF Deliverable, Ready, Limit, Kept
<1> QED
  BY <1>1, <1>2, <1>3

\* No device is on the cascade line.
LEMMA CascadeIsNoDevice ==
  /\ Cascade \in Bits /\ <<"master", Cascade>> \notin Edge
  /\ \A d \in Devices : /\ d[1] \in Pics /\ d[2] \in Bits /\ d[2] \in Lines[d[1]]
                        /\ d = <<d[1], d[2]>> /\ d # <<"master", Cascade>>
BY ControllerAssumption DEF Devices, Pics

\* activate of the slave raises the cascade line, and nothing else.
LEMMA ActivateSlaveFacts ==
  ASSUME NEW b \in Board
  PROVE  Told(b, ActivateSlave(b)) /\ Cascade \in ActivateSlave(b).master.irr
BY RaiseMasterFacts, CascadeIsNoDevice DEF ActivateSlave, Filtered, Told

\* check_for_irq of the slave raises it if the slave has something to deliver.
LEMMA CheckSlaveFacts ==
  ASSUME NEW b \in Board
  PROVE  LET r == CheckSlave(b)
         IN  /\ Told(b, r)
             /\ Deliverable("slave", b) # {} => Cascade \in r.master.irr
<1>1. Told(b, b)
  BY DEF Told, Kept
<1>2. Told(b, LowerMaster(Cascade, b))
  BY LowerMasterFacts, CascadeIsNoDevice DEF Told
<1> QED
  BY <1>1, <1>2, ActivateSlaveFacts DEF CheckSlave, DeactivateSlave

\* check_for_irq of either controller.
LEMMA CheckFacts ==
  ASSUME NEW b \in Board, NEW p \in Pics
  PROVE  LET r == Check(p, b)
         IN  /\ Told(b, r)
             /\ p = "master" =>
                  /\ r.master = b.master
                  /\ Deliverable("master", b) # {} => r.pending
             /\ p = "slave" =>
                  (Deliverable("slave", b) # {} => Cascade \in r.master.irr)
<1>1. CASE p = "master"
  BY <1>1, CheckMasterFacts, DeliverableDepends DEF Check, Told, Kept, Pics
<1>2. CASE p = "slave"
  BY <1>2, CheckSlaveFacts DEF Check
<1> QED
  BY <1>1, <1>2 DEF Pics

\* active_irq against isr, as TypeOK has it.
Active(p, c) ==
  IF p \in Specials THEN c.active_irq \in c.isr \cup {8}
                    ELSE c.active_irq = Highest(c.isr)

\* SlaveIsHeard of a board.
Heard(b) ==
  Deliverable("slave", b) # {} => Cascade \in b.master.irr \/ b.slave.special

\* What every step of a device or of the guest does to the board.
Step(b, r) ==
  /\ r \in Board
  /\ \A p \in Pics : /\ Active(p, b[p]) => Active(p, r[p])
                     /\ r[p].special => b[p].special \/ p \in Specials
  /\ r.slave.irr \subseteq b.slave.irr \cup Lines["slave"]
  /\ b.pending => r.pending
  /\ Deliverable("master", r) \subseteq Deliverable("master", b) \/ r.pending
  /\ Heard(b) => Heard(r)

\* What devices ask for, as the request registers have it.
Requests(b) == {d \in Devices : d[2] \in b[d[1]].irr}

\* Driving the cascade line is no request of a device.
LEMMA ToldRequests ==
  ASSUME NEW b \in Board, NEW r, Told(b, r)
  PROVE  Requests(r) = Requests(b)
BY CascadeIsNoDevice DEF Requests, Told, Pics, Board

\* PIC_ActivateIRQ is a step, and adds the one request it makes.
LEMMA RaiseStep ==
  ASSUME NEW b \in Board, NEW d \in Devices
  PROVE  LET r == Raise(d[1], d[2], b)
         IN  /\ Step(b, r)
             /\ Requests(r) = IF Filtered(d[1], d[2], b) THEN Requests(b)
                              ELSE Requests(b) \cup {d}
<1> DEFINE p == d[1]
           i == d[2]
           r == Raise(p, i, b)
<1>0. p \in Pics /\ i \in Bits /\ i \in Lines[p] /\ d = <<p, i>>
  BY CascadeIsNoDevice
<1>1. CASE p = "master"
  <2>1. /\ r \in Board /\ r.slave = b.slave
        /\ b.pending => r.pending
        /\ ~Filtered(p, i, b) => r.master.irr = b.master.irr \cup {i}
        /\ Filtered(p, i, b) => r = b
        /\ Kept(b.master, r.master)
        /\ Deliverable("master", r) \subseteq Deliverable("master", b) \/ r.pending
    BY <1>0, <1>1, RaiseMasterFacts DEF Raise
  <2>2. b.master.irr \subseteq r.master.irr
    BY <2>1
  <2>3. Deliverable("slave", r) = Deliverable("slave", b)
    BY <2>1, DeliverableDepends DEF Pics
  <2>4. Step(b, r)
    BY <2>1, <2>2, <2>3 DEF Step, Active, Kept, Heard, Pics
  <2>5. Requests(r) = IF Filtered(p, i, b) THEN Requests(b) ELSE Requests(b) \cup {d}
    BY <1>0, <1>1, <2>1, CascadeIsNoDevice DEF Requests, Pics
  <2> QED
    BY <2>4, <2>5
<1>2. CASE p = "slave"
  <2> DEFINE m == Raised("slave", i, b)
  <2>1. /\ m \in Board /\ m.pending = b.pending /\ m.master = b.master
        /\ ~Filtered("slave", i, b) => m.slave.irr = b.slave.irr \cup {i}
        /\ Filtered("slave", i, b) => m = b
        /\ Kept(b.slave, m.slave)
    BY <1>0, RaisedFacts DEF Pics
  <2>2. r = IF Signals("slave", i, b) THEN ActivateSlave(m) ELSE m
    BY <1>2 DEF Raise, RaiseSlave
  <2>3. Told(m, r) /\ (Signals("slave", i, b) => Cascade \in r.master.irr)
    BY <2>1, <2>2, ActivateSlaveFacts DEF Told, Kept
  <2>4. Heard(b) => Heard(r)
    <3>1. CASE Signals("slave", i, b)
      BY <3>1, <2>3 DEF Heard
    <3>2. CASE ~Signals("slave", i, b)
      <4>1. r = m
        BY <3>2, <2>2
      <4>2. Deliverable("slave", m) \subseteq Deliverable("slave", b)
        BY <2>1, <3>2, <1>0 DEF Deliverable, Ready, Limit, Signals, Kept, Board, Controller, Bits
      <4> QED
        BY <4>1, <4>2, <2>1 DEF Heard, Kept
    <3> QED
      BY <3>1, <3>2
  <2>5. Deliverable("master", m) = Deliverable("master", b)
    BY <2>1, DeliverableDepends DEF Pics
  <2>6. Step(b, r)
    BY <1>0, <1>2, <2>1, <2>3, <2>4, <2>5 DEF Step, Told, Kept, Active, Pics
  <2>7. Requests(r) = Requests(m)
    BY <2>1, <2>3, ToldRequests
  <2>8. Requests(m) = IF Filtered(p, i, b) THEN Requests(b) ELSE Requests(b) \cup {d}
    BY <1>0, <1>2, <2>1, CascadeIsNoDevice DEF Requests, Pics
  <2> QED
    BY <2>6, <2>7, <2>8
<1> QED
  BY <1>0, <1>1, <1>2 DEF Pics

\* PIC_DeActivateIRQ, and the lowering in slave_startIRQ, are steps.
LEMMA LowerStep ==
  ASSUME NEW b \in Board, NEW p \in Pics, NEW i \in Bits,
         p = "master" => i # Cascade
  PROVE  LET r == Lower(p, i, b)
         IN  Step(b, r) /\ Requests(r) = Requests(b) \ {<<p, i>>}
<1> DEFINE r == Lower(p, i, b)
<1>1. CASE p = "master"
  <2>1. /\ r \in Board /\ r.slave = b.slave
        /\ b.pending => r.pending
        /\ r.master.irr = b.master.irr \ {i} /\ Kept(b.master, r.master)
        /\ Deliverable("master", r) \subseteq Deliverable("master", b)
    BY <1>1, LowerMasterFacts DEF Lower
  <2>2. Deliverable("slave", r) = Deliverable("slave", b)
    BY <2>1, DeliverableDepends DEF Pics
  <2>3. Step(b, r)
    BY <1>1, <2>1, <2>2 DEF Step, Active, Kept, Heard, Pics
  <2>4. Requests(r) = Requests(b) \ {<<p, i>>}
    BY <1>1, <2>1, CascadeIsNoDevice DEF Requests, Pics
  <2> QED
    BY <2>3, <2>4
<1>2. CASE p = "slave"
  <2> DEFINE m == Withdrawn("slave", i, b)
  <2>1. /\ m \in Board /\ m.pending = b.pending /\ m.master = b.master
        /\ m.slave.irr = b.slave.irr \ {i} /\ Kept(b.slave, m.slave)
    BY WithdrawnFacts DEF Pics
  <2>2. r = IF LooksAgain("slave", i, b) THEN CheckSlave(m) ELSE m
    BY <1>2 DEF Lower, LowerSlave
  <2>3. Told(m, r)
    BY <2>1, <2>2, CheckSlaveFacts DEF Told, Kept
  <2>4. Deliverable("slave", m) \subseteq Deliverable("slave", b)
    BY <2>1 DEF Deliverable, Ready, Limit, Kept
  <2>5. Deliverable("master", m) = Deliverable("master", b)
    BY <2>1, DeliverableDepends DEF Pics
  <2>6. Heard(b) => Heard(r)
    <3>1. CASE LooksAgain("slave", i, b)
      BY <3>1, <2>1, <2>2, <2>3, CheckSlaveFacts, DeliverableDepends DEF Heard, Told, Pics
    <3>2. CASE ~LooksAgain("slave", i, b)
      BY <3>2, <2>1, <2>2, <2>4 DEF Heard, Kept
    <3> QED
      BY <3>1, <3>2
  <2>7. Step(b, r)
    BY <2>1, <2>3, <2>5, <2>6 DEF Step, Told, Kept, Active, Pics
  <2>8. Requests(r) = Requests(m)
    BY <2>1, <2>3, ToldRequests
  <2>9. Requests(m) = Requests(b) \ {<<p, i>>}
    BY <1>2, <2>1, CascadeIsNoDevice DEF Requests, Pics
  <2> QED
    BY <2>7, <2>8, <2>9
<1> QED
  BY <1>1, <1>2 DEF Pics

\* A change of the mask, mode or service registers of a controller.
Changed(p, b, m) ==
  /\ m \in Board /\ m.pending = b.pending
  /\ \A q \in Pics \ {p} : m[q] = b[q]
  /\ m[p].irr = b[p].irr
  /\ m[p].special => b[p].special \/ p \in Specials
  /\ Active(p, b[p]) => Active(p, m[p])

\* A change followed by check_for_irq is a step whatever it made deliverable.
LEMMA CheckedStep ==
  ASSUME NEW b \in Board, NEW p \in Pics, NEW m, Changed(p, b, m)
  PROVE  LET r == Check(p, m)
         IN  Step(b, r) /\ Requests(r) = Requests(b)
<1> DEFINE r == Check(p, m)
<1>1. /\ m \in Board /\ m.pending = b.pending
      /\ \A q \in Pics \ {p} : m[q] = b[q]
      /\ m[p].irr = b[p].irr
  BY DEF Changed
<1>2. Told(m, r)
  BY <1>1, CheckFacts
<1>3. Requests(r) = Requests(b)
  BY <1>1, <1>2, ToldRequests, CascadeIsNoDevice DEF Requests, Pics
<1>4. Deliverable("master", r) \subseteq Deliverable("master", b) \/ r.pending
  <2>1. CASE p = "master"
    BY <2>1, <1>1, <1>2, CheckFacts, DeliverableDepends DEF Told, Pics
  <2>2. CASE p = "slave"
    BY <2>2, <1>1, <1>2, DeliverableDepends DEF Told, Pics
  <2> QED
    BY <2>1, <2>2 DEF Pics
<1>5. Heard(b) => Heard(r)
  <2>1. CASE p = "master"
    <3>1. r.master = m.master /\ r.slave = b.slave
      BY <2>1, <1>1, <1>2, CheckFacts DEF Told, Pics
    <3>2. Deliverable("slave", r) = Deliverable("slave", b)
      BY <3>1, DeliverableDepends DEF Pics
    <3> QED
      BY <2>1, <3>1, <3>2, <1>1 DEF Heard
  <2>2. CASE p = "slave"
    BY <2>2, <1>1, <1>2, CheckFacts, DeliverableDepends DEF Told, Heard, Pics
  <2> QED
    BY <2>1, <2>2 DEF Pics
<1>6. \A q \in Pics : /\ Active(q, b[q]) => Active(q, r[q])
                      /\ r[q].special => b[q].special \/ q \in Specials
  BY <1>1, <1>2 DEF Changed, Told, Kept, Active, Pics
<1>7. r.slave.irr = b.slave.irr
  BY <1>1, <1>2 DEF Told, Pics
<1> QED
  BY <1>1, <1>2, <1>3, <1>4, <1>5, <1>6, <1>7 DEF Step, Told

\* ... need not be followed by a check if it makes nothing deliverable.
LEMMA UncheckedStep ==
  ASSUME NEW b \in Board, NEW p \in Pics, NEW m, Changed(p, b, m),
         Deliverable(p, m) \subseteq Deliverable(p, b),
         m[p].special = b[p].special \/ Deliverable(p, m) = {}
  PROVE  Step(b, m) /\ Requests(m) = Requests(b)
<1>1. CASE p = "master"
  <2>1. Deliverable("slave", m) = Deliverable("slave", b)
    BY <1>1, DeliverableDepends DEF Changed, Pics
  <2>2. Step(b, m)
    BY <1>1, <2>1 DEF Changed, Step, Heard, Pics
  <2>3. Requests(m) = Requests(b)
    BY <1>1, CascadeIsNoDevice DEF Changed, Requests, Pics
  <2> QED
    BY <2>2, <2>3
<1>2. CASE p = "slave"
  <2>1. Deliverable("master", m) = Deliverable("master", b)
    BY <1>2, DeliverableDepends DEF Changed, Pics
  <2>2. Step(b, m)
    BY <1>2, <2>1 DEF Changed, Step, Heard, Pics
  <2>3. Requests(m) = Requests(b)
    BY <1>2, CascadeIsNoDevice DEF Changed, Requests, Pics
  <2> QED
    BY <2>2, <2>3
<1> QED
  BY <1>1, <1>2 DEF Pics

\* set_imr looks again exactly when it has to.
LEMMA SetImrStep ==
  ASSUME NEW b \in Board, NEW p \in Pics, NEW mask \in SUBSET Bits
  PROVE  LET r == SetImr(p, mask, b)
         IN  Step(b, r) /\ Requests(r) = Requests(b)
<1> DEFINE m == [b EXCEPT ![p].imr = mask]
           changed == (b[p].imr \ mask) \cup (mask \ b[p].imr)
           open == [m EXCEPT ![p].imr = {}]
<1>1. /\ m \in Board /\ m.pending = b.pending
      /\ \A q \in Pics \ {p} : m[q] = b[q]
      /\ m[p] = [b[p] EXCEPT !.imr = mask]
      /\ open[p] = [b[p] EXCEPT !.imr = {}]
  <2>1. CASE p = "master"
    BY <2>1 DEF Board, Controller, Pics
  <2>2. CASE p = "slave"
    BY <2>2 DEF Board, Controller, Pics
  <2> QED
    BY <2>1, <2>2 DEF Pics
<1>2. b[p] \in Controller
  BY DEF Board, Pics
<1>3. Changed(p, b, m)
  BY <1>1, <1>2 DEF Changed, Controller, Active
<1>4. CASE changed \cap Ready(p, open) # {}
  BY <1>3, <1>4, CheckedStep DEF SetImr
<1>5. CASE changed \cap Ready(p, open) = {}
  <2>1. SetImr(p, mask, b) = m
    BY <1>5 DEF SetImr
  <2>2. ASSUME NEW j \in Deliverable(p, m)
        PROVE  j \in Deliverable(p, b)
    BY <1>1, <1>2, <1>5, <2>2 DEF Deliverable, Ready, Limit, Controller
  <2>3. m[p].special = b[p].special
    BY <1>1, <1>2 DEF Controller
  <2> QED
    BY <1>3, <2>1, <2>2, <2>3, UncheckedStep
<1> QED
  BY <1>4, <1>5

\* So does check_after_EOI, and it restores active_irq.
LEMMA AfterEoiStep ==
  ASSUME NEW b \in Board, NEW p \in Pics, NEW i \in Bits
  PROVE  LET r == AfterEoi(p, [b EXCEPT ![p].isr = @ \ {i}])
         IN  Step(b, r) /\ Requests(r) = Requests(b)
<1> DEFINE e == [b EXCEPT ![p].isr = @ \ {i}]
           m == [e EXCEPT ![p].active_irq = Highest(e[p].isr)]
<1>1. b[p] \in Controller
  BY DEF Board, Pics
<1>2. /\ Highest(b[p].isr \ {i}) \in 0..8
      /\ Highest(b[p].isr \ {i}) \in (b[p].isr \ {i}) \cup {8}
  BY <1>1, HighestFacts DEF Controller
<1>3. e[p] = [b[p] EXCEPT !.isr = b[p].isr \ {i}] /\ e[p].isr = b[p].isr \ {i}
  BY <1>1 DEF Board, Controller, Pics
<1>4. /\ m \in Board /\ m.pending = b.pending
      /\ \A q \in Pics \ {p} : m[q] = b[q]
      /\ m[p].irr = b[p].irr /\ m[p].special = b[p].special
      /\ m[p].isr = b[p].isr \ {i}
      /\ m[p].active_irq = Highest(m[p].isr)
  <2>1. CASE p = "master"
    BY <2>1, <1>2, <1>3 DEF Board, Controller, Pics
  <2>2. CASE p = "slave"
    BY <2>2, <1>2, <1>3 DEF Board, Controller, Pics
  <2> QED
    BY <2>1, <2>2 DEF Pics
<1>5. Changed(p, b, m)
  BY <1>2, <1>4 DEF Changed, Active
<1>6. CASE Ready(p, m) # {}
  BY <1>5, <1>6, CheckedStep DEF AfterEoi
<1>7. CASE Ready(p, m) = {}
  <2>1. AfterEoi(p, e) = m
    BY <1>7 DEF AfterEoi
  <2>2. Deliverable(p, m) = {}
    BY <1>7 DEF Deliverable
  <2> QED
    BY <1>5, <2>1, <2>2, UncheckedStep
<1> QED
  BY <1>6, <1>7

\* OCW3 is always followed by a check.
LEMMA SetSpecialStep ==
  ASSUME NEW b \in Board, NEW p \in Specials, NEW on \in BOOLEAN
  PROVE  LET r == Check(p, [b EXCEPT ![p].special = on])
         IN  Step(b, r) /\ Requests(r) = Requests(b)
<1> DEFINE m == [b EXCEPT ![p].special = on]
<1>1. p \in Pics
  BY ControllerAssumption
<1>2. Changed(p, b, m)
  <2>1. CASE p = "master"
    BY <1>1, <2>1 DEF Changed, Active, Board, Controller, Pics
  <2>2. CASE p = "slave"
    BY <1>1, <2>2 DEF Changed, Active, Board, Controller, Pics
  <2> QED
    BY <1>1, <2>1, <2>2 DEF Pics
<1> QED
  BY <1>1, <1>2, CheckedStep

\* What an initialisation writes does not bear on requests and services.
LEMMA InitialisationStep ==
  ASSUME NEW b \in Board, NEW p \in Pics, NEW m \in Board,
         m.pending = b.pending, \A q \in Pics \ {p} : m[q] = b[q],
         m[p].irr = b[p].irr, m[p].imr = b[p].imr, m[p].isr = b[p].isr,
         m[p].special = b[p].special, m[p].active_irq = b[p].active_irq
  PROVE  Step(b, m) /\ Requests(m) = Requests(b)
<1>1. Changed(p, b, m)
  BY DEF Changed, Active
<1>2. Deliverable(p, m) = Deliverable(p, b)
  BY DEF Deliverable, Ready, Limit
<1> QED
  BY <1>1, <1>2, UncheckedStep

\* Steps compose: ICW1 sets the mask and then writes registers.
LEMMA StepTransitive ==
  ASSUME NEW b, NEW m, NEW r, Step(b, m), Step(m, r)
  PROVE  Step(b, r)
<1>1. Deliverable("master", r) \subseteq Deliverable("master", b) \/ r.pending
  BY DEF Step
<1> QED
  BY <1>1 DEF Step

\* Every action of the devices and the guest is such a step.
LEMMA BoardSteps ==
  ASSUME TypeOK,
         \/ \E d \in Devices : ActivateIRQ(d) \/ DeActivateIRQ(d)
         \/ \E p \in Pics : \/ WriteMask(p) \/ Eoi(p) \/ SpecificEoi(p)
                            \/ SetSpecial(p) \/ WriteIcw1(p) \/ WriteIcw(p)
  PROVE  /\ Step(board, board')
         /\ UNCHANGED <<IRQCheck, iflag>>
         /\ owed = Requests(board) => owed' = Requests(board')
<1>0. board \in Board /\ \A p \in Pics : board[p] \in Controller
  BY DEF TypeOK, Board, Pics
<1>1. ASSUME NEW d \in Devices, ActivateIRQ(d)
      PROVE  /\ Step(board, board') /\ UNCHANGED <<IRQCheck, iflag>>
             /\ owed = Requests(board) => owed' = Requests(board')
  <2>1. Filtered(d[1], d[2], board) <=> d \in Edge /\ d[2] \in board[d[1]].input
    BY CascadeIsNoDevice DEF Filtered
  <2> QED
    BY <1>0, <1>1, <2>1, RaiseStep DEF ActivateIRQ
<1>2. ASSUME NEW d \in Devices, DeActivateIRQ(d)
      PROVE  /\ Step(board, board') /\ UNCHANGED <<IRQCheck, iflag>>
             /\ owed = Requests(board) => owed' = Requests(board')
  <2>1. /\ d[1] \in Pics /\ d[2] \in Bits /\ d = <<d[1], d[2]>>
        /\ d[1] = "master" => d[2] # Cascade
    BY CascadeIsNoDevice
  <2>2. Step(board, board') /\ Requests(board') = Requests(board) \ {d}
    BY <1>0, <1>2, <2>1, LowerStep DEF DeActivateIRQ
  <2> QED
    BY <1>2, <2>2 DEF DeActivateIRQ
<1>3. ASSUME NEW p \in Pics, WriteMask(p)
      PROVE  Step(board, board') /\ Requests(board') = Requests(board) /\ Guest
  BY <1>0, <1>3, SetImrStep, ControllerAssumption DEF WriteMask
<1>4. ASSUME NEW p \in Pics, Eoi(p)
      PROVE  Step(board, board') /\ Requests(board') = Requests(board) /\ Guest
  <2>1. board[p].active_irq \in Bits
    BY <1>0, <1>4 DEF Eoi, Controller, Bits
  <2> QED
    BY <1>0, <1>4, <2>1, AfterEoiStep DEF Eoi
<1>5. ASSUME NEW p \in Pics, SpecificEoi(p)
      PROVE  Step(board, board') /\ Requests(board') = Requests(board) /\ Guest
  <2>1. PICK i \in Lines[p] \cup {Cascade} :
           board' = AfterEoi(p, [board EXCEPT ![p].isr = @ \ {i}])
    BY <1>5 DEF SpecificEoi
  <2>2. i \in Bits
    BY ControllerAssumption
  <2>3. Step(board, board') /\ Requests(board') = Requests(board)
    BY <1>0, <2>1, <2>2, AfterEoiStep
  <2> QED
    BY <1>5, <2>3 DEF SpecificEoi
<1>6. ASSUME NEW p \in Pics, SetSpecial(p)
      PROVE  Step(board, board') /\ Requests(board') = Requests(board) /\ Guest
  <2>1. PICK on \in BOOLEAN : board' = Check(p, [board EXCEPT ![p].special = on])
    BY <1>6 DEF SetSpecial
  <2>2. p \in Specials
    BY <1>6 DEF SetSpecial
  <2>3. Step(board, board') /\ Requests(board') = Requests(board)
    BY <1>0, <2>1, <2>2, SetSpecialStep
  <2> QED
    BY <1>6, <2>3 DEF SetSpecial
<1>7. ASSUME NEW p \in Pics, WriteIcw1(p)
      PROVE  Step(board, board') /\ Requests(board') = Requests(board) /\ Guest
  <2> DEFINE s == SetImr(p, {}, board)
  <2>1. Step(board, s) /\ Requests(s) = Requests(board)
    BY <1>0, SetImrStep
  <2>2. PICK w \in Icw1[p] :
           board' = [s EXCEPT ![p].single = w.single, ![p].icw_index = 1,
                              ![p].icw_words = IF w.icw4 THEN 3 ELSE 2]
    BY <1>7 DEF WriteIcw1
  <2> DEFINE words == IF w.icw4 THEN 3 ELSE 2
  <2>3. w.single \in BOOLEAN /\ words \in {2, 3}
    BY ControllerAssumption
  <2>4. s \in Board
    BY <2>1 DEF Step
  <2> HIDE DEF s, words
  <2>5. /\ board' \in Board /\ board'.pending = s.pending
        /\ \A q \in Pics \ {p} : board'[q] = s[q]
        /\ board'[p].irr = s[p].irr /\ board'[p].imr = s[p].imr
        /\ board'[p].isr = s[p].isr /\ board'[p].special = s[p].special
        /\ board'[p].active_irq = s[p].active_irq
    <3>1. CASE p = "master"
      BY <2>2, <2>3, <2>4, <3>1 DEF Board, Controller, Pics
    <3>2. CASE p = "slave"
      BY <2>2, <2>3, <2>4, <3>2 DEF Board, Controller, Pics
    <3> QED
      BY <3>1, <3>2 DEF Pics
  <2>6. Step(s, board') /\ Requests(board') = Requests(s)
    BY <2>4, <2>5, InitialisationStep
  <2> QED
    BY <1>7, <2>1, <2>6, StepTransitive DEF WriteIcw1
<1>8. ASSUME NEW p \in Pics, WriteIcw(p)
      PROVE  Step(board, board') /\ Requests(board') = Requests(board) /\ Guest
  <2>1. PICK auto \in BOOLEAN :
           board' = [board EXCEPT ![p].icw_index = IcwAfter(board[p]), ![p].auto_eoi = auto]
    BY <1>0, <1>8 DEF WriteIcw, Controller
  <2>2. IcwAfter(board[p]) \in 0..3
    BY <1>0 DEF IcwAfter, Controller
  <2>3. /\ board' \in Board /\ board'.pending = board.pending
        /\ \A q \in Pics \ {p} : board'[q] = board[q]
        /\ board'[p].irr = board[p].irr /\ board'[p].imr = board[p].imr
        /\ board'[p].isr = board[p].isr /\ board'[p].special = board[p].special
        /\ board'[p].active_irq = board[p].active_irq
    <3>1. CASE p = "master"
      BY <1>0, <2>1, <2>2, <3>1 DEF Board, Controller, Pics
    <3>2. CASE p = "slave"
      BY <1>0, <2>1, <2>2, <3>2 DEF Board, Controller, Pics
    <3> QED
      BY <3>1, <3>2 DEF Pics
  <2>4. Step(board, board') /\ Requests(board') = Requests(board)
    BY <1>0, <2>3, InitialisationStep
  <2> QED
    BY <1>8, <2>4 DEF WriteIcw
<1> QED
  BY <1>1, <1>2, <1>3, <1>4, <1>5, <1>6, <1>7, <1>8 DEF Guest

-----------------------------------------------------------------------------
(* PIC_runIRQs.                                                            *)

\* The registers agree with each other, and only devices raise slave lines.
Good(b) ==
  /\ b \in Board
  /\ \A p \in Pics : Active(p, b[p]) /\ (b[p].special => p \in Specials)
  /\ b.slave.irr \subseteq Lines["slave"]

\* A line at least as urgent as all in service becomes the highest.
LEMMA HighestUnion ==
  ASSUME NEW isr \in SUBSET Bits, NEW i \in Bits, i <= Highest(isr)
  PROVE  Highest(isr \cup {i}) = i
<1>1. /\ Highest(isr \cup {i}) \in (isr \cup {i}) \cup {8}
      /\ Highest(isr \cup {i}) \in 0..8 /\ Highest(isr \cup {i}) <= i
  BY HighestFacts
<1>2. \A y \in isr : Highest(isr) <= y
  BY HighestFacts
<1>3. Highest(isr) \in 0..8
  BY HighestFacts
<1> QED
  BY <1>1, <1>2, <1>3 DEF Bits

\* start_irq moves a deliverable request into service, or drops it.
LEMMA StartFacts ==
  ASSUME NEW b, Good(b), NEW p \in Pics, NEW i \in Deliverable(p, b)
  PROVE  LET r == Start(p, i, b)
         IN  /\ Good(r) /\ r.pending = b.pending
             /\ \A q \in Pics \ {p} : r[q] = b[q]
             /\ r[p].irr = b[p].irr \ {i} /\ i \in b[p].irr
             /\ r[p].imr = b[p].imr
             /\ r[p].special = b[p].special /\ r[p].auto_eoi = b[p].auto_eoi
             /\ p = "slave" /\ ~b[p].auto_eoi =>
                  r[p].isr = b[p].isr \cup {i} /\ r[p].active_irq = i
<1> DEFINE r == Start(p, i, b)
           acknowledged == b[p].auto_eoi \/ (p = "master" /\ i = Cascade /\ NeverMarkCascade)
<1>1. /\ b \in Board /\ b[p] \in Controller /\ Active(p, b[p])
      /\ b[p].special => p \in Specials
  BY DEF Good, Board, Pics
<1>2. i \in Bits /\ i \in b[p].irr /\ i < Limit(p, b)
  BY <1>1 DEF Deliverable, Ready, Controller
<1>3. /\ r \in Board /\ r.pending = b.pending
      /\ \A q \in Pics \ {p} : r[q] = b[q]
      /\ r[p].irr = b[p].irr \ {i} /\ r[p].imr = b[p].imr
      /\ r[p].special = b[p].special /\ r[p].auto_eoi = b[p].auto_eoi
      /\ IF acknowledged
         THEN r[p].isr = b[p].isr /\ r[p].active_irq = b[p].active_irq
         ELSE r[p].isr = b[p].isr \cup {i} /\ r[p].active_irq = i
  <2>1. CASE p = "master" /\ acknowledged
    BY <1>1, <1>2, <2>1 DEF Start, Board, Controller, Pics, Bits
  <2>2. CASE p = "master" /\ ~acknowledged
    BY <1>1, <1>2, <2>2 DEF Start, Board, Controller, Pics, Bits
  <2>3. CASE p = "slave" /\ acknowledged
    BY <1>1, <1>2, <2>3 DEF Start, Board, Controller, Pics, Bits
  <2>4. CASE p = "slave" /\ ~acknowledged
    BY <1>1, <1>2, <2>4 DEF Start, Board, Controller, Pics, Bits
  <2> QED
    BY <2>1, <2>2, <2>3, <2>4 DEF Pics
<1>4. Active(p, r[p])
  <2>1. CASE acknowledged \/ p \in Specials
    BY <1>1, <1>3, <2>1 DEF Active
  <2>2. CASE ~acknowledged /\ p \notin Specials
    <3>1. i <= b[p].active_irq /\ b[p].active_irq = Highest(b[p].isr)
      BY <1>1, <1>2, <2>2, ControllerAssumption DEF Limit, Active, Controller, Bits
    <3>2. Highest(b[p].isr \cup {i}) = i
      BY <1>1, <1>2, <3>1, HighestUnion DEF Controller
    <3> QED
      BY <1>3, <2>2, <3>2 DEF Active
  <2> QED
    BY <2>1, <2>2
<1>5. Good(r)
  BY <1>1, <1>3, <1>4 DEF Good, Pics
<1> QED
  BY <1>2, <1>3, <1>5

\* Driving the cascade line keeps the registers in agreement.
LEMMA ToldGood ==
  ASSUME NEW b, NEW r, Good(b), Told(b, r)
  PROVE  Good(r)
BY DEF Good, Told, Kept, Active, Pics

\* So does every step.
LEMMA StepGood ==
  ASSUME NEW b, NEW r, Good(b), Step(b, r)
  PROVE  Good(r)
BY DEF Good, Step

\* Lines of the slave that wait for CS = DS are less urgent than the others.
HackedLast ==
  \A i, j \in Lines["slave"] :
    <<"slave", i>> \in HackLines /\ <<"slave", j>> \notin HackLines => j < i

\* slave_startIRQ takes at most one request of the slave, its most urgent one.
LEMMA StartSlaveFacts ==
  ASSUME NEW b, Good(b), Cascade \in Deliverable("master", b), NEW csEqDs \in BOOLEAN
  PROVE  LET r == StartSlave(b, csEqDs)
         IN  /\ Good(r.b)
             /\ Cascade \notin Lines["slave"] => Requests(r.b) = Requests(b) \ r.taken
             /\ HackedLast /\ Heard(b) => Heard(r.b) \/ r.b.slave.auto_eoi
             /\ r.taken \subseteq {<<"slave", i>> : i \in Bits}
<1> DEFINE hacked == {i \in Bits : <<"slave", i>> \in HackLines /\ ~csEqDs}
           open == Deliverable("slave", b)
           i == Min(open \ hacked)
           r == StartSlave(b, csEqDs)
<1>0. b \in Board /\ b.slave \in Controller
  BY DEF Good, Board
<1>1. open \subseteq Bits /\ open \subseteq b.slave.irr
  BY <1>0 DEF Deliverable, Ready, Controller
<1>2. CASE open \ hacked # {}
  <2>1. i \in open \ hacked /\ \A j \in open \ hacked : i <= j
    <3>1. open \ hacked \subseteq 0..8
      BY <1>1 DEF Bits
    <3> QED
      BY <1>2, <3>1, MinFacts
  <2> DEFINE s == Start("slave", i, b)
             m == Start("master", Cascade, s)
  <2>2. r = [b |-> m, taken |-> {<<"slave", i>>}]
    BY <1>2 DEF StartSlave
  <2> HIDE DEF i, r
  <2>3. /\ Good(s) /\ s.master = b.master
        /\ s.slave.irr = b.slave.irr \ {i}
        /\ s.slave.imr = b.slave.imr /\ s.slave.special = b.slave.special
        /\ s.slave.auto_eoi = b.slave.auto_eoi
        /\ ~b.slave.auto_eoi => s.slave.isr = b.slave.isr \cup {i} /\ s.slave.active_irq = i
    BY <2>1, StartFacts DEF Pics
  <2>4. Cascade \in Deliverable("master", s)
    BY <2>3, DeliverableDepends DEF Pics
  <2> HIDE DEF s
  <2>5. /\ Good(m) /\ m.slave = s.slave /\ m.master.irr = s.master.irr \ {Cascade}
    BY <2>3, <2>4, StartFacts DEF Pics
  <2> HIDE DEF m
  <2>6. Requests(m) = Requests(b) \ {<<"slave", i>>}
    BY <2>3, <2>5, CascadeIsNoDevice DEF Requests, Pics
  <2>7. ASSUME HackedLast, ~b.slave.auto_eoi, ~b.slave.special
        PROVE  Deliverable("slave", m) = {}
    <3> SUFFICES ASSUME NEW j \in Deliverable("slave", m) PROVE FALSE
      OBVIOUS
    <3>1. j \in s.slave.irr \ s.slave.imr /\ j \notin s.slave.isr /\ j < i
      BY <2>3, <2>5, <2>7 DEF Deliverable, Ready, Limit
    <3>2. j \in open
      <4>1. i < b.slave.active_irq /\ b.slave.active_irq \in 0..8
        BY <1>0, <2>1, <2>7 DEF Deliverable, Limit, Controller
      <4>2. i \in 0..7 /\ j \in 0..7
        BY <1>0, <1>1, <2>1, <2>3, <3>1 DEF Controller, Bits
      <4>3. j < b.slave.active_irq
        BY <3>1, <4>1, <4>2
      <4> QED
        BY <2>3, <2>7, <3>1, <4>3 DEF Deliverable, Ready, Limit
    <3>3. i \in 0..7 /\ j \in 0..7
      BY <1>1, <2>1, <3>2 DEF Bits
    <3>4. j \in hacked
      BY <2>1, <3>1, <3>2, <3>3
    <3>5. i \in Lines["slave"] /\ j \in Lines["slave"]
      BY <1>1, <2>1, <3>2 DEF Good
    <3>6. <<"slave", j>> \in HackLines /\ <<"slave", i>> \notin HackLines
      BY <2>1, <3>3, <3>4 DEF Bits
    <3> QED
      BY <2>7, <3>1, <3>3, <3>5, <3>6 DEF HackedLast
  <2>8. HackedLast => Heard(m) \/ m.slave.auto_eoi
    BY <2>3, <2>5, <2>7 DEF Heard
  <2>9. {<<"slave", i>>} \subseteq {<<"slave", j>> : j \in Bits}
    BY <1>1, <2>1
  <2>10. r.b = m /\ r.taken = {<<"slave", i>>}
    BY <2>2
  <2> HIDE DEF open, hacked
  <2> QED
    BY <2>5, <2>6, <2>8, <2>9, <2>10 DEF r
<1>3. CASE open \ hacked = {} /\ open # {}
  <2>1. r = [b |-> b, taken |-> {}]
    BY <1>3 DEF StartSlave
  <2>2. r.b = b /\ r.taken = {}
    BY <2>1
  <2> QED
    BY <2>2
<1>4. CASE open = {}
  <2>1. r = [b |-> Lower("slave", Cascade, b), taken |-> {}]
    BY <1>4 DEF StartSlave
  <2>2. r.b = Lower("slave", Cascade, b) /\ r.taken = {}
    BY <2>1
  <2>3. /\ Step(b, r.b)
        /\ Requests(r.b) = Requests(b) \ {<<"slave", Cascade>>}
    BY <1>0, <2>2, LowerStep, CascadeIsNoDevice DEF Pics
  <2>4. Cascade \notin Lines["slave"] => Requests(r.b) = Requests(b) \ r.taken
    BY <2>2, <2>3, CascadeIsNoDevice DEF Requests
  <2> QED
    BY <2>2, <2>3, <2>4, StepGood DEF Step
<1> QED
  BY <1>2, <1>3, <1>4

\* The check after an automatic EOI.
LEMMA AutoEoiFacts ==
  ASSUME NEW b \in Board
  PROVE  LET r == AutoEoiCheck(b)
         IN  /\ Told(b, r)
             /\ Heard(b) \/ b.slave.auto_eoi => Heard(r)
<1> DEFINE s == IF b.slave.auto_eoi THEN CheckSlave(b) ELSE b
           r == IF s.master.auto_eoi THEN CheckMaster(s) ELSE s
<1>1. Told(b, s)
  BY CheckSlaveFacts DEF Told, Kept
<1>2. Heard(b) \/ b.slave.auto_eoi => Heard(s)
  BY <1>1, CheckSlaveFacts, DeliverableDepends DEF Heard, Told, Pics
<1>3. s \in Board
  BY <1>1 DEF Told
<1> HIDE DEF s
<1>4. /\ r \in Board /\ r.slave = s.slave /\ r.master = s.master
      /\ s.pending => r.pending
  BY <1>3, CheckMasterFacts
<1>5. r = AutoEoiCheck(b)
  BY DEF AutoEoiCheck, s
<1> HIDE DEF r
<1>6. /\ Deliverable("master", r) = Deliverable("master", s)
      /\ Deliverable("slave", r) = Deliverable("slave", s)
  BY <1>4, DeliverableDepends DEF Pics
<1>7. Told(b, r)
  BY <1>1, <1>4, <1>6 DEF Told
<1>8. Heard(s) => Heard(r)
  BY <1>4, <1>6 DEF Heard
<1> QED
  BY <1>2, <1>5, <1>7, <1>8

\* What PIC_runIRQs keeps.
LEMMA RunStep ==
  ASSUME NEW csEqDs \in BOOLEAN, RunIRQs(csEqDs), Good(board), owed \subseteq Devices
  PROVE  /\ Good(board') /\ IRQCheck' \in BOOLEAN /\ iflag' \in BOOLEAN
         /\ owed' \subseteq Devices /\ raises' = raises
         /\ (\A i \in Bits : <<"master", i>> \notin HackLines) /\ NoLostWakeup
              => NoLostWakeup'
         /\ Cascade \notin Lines["slave"] /\ owed = Requests(board)
              => owed' = Requests(board')
         /\ HackedLast /\ Heard(board) => Heard(board')
<1> DEFINE hacked == {i \in Bits : <<"master", i>> \in HackLines /\ ~csEqDs}
           open == Deliverable("master", board) \ hacked
           i == Min(open)
           r == IF open = {} THEN [b |-> board, taken |-> {}]
                ELSE IF i = Cascade THEN StartSlave(board, csEqDs)
                ELSE [b |-> Start("master", i, board), taken |-> {<<"master", i>>}]
           after == AutoEoiCheck(r.b)
<1>0. board \in Board /\ board.master \in Controller
  BY DEF Good, Board
<1>1. open \subseteq 0..8 /\ open \subseteq board.master.irr
  BY <1>0 DEF Deliverable, Ready, Controller, Bits
<1>2. open # {} => i \in open
  BY <1>1, MinFacts
<1>3. /\ board' = IF open = {} THEN after ELSE ActivateMaster(after)
      /\ owed' = owed \ r.taken /\ iflag' = (r.taken = {}) /\ IRQCheck' = FALSE
      /\ raises' = raises
  BY DEF RunIRQs
<1>4. /\ Good(r.b)
      /\ Cascade \notin Lines["slave"] => Requests(r.b) = Requests(board) \ r.taken
      /\ HackedLast /\ Heard(board) => Heard(r.b) \/ r.b.slave.auto_eoi
  <2>1. CASE open = {}
    <3>1. r.b = board /\ r.taken = {}
      BY <2>1
    <3> QED
      BY <3>1
  <2>2. CASE open # {} /\ i = Cascade
    <3>1. r = StartSlave(board, csEqDs)
      BY <2>2
    <3>2. Cascade \in Deliverable("master", board)
      BY <1>2, <2>2
    <3> QED
      BY <3>1, <3>2, StartSlaveFacts
  <2>3. CASE open # {} /\ i # Cascade
    <3>1. r.b = Start("master", i, board) /\ r.taken = {<<"master", i>>}
      BY <2>3
    <3>2. i \in Deliverable("master", board)
      BY <1>2, <2>3
    <3> HIDE DEF i, r
    <3>3. /\ Good(r.b) /\ r.b.slave = board.slave
          /\ r.b.master.irr = board.master.irr \ {i}
      <4>1. LET s == Start("master", i, board)
            IN  Good(s) /\ s.slave = board.slave /\ s.master.irr = board.master.irr \ {i}
        BY <3>2, StartFacts DEF Pics
      <4> QED
        BY <3>1, <4>1
    <3>4. Requests(r.b) = Requests(board) \ r.taken
      <4>1. ASSUME NEW d \in Devices
            PROVE  d[2] \in r.b[d[1]].irr <=> d[2] \in board[d[1]].irr /\ d # <<"master", i>>
        BY <3>3, CascadeIsNoDevice DEF Pics
      <4> QED
        BY <3>1, <4>1 DEF Requests
    <3>5. Heard(board) => Heard(r.b)
      BY <2>3, <3>3, DeliverableDepends DEF Heard, Pics
    <3> QED
      BY <3>3, <3>4, <3>5
  <2> QED
    BY <2>1, <2>2, <2>3
<1> HIDE DEF r
<1>5. r.b \in Board
  BY <1>4 DEF Good
<1>6. Told(r.b, after) /\ (Heard(r.b) \/ r.b.slave.auto_eoi => Heard(after))
  BY <1>5, AutoEoiFacts
<1>7. Good(after) /\ Requests(after) = Requests(r.b)
  BY <1>4, <1>5, <1>6, ToldGood, ToldRequests
<1> HIDE DEF after
<1>8. /\ board' \in Board /\ board'.master = after.master /\ board'.slave = after.slave
      /\ after.pending \/ open # {} => board'.pending
  BY <1>3, <1>7 DEF Good, Board, ActivateMaster
<1>9. Good(board') /\ Requests(board') = Requests(after)
  BY <1>7, <1>8, CascadeIsNoDevice DEF Good, Requests, Pics
<1>10. Heard(after) => Heard(board')
  BY <1>8, DeliverableDepends DEF Heard, Pics
<1>11. ASSUME \A j \in Bits : <<"master", j>> \notin HackLines, NoLostWakeup
       PROVE  NoLostWakeup'
  <2>1. CASE open # {}
    BY <1>8, <2>1 DEF NoLostWakeup
  <2>2. CASE open = {}
    <3>1. Deliverable("master", board) = {}
      BY <1>11, <2>2
    <3>2. after.pending \/ Deliverable("master", after) = {}
      BY <1>6, <3>1, <2>2 DEF Told, r
    <3>3. Deliverable("master", board') = Deliverable("master", after)
      BY <1>8, DeliverableDepends DEF Pics
    <3> QED
      BY <1>8, <3>2, <3>3 DEF NoLostWakeup
  <2> QED
    BY <2>1, <2>2
<1> QED
  BY <1>3, <1>4, <1>6, <1>7, <1>9, <1>10, <1>11

-----------------------------------------------------------------------------
(* The theorems.                                                           *)

\* The inductive invariant: types, active_irq against isr, special mask mode
\* only where the guest switches it, and no device on a line it does not have.
TInv ==
  /\ Good(board)
  /\ IRQCheck \in BOOLEAN /\ iflag \in BOOLEAN
  /\ owed \subseteq Devices /\ raises \in 0..MaxRaises

\* After PIC_Reset nothing is asked for and nothing is in service.
LEMMA Beginning ==
  ASSUME Init
  PROVE  /\ TInv /\ owed = Requests(board)
         /\ \A p \in Pics : Deliverable(p, board) = {}
<1>1. Highest({}) = 8
  BY HighestFacts
<1>2. /\ board \in Board /\ board.slave.irr = {}
      /\ \A p \in Pics : /\ board[p].irr = {} /\ board[p].isr = {}
                         /\ board[p].active_irq = 8 /\ ~board[p].special
  BY DEF Init, Reset, Board, Controller, Pics, Bits
<1>3. Good(board)
  BY <1>1, <1>2 DEF Good, Active
<1>4. owed = {} /\ Requests(board) = {}
  BY <1>2, CascadeIsNoDevice DEF Init, Requests
<1>5. \A p \in Pics : Deliverable(p, board) = {}
  BY <1>2 DEF Deliverable, Ready
<1>6. IRQCheck \in BOOLEAN /\ iflag \in BOOLEAN
  BY DEF Init
<1>7. raises \in 0..MaxRaises
  <2>1. raises = 0 /\ MaxRaises \in Nat
    BY ControllerAssumption DEF Init
  <2> QED
    BY <2>1
<1>8. TInv
  BY <1>3, <1>4, <1>6, <1>7 DEF TInv
<1> QED
  BY <1>4, <1>5, <1>8

\* The invariant has the types of TypeOK.
LEMMA TypesAgree ==
  TInv => TypeOK
BY DEF TInv, TypeOK, Good, Active, ActiveIsHighest

\* The steps fall into three kinds: of devices and the guest on the board, of
\* PIC_runIRQs, and those that leave the controllers alone.
LEMMA Kinds ==
  ASSUME TInv, [Next]_vars
  PROVE  \/ /\ Step(board, board') /\ UNCHANGED <<IRQCheck, iflag>>
            /\ owed = Requests(board) => owed' = Requests(board')
            /\ owed' \subseteq Devices /\ raises' \in 0..MaxRaises
         \/ \E csEqDs \in BOOLEAN : RunIRQs(csEqDs)
         \/ /\ board'.master = board.master /\ board'.slave = board.slave
            /\ board' \in Board /\ owed' = owed /\ raises' = raises
            /\ IRQCheck' \in BOOLEAN /\ iflag' \in BOOLEAN
            /\ IRQCheck \/ board.pending => IRQCheck' \/ board'.pending
<1> DEFINE BoardStep ==
             /\ Step(board, board') /\ UNCHANGED <<IRQCheck, iflag>>
             /\ owed = Requests(board) => owed' = Requests(board')
             /\ owed' \subseteq Devices /\ raises' \in 0..MaxRaises
<1>0. TypeOK /\ board \in Board
  BY TypesAgree DEF TInv, Good
<1>1. ASSUME NEW d \in Devices, ActivateIRQ(d) \/ DeActivateIRQ(d)
      PROVE  BoardStep
  <2>1. owed' \subseteq Devices /\ raises' \in 0..MaxRaises
    BY <1>1, ControllerAssumption DEF TInv, ActivateIRQ, DeActivateIRQ
  <2> QED
    BY <1>0, <1>1, <2>1, BoardSteps
<1>2. ASSUME NEW p \in Pics,
             \/ WriteMask(p) \/ Eoi(p) \/ SpecificEoi(p)
             \/ SetSpecial(p) \/ WriteIcw1(p) \/ WriteIcw(p)
      PROVE  BoardStep
  <2>1. Guest
    BY <1>2 DEF WriteMask, Eoi, SpecificEoi, SetSpecial, WriteIcw1, WriteIcw
  <2>2. owed' \subseteq Devices /\ raises' \in 0..MaxRaises
    BY <2>1 DEF TInv, Guest
  <2> QED
    BY <1>0, <1>2, <2>2, BoardSteps
<1>3. ASSUME SetIF \/ UNCHANGED vars
      PROVE  /\ board' = board /\ owed' = owed /\ raises' = raises
             /\ IRQCheck' = IRQCheck /\ iflag' \in BOOLEAN
  BY <1>3 DEF TInv, SetIF, vars
<1>4. ASSUME IRQCheckDelayed
      PROVE  /\ board'.master = board.master /\ board'.slave = board.slave
             /\ board' \in Board /\ owed' = owed /\ raises' = raises
             /\ IRQCheck' = TRUE /\ iflag' = iflag
  BY <1>0, <1>4 DEF IRQCheckDelayed, Board
<1> HIDE DEF BoardStep
<1>5. \/ BoardStep
      \/ \E csEqDs \in BOOLEAN : RunIRQs(csEqDs)
      \/ IRQCheckDelayed
      \/ SetIF \/ UNCHANGED vars
  BY <1>1, <1>2 DEF Next
<1> QED
  BY <1>0, <1>3, <1>4, <1>5 DEF BoardStep, TInv

\* Every step keeps the invariant.
LEMMA Inductive ==
  TInv /\ [Next]_vars => TInv'
<1> SUFFICES ASSUME TInv, [Next]_vars PROVE TInv'
  OBVIOUS
<1>1. CASE Step(board, board') /\ UNCHANGED <<IRQCheck, iflag>>
           /\ owed' \subseteq Devices /\ raises' \in 0..MaxRaises
  BY <1>1, StepGood DEF TInv
<1>2. ASSUME NEW csEqDs \in BOOLEAN, RunIRQs(csEqDs)
      PROVE  TInv'
  BY <1>2, RunStep DEF TInv
<1>3. CASE /\ board'.master = board.master /\ board'.slave = board.slave
           /\ board' \in Board /\ owed' = owed /\ raises' = raises
           /\ IRQCheck' \in BOOLEAN /\ iflag' \in BOOLEAN
  <2>1. Good(board')
    BY <1>3 DEF TInv, Good, Pics
  <2> QED
    BY <1>3, <2>1 DEF TInv
<1> QED
  BY <1>1, <1>2, <1>3, Kinds

\* The invariant holds always.
LEMMA Invariance ==
  Spec => []TInv
<1>1. Init => TInv
  BY Beginning
<1> QED
  BY <1>1, Inductive, PTL DEF Spec

\* The registers keep their types and active_irq stays the highest line in
\* service, whatever devices raise and the guest masks, acknowledges or
\* reprograms, on every configuration of lines, edges and cascades.
THEOREM RegistersConsistent ==
  Spec => []TypeOK
BY Invariance, TypesAgree, PTL

\* Unless a line of the master waits for CS = DS, the emulator never sleeps
\* on a request the CPU should take: PIC_IRQCheck or its event is due.
THEOREM WakeupNotLost ==
  ASSUME \A i \in Bits : <<"master", i>> \notin HackLines
  PROVE  Spec => []NoLostWakeup
<1>1. Init => NoLostWakeup
  BY Beginning DEF NoLostWakeup, Pics
<1>2. TInv /\ NoLostWakeup /\ [Next]_vars => NoLostWakeup'
  <2> SUFFICES ASSUME TInv, NoLostWakeup, [Next]_vars PROVE NoLostWakeup'
    OBVIOUS
  <2>1. CASE Step(board, board') /\ UNCHANGED IRQCheck
    BY <2>1 DEF NoLostWakeup, Step
  <2>2. ASSUME NEW csEqDs \in BOOLEAN, RunIRQs(csEqDs)
        PROVE  NoLostWakeup'
    BY <2>2, RunStep DEF TInv
  <2>3. CASE /\ board'.master = board.master
             /\ IRQCheck \/ board.pending => IRQCheck' \/ board'.pending
    <3>1. Deliverable("master", board') = Deliverable("master", board)
      BY <2>3, DeliverableDepends DEF Pics
    <3> QED
      BY <2>3, <3>1 DEF NoLostWakeup
  <2> QED
    BY <2>1, <2>2, <2>3, Kinds
<1> QED
  BY <1>1, <1>2, Invariance, PTL DEF Spec

\* If the slave's lines that wait for CS = DS are its least urgent, a request
\* that may interrupt what the slave serves is raised on the master.
THEOREM SlaveHeard ==
  ASSUME HackedLast
  PROVE  Spec => []SlaveIsHeard
<1>1. Init => Heard(board)
  BY Beginning DEF Heard, Pics
<1>2. TInv /\ Heard(board) /\ [Next]_vars => Heard(board')
  <2> SUFFICES ASSUME TInv, Heard(board), [Next]_vars PROVE Heard(board')
    OBVIOUS
  <2>1. CASE Step(board, board')
    BY <2>1 DEF Step
  <2>2. ASSUME NEW csEqDs \in BOOLEAN, RunIRQs(csEqDs)
        PROVE  Heard(board')
    BY <2>2, RunStep DEF TInv
  <2>3. CASE board'.master = board.master /\ board'.slave = board.slave
    BY <2>3, DeliverableDepends DEF Heard, Pics
  <2> QED
    BY <2>1, <2>2, <2>3, Kinds
<1>3. Heard(board) <=> SlaveIsHeard
  BY DEF Heard, SlaveIsHeard
<1>4. Init => SlaveIsHeard
  BY <1>1, <1>3
<1>5. TInv /\ SlaveIsHeard /\ [Next]_vars => SlaveIsHeard'
  BY <1>2 DEF Heard, SlaveIsHeard
<1> QED
  BY <1>4, <1>5, Invariance, PTL DEF Spec

\* If the slave has no device on the line the master keeps for the cascade,
\* the request registers hold exactly what devices asked for, have not
\* withdrawn and the CPU has not taken.
THEOREM RequestsKept ==
  ASSUME Cascade \notin Lines["slave"]
  PROVE  Spec => []NoRequestLost
<1>1. Init => NoRequestLost
  BY Beginning DEF Requests, NoRequestLost
<1>2. TInv /\ NoRequestLost /\ [Next]_vars => NoRequestLost'
  <2> SUFFICES ASSUME TInv, NoRequestLost, [Next]_vars PROVE NoRequestLost'
    OBVIOUS
  <2>0. owed = Requests(board)
    BY DEF NoRequestLost, Requests
  <2>1. CASE owed = Requests(board) => owed' = Requests(board')
    BY <2>0, <2>1 DEF NoRequestLost, Requests
  <2>2. ASSUME NEW csEqDs \in BOOLEAN, RunIRQs(csEqDs)
        PROVE  NoRequestLost'
    BY <2>0, <2>2, RunStep DEF TInv, NoRequestLost, Requests
  <2>3. CASE /\ board'.master = board.master /\ board'.slave = board.slave
             /\ owed' = owed
    BY <2>3, CascadeIsNoDevice DEF NoRequestLost, Pics
  <2> QED
    BY <2>1, <2>2, <2>3, Kinds
<1> QED
  BY <1>1, <1>2, Invariance, PTL DEF Spec
=============================================================================
