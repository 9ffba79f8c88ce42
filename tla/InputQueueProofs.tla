-------------------------- MODULE InputQueueProofs --------------------------
(***************************************************************************)
(* The input queue for every capacity, ring size and number of codes.      *)
(***************************************************************************)
EXTENDS InputQueueProps, TLAPS

LEMMA NumberedType ==
    ASSUME NEW f \in Nat, NEW k \in Nat
    PROVE  /\ Numbered(f, k) \in Seq(Nat)
           /\ Len(Numbered(f, k)) = k
           /\ \A i \in 1 .. k : Numbered(f, k)[i] = f + i - 1
  BY DEF Numbered

LEMMA SeqFacts ==
    ASSUME NEW s \in Seq(Nat)
    PROVE  /\ Len(s) \in Nat /\ DOMAIN s = 1 .. Len(s)
           /\ \A i \in 1 .. Len(s) : s[i] \in Nat
  OBVIOUS

LEMMA TailFacts ==
    ASSUME NEW s \in Seq(Nat), s # <<>>
    PROVE  /\ Head(s) = s[1] /\ Head(s) \in Nat
           /\ Tail(s) \in Seq(Nat)
           /\ Len(Tail(s)) = Len(s) - 1
           /\ Len(s) \in Nat /\ Len(s) > 0
           /\ \A i \in 1 .. Len(s) - 1 : Tail(s)[i] = s[i + 1]
  OBVIOUS

LEMMA AppendFacts ==
    ASSUME NEW s \in Seq(Nat), NEW e \in Nat
    PROVE  /\ Append(s, e) \in Seq(Nat)
           /\ Len(Append(s, e)) = Len(s) + 1
           /\ \A i \in 1 .. Len(s) : Append(s, e)[i] = s[i]
           /\ Append(s, e)[Len(s) + 1] = e
  OBVIOUS

LEMMA ConcatFacts ==
    ASSUME NEW s \in Seq(Nat), NEW t \in Seq(Nat)
    PROVE  /\ s \o t \in Seq(Nat)
           /\ Len(s \o t) = Len(s) + Len(t)
           /\ \A i \in 1 .. Len(s) : (s \o t)[i] = s[i]
           /\ \A i \in Len(s) + 1 .. Len(s) + Len(t) :
                  (s \o t)[i] = t[i - Len(s)]
  OBVIOUS

-----------------------------------------------------------------------------
(* Every step of a machine without DOS/V keeps the queue, the log of       *)
(* delivered codes and the set of cleared codes in order.                  *)
LEMMA OrderInvStep ==
    ASSUME ~DosV, OrderInv, [Next]_vars
    PROVE  OrderInv'
<1> USE QueueAssumption
<1> USE DEF OrderInv
<1>1. ASSUME NEW k \in 0 .. Capacity + 1, QueueInputCodes(k)
      PROVE  OrderInv'
  <2> DEFINE new == Numbered(nextSeq, k)
  <2>0. nextSeq \in Nat /\ k \in Nat
    BY DEF TypeOK
  <2>1. /\ new \in Seq(Nat) /\ Len(new) = k
        /\ \A i \in 1 .. k : new[i] = nextSeq + i - 1
    BY <2>0, NumberedType
  <2>2. pending \in Seq(Nat) /\ Len(pending) \in Nat
    BY DEF TypeOK
  <2>3. pending' = pending \o new
    BY <1>1 DEF QueueInputCodes
  <2>4. /\ pending' \in Seq(Nat)
        /\ Len(pending') = Len(pending) + k
        /\ \A i \in 1 .. Len(pending) : pending'[i] = pending[i]
        /\ \A i \in Len(pending) + 1 .. Len(pending) + k :
               pending'[i] = new[i - Len(pending)]
    <3> HIDE DEF new
    <3>1. pending \in Seq(Nat) /\ new \in Seq(Nat) /\ Len(new) = k
      BY <2>1, <2>2
    <3>2. /\ pending \o new \in Seq(Nat)
          /\ Len(pending \o new) = Len(pending) + Len(new)
          /\ \A i \in 1 .. Len(pending) : (pending \o new)[i] = pending[i]
          /\ \A i \in Len(pending) + 1 .. Len(pending) + Len(new) :
                 (pending \o new)[i] = new[i - Len(pending)]
      BY <3>1, ConcatFacts, Zenon
    <3> QED BY <3>1, <3>2, <2>3, Zenon
  <2> HIDE DEF new
  <2>5. TypeOK'
    <3>1. /\ Len(pending') <= Capacity
          /\ nextSeq' \in Nat /\ acked' \in Nat
      BY <1>1, <2>0, <2>4 DEF TypeOK, QueueInputCodes, Fits
    <3>2. UNCHANGED <<drain, peeked, ring, over, paused, swallowed, delivered,
                      cleared>>
      BY <1>1 DEF QueueInputCodes, drainVars, biosVars
    <3> QED BY <2>4, <3>1, <3>2 DEF TypeOK
  <2>6. nextSeq' - Len(pending') = nextSeq - Len(pending)
    BY <1>1, <2>4 DEF QueueInputCodes, TypeOK
  <2>7. \A i \in 1 .. Len(pending') :
           pending'[i] = nextSeq' - Len(pending') + i - 1
    <3> SUFFICES ASSUME NEW i \in 1 .. Len(pending')
                 PROVE  pending'[i] = nextSeq - Len(pending) + i - 1
      BY <2>6
    <3>1. CASE i \in 1 .. Len(pending)
      BY <3>1, <2>4 DEF QueueOrdered
    <3>2. CASE i \in Len(pending) + 1 .. Len(pending) + k
      <4>1. i - Len(pending) \in 1 .. k
        BY <3>2, <2>2
      <4> QED BY <3>2, <4>1, <2>1, <2>2, <2>4 DEF TypeOK
    <3> QED BY <3>1, <3>2, <2>2, <2>4
  <2>8. pending # <<>> => pending' # <<>> /\ Head(pending') = Head(pending)
    BY <2>2, <2>4
  <2>9. QueueOrdered'
    BY <1>1, <2>7, <2>8
    DEF QueueOrdered, QueueInputCodes, drainVars
  <2>10. Bookkeeping'
    BY <1>1, <2>2, <2>4, <2>6
    DEF Bookkeeping, QueueInputCodes, biosVars, TypeOK
  <2>11. Frontier' = Frontier
    BY <1>1, <2>6 DEF Frontier, QueueInputCodes, drainVars
  <2>12. DeliveredInOrder'
    BY <1>1, <2>11
    DEF DeliveredInOrder, QueueInputCodes, Delivered
  <2> QED BY <2>5, <2>9, <2>10, <2>12
<1>2. CASE ClearQueuedInput
  <2> DEFINE dropped == {pending[i] : i \in DOMAIN pending}
  <2>s. /\ Len(pending) \in Nat /\ DOMAIN pending = 1 .. Len(pending)
        /\ \A i \in 1 .. Len(pending) : pending[i] \in Nat
        /\ nextSeq \in Nat
    BY SeqFacts DEF TypeOK
  <2>a. \A i \in DOMAIN pending :
           /\ pending[i] \in Nat /\ pending[i] < nextSeq
           /\ pending[i] >= nextSeq - Len(pending)
    BY <2>s DEF QueueOrdered
  <2>b. dropped \subseteq Nat /\ \A n \in dropped : n < nextSeq
    BY <2>a
  <2> HIDE DEF dropped
  <2>c. cleared' = cleared \cup dropped
    BY <1>2 DEF ClearQueuedInput, dropped
  <2>1. /\ pending' = <<>> /\ nextSeq' = nextSeq
        /\ drain = "away" /\ drain' = "away" /\ delivered' = delivered
        /\ UNCHANGED <<acked, drainVars, biosVars>>
    BY <1>2 DEF ClearQueuedInput, drainVars
  <2>t. TypeOK'
    BY <2>b, <2>c, <2>1 DEF TypeOK, drainVars, biosVars
  <2>2. \A n \in cleared' : n < nextSeq
    BY <2>b, <2>c DEF TypeOK, Bookkeeping
  <2>3. QueueOrdered' /\ Bookkeeping'
    BY <1>2, <2>1, <2>2
    DEF QueueOrdered, Bookkeeping, ClearQueuedInput, biosVars, TypeOK
  <2>4. Frontier = nextSeq - Len(pending) /\ Frontier' = nextSeq
    BY <2>1 DEF Frontier, TypeOK
  <2>5. \A i \in DOMAIN pending : pending[i] >= Frontier
    BY <2>4, <2>a
  <2>6. \A n \in Delivered : n < Frontier /\ n \in Nat
    BY DEF DeliveredInOrder, Delivered, TypeOK
  <2>7. Frontier \in Int /\ Frontier' \in Int /\ Frontier <= Frontier'
    BY <2>4, <2>s
  <2>8. (Delivered \cap cleared)' = {}
    <3>1. Delivered' = Delivered
      BY <2>1 DEF Delivered
    <3>2. \A n \in dropped : n \notin Delivered
      BY <2>5, <2>6, <2>7, <2>a DEF dropped
    <3> QED BY <2>c, <3>1, <3>2 DEF DeliveredInOrder
  <2>9. \A i \in DOMAIN delivered : delivered[i] < Frontier'
    BY <2>7, SeqFacts DEF DeliveredInOrder, TypeOK
  <2>10. DeliveredInOrder'
    BY <2>1, <2>8, <2>9 DEF DeliveredInOrder
  <2> QED BY <2>t, <2>3, <2>10
<1>3. CASE DrainEnter
  BY <1>3 DEF DrainEnter, TypeOK, QueueOrdered, Bookkeeping, Frontier,
              Delivered, DeliveredInOrder, queueVars, biosVars
<1>4. CASE DrainPeek
  <2>1. pending # <<>> => Head(pending) \in Nat
    BY DEF TypeOK
  <2> QED
    BY <1>4, <2>1 DEF DrainPeek, TypeOK, QueueOrdered, Bookkeeping, Frontier,
                 Delivered, DeliveredInOrder, queueVars, biosVars
<1>6. CASE AddRingFull
  BY <1>6 DEF AddRingFull, TypeOK, QueueOrdered, Bookkeeping, Frontier,
              Delivered, DeliveredInOrder, queueVars
<1>7. CASE AddStored \/ AddWhilePaused
  <2>0. /\ drain = "add" /\ drain' = "pop"
        /\ delivered' = Append(delivered, peeked)
        /\ UNCHANGED <<pending, nextSeq, acked, peeked, over, paused, cleared>>
    BY <1>7 DEF AddStored, AddWhilePaused, ReportSuccess, queueVars
  <2>p. peeked = Head(pending) /\ pending # <<>> /\ pending \in Seq(Nat)
    BY <2>0 DEF QueueOrdered, TypeOK
  <2>h. Head(pending) = pending[1] /\ Len(pending) \in Nat /\ Len(pending) > 0
    BY <2>p, TailFacts
  <2>1. /\ peeked = nextSeq - Len(pending) /\ peeked \in Nat
        /\ pending # <<>>
    BY <2>p, <2>h DEF QueueOrdered, TypeOK
  <2>2. /\ delivered' \in Seq(Nat)
        /\ Len(delivered') = Len(delivered) + 1
        /\ \A i \in 1 .. Len(delivered) : delivered'[i] = delivered[i]
        /\ delivered'[Len(delivered) + 1] = peeked
    BY <2>0, <2>1, AppendFacts DEF TypeOK
  <2>3. /\ ring' \in Seq(Nat) /\ Len(ring') <= RingSlots
        /\ swallowed' \subseteq Nat
    <3>1. CASE AddStored
      <4>1. ring' = Append(ring, peeked) /\ swallowed' = swallowed
        BY <3>1 DEF AddStored
      <4>2. Len(ring) <= RingSlots /\ Len(ring) # RingSlots
        BY <3>1 DEF AddStored, RingFull, TypeOK
      <4> QED BY <4>1, <4>2, <2>1, AppendFacts DEF TypeOK
    <3>2. CASE AddWhilePaused
      BY <3>2, <2>1 DEF AddWhilePaused, TypeOK
    <3> QED BY <1>7, <3>1, <3>2
  <2>4. TypeOK'
    BY <2>0, <2>2, <2>3 DEF TypeOK
  <2>5. QueueOrdered' /\ Bookkeeping'
    BY <2>0, <2>p DEF QueueOrdered, Bookkeeping
  <2>6. Frontier = peeked /\ Frontier' = peeked + 1
    BY <2>0, <2>1 DEF Frontier, TypeOK
  <2>7. \A i \in 1 .. Len(delivered) : delivered[i] < peeked
    BY <2>6 DEF DeliveredInOrder, TypeOK
  <2>8. /\ DOMAIN delivered = 1 .. Len(delivered)
        /\ DOMAIN delivered' = 1 .. Len(delivered) + 1
        /\ Len(delivered) \in Nat
        /\ \A i \in DOMAIN delivered : delivered[i] \in Nat
    BY <2>2 DEF TypeOK
  <2>9. ASSUME NEW i \in DOMAIN delivered', NEW j \in DOMAIN delivered', i < j
        PROVE  delivered'[i] < delivered'[j]
    <3>1. i \in 1 .. Len(delivered)
      BY <2>8, <2>9
    <3>2. CASE j = Len(delivered) + 1
      BY <3>1, <3>2, <2>2, <2>7, <2>8
    <3>3. CASE j \in 1 .. Len(delivered)
      BY <3>1, <3>3, <2>2, <2>8, <2>9 DEF DeliveredInOrder
    <3> QED BY <3>2, <3>3, <2>8
  <2>10. ASSUME NEW i \in DOMAIN delivered'
         PROVE  delivered'[i] < Frontier'
    <3>1. CASE i = Len(delivered) + 1
      BY <3>1, <2>1, <2>2, <2>6
    <3>2. CASE i \in 1 .. Len(delivered)
      BY <3>2, <2>1, <2>2, <2>6, <2>7, <2>8
    <3> QED BY <3>1, <3>2, <2>8
  <2>11. Delivered' = Delivered \cup {peeked}
    BY <2>2, <2>8 DEF Delivered
  <2>12. peeked \notin cleared /\ cleared' = cleared
    BY <2>0, <2>1 DEF Bookkeeping, TypeOK
  <2>13. DeliveredInOrder'
    BY <2>9, <2>10, <2>11, <2>12 DEF DeliveredInOrder
  <2> QED BY <2>4, <2>5, <2>13
<1>8. CASE DrainPop
  <2>1. /\ pending # <<>> /\ pending' = Tail(pending)
        /\ drain = "pop" /\ drain' = "peek"
    BY <1>8 DEF DrainPop, QueueOrdered
  <2>2. /\ pending' \in Seq(Nat) /\ Len(pending') = Len(pending) - 1
        /\ Len(pending) \in Nat /\ Len(pending) > 0
        /\ \A i \in 1 .. Len(pending) - 1 : pending'[i] = pending[i + 1]
    BY <2>1, TailFacts DEF TypeOK
  <2>3. TypeOK'
    BY <1>8, <2>2 DEF DrainPop, TypeOK, biosVars
  <2>u. /\ UNCHANGED <<nextSeq, acked, ring, over, paused, swallowed>>
        /\ UNCHANGED <<delivered, cleared>>
        /\ nextSeq \in Nat /\ cleared \subseteq Nat
    BY <1>8 DEF DrainPop, TypeOK, biosVars
  <2>4. QueueOrdered'
    <3>1. \A i \in 1 .. Len(pending') :
             pending'[i] = nextSeq' - Len(pending') + i - 1
      <4> SUFFICES ASSUME NEW i \in 1 .. Len(pending')
                   PROVE  pending'[i] = nextSeq - Len(pending') + i - 1
        BY <2>u
      <4>1. pending'[i] = pending[i + 1] /\ i + 1 \in 1 .. Len(pending)
        BY <2>2
      <4>2. pending[i + 1] = nextSeq - Len(pending) + (i + 1) - 1
        BY <4>1 DEF QueueOrdered
      <4> QED BY <4>1, <4>2, <2>2, <2>u
    <3> QED BY <2>1, <3>1 DEF QueueOrdered
  <2>5. Bookkeeping'
    BY <2>2, <2>u DEF Bookkeeping
  <2>6. Frontier' = Frontier
    BY <2>1, <2>2, <2>u DEF Frontier
  <2>7. DeliveredInOrder'
    BY <2>6, <2>u DEF DeliveredInOrder, Delivered
  <2> QED BY <2>3, <2>4, <2>5, <2>7
<1>9. CASE GuestReadKey
  <2>1. ring' = Tail(ring) /\ ring # <<>> /\ UNCHANGED <<over, delivered>>
    BY <1>9 DEF GuestReadKey
  <2>2. ring' \in Seq(Nat) /\ Len(ring') <= RingSlots
    BY <2>1, TailFacts DEF TypeOK
  <2> QED
    BY <1>9, <2>1, <2>2
    DEF GuestReadKey, TypeOK, QueueOrdered, Bookkeeping, Frontier,
        Delivered, DeliveredInOrder, queueVars, drainVars
<1>10. CASE PressPause \/ EndPause
  BY <1>10 DEF PressPause, EndPause, TypeOK, QueueOrdered, Bookkeeping,
               Frontier, Delivered, DeliveredInOrder, queueVars, drainVars
<1>11. CASE UNCHANGED vars
  BY <1>11 DEF vars, TypeOK, QueueOrdered, Bookkeeping, Frontier,
               Delivered, DeliveredInOrder
<1> QED
  BY <1>1, <1>2, <1>3, <1>4, <1>6, <1>7, <1>8, <1>9, <1>10, <1>11
  DEF Next, DrainStep, QueueFull

LEMMA OrderInvInit ==
    ASSUME Init
    PROVE  OrderInv
<1>1. TypeOK
  <2>1. <<>> \in Seq(Nat) /\ Len(<<>>) = 0
    OBVIOUS
  <2>2. 0 <= Capacity /\ 0 <= RingSlots
    BY QueueAssumption
  <2>3. nextSeq \in Nat /\ acked \in Nat /\ peeked \in Nat
    BY DEF Init
  <2> QED BY <2>1, <2>2, <2>3 DEF Init, TypeOK
<1>2. QueueOrdered /\ Bookkeeping
  BY DEF Init, QueueOrdered, Bookkeeping
<1>3. DeliveredInOrder
  BY DEF Init, DeliveredInOrder, Delivered
<1> QED BY <1>1, <1>2, <1>3 DEF OrderInv

(* On any machine but a DOS/V one, the queue holds exactly the most recent *)
(* codes in order, and the head a drain has peeked at is still the head    *)
(* when the drain removes it: the sequence check of drain_queued_input     *)
(* never fails, whatever the reader thread adds in between.                *)
THEOREM QueueStaysOrdered ==
    ASSUME ~DosV
    PROVE  Spec => []QueueOrdered
<1>1. Init => OrderInv
  BY OrderInvInit
<1>2. OrderInv /\ [Next]_vars => OrderInv'
  BY OrderInvStep
<1>3. OrderInv => QueueOrdered
  BY DEF OrderInv
<1> QED BY <1>1, <1>2, <1>3, PTL DEF Spec

(* On any machine but a DOS/V one, the deque never exceeds its capacity,   *)
(* the BIOS ring never exceeds its size, and what a drain remembers between*)
(* its two locked sections has its type.                                   *)
THEOREM TypeCorrect ==
    ASSUME ~DosV
    PROVE  Spec => []TypeOK
<1>1. Init => OrderInv
  BY OrderInvInit
<1>2. OrderInv /\ [Next]_vars => OrderInv'
  BY OrderInvStep
<1>3. OrderInv => TypeOK
  BY DEF OrderInv
<1> QED BY <1>1, <1>2, <1>3, PTL DEF Spec

(* On any machine but a DOS/V one, codes are handed to the BIOS in the     *)
(* order of their acceptance, no code twice, no cleared code ever.         *)
THEOREM DeliveryInOrder ==
    ASSUME ~DosV
    PROVE  Spec => []DeliveredInOrder
<1>1. Init => OrderInv
  BY OrderInvInit
<1>2. OrderInv /\ [Next]_vars => OrderInv'
  BY OrderInvStep
<1>3. OrderInv => DeliveredInOrder
  BY DEF OrderInv
<1> QED BY <1>1, <1>2, <1>3, PTL DEF Spec

-----------------------------------------------------------------------------

LEMMA FrontierFacts ==
    ASSUME OrderInv
    PROVE  /\ Frontier \in Int /\ nextSeq \in Nat /\ Len(pending) \in Nat
           /\ nextSeq - Len(pending) <= Frontier /\ Frontier <= nextSeq
<1>1. pending \in Seq(Nat) /\ nextSeq \in Nat
  BY DEF OrderInv, TypeOK
<1>2. Len(pending) \in Nat /\ (drain = "pop" => Len(pending) > 0)
  BY <1>1, SeqFacts, TailFacts DEF OrderInv, QueueOrdered
<1> QED BY <1>1, <1>2 DEF Frontier

(* A step that neither moves the frontier nor forgets a delivered or a     *)
(* cleared code drops nothing.                                             *)
LEMMA SameFrontier ==
    ASSUME DropInv, OrderInv',
           Frontier' = Frontier, Delivered' = Delivered, cleared' = cleared
    PROVE  DropInv'
<1>1. \A n \in 0 .. acked - 1 : n < Frontier => n \in Delivered \cup cleared
  BY DEF DropInv, NoSilentDrop
<1>2. acked = nextSeq /\ acked' \in Nat
  BY DEF DropInv, OrderInv, Bookkeeping, TypeOK
<1>3. ASSUME NEW n \in 0 .. acked' - 1, n < Frontier
      PROVE  n \in Delivered \cup cleared
  <2>1. Frontier \in Int /\ Frontier <= nextSeq /\ nextSeq \in Nat
    BY FrontierFacts DEF DropInv
  <2>2. n \in 0 .. acked - 1
    BY <1>2, <1>3, <2>1
  <2> QED BY <1>1, <1>3, <2>2
<1> QED BY <1>3 DEF DropInv, NoSilentDrop

LEMMA DropInvStep ==
    ASSUME ~DosV, DropInv, [Next]_vars
    PROVE  DropInv'
<1> USE QueueAssumption
<1>0. OrderInv /\ OrderInv'
  BY OrderInvStep DEF DropInv
<1>f. /\ Frontier \in Int /\ Frontier' \in Int
      /\ nextSeq \in Nat /\ nextSeq' \in Nat
      /\ nextSeq - Len(pending) <= Frontier /\ Frontier <= nextSeq
      /\ Len(pending) \in Nat
  <2>1. OrderInv => /\ Frontier \in Int /\ nextSeq \in Nat
                    /\ Len(pending) \in Nat
                    /\ nextSeq - Len(pending) <= Frontier
                    /\ Frontier <= nextSeq
    BY FrontierFacts
  <2>2. OrderInv' => Frontier' \in Int /\ nextSeq' \in Nat
    <3>1. OrderInv' => /\ pending' \in Seq(Nat) /\ nextSeq' \in Nat
      BY DEF OrderInv, TypeOK
    <3>2. OrderInv' => Len(pending') \in Nat
      BY <3>1, SeqFacts
    <3> QED BY <3>1, <3>2 DEF Frontier
  <2> QED BY <1>0, <2>1, <2>2
<1>1. ASSUME NEW k \in 0 .. Capacity + 1, QueueInputCodes(k)
      PROVE  DropInv'
  <2>1. Len(pending') = Len(pending) + k /\ nextSeq' = nextSeq + k
    <3>1. pending \in Seq(Nat) /\ nextSeq \in Nat /\ k \in Nat
      BY <1>0 DEF OrderInv, TypeOK
    <3>2. Numbered(nextSeq, k) \in Seq(Nat) /\ Len(Numbered(nextSeq, k)) = k
      BY <3>1, NumberedType
    <3> QED BY <1>1, <3>1, <3>2, ConcatFacts DEF QueueInputCodes
  <2>2. Frontier' = Frontier
    BY <1>1, <2>1, <1>f DEF Frontier, QueueInputCodes, drainVars
  <2>3. Delivered' = Delivered /\ cleared' = cleared
    BY <1>1 DEF QueueInputCodes, Delivered
  <2> QED BY <1>0, <2>2, <2>3, SameFrontier
<1>2. CASE ClearQueuedInput
  <2> DEFINE dropped == {pending[i] : i \in DOMAIN pending}
  <2>1. /\ cleared' = cleared \cup dropped /\ Delivered' = Delivered
        /\ drain = "away" /\ acked' = acked
    BY <1>2 DEF ClearQueuedInput, Delivered
  <2>2. Frontier = nextSeq - Len(pending)
    BY <2>1, <1>f DEF Frontier
  <2>3. acked = nextSeq
    BY <1>0 DEF OrderInv, Bookkeeping
  <2>4. ASSUME NEW n \in 0 .. acked - 1
        PROVE  n \in Delivered \cup cleared \cup dropped
    <3>1. CASE n < Frontier
      BY <3>1 DEF DropInv, NoSilentDrop
    <3>2. CASE n >= Frontier
      <4> DEFINE i == n - (nextSeq - Len(pending)) + 1
      <4>1. i \in 1 .. Len(pending)
        BY <3>2, <2>2, <2>3, <1>f
      <4>2. pending[i] = n
        BY <4>1, <1>0, <1>f DEF OrderInv, QueueOrdered
      <4>3. DOMAIN pending = 1 .. Len(pending)
        BY <1>0, SeqFacts DEF OrderInv, TypeOK
      <4> QED BY <4>1, <4>2, <4>3
    <3> QED BY <3>1, <3>2, <1>f, <2>3
  <2> QED BY <1>0, <2>1, <2>4 DEF DropInv, NoSilentDrop
<1>3. CASE DrainEnter \/ DrainPeek \/ AddRingFull
  <2>1. /\ UNCHANGED <<pending, nextSeq, delivered, cleared>>
        /\ drain # "pop" /\ drain' # "pop"
    BY <1>3 DEF DrainEnter, DrainPeek, AddRingFull, queueVars
  <2>2. Frontier' = Frontier /\ Delivered' = Delivered
    BY <2>1 DEF Frontier, Delivered
  <2> QED BY <1>0, <2>1, <2>2, SameFrontier
<1>5. CASE AddStored \/ AddWhilePaused
  <2>1. /\ UNCHANGED <<pending, nextSeq, acked, cleared>>
        /\ drain = "add" /\ drain' = "pop"
        /\ delivered' = Append(delivered, peeked)
    BY <1>5 DEF AddStored, AddWhilePaused, ReportSuccess, queueVars
  <2>2. Frontier = nextSeq - Len(pending) /\ Frontier' = Frontier + 1
    BY <2>1, <1>f DEF Frontier
  <2>3. pending \in Seq(Nat) /\ pending # <<>> /\ peeked = Head(pending)
    BY <1>0, <2>1 DEF OrderInv, QueueOrdered, TypeOK
  <2>4. peeked = Frontier
    <3>1. Head(pending) = pending[1] /\ 1 \in 1 .. Len(pending)
      BY <2>3, TailFacts
    <3> QED BY <3>1, <2>2, <2>3, <1>0, <1>f DEF OrderInv, QueueOrdered
  <2>5. Delivered' = Delivered \cup {peeked}
    <3>1. delivered \in Seq(Nat) /\ peeked \in Nat
      BY <1>0 DEF OrderInv, TypeOK
    <3>2. /\ DOMAIN delivered = 1 .. Len(delivered) /\ Len(delivered) \in Nat
          /\ DOMAIN delivered' = 1 .. Len(delivered) + 1
          /\ \A i \in 1 .. Len(delivered) : delivered'[i] = delivered[i]
          /\ delivered'[Len(delivered) + 1] = peeked
      BY <3>1, <2>1, SeqFacts, AppendFacts
    <3> QED BY <3>2 DEF Delivered
  <2>6. ASSUME NEW n \in 0 .. acked - 1, n < Frontier'
        PROVE  n \in Delivered \cup {peeked} \cup cleared
    <3>1. n = peeked \/ n < Frontier
      BY <2>2, <2>4, <2>6, <1>f
    <3> QED BY <3>1 DEF DropInv, NoSilentDrop
  <2> QED BY <1>0, <2>1, <2>5, <2>6 DEF DropInv, NoSilentDrop
<1>6. CASE DrainPop
  <2>1. /\ UNCHANGED <<nextSeq, delivered, cleared>>
        /\ pending # <<>> /\ pending' = Tail(pending)
        /\ drain = "pop" /\ drain' = "peek"
    BY <1>0, <1>6 DEF DrainPop, OrderInv, QueueOrdered
  <2>2. Len(pending') = Len(pending) - 1
    BY <1>0, <2>1, TailFacts DEF OrderInv, TypeOK
  <2>3. Frontier' = Frontier /\ Delivered' = Delivered
    BY <2>1, <2>2, <1>f DEF Frontier, Delivered
  <2> QED BY <1>0, <2>1, <2>3, SameFrontier
<1>7. CASE GuestReadKey
  <2>1. UNCHANGED <<pending, nextSeq, delivered, cleared, drain>>
    BY <1>0, <1>7 DEF GuestReadKey, OrderInv, Bookkeeping, queueVars, drainVars
  <2>2. Frontier' = Frontier /\ Delivered' = Delivered
    BY <2>1 DEF Frontier, Delivered
  <2> QED BY <1>0, <2>1, <2>2, SameFrontier
<1>8. CASE PressPause \/ EndPause \/ UNCHANGED vars
  <2>1. UNCHANGED <<pending, nextSeq, delivered, cleared, drain>>
    BY <1>8 DEF PressPause, EndPause, vars, queueVars, drainVars
  <2>2. Frontier' = Frontier /\ Delivered' = Delivered
    BY <2>1 DEF Frontier, Delivered
  <2> QED BY <1>0, <2>1, <2>2, SameFrontier
<1> QED
  BY <1>1, <1>2, <1>3, <1>5, <1>6, <1>7, <1>8
  DEF Next, DrainStep, QueueFull

LEMMA DropInvInit ==
    ASSUME Init
    PROVE  DropInv
<1>1. OrderInv /\ acked = 0
  BY OrderInvInit DEF Init
<1>2. NoSilentDrop
  BY <1>1 DEF NoSilentDrop
<1> QED BY <1>1, <1>2 DEF DropInv

(* On any machine but a DOS/V one, every code whose acceptance was         *)
(* reported is still queued, or was handed to the BIOS, or was discarded   *)
(* by clear_queued_input.                                                  *)
THEOREM NothingDropped ==
    ASSUME ~DosV
    PROVE  Spec => []NoSilentDrop
<1>1. Init => DropInv
  BY DropInvInit
<1>2. DropInv /\ [Next]_vars => DropInv'
  BY DropInvStep
<1>3. DropInv => NoSilentDrop
  BY DEF DropInv
<1> QED BY <1>1, <1>2, <1>3, PTL DEF Spec

-----------------------------------------------------------------------------
(* Refinement.  The code moves when BIOS_AddKeyToBuffer reports success;   *)
(* the deque still holds it until DrainPop.                                *)

LEMMA FifoInit ==
    ASSUME Init
    PROVE  Fifo!Init
  BY DEF Init, Fifo!Init, Backlog

LEMMA FifoStep ==
    ASSUME ~DosV, DropInv, [Next]_vars
    PROVE  [Fifo!Next]_(Fifo!vars)
<1> USE QueueAssumption
<1>0. /\ pending \in Seq(Nat) /\ nextSeq \in Nat /\ over = <<>>
      /\ Len(pending) \in Nat /\ Len(pending) <= Capacity
      /\ drain \in {"add", "pop"} => pending # <<>> /\ peeked = Head(pending)
  BY SeqFacts DEF DropInv, OrderInv, TypeOK, Bookkeeping, QueueOrdered
<1>1. ASSUME NEW k \in 0 .. Capacity + 1, QueueInputCodes(k)
      PROVE  Fifo!Accept
  <2> DEFINE new == Numbered(nextSeq, k)
  <2>1. k \in Nat /\ new \in Seq(Nat)
    BY <1>0, NumberedType
  <2>2. /\ pending' = pending \o new /\ nextSeq' = nextSeq + k
        /\ UNCHANGED <<delivered, drain>> /\ Len(pending) + k <= Capacity
    BY <1>1 DEF QueueInputCodes, Fits, drainVars
  <2>3. CASE drain # "pop"
    <3>1. Backlog = pending /\ Backlog' = pending \o new
      BY <2>2, <2>3 DEF Backlog
    <3>2. k \in 0 .. Capacity - Len(Backlog)
      BY <1>0, <2>1, <2>2, <3>1
    <3> QED BY <2>2, <3>1, <3>2 DEF Fifo!Accept, Numbered
  <2>4. CASE drain = "pop"
    <3>1. pending # <<>> /\ Tail(pending \o new) = Tail(pending) \o new
      BY <1>0, <2>1, <2>4
    <3>2. Backlog = Tail(pending) /\ Backlog' = Tail(pending) \o new
      BY <2>2, <2>4, <3>1 DEF Backlog
    <3>3. Len(Backlog) = Len(pending) - 1
      BY <1>0, <3>1, <3>2, TailFacts
    <3>4. k \in 0 .. Capacity - Len(Backlog)
      BY <1>0, <2>1, <2>2, <3>3
    <3> QED BY <2>2, <3>2, <3>4 DEF Fifo!Accept, Numbered
  <2> QED BY <2>3, <2>4
<1>2. CASE ClearQueuedInput
  <2>1. /\ drain = "away" /\ drain' = "away" /\ pending' = <<>>
        /\ UNCHANGED <<nextSeq, delivered>>
    BY <1>2 DEF ClearQueuedInput, drainVars
  <2> QED BY <2>1 DEF Fifo!Next, Fifo!Discard, Backlog
<1>3. CASE DrainEnter \/ DrainPeek \/ AddRingFull
  <2>1. /\ UNCHANGED <<pending, nextSeq, delivered>>
        /\ drain # "pop" /\ drain' # "pop"
    BY <1>3 DEF DrainEnter, DrainPeek, AddRingFull, queueVars
  <2> QED BY <2>1 DEF Fifo!vars, Backlog
<1>5. CASE AddStored \/ AddWhilePaused
  <2>1. /\ UNCHANGED <<pending, nextSeq>> /\ drain = "add" /\ drain' = "pop"
        /\ delivered' = Append(delivered, peeked)
    BY <1>5 DEF AddStored, AddWhilePaused, ReportSuccess, queueVars
  <2> QED BY <1>0, <2>1 DEF Fifo!Next, Fifo!Give, Backlog
<1>6. CASE DrainPop
  <2>1. /\ drain = "pop" /\ drain' = "peek" /\ pending' = Tail(pending)
        /\ UNCHANGED <<nextSeq, delivered>>
    BY <1>0, <1>6 DEF DrainPop
  <2> QED BY <2>1 DEF Fifo!vars, Backlog
<1>7. CASE GuestReadKey
  <2>1. UNCHANGED <<pending, nextSeq, delivered, drain>>
    BY <1>0, <1>7 DEF GuestReadKey, queueVars, drainVars
  <2> QED BY <2>1 DEF Fifo!vars, Backlog
<1>8. CASE PressPause \/ EndPause \/ UNCHANGED vars
  <2>1. UNCHANGED <<pending, nextSeq, delivered, drain>>
    BY <1>8 DEF PressPause, EndPause, vars, queueVars, drainVars
  <2> QED BY <2>1 DEF Fifo!vars, Backlog
<1> QED
  BY <1>1, <1>2, <1>3, <1>5, <1>6, <1>7, <1>8
  DEF Next, DrainStep, QueueFull, Fifo!Next

(* On any machine but a DOS/V one, the queue with its two-step removal     *)
(* implements the bounded FIFO that host control promises.         *)
THEOREM QueueImplementsFifo ==
    ASSUME ~DosV
    PROVE  Spec => ImplementsFifo
<1>1. Init => Fifo!Init /\ DropInv
  BY FifoInit, DropInvInit
<1>2. DropInv /\ [Next]_vars => DropInv'
  BY DropInvStep
<1>3. DropInv /\ [Next]_vars => [Fifo!Next]_(Fifo!vars)
  BY FifoStep
<1> QED BY <1>1, <1>2, <1>3, PTL DEF Spec, ImplementsFifo, Fifo!Spec

=============================================================================
