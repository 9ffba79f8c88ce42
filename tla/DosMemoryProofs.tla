-------------------------- MODULE DosMemoryProofs --------------------------
(***************************************************************************)
(* Theorems about the DOS memory arena.  What each helper makes of a chain *)
(* is stated by a lemma; the invariant then follows from the lemmas.       *)
(***************************************************************************)
EXTENDS DosMemoryProps, WellFoundedInduction, NaturalsInduction, TLAPS

\* A set of natural numbers that is not empty has a number before which there
\* is a gap, or 0.
LEMMA FirstNatural ==
  ASSUME NEW S, S \subseteq Nat, S # {}
  PROVE  \E n \in S : \A k \in S : n <= k
<1>1. PICK n \in S : \A k \in S : ~(<<k, n>> \in OpToRel(<, Nat))
  BY NatLessThanWellFounded, WFMin
<1>2. \A k \in S : ~(k < n)
  BY <1>1 DEF OpToRel
<1> QED
  BY <1>2

LEMMA MinFacts ==
  ASSUME NEW S, S \subseteq Nat, S # {}
  PROVE  Min(S) \in S /\ \A k \in S : Min(S) <= k
<1>1. \E n \in S : \A k \in S : n <= k
  BY FirstNatural
<1> QED
  BY <1>1, Zenon DEF Min

LEMMA MaxFacts ==
  ASSUME NEW S, NEW l \in Nat, S \subseteq 0..l, S # {}
  PROVE  Max(S) \in S /\ \A k \in S : k <= Max(S)
<1> DEFINE D == {l - k : k \in S}
<1>1. D \subseteq Nat /\ D # {}
  <2>1. \A k \in S : k \in Nat /\ k <= l /\ l - k \in Nat
    OBVIOUS
  <2> QED
    BY <2>1
<1>2. PICK n \in D : \A k \in D : n <= k
  <2> HIDE DEF D
  <2> QED
    BY <1>1, FirstNatural
<1>3. PICK x \in S : n = l - x
  OBVIOUS
<1>4. \A k \in S : x >= k
  <2> SUFFICES ASSUME NEW k \in S PROVE x >= k
    OBVIOUS
  <2>1. l - x <= l - k
    BY <1>2, <1>3
  <2>2. k \in Nat /\ x \in Nat
    OBVIOUS
  <2> QED
    BY <2>1, <2>2
<1>5. Max(S) \in S /\ \A k \in S : Max(S) >= k
  BY <1>4, Zenon DEF Max
<1>6. \A k \in S : k \in Nat
  OBVIOUS
<1> QED
  BY <1>5, <1>6

-----------------------------------------------------------------------------
(* The arena.                                                              *)

\* The headers lie one behind the other, each block ends where the next one
\* begins or at the end of the memory, and upper memory begins with a block of
\* its own ...
Arena(m) ==
  /\ m \in [DOMAIN m -> [type : {"M", "Z"}, psp : {FREE, DOS} \cup 1..LastSeg, size : Nat]]
  /\ DOMAIN m \subseteq firstMCB..LastSeg
  /\ firstMCB \in DOMAIN m
  /\ UMB_START_SEG \in DOMAIN m /\ m[UMB_START_SEG].psp = DOS
  /\ \A s \in DOMAIN m : NextSeg(m, s) \in DOMAIN m \cup {LastSeg + 1}
  /\ \A s, t \in DOMAIN m : s < t => NextSeg(m, s) <= t

\* ... and a block is marked as the last one where a chain ends.
Ends(m, on) ==
  \A s \in DOMAIN m :
    m[s].type = "Z" <=> \/ NextSeg(m, s) = LastSeg + 1
                        \/ ~on /\ NextSeg(m, s) = UMB_START_SEG

LEMMA Bounds ==
  /\ firstMCB = 1 /\ UMB_START_SEG \in Nat /\ LastSeg \in Nat
  /\ firstMCB + 3 < UMB_START_SEG /\ UMB_START_SEG < LastSeg + 1
  /\ FREE = 0 /\ DOS = -1
BY ArenaAssumption DEF firstMCB, LastSeg, first_umb_seg, FREE, DOS

LEMMA HeaderFacts ==
  ASSUME NEW m, Arena(m), NEW s \in DOMAIN m
  PROVE  /\ s \in Nat /\ firstMCB <= s /\ s <= LastSeg
         /\ m[s].size \in Nat /\ m[s].type \in {"M", "Z"}
         /\ m[s].psp \in {FREE, DOS} \cup 1..LastSeg
         /\ m[s] = MCB(m[s].type, m[s].psp, m[s].size)
         /\ NextSeg(m, s) = s + m[s].size + 1
         /\ NextSeg(m, s) \in Nat /\ s < NextSeg(m, s) /\ NextSeg(m, s) <= LastSeg + 1
         /\ NextSeg(m, s) \in DOMAIN m \cup {LastSeg + 1}
         /\ \A t \in DOMAIN m : s < t => NextSeg(m, s) <= t
<1>1. /\ m[s] \in [type : {"M", "Z"}, psp : {FREE, DOS} \cup 1..LastSeg, size : Nat]
      /\ s \in firstMCB..LastSeg
      /\ NextSeg(m, s) \in DOMAIN m \cup {LastSeg + 1}
      /\ \A t \in DOMAIN m : s < t => NextSeg(m, s) <= t
      /\ DOMAIN m \subseteq firstMCB..LastSeg
  BY DEF Arena
<1>2. m[s].size \in Nat /\ m[s].type \in {"M", "Z"} /\ m[s].psp \in {FREE, DOS} \cup 1..LastSeg
  BY <1>1
<1>3. m[s] = MCB(m[s].type, m[s].psp, m[s].size)
  BY <1>1 DEF MCB
<1>4. s \in Nat /\ firstMCB <= s /\ s <= LastSeg
  BY <1>1, Bounds
<1>5. NextSeg(m, s) = s + m[s].size + 1
  BY DEF NextSeg
<1>6. NextSeg(m, s) <= LastSeg + 1
  BY <1>1, <1>2, <1>4, <1>5, Bounds
<1> QED
  BY <1>1, <1>2, <1>3, <1>4, <1>5, <1>6

-----------------------------------------------------------------------------
(* Chains, by induction along them.                                        *)

\* The headers from s on, up to the upper memory if that is not linked.
Onward(m, on, s) ==
  {t \in DOMAIN m : s <= t /\ (~on /\ s < UMB_START_SEG => t < UMB_START_SEG)}

\* w is a walk of the chains of m from every header.
Walk(m, w) ==
  w = [t \in DOMAIN m |-> {t} \cup IF m[t].type = "Z" THEN {} ELSE w[NextSeg(m, t)]]

LEMMA OnwardStep ==
  ASSUME NEW m, NEW on \in BOOLEAN, Arena(m), Ends(m, on), NEW s \in DOMAIN m
  PROVE  /\ m[s].type # "Z" => NextSeg(m, s) \in DOMAIN m
         /\ Onward(m, on, s) =
              {s} \cup IF m[s].type = "Z" THEN {} ELSE Onward(m, on, NextSeg(m, s))
<1> DEFINE n == NextSeg(m, s)
<1>1. /\ s \in Nat /\ n \in Nat /\ s < n /\ n \in DOMAIN m \cup {LastSeg + 1}
      /\ \A t \in DOMAIN m : s < t => n <= t
  BY HeaderFacts, Zenon
<1>2. m[s].type = "Z" <=> n = LastSeg + 1 \/ (~on /\ n = UMB_START_SEG)
  BY DEF Ends
<1>3. UMB_START_SEG \in DOMAIN m /\ UMB_START_SEG \in Nat /\ LastSeg \in Nat
  BY Bounds DEF Arena
<1>4. \A t \in DOMAIN m : t \in Nat /\ t <= LastSeg
  BY HeaderFacts, Zenon
<1> HIDE DEF n
<1>5. CASE m[s].type = "Z"
  <2>1. \A t \in Onward(m, on, s) : t = s
    BY <1>1, <1>2, <1>3, <1>4, <1>5 DEF Onward
  <2>2. s \in Onward(m, on, s)
    BY <1>1 DEF Onward
  <2> QED
    BY <2>1, <2>2, <1>5
<1>6. CASE m[s].type # "Z"
  <2>1. n \in DOMAIN m
    BY <1>1, <1>2, <1>6
  <2>2. ~on /\ s < UMB_START_SEG <=> ~on /\ n < UMB_START_SEG
    BY <1>1, <1>2, <1>3, <1>6
  <2>3. \A t \in DOMAIN m : s <= t <=> t = s \/ n <= t
    BY <1>1, <1>4
  <2>4. Onward(m, on, s) = {s} \cup Onward(m, on, n)
    BY <2>1, <2>2, <2>3, <1>1 DEF Onward
  <2> QED
    BY <2>1, <2>4, <1>6 DEF n
<1> QED
  BY <1>5, <1>6

LEMMA WalkIsOnward ==
  ASSUME NEW m, NEW on \in BOOLEAN, Arena(m), Ends(m, on), NEW w, Walk(m, w),
         NEW s \in DOMAIN m
  PROVE  w[s] = Onward(m, on, s)
<1> DEFINE Wrong == {t \in DOMAIN m : w[t] # Onward(m, on, t)}
           D == {LastSeg - t : t \in Wrong}
<1>1. \A t \in DOMAIN m : t \in Nat /\ t <= LastSeg
  BY HeaderFacts, Zenon
<1> SUFFICES ASSUME Wrong # {} PROVE FALSE
  OBVIOUS
<1>2. D \subseteq Nat /\ D # {}
  BY <1>1, Bounds
<1>3. PICK d \in D : \A k \in D : d <= k
  <2> HIDE DEF D
  <2> QED
    BY <1>2, FirstNatural
<1>4. PICK t \in Wrong : d = LastSeg - t
  OBVIOUS
<1>5. w[t] = {t} \cup IF m[t].type = "Z" THEN {} ELSE w[NextSeg(m, t)]
  BY DEF Walk
<1>6. /\ m[t].type # "Z" => NextSeg(m, t) \in DOMAIN m
      /\ Onward(m, on, t) =
           {t} \cup IF m[t].type = "Z" THEN {} ELSE Onward(m, on, NextSeg(m, t))
  BY OnwardStep
<1>7. m[t].type # "Z" /\ NextSeg(m, t) \in Wrong
  BY <1>5, <1>6
<1>8. t < NextSeg(m, t) /\ t \in Nat /\ NextSeg(m, t) \in Nat
  BY HeaderFacts, Zenon
<1>9. LastSeg - NextSeg(m, t) \in D
  BY <1>7
<1> QED
  BY <1>3, <1>4, <1>8, <1>9, Bounds

LEMMA ChainIsOnward ==
  ASSUME NEW m, NEW on \in BOOLEAN, Arena(m), Ends(m, on), NEW s \in DOMAIN m
  PROVE  Chain(m, s) = Onward(m, on, s)
<1> DEFINE o == [t \in DOMAIN m |-> Onward(m, on, t)]
           w == CHOOSE f : Walk(m, f)
<1>1. Walk(m, o)
  <2>1. ASSUME NEW t \in DOMAIN m
        PROVE  Onward(m, on, t) =
                 {t} \cup IF m[t].type = "Z" THEN {} ELSE o[NextSeg(m, t)]
    BY OnwardStep
  <2> QED
    BY <2>1 DEF Walk
<1>2. Walk(m, w)
  BY <1>1
<1>3. Chain(m, s) = w[s]
  BY DEF Chain, Walk
<1> QED
  BY <1>2, <1>3, WalkIsOnward

-----------------------------------------------------------------------------
(* Blocks that are split, joined, given to another owner.                  *)

Owners == {FREE, DOS} \cup 1..LastSeg

\* The header at t is as an arena needs it.
Header(c, t) ==
  /\ t \in firstMCB..LastSeg
  /\ \E type \in {"M", "Z"}, psp \in Owners, size \in Nat : c[t] = MCB(type, psp, size)
  /\ NextSeg(c, t) \in DOMAIN c \cup {LastSeg + 1}
  /\ \A u \in DOMAIN c : t < u => NextSeg(c, t) <= u

LEMMA ArenaIntro ==
  ASSUME NEW c,
         c = [t \in DOMAIN c |-> c[t]],
         \A t \in DOMAIN c : Header(c, t),
         firstMCB \in DOMAIN c,
         UMB_START_SEG \in DOMAIN c, c[UMB_START_SEG].psp = DOS
  PROVE  Arena(c)
<1>1. \A t \in DOMAIN c : c[t] \in [type : {"M", "Z"}, psp : Owners, size : Nat]
  <2> SUFFICES ASSUME NEW t \in DOMAIN c
               PROVE  c[t] \in [type : {"M", "Z"}, psp : Owners, size : Nat]
    OBVIOUS
  <2>1. PICK type \in {"M", "Z"}, psp \in Owners, size \in Nat : c[t] = MCB(type, psp, size)
    BY DEF Header
  <2> QED
    BY <2>1 DEF MCB
<1>2. c \in [DOMAIN c -> [type : {"M", "Z"}, psp : Owners, size : Nat]]
  BY <1>1, Zenon
<1> QED
  BY <1>2, Zenon DEF Arena, Owners, Header

\* The block at s, split before the header at h.
Split(m, s, h, p1, p2) ==
  Put(Put(m, s, MCB("M", p1, h - s - 1)), h, MCB(m[s].type, p2, NextSeg(m, s) - h - 1))

IsSplit(m, on, c, s, h, p1, p2) ==
  /\ Arena(c) /\ Ends(c, on)
  /\ h \notin DOMAIN m /\ DOMAIN c = DOMAIN m \cup {h}
  /\ c[s] = MCB("M", p1, h - s - 1)
  /\ c[h] = MCB(m[s].type, p2, NextSeg(m, s) - h - 1)
  /\ \A t \in DOMAIN m \ {s} : c[t] = m[t]

LEMMA SplitFacts ==
  ASSUME NEW m, NEW on \in BOOLEAN, Arena(m), Ends(m, on),
         NEW s \in DOMAIN m, s # UMB_START_SEG,
         NEW h \in Nat, s < h, h < NextSeg(m, s),
         NEW p1 \in Owners, NEW p2 \in Owners,
         NEW c, c = Split(m, s, h, p1, p2)
  PROVE  IsSplit(m, on, c, s, h, p1, p2)
<1> DEFINE n == NextSeg(m, s)
           b == Put(m, s, MCB("M", p1, h - s - 1))
<1>1. /\ s \in Nat /\ n \in Nat /\ n <= LastSeg + 1 /\ firstMCB <= s
      /\ n \in DOMAIN m \cup {LastSeg + 1} /\ m[s].type \in {"M", "Z"}
      /\ \A t \in DOMAIN m : s < t => n <= t
  BY HeaderFacts, Zenon
<1>2. \A t \in DOMAIN m : t \in Nat /\ firstMCB <= t /\ t <= LastSeg
  BY HeaderFacts, Zenon
<1>3. h \notin DOMAIN m /\ h # s
  BY <1>1, <1>2
<1>4. /\ DOMAIN b = DOMAIN m /\ b[s] = MCB("M", p1, h - s - 1)
      /\ \A t \in DOMAIN m \ {s} : b[t] = m[t]
  <2> DEFINE v == MCB("M", p1, h - s - 1)
  <2>1. b = Put(m, s, v)
    OBVIOUS
  <2> HIDE DEF b, v
  <2>2. /\ DOMAIN b = DOMAIN m \cup {s} /\ b[s] = v
        /\ \A t \in DOMAIN m \ {s} : b[t] = m[t]
    BY <2>1 DEF Put
  <2> QED
    BY <2>2 DEF v
<1>5. /\ DOMAIN c = DOMAIN m \cup {h} /\ c = [t \in DOMAIN c |-> c[t]]
      /\ c[h] = MCB(m[s].type, p2, n - h - 1)
      /\ \A t \in DOMAIN b \ {h} : c[t] = b[t]
  <2> DEFINE v == MCB(m[s].type, p2, n - h - 1)
  <2>1. c = Put(b, h, v)
    BY DEF Split
  <2> HIDE DEF b, v
  <2>2. /\ DOMAIN c = DOMAIN b \cup {h} /\ c = [t \in DOMAIN c |-> c[t]] /\ c[h] = v
        /\ \A t \in DOMAIN b \ {h} : c[t] = b[t]
    BY <2>1 DEF Put
  <2> QED
    BY <1>4, <2>2, Zenon DEF v
<1>6. c[s] = MCB("M", p1, h - s - 1) /\ \A t \in DOMAIN m \ {s} : c[t] = m[t]
  BY <1>3, <1>4, <1>5, Zenon
<1> HIDE DEF n, b
<1>7. h - s - 1 \in Nat /\ n - h - 1 \in Nat
  BY <1>1 DEF n
<1>8. NextSeg(c, s) = h /\ NextSeg(c, h) = n
  BY <1>1, <1>5, <1>6 DEF NextSeg, MCB
<1>9. \A t \in DOMAIN m \ {s} : NextSeg(c, t) = NextSeg(m, t)
  BY <1>6 DEF NextSeg
<1>10. Arena(c)
  <2>1. ASSUME NEW t \in DOMAIN m \ {s}
        PROVE  /\ \E type \in {"M", "Z"}, psp \in Owners, size \in Nat :
                    c[t] = MCB(type, psp, size)
               /\ NextSeg(c, t) \in DOMAIN c \cup {LastSeg + 1}
               /\ \A u \in DOMAIN c : t < u => NextSeg(c, t) <= u
    <3>1. /\ t \in Nat /\ m[t].size \in Nat /\ m[t].type \in {"M", "Z"}
          /\ m[t].psp \in Owners /\ m[t] = MCB(m[t].type, m[t].psp, m[t].size)
          /\ NextSeg(m, t) \in DOMAIN m \cup {LastSeg + 1}
          /\ NextSeg(m, t) \in Nat
          /\ \A u \in DOMAIN m : t < u => NextSeg(m, t) <= u
      BY <2>1, HeaderFacts, Zenon DEF Owners
    <3>2. \E type \in {"M", "Z"}, psp \in Owners, size \in Nat : c[t] = MCB(type, psp, size)
      BY <2>1, <3>1, <1>6, Zenon
    <3>3. t < h => NextSeg(m, t) <= h
      BY <3>1, <1>1, <1>2, <2>1 DEF n
    <3> QED
      BY <2>1, <3>1, <3>2, <3>3, <1>5, <1>9
  <2>2. /\ \E type \in {"M", "Z"}, psp \in Owners, size \in Nat : c[s] = MCB(type, psp, size)
        /\ \E type \in {"M", "Z"}, psp \in Owners, size \in Nat : c[h] = MCB(type, psp, size)
    BY <1>1, <1>5, <1>6, <1>7
  <2>3. \A u \in DOMAIN c : s < u => h <= u
    BY <1>1, <1>2, <1>5 DEF n
  <2>4. \A u \in DOMAIN c : h < u => n <= u
    BY <1>1, <1>2, <1>5 DEF n
  <2>5. NextSeg(c, h) \in DOMAIN c \cup {LastSeg + 1} /\ h \in DOMAIN c
    BY <1>1, <1>5, <1>8 DEF n
  <2>6. \A t \in DOMAIN c : t \in firstMCB..LastSeg
    BY <1>1, <1>2, <1>5, Bounds DEF n
  <2>7. \A t \in DOMAIN c : t = s \/ t = h \/ t \in DOMAIN m \ {s}
    BY <1>5
  <2>8. /\ firstMCB \in DOMAIN c /\ UMB_START_SEG \in DOMAIN c
        /\ c[UMB_START_SEG].psp = DOS
    BY <1>5, <1>6 DEF Arena
  <2>9. \A t \in DOMAIN c : Header(c, t)
    BY <2>1, <2>2, <2>3, <2>4, <2>5, <2>6, <2>7, <1>8 DEF Header
  <2>10. c = [t \in DOMAIN c |-> c[t]]
    BY <1>5
  <2> QED
    BY <2>8, <2>9, <2>10, ArenaIntro, Zenon
<1>11. Ends(c, on)
  <2>1. UMB_START_SEG \in DOMAIN m
    BY DEF Arena
  <2>2. h # LastSeg + 1 /\ h # UMB_START_SEG
    BY <1>1, <1>3, <2>1, Bounds DEF n
  <2>3. c[s].type = "M" /\ c[h].type = m[s].type
    BY <1>5, <1>6 DEF MCB
  <2>4. \A t \in DOMAIN c : t = s \/ t = h \/ t \in DOMAIN m \ {s}
    BY <1>5
  <2>5. m[s].type = "Z" <=> n = LastSeg + 1 \/ (~on /\ n = UMB_START_SEG)
    BY DEF Ends, n
  <2>6. \A t \in DOMAIN m \ {s} :
          c[t].type = "Z" <=> NextSeg(c, t) = LastSeg + 1
                                \/ (~on /\ NextSeg(c, t) = UMB_START_SEG)
    BY <1>6, <1>9 DEF Ends
  <2> QED
    BY <2>2, <2>3, <2>4, <2>5, <2>6, <1>8 DEF Ends
<1> QED
  BY <1>3, <1>5, <1>6, <1>10, <1>11, Zenon DEF n, IsSplit

IsTakenFirst(m, on, c, s, n, psp) ==
  /\ Arena(c) /\ Ends(c, on)
  /\ s + n + 1 \notin DOMAIN m /\ DOMAIN c = DOMAIN m \cup {s + n + 1}
  /\ c[s] = MCB("M", psp, n) /\ c[s + n + 1].psp = FREE
  /\ \A t \in DOMAIN m \ {s} : c[t] = m[t]

LEMMA TakeFirstFacts ==
  ASSUME NEW m, NEW on \in BOOLEAN, Arena(m), Ends(m, on),
         NEW s \in DOMAIN m, s # UMB_START_SEG,
         NEW n \in Nat, n < m[s].size, NEW psp \in Owners,
         NEW c, c = TakeFirst(m, s, n, psp)
  PROVE  IsTakenFirst(m, on, c, s, n, psp)
<1> DEFINE h == s + n + 1
<1>1. s \in Nat /\ m[s].size \in Nat /\ NextSeg(m, s) = s + m[s].size + 1
  BY HeaderFacts, Zenon
<1>2. /\ h \in Nat /\ s < h /\ h < NextSeg(m, s)
      /\ h - s - 1 = n /\ NextSeg(m, s) - h - 1 = m[s].size - n - 1
  BY <1>1
<1>3. c = Split(m, s, h, psp, FREE)
  BY <1>2 DEF TakeFirst, Split
<1>4. FREE \in Owners
  BY DEF Owners
<1> HIDE DEF h
<1>5. IsSplit(m, on, c, s, h, psp, FREE)
  BY <1>2, <1>3, <1>4, SplitFacts, Zenon
<1>6. c[h].psp = FREE
  BY <1>5 DEF MCB, IsSplit
<1> QED
  BY <1>2, <1>5, <1>6 DEF h, IsSplit, IsTakenFirst

LEMMA TakeLastFacts ==
  ASSUME NEW m, NEW on \in BOOLEAN, Arena(m), Ends(m, on),
         NEW s \in DOMAIN m, s # UMB_START_SEG,
         NEW n \in Nat, n < m[s].size, NEW psp \in Owners,
         NEW c, c = TakeLast(m, s, n, psp),
         NEW h, h = s + m[s].size - n
  PROVE  /\ Arena(c) /\ Ends(c, on)
         /\ h \notin DOMAIN m /\ DOMAIN c = DOMAIN m \cup {h}
         /\ c[s].psp = FREE /\ c[h].psp = psp /\ c[h].size = n
         /\ \A t \in DOMAIN m \ {s} : c[t] = m[t]
<1>1. s \in Nat /\ m[s].size \in Nat /\ NextSeg(m, s) = s + m[s].size + 1
  BY HeaderFacts, Zenon
<1>2. /\ h \in Nat /\ s < h /\ h < NextSeg(m, s)
      /\ h - s - 1 = m[s].size - n - 1 /\ NextSeg(m, s) - h - 1 = n
      /\ s + (m[s].size - n - 1) + 1 = h
  BY <1>1
<1>3. c = Split(m, s, h, FREE, psp)
  BY <1>2 DEF TakeLast, Split
<1>4. FREE \in Owners
  BY DEF Owners
<1>5. IsSplit(m, on, c, s, h, FREE, psp)
  BY <1>2, <1>3, <1>4, SplitFacts, Zenon
<1>6. c[h].psp = psp /\ c[h].size = n /\ c[s].psp = FREE
  BY <1>2, <1>5 DEF MCB, IsSplit
<1> QED
  BY <1>5, <1>6 DEF IsSplit

\* c has the blocks of m, whoever owns them and however they are marked.
SameBlocks(m, c) ==
  /\ DOMAIN c = DOMAIN m /\ c = [t \in DOMAIN c |-> c[t]]
  /\ \A t \in DOMAIN m :
       \E type \in {"M", "Z"}, psp \in Owners : c[t] = MCB(type, psp, m[t].size)

LEMMA SameBlocksArena ==
  ASSUME NEW m, Arena(m), NEW c, SameBlocks(m, c), c[UMB_START_SEG].psp = DOS
  PROVE  Arena(c)
<1>1. ASSUME NEW t \in DOMAIN c
      PROVE  Header(c, t)
  <2>1. t \in DOMAIN m
    BY DEF SameBlocks
  <2>2. PICK type \in {"M", "Z"}, psp \in Owners : c[t] = MCB(type, psp, m[t].size)
    BY <2>1 DEF SameBlocks
  <2>3. /\ t \in Nat /\ m[t].size \in Nat /\ firstMCB <= t /\ t <= LastSeg
        /\ NextSeg(m, t) \in DOMAIN m \cup {LastSeg + 1}
        /\ \A u \in DOMAIN m : t < u => NextSeg(m, t) <= u
    BY <2>1, HeaderFacts, Zenon
  <2>4. NextSeg(c, t) = NextSeg(m, t)
    BY <2>2 DEF NextSeg, MCB
  <2>5. t \in firstMCB..LastSeg
    BY <2>3, Bounds
  <2>6. \E y \in {"M", "Z"}, p \in Owners, z \in Nat : c[t] = MCB(y, p, z)
    BY <2>2, <2>3
  <2> QED
    BY <2>3, <2>4, <2>5, <2>6 DEF Header, SameBlocks
<1>2. /\ firstMCB \in DOMAIN c /\ UMB_START_SEG \in DOMAIN c
      /\ c = [t \in DOMAIN c |-> c[t]]
  BY DEF SameBlocks, Arena
<1> QED
  BY <1>1, <1>2, ArenaIntro, Zenon

\* A block that is not the one below the upper memory goes to another owner.
IsGivenAway(m, on, c, s, psp) ==
  /\ Arena(c) /\ Ends(c, on) /\ DOMAIN c = DOMAIN m
  /\ c[s] = MCB(m[s].type, psp, m[s].size)
  /\ \A t \in DOMAIN m \ {s} : c[t] = m[t]

LEMMA OwnerFacts ==
  ASSUME NEW m, NEW on \in BOOLEAN, Arena(m), Ends(m, on),
         NEW s \in DOMAIN m, s # UMB_START_SEG, NEW psp \in Owners,
         NEW c, c = [m EXCEPT ![s].psp = psp]
  PROVE  IsGivenAway(m, on, c, s, psp)
<1>0. m = [t \in DOMAIN m |-> m[t]]
  BY DEF Arena
<1>1. \A t \in DOMAIN m : /\ m[t].size \in Nat /\ m[t].type \in {"M", "Z"} /\ m[t].psp \in Owners
                          /\ m[t] = MCB(m[t].type, m[t].psp, m[t].size)
  BY HeaderFacts, Zenon DEF Owners
<1>2. /\ DOMAIN c = DOMAIN m /\ c = [t \in DOMAIN c |-> c[t]]
      /\ \A t \in DOMAIN m \ {s} : c[t] = m[t]
  BY <1>0
<1>3. c[s] = MCB(m[s].type, psp, m[s].size)
  <2>1. c[s] = [m[s] EXCEPT !.psp = psp]
    BY <1>0
  <2>2. m[s] = MCB(m[s].type, m[s].psp, m[s].size)
    BY <1>1
  <2> DEFINE y == m[s].type
             p == m[s].psp
             z == m[s].size
  <2>3. c[s] = [MCB(y, p, z) EXCEPT !.psp = psp]
    BY <2>1, <2>2
  <2> HIDE DEF y, p, z
  <2>4. c[s] = MCB(y, psp, z)
    BY <2>3 DEF MCB
  <2> QED
    BY <2>4 DEF y, z
<1>4. SameBlocks(m, c)
  <2>1. ASSUME NEW t \in DOMAIN m
        PROVE  \E type \in {"M", "Z"}, p \in Owners : c[t] = MCB(type, p, m[t].size)
    BY <1>1, <1>2, <1>3
  <2> QED
    BY <2>1, <1>2 DEF SameBlocks
<1>5. c[UMB_START_SEG].psp = DOS
  BY <1>2 DEF Arena
<1>6. Arena(c)
  BY <1>4, <1>5, SameBlocksArena, Zenon
<1>7. Ends(c, on)
  <2>1. ASSUME NEW t \in DOMAIN c
        PROVE  c[t].type = m[t].type /\ NextSeg(c, t) = NextSeg(m, t)
    BY <1>2, <1>3 DEF NextSeg, MCB
  <2>2. ASSUME NEW t \in DOMAIN c
        PROVE  c[t].type = "Z" <=> NextSeg(c, t) = LastSeg + 1
                                     \/ (~on /\ NextSeg(c, t) = UMB_START_SEG)
    <3>1. t \in DOMAIN m
      BY <1>2
    <3>2. m[t].type = "Z" <=> NextSeg(m, t) = LastSeg + 1
                                \/ (~on /\ NextSeg(m, t) = UMB_START_SEG)
      BY <3>1 DEF Ends
    <3> QED
      BY <2>1, <3>2
  <2> QED
    BY <2>2 DEF Ends
<1> QED
  BY <1>2, <1>3, <1>6, <1>7, Zenon DEF IsGivenAway

\* A block takes in the one behind it.
LEMMA JoinFacts ==
  ASSUME NEW m, NEW on \in BOOLEAN, Arena(m), Ends(m, on),
         NEW s \in DOMAIN m, NextSeg(m, s) \in DOMAIN m,
         NextSeg(m, s) # UMB_START_SEG, s # UMB_START_SEG,
         NEW c, c = Joined(m, s)
  PROVE  /\ Arena(c) /\ Ends(c, on) /\ DOMAIN c = DOMAIN m \ {NextSeg(m, s)}
         /\ c[s].psp = m[s].psp /\ c[s].size \in Nat /\ c[s].size > m[s].size
         /\ \A t \in DOMAIN m \ {s, NextSeg(m, s)} : c[t] = m[t]
<1> DEFINE n == NextSeg(m, s)
           e == NextSeg(m, n)
           b == Without(m, n)
           v == MCB(m[n].type, m[s].psp, m[s].size + m[n].size + 1)
<1>1. /\ s \in Nat /\ m[s].size \in Nat /\ m[s].psp \in Owners
      /\ n = s + m[s].size + 1 /\ s < n /\ n \in Nat
      /\ \A t \in DOMAIN m : s < t => n <= t
  BY HeaderFacts, Zenon DEF Owners
<1>2. /\ m[n].size \in Nat /\ m[n].type \in {"M", "Z"}
      /\ e = n + m[n].size + 1 /\ n < e /\ e \in Nat
      /\ e \in DOMAIN m \cup {LastSeg + 1}
      /\ \A t \in DOMAIN m : n < t => e <= t
  BY HeaderFacts, Zenon
<1>3. c = Put(b, s, v)
  BY DEF Joined
<1>4. m[s].size + m[n].size + 1 \in Nat
  BY <1>1, <1>2
<1> HIDE DEF b, v, n, e
<1>5. DOMAIN b = DOMAIN m \ {n} /\ \A t \in DOMAIN m \ {n} : b[t] = m[t]
  BY DEF b, Without
<1>6. /\ DOMAIN c = DOMAIN m \ {n} /\ c = [t \in DOMAIN c |-> c[t]]
      /\ c[s] = v /\ \A t \in DOMAIN m \ {s, n} : c[t] = m[t]
  BY <1>1, <1>3, <1>5 DEF Put
<1>7. NextSeg(c, s) = e
  BY <1>1, <1>2, <1>6 DEF NextSeg, v, MCB
<1>8. \A t \in DOMAIN m \ {s, n} : NextSeg(c, t) = NextSeg(m, t)
  BY <1>6 DEF NextSeg
<1>9. \A t \in DOMAIN c : Header(c, t)
  <2>1. Header(c, s)
    <3>1. \E type \in {"M", "Z"}, psp \in Owners, size \in Nat : c[s] = MCB(type, psp, size)
      BY <1>1, <1>2, <1>4, <1>6 DEF v
    <3>2. \A u \in DOMAIN c : s < u => e <= u
      <4>1. \A u \in DOMAIN m : u \in Nat
        BY HeaderFacts, Zenon
      <4> QED
        BY <1>1, <1>2, <1>6, <4>1
    <3>3. e \in DOMAIN c \cup {LastSeg + 1}
      BY <1>2, <1>6
    <3>4. s \in firstMCB..LastSeg
      BY DEF Arena
    <3> QED
      BY <3>1, <3>2, <3>3, <3>4, <1>7 DEF Header
  <2>2. ASSUME NEW t \in DOMAIN m \ {s, n}
        PROVE  Header(c, t)
    <3>1. /\ t \in Nat /\ m[t].size \in Nat /\ m[t].type \in {"M", "Z"}
          /\ m[t].psp \in Owners /\ m[t] = MCB(m[t].type, m[t].psp, m[t].size)
          /\ NextSeg(m, t) \in DOMAIN m \cup {LastSeg + 1}
          /\ NextSeg(m, t) \in Nat /\ t < NextSeg(m, t)
          /\ \A u \in DOMAIN m : t < u => NextSeg(m, t) <= u
      BY <2>2, HeaderFacts, Zenon DEF Owners
    <3>2. \E type \in {"M", "Z"}, psp \in Owners, size \in Nat : c[t] = MCB(type, psp, size)
      BY <2>2, <3>1, <1>6, Zenon
    <3>3. NextSeg(m, t) # n
      <4>1. CASE t < s
        BY <4>1, <3>1, <1>1
      <4>2. CASE s < t
        <5>1. n <= t
          BY <4>2, <1>1
        <5> QED
          BY <5>1, <3>1, <1>1
      <4> QED
        BY <4>1, <4>2, <1>1, <3>1, <2>2
    <3>4. t \in firstMCB..LastSeg
      BY DEF Arena
    <3>5. NextSeg(m, t) \in DOMAIN c \cup {LastSeg + 1}
      BY <3>1, <3>3, <1>6
    <3>6. NextSeg(c, t) = NextSeg(m, t)
      BY <1>8, <2>2
    <3>7. \A u \in DOMAIN c : t < u => NextSeg(m, t) <= u
      BY <3>1, <1>6
    <3> QED
      BY <3>2, <3>4, <3>5, <3>6, <3>7 DEF Header
  <2> QED
    BY <2>1, <2>2, <1>6
<1>10. /\ firstMCB \in DOMAIN c /\ UMB_START_SEG \in DOMAIN c /\ c[UMB_START_SEG].psp = DOS
  <2>1. firstMCB \in Nat /\ firstMCB <= s
    BY HeaderFacts, Bounds
  <2>2. firstMCB # n
    BY <2>1, <1>1
  <2> QED
    BY <2>2, <1>6 DEF Arena, n
<1>11. Arena(c)
  BY <1>6, <1>9, <1>10, ArenaIntro, Zenon
<1>12. Ends(c, on)
  <2>1. m[n].type = "Z" <=> e = LastSeg + 1 \/ (~on /\ e = UMB_START_SEG)
    BY DEF Ends, n, e
  <2>2. c[s].type = m[n].type
    BY <1>6 DEF v, MCB
  <2>3. \A t \in DOMAIN m \ {s, n} :
          c[t].type = "Z" <=> NextSeg(c, t) = LastSeg + 1
                                \/ (~on /\ NextSeg(c, t) = UMB_START_SEG)
    BY <1>6, <1>8 DEF Ends
  <2>4. \A t \in DOMAIN c : t = s \/ t \in DOMAIN m \ {s, n}
    BY <1>6
  <2> QED
    BY <2>1, <2>2, <2>3, <2>4, <1>7 DEF Ends
<1>13. c[s].psp = m[s].psp /\ c[s].size = m[s].size + m[n].size + 1
  BY <1>6 DEF v, MCB
<1> QED
  BY <1>1, <1>2, <1>4, <1>6, <1>11, <1>12, <1>13 DEF n

-----------------------------------------------------------------------------
(* Free blocks that are combined.                                          *)

Low(m, on) == Onward(m, on, firstMCB)

LEMMA LowFacts ==
  ASSUME NEW m, NEW on \in BOOLEAN, Arena(m), Ends(m, on)
  PROVE  /\ Chain(m, firstMCB) = Low(m, on)
         /\ Low(m, on) = {t \in DOMAIN m : on \/ t < UMB_START_SEG}
         /\ Chain(m, UMB_START_SEG) = {t \in DOMAIN m : UMB_START_SEG <= t}
<1>1. firstMCB \in DOMAIN m /\ UMB_START_SEG \in DOMAIN m
  BY DEF Arena
<1>2. /\ Chain(m, firstMCB) = Onward(m, on, firstMCB)
      /\ Chain(m, UMB_START_SEG) = Onward(m, on, UMB_START_SEG)
  BY <1>1, ChainIsOnward, Zenon
<1>3. \A t \in DOMAIN m : t \in Nat /\ firstMCB <= t
  BY HeaderFacts, Zenon
<1> QED
  BY <1>2, <1>3, Bounds DEF Low, Onward

\* The free blocks behind another one of conventional memory.
FreeBehindFree(m, on, first) ==
  {t \in DOMAIN m : /\ IsFree(m, t)
                    /\ \E s \in Low(m, on) :
                         /\ s >= first /\ IsFree(m, s)
                         /\ m[s].type # "Z" /\ NextSeg(m, s) = t}

LEMMA AbsorbedFacts ==
  ASSUME NEW m, NEW on \in BOOLEAN, Arena(m), Ends(m, on), NEW first
  PROVE  Absorbed(m, first) = FreeBehindFree(m, on, first)
<1>1. Chain(m, firstMCB) = Low(m, on)
  BY LowFacts, Zenon
<1> QED
  BY <1>1 DEF Absorbed, FreeBehindFree

\* The block at s ends in c where the block at e ended in m, the last one of
\* those behind it that are gone.
Takes(m, c, gone, s, e) ==
  /\ e \in gone \cup {s} /\ s <= e
  /\ \A u \in DOMAIN m : s < u /\ u <= e => u \in gone
  /\ NextSeg(m, e) \notin gone
  /\ c[s] = MCB(m[e].type, m[s].psp, e + m[e].size - s)

LEMMA CompressShape ==
  ASSUME NEW m, NEW on \in BOOLEAN, Arena(m), Ends(m, on), NEW first,
         NEW c, c = CompressMemory(m, first),
         NEW gone, gone = Absorbed(m, first)
  PROVE  /\ DOMAIN c = DOMAIN m \ gone /\ c = [t \in DOMAIN c |-> c[t]]
         /\ \A s \in DOMAIN c : \E e \in DOMAIN m : Takes(m, c, gone, s, e)
<1>1. \A t \in DOMAIN m : t \in Nat /\ t <= LastSeg
  BY HeaderFacts, Zenon
<1>2. CASE gone = {}
  <2>1. c = m
    BY <1>2 DEF CompressMemory
  <2>2. m = [t \in DOMAIN m |-> m[t]]
    BY DEF Arena
  <2>3. ASSUME NEW s \in DOMAIN m
        PROVE  Takes(m, c, gone, s, s)
    <3>1. /\ s \in Nat /\ m[s].size \in Nat
          /\ m[s] = MCB(m[s].type, m[s].psp, m[s].size)
      BY HeaderFacts, Zenon
    <3>2. m[s].size = s + m[s].size - s
      BY <3>1
    <3>3. \A u \in DOMAIN m : ~(s < u /\ u <= s)
      BY <1>1
    <3> QED
      BY <1>2, <2>1, <3>1, <3>2, <3>3 DEF Takes
  <2> QED
    BY <1>2, <2>1, <2>2, <2>3
<1>3. CASE gone # {}
  <2> DEFINE run(s) == {t \in gone \cup {s} :
                          \A u \in DOMAIN m : s < u /\ u <= t => u \in gone}
             val(s) == LET e == Max(run(s)) IN MCB(m[e].type, m[s].psp, e + m[e].size - s)
  <2>1. c = [s \in DOMAIN m \ gone |-> val(s)]
    BY <1>3 DEF CompressMemory
  <2>2. DOMAIN c = DOMAIN m \ gone /\ c = [t \in DOMAIN c |-> c[t]]
    BY <2>1
  <2>3. gone \subseteq DOMAIN m
    BY DEF Absorbed
  <2>4. ASSUME NEW s \in DOMAIN c
        PROVE  \E e \in DOMAIN m : Takes(m, c, gone, s, e)
    <3> DEFINE S == run(s)
               e == Max(S)
    <3>1. s \in DOMAIN m /\ s \notin gone /\ s \in Nat
      BY <2>2, <1>1
    <3>2. S \subseteq 0..LastSeg /\ s \in S
      BY <2>3, <3>1, <1>1, Bounds
    <3>3. e \in S /\ \A k \in S : k <= e
      <4> HIDE DEF S
      <4>1. LastSeg \in Nat /\ S # {}
        BY <3>2, Bounds
      <4> QED
        BY <3>2, <4>1, MaxFacts, Zenon
    <3>4. c[s] = MCB(m[e].type, m[s].psp, e + m[e].size - s)
      BY <2>1, <3>1
    <3>5. e \in gone \cup {s} /\ s <= e /\ e \in DOMAIN m
          /\ \A u \in DOMAIN m : s < u /\ u <= e => u \in gone
      BY <3>3, <3>2, <3>1, <2>3
    <3>6. NextSeg(m, e) \notin gone
      <4> DEFINE n == NextSeg(m, e)
      <4> SUFFICES ASSUME n \in gone PROVE FALSE
        OBVIOUS
      <4>1. /\ e \in Nat /\ n \in Nat /\ e < n
            /\ \A u \in DOMAIN m : e < u => n <= u
        BY <3>5, HeaderFacts, Zenon
      <4> HIDE DEF n, e
      <4>2. \A u \in DOMAIN m : s < u /\ u <= n => u \in gone
        BY <4>1, <3>5, <1>1
      <4>3. n \in S
        BY <4>2
      <4> QED
        BY <4>1, <4>3, <3>3
    <3> HIDE DEF e
    <3> QED
      BY <3>4, <3>5, <3>6 DEF Takes
  <2> QED
    BY <2>2, <2>4
<1> QED
  BY <1>2, <1>3

\* No two free blocks of conventional memory lie behind each other.
Combined(m, on, first) ==
  \A s \in Low(m, on) :
    first <= s /\ IsFree(m, s) /\ m[s].type # "Z" => ~IsFree(m, NextSeg(m, s))

IsCompressed(m, on, first, c) ==
  /\ Arena(c) /\ Ends(c, on) /\ Combined(c, on, first)
  /\ DOMAIN c \subseteq DOMAIN m
  /\ \A t \in DOMAIN m : ~IsFree(m, t) \/ t <= first => t \in DOMAIN c
  /\ \A t \in DOMAIN m : ~IsFree(m, t) => c[t] = m[t]
  /\ \A t \in DOMAIN c : c[t].psp = m[t].psp /\ c[t].size >= m[t].size

LEMMA CompressFacts ==
  ASSUME NEW m, NEW on \in BOOLEAN, Arena(m), Ends(m, on), NEW first \in Nat
  PROVE  IsCompressed(m, on, first, CompressMemory(m, first))
<1> DEFINE c == CompressMemory(m, first)
           gone == Absorbed(m, first)
<1>1. /\ DOMAIN c = DOMAIN m \ gone /\ c = [t \in DOMAIN c |-> c[t]]
      /\ \A s \in DOMAIN c : \E e \in DOMAIN m : Takes(m, c, gone, s, e)
  BY CompressShape, Zenon
<1>2. gone = {t \in DOMAIN m : /\ IsFree(m, t)
                               /\ \E s \in Low(m, on) :
                                    /\ s >= first /\ IsFree(m, s)
                                    /\ m[s].type # "Z" /\ NextSeg(m, s) = t}
  <2>1. gone = FreeBehindFree(m, on, first)
    BY AbsorbedFacts, Zenon
  <2> QED
    BY <2>1 DEF FreeBehindFree
<1> HIDE DEF c, gone
<1>3. \A t \in DOMAIN m : /\ t \in Nat /\ m[t].size \in Nat /\ m[t].type \in {"M", "Z"}
                          /\ m[t].psp \in Owners /\ firstMCB <= t /\ t <= LastSeg
                          /\ NextSeg(m, t) = t + m[t].size + 1
                          /\ NextSeg(m, t) \in DOMAIN m \cup {LastSeg + 1}
                          /\ NextSeg(m, t) \in Nat /\ t < NextSeg(m, t)
  BY HeaderFacts, Zenon DEF Owners
<1>4. \A t, u \in DOMAIN m : t < u => NextSeg(m, t) <= u
  BY DEF Arena
<1>5. Low(m, on) = {t \in DOMAIN m : on \/ t < UMB_START_SEG}
  BY LowFacts, Zenon
<1>6. ASSUME NEW s \in DOMAIN c, NEW e \in DOMAIN m, Takes(m, c, gone, s, e)
      PROVE  /\ s \in DOMAIN m /\ s \notin gone
             /\ NextSeg(c, s) = NextSeg(m, e) /\ c[s].type = m[e].type
             /\ c[s].psp = m[s].psp /\ c[s].size = e + m[e].size - s
             /\ \A u \in DOMAIN c : s < u => NextSeg(m, e) <= u
  <2>1. s \in DOMAIN m /\ s \notin gone
    BY <1>1
  <2>2. c[s].type = m[e].type /\ c[s].psp = m[s].psp /\ c[s].size = e + m[e].size - s
    BY <1>6 DEF Takes, MCB
  <2>3. NextSeg(c, s) = NextSeg(m, e)
    BY <2>1, <2>2, <1>3 DEF NextSeg
  <2>4. \A u \in DOMAIN c : s < u => NextSeg(m, e) <= u
    <3> SUFFICES ASSUME NEW u \in DOMAIN c, s < u PROVE NextSeg(m, e) <= u
      OBVIOUS
    <3>1. u \in DOMAIN m /\ u \notin gone
      BY <1>1
    <3>2. ~(u <= e)
      BY <1>6, <3>1 DEF Takes
    <3>3. e < u
      BY <3>1, <3>2, <1>3
    <3> QED
      BY <3>1, <3>3, <1>4
  <2> QED
    BY <2>1, <2>2, <2>3, <2>4
<1>7. ASSUME NEW s \in DOMAIN c, NEW e \in DOMAIN m, Takes(m, c, gone, s, e)
      PROVE  c[s].size \in Nat /\ c[s].size >= m[s].size
  <2>1. s \in DOMAIN m /\ c[s].size = e + m[e].size - s
    BY <1>6, <1>7
  <2>2. s <= e
    BY <1>7 DEF Takes
  <2>3. e = s \/ NextSeg(m, s) <= e
    BY <2>1, <2>2, <1>3, <1>4
  <2> QED
    BY <2>1, <2>2, <2>3, <1>3
<1>8. \A t \in DOMAIN c : Header(c, t)
  <2> SUFFICES ASSUME NEW s \in DOMAIN c PROVE Header(c, s)
    OBVIOUS
  <2>1. PICK e \in DOMAIN m : Takes(m, c, gone, s, e)
    BY <1>1
  <2>2. s \in firstMCB..LastSeg
    BY <1>1 DEF Arena
  <2>3. \E type \in {"M", "Z"}, psp \in Owners, size \in Nat : c[s] = MCB(type, psp, size)
    <3>1. m[e].type \in {"M", "Z"} /\ m[s].psp \in Owners
      BY <1>1, <1>3
    <3>2. e + m[e].size - s \in Nat
      BY <1>6, <1>7, <2>1
    <3>3. c[s] = MCB(m[e].type, m[s].psp, e + m[e].size - s)
      BY <2>1 DEF Takes
    <3> QED
      BY <3>1, <3>2, <3>3
  <2>4. NextSeg(c, s) \in DOMAIN c \cup {LastSeg + 1}
    <3>1. NextSeg(m, e) \in DOMAIN m \cup {LastSeg + 1} /\ NextSeg(m, e) \notin gone
      BY <1>3, <2>1 DEF Takes
    <3>2. NextSeg(c, s) = NextSeg(m, e)
      BY <1>6, <2>1
    <3> QED
      BY <3>1, <3>2, <1>1
  <2>5. \A u \in DOMAIN c : s < u => NextSeg(c, s) <= u
    BY <1>6, <2>1
  <2> QED
    BY <2>2, <2>3, <2>4, <2>5 DEF Header
<1>9. \A t \in DOMAIN m : ~IsFree(m, t) \/ t <= first => t \in DOMAIN c
  <2>1. \A t \in gone : IsFree(m, t)
    BY <1>2
  <2>2. ASSUME NEW t \in gone
        PROVE  ~(t <= first)
    <3>1. PICK s \in Low(m, on) : s >= first /\ NextSeg(m, s) = t
      BY <1>2
    <3>2. s \in DOMAIN m
      BY <1>5
    <3> QED
      BY <3>1, <3>2, <1>3
  <2> QED
    BY <2>1, <2>2, <1>1
<1>10. \A t \in DOMAIN m : ~IsFree(m, t) => c[t] = m[t]
  <2> SUFFICES ASSUME NEW t \in DOMAIN m, ~IsFree(m, t) PROVE c[t] = m[t]
    OBVIOUS
  <2>1. t \in DOMAIN c
    BY <1>9
  <2>2. PICK e \in DOMAIN m : Takes(m, c, gone, t, e)
    BY <1>1, <2>1
  <2>3. e = t
    <3> SUFFICES ASSUME e # t PROVE FALSE
      OBVIOUS
    <3>1. t < e /\ e \in gone
      BY <2>2, <1>3 DEF Takes
    <3> DEFINE n == NextSeg(m, t)
    <3>2. n <= e /\ t < n /\ n \in DOMAIN m
      BY <3>1, <1>3, <1>4, Bounds
    <3>3. n \in gone
      BY <2>2, <3>2 DEF Takes
    <3>4. PICK s \in Low(m, on) : IsFree(m, s) /\ NextSeg(m, s) = n
      BY <1>2, <3>3
    <3>5. s \in DOMAIN m /\ s # t
      BY <1>5, <3>4
    <3>6. ~(s < t) /\ ~(t < s)
      BY <3>4, <3>5, <1>3, <1>4
    <3> QED
      BY <3>5, <3>6, <1>3
  <2>4. m[t].size = e + m[e].size - t
    BY <2>3, <1>3
  <2>5. c[t] = MCB(m[t].type, m[t].psp, m[t].size)
    BY <2>2, <2>3, <2>4 DEF Takes
  <2> QED
    BY <2>5, HeaderFacts, Zenon
<1>11. Arena(c)
  <2>1. UMB_START_SEG \in DOMAIN m /\ ~IsFree(m, UMB_START_SEG) /\ firstMCB \in DOMAIN m
    BY Bounds DEF Arena, IsFree
  <2>2. firstMCB \notin gone
    <3> SUFFICES ASSUME firstMCB \in gone PROVE FALSE
      OBVIOUS
    <3>1. PICK s \in Low(m, on) : NextSeg(m, s) = firstMCB
      BY <1>2
    <3> QED
      BY <3>1, <1>3, <1>5, Bounds
  <2>3. /\ UMB_START_SEG \in DOMAIN c /\ c[UMB_START_SEG].psp = DOS
        /\ firstMCB \in DOMAIN c
    BY <2>1, <2>2, <1>1, <1>9, <1>10 DEF Arena
  <2>4. c = [t \in DOMAIN c |-> c[t]]
    BY <1>1
  <2> QED
    BY <1>8, <2>3, <2>4, ArenaIntro, Zenon
<1>12. Ends(c, on)
  <2> SUFFICES ASSUME NEW s \in DOMAIN c
               PROVE  c[s].type = "Z" <=> NextSeg(c, s) = LastSeg + 1
                                            \/ (~on /\ NextSeg(c, s) = UMB_START_SEG)
    BY DEF Ends
  <2>1. PICK e \in DOMAIN m : Takes(m, c, gone, s, e)
    BY <1>1
  <2>2. NextSeg(c, s) = NextSeg(m, e) /\ c[s].type = m[e].type
    BY <1>6, <2>1
  <2> QED
    BY <2>2 DEF Ends
<1>13. Combined(c, on, first)
  <2> SUFFICES ASSUME NEW s \in Low(c, on), first <= s, IsFree(c, s), c[s].type # "Z",
                      IsFree(c, NextSeg(c, s))
               PROVE  FALSE
    BY DEF Combined
  <2>1. s \in DOMAIN c /\ (on \/ s < UMB_START_SEG)
    BY <1>11, <1>12, LowFacts
  <2>2. PICK e \in DOMAIN m : Takes(m, c, gone, s, e)
    BY <1>1, <2>1
  <2> DEFINE n == NextSeg(m, e)
  <2>3. /\ s \in DOMAIN m /\ NextSeg(c, s) = n /\ m[e].type # "Z" /\ c[s].psp = m[s].psp
    BY <1>6, <2>1, <2>2
  <2>4. n \in DOMAIN m /\ n \notin gone
    BY <2>2, <2>3, <1>3 DEF Ends, Takes
  <2>5. n \in DOMAIN c
    BY <2>4, <1>1
  <2>6. IsFree(m, n)
    <3>1. PICK d \in DOMAIN m : Takes(m, c, gone, n, d)
      BY <2>5, <1>1
    <3>2. c[n].psp = m[n].psp
      BY <3>1, <2>5, <1>6
    <3> QED
      BY <3>2, <2>3 DEF IsFree
  <2>7. e \in Low(m, on) /\ IsFree(m, e) /\ e >= first
    <3>1. CASE e = s
      BY <3>1, <2>1, <2>3, <1>5 DEF IsFree
    <3>2. CASE e \in gone
      <4>1. IsFree(m, e)
        BY <3>2, <1>2
      <4>2. e >= first
        BY <2>2, <2>3, <1>3 DEF Takes
      <4>3. on \/ e < UMB_START_SEG
        <5>1. PICK p \in Low(m, on) : m[p].type # "Z" /\ NextSeg(m, p) = e
          BY <3>2, <1>2
        <5>2. p \in DOMAIN m /\ (on \/ p < UMB_START_SEG) /\ UMB_START_SEG \in DOMAIN m
          BY <5>1, <1>5 DEF Arena
        <5>3. CASE ~on
          <6>1. e <= UMB_START_SEG
            BY <5>1, <5>2, <5>3, <1>4
          <6>2. e # UMB_START_SEG
            BY <5>1, <5>2, <5>3 DEF Ends
          <6> QED
            BY <6>1, <6>2, <1>3, Bounds
        <5> QED
          BY <5>3
      <4> QED
        BY <4>1, <4>2, <4>3, <1>5
    <3> QED
      BY <3>1, <3>2, <2>2 DEF Takes
  <2>8. n \in gone
    BY <2>3, <2>4, <2>6, <2>7, <1>2
  <2> QED
    BY <2>4, <2>8
<1>14. \A t \in DOMAIN c : c[t].psp = m[t].psp /\ c[t].size >= m[t].size
  BY <1>1, <1>6, <1>7
<1>15. DOMAIN c \subseteq DOMAIN m
  BY <1>1
<1> QED
  BY <1>9, <1>10, <1>11, <1>12, <1>13, <1>14, <1>15, Zenon DEF IsCompressed, c

\* Memory that is combined already stays as it is.
LEMMA CompressAgain ==
  ASSUME NEW m, NEW on \in BOOLEAN, Arena(m), Ends(m, on), NEW first \in Nat,
         Combined(m, on, first)
  PROVE  CompressMemory(m, first) = m
<1>1. \A s \in Low(m, on) : s \in Nat
  BY HeaderFacts DEF Low, Onward
<1>2. Absorbed(m, first) = {}
  BY <1>1, AbsorbedFacts DEF Combined, FreeBehindFree
<1> QED
  BY <1>2 DEF CompressMemory

-----------------------------------------------------------------------------
(* The two chains, linked and not; the blocks of a program that ends.      *)

IsLinked(m, to, c) ==
  /\ Arena(c) /\ Ends(c, to) /\ DOMAIN c = DOMAIN m
  /\ \A t \in DOMAIN m : c[t].psp = m[t].psp /\ c[t].size = m[t].size

LEMMA LinkFacts ==
  ASSUME NEW m, NEW on \in BOOLEAN, Arena(m), Ends(m, on), NEW to \in BOOLEAN,
         NEW c, c = Link(m, to)
  PROVE  IsLinked(m, to, c)
<1> DEFINE below == {t \in DOMAIN m : t < UMB_START_SEG}
           last == Max(below)
           y == IF to THEN "M" ELSE "Z"
<1>1. \A t \in DOMAIN m : /\ t \in Nat /\ m[t].size \in Nat /\ m[t].type \in {"M", "Z"}
                          /\ m[t].psp \in Owners /\ firstMCB <= t /\ t <= LastSeg
                          /\ m[t] = MCB(m[t].type, m[t].psp, m[t].size)
                          /\ NextSeg(m, t) = t + m[t].size + 1
                          /\ NextSeg(m, t) \in DOMAIN m \cup {LastSeg + 1}
  BY HeaderFacts, Zenon DEF Owners
<1>2. \A t, u \in DOMAIN m : t < u => NextSeg(m, t) <= u
  BY DEF Arena
<1>3. {t \in Chain(m, firstMCB) : t < UMB_START_SEG} = below
  BY LowFacts
<1>4. last \in below /\ \A t \in below : t <= last
  <2>1. firstMCB \in below /\ below \subseteq 0..LastSeg /\ LastSeg \in Nat
    BY <1>1, Bounds DEF Arena
  <2> HIDE DEF below
  <2> QED
    BY <2>1, MaxFacts
<1>5. c = [m EXCEPT ![last].type = y]
  BY <1>3, Zenon DEF Link
<1> HIDE DEF last
<1>6. last \in DOMAIN m /\ last < UMB_START_SEG /\ UMB_START_SEG \in DOMAIN m
  BY <1>4 DEF Arena
<1>7. NextSeg(m, last) = UMB_START_SEG
  BY <1>1, <1>2, <1>4, <1>6, Bounds
<1>8. \A t \in DOMAIN m \ {last} : NextSeg(m, t) # UMB_START_SEG
  BY <1>1, <1>2, <1>4, <1>6, Bounds
<1>9. /\ DOMAIN c = DOMAIN m /\ c = [t \in DOMAIN c |-> c[t]]
      /\ \A t \in DOMAIN m \ {last} : c[t] = m[t]
      /\ c[last] = MCB(y, m[last].psp, m[last].size)
  <2>1. m = [t \in DOMAIN m |-> m[t]]
    BY DEF Arena
  <2>2. /\ DOMAIN c = DOMAIN m /\ c = [t \in DOMAIN c |-> c[t]]
        /\ \A t \in DOMAIN m \ {last} : c[t] = m[t]
        /\ c[last] = [m[last] EXCEPT !.type = y]
    BY <1>5, <1>6, <2>1
  <2> DEFINE x == m[last].type
             p == m[last].psp
             z == m[last].size
  <2>3. c[last] = [MCB(x, p, z) EXCEPT !.type = y]
    BY <2>2, <1>1, <1>6
  <2> HIDE DEF x, p, z, y
  <2>4. c[last] = MCB(y, p, z)
    BY <2>3 DEF MCB
  <2> QED
    BY <2>2, <2>4 DEF p, z
<1> HIDE DEF below
<1>10. \A t \in DOMAIN m : c[t].psp = m[t].psp /\ c[t].size = m[t].size
  BY <1>9 DEF MCB
<1>11. SameBlocks(m, c)
  <2>1. ASSUME NEW t \in DOMAIN m
        PROVE  \E x \in {"M", "Z"}, p \in Owners : c[t] = MCB(x, p, m[t].size)
    BY <1>1, <1>9
  <2> QED
    BY <2>1, <1>9 DEF SameBlocks
<1>12. Arena(c)
  <2>1. c[UMB_START_SEG].psp = DOS
    BY <1>10 DEF Arena
  <2> QED
    BY <2>1, <1>11, SameBlocksArena, Zenon
<1>13. Ends(c, to)
  <2> SUFFICES ASSUME NEW t \in DOMAIN c
               PROVE  c[t].type = "Z" <=> NextSeg(c, t) = LastSeg + 1
                                            \/ (~to /\ NextSeg(c, t) = UMB_START_SEG)
    BY DEF Ends
  <2>1. NextSeg(c, t) = NextSeg(m, t) /\ t \in DOMAIN m
    BY <1>9, <1>10 DEF NextSeg
  <2>2. CASE t = last
    <3>1. c[t].type = y
      BY <2>2, <1>9 DEF MCB
    <3> QED
      BY <2>1, <2>2, <3>1, <1>7, Bounds
  <2>3. CASE t # last
    <3>1. c[t].type = m[t].type /\ NextSeg(m, t) # UMB_START_SEG
      BY <2>1, <2>3, <1>8, <1>9
    <3>2. m[t].type = "Z" <=> NextSeg(m, t) = LastSeg + 1
                                \/ (~on /\ NextSeg(m, t) = UMB_START_SEG)
      BY <2>1 DEF Ends
    <3> QED
      BY <2>1, <3>1, <3>2
  <2> QED
    BY <2>2, <2>3
<1> QED
  BY <1>9, <1>10, <1>12, <1>13 DEF IsLinked

IsFreed(m, on, psp, chain, c) ==
  /\ Arena(c) /\ Ends(c, on) /\ DOMAIN c = DOMAIN m
  /\ \A t \in DOMAIN m :
       /\ c[t].size = m[t].size
       /\ c[t].psp = IF t \in chain /\ m[t].psp = psp THEN FREE ELSE m[t].psp

LEMMA FreedFacts ==
  ASSUME NEW m, NEW on \in BOOLEAN, Arena(m), Ends(m, on),
         NEW psp, psp # DOS, NEW chain,
         NEW c, c = Freed(m, psp, chain)
  PROVE  IsFreed(m, on, psp, chain, c)
<1>1. \A t \in DOMAIN m : /\ m[t].size \in Nat /\ m[t].type \in {"M", "Z"}
                          /\ m[t].psp \in Owners
                          /\ m[t] = MCB(m[t].type, m[t].psp, m[t].size)
  BY HeaderFacts, Zenon DEF Owners
<1>2. DOMAIN c = DOMAIN m /\ c = [t \in DOMAIN c |-> c[t]]
  BY DEF Freed
<1>3. ASSUME NEW t \in DOMAIN m
      PROVE  c[t] = MCB(m[t].type,
                        IF t \in chain /\ m[t].psp = psp THEN FREE ELSE m[t].psp, m[t].size)
  <2>1. CASE t \in chain /\ m[t].psp = psp
    <3>1. c[t] = [m[t] EXCEPT !.psp = FREE]
      BY <2>1 DEF Freed
    <3> DEFINE x == m[t].type
               p == m[t].psp
               z == m[t].size
    <3>2. c[t] = [MCB(x, p, z) EXCEPT !.psp = FREE]
      BY <3>1, <1>1
    <3> HIDE DEF x, p, z
    <3>3. c[t] = MCB(x, FREE, z)
      BY <3>2 DEF MCB
    <3> QED
      BY <2>1, <3>3 DEF x, z
  <2>2. CASE ~(t \in chain /\ m[t].psp = psp)
    <3>1. c[t] = m[t]
      BY <2>2 DEF Freed
    <3> QED
      BY <2>2, <3>1, <1>1
  <2> QED
    BY <2>1, <2>2
<1>4. \A t \in DOMAIN m :
        /\ c[t].size = m[t].size /\ c[t].type = m[t].type
        /\ c[t].psp = IF t \in chain /\ m[t].psp = psp THEN FREE ELSE m[t].psp
  <2> SUFFICES ASSUME NEW t \in DOMAIN m
               PROVE  /\ c[t].size = m[t].size /\ c[t].type = m[t].type
                      /\ c[t].psp = IF t \in chain /\ m[t].psp = psp THEN FREE
                                                                     ELSE m[t].psp
    OBVIOUS
  <2> DEFINE x == m[t].type
             p == IF t \in chain /\ m[t].psp = psp THEN FREE ELSE m[t].psp
             z == m[t].size
  <2>1. c[t] = MCB(x, p, z)
    BY <1>3
  <2> HIDE DEF x, p, z
  <2>2. c[t].size = z /\ c[t].type = x /\ c[t].psp = p
    BY <2>1 DEF MCB
  <2> QED
    BY <2>2 DEF x, p, z
<1>5. SameBlocks(m, c)
  <2>1. ASSUME NEW t \in DOMAIN m
        PROVE  \E x \in {"M", "Z"}, p \in Owners : c[t] = MCB(x, p, m[t].size)
    <3>1. (IF t \in chain /\ m[t].psp = psp THEN FREE ELSE m[t].psp) \in Owners
      BY <1>1 DEF Owners
    <3> QED
      BY <3>1, <1>1, <1>3
  <2> QED
    BY <2>1, <1>2 DEF SameBlocks
<1>6. Arena(c)
  <2>1. c[UMB_START_SEG].psp = DOS
    BY <1>4 DEF Arena
  <2> QED
    BY <2>1, <1>5, SameBlocksArena, Zenon
<1>7. Ends(c, on)
  <2>1. \A t \in DOMAIN c : c[t].type = m[t].type /\ NextSeg(c, t) = NextSeg(m, t)
    BY <1>2, <1>4 DEF NextSeg
  <2> QED
    BY <2>1, <1>2 DEF Ends
<1> QED
  BY <1>2, <1>4, <1>6, <1>7 DEF IsFreed

-----------------------------------------------------------------------------
(* DOS_AllocateMemory.                                                     *)

\* The allocated blocks of m outside S are still allocated in c, to whom they
\* were and no smaller ...
Keeps(m, c, S) ==
  \A t \in DOMAIN m \ S :
    ~IsFree(m, t) => t \in DOMAIN c /\ c[t].psp = m[t].psp /\ c[t].size >= m[t].size

\* ... and those of c belong to an owner in m, or to psp.
OwnersFrom(m, c, psp) ==
  \A t \in DOMAIN c : c[t].psp \in {FREE, psp} \cup {m[u].psp : u \in DOMAIN m}

LEMMA KeepsTrans ==
  ASSUME NEW a, NEW b, NEW c, NEW S, Arena(a), Arena(b), Arena(c),
         Keeps(a, b, S), Keeps(b, c, S)
  PROVE  Keeps(a, c, S)
<1>1. /\ \A t \in DOMAIN a : a[t].size \in Nat
      /\ \A t \in DOMAIN b : b[t].size \in Nat
      /\ \A t \in DOMAIN c : c[t].size \in Nat
  BY HeaderFacts, Zenon
<1> QED
  BY <1>1 DEF Keeps, IsFree

LEMMA OwnersFromTrans ==
  ASSUME NEW a, NEW b, NEW c, NEW psp, OwnersFrom(a, b, psp), OwnersFrom(b, c, psp)
  PROVE  OwnersFrom(a, c, psp)
BY DEF OwnersFrom

LEMMA CompressKeeps ==
  ASSUME NEW m, NEW c, NEW on, NEW first, IsCompressed(m, on, first, c), Arena(m),
         NEW S, NEW psp
  PROVE  Keeps(m, c, S) /\ OwnersFrom(m, c, psp)
<1>1. \A t \in DOMAIN m : m[t].size \in Nat
  BY HeaderFacts, Zenon
<1> QED
  BY <1>1 DEF IsCompressed, Keeps, OwnersFrom

LEMMA ChoiceFacts ==
  ASSUME NEW m, Arena(m), NEW high, NEW low, high \subseteq DOMAIN m, low \subseteq DOMAIN m,
         high \cup low # {}, NEW fit \in {"first", "best", "last"}
  PROVE  Choice(m, high, low, fit) \in high \cup low
<1>1. \A s \in DOMAIN m : s \in Nat /\ s <= LastSeg /\ m[s].size \in Nat
  BY HeaderFacts, Zenon
<1>2. ASSUME NEW A, NEW B, A \subseteq DOMAIN m, B \subseteq DOMAIN m, A \cup B # {}
      PROVE  Earliest(A, B) \in A \cup B
  <2>1. A \subseteq Nat /\ B \subseteq Nat
    BY <1>1, <1>2
  <2>2. A # {} => Min(A) \in A
    BY <2>1, MinFacts
  <2>3. B # {} => Min(B) \in B
    BY <2>1, MinFacts
  <2> QED
    BY <1>2, <2>2, <2>3 DEF Earliest
<1>3. CASE fit = "first"
  BY <1>2, <1>3 DEF Choice
<1>4. CASE fit = "best"
  <2> DEFINE sizes == {m[s].size : s \in high \cup low}
             least == Min(sizes)
             A == {s \in high : m[s].size = least}
             B == {s \in low : m[s].size = least}
  <2>1. sizes \subseteq Nat /\ sizes # {}
    BY <1>1
  <2>2. least \in sizes
    <3> HIDE DEF sizes
    <3> QED
      BY <2>1, MinFacts
  <2>3. A \subseteq high /\ B \subseteq low /\ A \cup B # {}
    <3> HIDE DEF least
    <3> QED
      BY <2>2
  <2>4. Choice(m, high, low, fit) = Earliest(A, B)
    BY <1>4 DEF Choice
  <2> HIDE DEF A, B, least
  <2>5. Earliest(A, B) \in A \cup B
    BY <2>3, <1>2
  <2> QED
    BY <2>3, <2>4, <2>5
<1>5. CASE fit = "last"
  <2>1. high \subseteq 0..LastSeg /\ low \subseteq 0..LastSeg /\ LastSeg \in Nat
    BY <1>1, Bounds
  <2>2. high # {} => Max(high) \in high
    BY <2>1, MaxFacts
  <2>3. low # {} => Max(low) \in low
    BY <2>1, MaxFacts
  <2> QED
    BY <1>5, <2>2, <2>3 DEF Choice
<1> QED
  BY <1>3, <1>4, <1>5

\* A free block, or a part of it, has been given to psp.
IsGiven(m, on, n, psp, c, segment) ==
  /\ Arena(c) /\ Ends(c, on) /\ Keeps(m, c, {}) /\ OwnersFrom(m, c, psp)
  /\ segment \in Nat /\ segment - 1 \in DOMAIN c
  /\ c[segment - 1].psp = psp /\ c[segment - 1].size = n
  /\ segment - 1 \in DOMAIN m => IsFree(m, segment - 1)

LEMMA GiveFacts ==
  ASSUME NEW m, NEW on \in BOOLEAN, Arena(m), Ends(m, on),
         NEW s \in DOMAIN m, IsFree(m, s), NEW n \in Nat, m[s].size >= n,
         NEW fit, NEW psp \in 1..LastSeg, NEW r, r = Give(m, s, fit, n, psp)
  PROVE  r.ok /\ IsGiven(m, on, n, psp, r.mcb, r.segment)
<1> DEFINE h == IF fit = "last" THEN s + m[s].size - n ELSE s
           c == r.mcb
<1>0. r.ok /\ r.segment = IF fit = "last" THEN s + 1 + m[s].size - n ELSE s + 1
  BY DEF Give
<1>1. /\ s \in Nat /\ m[s].size \in Nat /\ m[s].psp = FREE
      /\ \A t \in DOMAIN m : m[t].size \in Nat
  <2>1. s \in Nat /\ m[s].size \in Nat /\ \A t \in DOMAIN m : m[t].size \in Nat
    BY HeaderFacts, Zenon
  <2> QED
    BY <2>1 DEF IsFree
<1>2. s # UMB_START_SEG /\ psp \in Owners
  BY <1>1, Bounds DEF Arena, Owners
<1>3. h \in Nat /\ r.segment = h + 1
  BY <1>0, <1>1
<1>4. CASE m[s].size = n
  <2>1. c = [m EXCEPT ![s].psp = psp]
    BY <1>4 DEF Give
  <2> HIDE DEF c
  <2>2. /\ Arena(c) /\ Ends(c, on) /\ DOMAIN c = DOMAIN m
        /\ c[s] = MCB(m[s].type, psp, m[s].size)
        /\ \A t \in DOMAIN m \ {s} : c[t] = m[t]
    <3>1. IsGivenAway(m, on, c, s, psp)
      BY <2>1, <1>2, OwnerFacts, Zenon
    <3> QED
      BY <3>1 DEF IsGivenAway
  <2>3. h = s
    BY <1>1, <1>4
  <2> HIDE DEF h
  <2>4. c[h].psp = psp /\ c[h].size = n
    BY <2>2, <2>3, <1>4 DEF MCB
  <2>5. Keeps(m, c, {}) /\ OwnersFrom(m, c, psp)
    BY <2>2, <2>3, <2>4, <1>1 DEF Keeps, OwnersFrom, IsFree
  <2>6. r.segment - 1 = h
    BY <1>3
  <2> QED
    BY <1>0, <1>3, <2>2, <2>3, <2>4, <2>5, <2>6 DEF IsGiven, c
<1>5. CASE m[s].size # n /\ fit = "last"
  <2>1. c = TakeLast(m, s, n, psp)
    BY <1>5 DEF Give
  <2>2. n < m[s].size /\ h = s + m[s].size - n
    BY <1>1, <1>5
  <2> HIDE DEF c, h
  <2>3. /\ Arena(c) /\ Ends(c, on)
        /\ h \notin DOMAIN m /\ DOMAIN c = DOMAIN m \cup {h}
        /\ c[s].psp = FREE /\ c[h].psp = psp /\ c[h].size = n
        /\ \A t \in DOMAIN m \ {s} : c[t] = m[t]
    BY <2>1, <2>2, <1>2, TakeLastFacts
  <2>4. Keeps(m, c, {}) /\ OwnersFrom(m, c, psp)
    BY <2>3, <1>1 DEF Keeps, OwnersFrom, IsFree
  <2>5. r.segment - 1 = h
    BY <1>3
  <2> QED
    BY <1>0, <1>3, <2>3, <2>4, <2>5 DEF IsGiven, c
<1>6. CASE m[s].size # n /\ fit # "last"
  <2>1. c = TakeFirst(m, s, n, psp)
    BY <1>6 DEF Give
  <2>2. n < m[s].size /\ h = s
    BY <1>1, <1>6
  <2> HIDE DEF c, h
  <2>3. /\ Arena(c) /\ Ends(c, on)
        /\ s + n + 1 \notin DOMAIN m /\ DOMAIN c = DOMAIN m \cup {s + n + 1}
        /\ c[s] = MCB("M", psp, n) /\ c[s + n + 1].psp = FREE
        /\ \A t \in DOMAIN m \ {s} : c[t] = m[t]
    <3>1. IsTakenFirst(m, on, c, s, n, psp)
      BY <2>1, <2>2, <1>2, TakeFirstFacts, Zenon
    <3> QED
      BY <3>1, Zenon DEF IsTakenFirst
  <2>4. c[s].psp = psp /\ c[s].size = n
    BY <2>3 DEF MCB
  <2>5. Keeps(m, c, {}) /\ OwnersFrom(m, c, psp)
    BY <2>3, <2>4, <1>1 DEF Keeps, OwnersFrom, IsFree
  <2>6. r.segment - 1 = h
    BY <1>3
  <2> QED
    BY <1>0, <1>1, <1>3, <2>2, <2>3, <2>4, <2>5, <2>6 DEF IsGiven, c
<1> QED
  BY <1>4, <1>5, <1>6

\* The blocks that are searched.
Candidates(m, strategy) == SearchedHigh(m, strategy) \cup SearchedLow(m, strategy)

LEMMA CandidatesFacts ==
  ASSUME NEW m, NEW on \in BOOLEAN, Arena(m), Ends(m, on), NEW strategy
  PROVE  SearchedHigh(m, strategy) \subseteq DOMAIN m /\ SearchedLow(m, strategy) \subseteq DOMAIN m
BY LowFacts DEF SearchedHigh, SearchedLow

\* What a function of the memory returns.
HasFit(strategy) == strategy.fit \in {"first", "best", "last"}

IsOutcome(r) ==
  \/ r = [ok |-> TRUE, segment |-> r.segment, mcb |-> r.mcb]
  \/ r = [ok |-> FALSE, mcb |-> r.mcb, largest |-> r.largest]

LEMMA SearchFacts ==
  ASSUME NEW m, NEW on \in BOOLEAN, Arena(m), Ends(m, on),
         NEW strategy, HasFit(strategy),
         NEW n \in Nat, NEW psp \in 1..LastSeg,
         NEW r, r = Search(m, strategy, n, psp)
  PROVE  /\ r.ok \in BOOLEAN
         /\ r.ok => IsGiven(m, on, n, psp, r.mcb, r.segment)
         /\ ~r.ok => r.mcb = m
         /\ IsOutcome(r)
         /\ r.ok <=> \E s \in Candidates(m, strategy) : IsFree(m, s) /\ m[s].size >= n
<1> DEFINE high == {s \in SearchedHigh(m, strategy) : IsFree(m, s) /\ m[s].size >= n}
           low == {s \in SearchedLow(m, strategy) : IsFree(m, s) /\ m[s].size >= n}
           s == Choice(m, high, low, strategy.fit)
<1>1. high \subseteq DOMAIN m /\ low \subseteq DOMAIN m
  BY CandidatesFacts
<1>2. high \cup low # {} <=> \E t \in Candidates(m, strategy) : IsFree(m, t) /\ m[t].size >= n
  BY DEF Candidates
<1>3. CASE high \cup low # {}
  <2>1. r = Give(m, s, strategy.fit, n, psp)
    BY <1>3 DEF Search
  <2>2. strategy.fit \in {"first", "best", "last"}
    BY DEF HasFit
  <2>3. \A t \in high \cup low : t \in DOMAIN m /\ IsFree(m, t) /\ m[t].size >= n
    BY <1>1
  <2> HIDE DEF high, low
  <2>4. s \in high \cup low
    BY <1>1, <1>3, <2>2, ChoiceFacts, Zenon
  <2> HIDE DEF s
  <2>5. s \in DOMAIN m /\ IsFree(m, s) /\ m[s].size >= n
    BY <2>3, <2>4
  <2>6. r.ok /\ IsGiven(m, on, n, psp, r.mcb, r.segment)
    BY <2>1, <2>5, GiveFacts, Zenon
  <2>7. r.ok = TRUE /\ IsOutcome(r)
    BY <2>1 DEF Give, IsOutcome
  <2> QED
    BY <1>2, <1>3, <2>6, <2>7
<1>4. CASE high \cup low = {}
  <2>1. r = [ok |-> FALSE, mcb |-> m, largest |-> LargestFree(m, Candidates(m, strategy))]
    BY <1>4 DEF Search, Candidates
  <2>2. r.ok = FALSE /\ r.mcb = m /\ IsOutcome(r)
    BY <2>1 DEF IsOutcome
  <2> QED
    BY <1>2, <1>4, <2>2
<1> QED
  BY <1>3, <1>4

IsAllocated(m, on, strategy, n, psp, r) ==
  /\ r.ok \in BOOLEAN /\ IsOutcome(r)
  /\ Arena(r.mcb) /\ Ends(r.mcb, on) /\ Keeps(m, r.mcb, {}) /\ OwnersFrom(m, r.mcb, psp)
  /\ r.ok => /\ r.segment \in Nat /\ r.segment - 1 \in DOMAIN r.mcb
             /\ r.mcb[r.segment - 1].psp = psp /\ r.mcb[r.segment - 1].size = n
             /\ r.segment - 1 \in DOMAIN m => IsFree(m, r.segment - 1)
  /\ LET c == CompressMemory(m, 0)
     IN  r.ok <=> \E s \in Candidates(c, strategy) : IsFree(c, s) /\ c[s].size >= n

LEMMA AllocateFacts ==
  ASSUME NEW m, NEW on \in BOOLEAN, Arena(m), Ends(m, on),
         NEW strategy, HasFit(strategy),
         NEW n \in Nat, NEW psp \in 1..LastSeg,
         NEW r, r = AllocateMemory(m, strategy, n, psp)
  PROVE  IsAllocated(m, on, strategy, n, psp, r)
<1> DEFINE c == CompressMemory(m, 0)
<1>1. IsCompressed(m, on, 0, c)
  BY CompressFacts, Zenon
<1>2. r = Search(c, strategy, n, psp)
  BY DEF AllocateMemory
<1> HIDE DEF c
<1>3. /\ Arena(c) /\ Ends(c, on) /\ DOMAIN c \subseteq DOMAIN m
      /\ \A t \in DOMAIN m : ~IsFree(m, t) => t \in DOMAIN c /\ c[t] = m[t]
  BY <1>1 DEF IsCompressed
<1>4. Keeps(m, c, {}) /\ OwnersFrom(m, c, psp)
  BY <1>1, CompressKeeps, Zenon
<1>5. /\ r.ok \in BOOLEAN /\ IsOutcome(r)
      /\ r.ok => IsGiven(c, on, n, psp, r.mcb, r.segment)
      /\ ~r.ok => r.mcb = c
      /\ r.ok <=> \E s \in Candidates(c, strategy) : IsFree(c, s) /\ c[s].size >= n
  BY <1>2, <1>3, SearchFacts
<1>6. /\ Arena(r.mcb) /\ Ends(r.mcb, on)
      /\ Keeps(m, r.mcb, {}) /\ OwnersFrom(m, r.mcb, psp)
  <2>1. CASE r.ok
    <3>1. /\ Arena(r.mcb) /\ Ends(r.mcb, on)
          /\ Keeps(c, r.mcb, {}) /\ OwnersFrom(c, r.mcb, psp)
      BY <2>1, <1>5, Zenon DEF IsGiven
    <3>2. Keeps(m, r.mcb, {})
      BY <3>1, <1>3, <1>4, KeepsTrans, Zenon
    <3>3. OwnersFrom(m, r.mcb, psp)
      BY <3>1, <1>4, OwnersFromTrans, Zenon
    <3> QED
      BY <3>1, <3>2, <3>3
  <2>2. CASE ~r.ok
    BY <2>2, <1>3, <1>4, <1>5
  <2> QED
    BY <2>1, <2>2
<1>7. r.ok => /\ r.segment \in Nat /\ r.segment - 1 \in DOMAIN r.mcb
              /\ r.mcb[r.segment - 1].psp = psp /\ r.mcb[r.segment - 1].size = n
              /\ r.segment - 1 \in DOMAIN m => IsFree(m, r.segment - 1)
  <2> SUFFICES ASSUME r.ok
               PROVE  /\ r.segment \in Nat /\ r.segment - 1 \in DOMAIN r.mcb
                      /\ r.mcb[r.segment - 1].psp = psp /\ r.mcb[r.segment - 1].size = n
                      /\ r.segment - 1 \in DOMAIN m => IsFree(m, r.segment - 1)
    OBVIOUS
  <2>1. /\ r.segment \in Nat /\ r.segment - 1 \in DOMAIN r.mcb
        /\ r.mcb[r.segment - 1].psp = psp /\ r.mcb[r.segment - 1].size = n
        /\ r.segment - 1 \in DOMAIN c => IsFree(c, r.segment - 1)
    BY <1>5, Zenon DEF IsGiven
  <2>2. r.segment - 1 \in DOMAIN m => IsFree(m, r.segment - 1)
    BY <2>1, <1>3 DEF IsFree
  <2> QED
    BY <2>1, <2>2
<1> QED
  BY <1>5, <1>6, <1>7, Zenon DEF IsAllocated, c

-----------------------------------------------------------------------------
(* DOS_ResizeMemory.                                                       *)

IsResized(m, on, s, n, psp, r) ==
  /\ r.ok \in BOOLEAN
  /\ Arena(r.mcb) /\ Ends(r.mcb, on) /\ Keeps(m, r.mcb, {s}) /\ OwnersFrom(m, r.mcb, psp)
  /\ s \in DOMAIN r.mcb
  /\ r.ok => r.mcb[s].psp = psp /\ r.mcb[s].size = n
  /\ ~r.ok => r.mcb[s].psp = m[s].psp /\ r.mcb[s].size >= m[s].size

IsShrunk(m, on, c, s, n, psp) ==
  /\ Arena(c) /\ Ends(c, on) /\ Keeps(m, c, {s}) /\ OwnersFrom(m, c, psp)
  /\ s \in DOMAIN c /\ c[s].psp = psp /\ c[s].size = n

LEMMA ShrinkFacts ==
  ASSUME NEW m, NEW on \in BOOLEAN, Arena(m), Ends(m, on),
         NEW s \in DOMAIN m, s # UMB_START_SEG,
         NEW n \in Nat, n < m[s].size, NEW psp \in 1..LastSeg,
         NEW c, c = TakeFirst(m, s, n, psp)
  PROVE  IsShrunk(m, on, c, s, n, psp)
<1>1. psp \in Owners /\ \A t \in DOMAIN m : m[t].size \in Nat
  BY HeaderFacts DEF Owners
<1>2. /\ Arena(c) /\ Ends(c, on)
      /\ s + n + 1 \notin DOMAIN m /\ DOMAIN c = DOMAIN m \cup {s + n + 1}
      /\ c[s] = MCB("M", psp, n) /\ c[s + n + 1].psp = FREE
      /\ \A t \in DOMAIN m \ {s} : c[t] = m[t]
  <2>1. IsTakenFirst(m, on, c, s, n, psp)
    BY <1>1, TakeFirstFacts, Zenon
  <2> QED
    BY <2>1, Zenon DEF IsTakenFirst
<1>3. c[s].psp = psp /\ c[s].size = n
  BY <1>2 DEF MCB
<1> QED
  BY <1>1, <1>2, <1>3 DEF Keeps, OwnersFrom, IsShrunk

\* The block, or what is left of it and the free block behind it.
Grown(m, s) == IF Joins(m, s) THEN Joined(m, s) ELSE m

LEMMA GrownFacts ==
  ASSUME NEW m, NEW on \in BOOLEAN, Arena(m), Ends(m, on),
         NEW s \in DOMAIN m, s # UMB_START_SEG, NEW psp,
         NEW c, c = Grown(m, s)
  PROVE  /\ Arena(c) /\ Ends(c, on) /\ Keeps(m, c, {}) /\ OwnersFrom(m, c, psp)
         /\ s \in DOMAIN c /\ c[s].psp = m[s].psp
         /\ c[s].size \in Nat /\ c[s].size >= m[s].size
<1>1. /\ \A t \in DOMAIN m : m[t].size \in Nat
      /\ s < NextSeg(m, s) /\ s \in Nat /\ NextSeg(m, s) \in Nat
      /\ NextSeg(m, s) \in DOMAIN m \cup {LastSeg + 1}
  BY HeaderFacts, Zenon
<1>2. CASE Joins(m, s)
  <2> DEFINE n == NextSeg(m, s)
  <2>1. c = Joined(m, s)
    BY <1>2 DEF Grown
  <2>2. n \in DOMAIN m /\ IsFree(m, n) /\ n # UMB_START_SEG
    BY <1>1, <1>2, Bounds DEF Joins, Ends, IsFree, Arena
  <2>3. /\ Arena(c) /\ Ends(c, on) /\ DOMAIN c = DOMAIN m \ {n}
        /\ c[s].psp = m[s].psp /\ c[s].size \in Nat /\ c[s].size > m[s].size
        /\ \A t \in DOMAIN m \ {s, n} : c[t] = m[t]
    BY <2>1, <2>2, JoinFacts
  <2> HIDE DEF n
  <2>4. s \in DOMAIN c /\ c[s].size >= m[s].size
    BY <2>3, <1>1 DEF n
  <2> QED
    BY <2>2, <2>3, <2>4, <1>1 DEF Keeps, OwnersFrom
<1>3. CASE ~Joins(m, s)
  <2>1. c = m
    BY <1>3 DEF Grown
  <2> QED
    BY <1>1, <2>1 DEF Keeps, OwnersFrom
<1> QED
  BY <1>2, <1>3

LEMMA ResizeBlockFacts ==
  ASSUME NEW m, NEW on \in BOOLEAN, Arena(m), Ends(m, on),
         NEW s \in DOMAIN m, NEW psp \in 1..LastSeg, m[s].psp \in {FREE, psp},
         NEW n \in Nat, NEW r, r = ResizeBlock(m, s, n, psp)
  PROVE  IsResized(m, on, s, n, psp, r)
<1> DEFINE g == Grown(m, s)
           c == r.mcb
<1>1. s # UMB_START_SEG /\ m[s].size \in Nat /\ psp \in Owners
  <2>1. m[s].size \in Nat
    BY HeaderFacts, Zenon
  <2> QED
    BY <2>1, Bounds DEF Arena, Owners
<1>2. /\ Arena(g) /\ Ends(g, on) /\ Keeps(m, g, {}) /\ OwnersFrom(m, g, psp)
      /\ s \in DOMAIN g /\ g[s].psp = m[s].psp
      /\ g[s].size \in Nat /\ g[s].size >= m[s].size
  BY <1>1, GrownFacts, Zenon
<1>3. r = CASE n = m[s].size ->
                 [ok |-> TRUE, mcb |-> IF IsFree(m, s) THEN [m EXCEPT ![s].psp = psp] ELSE m]
            [] n < m[s].size -> [ok |-> TRUE, mcb |-> CompressMemory(TakeFirst(m, s, n, psp), 0)]
            [] n > m[s].size /\ n < g[s].size -> [ok |-> TRUE, mcb |-> TakeFirst(g, s, n, psp)]
            [] n > m[s].size /\ n = g[s].size -> [ok |-> TRUE, mcb |-> [g EXCEPT ![s].psp = psp]]
            [] n > m[s].size /\ n > g[s].size -> [ok |-> FALSE, mcb |-> g]
  BY DEF ResizeBlock, Grown
<1>4. \A t \in DOMAIN m : m[t].size \in Nat
  BY HeaderFacts, Zenon
<1> HIDE DEF g
<1>5. Keeps(m, g, {s})
  BY <1>2 DEF Keeps
<1>6. CASE n = m[s].size /\ IsFree(m, s)
  <2>1. r = [ok |-> TRUE, mcb |-> [m EXCEPT ![s].psp = psp]]
    BY <1>1, <1>3, <1>6
  <2>2. r.ok = TRUE /\ c = [m EXCEPT ![s].psp = psp]
    BY <2>1
  <2> HIDE DEF c
  <2>3. IsGivenAway(m, on, c, s, psp)
    BY <2>2, <1>1, OwnerFacts, Zenon
  <2>4. c[s].psp = psp /\ c[s].size = n
    BY <2>3, <1>6 DEF IsGivenAway, MCB
  <2>5. Keeps(m, c, {s}) /\ OwnersFrom(m, c, psp)
    BY <2>3, <2>4, <1>4 DEF IsGivenAway, Keeps, OwnersFrom
  <2> QED
    BY <2>2, <2>3, <2>4, <2>5 DEF IsGivenAway, IsResized, c
<1>7. CASE n = m[s].size /\ ~IsFree(m, s)
  <2>1. r = [ok |-> TRUE, mcb |-> m]
    BY <1>1, <1>3, <1>7
  <2>2. r.ok = TRUE /\ c = m
    BY <2>1
  <2>3. Keeps(m, m, {s}) /\ OwnersFrom(m, m, psp)
    BY <1>4 DEF Keeps, OwnersFrom
  <2> QED
    BY <2>2, <2>3, <1>7 DEF IsResized, IsFree
<1>8. CASE n < m[s].size
  <2> DEFINE b == TakeFirst(m, s, n, psp)
  <2>1. r = [ok |-> TRUE, mcb |-> CompressMemory(b, 0)]
    BY <1>1, <1>3, <1>8
  <2>2. r.ok = TRUE /\ c = CompressMemory(b, 0)
    BY <2>1
  <2>3. /\ Arena(b) /\ Ends(b, on) /\ Keeps(m, b, {s}) /\ OwnersFrom(m, b, psp)
        /\ s \in DOMAIN b /\ b[s].psp = psp /\ b[s].size = n
    <3> HIDE DEF b
    <3>1. IsShrunk(m, on, b, s, n, psp)
      BY <1>1, <1>8, ShrinkFacts DEF b
    <3> QED
      BY <3>1 DEF IsShrunk
  <2> HIDE DEF b, c
  <2>4. IsCompressed(b, on, 0, c)
    BY <2>2, <2>3, CompressFacts, Zenon
  <2>5. Keeps(b, c, {s}) /\ OwnersFrom(b, c, psp) /\ Arena(c) /\ Ends(c, on)
    BY <2>3, <2>4, CompressKeeps, Zenon DEF IsCompressed
  <2>6. Keeps(m, c, {s})
    BY <2>3, <2>5, KeepsTrans, Zenon
  <2>7. OwnersFrom(m, c, psp)
    BY <2>3, <2>5, OwnersFromTrans, Zenon
  <2>8. ~IsFree(b, s)
    BY <2>3, Bounds DEF IsFree
  <2>9. s \in DOMAIN c /\ c[s].psp = psp /\ c[s].size = n
    BY <2>3, <2>4, <2>8 DEF IsCompressed
  <2> QED
    BY <2>2, <2>5, <2>6, <2>7, <2>9 DEF IsResized, c
<1>9. CASE n > m[s].size /\ n < g[s].size
  <2>1. r = [ok |-> TRUE, mcb |-> TakeFirst(g, s, n, psp)]
    BY <1>1, <1>2, <1>3, <1>9
  <2>2. r.ok = TRUE /\ c = TakeFirst(g, s, n, psp)
    BY <2>1
  <2> HIDE DEF c
  <2>3. /\ Arena(c) /\ Ends(c, on) /\ Keeps(g, c, {s}) /\ OwnersFrom(g, c, psp)
        /\ s \in DOMAIN c /\ c[s].psp = psp /\ c[s].size = n
    <3>1. IsShrunk(g, on, c, s, n, psp)
      BY <2>2, <1>1, <1>2, <1>9, ShrinkFacts, Zenon
    <3> QED
      BY <3>1 DEF IsShrunk
  <2>4. Keeps(m, c, {s})
    BY <2>3, <1>2, <1>5, KeepsTrans, Zenon
  <2>5. OwnersFrom(m, c, psp)
    BY <2>3, <1>2, OwnersFromTrans, Zenon
  <2> QED
    BY <2>2, <2>3, <2>4, <2>5 DEF IsResized, c
<1>10. CASE n > m[s].size /\ n = g[s].size
  <2>1. r = [ok |-> TRUE, mcb |-> [g EXCEPT ![s].psp = psp]]
    BY <1>1, <1>2, <1>3, <1>10
  <2>2. r.ok = TRUE /\ c = [g EXCEPT ![s].psp = psp]
    BY <2>1
  <2> HIDE DEF c
  <2>3. IsGivenAway(g, on, c, s, psp)
    BY <2>2, <1>1, <1>2, OwnerFacts, Zenon
  <2>4. c[s].psp = psp /\ c[s].size = n
    BY <2>3, <1>10 DEF IsGivenAway, MCB
  <2>5. Keeps(m, c, {s})
    BY <2>3, <1>5 DEF IsGivenAway, Keeps
  <2>6. OwnersFrom(g, c, psp)
    BY <2>3, <2>4 DEF IsGivenAway, OwnersFrom
  <2>7. OwnersFrom(m, c, psp)
    BY <2>6, <1>2, OwnersFromTrans, Zenon
  <2> QED
    BY <2>2, <2>3, <2>4, <2>5, <2>7, <1>2 DEF IsGivenAway, IsResized, c
<1>11. CASE n > m[s].size /\ n > g[s].size
  <2>1. r = [ok |-> FALSE, mcb |-> g]
    BY <1>1, <1>2, <1>3, <1>11
  <2>2. r.ok = FALSE /\ c = g
    BY <2>1
  <2> QED
    BY <2>2, <1>2, <1>5 DEF IsResized
<1> QED
  BY <1>1, <1>2, <1>6, <1>7, <1>8, <1>9, <1>10, <1>11

LEMMA ResizeFacts ==
  ASSUME NEW m, NEW on \in BOOLEAN, Arena(m), Ends(m, on),
         NEW s \in DOMAIN m, NEW psp \in 1..LastSeg, m[s].psp \in {FREE, psp},
         NEW n \in Nat, NEW r, r = ResizeMemory(m, s, n, psp)
  PROVE  IsResized(m, on, s, n, psp, r)
<1> DEFINE c == CompressMemory(m, s)
<1>1. s \in Nat /\ \A t \in DOMAIN m : m[t].size \in Nat
  BY HeaderFacts, Zenon
<1>2. IsCompressed(m, on, s, c)
  BY <1>1, CompressFacts, Zenon
<1>3. r = ResizeBlock(c, s, n, psp)
  BY DEF ResizeMemory
<1> HIDE DEF c
<1>4. /\ Arena(c) /\ Ends(c, on) /\ s \in DOMAIN c
      /\ c[s].psp = m[s].psp /\ c[s].size >= m[s].size
  BY <1>1, <1>2 DEF IsCompressed
<1>5. Keeps(m, c, {s}) /\ OwnersFrom(m, c, psp)
  BY <1>2, CompressKeeps, Zenon
<1>6. IsResized(c, on, s, n, psp, r)
  BY <1>3, <1>4, ResizeBlockFacts
<1>7. /\ r.ok \in BOOLEAN /\ Arena(r.mcb) /\ Ends(r.mcb, on)
      /\ Keeps(c, r.mcb, {s}) /\ OwnersFrom(c, r.mcb, psp)
      /\ s \in DOMAIN r.mcb
      /\ r.ok => r.mcb[s].psp = psp /\ r.mcb[s].size = n
      /\ ~r.ok => r.mcb[s].psp = c[s].psp /\ r.mcb[s].size >= c[s].size
  BY <1>6, Zenon DEF IsResized
<1>8. Keeps(m, r.mcb, {s})
  BY <1>4, <1>5, <1>7, KeepsTrans, Zenon
<1>9. OwnersFrom(m, r.mcb, psp)
  BY <1>5, <1>7, OwnersFromTrans, Zenon
<1>10. ~r.ok => r.mcb[s].psp = m[s].psp /\ r.mcb[s].size >= m[s].size
  <2>1. c[s].size \in Nat /\ r.mcb[s].size \in Nat
    BY <1>4, <1>7, HeaderFacts
  <2> QED
    BY <2>1, <1>1, <1>4, <1>7
<1> QED
  BY <1>7, <1>8, <1>9, <1>10, Zenon DEF IsResized

-----------------------------------------------------------------------------
(* The invariant.                                                          *)

\* What was given out as segment seg is its owner's.
Stands(m, h, seg) ==
  /\ seg \in Nat /\ seg - 1 \in DOMAIN m
  /\ h[seg].psp \in 1..LastSeg /\ h[seg].size \in Nat
  /\ m[seg - 1].psp = h[seg].psp /\ m[seg - 1].size >= h[seg].size

Standing(m, h) == \A seg \in DOMAIN h : Stands(m, h, seg)

\* The running programs are different and own their PSP blocks.
Running(ps, h) ==
  /\ ps \in Seq(1..LastSeg) /\ ps # <<>>
  /\ \A i, j \in 1..Len(ps) : ps[i] = ps[j] => i = j
  /\ \A i \in 1..Len(ps) : ps[i] \in DOMAIN h /\ h[ps[i]].psp = ps[i]

\* The owners of allocated memory are known.
Returned(m, owners) == \A s \in DOMAIN m : m[s].psp \in {FREE, DOS} \cup owners

ArenaInv ==
  /\ linked \in BOOLEAN /\ memAllocStrategy \in Strategies
  /\ Arena(mcb) /\ Ends(mcb, linked)
  /\ Standing(mcb, held) /\ Running(psps, held)
  /\ Returned(mcb, Range(psps) \cup resident)

LEMMA StandingKept ==
  ASSUME NEW m, NEW c, NEW h, NEW S, Arena(m), Arena(c), Keeps(m, c, S),
         NEW seg, Stands(m, h, seg), seg - 1 \notin S
  PROVE  Stands(c, h, seg) /\ ~IsFree(m, seg - 1)
<1>1. /\ seg \in Nat /\ seg - 1 \in DOMAIN m
      /\ h[seg].psp \in 1..LastSeg /\ h[seg].size \in Nat
      /\ m[seg - 1].psp = h[seg].psp /\ m[seg - 1].size >= h[seg].size
  BY DEF Stands
<1>2. ~IsFree(m, seg - 1)
  BY <1>1, Bounds DEF IsFree
<1>3. /\ seg - 1 \in DOMAIN c /\ c[seg - 1].psp = m[seg - 1].psp
      /\ c[seg - 1].size >= m[seg - 1].size
  BY <1>1, <1>2 DEF Keeps
<1>4. m[seg - 1].size \in Nat /\ c[seg - 1].size \in Nat
  BY <1>1, <1>3, HeaderFacts, Zenon
<1> QED
  BY <1>1, <1>2, <1>3, <1>4 DEF Stands

LEMMA StandingKeeps ==
  ASSUME NEW m, NEW c, NEW h, Arena(m), Arena(c), Keeps(m, c, {}), Standing(m, h)
  PROVE  Standing(c, h)
BY StandingKept DEF Standing

\* A block that stands is not free.
LEMMA StandingNotFree ==
  ASSUME NEW m, NEW h, Standing(m, h), NEW seg \in DOMAIN h
  PROVE  seg - 1 \in DOMAIN m /\ ~IsFree(m, seg - 1)
BY Bounds DEF Standing, Stands, IsFree

\* Another block is given out, or one is given another size.
LEMMA StandingPut ==
  ASSUME NEW m, NEW c, NEW h, Arena(m), Arena(c), Standing(m, h),
         NEW seg \in Nat, Keeps(m, c, {seg - 1}), seg - 1 \in DOMAIN c,
         NEW p \in 1..LastSeg, NEW n \in Nat,
         c[seg - 1].psp = p, c[seg - 1].size >= n
  PROVE  Standing(c, Put(h, seg, Holding(p, n)))
<1> DEFINE g == Put(h, seg, Holding(p, n))
<1>1. /\ DOMAIN g = DOMAIN h \cup {seg} /\ g[seg] = Holding(p, n)
      /\ \A t \in DOMAIN h \ {seg} : g[t] = h[t]
  BY DEF Put
<1> HIDE DEF g
<1>2. Stands(c, g, seg)
  BY <1>1 DEF Stands, Holding
<1>3. ASSUME NEW t \in DOMAIN h \ {seg}
      PROVE  Stands(c, g, t)
  <2>1. Stands(m, h, t)
    BY DEF Standing
  <2>2. t - 1 \notin {seg - 1}
    BY <2>1 DEF Stands
  <2>3. Stands(c, h, t)
    BY <2>1, <2>2, StandingKept, Zenon
  <2> QED
    BY <2>3, <1>1 DEF Stands
<1> QED
  BY <1>1, <1>2, <1>3 DEF Standing, g

LEMMA RunningPut ==
  ASSUME NEW ps, NEW h, Running(ps, h), NEW seg, NEW p, NEW n,
         seg \in DOMAIN h => h[seg].psp = p
  PROVE  Running(ps, Put(h, seg, Holding(p, n)))
<1> DEFINE g == Put(h, seg, Holding(p, n))
<1>1. /\ DOMAIN g = DOMAIN h \cup {seg} /\ g[seg].psp = p
      /\ \A t \in DOMAIN h \ {seg} : g[t] = h[t]
  BY DEF Put, Holding
<1> HIDE DEF g
<1>2. \A i \in 1..Len(ps) : ps[i] \in DOMAIN g /\ g[ps[i]].psp = ps[i]
  BY <1>1 DEF Running
<1> QED
  BY <1>2 DEF Running, g

LEMMA OwnersReturned ==
  ASSUME NEW m, NEW c, NEW psp, NEW owners, OwnersFrom(m, c, psp), Returned(m, owners),
         psp \in owners \cup {FREE}
  PROVE  Returned(c, owners)
BY DEF OwnersFrom, Returned

LEMMA LastElement ==
  ASSUME NEW S, NEW q \in Seq(S), q # <<>>
  PROVE  Len(q) \in 1..Len(q) /\ DOMAIN q = 1..Len(q) /\ q[Len(q)] \in S
<1>1. Len(q) \in Nat /\ Len(q) # 0 /\ DOMAIN q = 1..Len(q)
  OBVIOUS
<1> QED
  BY <1>1

LEMMA PspFacts ==
  ASSUME ArenaInv
  PROVE  /\ Len(psps) \in 1..Len(psps) /\ Psp \in 1..LastSeg /\ Psp \in Range(psps)
         /\ Psp \in DOMAIN held /\ held[Psp].psp = Psp
         /\ Psp # FREE /\ Psp # DOS
<1>1. psps \in Seq(1..LastSeg) /\ psps # <<>>
  BY DEF ArenaInv, Running
<1>2. /\ Len(psps) \in 1..Len(psps) /\ DOMAIN psps = 1..Len(psps)
      /\ psps[Len(psps)] \in 1..LastSeg
  BY <1>1, LastElement, Zenon
<1>3. Len(psps) \in 1..Len(psps) /\ DOMAIN psps = 1..Len(psps)
  BY <1>2
<1>4. Psp \in 1..LastSeg
  BY <1>2 DEF Psp
<1>5. Psp \in DOMAIN held /\ held[Psp].psp = Psp
  BY <1>3 DEF ArenaInv, Running, Psp
<1>6. Psp \in Range(psps)
  BY <1>3, Zenon DEF Range, Psp
<1> QED
  BY <1>3, <1>4, <1>5, <1>6, Bounds

LEMMA StrategyFacts ==
  ASSUME ArenaInv
  PROVE  HasFit(memAllocStrategy)
BY ArenaAssumption DEF ArenaInv, HasFit

LEMMA ArenaInit == Init => ArenaInv
<1> SUFFICES ASSUME Init PROVE ArenaInv
  OBVIOUS
<1> DEFINE free == UMB_START_SEG - firstMCB - 3
<1>1. /\ DOMAIN mcb = {firstMCB, firstMCB + 2, UMB_START_SEG, first_umb_seg}
      /\ mcb = [t \in DOMAIN mcb |-> mcb[t]]
  BY DEF Init
<1>2. /\ firstMCB = 1 /\ firstMCB + 2 = 3 /\ UMB_START_SEG \in Nat /\ UMB_START_SEG > 4
      /\ first_umb_seg = UMB_START_SEG + 1 /\ UmbSize \in Nat
      /\ LastSeg = first_umb_seg + UmbSize /\ Shell = 2
      /\ free \in Nat /\ free = UMB_START_SEG - 4
  BY ArenaAssumption DEF firstMCB, first_umb_seg, LastSeg, Shell
<1>3. /\ mcb[firstMCB] = MCB("M", Shell, 1)
      /\ mcb[firstMCB + 2] = MCB("Z", FREE, free)
      /\ mcb[UMB_START_SEG] = MCB("M", DOS, 0)
      /\ mcb[first_umb_seg] = MCB("Z", FREE, UmbSize)
  BY <1>2 DEF Init
<1> HIDE DEF free
<1>4. /\ NextSeg(mcb, firstMCB) = firstMCB + 2
      /\ NextSeg(mcb, firstMCB + 2) = UMB_START_SEG
      /\ NextSeg(mcb, UMB_START_SEG) = first_umb_seg
      /\ NextSeg(mcb, first_umb_seg) = LastSeg + 1
  BY <1>2, <1>3 DEF NextSeg, MCB
<1>5. /\ "M" \in {"M", "Z"} /\ "Z" \in {"M", "Z"} /\ Shell \in Owners /\ FREE \in Owners
      /\ DOS \in Owners /\ 1 \in Nat /\ 0 \in Nat
  BY <1>2 DEF Owners
<1>6. \A t \in DOMAIN mcb :
        \E type \in {"M", "Z"}, psp \in Owners, size \in Nat : mcb[t] = MCB(type, psp, size)
  BY <1>1, <1>2, <1>3, <1>5
<1>7. ASSUME NEW t \in DOMAIN mcb
      PROVE  Header(mcb, t)
  <2>1. t \in firstMCB..LastSeg
    BY <1>1, <1>2
  <2>2. NextSeg(mcb, t) \in DOMAIN mcb \cup {LastSeg + 1}
    BY <1>1, <1>4
  <2>3. \A u \in DOMAIN mcb : t < u => NextSeg(mcb, t) <= u
    BY <1>1, <1>2, <1>4
  <2> QED
    BY <2>1, <2>2, <2>3, <1>6 DEF Header
<1>8. Arena(mcb)
  <2>1. firstMCB \in DOMAIN mcb /\ UMB_START_SEG \in DOMAIN mcb /\ mcb[UMB_START_SEG].psp = DOS
    BY <1>1, <1>3 DEF MCB
  <2> QED
    BY <2>1, <1>1, <1>7, ArenaIntro, Zenon
<1>9. Ends(mcb, linked)
  <2>1. /\ mcb[firstMCB].type = "M" /\ mcb[firstMCB + 2].type = "Z"
        /\ mcb[UMB_START_SEG].type = "M" /\ mcb[first_umb_seg].type = "Z"
    BY <1>3 DEF MCB
  <2>2. linked = FALSE
    BY DEF Init
  <2> QED
    BY <2>1, <2>2, <1>1, <1>2, <1>4 DEF Ends
<1>10. held = [seg \in {Shell} |-> Holding(Shell, 1)] /\ psps = <<Shell>> /\ resident = {}
  BY DEF Init
<1>11. Standing(mcb, held)
  <2>1. DOMAIN held = {Shell} /\ held[Shell].psp = Shell /\ held[Shell].size = 1
    BY <1>10 DEF Holding
  <2>2. Shell - 1 = firstMCB /\ firstMCB \in DOMAIN mcb
    BY <1>1, <1>2
  <2>3. mcb[firstMCB].psp = Shell /\ mcb[firstMCB].size = 1
    BY <1>3 DEF MCB
  <2> QED
    BY <2>1, <2>2, <2>3, <1>2 DEF Standing, Stands
<1>12. Running(psps, held)
  <2>1. DOMAIN held = {Shell} /\ held[Shell].psp = Shell
    BY <1>10 DEF Holding
  <2>2. Shell \in 1..LastSeg
    BY <1>2
  <2>3. psps \in Seq(1..LastSeg) /\ Len(psps) = 1 /\ psps[1] = Shell
    BY <1>10, <2>2
  <2> QED
    BY <2>1, <2>3 DEF Running
<1>13. Returned(mcb, Range(psps) \cup resident)
  <2>1. Shell \in Range(psps)
    BY <1>10 DEF Range
  <2>2. /\ mcb[firstMCB].psp = Shell /\ mcb[firstMCB + 2].psp = FREE
        /\ mcb[UMB_START_SEG].psp = DOS /\ mcb[first_umb_seg].psp = FREE
    BY <1>3 DEF MCB
  <2> QED
    BY <2>1, <2>2, <1>1 DEF Returned
<1> QED
  BY <1>8, <1>9, <1>11, <1>12, <1>13 DEF ArenaInv, Init

-----------------------------------------------------------------------------
(* Every operation keeps the invariant.                                    *)

\* A program was given n paragraphs as segment seg.
LEMMA GivenFacts ==
  ASSUME NEW m, NEW c, NEW h, NEW ps, NEW on, NEW strategy, NEW n \in Nat,
         NEW p \in 1..LastSeg, NEW r, IsAllocated(m, on, strategy, n, p, r), c = r.mcb,
         Arena(m), Standing(m, h), Running(ps, h)
  PROVE  /\ r.ok => /\ Standing(c, Put(h, r.segment, Holding(p, n)))
                    /\ Running(ps, Put(h, r.segment, Holding(p, n)))
                    /\ r.segment \notin DOMAIN h
         /\ ~r.ok => Standing(c, h)
<1>1. Arena(c) /\ Keeps(m, c, {})
  BY DEF IsAllocated
<1>2. CASE r.ok
  <2> DEFINE seg == r.segment
  <2>1. /\ seg \in Nat /\ seg - 1 \in DOMAIN c
        /\ c[seg - 1].psp = p /\ c[seg - 1].size = n
        /\ seg - 1 \in DOMAIN m => IsFree(m, seg - 1)
    BY <1>2 DEF IsAllocated
  <2> HIDE DEF seg
  <2>2. seg \notin DOMAIN h
    BY <2>1, StandingNotFree, Zenon
  <2>3. Keeps(m, c, {seg - 1})
    BY <1>1 DEF Keeps
  <2>4. c[seg - 1].size >= n
    BY <2>1
  <2>5. Standing(c, Put(h, seg, Holding(p, n)))
    BY <1>1, <2>1, <2>3, <2>4, StandingPut, Zenon
  <2>6. Running(ps, Put(h, seg, Holding(p, n)))
    BY <2>2, RunningPut, Zenon
  <2> QED
    BY <1>2, <2>2, <2>5, <2>6 DEF seg
<1>3. CASE ~r.ok
  BY <1>1, <1>3, StandingKeeps, Zenon
<1> QED
  BY <1>2, <1>3

LEMMA AllocateKeeps == ArenaInv /\ Allocate => ArenaInv'
<1> SUFFICES ASSUME ArenaInv, Allocate PROVE ArenaInv'
  OBVIOUS
<1>1. PICK n \in Sizes :
        LET r == AllocateMemory(mcb, memAllocStrategy, n, Psp)
        IN  /\ mcb' = r.mcb
            /\ held' = IF r.ok THEN Put(held, r.segment, Holding(Psp, n)) ELSE held
            /\ UNCHANGED <<linked, memAllocStrategy, psps, resident>>
  BY DEF Allocate
<1> DEFINE r == AllocateMemory(mcb, memAllocStrategy, n, Psp)
<1>2. /\ mcb' = r.mcb
      /\ held' = IF r.ok THEN Put(held, r.segment, Holding(Psp, n)) ELSE held
      /\ UNCHANGED <<linked, memAllocStrategy, psps, resident>>
  BY <1>1
<1>3. n \in Nat /\ Psp \in 1..LastSeg /\ Psp \in Range(psps)
  BY ArenaAssumption, PspFacts
<1>4. /\ linked \in BOOLEAN /\ Arena(mcb) /\ Ends(mcb, linked) /\ Standing(mcb, held)
      /\ Running(psps, held) /\ Returned(mcb, Range(psps) \cup resident)
  BY DEF ArenaInv
<1>5. IsAllocated(mcb, linked, memAllocStrategy, n, Psp, r)
  <2>1. r = AllocateMemory(mcb, memAllocStrategy, n, Psp)
    OBVIOUS
  <2> HIDE DEF r
  <2> QED
    BY <2>1, <1>3, <1>4, StrategyFacts, AllocateFacts, Zenon
<1> HIDE DEF r
<1>6. Standing(mcb', held') /\ Running(psps', held')
  <2>1. /\ r.ok => /\ Standing(mcb', Put(held, r.segment, Holding(Psp, n)))
                   /\ Running(psps, Put(held, r.segment, Holding(Psp, n)))
        /\ ~r.ok => Standing(mcb', held)
    BY <1>2, <1>3, <1>4, <1>5, GivenFacts, Zenon
  <2> QED
    BY <1>2, <1>4, <2>1
<1>7. Arena(mcb') /\ Ends(mcb', linked) /\ OwnersFrom(mcb, mcb', Psp)
  BY <1>2, <1>5, Zenon DEF IsAllocated
<1>8. Returned(mcb', Range(psps) \cup resident)
  BY <1>3, <1>4, <1>7, OwnersReturned, Zenon
<1> QED
  BY <1>2, <1>6, <1>7, <1>8 DEF ArenaInv

LEMMA AllocateUmbKeeps == ArenaInv /\ AllocateUmb => ArenaInv'
<1> SUFFICES ASSUME ArenaInv, AllocateUmb PROVE ArenaInv'
  OBVIOUS
<1> DEFINE only == [memAllocStrategy EXCEPT !.fit = "first", !.only = TRUE, !.high = FALSE]
           m == Link(mcb, TRUE)
<1>1. PICK n \in Sizes :
        LET r == AllocateMemory(m, only, n, Psp)
        IN  /\ mcb' = Link(r.mcb, linked)
            /\ held' = IF r.ok THEN Put(held, r.segment, Holding(Psp, n)) ELSE held
            /\ UNCHANGED <<linked, memAllocStrategy, psps, resident>>
  BY DEF AllocateUmb
<1> DEFINE r == AllocateMemory(m, only, n, Psp)
<1>2. /\ mcb' = Link(r.mcb, linked)
      /\ held' = IF r.ok THEN Put(held, r.segment, Holding(Psp, n)) ELSE held
      /\ UNCHANGED <<linked, memAllocStrategy, psps, resident>>
  BY <1>1
<1>3. n \in Nat /\ Psp \in 1..LastSeg /\ Psp \in Range(psps)
  BY ArenaAssumption, PspFacts
<1>4. /\ linked \in BOOLEAN /\ Arena(mcb) /\ Ends(mcb, linked) /\ Standing(mcb, held)
      /\ Running(psps, held) /\ Returned(mcb, Range(psps) \cup resident)
  BY DEF ArenaInv
<1>5. HasFit(only)
  BY ArenaAssumption DEF ArenaInv, HasFit
<1> HIDE DEF only
<1>6. /\ Arena(m) /\ Ends(m, TRUE) /\ DOMAIN m = DOMAIN mcb
      /\ \A t \in DOMAIN mcb : m[t].psp = mcb[t].psp /\ m[t].size = mcb[t].size
  <2>1. m = Link(mcb, TRUE)
    OBVIOUS
  <2> HIDE DEF m
  <2>2. IsLinked(mcb, TRUE, m)
    BY <2>1, <1>4, LinkFacts, TRUE \in BOOLEAN, Zenon
  <2> QED
    BY <2>2 DEF IsLinked
<1> HIDE DEF m
<1>7. IsAllocated(m, TRUE, only, n, Psp, r)
  <2>1. r = AllocateMemory(m, only, n, Psp)
    OBVIOUS
  <2> HIDE DEF r
  <2> QED
    BY <2>1, <1>3, <1>5, <1>6, AllocateFacts, TRUE \in BOOLEAN, Zenon
<1> HIDE DEF r
<1>8. Standing(m, held) /\ Returned(m, Range(psps) \cup resident)
  BY <1>4, <1>6 DEF Standing, Stands, Returned
<1>9. /\ r.ok => /\ Standing(r.mcb, Put(held, r.segment, Holding(Psp, n)))
                 /\ Running(psps, Put(held, r.segment, Holding(Psp, n)))
      /\ ~r.ok => Standing(r.mcb, held)
  BY <1>3, <1>4, <1>6, <1>7, <1>8, GivenFacts, Zenon
<1>10. Standing(r.mcb, held') /\ Running(psps', held')
  BY <1>2, <1>4, <1>9
<1>11. Arena(r.mcb) /\ Ends(r.mcb, TRUE) /\ OwnersFrom(m, r.mcb, Psp)
  BY <1>7, Zenon DEF IsAllocated
<1>12. Returned(r.mcb, Range(psps) \cup resident)
  BY <1>3, <1>8, <1>11, OwnersReturned, Zenon
<1>13. /\ Arena(mcb') /\ Ends(mcb', linked) /\ DOMAIN mcb' = DOMAIN r.mcb
       /\ \A t \in DOMAIN r.mcb :
            mcb'[t].psp = r.mcb[t].psp /\ mcb'[t].size = r.mcb[t].size
  <2> DEFINE c == r.mcb
  <2>1. mcb' = Link(c, linked) /\ Arena(c) /\ Ends(c, TRUE)
    BY <1>2, <1>11
  <2> HIDE DEF c
  <2>2. IsLinked(c, linked, mcb')
    BY <2>1, <1>4, LinkFacts, TRUE \in BOOLEAN, Zenon
  <2> QED
    BY <2>2 DEF c, IsLinked
<1>14. Standing(mcb', held') /\ Returned(mcb', Range(psps) \cup resident)
  BY <1>10, <1>12, <1>13 DEF Standing, Stands, Returned
<1> QED
  BY <1>2, <1>4, <1>10, <1>13, <1>14 DEF ArenaInv

LEMMA FreeMemoryKeeps == ArenaInv /\ FreeMemory => ArenaInv'
<1> SUFFICES ASSUME ArenaInv, FreeMemory PROVE ArenaInv'
  OBVIOUS
<1>1. PICK seg \in Own \ {Psp} :
        /\ mcb' = [mcb EXCEPT ![seg - 1].psp = FREE]
        /\ held' = Without(held, seg)
        /\ UNCHANGED <<linked, memAllocStrategy, psps, resident>>
  BY DEF FreeMemory
<1>2. /\ linked \in BOOLEAN /\ Arena(mcb) /\ Ends(mcb, linked) /\ Standing(mcb, held)
      /\ Running(psps, held) /\ Returned(mcb, Range(psps) \cup resident)
  BY DEF ArenaInv
<1>3. seg \in DOMAIN held /\ held[seg].psp = Psp /\ seg # Psp
  BY DEF Own
<1>4. seg \in Nat /\ seg - 1 \in DOMAIN mcb /\ mcb[seg - 1].psp = Psp
  BY <1>2, <1>3 DEF Standing, Stands
<1>5. seg - 1 # UMB_START_SEG /\ FREE \in Owners
  BY <1>2, <1>4, PspFacts DEF Arena, Owners
<1>6. IsGivenAway(mcb, linked, mcb', seg - 1, FREE)
  BY <1>1, <1>2, <1>4, <1>5, OwnerFacts, Zenon
<1>7. /\ Arena(mcb') /\ Ends(mcb', linked) /\ DOMAIN mcb' = DOMAIN mcb
      /\ mcb'[seg - 1].psp = FREE
      /\ \A t \in DOMAIN mcb \ {seg - 1} : mcb'[t] = mcb[t]
  BY <1>6 DEF IsGivenAway, MCB
<1>8. DOMAIN held' = DOMAIN held \ {seg} /\ \A t \in DOMAIN held' : held'[t] = held[t]
  BY <1>1 DEF Without
<1>9. Standing(mcb', held')
  <2> SUFFICES ASSUME NEW t \in DOMAIN held' PROVE Stands(mcb', held', t)
    BY DEF Standing
  <2>1. Stands(mcb, held, t) /\ t # seg /\ held'[t] = held[t]
    BY <1>2, <1>8 DEF Standing
  <2>2. t - 1 \in DOMAIN mcb \ {seg - 1}
    BY <2>1, <1>4 DEF Stands
  <2> QED
    BY <2>1, <2>2, <1>7 DEF Stands
<1>10. Running(psps', held')
  <2>1. ASSUME NEW i \in 1..Len(psps)
        PROVE  psps[i] # seg
    BY <1>2, <1>3 DEF Running
  <2> QED
    BY <2>1, <1>1, <1>2, <1>8 DEF Running
<1>11. Returned(mcb', Range(psps) \cup resident)
  BY <1>2, <1>7 DEF Returned
<1> QED
  BY <1>1, <1>7, <1>9, <1>10, <1>11 DEF ArenaInv

\* A program's block, or a free one, is resized: what it is told is recorded.
LEMMA ResizedFacts ==
  ASSUME NEW m, NEW on, NEW h, NEW ps, NEW seg \in Nat, NEW p \in 1..LastSeg, NEW n \in Nat,
         NEW r, IsResized(m, on, seg - 1, n, p, r), Arena(m), Standing(m, h), Running(ps, h),
         seg \in DOMAIN h => h[seg].psp = p,
         NEW g, g = IF r.ok THEN Put(h, seg, Holding(p, n)) ELSE h,
         NEW c, c = r.mcb
  PROVE  Standing(c, g) /\ Running(ps, g)
<1>1. /\ r.ok \in BOOLEAN /\ Arena(r.mcb) /\ Keeps(m, r.mcb, {seg - 1})
      /\ seg - 1 \in DOMAIN r.mcb
      /\ r.ok => r.mcb[seg - 1].psp = p /\ r.mcb[seg - 1].size = n
      /\ ~r.ok => /\ r.mcb[seg - 1].psp = m[seg - 1].psp
                  /\ r.mcb[seg - 1].size >= m[seg - 1].size
  BY Zenon DEF IsResized
<1>2. CASE r.ok
  <2>1. g = Put(h, seg, Holding(p, n)) /\ r.mcb[seg - 1].size >= n
    BY <1>1, <1>2
  <2>2. Standing(r.mcb, Put(h, seg, Holding(p, n)))
    BY <1>1, <1>2, <2>1, StandingPut, Zenon
  <2> QED
    BY <2>1, <2>2, RunningPut, Zenon
<1>3. CASE ~r.ok
  <2> SUFFICES ASSUME NEW t \in DOMAIN h PROVE Stands(r.mcb, h, t)
    BY <1>3 DEF Standing
  <2>1. Stands(m, h, t)
    BY DEF Standing
  <2>2. CASE t = seg
    <3>1. m[seg - 1].size \in Nat /\ r.mcb[seg - 1].size \in Nat
      BY <2>1, <2>2, <1>1, HeaderFacts DEF Stands
    <3> QED
      BY <2>1, <2>2, <3>1, <1>1, <1>3 DEF Stands
  <2>3. CASE t # seg
    <3>1. t - 1 \notin {seg - 1}
      BY <2>1, <2>3 DEF Stands
    <3> QED
      BY <2>1, <3>1, <1>1, StandingKept, Zenon
  <2> QED
    BY <2>2, <2>3
<1> QED
  BY <1>1, <1>2, <1>3

LEMMA ResizeKeeps == ArenaInv /\ Resize => ArenaInv'
<1> SUFFICES ASSUME ArenaInv, Resize PROVE ArenaInv'
  OBVIOUS
<1>1. PICK seg \in Own \cup {s + 1 : s \in {t \in DOMAIN mcb : IsFree(mcb, t)}}, n \in Sizes :
        LET r == ResizeMemory(mcb, seg - 1, n, Psp)
        IN  /\ mcb' = r.mcb
            /\ held' = IF r.ok THEN Put(held, seg, Holding(Psp, n)) ELSE held
            /\ UNCHANGED <<linked, memAllocStrategy, psps, resident>>
  BY DEF Resize
<1> DEFINE r == ResizeMemory(mcb, seg - 1, n, Psp)
<1>2. /\ mcb' = r.mcb
      /\ held' = IF r.ok THEN Put(held, seg, Holding(Psp, n)) ELSE held
      /\ UNCHANGED <<linked, memAllocStrategy, psps, resident>>
  BY <1>1
<1>3. n \in Nat /\ Psp \in 1..LastSeg /\ Psp \in Range(psps)
  BY ArenaAssumption, PspFacts
<1>4. /\ linked \in BOOLEAN /\ Arena(mcb) /\ Ends(mcb, linked) /\ Standing(mcb, held)
      /\ Running(psps, held) /\ Returned(mcb, Range(psps) \cup resident)
  BY DEF ArenaInv
<1>5. /\ seg \in Nat /\ seg - 1 \in DOMAIN mcb /\ mcb[seg - 1].psp \in {FREE, Psp}
      /\ seg \in DOMAIN held => held[seg].psp = Psp
  <2>1. CASE seg \in Own
    BY <2>1, <1>4 DEF Own, Standing, Stands
  <2>2. CASE seg \in {s + 1 : s \in {t \in DOMAIN mcb : IsFree(mcb, t)}}
    <3>1. PICK s \in DOMAIN mcb : IsFree(mcb, s) /\ seg = s + 1
      BY <2>2
    <3>2. s \in Nat
      BY <1>4, HeaderFacts, Zenon
    <3>3. seg - 1 = s
      BY <3>1, <3>2
    <3>4. seg \notin DOMAIN held
      BY <3>1, <3>3, <1>4, StandingNotFree, Zenon
    <3> QED
      BY <3>1, <3>2, <3>3, <3>4 DEF IsFree
  <2> QED
    BY <2>1, <2>2
<1>6. IsResized(mcb, linked, seg - 1, n, Psp, r)
  BY <1>3, <1>4, <1>5, ResizeFacts, Zenon
<1> HIDE DEF r
<1>7. Standing(r.mcb, held') /\ Running(psps, held')
  <2>1. held' = IF r.ok THEN Put(held, seg, Holding(Psp, n)) ELSE held
    BY <1>2
  <2> QED
    BY <2>1, <1>3, <1>4, <1>5, <1>6, ResizedFacts
<1>8. Arena(mcb') /\ Ends(mcb', linked) /\ OwnersFrom(mcb, mcb', Psp)
  BY <1>2, <1>6, Zenon DEF IsResized
<1>9. Returned(mcb', Range(psps) \cup resident)
  BY <1>3, <1>4, <1>8, OwnersReturned, Zenon
<1> QED
  BY <1>2, <1>7, <1>8, <1>9 DEF ArenaInv

LEMMA SetStrategyKeeps == ArenaInv /\ SetStrategy => ArenaInv'
BY DEF ArenaInv, SetStrategy

LEMMA LinkUMBsKeeps == ArenaInv /\ LinkUMBs => ArenaInv'
<1> SUFFICES ASSUME ArenaInv, LinkUMBs PROVE ArenaInv'
  OBVIOUS
<1>1. /\ linked' = ~linked /\ mcb' = Link(mcb, linked')
      /\ UNCHANGED <<memAllocStrategy, psps, resident, held>>
  BY DEF LinkUMBs
<1>2. /\ linked \in BOOLEAN /\ Arena(mcb) /\ Ends(mcb, linked) /\ Standing(mcb, held)
      /\ Running(psps, held) /\ Returned(mcb, Range(psps) \cup resident)
  BY DEF ArenaInv
<1>3. /\ Arena(mcb') /\ Ends(mcb', linked') /\ DOMAIN mcb' = DOMAIN mcb
      /\ \A t \in DOMAIN mcb : mcb'[t].psp = mcb[t].psp /\ mcb'[t].size = mcb[t].size
  <2>1. linked' \in BOOLEAN
    BY <1>1
  <2> QED
    <3>1. IsLinked(mcb, linked', mcb')
      BY <2>1, <1>1, <1>2, LinkFacts, Zenon
    <3> QED
      BY <3>1 DEF IsLinked
<1>4. Standing(mcb', held) /\ Returned(mcb', Range(psps) \cup resident)
  BY <1>2, <1>3 DEF Standing, Stands, Returned
<1> QED
  BY <1>1, <1>2, <1>3, <1>4 DEF ArenaInv

\* The largest size is 0 or that of a free block.
LEMMA LargestFacts ==
  ASSUME NEW m, Arena(m), NEW chain, chain \subseteq DOMAIN m, NEW l, l = LargestFree(m, chain)
  PROVE  /\ l \in Nat
         /\ l # 0 => \E s \in chain : IsFree(m, s) /\ m[s].size = l
         /\ \A s \in chain : IsFree(m, s) => m[s].size <= l
<1> DEFINE S == {0} \cup FreeSizes(m, chain)
<1>1. \A s \in DOMAIN m : m[s].size \in 0..LastSeg
  <2> SUFFICES ASSUME NEW s \in DOMAIN m PROVE m[s].size \in 0..LastSeg
    OBVIOUS
  <2>1. /\ m[s].size \in Nat /\ s \in Nat /\ firstMCB <= s
        /\ NextSeg(m, s) = s + m[s].size + 1 /\ NextSeg(m, s) <= LastSeg + 1
    BY HeaderFacts, Zenon
  <2> QED
    BY <2>1, Bounds
<1>2. S \subseteq 0..LastSeg /\ S # {} /\ LastSeg \in Nat
  BY <1>1, Bounds DEF FreeSizes
<1>3. l = Max(S)
  BY DEF LargestFree
<1> HIDE DEF S
<1>4. l \in S /\ \A k \in S : k <= l
  BY <1>2, <1>3, MaxFacts, Zenon
<1> QED
  BY <1>2, <1>4 DEF S, FreeSizes

\* The environment, when there is room for it, is the running program's.
IsEnvironment(n, e) ==
  /\ e.ok \in BOOLEAN
  /\ Arena(e.mcb) /\ Ends(e.mcb, linked) /\ Combined(e.mcb, linked, 0)
  /\ Standing(e.mcb, held) /\ Returned(e.mcb, Range(psps) \cup resident)
  /\ e.ok => /\ e.segment \in Nat /\ e.segment - 1 \in DOMAIN e.mcb
             /\ e.mcb[e.segment - 1].psp = Psp /\ e.mcb[e.segment - 1].size = n
             /\ e.segment \notin DOMAIN held

LEMMA EnvironmentFacts ==
  ASSUME ArenaInv, NEW n \in Nat, NEW e, e = Environment(n)
  PROVE  IsEnvironment(n, e)
<1> DEFINE r == AllocateMemory(mcb, memAllocStrategy, n, Psp)
           c == CompressMemory(r.mcb, 0)
<1>1. Psp \in 1..LastSeg /\ Psp \in Range(psps)
  BY PspFacts
<1>2. /\ linked \in BOOLEAN /\ Arena(mcb) /\ Ends(mcb, linked) /\ Standing(mcb, held)
      /\ Running(psps, held) /\ Returned(mcb, Range(psps) \cup resident)
  BY DEF ArenaInv
<1>3. IsAllocated(mcb, linked, memAllocStrategy, n, Psp, r)
  <2>1. r = AllocateMemory(mcb, memAllocStrategy, n, Psp)
    OBVIOUS
  <2> HIDE DEF r
  <2> QED
    BY <2>1, <1>1, <1>2, StrategyFacts, AllocateFacts, Zenon
<1>4. e = [r EXCEPT !.mcb = CompressMemory(@, 0)]
  BY DEF Environment
<1> HIDE DEF r
<1>5. /\ r.ok \in BOOLEAN /\ IsOutcome(r)
      /\ Arena(r.mcb) /\ Ends(r.mcb, linked) /\ OwnersFrom(mcb, r.mcb, Psp)
      /\ r.ok => /\ r.segment \in Nat /\ r.segment - 1 \in DOMAIN r.mcb
                 /\ r.mcb[r.segment - 1].psp = Psp /\ r.mcb[r.segment - 1].size = n
  BY <1>3, Zenon DEF IsAllocated
<1>6. e.mcb = c /\ e.ok = r.ok /\ (r.ok => e.segment = r.segment)
  <2>1. CASE r = [ok |-> TRUE, segment |-> r.segment, mcb |-> r.mcb]
    <3> DEFINE x == r.segment
               y == r.mcb
    <3>1. r = [ok |-> TRUE, segment |-> x, mcb |-> y] /\ c = CompressMemory(y, 0)
      BY <2>1
    <3> HIDE DEF x, y, c
    <3>2. e = [ok |-> TRUE, segment |-> x, mcb |-> c]
      BY <1>4, <3>1
    <3> QED
      BY <3>1, <3>2
  <2>2. CASE r = [ok |-> FALSE, mcb |-> r.mcb, largest |-> r.largest]
    <3> DEFINE x == r.largest
               y == r.mcb
    <3>1. r = [ok |-> FALSE, mcb |-> y, largest |-> x] /\ c = CompressMemory(y, 0)
      BY <2>2
    <3> HIDE DEF x, y, c
    <3>2. e = [ok |-> FALSE, mcb |-> c, largest |-> x]
      BY <1>4, <3>1
    <3> QED
      BY <3>1, <3>2
  <2> QED
    BY <1>5, <2>1, <2>2, Zenon DEF IsOutcome
<1>7. IsCompressed(r.mcb, linked, 0, c)
  BY <1>2, <1>5, CompressFacts, 0 \in Nat
<1> HIDE DEF c
<1>8. /\ Arena(c) /\ Ends(c, linked) /\ Combined(c, linked, 0)
      /\ \A t \in DOMAIN r.mcb : ~IsFree(r.mcb, t) => t \in DOMAIN c /\ c[t] = r.mcb[t]
  BY <1>7 DEF IsCompressed
<1>9. Keeps(r.mcb, c, {}) /\ OwnersFrom(r.mcb, c, Psp)
  BY <1>5, <1>7, CompressKeeps, Zenon
<1>10. /\ r.ok => r.segment \notin DOMAIN held
       /\ Standing(r.mcb, held)
  <2>1. Keeps(mcb, r.mcb, {})
    BY <1>3, Zenon DEF IsAllocated
  <2>2. Standing(r.mcb, held)
    BY <2>1, <1>2, <1>5, StandingKeeps, Zenon
  <2>3. r.ok => r.segment \notin DOMAIN held
    BY <1>1, <1>2, <1>3, GivenFacts, Zenon
  <2> QED
    BY <2>2, <2>3
<1>11. Standing(c, held)
  BY <1>5, <1>8, <1>9, <1>10, StandingKeeps, Zenon
<1>12. Returned(c, Range(psps) \cup resident)
  <2>1. Returned(r.mcb, Range(psps) \cup resident)
    BY <1>1, <1>2, <1>5, OwnersReturned, Zenon
  <2> QED
    BY <2>1, <1>1, <1>9, OwnersReturned, Zenon
<1>13. ASSUME r.ok
       PROVE  /\ r.segment - 1 \in DOMAIN c
              /\ c[r.segment - 1].psp = Psp /\ c[r.segment - 1].size = n
  <2>1. ~IsFree(r.mcb, r.segment - 1)
    BY <1>5, <1>13, PspFacts DEF IsFree
  <2> QED
    BY <2>1, <1>5, <1>8, <1>13
<1> QED
  BY <1>5, <1>6, <1>8, <1>10, <1>11, <1>12, <1>13 DEF IsEnvironment

\* A block of one paragraph or more ends in the memory.
LEMMA BlockInMemory ==
  ASSUME NEW m, Arena(m), NEW seg \in Nat, seg - 1 \in DOMAIN m, m[seg - 1].size >= 1
  PROVE  seg \in 1..LastSeg
<1>1. /\ seg - 1 \in Nat /\ firstMCB <= seg - 1 /\ m[seg - 1].size \in Nat
      /\ NextSeg(m, seg - 1) = seg - 1 + m[seg - 1].size + 1
      /\ NextSeg(m, seg - 1) <= LastSeg + 1
  BY HeaderFacts, Zenon
<1> QED
  BY <1>1, Bounds

\* A program is loaded.
LEMMA LoadKeeps ==
  ASSUME ArenaInv, NEW envsize \in Nat, NEW env, IsEnvironment(envsize, env), env.ok,
         NEW size \in Nat, size >= 1,
         NEW prog, prog = AllocateMemory(env.mcb, memAllocStrategy, size, Psp),
         Load(env, envsize, prog, size),
         UNCHANGED <<linked, memAllocStrategy, resident>>
  PROVE  ArenaInv'
<1> DEFINE psp == prog.segment
           e == env.segment
           m == env.mcb
           c == prog.mcb
<1>1. Psp \in 1..LastSeg /\ Psp \in Range(psps) /\ Psp # FREE /\ Psp # DOS
  BY PspFacts
<1>2. linked \in BOOLEAN /\ Running(psps, held)
  BY DEF ArenaInv
<1>3. /\ Arena(m) /\ Ends(m, linked)
      /\ Standing(m, held) /\ Returned(m, Range(psps) \cup resident)
      /\ e \in Nat /\ e - 1 \in DOMAIN m /\ m[e - 1].psp = Psp /\ m[e - 1].size = envsize
      /\ e \notin DOMAIN held
  BY DEF IsEnvironment
<1>4. IsAllocated(m, linked, memAllocStrategy, size, Psp, prog)
  <2> HIDE DEF psp, e, c
  <2> QED
    BY <1>1, <1>2, <1>3, StrategyFacts, AllocateFacts, Zenon
<1>5. /\ Arena(c) /\ Ends(c, linked) /\ Keeps(m, c, {}) /\ OwnersFrom(m, c, Psp)
      /\ prog.ok \in BOOLEAN
  BY <1>4, Zenon DEF IsAllocated
<1>6. Standing(c, held) /\ Returned(c, Range(psps) \cup resident)
  <2>1. Standing(c, held)
    BY <1>3, <1>5, StandingKeeps, Zenon
  <2>2. Returned(c, Range(psps) \cup resident)
    BY <1>1, <1>3, <1>5, OwnersReturned, Zenon
  <2> QED
    BY <2>1, <2>2
<1>7. CASE ~prog.ok
  <2>1. mcb' = c /\ UNCHANGED <<psps, held>>
    BY <1>7 DEF Load
  <2> QED
    BY <2>1, <1>2, <1>5, <1>6 DEF ArenaInv
<1>8. CASE prog.ok
  <2>1. /\ psp \in Nat /\ psp - 1 \in DOMAIN c /\ c[psp - 1].psp = Psp /\ c[psp - 1].size = size
        /\ psp - 1 \in DOMAIN m => IsFree(m, psp - 1)
    BY <1>4, <1>8, Zenon DEF IsAllocated
  <2>2. /\ mcb' = [c EXCEPT ![e - 1].psp = psp, ![psp - 1].psp = psp]
        /\ psps' = Append(psps, psp)
        /\ held' = Put(Put(held, psp, Holding(psp, size)), e, Holding(psp, envsize))
    BY <1>8 DEF Load
  <2> HIDE DEF psp, e, m, c
  <2>3. psp \notin DOMAIN held
    BY <2>1, <1>3, StandingNotFree, Zenon
  <2>4. ~IsFree(m, e - 1) /\ e - 1 # psp - 1
    BY <1>1, <1>3, <2>1 DEF IsFree
  <2>5. e - 1 \in DOMAIN c /\ c[e - 1].psp = Psp /\ c[e - 1].size >= envsize
    BY <1>3, <1>5, <2>4 DEF Keeps
  <2>6. psp \in 1..LastSeg /\ psp \in Owners
    <3>1. c[psp - 1].size >= 1
      BY <2>1
    <3>2. psp \in 1..LastSeg
      BY <1>5, <2>1, <3>1, BlockInMemory, Zenon
    <3> QED
      BY <3>2 DEF Owners
  <2>7. e - 1 # UMB_START_SEG /\ psp - 1 # UMB_START_SEG
    BY <1>1, <1>5, <2>1, <2>5 DEF Arena
  <2> DEFINE d == [c EXCEPT ![e - 1].psp = psp]
  <2>8. mcb' = [d EXCEPT ![psp - 1].psp = psp]
    BY <2>2
  <2>9. IsGivenAway(c, linked, d, e - 1, psp)
    BY <1>2, <1>5, <2>5, <2>6, <2>7, OwnerFacts, Zenon
  <2> HIDE DEF d
  <2>10. /\ Arena(d) /\ Ends(d, linked) /\ DOMAIN d = DOMAIN c
         /\ d[e - 1].psp = psp /\ d[e - 1].size = c[e - 1].size
         /\ \A t \in DOMAIN c \ {e - 1} : d[t] = c[t]
    BY <2>9 DEF IsGivenAway, MCB
  <2>11. IsGivenAway(d, linked, mcb', psp - 1, psp)
    BY <1>2, <2>1, <2>6, <2>7, <2>8, <2>10, OwnerFacts, Zenon
  <2>12. /\ Arena(mcb') /\ Ends(mcb', linked) /\ DOMAIN mcb' = DOMAIN c
         /\ mcb'[psp - 1].psp = psp /\ mcb'[psp - 1].size = d[psp - 1].size
         /\ \A t \in DOMAIN c \ {psp - 1} : mcb'[t] = d[t]
    BY <2>10, <2>11 DEF IsGivenAway, MCB
  <2>13. /\ mcb'[psp - 1].size = size
         /\ mcb'[e - 1].psp = psp /\ mcb'[e - 1].size >= envsize
         /\ \A t \in DOMAIN c \ {e - 1, psp - 1} : mcb'[t] = c[t]
    BY <2>1, <2>4, <2>5, <2>10, <2>12
  <2>14. /\ DOMAIN held' = DOMAIN held \cup {psp, e}
         /\ held'[e] = Holding(psp, envsize) /\ held'[psp] = Holding(psp, size)
         /\ \A t \in DOMAIN held : held'[t] = held[t]
    <3>1. e # psp
      BY <2>4
    <3> QED
      BY <3>1, <2>2, <2>3, <1>3 DEF Put
  <2>15. Standing(mcb', held')
    <3>1. Stands(mcb', held', e)
      BY <1>3, <2>5, <2>6, <2>12, <2>13, <2>14 DEF Stands, Holding
    <3>2. Stands(mcb', held', psp)
      BY <2>1, <2>6, <2>12, <2>13, <2>14 DEF Stands, Holding
    <3>3. ASSUME NEW t \in DOMAIN held
          PROVE  Stands(mcb', held', t)
      <4>1. Stands(c, held, t) /\ t # e /\ t # psp
        BY <1>3, <1>6, <2>3 DEF Standing
      <4>2. t - 1 \in DOMAIN c \ {e - 1, psp - 1}
        BY <4>1, <1>3, <2>1 DEF Stands
      <4> QED
        BY <4>1, <4>2, <2>12, <2>13, <2>14 DEF Stands
    <3> QED
      BY <3>1, <3>2, <3>3, <2>14 DEF Standing
  <2>16. Running(psps', held')
    <3>1. /\ psps \in Seq(1..LastSeg) /\ Len(psps) \in Nat
          /\ \A i, j \in 1..Len(psps) : psps[i] = psps[j] => i = j
          /\ \A i \in 1..Len(psps) : psps[i] \in DOMAIN held /\ held[psps[i]].psp = psps[i]
      BY <1>2 DEF Running
    <3>2. /\ psps' \in Seq(1..LastSeg) /\ Len(psps') = Len(psps) + 1
          /\ psps'[Len(psps) + 1] = psp
          /\ \A i \in 1..Len(psps) : psps'[i] = psps[i]
      BY <2>2, <2>6, <3>1
    <3>3. \A i \in 1..Len(psps) : psps'[i] # psp
      BY <3>1, <3>2, <2>3
    <3>4. held'[psp].psp = psp
      BY <2>14 DEF Holding
    <3>5. \A i \in 1..Len(psps') : psps'[i] \in DOMAIN held' /\ held'[psps'[i]].psp = psps'[i]
      <4> SUFFICES ASSUME NEW i \in 1..Len(psps')
                   PROVE  psps'[i] \in DOMAIN held' /\ held'[psps'[i]].psp = psps'[i]
        OBVIOUS
      <4>1. CASE i = Len(psps) + 1
        BY <4>1, <3>2, <3>4, <2>14
      <4>2. CASE i # Len(psps) + 1
        <5>1. i \in 1..Len(psps)
          BY <4>2, <3>1, <3>2
        <5> QED
          BY <5>1, <3>1, <3>2, <2>14
      <4> QED
        BY <4>1, <4>2
    <3>6. \A i, j \in 1..Len(psps') : psps'[i] = psps'[j] => i = j
      <4> SUFFICES ASSUME NEW i \in 1..Len(psps'), NEW j \in 1..Len(psps'),
                          psps'[i] = psps'[j]
                   PROVE  i = j
        OBVIOUS
      <4>1. /\ i \in 1..Len(psps) \/ i = Len(psps) + 1
            /\ j \in 1..Len(psps) \/ j = Len(psps) + 1
        BY <3>1, <3>2
      <4> QED
        BY <4>1, <3>1, <3>2, <3>3
    <3>7. psps' # <<>>
      BY <3>1, <3>2
    <3> QED
      BY <3>2, <3>5, <3>6, <3>7 DEF Running
  <2>17. Returned(mcb', Range(psps') \cup resident)
    <3>1. Range(psps) \cup {psp} \subseteq Range(psps')
      <4>1. psps \in Seq(1..LastSeg)
        BY <1>2 DEF Running
      <4>2. /\ DOMAIN psps' = 1..Len(psps) + 1 /\ DOMAIN psps = 1..Len(psps)
            /\ Len(psps) \in Nat
        BY <4>1, <2>2, <2>6
      <4>3. psps'[Len(psps) + 1] = psp /\ \A i \in 1..Len(psps) : psps'[i] = psps[i]
        BY <4>1, <2>2, <2>6
      <4> QED
        BY <4>2, <4>3 DEF Range
    <3>2. \A t \in DOMAIN mcb' : mcb'[t].psp \in {psp, c[t].psp}
      BY <2>12, <2>13
    <3> QED
      BY <3>1, <3>2, <1>6, <2>12 DEF Returned
  <2> QED
    BY <2>12, <2>15, <2>16, <2>17 DEF ArenaInv
<1> QED
  BY <1>5, <1>7, <1>8

\* The size DOS_GetMaximumFreeSize answers is that of a block that an
\* allocation finds.
LEMMA MaximumFacts ==
  ASSUME NEW m, NEW on \in BOOLEAN, Arena(m), Ends(m, on), NEW strategy, NEW minBlocks,
         NEW l, l = MaximumFreeSize(m, strategy, minBlocks)
  PROVE  /\ l \in Nat
         /\ l # 0 => \E s \in Candidates(m, strategy) : IsFree(m, s) /\ m[s].size = l
<1> DEFINE umb == Chain(m, UMB_START_SEG)
           low == Chain(m, firstMCB)
<1>1. umb \subseteq DOMAIN m /\ low \subseteq DOMAIN m
  BY LowFacts
<1>2. /\ strategy.only \/ strategy.high => umb \subseteq Candidates(m, strategy)
      /\ ~strategy.only => low \subseteq Candidates(m, strategy)
  BY DEF Candidates, SearchedHigh, SearchedLow
<1>3. l = IF strategy.only \/ (strategy.high /\ LargestFree(m, umb) >= minBlocks)
          THEN LargestFree(m, umb) ELSE LargestFree(m, low)
  BY DEF MaximumFreeSize
<1> HIDE DEF umb, low
<1>4. CASE l = LargestFree(m, umb) /\ (strategy.only \/ strategy.high)
  <2>1. l \in Nat /\ (l # 0 => \E s \in umb : IsFree(m, s) /\ m[s].size = l)
    BY <1>1, <1>4, LargestFacts
  <2> QED
    BY <2>1, <1>2, <1>4
<1>5. CASE l = LargestFree(m, low) /\ ~strategy.only
  <2>1. l \in Nat /\ (l # 0 => \E s \in low : IsFree(m, s) /\ m[s].size = l)
    BY <1>1, <1>5, LargestFacts
  <2> QED
    BY <2>1, <1>2, <1>5
<1> QED
  BY <1>3, <1>4, <1>5

\* A program that is large enough gets at least a paragraph, and no more than
\* an allocation finds.
LEMMA SizeFacts ==
  ASSUME ArenaInv, NEW env, NEW n, IsEnvironment(n, env),
         NEW minsize \in Sizes \ {0}, NEW maxsize \in Sizes \ {0},
         NEW size, size = ProgramSize(env, minsize, maxsize), size >= minsize
  PROVE  /\ size \in Nat /\ size >= 1
         /\ \E s \in Candidates(env.mcb, memAllocStrategy) :
              IsFree(env.mcb, s) /\ env.mcb[s].size >= size
<1> DEFINE m == env.mcb
           l == MaximumFreeSize(m, memAllocStrategy, minsize)
<1>1. linked \in BOOLEAN /\ Arena(m) /\ Ends(m, linked)
  BY DEF ArenaInv, IsEnvironment
<1>2. size = Min({maxsize, l})
  BY DEF ProgramSize
<1>3. l = MaximumFreeSize(m, memAllocStrategy, minsize)
  OBVIOUS
<1> HIDE DEF l, m
<1>4. /\ l \in Nat
      /\ l # 0 => \E s \in Candidates(m, memAllocStrategy) : IsFree(m, s) /\ m[s].size = l
  BY <1>1, <1>3, MaximumFacts
<1>5. minsize \in Nat /\ minsize >= 1 /\ maxsize \in Nat
  BY ArenaAssumption
<1>6. size \in {maxsize, l} /\ size <= l
  <2>1. {maxsize, l} \subseteq Nat /\ {maxsize, l} # {}
    BY <1>4, <1>5
  <2>2. Min({maxsize, l}) \in {maxsize, l} /\ \A k \in {maxsize, l} : Min({maxsize, l}) <= k
    BY <2>1, MinFacts
  <2> QED
    BY <1>2, <2>2
<1>7. size \in Nat /\ size >= 1 /\ l # 0
  BY <1>4, <1>5, <1>6
<1>8. \A s \in Candidates(m, memAllocStrategy) :
        IsFree(m, s) /\ m[s].size = l => m[s].size >= size
  BY <1>6
<1> QED
  BY <1>4, <1>7, <1>8 DEF m

LEMMA ExecuteKeeps == ArenaInv /\ Execute => ArenaInv'
<1> SUFFICES ASSUME ArenaInv, Execute PROVE ArenaInv'
  OBVIOUS
<1>1. UNCHANGED <<linked, memAllocStrategy, resident>>
  BY DEF Execute
<1>2. PICK envsize \in Sizes \ {0}, minsize \in Sizes \ {0}, maxsize \in Sizes \ {0} :
        LET env == Environment(envsize)
        IN  LoadAfter(env, envsize, ProgramSize(env, minsize, maxsize), minsize)
  BY DEF Execute
<1> DEFINE env == Environment(envsize)
           size == ProgramSize(env, minsize, maxsize)
           prog == AllocateMemory(env.mcb, memAllocStrategy, size, Psp)
           m == env.mcb
           e == env.segment
<1>3. LoadAfter(env, envsize, size, minsize)
  BY <1>2
<1>4. IsEnvironment(envsize, env) /\ envsize \in Nat
  <2>1. envsize \in Nat /\ env = Environment(envsize)
    BY ArenaAssumption
  <2> HIDE DEF env
  <2> QED
    BY <2>1, EnvironmentFacts, Zenon
<1> HIDE DEF env
<1>5. CASE env.ok /\ size >= minsize
  <2>1. Load(env, envsize, prog, size)
    BY <1>3, <1>5 DEF LoadAfter
  <2>2. size \in Nat /\ size >= 1
    <3>1. size = ProgramSize(env, minsize, maxsize)
      OBVIOUS
    <3> HIDE DEF size
    <3> QED
      BY <3>1, <1>4, <1>5, SizeFacts
  <2>3. prog = AllocateMemory(env.mcb, memAllocStrategy, size, Psp)
    OBVIOUS
  <2> HIDE DEF size, prog
  <2> QED
    BY <1>1, <1>4, <1>5, <2>1, <2>2, <2>3, LoadKeeps
<1>6. CASE ~(env.ok /\ size >= minsize)
  <2>1. /\ mcb' = IF env.ok THEN [m EXCEPT ![e - 1].psp = FREE] ELSE m
        /\ UNCHANGED <<psps, held>>
    BY <1>3, <1>6 DEF LoadAfter
  <2>2. /\ Arena(m) /\ Ends(m, linked)
        /\ Standing(m, held) /\ Returned(m, Range(psps) \cup resident)
        /\ env.ok \in BOOLEAN
        /\ env.ok => /\ e \in Nat /\ e - 1 \in DOMAIN m /\ m[e - 1].psp = Psp
                     /\ e \notin DOMAIN held
    BY <1>4 DEF IsEnvironment
  <2>3. linked \in BOOLEAN /\ memAllocStrategy \in Strategies /\ Running(psps, held)
    BY DEF ArenaInv
  <2> HIDE DEF m, e
  <2>4. CASE ~env.ok
    BY <1>1, <2>1, <2>2, <2>3, <2>4 DEF ArenaInv
  <2>5. CASE env.ok
    <3>1. mcb' = [m EXCEPT ![e - 1].psp = FREE]
      BY <2>1, <2>5
    <3>2. e - 1 # UMB_START_SEG /\ FREE \in Owners
      BY <2>2, <2>5, PspFacts DEF Arena, Owners
    <3>3. IsGivenAway(m, linked, mcb', e - 1, FREE)
      BY <2>2, <2>3, <2>5, <3>1, <3>2, OwnerFacts, Zenon
    <3>4. /\ Arena(mcb') /\ Ends(mcb', linked) /\ DOMAIN mcb' = DOMAIN m
          /\ mcb'[e - 1].psp = FREE
          /\ \A t \in DOMAIN m \ {e - 1} : mcb'[t] = m[t]
      BY <3>3 DEF IsGivenAway, MCB
    <3>5. Standing(mcb', held)
      <4> SUFFICES ASSUME NEW t \in DOMAIN held PROVE Stands(mcb', held, t)
        BY DEF Standing
      <4>1. Stands(m, held, t) /\ t # e
        BY <2>2, <2>5 DEF Standing
      <4>2. t - 1 \in DOMAIN m \ {e - 1}
        BY <4>1, <2>2, <2>5 DEF Stands
      <4> QED
        BY <4>1, <4>2, <3>4 DEF Stands
    <3>6. Returned(mcb', Range(psps) \cup resident)
      BY <2>2, <3>4 DEF Returned
    <3> QED
      BY <1>1, <2>1, <2>3, <3>4, <3>5, <3>6 DEF ArenaInv
  <2> QED
    BY <2>2, <2>4, <2>5
<1> QED
  BY <1>5, <1>6

IsAllButLast(S, q, f) ==
  /\ f \in Seq(S) /\ f # <<>>
  /\ DOMAIN f = 1..Len(f) /\ DOMAIN q = 1..Len(q) /\ Len(q) \in 1..Len(q)
  /\ \A i \in 1..Len(f) : f[i] = q[i] /\ i \in 1..Len(q) /\ i # Len(q)
  /\ \A i \in 1..Len(q) : i = Len(q) \/ i \in 1..Len(f)

LEMMA FrontElements ==
  ASSUME NEW S, NEW q \in Seq(S), Len(q) > 1, NEW f, f = SubSeq(q, 1, Len(q) - 1)
  PROVE  IsAllButLast(S, q, f)
<1> DEFINE n == Len(q)
<1>1. n \in Nat /\ n > 1 /\ DOMAIN q = 1..n
  OBVIOUS
<1>2. /\ f \in Seq(S) /\ Len(f) = n - 1 /\ DOMAIN f = 1..(n - 1)
      /\ \A i \in 1..(n - 1) : f[i] = q[i]
  BY <1>1
<1> HIDE DEF n
<1>3. f # <<>>
  <2>1. Len(f) # 0
    BY <1>1, <1>2
  <2> QED
    BY <2>1
<1>4. /\ n \in 1..n
      /\ \A i \in 1..(n - 1) : i \in 1..n /\ i # n
      /\ \A i \in 1..n : i = n \/ i \in 1..(n - 1)
  BY <1>1
<1> QED
  BY <1>1, <1>2, <1>3, <1>4, Zenon DEF IsAllButLast, n

\* The last running program is no longer one.
IsFront(ps, h, p, qs) ==
  /\ Running(qs, h) /\ \A i \in 1..Len(qs) : qs[i] # p
  /\ Range(ps) = Range(qs) \cup {p}

LEMMA FrontFacts ==
  ASSUME NEW ps, NEW h, Running(ps, h), Len(ps) > 1,
         NEW p, p = ps[Len(ps)],
         NEW qs, qs = SubSeq(ps, 1, Len(ps) - 1)
  PROVE  IsFront(ps, h, p, qs)
<1>1. /\ ps \in Seq(1..LastSeg)
      /\ \A i, j \in 1..Len(ps) : ps[i] = ps[j] => i = j
      /\ \A i \in 1..Len(ps) : ps[i] \in DOMAIN h /\ h[ps[i]].psp = ps[i]
  BY Zenon DEF Running
<1>2. IsAllButLast(1..LastSeg, ps, qs)
  BY <1>1, FrontElements, Zenon
<1> DEFINE I == 1..Len(ps)
           J == 1..Len(qs)
           l == Len(ps)
<1>3. /\ \A i, j \in I : ps[i] = ps[j] => i = j
      /\ \A i \in I : ps[i] \in DOMAIN h /\ h[ps[i]].psp = ps[i]
  BY <1>1, Zenon
<1>4. /\ \A i \in J : qs[i] = ps[i] /\ i \in I /\ i # l
      /\ \A i \in I : i = l \/ i \in J
      /\ l \in I /\ p = ps[l] /\ DOMAIN qs = J /\ DOMAIN ps = I
      /\ qs \in Seq(1..LastSeg) /\ qs # <<>>
  BY <1>2, Zenon DEF IsAllButLast
<1> HIDE DEF I, J, l
<1>5. /\ \A i, j \in J : qs[i] = qs[j] => i = j
      /\ \A i \in J : qs[i] \in DOMAIN h /\ h[qs[i]].psp = qs[i]
      /\ \A i \in J : qs[i] # p
  <2>1. \A i \in J : qs[i] = ps[i] /\ i \in I /\ i # l
    BY <1>4, Zenon
  <2>2. \A i, j \in J : qs[i] = qs[j] => i = j
    BY <2>1, <1>3, Zenon
  <2>3. \A i \in J : qs[i] \in DOMAIN h /\ h[qs[i]].psp = qs[i]
    BY <2>1, <1>3, Zenon
  <2>4. \A i \in J : qs[i] # p
    <3>1. l \in I /\ p = ps[l]
      BY <1>4, Zenon
    <3> QED
      BY <3>1, <2>1, <1>3, Zenon
  <2> QED
    BY <2>2, <2>3, <2>4, Zenon
<1>6. Range(ps) = Range(qs) \cup {p}
  <2>1. \A x : x \in {ps[i] : i \in I} <=> x \in {qs[i] : i \in J} \cup {p}
    BY <1>4, Zenon
  <2> QED
    BY <2>1, <1>4, Zenon DEF Range
<1> QED
  BY <1>4, <1>5, <1>6, Zenon DEF Running, IsFront, J

LEMMA TerminateKeeps == ArenaInv /\ Terminate => ArenaInv'
<1> SUFFICES ASSUME ArenaInv, Terminate PROVE ArenaInv'
  OBVIOUS
<1> DEFINE chain == Chain(mcb, firstMCB) \cup Chain(mcb, UMB_START_SEG)
           f == Freed(mcb, Psp, chain)
<1>1. /\ Len(psps) > 1
      /\ mcb' = CompressMemory(f, 0) /\ psps' = SubSeq(psps, 1, Len(psps) - 1)
      /\ held' = [t \in DOMAIN held \ Own |-> held[t]]
      /\ UNCHANGED <<linked, memAllocStrategy, resident>>
  BY DEF Terminate, FreeProcessMemory
<1>2. /\ linked \in BOOLEAN /\ Arena(mcb) /\ Ends(mcb, linked) /\ Standing(mcb, held)
      /\ Running(psps, held) /\ Returned(mcb, Range(psps) \cup resident)
  BY DEF ArenaInv
<1>3. DOMAIN mcb = chain
  <2>1. \A t \in DOMAIN mcb : t \in Nat
    BY <1>2, HeaderFacts
  <2>2. /\ Chain(mcb, firstMCB) = {t \in DOMAIN mcb : linked \/ t < UMB_START_SEG}
        /\ Chain(mcb, UMB_START_SEG) = {t \in DOMAIN mcb : UMB_START_SEG <= t}
    <3>1. Chain(mcb, firstMCB) = Low(mcb, linked)
      BY <1>2, LowFacts, Zenon
    <3>2. Low(mcb, linked) = {t \in DOMAIN mcb : linked \/ t < UMB_START_SEG}
      BY <1>2, LowFacts, Zenon
    <3> QED
      BY <1>2, <3>1, <3>2, LowFacts, Zenon
  <2>3. \A t \in DOMAIN mcb : t < UMB_START_SEG \/ UMB_START_SEG <= t
    BY <2>1, Bounds
  <2> QED
    BY <2>2, <2>3, Zenon
<1> HIDE DEF chain
<1>4. f = Freed(mcb, Psp, chain)
  OBVIOUS
<1> HIDE DEF f
<1>5. /\ Arena(f) /\ Ends(f, linked) /\ DOMAIN f = DOMAIN mcb
      /\ \A t \in DOMAIN mcb :
           /\ f[t].size = mcb[t].size
           /\ f[t].psp = IF t \in chain /\ mcb[t].psp = Psp THEN FREE ELSE mcb[t].psp
  <2>1. IsFreed(mcb, linked, Psp, chain, f)
    BY <1>2, <1>4, PspFacts, FreedFacts, Zenon
  <2> QED
    BY <2>1 DEF IsFreed
<1>6. IsCompressed(f, linked, 0, mcb')
  BY <1>1, <1>2, <1>5, CompressFacts, 0 \in Nat
<1>7. /\ Arena(mcb') /\ Ends(mcb', linked)
      /\ Keeps(f, mcb', {}) /\ OwnersFrom(f, mcb', FREE)
  BY <1>5, <1>6, CompressKeeps, Zenon DEF IsCompressed
<1>8. /\ DOMAIN held' = {t \in DOMAIN held : held[t].psp # Psp}
      /\ \A t \in DOMAIN held' : held'[t] = held[t]
  BY <1>1 DEF Own
<1>9. Standing(mcb', held')
  <2>1. Standing(f, held')
    <3> SUFFICES ASSUME NEW t \in DOMAIN held' PROVE Stands(f, held', t)
      BY DEF Standing
    <3>1. Stands(mcb, held, t) /\ held[t].psp # Psp /\ held'[t] = held[t]
      BY <1>2, <1>8 DEF Standing
    <3> QED
      BY <3>1, <1>5 DEF Stands
  <2> QED
    BY <2>1, <1>5, <1>7, StandingKeeps, Zenon
<1>10. /\ Running(psps', held) /\ \A i \in 1..Len(psps') : psps'[i] # Psp
       /\ Range(psps) = Range(psps') \cup {Psp}
  <2>1. IsFront(psps, held, Psp, psps')
    BY <1>1, <1>2, FrontFacts, Zenon DEF Psp
  <2> QED
    BY <2>1 DEF IsFront
<1>11. Running(psps', held')
  BY <1>8, <1>10 DEF Running
<1>12. Returned(mcb', Range(psps') \cup resident)
  <2>1. Returned(f, Range(psps') \cup resident)
    BY <1>2, <1>3, <1>5, <1>10 DEF Returned
  <2> QED
    BY <2>1, <1>7, OwnersReturned
<1> QED
  BY <1>1, <1>7, <1>9, <1>11, <1>12 DEF ArenaInv

LEMMA StayResidentKeeps == ArenaInv /\ StayResident => ArenaInv'
<1> SUFFICES ASSUME ArenaInv, StayResident PROVE ArenaInv'
  OBVIOUS
<1>1. PICK n \in Sizes :
        LET r == ResizeMemory(mcb, Psp - 1, n, Psp)
        IN  /\ mcb' = r.mcb
            /\ held' = IF r.ok THEN Put(held, Psp, Holding(Psp, n)) ELSE held
  BY DEF StayResident
<1> DEFINE r == ResizeMemory(mcb, Psp - 1, n, Psp)
<1>2. /\ mcb' = r.mcb
      /\ held' = IF r.ok THEN Put(held, Psp, Holding(Psp, n)) ELSE held
      /\ Len(psps) > 1
      /\ psps' = SubSeq(psps, 1, Len(psps) - 1) /\ resident' = resident \cup {Psp}
      /\ UNCHANGED <<linked, memAllocStrategy>>
  BY <1>1 DEF StayResident
<1>3. /\ n \in Nat /\ Psp \in 1..LastSeg /\ Psp \in Nat /\ Psp \in Range(psps)
      /\ Psp \in DOMAIN held /\ held[Psp].psp = Psp
  BY ArenaAssumption, PspFacts, Bounds
<1>4. /\ linked \in BOOLEAN /\ Arena(mcb) /\ Ends(mcb, linked) /\ Standing(mcb, held)
      /\ Running(psps, held) /\ Returned(mcb, Range(psps) \cup resident)
  BY DEF ArenaInv
<1>5. Psp - 1 \in DOMAIN mcb /\ mcb[Psp - 1].psp \in {FREE, Psp}
  BY <1>3, <1>4 DEF Standing, Stands
<1>6. r = ResizeMemory(mcb, Psp - 1, n, Psp)
  OBVIOUS
<1> HIDE DEF r
<1>7. IsResized(mcb, linked, Psp - 1, n, Psp, r)
  BY <1>3, <1>4, <1>5, <1>6, ResizeFacts, Zenon
<1>8. Standing(r.mcb, held') /\ Running(psps, held')
  <2>1. held' = IF r.ok THEN Put(held, Psp, Holding(Psp, n)) ELSE held
    BY <1>2
  <2> QED
    BY <2>1, <1>3, <1>4, <1>7, ResizedFacts
<1>9. Arena(mcb') /\ Ends(mcb', linked) /\ OwnersFrom(mcb, mcb', Psp)
  BY <1>2, <1>7, Zenon DEF IsResized
<1>10. Returned(mcb', Range(psps) \cup resident)
  BY <1>3, <1>4, <1>9, OwnersReturned, Zenon
<1>11. Running(psps', held') /\ Range(psps) = Range(psps') \cup {Psp}
  <2>1. Running(psps, held') /\ Len(psps) > 1 /\ Psp = psps[Len(psps)]
    BY <1>2, <1>8 DEF Psp
  <2> QED
    <3>1. IsFront(psps, held', Psp, psps')
      BY <2>1, <1>2, FrontFacts, Zenon
    <3> QED
      BY <3>1 DEF IsFront
<1>12. Returned(mcb', Range(psps') \cup resident')
  BY <1>2, <1>10, <1>11 DEF Returned
<1> QED
  BY <1>2, <1>8, <1>9, <1>11, <1>12 DEF ArenaInv

LEMMA ArenaStep == ArenaInv /\ [Next]_vars => ArenaInv'
<1> SUFFICES ASSUME ArenaInv, [Next]_vars PROVE ArenaInv'
  OBVIOUS
<1>1. CASE UNCHANGED vars
  BY <1>1 DEF vars, ArenaInv
<1> QED
  BY <1>1, AllocateKeeps, AllocateUmbKeeps, FreeMemoryKeeps, ResizeKeeps, SetStrategyKeeps,
     LinkUMBsKeeps, ExecuteKeeps, TerminateKeeps, StayResidentKeeps DEF Next

\* After any sequence of DOS calls the two chains are chains, what was given out
\* stands under its owner's name, the running programs are different and hold
\* their PSP blocks, and all other allocated memory is DOS's or resident.
THEOREM ArenaInvariant == Spec => []ArenaInv
BY ArenaInit, ArenaStep, PTL DEF Spec

-----------------------------------------------------------------------------
(* The properties.                                                         *)

\* What DOS_AllocateMemory, DOS_ResizeMemory or DOS_Execute gave to a program
\* stays its own until it gives it up or ends, whatever other calls split,
\* combine, free or link.
THEOREM BlocksStand == Spec => []HeldBlocksStand
<1>1. ArenaInv => HeldBlocksStand
  BY DEF ArenaInv, Standing, Stands, HeldBlocksStand
<1> QED
  BY <1>1, ArenaInvariant, PTL

\* DOS_FreeProcessMemory returns all that a program had: what is allocated
\* belongs to DOS, to a running program or to a resident one.
THEOREM MemoryReturned == Spec => []ProcessMemoryReturned
<1>1. ArenaInv => ProcessMemoryReturned
  <2> SUFFICES ASSUME ArenaInv, NEW s \in DOMAIN mcb
               PROVE  mcb[s].psp \in {FREE, DOS} \cup Range(psps) \cup resident
    BY DEF ProcessMemoryReturned
  <2>1. mcb[s].psp \in {FREE, DOS} \cup (Range(psps) \cup resident)
    BY DEF ArenaInv, Returned
  <2> QED
    BY <2>1, Zenon
<1> QED
  BY <1>1, ArenaInvariant, PTL

\* The size DOS_Execute has looked up with DOS_GetMaximumFreeSize is one that the
\* DOS_AllocateMemory after it finds, whatever the strategy and the chains.
THEOREM ExecFinds == Spec => []ExecNeverFatal
<1>1. ArenaInv => ExecNeverFatal
  <2> SUFFICES ASSUME ArenaInv, NEW envsize \in Sizes \ {0},
                      NEW minsize \in Sizes \ {0}, NEW maxsize \in Sizes \ {0},
                      NEW env, env = Environment(envsize),
                      NEW size, size = ProgramSize(env, minsize, maxsize),
                      env.ok, minsize <= size
               PROVE  AllocateMemory(env.mcb, memAllocStrategy, size, Psp).ok
    BY Zenon DEF ExecNeverFatal
  <2> DEFINE m == env.mcb
             r == AllocateMemory(m, memAllocStrategy, size, Psp)
  <2>1. IsEnvironment(envsize, env)
    <3>1. envsize \in Nat
      BY ArenaAssumption
    <3> QED
      BY <3>1, EnvironmentFacts, Zenon
  <2>2. /\ linked \in BOOLEAN /\ Arena(m) /\ Ends(m, linked) /\ Combined(m, linked, 0)
    BY <2>1 DEF ArenaInv, IsEnvironment
  <2>3. /\ size \in Nat
        /\ \E s \in Candidates(m, memAllocStrategy) : IsFree(m, s) /\ m[s].size >= size
    <3>1. minsize \in Nat /\ maxsize \in Nat
      BY ArenaAssumption
    <3>2. size \in Nat
      <4>1. size = Min({maxsize, MaximumFreeSize(m, memAllocStrategy, minsize)})
        BY DEF ProgramSize
      <4>2. MaximumFreeSize(m, memAllocStrategy, minsize) \in Nat
        BY <2>2, MaximumFacts
      <4>3. {maxsize, MaximumFreeSize(m, memAllocStrategy, minsize)} \subseteq Nat
        BY <3>1, <4>2
      <4> QED
        BY <4>1, <4>3, MinFacts
    <3>3. size >= minsize
      BY <3>1, <3>2
    <3> QED
      BY <2>1, <3>3, SizeFacts
  <2>4. r = AllocateMemory(m, memAllocStrategy, size, Psp)
    OBVIOUS
  <2>5. CompressMemory(m, 0) = m
    BY <2>2, CompressAgain, 0 \in Nat, Zenon
  <2> HIDE DEF m, r
  <2>6. IsAllocated(m, linked, memAllocStrategy, size, Psp, r)
    BY <2>2, <2>3, <2>4, PspFacts, StrategyFacts, AllocateFacts, Zenon
  <2>7. r.ok
    BY <2>3, <2>5, <2>6 DEF IsAllocated
  <2> QED
    BY <2>7 DEF r, m
<1> QED
  BY <1>1, ArenaInvariant, PTL

\* Each paragraph lies in a block.
LEMMA CoverFacts ==
  ASSUME NEW m, Arena(m), NEW p \in firstMCB..LastSeg
  PROVE  \E s \in DOMAIN m : s <= p /\ p < NextSeg(m, s)
<1> DEFINE below == {t \in DOMAIN m : t <= p}
           s == Max(below)
<1>1. \A t \in DOMAIN m : /\ t \in Nat /\ t < NextSeg(m, t) /\ NextSeg(m, t) \in Nat
                          /\ NextSeg(m, t) \in DOMAIN m \cup {LastSeg + 1}
  BY HeaderFacts, Zenon
<1>2. p \in Nat /\ firstMCB <= p /\ p <= LastSeg
  BY Bounds
<1>3. below \subseteq 0..p /\ below # {}
  BY <1>1, <1>2 DEF Arena
<1> HIDE DEF below
<1>4. s \in below /\ \A t \in below : t <= s
  BY <1>2, <1>3, MaxFacts
<1> HIDE DEF s
<1>5. s \in DOMAIN m /\ s <= p
  BY <1>4 DEF below
<1>6. p < NextSeg(m, s)
  <2> SUFFICES ASSUME NextSeg(m, s) <= p PROVE FALSE
    BY <1>1, <1>2, <1>5
  <2>1. NextSeg(m, s) \in DOMAIN m
    BY <1>1, <1>2, <1>5, Bounds
  <2>2. NextSeg(m, s) \in below
    BY <2>1 DEF below
  <2> QED
    BY <2>2, <1>1, <1>4, <1>5
<1> QED
  BY <1>5, <1>6

\* The blocks cover the memory without gap or overlap, and each of the chains
\* that DOS_LinkUMBsToMemChain joins and parts goes as far as it should.
THEOREM TypeCorrect == Spec => []TypeOK
<1>1. ArenaInv => TypeOK
  <2> SUFFICES ASSUME ArenaInv PROVE TypeOK
    OBVIOUS
  <2> DEFINE umb == {s \in DOMAIN mcb : s >= UMB_START_SEG}
  <2>1. /\ linked \in BOOLEAN /\ Arena(mcb) /\ Ends(mcb, linked)
        /\ memAllocStrategy \in Strategies
    BY DEF ArenaInv
  <2>2. \A s \in DOMAIN mcb :
          mcb[s] \in [type : {"M", "Z"}, psp : {FREE, DOS} \cup 1..LastSeg, size : Nat]
    BY <2>1, Zenon DEF Arena
  <2>3. \A s, t \in DOMAIN mcb : s < t => NextSeg(mcb, s) <= t
    BY <2>1 DEF Arena
  <2>4. UNION {s..(s + mcb[s].size) : s \in DOMAIN mcb} = firstMCB..LastSeg
    <3>1. ASSUME NEW s \in DOMAIN mcb, NEW p \in s..(s + mcb[s].size)
          PROVE  p \in firstMCB..LastSeg
      <4>1. /\ s \in Nat /\ firstMCB <= s /\ mcb[s].size \in Nat
            /\ NextSeg(mcb, s) = s + mcb[s].size + 1 /\ NextSeg(mcb, s) <= LastSeg + 1
        BY <2>1, HeaderFacts, Zenon
      <4> QED
        BY <4>1, Bounds
    <3>2. ASSUME NEW p \in firstMCB..LastSeg
          PROVE  \E s \in DOMAIN mcb : p \in s..(s + mcb[s].size)
      <4>1. PICK s \in DOMAIN mcb : s <= p /\ p < NextSeg(mcb, s)
        BY <2>1, CoverFacts, Zenon
      <4>2. s \in Nat /\ mcb[s].size \in Nat /\ NextSeg(mcb, s) = s + mcb[s].size + 1
        BY <2>1, HeaderFacts, Zenon
      <4> QED
        BY <4>1, <4>2, Bounds
    <3>3. \A p : p \in UNION {s..(s + mcb[s].size) : s \in DOMAIN mcb}
                   <=> \E s \in DOMAIN mcb : p \in s..(s + mcb[s].size)
      BY Zenon
    <3> QED
      BY <3>1, <3>2, <3>3, Zenon
  <2>5. /\ Chain(mcb, firstMCB) = {t \in DOMAIN mcb : linked \/ t < UMB_START_SEG}
        /\ Chain(mcb, UMB_START_SEG) = {t \in DOMAIN mcb : UMB_START_SEG <= t}
    <3>1. Chain(mcb, firstMCB) = Low(mcb, linked)
      BY <2>1, LowFacts, Zenon
    <3>2. Low(mcb, linked) = {t \in DOMAIN mcb : linked \/ t < UMB_START_SEG}
      BY <2>1, LowFacts, Zenon
    <3> QED
      BY <2>1, <3>1, <3>2, LowFacts, Zenon
  <2>6. \A t \in DOMAIN mcb : t \in Nat /\ UMB_START_SEG \in Nat
    BY <2>1, HeaderFacts, Bounds
  <2>7. /\ Chain(mcb, UMB_START_SEG) = umb
        /\ Chain(mcb, firstMCB) = IF linked THEN DOMAIN mcb ELSE DOMAIN mcb \ umb
    BY <2>1, <2>5, <2>6
  <2>8. psps # <<>>
    BY DEF ArenaInv, Running
  <2> QED
    BY <2>1, <2>2, <2>3, <2>4, <2>7, <2>8, Zenon DEF TypeOK
<1> QED
  BY <1>1, ArenaInvariant, PTL

\* Behind a free block that is too small lies one that is not free.
LEMMA BehindSmall ==
  ASSUME NEW c, NEW on \in BOOLEAN, Arena(c), Ends(c, on), Combined(c, on, 0),
         NEW n \in Nat, NEW b \in Low(c, on), IsFree(c, b), c[b].size < n,
         NEW s \in Nat, b <= s, s < NextSeg(c, b),
         s + n <= LastSeg, on \/ s + n < UMB_START_SEG
  PROVE  /\ NextSeg(c, b) \in s..(s + n)
         /\ NextSeg(c, b) \in DOMAIN c /\ ~IsFree(c, NextSeg(c, b))
<1> DEFINE next == NextSeg(c, b)
<1>1. b \in DOMAIN c
  BY LowFacts
<1>2. /\ b \in Nat /\ c[b].size \in Nat /\ next = b + c[b].size + 1
      /\ next \in DOMAIN c \cup {LastSeg + 1}
  BY <1>1, HeaderFacts, Zenon
<1> HIDE DEF next
<1>3. next \in s..(s + n) /\ next # LastSeg + 1 /\ (on \/ next # UMB_START_SEG)
  BY <1>2, Bounds DEF next
<1>4. c[b].type # "Z"
  BY <1>1, <1>3 DEF Ends, next
<1>5. ~IsFree(c, next)
  BY <1>2, <1>4, Bounds DEF Combined, next
<1> QED
  BY <1>2, <1>3, <1>5 DEF next

\* DOS_AllocateMemory refuses only what no gap between the allocated blocks has
\* room for: DOS_CompressMemory and the search overlook nothing.
THEOREM RefusedWhenFull == Spec => []RefusedOnlyWhenFull
<1>1. ArenaInv => RefusedOnlyWhenFull
  <2> DEFINE r(n) == AllocateMemory(mcb, memAllocStrategy, n, Psp)
             c == CompressMemory(mcb, 0)
  <2> SUFFICES ASSUME ArenaInv, NEW n \in Sizes, ~r(n).ok
               PROVE  /\ (~memAllocStrategy.only \/ memAllocStrategy.high)
                           => ~RoomFor(n, firstMCB, UMB_START_SEG - 1)
                      /\ (memAllocStrategy.only \/ memAllocStrategy.high) /\ linked
                           => ~RoomFor(n, first_umb_seg, LastSeg)
    BY Zenon DEF RefusedOnlyWhenFull
  <2>1. linked \in BOOLEAN /\ Arena(mcb) /\ Ends(mcb, linked) /\ n \in Nat
    BY ArenaAssumption DEF ArenaInv
  <2>2. IsAllocated(mcb, linked, memAllocStrategy, n, Psp, r(n))
    <3> DEFINE q == r(n)
    <3>1. q = AllocateMemory(mcb, memAllocStrategy, n, Psp)
      OBVIOUS
    <3> HIDE DEF q
    <3>2. IsAllocated(mcb, linked, memAllocStrategy, n, Psp, q)
      BY <2>1, <3>1, PspFacts, StrategyFacts, AllocateFacts, Zenon
    <3> QED
      BY <3>2, Zenon DEF q
  <2> HIDE DEF r
  <2>3. ~\E s \in Candidates(c, memAllocStrategy) : IsFree(c, s) /\ c[s].size >= n
    BY <2>2, Zenon DEF IsAllocated
  <2>4. IsCompressed(mcb, linked, 0, c)
    BY <2>1, CompressFacts, 0 \in Nat, Zenon
  <2> HIDE DEF c
  <2>5. /\ Arena(c) /\ Ends(c, linked) /\ Combined(c, linked, 0)
        /\ DOMAIN c \subseteq DOMAIN mcb
        /\ \A t \in DOMAIN mcb : ~IsFree(mcb, t) => c[t] = mcb[t]
        /\ \A t \in DOMAIN c : c[t].psp = mcb[t].psp
    BY <2>4 DEF IsCompressed
  <2>6. \A t \in DOMAIN c : /\ t \in Nat /\ c[t].size \in Nat /\ NextSeg(c, t) \in Nat
                            /\ NextSeg(c, t) = t + c[t].size + 1
    BY <2>5, HeaderFacts, Zenon
  <2>7. ASSUME NEW t \in DOMAIN c, ~IsFree(c, t), NEW p \in Nat, t <= p, p < NextSeg(c, t)
        PROVE  p \in Occupied
    <3>1. t \in DOMAIN mcb /\ ~IsFree(mcb, t) /\ mcb[t].size = c[t].size
      BY <2>5, <2>7 DEF IsFree
    <3>2. p \in t..(t + mcb[t].size)
      BY <2>6, <2>7, <3>1
    <3> QED
      BY <3>1, <3>2, Zenon DEF Occupied
  \* Where the free blocks are searched and are all too small, there is no room.
  <2>8. ASSUME NEW s \in Nat, firstMCB <= s, s + n <= LastSeg,
               linked \/ s + n < UMB_START_SEG,
               \A b \in DOMAIN c : b <= s /\ s < NextSeg(c, b)
                 => b \in Low(c, linked) /\ b \in Candidates(c, memAllocStrategy)
        PROVE  (s..(s + n)) \cap Occupied # {}
    <3>1. s \in firstMCB..LastSeg
      BY <2>1, <2>8, Bounds
    <3>2. PICK b \in DOMAIN c : b <= s /\ s < NextSeg(c, b)
      BY <2>5, <3>1, CoverFacts, Zenon
    <3>3. b \in Low(c, linked) /\ b \in Candidates(c, memAllocStrategy)
      BY <2>8, <3>2
    <3>4. CASE IsFree(c, b)
      <4> DEFINE next == NextSeg(c, b)
      <4>1. c[b].size < n
        BY <2>1, <2>3, <2>6, <3>3, <3>4
      <4>2. /\ next \in s..(s + n)
            /\ next \in DOMAIN c /\ ~IsFree(c, next)
        BY <2>1, <2>5, <2>8, <3>2, <3>3, <3>4, <4>1, BehindSmall
      <4> HIDE DEF next
      <4>3. next \in Nat /\ next <= next /\ next < NextSeg(c, next)
        BY <2>6, <4>2
      <4>4. next \in Occupied
        BY <2>7, <4>2, <4>3
      <4> QED
        BY <4>2, <4>4
    <3>5. CASE ~IsFree(c, b)
      <4>1. s \in Occupied
        BY <2>7, <3>2, <3>5
      <4>2. s \in s..(s + n)
        BY <2>1
      <4> QED
        BY <4>1, <4>2
    <3> QED
      BY <3>4, <3>5
  <2>9. /\ Chain(c, firstMCB) = Low(c, linked)
        /\ Low(c, linked) = {t \in DOMAIN c : linked \/ t < UMB_START_SEG}
        /\ Chain(c, UMB_START_SEG) = {t \in DOMAIN c : UMB_START_SEG <= t}
    <3>1. Chain(c, firstMCB) = Low(c, linked)
      BY <2>1, <2>5, LowFacts, Zenon
    <3>2. Low(c, linked) = {t \in DOMAIN c : linked \/ t < UMB_START_SEG}
      BY <2>1, <2>5, LowFacts, Zenon
    <3> QED
      BY <2>1, <2>5, <3>1, <3>2, LowFacts, Zenon
  <2>10. ASSUME ~memAllocStrategy.only \/ memAllocStrategy.high
         PROVE  ~RoomFor(n, firstMCB, UMB_START_SEG - 1)
    <3> SUFFICES ASSUME NEW s \in firstMCB..(UMB_START_SEG - 1 - n)
                 PROVE  (s..(s + n)) \cap Occupied # {}
      BY DEF RoomFor
    <3>1. /\ s \in Nat /\ firstMCB <= s /\ s + n <= LastSeg /\ s + n < UMB_START_SEG
          /\ s < UMB_START_SEG
      BY <2>1, Bounds
    <3>2. Low(c, linked) \subseteq Candidates(c, memAllocStrategy)
      BY <2>9, <2>10 DEF Candidates, SearchedLow
    <3>3. \A b \in DOMAIN c : b <= s => b \in Low(c, linked)
      BY <2>6, <2>9, <3>1, Bounds
    <3> QED
      BY <2>8, <3>1, <3>2, <3>3
  <2>11. ASSUME memAllocStrategy.only \/ memAllocStrategy.high, linked
         PROVE  ~RoomFor(n, first_umb_seg, LastSeg)
    <3> SUFFICES ASSUME NEW s \in first_umb_seg..(LastSeg - n)
                 PROVE  (s..(s + n)) \cap Occupied # {}
      BY DEF RoomFor
    <3>1. /\ s \in Nat /\ firstMCB <= s /\ s + n <= LastSeg /\ UMB_START_SEG <= s
      BY <2>1, Bounds DEF first_umb_seg
    <3>2. ASSUME NEW b \in DOMAIN c, b <= s, s < NextSeg(c, b)
          PROVE  b \in Low(c, linked) /\ b \in Candidates(c, memAllocStrategy)
      <4>1. UMB_START_SEG <= b
        <5>1. UMB_START_SEG \in DOMAIN c /\ (b < UMB_START_SEG => NextSeg(c, b) <= UMB_START_SEG)
          BY <2>5 DEF Arena
        <5> QED
          BY <5>1, <2>6, <3>1, <3>2, Bounds
      <4>2. b \in Chain(c, UMB_START_SEG)
        BY <4>1, <2>9
      <4> QED
        BY <4>2, <2>9, <2>11 DEF Candidates, SearchedHigh
    <3> QED
      BY <2>8, <2>11, <3>1, <3>2
  <2> QED
    BY <2>10, <2>11
<1> QED
  BY <1>1, ArenaInvariant, PTL
=============================================================================
