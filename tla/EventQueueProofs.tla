-------------------------- MODULE EventQueueProofs --------------------------
(***************************************************************************)
(* The event queue for any handlers, delays, size, cycles in a millisecond *)
(* and cost of I/O.                                                        *)
(***************************************************************************)
EXTENDS EventQueueProps, TLAPS

\* What the operators on sequences return.
LEMMA SeqFacts ==
  ASSUME NEW S, NEW s \in Seq(S)
  PROVE  /\ Len(s) \in Nat /\ DOMAIN s = 1..Len(s)
         /\ \A i \in 1..Len(s) : s[i] \in S
  OBVIOUS

LEMMA TailFacts ==
  ASSUME NEW S, NEW s \in Seq(S), s # <<>>
  PROVE  /\ Head(s) = s[1] /\ s[1] \in S /\ 1 \in 1..Len(s)
         /\ Tail(s) \in Seq(S) /\ Len(Tail(s)) = Len(s) - 1
         /\ \A i \in 1..(Len(s) - 1) : Tail(s)[i] = s[i + 1]
  OBVIOUS

LEMMA AppendFacts ==
  ASSUME NEW S, NEW s \in Seq(S), NEW e \in S
  PROVE  /\ Append(s, e) \in Seq(S) /\ Len(Append(s, e)) = Len(s) + 1
         /\ \A i \in 1..Len(s) : Append(s, e)[i] = s[i]
         /\ Append(s, e)[Len(s) + 1] = e
  OBVIOUS

LEMMA ConcatFacts ==
  ASSUME NEW S, NEW s \in Seq(S), NEW t \in Seq(S)
  PROVE  /\ s \o t \in Seq(S) /\ Len(s \o t) = Len(s) + Len(t)
         /\ \A i \in 1..Len(s) : (s \o t)[i] = s[i]
         /\ \A i \in (Len(s) + 1)..(Len(s) + Len(t)) : (s \o t)[i] = t[i - Len(s)]
  OBVIOUS

LEMMA SubSeqFacts ==
  ASSUME NEW S, NEW s \in Seq(S), NEW m \in 1..(Len(s) + 1), NEW n \in 0..Len(s),
         m <= n + 1
  PROVE  /\ SubSeq(s, m, n) \in Seq(S) /\ Len(SubSeq(s, m, n)) = n + 1 - m
         /\ \A i \in 1..(n + 1 - m) : SubSeq(s, m, n)[i] = s[m + i - 1]
  OBVIOUS

LEMMA RemoveAtFacts ==
  ASSUME NEW S, NEW s \in Seq(S), NEW n \in 1..Len(s)
  PROVE  /\ RemoveAt(s, n) \in Seq(S) /\ Len(RemoveAt(s, n)) = Len(s) - 1
         /\ \A i \in 1..(Len(s) - 1) :
               /\ i < n => RemoveAt(s, n)[i] = s[i]
               /\ i >= n => RemoveAt(s, n)[i] = s[i + 1]
<1> DEFINE k == n - 1
           a == SubSeq(s, 1, n - 1)
           b == SubSeq(s, n + 1, Len(s))
<1>0. Len(s) \in Nat /\ k \in Nat /\ n = k + 1 /\ k < Len(s)
  BY SeqFacts
<1>1. /\ a \in Seq(S) /\ Len(a) = k
      /\ \A i \in 1..k : a[i] = s[i]
  BY <1>0, SubSeqFacts
<1>2. /\ b \in Seq(S) /\ Len(b) = Len(s) - n
      /\ \A i \in 1..(Len(s) - n) : b[i] = s[n + i]
  BY <1>0, SubSeqFacts
<1> HIDE DEF a, b, k
<1>3. /\ a \o b \in Seq(S) /\ Len(a \o b) = k + Len(b)
      /\ \A i \in 1..k : (a \o b)[i] = a[i]
      /\ \A i \in (k + 1)..(k + Len(b)) : (a \o b)[i] = b[i - k]
  <2>1. a \in Seq(S) /\ b \in Seq(S) /\ Len(a) = k
    BY <1>1, <1>2
  <2> QED
    BY <2>1, ConcatFacts, Zenon
<1>4. ASSUME NEW i \in 1..(Len(s) - 1), i < n
      PROVE  (a \o b)[i] = s[i]
  BY <1>0, <1>1, <1>3, <1>4
<1>5. ASSUME NEW i \in 1..(Len(s) - 1), i >= n
      PROVE  (a \o b)[i] = s[i + 1]
  <2>1. i - k \in 1..(Len(s) - n) /\ n + (i - k) = i + 1
    BY <1>0, <1>5
  <2>2. (a \o b)[i] = b[i - k]
    BY <1>0, <1>2, <1>3, <1>5
  <2>3. b[i - k] = s[i + 1]
    BY <1>2, <2>1
  <2> QED
    BY <2>2, <2>3
<1>6. RemoveAt(s, n) = a \o b
  BY DEF RemoveAt, a, b
<1>7. Len(a \o b) = Len(s) - 1
  BY <1>0, <1>2, <1>3
<1> QED
  BY <1>3, <1>4, <1>5, <1>6, <1>7

LEMMA InsertAtFacts ==
  ASSUME NEW S, NEW s \in Seq(S), NEW n \in 1..(Len(s) + 1), NEW e \in S
  PROVE  /\ InsertAt(s, n, e) \in Seq(S) /\ Len(InsertAt(s, n, e)) = Len(s) + 1
         /\ InsertAt(s, n, e)[n] = e
         /\ \A i \in 1..(Len(s) + 1) : i < n => InsertAt(s, n, e)[i] = s[i]
         /\ \A i \in 1..(Len(s) + 1) : i > n => InsertAt(s, n, e)[i] = s[i - 1]
<1> DEFINE k == n - 1
           a == SubSeq(s, 1, n - 1)
           b == SubSeq(s, n, Len(s))
           d == <<e>>
           c == a \o d
<1>0. Len(s) \in Nat /\ k \in Nat /\ n \in Nat /\ n = k + 1 /\ k <= Len(s)
  BY SeqFacts
<1>1. /\ a \in Seq(S) /\ Len(a) = k
      /\ \A i \in 1..k : a[i] = s[i]
  BY <1>0, SubSeqFacts
<1>2. /\ b \in Seq(S) /\ Len(b) = Len(s) - k
      /\ \A i \in 1..(Len(s) - k) : b[i] = s[k + i]
  BY <1>0, SubSeqFacts
<1>3. d \in Seq(S) /\ Len(d) = 1 /\ d[1] = e
  OBVIOUS
<1> HIDE DEF a, b, d, k
<1>4. /\ c \in Seq(S) /\ Len(c) = k + Len(d)
      /\ \A i \in 1..k : c[i] = a[i]
      /\ \A i \in (k + 1)..(k + Len(d)) : c[i] = d[i - k]
  BY <1>1, <1>3, ConcatFacts, Zenon
<1> HIDE DEF c
<1>5. Len(c) = n /\ c[n] = e /\ \A i \in 1..k : c[i] = s[i]
  BY <1>0, <1>1, <1>3, <1>4
<1>6. /\ c \o b \in Seq(S) /\ Len(c \o b) = n + Len(b)
      /\ \A i \in 1..n : (c \o b)[i] = c[i]
      /\ \A i \in (n + 1)..(n + Len(b)) : (c \o b)[i] = b[i - n]
  <2>1. c \in Seq(S) /\ b \in Seq(S) /\ Len(c) = n
    BY <1>2, <1>4, <1>5
  <2> QED
    BY <2>1, ConcatFacts, Zenon
<1>7. ASSUME NEW i \in 1..(Len(s) + 1), i > n
      PROVE  (c \o b)[i] = s[i - 1]
  <2>1. i - n \in 1..(Len(s) - k) /\ k + (i - n) = i - 1
    BY <1>0, <1>7
  <2>2. (c \o b)[i] = b[i - n]
    BY <1>0, <1>2, <1>6, <1>7
  <2> QED
    BY <1>2, <2>1, <2>2
<1>8. (c \o b)[n] = e /\ \A i \in 1..(Len(s) + 1) : i < n => (c \o b)[i] = s[i]
  BY <1>0, <1>5, <1>6
<1>9. InsertAt(s, n, e) = c \o b
  BY DEF InsertAt, a, b, c, d
<1>10. Len(c \o b) = Len(s) + 1
  BY <1>0, <1>2, <1>6
<1> QED
  BY <1>6, <1>7, <1>8, <1>9, <1>10

Before(c, g, h) == \E i, j \in 1..Len(c) : i < j /\ c[i] = g /\ c[j] = h

\* c tells of each handler in q, once ...
Tallies(q, c) ==
  /\ \A i, j \in 1..Len(q) : q[i].handler = q[j].handler => i = j
  /\ \A i, j \in 1..Len(c) : c[i] = c[j] => i = j
  /\ \A h : (\E i \in 1..Len(q) : q[i].handler = h)
              <=> (\E i \in 1..Len(c) : c[i] = h)

\* ... and q is in the order of times and of c.
Stable(q, c) ==
  \A i, j \in 1..Len(q) :
    i < j => \/ q[i].index < q[j].index
             \/ /\ q[i].index = q[j].index
                /\ Before(c, q[i].handler, q[j].handler)

Ordered(q, c) ==
  q \in Seq(Entries) /\ c \in Seq(Handlers) /\ Tallies(q, c) /\ Stable(q, c)

-----------------------------------------------------------------------------
(* Where an element is after one was put in or taken out at position n.    *)

Up(k, n) == IF k < n THEN k ELSE k + 1
Down(k, n) == IF k < n THEN k ELSE k - 1

LEMMA Removed ==
  ASSUME NEW S, NEW s \in Seq(S), NEW n \in 1..Len(s)
  PROVE  LET r == RemoveAt(s, n)
         IN  /\ r \in Seq(S) /\ Len(r) = Len(s) - 1
             /\ \A k \in 1..Len(r) : Up(k, n) \in 1..Len(s) /\ r[k] = s[Up(k, n)]
             /\ \A k \in 1..Len(s) :
                   k # n => Down(k, n) \in 1..Len(r) /\ s[k] = r[Down(k, n)]
<1> DEFINE r == RemoveAt(s, n)
<1>1. /\ r \in Seq(S) /\ Len(r) = Len(s) - 1 /\ Len(s) \in Nat
      /\ \A i \in 1..(Len(s) - 1) : /\ i < n => r[i] = s[i]
                                    /\ i >= n => r[i] = s[i + 1]
  BY RemoveAtFacts, SeqFacts
<1> HIDE DEF r
<1>2. \A k \in 1..Len(r) : Up(k, n) \in 1..Len(s) /\ r[k] = s[Up(k, n)]
  BY <1>1 DEF Up
<1>3. \A k \in 1..Len(s) :
         k # n => Down(k, n) \in 1..Len(r) /\ s[k] = r[Down(k, n)]
  BY <1>1 DEF Down
<1> QED
  BY <1>1, <1>2, <1>3 DEF r

LEMMA TailRemoves ==
  ASSUME NEW S, NEW s \in Seq(S), s # <<>>
  PROVE  /\ Tail(s) \in Seq(S) /\ Len(Tail(s)) = Len(s) - 1 /\ 1 \in 1..Len(s)
         /\ \A k \in 1..Len(Tail(s)) :
               Up(k, 1) \in 1..Len(s) /\ Tail(s)[k] = s[Up(k, 1)]
         /\ \A k \in 1..Len(s) :
               k # 1 => /\ Down(k, 1) \in 1..Len(Tail(s))
                        /\ s[k] = Tail(s)[Down(k, 1)]
<1>1. Len(s) \in Nat
  BY SeqFacts
<1> QED
  BY <1>1, TailFacts DEF Up, Down

LEMMA Inserted ==
  ASSUME NEW S, NEW s \in Seq(S), NEW n \in 1..(Len(s) + 1), NEW e \in S
  PROVE  LET r == InsertAt(s, n, e)
         IN  /\ r \in Seq(S) /\ Len(r) = Len(s) + 1
             /\ n \in 1..Len(r) /\ r[n] = e
             /\ \A k \in 1..Len(s) : Up(k, n) \in 1..Len(r) /\ s[k] = r[Up(k, n)]
             /\ \A k \in 1..Len(r) :
                   k # n => Down(k, n) \in 1..Len(s) /\ r[k] = s[Down(k, n)]
<1> DEFINE r == InsertAt(s, n, e)
<1>1. /\ r \in Seq(S) /\ Len(r) = Len(s) + 1 /\ Len(s) \in Nat /\ r[n] = e
      /\ \A i \in 1..(Len(s) + 1) : i < n => r[i] = s[i]
      /\ \A i \in 1..(Len(s) + 1) : i > n => r[i] = s[i - 1]
  BY InsertAtFacts, SeqFacts
<1> HIDE DEF r
<1>2. \A k \in 1..Len(s) : Up(k, n) \in 1..Len(r) /\ s[k] = r[Up(k, n)]
  BY <1>1 DEF Up
<1>3. \A k \in 1..Len(r) :
         k # n => Down(k, n) \in 1..Len(s) /\ r[k] = s[Down(k, n)]
  BY <1>1 DEF Down
<1> QED
  BY <1>1, <1>2, <1>3 DEF r

-----------------------------------------------------------------------------
(* The order of the queue.                                                 *)

LEMMA EntryTypes ==
  ASSUME NEW q \in Seq(Entries)
  PROVE  /\ Len(q) \in Nat
         /\ \A i \in 1..Len(q) : /\ q[i] \in Entries
                                 /\ q[i].index \in Int /\ q[i].handler \in Handlers
<1>1. Len(q) \in Nat /\ \A i \in 1..Len(q) : q[i] \in Entries
  BY SeqFacts
<1>2. \A e \in Entries : e.index \in Int /\ e.handler \in Handlers
  BY DEF Entries
<1> QED
  BY <1>1, <1>2

LEMMA AddKeepsOrder ==
  ASSUME NEW q, NEW c, Ordered(q, c), NEW h \in Handlers, NEW t \in Int,
         \A i \in 1..Len(q) : q[i].handler # h,
         NEW n \in 1..(Len(q) + 1), n <= Len(q) => q[n].index > t,
         \A i \in 1..(n - 1) : q[i].index <= t
  PROVE  Ordered(InsertAt(q, n, Entry(h, t)), Append(c, h))
<1> DEFINE e == Entry(h, t)
           q2 == InsertAt(q, n, e)
           c2 == Append(c, h)
<1>1. e \in Entries /\ e.handler = h /\ e.index = t
  BY DEF Entry, Entries
<1> HIDE DEF e
<1>2. /\ q \in Seq(Entries) /\ Len(q) \in Nat /\ n \in Nat
      /\ \A i \in 1..Len(q) : q[i].index \in Int
  BY EntryTypes DEF Ordered
<1>3. c \in Seq(Handlers) /\ Len(c) \in Nat
  BY SeqFacts DEF Ordered
<1>4. /\ q2 \in Seq(Entries) /\ Len(q2) = Len(q) + 1
      /\ n \in 1..Len(q2) /\ q2[n] = e
      /\ \A k \in 1..Len(q) : Up(k, n) \in 1..Len(q2) /\ q[k] = q2[Up(k, n)]
      /\ \A k \in 1..Len(q2) :
            k # n => Down(k, n) \in 1..Len(q) /\ q2[k] = q[Down(k, n)]
  BY <1>1, <1>2, Inserted
<1>5. /\ c2 \in Seq(Handlers) /\ Len(c2) = Len(c) + 1
      /\ \A i \in 1..Len(c) : c2[i] = c[i]
      /\ c2[Len(c) + 1] = h
  BY <1>3, AppendFacts
<1> HIDE DEF q2, c2
<1>7. \A k \in 1..Len(c) : c[k] # h
  BY DEF Ordered, Tallies
<1>8. Tallies(q2, c2)
  <2>1. ASSUME NEW i \in 1..Len(q2), NEW j \in 1..Len(q2),
               q2[i].handler = q2[j].handler
        PROVE  i = j
    <3>1. CASE i = n \/ j = n
      BY <1>1, <1>4, <2>1, <3>1
    <3>2. CASE i # n /\ j # n
      <4>0. /\ Down(i, n) \in 1..Len(q) /\ Down(j, n) \in 1..Len(q)
            /\ q2[i] = q[Down(i, n)] /\ q2[j] = q[Down(j, n)]
        BY <1>4, <3>2
      <4>1. Down(i, n) = Down(j, n)
        <5>1. q[Down(i, n)].handler = q[Down(j, n)].handler
          BY <2>1, <4>0
        <5> QED
          BY <4>0, <5>1 DEF Ordered, Tallies
      <4> QED
        BY <1>2, <1>4, <3>2, <4>1 DEF Down
    <3> QED
      BY <3>1, <3>2
  <2>2. \A i, j \in 1..Len(c2) : c2[i] = c2[j] => i = j
    <3>1. \A i \in 1..Len(c2) : i \in 1..Len(c) \/ i = Len(c) + 1
      BY <1>3, <1>5
    <3> QED
      BY <1>5, <1>7, <3>1 DEF Ordered, Tallies
  <2>3. ASSUME NEW g
        PROVE  (\E i \in 1..Len(q2) : q2[i].handler = g)
                  <=> (\E i \in 1..Len(c2) : c2[i] = g)
    <3>1. (\E i \in 1..Len(q2) : q2[i].handler = g)
             <=> g = h \/ \E i \in 1..Len(q) : q[i].handler = g
      BY <1>1, <1>4
    <3>2. (\E i \in 1..Len(c2) : c2[i] = g)
             <=> g = h \/ \E i \in 1..Len(c) : c[i] = g
      BY <1>3, <1>5
    <3> QED
      BY <3>1, <3>2 DEF Ordered, Tallies
  <2> QED
    BY <2>1, <2>2, <2>3 DEF Tallies
<1>9. \A f, g : Before(c, f, g) => Before(c2, f, g)
  BY <1>3, <1>5 DEF Before
<1>10. ASSUME NEW i \in 1..Len(q2), NEW j \in 1..Len(q2), i < j
       PROVE  \/ q2[i].index < q2[j].index
              \/ /\ q2[i].index = q2[j].index
                 /\ Before(c2, q2[i].handler, q2[j].handler)
  <2>1. CASE i # n /\ j # n
    <3>1. Down(i, n) < Down(j, n)
      BY <1>2, <1>4, <1>10, <2>1 DEF Down
    <3>2. /\ Down(i, n) \in 1..Len(q) /\ Down(j, n) \in 1..Len(q)
          /\ q2[i] = q[Down(i, n)] /\ q2[j] = q[Down(j, n)]
      BY <1>4, <2>1
    <3> QED
      BY <1>9, <3>1, <3>2 DEF Ordered, Stable
  <2>2. CASE i = n
    <3>1. /\ n \in 1..Len(q) /\ n <= Len(q)
          /\ Down(j, n) \in 1..Len(q) /\ n <= Down(j, n)
          /\ q2[j] = q[Down(j, n)]
      BY <1>2, <1>4, <1>10, <2>2 DEF Down
    <3>2. q[n].index > t
      BY <3>1
    <3>3. n = Down(j, n) \/ q[n].index <= q[Down(j, n)].index
      <4>1. CASE n < Down(j, n)
        <5>1. q[n].index \in Int /\ q[Down(j, n)].index \in Int
          BY <1>2, <3>1
        <5>2. q[n].index < q[Down(j, n)].index \/ q[n].index = q[Down(j, n)].index
          BY <3>1, <4>1 DEF Ordered, Stable
        <5> QED
          BY <5>1, <5>2
      <4>2. CASE ~(n < Down(j, n))
        <5>1. Down(j, n) \in Nat
          BY <1>2, <3>1
        <5> QED
          BY <1>2, <3>1, <4>2, <5>1
      <4> QED
        BY <4>1, <4>2
    <3> QED
      <4>1. q[n].index \in Int /\ q[Down(j, n)].index \in Int
        BY <1>2, <3>1
      <4>2. t < q[Down(j, n)].index
        BY <3>2, <3>3, <4>1
      <4>3. q2[i].index = t
        BY <1>1, <1>4, <2>2
      <4> QED
        BY <3>1, <4>2, <4>3
  <2>3. CASE j = n
    <3>1. i \in 1..(n - 1) /\ i \in 1..Len(q) /\ q2[i] = q[i]
      BY <1>2, <1>4, <1>10, <2>3 DEF Down
    <3>2. q[i].index <= t
      BY <3>1
    <3>3. Before(c2, q[i].handler, h)
      <4>1. PICK k \in 1..Len(c) : c[k] = q[i].handler
        BY <3>1 DEF Ordered, Tallies
      <4>2. /\ k \in 1..Len(c2) /\ Len(c) + 1 \in 1..Len(c2)
            /\ k < Len(c) + 1 /\ c2[k] = q[i].handler
        BY <1>3, <1>5, <4>1
      <4> QED
        BY <1>5, <4>2 DEF Before
    <3> QED
      BY <1>1, <1>2, <1>4, <2>3, <3>1, <3>2, <3>3
  <2> QED
    BY <2>1, <2>2, <2>3
<1>11. Ordered(q2, c2)
  BY <1>4, <1>5, <1>8, <1>10 DEF Ordered, Stable
<1> QED
  BY <1>11 DEF q2, c2, e

LEMMA RemoveKeepsOrder ==
  ASSUME NEW q, NEW c, Ordered(q, c), NEW n \in 1..Len(q), NEW q2 \in Seq(Entries),
         \A k \in 1..Len(q2) : Up(k, n) \in 1..Len(q) /\ q2[k] = q[Up(k, n)],
         \A k \in 1..Len(q) :
            k # n => Down(k, n) \in 1..Len(q2) /\ q[k] = q2[Down(k, n)],
         NEW m \in 1..Len(c), c[m] = q[n].handler
  PROVE  Ordered(q2, RemoveAt(c, m))
<1> DEFINE c2 == RemoveAt(c, m)
<1>1. Len(q) \in Nat /\ Len(q2) \in Nat /\ n \in Nat
  BY SeqFacts DEF Ordered
<1>2. c \in Seq(Handlers) /\ Len(c) \in Nat /\ m \in Nat
  BY SeqFacts DEF Ordered
<1>3. /\ c2 \in Seq(Handlers)
      /\ \A k \in 1..Len(c2) : Up(k, m) \in 1..Len(c) /\ c2[k] = c[Up(k, m)]
      /\ \A k \in 1..Len(c) :
            k # m => Down(k, m) \in 1..Len(c2) /\ c[k] = c2[Down(k, m)]
  BY <1>2, Removed
<1> HIDE DEF c2
<1>4. Len(c2) \in Nat
  BY <1>3, SeqFacts
<1>5. /\ \A k \in 1..Len(q) : q[k].handler = c[m] <=> k = n
      /\ \A k \in 1..Len(c) : c[k] = c[m] <=> k = m
  BY DEF Ordered, Tallies
<1>6. /\ \A k \in 1..Len(q2) : Up(k, n) # n
      /\ \A k \in 1..Len(c2) : Up(k, m) # m
      /\ \A k, l \in 1..Len(q2) : Up(k, n) = Up(l, n) => k = l
      /\ \A k, l \in 1..Len(c2) : Up(k, m) = Up(l, m) => k = l
  BY <1>1, <1>2, <1>4 DEF Up
<1>7. Tallies(q2, c2)
  <2>1. ASSUME NEW i \in 1..Len(q2), NEW j \in 1..Len(q2),
               q2[i].handler = q2[j].handler
        PROVE  i = j
    <3>1. q[Up(i, n)].handler = q[Up(j, n)].handler
      BY <2>1
    <3>2. Up(i, n) = Up(j, n)
      BY <3>1 DEF Ordered, Tallies
    <3> QED
      BY <1>6, <3>2
  <2>2. ASSUME NEW i \in 1..Len(c2), NEW j \in 1..Len(c2), c2[i] = c2[j]
        PROVE  i = j
    <3>0. Up(i, m) \in 1..Len(c) /\ Up(j, m) \in 1..Len(c)
      BY <1>3
    <3>1. c[Up(i, m)] = c[Up(j, m)]
      BY <1>3, <2>2
    <3>2. Up(i, m) = Up(j, m)
      BY <3>0, <3>1 DEF Ordered, Tallies
    <3> QED
      BY <1>6, <3>2
  <2>3. ASSUME NEW g
        PROVE  (\E i \in 1..Len(q2) : q2[i].handler = g)
                  <=> (\E i \in 1..Len(c2) : c2[i] = g)
    <3>1. (\E i \in 1..Len(q2) : q2[i].handler = g)
             <=> g # c[m] /\ \E i \in 1..Len(q) : q[i].handler = g
      <4>1. ASSUME NEW i \in 1..Len(q2), q2[i].handler = g
            PROVE  g # c[m] /\ \E k \in 1..Len(q) : q[k].handler = g
        BY <1>5, <1>6, <4>1
      <4>2. ASSUME g # c[m], NEW k \in 1..Len(q), q[k].handler = g
            PROVE  \E i \in 1..Len(q2) : q2[i].handler = g
        BY <1>5, <4>2
      <4> QED
        BY <4>1, <4>2
    <3>2. (\E i \in 1..Len(c2) : c2[i] = g)
             <=> g # c[m] /\ \E i \in 1..Len(c) : c[i] = g
      <4>1. ASSUME NEW i \in 1..Len(c2), c2[i] = g
            PROVE  g # c[m] /\ \E k \in 1..Len(c) : c[k] = g
        <5>1. Up(i, m) \in 1..Len(c) /\ c[Up(i, m)] = g
          BY <1>3, <4>1
        <5>2. Up(i, m) # m
          BY <1>6
        <5> QED
          BY <1>5, <5>1, <5>2
      <4>2. ASSUME g # c[m], NEW k \in 1..Len(c), c[k] = g
            PROVE  \E i \in 1..Len(c2) : c2[i] = g
        BY <1>3, <1>5, <4>2
      <4> QED
        BY <4>1, <4>2
    <3> QED
      BY <3>1, <3>2 DEF Ordered, Tallies
  <2> QED
    BY <2>1, <2>2, <2>3 DEF Tallies
<1>8. ASSUME NEW f, NEW g, f # c[m], g # c[m], Before(c, f, g)
      PROVE  Before(c2, f, g)
  <2>1. PICK i \in 1..Len(c), j \in 1..Len(c) : i < j /\ c[i] = f /\ c[j] = g
    BY <1>8 DEF Before
  <2>2. i # m /\ j # m
    BY <1>8, <2>1
  <2>3. Down(i, m) < Down(j, m)
    BY <1>2, <2>1, <2>2 DEF Down
  <2>4. /\ Down(i, m) \in 1..Len(c2) /\ c2[Down(i, m)] = f
        /\ Down(j, m) \in 1..Len(c2) /\ c2[Down(j, m)] = g
    BY <1>3, <2>1, <2>2
  <2> QED
    BY <2>3, <2>4 DEF Before
<1>9. ASSUME NEW i \in 1..Len(q2), NEW j \in 1..Len(q2), i < j
      PROVE  \/ q2[i].index < q2[j].index
             \/ /\ q2[i].index = q2[j].index
                /\ Before(c2, q2[i].handler, q2[j].handler)
  <2>1. /\ Up(i, n) \in 1..Len(q) /\ Up(j, n) \in 1..Len(q)
        /\ q2[i] = q[Up(i, n)] /\ q2[j] = q[Up(j, n)]
    OBVIOUS
  <2>2. Up(i, n) < Up(j, n)
    BY <1>1, <1>9 DEF Up
  <2>3. q2[i].handler # c[m] /\ q2[j].handler # c[m]
    BY <1>5, <1>6, <2>1
  <2>4. \/ q2[i].index < q2[j].index
        \/ /\ q2[i].index = q2[j].index
           /\ Before(c, q2[i].handler, q2[j].handler)
    BY <2>1, <2>2 DEF Ordered, Stable
  <2> QED
    BY <1>8, <2>3, <2>4
<1>10. Ordered(q2, c2)
  BY <1>3, <1>7, <1>9 DEF Ordered, Stable
<1> QED
  BY <1>10 DEF c2

LEMMA LowerKeepsOrder ==
  ASSUME NEW q, NEW c, Ordered(q, c)
  PROVE  /\ Ordered(Lowered(q), c) /\ Len(Lowered(q)) = Len(q)
         /\ \A i \in 1..Len(q) : Lowered(q)[i].index = q[i].index - Frac * CycleMax
<1> DEFINE d == Frac * CycleMax
           q2 == Lowered(q)
<1>0. d \in Int
  BY QueueSizeAssumption
<1> HIDE DEF d
<1>1. /\ q \in Seq(Entries) /\ Len(q) \in Nat
      /\ \A i \in 1..Len(q) : q[i] \in Entries /\ q[i].index \in Int
  BY EntryTypes DEF Ordered
<1>2. q2 = [i \in 1..Len(q) |-> [q[i] EXCEPT !.index = @ - d]]
  BY DEF Lowered, d
<1>3. \A e \in Entries : LET f == [e EXCEPT !.index = @ - d]
                         IN  /\ f \in Entries /\ f.handler = e.handler
                             /\ f.index = e.index - d
  BY <1>0 DEF Entries
<1> HIDE DEF q2
<1>4. \A i \in 1..Len(q) :
         /\ q2[i] \in Entries
         /\ q2[i].handler = q[i].handler
         /\ q2[i].index = q[i].index - d
  BY <1>1, <1>2, <1>3
<1>5. q2 \in Seq(Entries) /\ Len(q2) = Len(q)
  <2>1. q2 \in [1..Len(q) -> Entries]
    BY <1>2, <1>4
  <2> QED
    BY <1>1, <2>1
<1>6. Tallies(q2, c)
  <2>1. \A i, j \in 1..Len(q2) : q2[i].handler = q2[j].handler => i = j
    BY <1>4, <1>5 DEF Ordered, Tallies
  <2>2. ASSUME NEW h
        PROVE  (\E i \in 1..Len(q2) : q2[i].handler = h)
                  <=> (\E i \in 1..Len(q) : q[i].handler = h)
    BY <1>4, <1>5
  <2> QED
    BY <2>1, <2>2 DEF Ordered, Tallies
<1>7. Stable(q2, c)
  BY <1>0, <1>1, <1>4, <1>5 DEF Ordered, Stable
<1>8. Ordered(q2, c)
  BY <1>5, <1>6, <1>7 DEF Ordered
<1> QED
  BY <1>4, <1>5, <1>8 DEF q2, d

LEMMA EarliestFirst ==
  ASSUME NEW q, NEW c, Ordered(q, c), NEW i \in 1..Len(q)
  PROVE  /\ q # <<>> /\ 1 \in 1..Len(q) /\ Head(q) = q[1]
         /\ q[1].index \in Int /\ q[i].index \in Int /\ q[1].index <= q[i].index
<1>1. /\ q \in Seq(Entries) /\ Len(q) \in Nat
      /\ \A k \in 1..Len(q) : q[k].index \in Int
  BY EntryTypes DEF Ordered
<1>2. q # <<>> /\ 1 \in 1..Len(q) /\ i \in Nat
  BY <1>1
<1>3. Head(q) = q[1]
  BY <1>1, <1>2, TailFacts
<1>4. q[1].index <= q[i].index
  <2>1. CASE i = 1
    BY <1>1, <1>2, <2>1
  <2>2. CASE 1 < i
    <3>1. q[1].index < q[i].index \/ q[1].index = q[i].index
      BY <1>2, <2>2 DEF Ordered, Stable
    <3> QED
      BY <1>1, <1>2, <3>1
  <2> QED
    BY <1>2, <2>1, <2>2
<1> QED
  BY <1>1, <1>2, <1>3, <1>4

-----------------------------------------------------------------------------
(* Cycles and units of time.                                               *)

LEMMA ConstantTypes ==
  /\ Frac \in Nat /\ Frac > 0 /\ CycleMax \in Nat /\ CycleMax > 0
  /\ QueueSize \in Nat /\ MaxIoDelay \in Nat
  /\ \A d \in Delays : d \in Nat
  /\ NoHandler \notin Handlers
  BY QueueSizeAssumption

LEMMA Units ==
  ASSUME NEW a \in Int, NEW b \in Int
  PROVE  /\ Frac * a \in Int /\ Frac * (a + b) = Frac * a + Frac * b
         /\ Frac * (a - b) = Frac * a - Frac * b
         /\ a <= b => Frac * a <= Frac * b
<1>1. Frac \in Nat /\ Frac > 0
  BY ConstantTypes
<1>2. a <= b => Frac * a <= Frac * b
  <2>1. ASSUME a <= b
        PROVE  Frac * (b - a) >= 0
    BY <1>1, <2>1
  <2> QED
    BY <1>1, <2>1
<1> QED
  BY <1>1, <1>2

LEMMA CyclesFacts ==
  ASSUME NEW t \in Int
  PROVE  /\ Cycles(t) \in Int
         /\ t >= 0 => Cycles(t) >= 0 /\ Frac * Cycles(t) <= t
         /\ t < 0 => Cycles(t) <= 0
<1>1. Frac \in Nat /\ Frac > 0
  BY ConstantTypes
<1>2. ASSUME NEW u \in Nat
      PROVE  /\ u \div Frac \in Nat /\ Frac * (u \div Frac) <= u
  BY <1>1
<1>3. CASE t >= 0
  BY <1>2, <1>3 DEF Cycles
<1>4. CASE t < 0
  <2>1. -t \in Nat
    BY <1>4
  <2>2. (-t) \div Frac \in Nat
    BY <1>2, <2>1
  <2> QED
    BY <1>4, <2>2 DEF Cycles
<1> QED
  BY <1>3, <1>4

-----------------------------------------------------------------------------
(* What the steps do to the queue.                                         *)

SomeRunning == IF running = NoEntry THEN 0 ELSE 1

LEMMA NoEntryIsNone == NoEntry \notin Entries
<1>1. NoEntry.handler = NoHandler
  BY DEF NoEntry, Entry
<1>2. \A e \in Entries : e.handler \in Handlers
  BY DEF Entries
<1> QED
  BY <1>1, <1>2, ConstantTypes

LEMMA RemovingKeepsOrder ==
  ASSUME Ordered(queue, calls), NEW left, NEW cycles, NEW h,
         RemoveEvents(h, left, cycles)
  PROVE  /\ Ordered(queue', calls') /\ Len(queue') = Len(queue) - 1
         /\ \A k \in 1..Len(queue') : \E j \in 1..Len(queue) : queue'[k] = queue[j]
<1>1. PICK n \in 1..Len(queue) : queue[n].handler = h /\ queue' = RemoveAt(queue, n)
  BY DEF RemoveEvents
<1>2. PICK m \in 1..Len(calls) : calls[m] = h /\ calls' = RemoveAt(calls, m)
  BY DEF RemoveEvents, Forget
<1>3. queue \in Seq(Entries)
  BY DEF Ordered
<1> DEFINE r == RemoveAt(queue, n)
<1>4. /\ r \in Seq(Entries) /\ Len(r) = Len(queue) - 1
      /\ \A k \in 1..Len(r) : /\ Up(k, n) \in 1..Len(queue)
                              /\ r[k] = queue[Up(k, n)]
      /\ \A k \in 1..Len(queue) :
            k # n => Down(k, n) \in 1..Len(r) /\ queue[k] = r[Down(k, n)]
  BY <1>3, Removed
<1> HIDE DEF r
<1>5. Ordered(r, RemoveAt(calls, m))
  <2>1. calls[m] = queue[n].handler
    BY <1>1, <1>2
  <2> QED
    BY <1>4, <2>1, RemoveKeepsOrder
<1>6. queue' = r
  BY <1>1 DEF r
<1> QED
  BY <1>2, <1>4, <1>5, <1>6

LEMMA ServingKeepsOrder ==
  ASSUME Ordered(queue, calls), ServeEvent
  PROVE  /\ Ordered(queue', calls') /\ Len(queue') = Len(queue) - 1
         /\ running' \in Entries /\ 1 \in 1..Len(queue) /\ running' = queue[1]
         /\ \A k \in 1..Len(queue') : \E j \in 1..Len(queue) : queue'[k] = queue[j]
<1>1. queue \in Seq(Entries) /\ queue # <<>>
  BY DEF Ordered, ServeEvent
<1>2. /\ 1 \in 1..Len(queue) /\ queue[1] \in Entries
      /\ running' = queue[1] /\ queue' = Tail(queue)
  BY <1>1, TailFacts DEF ServeEvent
<1>3. PICK m \in 1..Len(calls) :
         calls[m] = queue[1].handler /\ calls' = RemoveAt(calls, m)
  BY <1>1, TailFacts DEF ServeEvent, Forget
<1>4. /\ queue' \in Seq(Entries) /\ Len(queue') = Len(queue) - 1
      /\ \A k \in 1..Len(queue') : /\ Up(k, 1) \in 1..Len(queue)
                                   /\ queue'[k] = queue[Up(k, 1)]
      /\ \A k \in 1..Len(queue) :
            k # 1 => /\ Down(k, 1) \in 1..Len(queue')
                     /\ queue[k] = queue'[Down(k, 1)]
  BY <1>1, <1>2, TailRemoves
<1>5. Ordered(queue', RemoveAt(calls, m))
  BY <1>2, <1>3, <1>4, RemoveKeepsOrder
<1> QED
  BY <1>2, <1>3, <1>4, <1>5

\* What AddEvent, RemoveEvents or neither does, while the clock reads left and
\* cycles: the entries after it are those before it and at most a new one, and
\* if there is a new one the slice may be cut.
Sliced(left, cycles) ==
  /\ CPU_Cycles' = Preempt(queue', left, cycles).cycles
  /\ CPU_CycleLeft' = Preempt(queue', left, cycles).left

OldEntry(e) == \E j \in 1..Len(queue) : e = queue[j]
NewEntry(e, left, cycles) == \E d \in Delays : /\ e.index = From(cycles, left) + d
                                               /\ pc = "cpu" \/ d > 0

Touched(left, cycles) ==
  \/ /\ CPU_Cycles' = cycles /\ CPU_CycleLeft' = left
     /\ \A k \in 1..Len(queue') : OldEntry(queue'[k])
  \/ /\ Sliced(left, cycles)
     /\ 1 \in 1..Len(queue')
     /\ \A k \in 1..Len(queue') : \/ OldEntry(queue'[k])
                                  \/ NewEntry(queue'[k], left, cycles)

LEMMA FromIsInt ==
  ASSUME TypeOK, NEW left \in Int, NEW cycles \in Int
  PROVE  From(cycles, left) \in Int
<1>1. Frac * TickIndexND(left, cycles) \in Int
  BY ConstantTypes DEF TickIndexND
<1>2. pc = "handler" => running.index \in Int
  BY DEF TypeOK, Entries
<1> QED
  BY <1>1, <1>2 DEF From

LEMMA TouchKeepsOrder ==
  ASSUME TypeOK, Ordered(queue, calls), NEW left \in Int, NEW cycles \in Int,
         Touch(left, cycles)
  PROVE  /\ Ordered(queue', calls')
         /\ Len(queue') + SomeRunning <= QueueSize
         /\ Touched(left, cycles)
<1>0. /\ queue \in Seq(Entries) /\ Len(queue) \in Nat
      /\ SomeRunning \in {0, 1} /\ QueueSize \in Nat
      /\ Len(queue) + SomeRunning <= QueueSize
  BY SeqFacts, ConstantTypes DEF Ordered, TypeOK, SomeRunning
<1>1. CASE NoEvent(left, cycles)
  BY <1>0, <1>1 DEF NoEvent, Touched, OldEntry
<1>2. ASSUME NEW h \in Handlers \ Queued, NEW d \in Delays,
             pc = "cpu" \/ d > 0, AddEvent(h, d, left, cycles)
      PROVE  /\ Ordered(queue', calls')
             /\ Len(queue') + SomeRunning <= QueueSize
             /\ Touched(left, cycles)
  <2>1. CASE FreeEntries = 0
    BY <1>0, <1>2, <2>1 DEF AddEvent, Touched, OldEntry
  <2>2. CASE FreeEntries # 0
    <3> DEFINE t == From(cycles, left) + d
    <3>1. t \in Int
      BY FromIsInt, ConstantTypes
    <3>2. /\ Entry(h, t) \in Entries /\ Entry(h, t).index = t
      BY <3>1 DEF Entry, Entries
    <3>3. PICK n \in 1..(Len(queue) + 1) :
             /\ GoesAt(n, t)
             /\ queue' = InsertAt(queue, n, Entry(h, t))
             /\ calls' = Append(calls, h)
             /\ Sliced(left, cycles)
      BY <1>2, <2>2, <3>2 DEF AddEvent, Sliced
    <3> HIDE DEF t
    <3>4. Ordered(queue', calls')
      <4>1. \A i \in 1..Len(queue) : queue[i].handler # h
        BY DEF Queued
      <4>2. /\ n <= Len(queue) => queue[n].index > t
            /\ \A i \in 1..(n - 1) : queue[i].index <= t
        BY <3>3 DEF GoesAt
      <4>3. Ordered(InsertAt(queue, n, Entry(h, t)), Append(calls, h))
        BY <3>1, <4>1, <4>2, AddKeepsOrder
      <4> QED
        BY <3>3, <4>3
    <3>5. /\ Len(queue') = Len(queue) + 1 /\ 1 \in 1..Len(queue')
          /\ n \in 1..Len(queue') /\ queue'[n].index = t
          /\ \A k \in 1..Len(queue') : k # n => OldEntry(queue'[k])
      <4> DEFINE r == InsertAt(queue, n, Entry(h, t))
      <4>1. /\ Len(r) = Len(queue) + 1 /\ n \in 1..Len(r) /\ r[n] = Entry(h, t)
            /\ \A k \in 1..Len(r) :
                  k # n => Down(k, n) \in 1..Len(queue) /\ r[k] = queue[Down(k, n)]
        BY <1>0, <3>2, Inserted
      <4>2. queue' = r
        BY <3>3
      <4> HIDE DEF r
      <4> QED
        BY <1>0, <3>2, <4>1, <4>2 DEF OldEntry
    <3>6. Len(queue') + SomeRunning <= QueueSize
      BY <1>0, <2>2, <3>5 DEF FreeEntries, SomeRunning
    <3>7. NewEntry(queue'[n], left, cycles)
      BY <1>2, <3>5 DEF NewEntry, t
    <3> QED
      BY <3>3, <3>4, <3>5, <3>6, <3>7 DEF Touched
  <2> QED
    BY <2>1, <2>2
<1>3. ASSUME NEW h, RemoveEvents(h, left, cycles)
      PROVE  /\ Ordered(queue', calls')
             /\ Len(queue') + SomeRunning <= QueueSize
             /\ Touched(left, cycles)
  <2>1. /\ Ordered(queue', calls') /\ Len(queue') = Len(queue) - 1
        /\ \A k \in 1..Len(queue') : OldEntry(queue'[k])
    BY <1>3, RemovingKeepsOrder DEF OldEntry
  <2> QED
    BY <1>0, <1>3, <2>1 DEF RemoveEvents, Touched
<1> QED
  BY <1>1, <1>2, <1>3 DEF Touch

-----------------------------------------------------------------------------
(* The inductive invariant: how far the clock may be ahead of an event.    *)

\* At the clock cycles, no event in the queue is n cycles or more late.
Reached(cycles, n) ==
  \A i \in 1..Len(queue) : Frac * cycles < queue[i].index + Frac * n

Timely ==
  /\ pc = "cpu" => IF CPU_Cycles > 0
                   THEN Reached(TickIndexND(CPU_CycleLeft, 0), 1)
                   ELSE /\ -MaxIoDelay <= CPU_Cycles
                        /\ Reached(TickIndexND(CPU_CycleLeft, CPU_Cycles),
                                   MaxIoDelay + 1)
  /\ pc # "cpu" => Reached(TickIndexND(CPU_CycleLeft, CPU_Cycles), MaxIoDelay + 2)
  /\ pc \notin {"cpu", "loop"} => CPU_Cycles = 0
  /\ pc \in {"serve", "handler"} => /\ CPU_CycleLeft > 0
                                    /\ index_nd = TickIndexND(CPU_CycleLeft, 0)
  /\ ServedOnTime

IInv == TypeOK /\ Ordered(queue, calls) /\ Timely

LEMMA StateFacts ==
  ASSUME IInv
  PROVE  /\ CPU_Cycles \in Int /\ CPU_CycleLeft \in Int /\ index_nd \in Int
         /\ queue \in Seq(Entries) /\ calls \in Seq(Handlers)
         /\ Len(queue) \in Nat /\ \A i \in 1..Len(queue) : queue[i].index \in Int
         /\ SomeRunning \in {0, 1} /\ Len(queue) + SomeRunning <= QueueSize
         /\ pc = "handler" => running \in Entries /\ running.index \in Int
<1>1. TypeOK
  BY DEF IInv
<1>2. queue \in Seq(Entries)
  BY <1>1 DEF TypeOK
<1>3. \A e \in Entries : e.index \in Int
  BY DEF Entries
<1> QED
  BY <1>1, <1>2, <1>3, EntryTypes DEF TypeOK, SomeRunning

LEMMA PreemptFacts ==
  ASSUME NEW q, NEW c, Ordered(q, c), 1 \in 1..Len(q),
         NEW left \in Int, NEW cycles \in Int
  PROVE  LET slice == Preempt(q, left, cycles)
         IN  \/ slice = [left |-> left + cycles, cycles |-> 0]
             \/ /\ slice = [left |-> left, cycles |-> cycles]
                /\ cycles > 0 =>
                     \A i \in 1..Len(q) : Frac * TickIndexND(left, 0) <= q[i].index
<1> DEFINE now == Frac * TickIndexND(left, cycles)
           lead == q[1].index - now
           ahead == Cycles(lead)
<1>1. /\ Head(q) = q[1] /\ q[1].index \in Int
      /\ \A i \in 1..Len(q) : q[i].index \in Int /\ q[1].index <= q[i].index
  BY EarliestFirst
<1>2. now \in Int /\ Frac * TickIndexND(left, 0) = now + Frac * cycles
  BY ConstantTypes DEF TickIndexND
<1>3. /\ ahead \in Int /\ lead \in Int
      /\ lead >= 0 => Frac * ahead <= lead
      /\ lead < 0 => ahead <= 0
  <2>1. lead \in Int
    BY <1>1, <1>2
  <2> HIDE DEF lead
  <2> QED
    BY <2>1, CyclesFacts
<1>4. Preempt(q, left, cycles) = IF ahead < cycles
                                 THEN [left |-> left + cycles, cycles |-> 0]
                                 ELSE [left |-> left, cycles |-> cycles]
  BY <1>1 DEF Preempt
<1> HIDE DEF now, ahead, lead
<1>5. ASSUME ~(ahead < cycles), cycles > 0, NEW i \in 1..Len(q)
      PROVE  Frac * TickIndexND(left, 0) <= q[i].index
  <2>1. cycles <= ahead /\ lead >= 0
    BY <1>3, <1>5
  <2>2. Frac * cycles <= Frac * ahead /\ Frac * cycles \in Int /\ Frac * ahead \in Int
    BY <1>3, <2>1, Units
  <2> QED
    BY <1>1, <1>2, <1>3, <2>1, <2>2 DEF lead
<1> QED
  BY <1>4, <1>5

\* Adding and removing events leaves the time as it is, and no event later
\* than it was.
LEMMA TouchedClock ==
  ASSUME Ordered(queue', calls'), NEW left \in Int, NEW cycles \in Int,
         Touched(left, cycles)
  PROVE  /\ CPU_Cycles' \in Int /\ CPU_CycleLeft' \in Int
         /\ \/ CPU_Cycles' = 0 /\ CPU_CycleLeft' = left + cycles
            \/ /\ CPU_Cycles' = cycles /\ CPU_CycleLeft' = left
               /\ \/ \A i \in 1..Len(queue') : OldEntry(queue'[i])
                  \/ cycles > 0 => \A i \in 1..Len(queue') :
                                Frac * TickIndexND(left, 0) <= queue'[i].index
<1>1. CASE CPU_Cycles' = cycles /\ CPU_CycleLeft' = left
           /\ \A i \in 1..Len(queue') : OldEntry(queue'[i])
  BY <1>1
<1>2. CASE Sliced(left, cycles) /\ 1 \in 1..Len(queue')
  <2> DEFINE slice == Preempt(queue', left, cycles)
  <2>1. \/ slice = [left |-> left + cycles, cycles |-> 0]
        \/ /\ slice = [left |-> left, cycles |-> cycles]
           /\ cycles > 0 => \A i \in 1..Len(queue') :
                                Frac * TickIndexND(left, 0) <= queue'[i].index
    BY <1>2, PreemptFacts
  <2>2. CPU_Cycles' = slice.cycles /\ CPU_CycleLeft' = slice.left
    BY <1>2 DEF Sliced
  <2> HIDE DEF slice
  <2> QED
    BY <2>1, <2>2
<1> QED
  BY <1>1, <1>2 DEF Touched

LEMMA TouchedReached ==
  ASSUME IInv, Ordered(queue', calls'), NEW left \in Int, NEW cycles \in Int,
         Touched(left, cycles), NEW n \in Nat \ {0},
         Reached(TickIndexND(left, cycles), n),
         pc = "handler" =>
            Frac * TickIndexND(left, cycles) <= running.index + Frac * n
  PROVE  \A i \in 1..Len(queue') :
            Frac * TickIndexND(left, cycles) < queue'[i].index + Frac * n
<1> DEFINE now == Frac * TickIndexND(left, cycles)
<1>1. now \in Int /\ Frac * n \in Int /\ Frac * n > 0
  BY ConstantTypes DEF TickIndexND
<1>2. \A i \in 1..Len(queue') : queue'[i].index \in Int
  <2>1. queue' \in Seq(Entries)
    BY DEF Ordered
  <2> QED
    BY <2>1, EntryTypes
<1>3. \A i \in 1..Len(queue) : now < queue[i].index + Frac * n
  BY DEF Reached
<1>4. pc = "handler" => running.index \in Int /\ now <= running.index + Frac * n
  BY StateFacts
<1>5. From(cycles, left) = IF pc = "handler" THEN running.index ELSE now
  BY DEF From
<1> HIDE DEF now
<1>6. ASSUME NEW i \in 1..Len(queue'), OldEntry(queue'[i])
      PROVE  now < queue'[i].index + Frac * n
  BY <1>3, <1>6 DEF OldEntry
<1>7. ASSUME NEW i \in 1..Len(queue'), NewEntry(queue'[i], left, cycles)
      PROVE  now < queue'[i].index + Frac * n
  <2>1. PICK d \in Delays : /\ queue'[i].index = From(cycles, left) + d
                            /\ pc = "cpu" \/ d > 0
    BY <1>7 DEF NewEntry
  <2>2. d \in Nat
    BY ConstantTypes
  <2>3. CASE pc = "handler"
    <3>1. queue'[i].index = running.index + d /\ d > 0
      BY <1>5, <2>1, <2>3
    <3> QED
      BY <1>1, <1>4, <2>2, <2>3, <3>1
  <2>4. CASE pc # "handler"
    <3>1. queue'[i].index = now + d
      BY <1>5, <2>1, <2>4
    <3> QED
      BY <1>1, <2>2, <3>1
  <2> QED
    BY <2>3, <2>4
<1> QED
  BY <1>6, <1>7 DEF now, Touched

-----------------------------------------------------------------------------
(* Each step keeps the invariant.                                          *)

LEMMA InstructionKeeps ==
  ASSUME IInv, Instruction
  PROVE  IInv'
<1>1. PICK io \in 0..MaxIoDelay : Touch(CPU_CycleLeft, CPU_Cycles - 1 - io)
  BY DEF Instruction
<1> DEFINE cycles == CPU_Cycles - 1 - io
           left == CPU_CycleLeft
<1>2. /\ pc = "cpu" /\ pc' = "cpu" /\ running' = running /\ index_nd' = index_nd
      /\ CPU_Cycles > 0 /\ CPU_Cycles \in Int /\ left \in Int
      /\ MaxIoDelay \in Nat /\ io \in 0..MaxIoDelay
  BY StateFacts, ConstantTypes DEF Instruction
<1>3. cycles \in Int /\ -MaxIoDelay <= cycles /\ cycles < CPU_Cycles
  BY <1>2
<1> HIDE DEF cycles, left
<1>4. Touch(left, cycles)
  BY <1>1 DEF left, cycles
<1>5. /\ Ordered(queue', calls') /\ Touched(left, cycles)
      /\ Len(queue') + SomeRunning <= QueueSize
  BY <1>2, <1>3, <1>4, TouchKeepsOrder DEF IInv
<1>6. /\ CPU_Cycles' \in Int /\ CPU_CycleLeft' \in Int
      /\ \/ CPU_Cycles' = 0 /\ CPU_CycleLeft' = left + cycles
         \/ /\ CPU_Cycles' = cycles /\ CPU_CycleLeft' = left
            /\ \/ \A i \in 1..Len(queue') : OldEntry(queue'[i])
               \/ cycles > 0 => \A i \in 1..Len(queue') :
                             Frac * TickIndexND(left, 0) <= queue'[i].index
  BY <1>2, <1>3, <1>5, TouchedClock
<1>7. TypeOK'
  <2>1. queue' \in Seq(Entries) /\ calls' \in Seq(Handlers)
    BY <1>5 DEF Ordered
  <2>2. /\ pc' \in Places /\ running' \in Entries \cup {NoEntry}
        /\ (running' # NoEntry) <=> (pc' = "handler")
    BY <1>2 DEF IInv, TypeOK
  <2>3. CPU_Cycles' \in Int /\ CPU_CycleLeft' \in Int /\ index_nd' \in Int
    BY <1>2, <1>6, StateFacts
  <2>4. Len(queue') + (IF running' = NoEntry THEN 0 ELSE 1) <= QueueSize
    BY <1>2, <1>5 DEF SomeRunning
  <2> QED
    BY <2>1, <2>2, <2>3, <2>4 DEF TypeOK
<1>8. /\ \A i \in 1..Len(queue) : queue[i].index \in Int
      /\ \A i \in 1..Len(queue') : queue'[i].index \in Int
  <2>1. queue' \in Seq(Entries)
    BY <1>5 DEF Ordered
  <2> QED
    BY <2>1, StateFacts, EntryTypes
<1>9. \A i \in 1..Len(queue) :
         Frac * TickIndexND(left, 0) < queue[i].index + Frac
  BY <1>2, ConstantTypes DEF IInv, Timely, Reached, left
<1>10. CASE CPU_Cycles' > 0
  <2>1. CPU_Cycles' = cycles /\ CPU_CycleLeft' = left /\ cycles > 0
    BY <1>6, <1>10
  <2>2. Frac * TickIndexND(left, 0) \in Int
    BY <1>2, ConstantTypes DEF TickIndexND
  <2>3. ASSUME NEW i \in 1..Len(queue')
        PROVE  Frac * TickIndexND(left, 0) < queue'[i].index + Frac * 1
    BY <1>6, <1>8, <1>9, <2>1, <2>2, ConstantTypes DEF OldEntry
  <2>4. Timely'
    BY <1>2, <1>10, <2>1, <2>3 DEF Timely, Reached, ServedOnTime
  <2> QED
    BY <1>5, <1>7, <2>4 DEF IInv
<1>11. CASE ~(CPU_Cycles' > 0)
  <2>1. /\ TickIndexND(CPU_CycleLeft', CPU_Cycles') = TickIndexND(left, cycles)
        /\ -MaxIoDelay <= CPU_Cycles'
    <3>1. CycleMax \in Int
      BY ConstantTypes
    <3>2. CASE CPU_Cycles' = 0 /\ CPU_CycleLeft' = left + cycles
      BY <1>2, <1>3, <3>1, <3>2 DEF TickIndexND
    <3>3. CASE CPU_Cycles' = cycles /\ CPU_CycleLeft' = left
      BY <1>3, <3>3
    <3> QED
      BY <1>6, <3>2, <3>3
  <2>2. Reached(TickIndexND(left, cycles), MaxIoDelay + 1)
    <3>1. TickIndexND(left, cycles) <= TickIndexND(left, 0) + MaxIoDelay
      BY <1>2, <1>3, ConstantTypes DEF TickIndexND
    <3>2. /\ TickIndexND(left, cycles) \in Int /\ TickIndexND(left, 0) \in Int
          /\ MaxIoDelay \in Int
      BY <1>2, <1>3, ConstantTypes DEF TickIndexND
    <3>3. Frac * TickIndexND(left, cycles)
             <= Frac * TickIndexND(left, 0) + Frac * MaxIoDelay
      BY <3>1, <3>2, Units
    <3>4. /\ Frac * TickIndexND(left, cycles) \in Int
          /\ Frac * TickIndexND(left, 0) \in Int /\ Frac * MaxIoDelay \in Int
          /\ Frac * (MaxIoDelay + 1) = Frac * MaxIoDelay + Frac
      BY <3>2, ConstantTypes
    <3> QED
      <4> DEFINE now == Frac * TickIndexND(left, cycles)
                 then == Frac * TickIndexND(left, 0)
                 cost == Frac * MaxIoDelay
      <4>1. /\ now \in Int /\ then \in Int /\ cost \in Int /\ now <= then + cost
            /\ Frac \in Nat /\ Frac * (MaxIoDelay + 1) = cost + Frac
        BY <3>3, <3>4, ConstantTypes
      <4>2. \A i \in 1..Len(queue) : /\ queue[i].index \in Int
                                     /\ then < queue[i].index + Frac
        BY <1>8, <1>9
      <4> HIDE DEF now, then, cost
      <4>3. ASSUME NEW i \in 1..Len(queue)
            PROVE  now < queue[i].index + (cost + Frac)
        <5>1. queue[i].index \in Int /\ then < queue[i].index + Frac
          BY <4>2
        <5> QED
          BY <4>1, <5>1
      <4> QED
        BY <4>1, <4>3 DEF Reached, now
  <2>3. MaxIoDelay + 1 \in Nat \ {0}
    BY <1>2
  <2>4. \A i \in 1..Len(queue') :
           Frac * TickIndexND(left, cycles) < queue'[i].index + Frac * (MaxIoDelay + 1)
    BY <1>2, <1>3, <1>5, <2>2, <2>3, TouchedReached
  <2>5. Timely'
    BY <1>2, <1>11, <2>1, <2>4 DEF Timely, Reached, ServedOnTime
  <2> QED
    BY <1>5, <1>7, <2>5 DEF IInv
<1> QED
  BY <1>10, <1>11

LEMMA HandlerActsKeeps ==
  ASSUME IInv, HandlerActs
  PROVE  IInv'
<1> DEFINE left == CPU_CycleLeft
<1>1. /\ pc \in {"handler", "tickers"} /\ pc' = pc
      /\ running' = running /\ index_nd' = index_nd
      /\ CPU_Cycles = 0 /\ left \in Int /\ index_nd \in Int
  BY StateFacts DEF HandlerActs, IInv, Timely
<1>2. Touch(left, 0)
  BY <1>1 DEF HandlerActs
<1>3. MaxIoDelay + 2 \in Nat \ {0}
  BY ConstantTypes
<1>4. /\ Reached(TickIndexND(left, 0), MaxIoDelay + 2)
      /\ pc = "handler" => left > 0 /\ index_nd = TickIndexND(left, 0)
  BY <1>1 DEF IInv, Timely
<1> HIDE DEF left
<1>5. /\ Ordered(queue', calls') /\ Touched(left, 0)
      /\ Len(queue') + SomeRunning <= QueueSize
  BY <1>1, <1>2, TouchKeepsOrder DEF IInv
<1>6. CPU_Cycles' = 0 /\ CPU_CycleLeft' = left
  <2> DEFINE cycles == 0
  <2>1. cycles \in Int /\ left \in Int /\ Touched(left, cycles)
    BY <1>1, <1>5
  <2> HIDE DEF cycles
  <2>2. \/ CPU_Cycles' = 0 /\ CPU_CycleLeft' = left + cycles
        \/ CPU_Cycles' = cycles /\ CPU_CycleLeft' = left
    BY <1>5, <2>1, TouchedClock
  <2> QED
    BY <1>1, <2>2 DEF cycles
<1>7. TypeOK'
  <2>1. queue' \in Seq(Entries) /\ calls' \in Seq(Handlers)
    BY <1>5 DEF Ordered
  <2>2. /\ pc' \in Places /\ running' \in Entries \cup {NoEntry}
        /\ (running' # NoEntry) <=> (pc' = "handler")
    BY <1>1 DEF IInv, TypeOK
  <2>3. CPU_Cycles' \in Int /\ CPU_CycleLeft' \in Int /\ index_nd' \in Int
    BY <1>1, <1>6, StateFacts
  <2>4. Len(queue') + (IF running' = NoEntry THEN 0 ELSE 1) <= QueueSize
    BY <1>1, <1>5 DEF SomeRunning
  <2> QED
    BY <2>1, <2>2, <2>3, <2>4 DEF TypeOK
<1>8. pc = "handler" =>
         Frac * TickIndexND(left, 0) <= running.index + Frac * (MaxIoDelay + 2)
  <2>1. Frac * index_nd \in Int /\ MaxLate \in Int
    BY <1>1, <1>3, ConstantTypes DEF MaxLate
  <2>2. pc = "handler" => /\ running.index \in Int
                          /\ Frac * index_nd - running.index <= MaxLate
    BY StateFacts DEF IInv, Timely, ServedOnTime
  <2>3. pc = "handler" => Frac * index_nd <= running.index + MaxLate
    BY <2>1, <2>2
  <2> QED
    BY <1>4, <2>3 DEF MaxLate
<1>9. \A i \in 1..Len(queue') :
         Frac * TickIndexND(left, 0) < queue'[i].index + Frac * (MaxIoDelay + 2)
  <2> DEFINE n == MaxIoDelay + 2
  <2>1. /\ n \in Nat \ {0} /\ Reached(TickIndexND(left, 0), n)
        /\ pc = "handler" =>
              Frac * TickIndexND(left, 0) <= running.index + Frac * n
    BY <1>3, <1>4, <1>8
  <2> HIDE DEF n
  <2>2. \A i \in 1..Len(queue') :
           Frac * TickIndexND(left, 0) < queue'[i].index + Frac * n
    BY <1>1, <1>5, <2>1, TouchedReached
  <2> QED
    BY <2>2 DEF n
<1>10. ServedOnTime'
  BY <1>1 DEF IInv, Timely, ServedOnTime, MaxLate
<1>11. Timely'
  BY <1>1, <1>4, <1>6, <1>9, <1>10 DEF Timely, Reached
<1> QED
  BY <1>5, <1>7, <1>11 DEF IInv

\* The queue is as it was; an event due at a later clock may be due earlier.
LEMMA ReachedSooner ==
  ASSUME IInv, NEW a \in Int, NEW b \in Int, NEW m \in Nat, NEW n \in Nat,
         Reached(a, m), b - a <= n - m
  PROVE  Reached(b, n)
<1>1. /\ Frac * a \in Int /\ Frac * b \in Int /\ Frac * m \in Int /\ Frac * n \in Int
      /\ Frac * (b - a) = Frac * b - Frac * a
      /\ Frac * (n - m) = Frac * n - Frac * m
  BY ConstantTypes
<1>2. Frac * (b - a) <= Frac * (n - m)
  <2>1. b - a \in Int /\ n - m \in Int
    OBVIOUS
  <2> QED
    BY <2>1, Units
<1>3. ASSUME NEW i \in 1..Len(queue)
      PROVE  Frac * b < queue[i].index + Frac * n
  <2>1. Frac * a < queue[i].index + Frac * m /\ queue[i].index \in Int
    BY StateFacts DEF Reached
  <2> QED
    BY <1>1, <1>2, <2>1
<1> QED
  BY <1>3 DEF Reached

LEMMA ReachedAtCore ==
  ASSUME IInv, pc = "cpu"
  PROVE  /\ TickIndexND(CPU_CycleLeft, CPU_Cycles) \in Int
         /\ Reached(TickIndexND(CPU_CycleLeft, CPU_Cycles), MaxIoDelay + 1)
<1>1. /\ CPU_Cycles \in Int /\ CPU_CycleLeft \in Int
      /\ CycleMax \in Int /\ MaxIoDelay \in Nat
  BY StateFacts, ConstantTypes
<1>2. /\ TickIndexND(CPU_CycleLeft, 0) \in Int
      /\ TickIndexND(CPU_CycleLeft, CPU_Cycles) \in Int
      /\ CPU_Cycles > 0 => TickIndexND(CPU_CycleLeft, CPU_Cycles)
                              - TickIndexND(CPU_CycleLeft, 0) <= 0
  BY <1>1 DEF TickIndexND
<1>3. CASE CPU_Cycles > 0
  <2>1. Reached(TickIndexND(CPU_CycleLeft, 0), 1)
    BY <1>3 DEF IInv, Timely
  <2> DEFINE a == TickIndexND(CPU_CycleLeft, 0)
             b == TickIndexND(CPU_CycleLeft, CPU_Cycles)
             n == MaxIoDelay + 1
  <2>2. a \in Int /\ b \in Int /\ n \in Nat /\ b - a <= n - 1 /\ Reached(a, 1)
    BY <1>1, <1>2, <1>3, <2>1
  <2> HIDE DEF a, b, n
  <2>3. Reached(b, n)
    BY <2>2, ReachedSooner
  <2> QED
    BY <1>2, <2>3 DEF a, b, n
<1>4. CASE ~(CPU_Cycles > 0)
  BY <1>2, <1>4 DEF IInv, Timely
<1> QED
  BY <1>3, <1>4

LEMMA SliceEndsKeeps ==
  ASSUME IInv, SliceEnds
  PROVE  IInv'
<1>1. /\ pc = "cpu" /\ pc' = "loop" /\ CPU_Cycles' = CPU_Cycles - 1
      /\ CPU_CycleLeft' = CPU_CycleLeft /\ queue' = queue /\ running' = running
      /\ index_nd' = index_nd /\ calls' = calls
  BY DEF SliceEnds
<1>2. TypeOK' /\ Ordered(queue', calls')
  BY <1>1, StateFacts DEF IInv, TypeOK, Places
<1> DEFINE a == TickIndexND(CPU_CycleLeft, CPU_Cycles)
           b == TickIndexND(CPU_CycleLeft, CPU_Cycles - 1)
           m == MaxIoDelay + 1
           n == MaxIoDelay + 2
<1>3. /\ a \in Int /\ b \in Int /\ m \in Nat /\ n \in Nat
      /\ b - a <= n - m /\ Reached(a, m)
  <2>1. /\ CPU_Cycles \in Int /\ CPU_CycleLeft \in Int
        /\ CycleMax \in Int /\ MaxIoDelay \in Nat
    BY StateFacts, ConstantTypes
  <2>2. a \in Int /\ b \in Int /\ b - a = 1
    BY <2>1 DEF TickIndexND
  <2>3. Reached(a, m)
    BY <1>1, ReachedAtCore
  <2> HIDE DEF a, b
  <2> QED
    BY <2>1, <2>2, <2>3
<1> HIDE DEF a, b, m, n
<1>4. Reached(b, n)
  BY <1>3, ReachedSooner
<1>5. Timely'
  BY <1>1, <1>4 DEF Timely, Reached, ServedOnTime, b, n
<1> QED
  BY <1>2, <1>5 DEF IInv

LEMMA CoreReturnsKeeps ==
  ASSUME IInv, CoreReturns
  PROVE  IInv'
<1>1. /\ pc = "cpu" /\ pc' = "loop" /\ CPU_Cycles' = CPU_Cycles
      /\ CPU_CycleLeft' = CPU_CycleLeft /\ queue' = queue /\ running' = running
      /\ index_nd' = index_nd /\ calls' = calls
  BY DEF CoreReturns, clock
<1>2. TypeOK' /\ Ordered(queue', calls')
  BY <1>1, StateFacts DEF IInv, TypeOK, Places
<1> DEFINE a == TickIndexND(CPU_CycleLeft, CPU_Cycles)
           m == MaxIoDelay + 1
           n == MaxIoDelay + 2
<1>3. /\ a \in Int /\ m \in Nat /\ n \in Nat /\ a - a <= n - m /\ Reached(a, m)
  BY <1>1, ConstantTypes, ReachedAtCore
<1> HIDE DEF a, m, n
<1>4. Reached(a, n)
  BY <1>3, ReachedSooner
<1>5. Timely'
  BY <1>1, <1>4 DEF Timely, Reached, ServedOnTime, a, n
<1> QED
  BY <1>2, <1>5 DEF IInv

LEMMA RunQueueBeginKeeps ==
  ASSUME IInv, RunQueueBegin
  PROVE  IInv'
<1>1. /\ pc = "loop" /\ pc' \in {"serve", "tick"} /\ CPU_Cycles' = 0
      /\ CPU_CycleLeft' = CPU_CycleLeft + CPU_Cycles
      /\ queue' = queue /\ running' = running /\ calls' = calls
      /\ pc' = "serve" => /\ CPU_CycleLeft' > 0
                          /\ index_nd' = TickIndexND(CPU_CycleLeft', 0)
      /\ pc' = "tick" => index_nd' = index_nd
  BY DEF RunQueueBegin
<1>2. CPU_Cycles \in Int /\ CPU_CycleLeft \in Int /\ CycleMax \in Int
  BY StateFacts, ConstantTypes
<1>3. /\ CPU_CycleLeft' \in Int /\ CPU_Cycles' \in Int
      /\ TickIndexND(CPU_CycleLeft', 0) = TickIndexND(CPU_CycleLeft, CPU_Cycles)
      /\ TickIndexND(CPU_CycleLeft', 0) \in Int
  BY <1>1, <1>2 DEF TickIndexND
<1>4. index_nd' \in Int
  BY <1>1, <1>3, StateFacts
<1>5. TypeOK' /\ Ordered(queue', calls')
  BY <1>1, <1>3, <1>4 DEF IInv, TypeOK, Places
<1>6. Reached(TickIndexND(CPU_CycleLeft', 0), MaxIoDelay + 2)
  BY <1>1, <1>3 DEF IInv, Timely
<1>7. Timely'
  BY <1>1, <1>6 DEF Timely, Reached, ServedOnTime
<1> QED
  BY <1>5, <1>7 DEF IInv

LEMMA ServeEventKeeps ==
  ASSUME IInv, ServeEvent
  PROVE  IInv'
<1>1. /\ pc = "serve" /\ pc' = "handler" /\ IsDue(Head(queue))
      /\ CPU_Cycles' = CPU_Cycles /\ CPU_CycleLeft' = CPU_CycleLeft
      /\ index_nd' = index_nd
  BY DEF ServeEvent, clock
<1>2. /\ Ordered(queue', calls') /\ Len(queue') = Len(queue) - 1
      /\ running' \in Entries /\ 1 \in 1..Len(queue) /\ running' = queue[1]
      /\ \A k \in 1..Len(queue') : \E j \in 1..Len(queue) : queue'[k] = queue[j]
  BY ServingKeepsOrder DEF IInv
<1>3. running' # NoEntry
  BY <1>2, NoEntryIsNone
<1>4. running = NoEntry /\ SomeRunning = 0
  BY <1>1 DEF IInv, TypeOK, SomeRunning
<1>5. TypeOK'
  BY <1>1, <1>2, <1>3, <1>4, StateFacts DEF TypeOK, Ordered, Places, SomeRunning
<1>6. /\ CPU_Cycles = 0 /\ CPU_CycleLeft > 0
      /\ index_nd = TickIndexND(CPU_CycleLeft, 0)
      /\ Reached(TickIndexND(CPU_CycleLeft, CPU_Cycles), MaxIoDelay + 2)
  BY <1>1 DEF IInv, Timely
<1>7. \A i \in 1..Len(queue') :
         Frac * TickIndexND(CPU_CycleLeft, CPU_Cycles)
            < queue'[i].index + Frac * (MaxIoDelay + 2)
  BY <1>2, <1>6 DEF Reached
<1>8. ServedOnTime'
  <2>1. queue[1].index <= Frac * index_nd
    <3>1. Head(queue) = queue[1]
      BY <1>2, EarliestFirst DEF IInv
    <3> QED
      BY <1>1, <3>1 DEF IsDue
  <2>2. Frac * index_nd < queue[1].index + MaxLate
    BY <1>2, <1>6 DEF Reached, MaxLate
  <2>3. Frac * index_nd \in Int /\ queue[1].index \in Int /\ MaxLate \in Int
    BY <1>2, StateFacts, ConstantTypes DEF MaxLate
  <2>4. /\ 0 <= Frac * index_nd - queue[1].index
        /\ Frac * index_nd - queue[1].index <= MaxLate
    BY <2>1, <2>2, <2>3
  <2> QED
    BY <1>1, <1>2, <2>4 DEF ServedOnTime, MaxLate
<1>9. Timely'
  BY <1>1, <1>6, <1>7, <1>8 DEF Timely, Reached
<1> QED
  BY <1>2, <1>5, <1>9 DEF IInv

LEMMA HandlerReturnsKeeps ==
  ASSUME IInv, HandlerReturns
  PROVE  IInv'
<1>1. /\ pc = "handler" /\ pc' = "serve" /\ running' = NoEntry
      /\ CPU_Cycles' = CPU_Cycles /\ CPU_CycleLeft' = CPU_CycleLeft
      /\ index_nd' = index_nd /\ queue' = queue /\ calls' = calls
  BY DEF HandlerReturns, clock
<1>2. Len(queue') + SomeRunning' <= QueueSize
  BY <1>1, StateFacts, ConstantTypes DEF SomeRunning
<1>3. TypeOK' /\ Ordered(queue', calls')
  BY <1>1, <1>2 DEF IInv, TypeOK, Places, SomeRunning
<1>4. Timely'
  BY <1>1 DEF IInv, Timely, Reached, ServedOnTime
<1> QED
  BY <1>3, <1>4 DEF IInv

LEMMA SliceFacts ==
  ASSUME IInv, pc = "serve", ~(queue # <<>> /\ IsDue(Head(queue)))
  PROVE  /\ Slice \in Int /\ Slice > 0
         /\ \A i \in 1..Len(queue) :
               Frac * (index_nd + Slice) < queue[i].index + Frac
<1>1. CPU_CycleLeft \in Int /\ CPU_CycleLeft > 0 /\ index_nd \in Int
  BY StateFacts DEF IInv, Timely
<1>2. CASE queue = <<>>
  <2>1. Slice = CPU_CycleLeft
    BY <1>2 DEF Slice
  <2> QED
    BY <1>1, <1>2, <2>1
<1>3. CASE queue # <<>>
  <2> DEFINE lead == queue[1].index - Frac * index_nd
             ahead == Cycles(lead)
             cycles == IF ahead = 0 THEN 1 ELSE ahead
  <2>1. 1 \in 1..Len(queue)
    BY <1>3, StateFacts
  <2>2. /\ Head(queue) = queue[1] /\ queue[1].index \in Int
        /\ \A i \in 1..Len(queue) : /\ queue[i].index \in Int
                                    /\ queue[1].index <= queue[i].index
    BY <2>1, EarliestFirst DEF IInv
  <2>3. Frac * index_nd \in Int /\ lead \in Int /\ lead > 0
    BY <1>1, <1>3, <2>2, ConstantTypes DEF IsDue
  <2>4. Slice = IF cycles < CPU_CycleLeft THEN cycles ELSE CPU_CycleLeft
    BY <1>3, <2>2 DEF Slice
  <2>5. lead + Frac * index_nd = queue[1].index
    BY <2>2, <2>3
  <2> HIDE DEF lead
  <2>6. ahead \in Int /\ ahead >= 0 /\ Frac * ahead <= lead
    BY <2>3, CyclesFacts
  <2> HIDE DEF ahead
  <2>7. cycles \in Int /\ cycles > 0 /\ Frac * cycles < lead + Frac
    <3>1. CASE ahead = 0
      BY <2>3, <3>1, ConstantTypes
    <3>2. CASE ahead # 0
      <4>1. Frac * ahead \in Int
        BY <2>6, ConstantTypes
      <4> QED
        BY <2>3, <2>6, <3>2, <4>1, ConstantTypes
    <3> QED
      BY <3>1, <3>2
  <2> HIDE DEF cycles
  <2>8. Slice \in Int /\ Slice > 0 /\ Slice <= cycles
    BY <1>1, <2>4, <2>7
  <2>9. /\ Frac * Slice <= Frac * cycles
        /\ Frac * Slice \in Int /\ Frac * cycles \in Int
        /\ Frac * (index_nd + Slice) = Frac * index_nd + Frac * Slice
    BY <1>1, <2>7, <2>8, Units
  <2>10. ASSUME NEW i \in 1..Len(queue)
         PROVE  Frac * (index_nd + Slice) < queue[i].index + Frac
    BY <2>2, <2>3, <2>5, <2>7, <2>9, ConstantTypes
  <2> QED
    BY <2>8, <2>10
<1> QED
  BY <1>2, <1>3

LEMMA RunQueueEndKeeps ==
  ASSUME IInv, RunQueueEnd
  PROVE  IInv'
<1>1. /\ pc = "serve" /\ pc' = "cpu" /\ CPU_Cycles' = Slice
      /\ CPU_CycleLeft' = CPU_CycleLeft - Slice /\ queue' = queue
      /\ running' = running /\ index_nd' = index_nd /\ calls' = calls
  BY DEF RunQueueEnd
<1>2. /\ Slice \in Int /\ Slice > 0
      /\ \A i \in 1..Len(queue) :
            Frac * (index_nd + Slice) < queue[i].index + Frac
  BY SliceFacts DEF RunQueueEnd
<1>3. CPU_CycleLeft \in Int /\ CycleMax \in Int
  BY StateFacts, ConstantTypes
<1>4. TypeOK' /\ Ordered(queue', calls')
  BY <1>1, <1>2, <1>3 DEF IInv, TypeOK, Places
<1>5. TickIndexND(CPU_CycleLeft - Slice, 0) = index_nd + Slice
  <2>1. index_nd = TickIndexND(CPU_CycleLeft, 0)
    BY <1>1 DEF IInv, Timely
  <2> QED
    BY <1>2, <1>3, <2>1 DEF TickIndexND
<1>6. Frac * 1 = Frac
  BY ConstantTypes
<1>7. Timely'
  BY <1>1, <1>2, <1>5, <1>6 DEF Timely, Reached, ServedOnTime
<1> QED
  BY <1>4, <1>7 DEF IInv

LEMMA AddTickKeeps ==
  ASSUME IInv, AddTick
  PROVE  IInv'
<1>1. /\ pc = "tick" /\ pc' = "tickers" /\ CPU_Cycles' = 0
      /\ CPU_CycleLeft' = CPU_CycleLeft + CycleMax + CPU_Cycles
      /\ queue' = Lowered(queue) /\ running' = running
      /\ index_nd' = index_nd /\ calls' = calls
  BY DEF AddTick
<1>2. /\ CPU_CycleLeft \in Int /\ CycleMax \in Int /\ CPU_Cycles = 0
      /\ Frac \in Int /\ MaxIoDelay \in Int
  BY <1>1, StateFacts, ConstantTypes DEF IInv, Timely
<1>3. /\ Ordered(queue', calls') /\ Len(queue') = Len(queue)
      /\ \A i \in 1..Len(queue) :
            queue'[i].index = queue[i].index - Frac * CycleMax
  BY <1>1, LowerKeepsOrder DEF IInv
<1>4. TypeOK'
  BY <1>1, <1>2, <1>3 DEF IInv, TypeOK, Ordered, Places
<1>5. ASSUME NEW i \in 1..Len(queue)
      PROVE  Frac * TickIndexND(CPU_CycleLeft', 0)
                < queue'[i].index + Frac * (MaxIoDelay + 2)
  <2> DEFINE late == Frac * (MaxIoDelay + 2)
             now == Frac * TickIndexND(CPU_CycleLeft, 0)
  <2>1. now < queue[i].index + late
    BY <1>1, <1>2 DEF IInv, Timely, Reached
  <2>2. Frac * TickIndexND(CPU_CycleLeft', 0) = now - Frac * CycleMax
    BY <1>1, <1>2 DEF TickIndexND
  <2>3. now \in Int /\ late \in Int /\ Frac * CycleMax \in Int
        /\ queue[i].index \in Int
    BY <1>2, StateFacts DEF TickIndexND
  <2> HIDE DEF now, late
  <2>4. now - Frac * CycleMax < queue'[i].index + late
    BY <1>3, <2>1, <2>3
  <2> QED
    BY <2>2, <2>4 DEF late
<1>6. Timely'
  BY <1>1, <1>3, <1>5 DEF Timely, Reached, ServedOnTime
<1> QED
  BY <1>3, <1>4, <1>6 DEF IInv

LEMMA TickersReturnKeeps ==
  ASSUME IInv, TickersReturn
  PROVE  IInv'
<1>1. /\ pc = "tickers" /\ pc' = "loop"
      /\ CPU_Cycles' = CPU_Cycles /\ CPU_CycleLeft' = CPU_CycleLeft
      /\ queue' = queue /\ running' = running /\ index_nd' = index_nd
      /\ calls' = calls
  BY DEF TickersReturn, clock
<1>2. TypeOK' /\ Ordered(queue', calls')
  BY <1>1 DEF IInv, TypeOK, Places
<1>3. Timely'
  BY <1>1 DEF IInv, Timely, Reached, ServedOnTime
<1> QED
  BY <1>2, <1>3 DEF IInv

-----------------------------------------------------------------------------
LEMMA InitHolds == Init => IInv
<1> SUFFICES ASSUME Init
             PROVE  IInv
  OBVIOUS
<1>1. /\ pc = "loop" /\ CPU_Cycles = 0 /\ CPU_CycleLeft = CycleMax
      /\ queue = <<>> /\ running = NoEntry /\ index_nd = 0 /\ calls = <<>>
  BY DEF Init
<1>2. queue \in Seq(Entries) /\ Len(queue) = 0
  BY <1>1
<1>3. calls \in Seq(Handlers) /\ Len(calls) = 0
  BY <1>1
<1>4. TypeOK
  BY <1>1, <1>2, <1>3, ConstantTypes DEF TypeOK, Places
<1>5. Ordered(queue, calls)
  BY <1>2, <1>3 DEF Ordered, Tallies, Stable
<1>6. Timely
  BY <1>1, <1>2 DEF Timely, Reached, ServedOnTime
<1> QED
  BY <1>4, <1>5, <1>6 DEF IInv

LEMMA NextKeeps == IInv /\ [Next]_vars => IInv'
<1> SUFFICES ASSUME IInv, [Next]_vars
             PROVE  IInv'
  OBVIOUS
<1>1. CASE Instruction
  BY <1>1, InstructionKeeps
<1>2. CASE CoreReturns
  BY <1>2, CoreReturnsKeeps
<1>3. CASE HandlerActs
  BY <1>3, HandlerActsKeeps
<1>4. CASE SliceEnds
  BY <1>4, SliceEndsKeeps
<1>5. CASE RunQueueBegin
  BY <1>5, RunQueueBeginKeeps
<1>6. CASE ServeEvent
  BY <1>6, ServeEventKeeps
<1>7. CASE HandlerReturns
  BY <1>7, HandlerReturnsKeeps
<1>8. CASE RunQueueEnd
  BY <1>8, RunQueueEndKeeps
<1>9. CASE AddTick
  BY <1>9, AddTickKeeps
<1>10. CASE TickersReturn
  BY <1>10, TickersReturnKeeps
<1>11. CASE UNCHANGED vars
  BY <1>11 DEF vars, IInv, TypeOK, Timely, Reached, ServedOnTime
<1> QED
  BY <1>1, <1>2, <1>3, <1>4, <1>5, <1>6, <1>7, <1>8, <1>9, <1>10, <1>11
     DEF Next, Loop

LEMMA AlwaysHolds == Spec => []IInv
  BY InitHolds, NextKeeps, PTL DEF Spec

\* Entries are well formed, no more of them are in use than the queue has, and
\* one is in use outside the queue exactly while its handler runs.
THEOREM TypeCorrect == Spec => []TypeOK
<1>1. IInv => TypeOK
  BY DEF IInv
<1> QED
  BY <1>1, AlwaysHolds, PTL

\* Whatever the CPU, handlers and tick handlers add and remove, the queue is in
\* the order of the times, and entries of one time in the order of the calls.
THEOREM QueueStaysOrdered == Spec => []QueueStable
<1>1. IInv => QueueStable
  BY DEF IInv, Ordered, Stable, Before, QueueStable, AddedBefore
<1> QED
  BY <1>1, AlwaysHolds, PTL

\* No event is served early, and none more than MaxLate after its time, for
\* any number of cycles in a millisecond and any cost of I/O.
THEOREM NeverServedLate == Spec => []ServedOnTime
<1>1. IInv => ServedOnTime
  BY DEF IInv, Timely
<1> QED
  BY <1>1, AlwaysHolds, PTL
=============================================================================
