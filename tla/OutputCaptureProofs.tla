------------------------ MODULE OutputCaptureProofs -------------------------
(***************************************************************************)
(* Proofs about OutputCapture, for every buffer size, age limit and depth  *)
(* of nesting.                                                             *)
(***************************************************************************)
EXTENDS OutputCaptureProps, SequenceTheorems, TLAPS

Ids == Requests \cup {NoRequest}

Event == Ids \X Nat

\* What TypeOK leaves out.  Each part is needed by a step: the flag tells
\* whether a character is captured now or with its write, and a clean
\* request has at most one write in progress.
Attribution ==
    /\ Running => buffered_output.request_id = active_request_id
    /\ EventsCarryTheirRequest

Nesting ==
    /\ writes = <<>> => ~console_device_capture_active
    /\ clean => Len(writes) <= 1
    /\ clean /\ writes # <<>> => console_device_capture_active

AtRest == ~Running => writes = <<>> /\ buffered_output.bytes = <<>>

Accounting ==
    /\ Nesting
    /\ AtRest
    /\ CapturedIsShown
    /\ OutputBeforeResult

\* Every buffered byte is younger than first_byte_ms says the buffer is.
Ages ==
    /\ Len(captured_at) = Len(buffered_output.bytes)
    /\ buffered_output.bytes # <<>> => buffered_output.first_byte_ms <= now
    /\ \A i \in 1 .. Len(captured_at) :
         captured_at[i] \in buffered_output.first_byte_ms .. now
    /\ Running /\ polled /\ buffered_output.bytes # <<>> =>
         now - buffered_output.first_byte_ms < BufferedOutputMaxMs

-----------------------------------------------------------------------------
(* Sequences.                                                              *)

LEMMA SameInterval ==
    ASSUME NEW m \in Nat, NEW n \in Nat, 1 .. m = 1 .. n
    PROVE  m = n
<1>1. \A i \in Nat \ {0} : i <= m <=> i <= n
  <2>1. \A i \in Nat \ {0} : i <= m <=> i \in 1 .. m
    OBVIOUS
  <2>2. \A i \in Nat \ {0} : i <= n <=> i \in 1 .. n
    OBVIOUS
  <2> QED BY <2>1, <2>2
<1> QED BY <1>1

LEMMA FunctionIsSequence ==
    ASSUME NEW S, NEW n \in Nat, NEW f \in [1 .. n -> S]
    PROVE  f \in Seq(S) /\ Len(f) = n
<1>1. f \in Seq(S)
  BY SeqDef
<1>2. Len(f) \in Nat /\ DOMAIN f = 1 .. Len(f)
  BY <1>1, LenProperties
<1>3. 1 .. Len(f) = 1 .. n
  BY <1>2
<1>4. Len(f) = n
  BY <1>2, <1>3, SameInterval
<1> QED BY <1>1, <1>4

\* A sequence followed by n values that are all given by a function.
LEMMA Followed ==
    ASSUME NEW S, NEW s \in Seq(S), NEW n \in Nat, NEW e \in [1 .. n -> S]
    PROVE  /\ s \o e \in Seq(S)
           /\ Len(s \o e) = Len(s) + n
           /\ \A i \in 1 .. Len(s \o e) :
                \/ i \in 1 .. Len(s) /\ (s \o e)[i] = s[i]
                \/ ~(i \in 1 .. Len(s)) /\ i - Len(s) \in 1 .. n
                   /\ (s \o e)[i] = e[i - Len(s)]
<1>1. e \in Seq(S) /\ Len(e) = n
  BY FunctionIsSequence
<1>2. /\ s \o e \in Seq(S)
      /\ Len(s \o e) = Len(s) + Len(e)
      /\ \A i \in 1 .. Len(s) + Len(e) :
           (s \o e)[i] = IF i <= Len(s) THEN s[i] ELSE e[i - Len(s)]
  BY <1>1, ConcatProperties
<1>3. Len(s) \in Nat
  BY LenProperties
<1>4. ASSUME NEW i \in 1 .. Len(s \o e)
      PROVE  \/ i \in 1 .. Len(s) /\ (s \o e)[i] = s[i]
             \/ ~(i \in 1 .. Len(s)) /\ i - Len(s) \in 1 .. n
                /\ (s \o e)[i] = e[i - Len(s)]
  <2>1. i \in 1 .. Len(s) + n
    BY <1>1, <1>2
  <2>2. (s \o e)[i] = IF i <= Len(s) THEN s[i] ELSE e[i - Len(s)]
    BY <1>1, <1>2, <2>1
  <2>3. CASE i <= Len(s)
    <3>1. i \in 1 .. Len(s)
      BY <2>1, <2>3, <1>3
    <3> QED BY <2>2, <2>3, <3>1
  <2>4. CASE ~(i <= Len(s))
    <3>1. ~(i \in 1 .. Len(s)) /\ i - Len(s) \in 1 .. n
      BY <2>1, <2>4, <1>3
    <3> QED BY <2>2, <2>4, <3>1
  <2> QED BY <2>3, <2>4
<1> QED BY <1>1, <1>2, <1>4

LEMMA CharactersTyped ==
    ASSUME NEW t \in Seq(Event)
    PROVE  /\ Characters(t) \in Seq(Nat)
           /\ Len(Characters(t)) = Len(t)
           /\ \A i \in 1 .. Len(t) : Characters(t)[i] = t[i][2]
<1>1. Len(t) \in Nat
  BY LenProperties
<1>2. \A i \in 1 .. Len(t) : t[i] \in Event
  BY ElementOfSeq
<1>3. Characters(t) \in [1 .. Len(t) -> Nat]
  BY <1>2 DEF Characters, Event
<1>4. Characters(t) \in Seq(Nat) /\ Len(Characters(t)) = Len(t)
  BY <1>1, <1>3, FunctionIsSequence
<1> QED BY <1>4 DEF Characters

\* The characters of the events sent with a buffer added are those sent
\* before, followed by the buffer's bytes; the added events carry its id.
LEMMA CharactersOfEvents ==
    ASSUME NEW s \in Seq(Event), NEW id \in Ids, NEW b \in Seq(Nat)
    PROVE  /\ s \o Events(id, b) \in Seq(Event)
           /\ \A i \in 1 .. Len(s \o Events(id, b)) :
                (s \o Events(id, b))[i][1] =
                  IF i \in 1 .. Len(s) THEN s[i][1] ELSE id
           /\ Characters(s \o Events(id, b)) = Characters(s) \o b
<1> DEFINE e == Events(id, b)
<1>1. Len(b) \in Nat /\ Len(s) \in Nat
  BY LenProperties
<1>2. \A i \in 1 .. Len(b) : b[i] \in Nat
  BY ElementOfSeq
<1>3. e \in [1 .. Len(b) -> Event]
  BY <1>2 DEF Events, Event
<1>4. \A i \in 1 .. Len(b) : e[i][1] = id /\ e[i][2] = b[i]
  BY DEF Events
<1> HIDE DEF e
<1>5. /\ s \o e \in Seq(Event)
      /\ Len(s \o e) = Len(s) + Len(b)
      /\ \A i \in 1 .. Len(s \o e) :
           \/ i \in 1 .. Len(s) /\ (s \o e)[i] = s[i]
           \/ ~(i \in 1 .. Len(s)) /\ i - Len(s) \in 1 .. Len(b)
              /\ (s \o e)[i] = e[i - Len(s)]
  BY <1>1, <1>3, Followed
<1>6. /\ Characters(s) \in Seq(Nat)
      /\ Len(Characters(s)) = Len(s)
      /\ \A i \in 1 .. Len(s) : Characters(s)[i] = s[i][2]
  BY CharactersTyped
<1>7. /\ Characters(s \o e) \in Seq(Nat)
      /\ Len(Characters(s \o e)) = Len(s) + Len(b)
      /\ \A i \in 1 .. Len(s \o e) :
           Characters(s \o e)[i] = (s \o e)[i][2]
  BY <1>5, CharactersTyped
<1>8. b \in [1 .. Len(b) -> Nat]
  BY LenProperties
<1>9. /\ Characters(s) \o b \in Seq(Nat)
      /\ Len(Characters(s) \o b) = Len(s) + Len(b)
      /\ \A i \in 1 .. Len(Characters(s) \o b) :
           \/ i \in 1 .. Len(s) /\ (Characters(s) \o b)[i] = Characters(s)[i]
           \/ ~(i \in 1 .. Len(s)) /\ i - Len(s) \in 1 .. Len(b)
              /\ (Characters(s) \o b)[i] = b[i - Len(s)]
  <2> DEFINE c == Characters(s)
  <2>1. /\ c \o b \in Seq(Nat)
        /\ Len(c \o b) = Len(c) + Len(b)
        /\ \A i \in 1 .. Len(c \o b) :
             \/ i \in 1 .. Len(c) /\ (c \o b)[i] = c[i]
             \/ ~(i \in 1 .. Len(c)) /\ i - Len(c) \in 1 .. Len(b)
                /\ (c \o b)[i] = b[i - Len(c)]
    <3> c \in Seq(Nat)
      BY <1>6
    <3> HIDE DEF c
    <3> QED BY <1>1, <1>8, Followed
  <2>2. Len(c) = Len(s)
    BY <1>6
  <2> HIDE DEF c
  <2>3. /\ c \o b \in Seq(Nat)
        /\ Len(c \o b) = Len(s) + Len(b)
        /\ \A i \in 1 .. Len(c \o b) :
             \/ i \in 1 .. Len(s) /\ (c \o b)[i] = c[i]
             \/ ~(i \in 1 .. Len(s)) /\ i - Len(s) \in 1 .. Len(b)
                /\ (c \o b)[i] = b[i - Len(s)]
    BY <2>1, <2>2
  <2> QED BY <2>3 DEF c
<1>10. ASSUME NEW i \in 1 .. Len(s) + Len(b)
       PROVE  Characters(s \o e)[i] = (Characters(s) \o b)[i]
  <2>1. Characters(s \o e)[i] = (s \o e)[i][2]
    BY <1>5, <1>7
  <2>2. CASE i \in 1 .. Len(s)
    <3>1. (s \o e)[i] = s[i]
      BY <1>5, <2>2
    <3>2. (Characters(s) \o b)[i] = s[i][2]
      BY <1>6, <1>9, <2>2
    <3> QED BY <2>1, <3>1, <3>2
  <2>3. CASE ~(i \in 1 .. Len(s))
    <3>1. i - Len(s) \in 1 .. Len(b) /\ (s \o e)[i] = e[i - Len(s)]
      BY <1>5, <2>3
    <3>2. (Characters(s) \o b)[i] = b[i - Len(s)]
      BY <1>9, <2>3
    <3>3. e[i - Len(s)][2] = b[i - Len(s)]
      BY <1>4, <3>1
    <3> QED BY <2>1, <3>1, <3>2, <3>3
  <2> QED BY <2>2, <2>3
<1>11. Characters(s \o e) = Characters(s) \o b
  BY <1>7, <1>9, <1>10, SeqEqual
<1>12. ASSUME NEW i \in 1 .. Len(s \o e)
       PROVE  (s \o e)[i][1] = IF i \in 1 .. Len(s) THEN s[i][1] ELSE id
  <2>1. CASE i \in 1 .. Len(s)
    BY <1>5, <2>1
  <2>2. CASE ~(i \in 1 .. Len(s))
    <3>1. i - Len(s) \in 1 .. Len(b) /\ (s \o e)[i] = e[i - Len(s)]
      BY <1>5, <2>2
    <3>2. e[i - Len(s)][1] = id
      BY <1>4, <3>1
    <3> QED BY <2>2, <3>1, <3>2
  <2> QED BY <2>1, <2>2
<1> QED BY <1>5, <1>11, <1>12 DEF e

LEMMA AddedTimes ==
    ASSUME NEW t \in Seq(Nat), NEW n \in Nat, now \in Nat
    PROVE  /\ t \o Times(n) \in Seq(Nat)
           /\ Len(t \o Times(n)) = Len(t) + n
           /\ \A i \in 1 .. Len(t \o Times(n)) :
                (t \o Times(n))[i] = IF i \in 1 .. Len(t) THEN t[i] ELSE now
<1> DEFINE e == Times(n)
<1>1. e \in [1 .. n -> Nat] /\ \A i \in 1 .. n : e[i] = now
  BY DEF Times
<1> HIDE DEF e
<1>2. /\ t \o e \in Seq(Nat)
      /\ Len(t \o e) = Len(t) + n
      /\ \A i \in 1 .. Len(t \o e) :
           \/ i \in 1 .. Len(t) /\ (t \o e)[i] = t[i]
           \/ ~(i \in 1 .. Len(t)) /\ i - Len(t) \in 1 .. n
              /\ (t \o e)[i] = e[i - Len(t)]
  BY <1>1, Followed
<1> QED BY <1>1, <1>2 DEF e

LEMMA Regrouped ==
    ASSUME NEW s \in Seq(Nat), NEW t \in Seq(Nat), NEW u \in Seq(Nat)
    PROVE  s \o (t \o u) = (s \o t) \o u
BY ConcatAssociative, SMTT(60)

-----------------------------------------------------------------------------
(* The buffer.                                                             *)

Buffer == [request_id : Ids, bytes : Seq(Nat), first_byte_ms : Nat]

\* A flush moves the buffer's bytes, in order, behind what was sent.
LEMMA FlushMoves ==
    ASSUME sent \in Seq(Event), NEW B \in Buffer, Flush(B)
    PROVE  /\ buffered_output' \in Buffer
           /\ buffered_output'.bytes = <<>>
           /\ buffered_output'.request_id = B.request_id
           /\ captured_at' = <<>>
           /\ sent' \in Seq(Event)
           /\ SentData' = SentData \o B.bytes
           /\ Captured' = SentData \o B.bytes
           /\ \A i \in 1 .. Len(sent') :
                sent'[i][1] = IF i \in 1 .. Len(sent) THEN sent[i][1]
                                                      ELSE B.request_id
<1>1. B.bytes \in Seq(Nat) /\ B.request_id \in Ids
  BY DEF Buffer
<1>2. sent' = sent \o Events(B.request_id, B.bytes)
  BY DEF Flush
<1>3. /\ sent' \in Seq(Event)
      /\ Characters(sent') = Characters(sent) \o B.bytes
      /\ \A i \in 1 .. Len(sent') :
           sent'[i][1] = IF i \in 1 .. Len(sent) THEN sent[i][1]
                                                 ELSE B.request_id
  <2> DEFINE t == sent \o Events(B.request_id, B.bytes)
  <2>1. /\ t \in Seq(Event)
        /\ \A i \in 1 .. Len(t) :
             t[i][1] = IF i \in 1 .. Len(sent) THEN sent[i][1] ELSE B.request_id
        /\ Characters(t) = Characters(sent) \o B.bytes
    BY <1>1, CharactersOfEvents
  <2> HIDE DEF t
  <2>2. sent' = t
    BY <1>2 DEF t
  <2> QED BY <2>1, <2>2
<1>4. /\ buffered_output' = [B EXCEPT !.bytes = <<>>, !.first_byte_ms = 0]
      /\ captured_at' = <<>>
  BY DEF Flush
<1>5. <<>> \in Seq(Nat)
  BY EmptySeq
<1>6. /\ buffered_output' \in Buffer
      /\ buffered_output'.bytes = <<>>
      /\ buffered_output'.request_id = B.request_id
  BY <1>4, <1>5 DEF Buffer
<1>7. SentData \in Seq(Nat) /\ SentData' = SentData \o B.bytes
  BY <1>3, CharactersTyped DEF SentData
<1>8. SentData \o B.bytes \in Seq(Nat)
  BY <1>1, <1>7, ConcatProperties
<1>9. Captured' = SentData \o B.bytes
  <2>1. Captured' = (SentData \o B.bytes) \o <<>>
    BY <1>6, <1>7 DEF Captured
  <2> QED BY <2>1, <1>8, ConcatEmptySeq
<1> QED BY <1>3, <1>4, <1>6, <1>7, <1>9

\* What a capturing hook does, whether or not it sends the buffer: the data
\* is behind what was captured before, under the id of the request.
LEMMA CaptureAppends ==
    ASSUME TypeOK, Running, Attribution, Ages,
           NEW data \in Seq(Nat), data # <<>>, Capture(data),
           UNCHANGED <<active_request_id, now, polled>>
    PROVE  /\ buffered_output' \in Buffer
           /\ Len(buffered_output'.bytes) < BufferedOutputMaxBytes
           /\ sent' \in Seq(Event)
           /\ captured_at' \in Seq(Nat)
           /\ Captured' = Captured \o data
           /\ Attribution'
           /\ Ages'
<1> DEFINE B     == Appended(data)
           times == captured_at \o Times(Len(data))
<1>1. /\ buffered_output \in Buffer
      /\ sent \in Seq(Event)
      /\ captured_at \in Seq(Nat)
      /\ now \in Nat
  BY DEF TypeOK, Buffer, Ids, Event
<1>2. /\ buffered_output.bytes \in Seq(Nat)
      /\ buffered_output.first_byte_ms \in Nat
      /\ buffered_output.request_id = active_request_id
  BY <1>1 DEF Buffer, Attribution
<1>3. /\ B \in Buffer
      /\ B.bytes = buffered_output.bytes \o data
      /\ B.request_id = active_request_id
      /\ B.first_byte_ms = IF buffered_output.bytes = <<>> THEN now
                           ELSE buffered_output.first_byte_ms
  <2>1. buffered_output.bytes \o data \in Seq(Nat)
    BY <1>2, ConcatProperties
  <2> QED BY <1>1, <1>2, <2>1 DEF Appended, Buffer
<1>4. SentData \in Seq(Nat)
  BY <1>1, CharactersTyped DEF SentData
<1>5. SentData \o B.bytes = Captured \o data
  <2>1. SentData \o (buffered_output.bytes \o data)
          = (SentData \o buffered_output.bytes) \o data
    BY <1>2, <1>4, Regrouped
  <2> QED BY <1>3, <2>1 DEF Captured
<1>6. CASE Due(B)
  <2>1. Flush(B)
    BY <1>6 DEF Capture
  <2> HIDE DEF B
  <2>2. /\ buffered_output' \in Buffer
        /\ buffered_output'.bytes = <<>>
        /\ buffered_output'.request_id = B.request_id
        /\ captured_at' = <<>>
        /\ sent' \in Seq(Event)
        /\ Captured' = SentData \o B.bytes
        /\ \A i \in 1 .. Len(sent') :
             sent'[i][1] = IF i \in 1 .. Len(sent) THEN sent[i][1]
                                                   ELSE B.request_id
    BY <1>1, <1>3, <2>1, FlushMoves
  <2>3. Attribution'
    <3>1. \A i \in 1 .. Len(sent) : sent[i][1] = active_request_id
      BY DEF Attribution, EventsCarryTheirRequest
    <3>2. ASSUME NEW i \in 1 .. Len(sent')
          PROVE  sent'[i][1] = active_request_id
      BY <1>3, <2>2, <3>1
    <3> QED BY <1>3, <2>2, <3>2 DEF Attribution, EventsCarryTheirRequest
  <2>4. captured_at' \in Seq(Nat) /\ Len(captured_at') = 0
    BY <2>2, EmptySeq
  <2>5. Ages'
    BY <2>2, <2>4 DEF Ages
  <2> QED BY <1>5, <2>2, <2>3, <2>4, <2>5, CaptureAssumption
<1>7. CASE ~Due(B)
  <2>1. /\ buffered_output' = B
        /\ captured_at' = times
        /\ sent' = sent
    BY <1>7 DEF Capture, Hold
  <2> HIDE DEF B
  <2>2. SentData' = SentData /\ Captured' = SentData \o B.bytes
    BY <2>1 DEF SentData, Captured
  <2>3. Attribution'
    BY <1>3, <2>1 DEF Attribution, EventsCarryTheirRequest, Running
  <2>4. /\ Len(data) \in Nat
        /\ Len(B.bytes) = Len(buffered_output.bytes) + Len(data)
        /\ Len(buffered_output.bytes) \in Nat
        /\ Len(captured_at) = Len(buffered_output.bytes)
    BY <1>2, <1>3, LenProperties, ConcatProperties DEF Ages
  <2>5. Len(B.bytes) # 0 /\ B.bytes # <<>>
    <3>1. Len(data) # 0
      BY EmptySeq
    <3> QED BY <2>4, <3>1, EmptySeq, <1>3
  <2>6. Len(B.bytes) < BufferedOutputMaxBytes
    BY <1>3, <1>7, <2>4, <2>5, CaptureAssumption DEF Due, Running
  <2>7. /\ times \in Seq(Nat)
        /\ Len(times) = Len(captured_at) + Len(data)
        /\ \A i \in 1 .. Len(times) :
             times[i] = IF i \in 1 .. Len(captured_at) THEN captured_at[i]
                                                       ELSE now
    BY <1>1, <2>4, AddedTimes
  <2> HIDE DEF times
  <2>8. Ages'
    <3>1. buffered_output.bytes = <<>> =>
            Len(captured_at) = 0 /\ B.first_byte_ms = now
      BY <1>3, <2>4, EmptySeq
    <3>2. buffered_output.bytes # <<>> =>
            B.first_byte_ms = buffered_output.first_byte_ms
      BY <1>3
    <3>3. /\ Len(times) = Len(B.bytes)
          /\ B.first_byte_ms \in Nat
          /\ B.first_byte_ms <= now
      <4>1. Len(times) = Len(B.bytes)
        BY <2>4, <2>7
      <4>2. CASE buffered_output.bytes = <<>>
        BY <4>1, <4>2, <1>1, <3>1
      <4>3. CASE buffered_output.bytes # <<>>
        BY <4>1, <4>3, <1>2, <3>2 DEF Ages
      <4> QED BY <4>2, <4>3
    <3>4. ASSUME NEW i \in 1 .. Len(times)
          PROVE  times[i] \in B.first_byte_ms .. now
      <4>1. CASE i \in 1 .. Len(captured_at)
        <5>1. buffered_output.bytes # <<>>
          BY <4>1, <3>1
        <5>2. captured_at[i] \in buffered_output.first_byte_ms .. now
          BY <4>1 DEF Ages
        <5> QED BY <4>1, <5>1, <5>2, <2>7, <3>2
      <4>2. CASE ~(i \in 1 .. Len(captured_at))
        BY <4>2, <1>1, <2>7, <3>3
      <4> QED BY <4>1, <4>2
    <3>5. now - B.first_byte_ms < BufferedOutputMaxMs
      BY <1>1, <1>3, <1>7, <2>5, <3>3, CaptureAssumption DEF Due, Running
    <3> QED BY <2>1, <2>4, <2>7, <3>3, <3>4, <3>5 DEF Ages
  <2> QED BY <1>1, <1>3, <1>5, <2>1, <2>2, <2>3, <2>6, <2>7, <2>8
<1> QED BY <1>6, <1>7

-----------------------------------------------------------------------------
(* The inductive invariant.                                                *)

IInv == TypeOK /\ Attribution /\ Accounting /\ Ages

LEMMA CapturedTyped == ASSUME TypeOK PROVE Captured \in Seq(Nat)
<1>1. buffered_output.bytes \in Seq(Nat) /\ sent \in Seq(Event)
  BY DEF TypeOK, Event, Ids
<1>2. SentData \in Seq(Nat)
  BY <1>1, CharactersTyped DEF SentData
<1> QED BY <1>1, <1>2, ConcatProperties DEF Captured

\* The buffer and what was sent, after a step that captures data (or, when
\* data is empty, leaves the buffer alone) while a request is running.
LEMMA BufferStep ==
    ASSUME IInv, Running, NEW data \in Seq(Nat),
           IF data = <<>> THEN UNCHANGED captureVars ELSE Capture(data),
           UNCHANGED <<active_request_id, now, polled>>
    PROVE  /\ buffered_output' \in Buffer
           /\ Len(buffered_output'.bytes) < BufferedOutputMaxBytes
           /\ sent' \in Seq(Event)
           /\ captured_at' \in Seq(Nat)
           /\ Captured \in Seq(Nat)
           /\ Captured' = Captured \o data
           /\ Attribution'
           /\ Ages'
<1>1. TypeOK /\ Attribution /\ Ages
  BY DEF IInv
<1>2. Captured \in Seq(Nat)
  BY <1>1, CapturedTyped
<1>3. CASE data # <<>>
  <2>1. Capture(data)
    BY <1>3
  <2> QED BY <1>1, <1>2, <1>3, <2>1, CaptureAppends
<1>4. CASE data = <<>>
  <2>1. UNCHANGED <<buffered_output, sent, captured_at>>
    BY <1>4 DEF captureVars
  <2>2. Captured' = Captured
    BY <2>1 DEF Captured, SentData
  <2>3. Captured \o data = Captured
    BY <1>2, <1>4, ConcatEmptySeq
  <2>4. Attribution'
    BY <1>1, <2>1 DEF Attribution, EventsCarryTheirRequest, Running
  <2>5. Ages'
    BY <1>1, <2>1 DEF Ages, Running
  <2>6. /\ buffered_output' \in Buffer
        /\ Len(buffered_output'.bytes) < BufferedOutputMaxBytes
        /\ sent' \in Seq(Event)
        /\ captured_at' \in Seq(Nat)
    BY <1>1, <2>1 DEF TypeOK, Buffer, Event, Ids
  <2> QED BY <1>2, <2>2, <2>3, <2>4, <2>5, <2>6
<1> QED BY <1>3, <1>4

LEMMA Initially == Init => IInv
<1> SUFFICES ASSUME Init PROVE IInv
  OBVIOUS
<1>1. <<>> \in Seq(Nat) /\ <<>> \in Seq(Frame)
      /\ <<>> \in Seq(Event) /\ Len(<<>>) = 0
  BY EmptySeq
<1>2. TypeOK
  <2>1. buffered_output \in Buffer /\ buffered_output.bytes = <<>>
    BY <1>1 DEF Init, Buffer, Ids
  <2>2. Len(buffered_output.bytes) < BufferedOutputMaxBytes
    BY <1>1, <2>1, CaptureAssumption
  <2>3. sent \in Seq(Event)
    BY <1>1 DEF Init
  <2> QED BY <1>1, <2>1, <2>2, <2>3 DEF Init, TypeOK, Buffer, Event, Ids
<1>3. SentData = <<>>
  <2>1. sent \in Seq(Event) /\ Len(sent) = 0
    BY <1>1 DEF Init
  <2>2. SentData \in Seq(Nat) /\ Len(SentData) = 0
    BY <2>1, CharactersTyped DEF SentData
  <2> QED BY <2>2, EmptySeq
<1>4. Attribution /\ Ages
  BY <1>1 DEF Init, Attribution, EventsCarryTheirRequest, Running, Ages
<1>5. Accounting
  BY <1>1, <1>3 DEF Init, Accounting, Nesting, AtRest, CapturedIsShown,
                    OutputBeforeResult, Running
<1> QED BY <1>2, <1>4, <1>5 DEF IInv

\* The writes in progress, after one has been put in front.
LEMMA Pushed ==
    ASSUME NEW f \in Frame, NEW s \in Seq(Frame)
    PROVE  /\ <<f>> \o s \in Seq(Frame)
           /\ <<f>> \o s # <<>>
           /\ Head(<<f>> \o s) = f
           /\ Len(<<f>> \o s) = Len(s) + 1
<1>1. <<f>> \in Seq(Frame) /\ Len(<<f>>) = 1 /\ <<f>>[1] = f
  OBVIOUS
<1>2. /\ <<f>> \o s \in Seq(Frame)
      /\ Len(<<f>> \o s) = Len(<<f>>) + Len(s)
      /\ \A i \in 1 .. Len(<<f>>) + Len(s) :
           (<<f>> \o s)[i] = IF i <= Len(<<f>>) THEN <<f>>[i]
                              ELSE s[i - Len(<<f>>)]
  BY <1>1, ConcatProperties
<1>3. Len(s) \in Nat
  BY LenProperties
<1>4. Len(<<f>> \o s) = Len(s) + 1
  BY <1>1, <1>2, <1>3
<1>5. (<<f>> \o s)[1] = f
  BY <1>1, <1>2, <1>3
<1>6. <<f>> \o s # <<>>
  BY <1>2, <1>3, <1>4, EmptySeq
<1> QED BY <1>2, <1>4, <1>5, <1>6

LEMMA OneMore ==
    ASSUME NEW s \in Seq(Nat), NEW c \in Nat
    PROVE  /\ Append(s, c) \in Seq(Nat)
           /\ Append(s, c) = s \o <<c>>
           /\ <<c>> \in Seq(Nat) /\ <<c>> # <<>>
BY AppendProperties, AppendIsConcat

\* A step that captures data, leaves the session alone and keeps the books:
\* what is left is that what was displayed is accounted for.
LEMMA StepKeepsInvariant ==
    ASSUME IInv, Running, NEW data \in Seq(Nat),
           IF data = <<>> THEN UNCHANGED captureVars ELSE Capture(data),
           UNCHANGED <<active_request_id, now, polled>>,
           console_device_capture_active' \in BOOLEAN,
           writes' \in Seq(Frame),
           issued' \in Nat,
           shown' \in Seq(Nat),
           clean' \in BOOLEAN,
           Nesting',
           clean' => (Captured \o data) \o UnderWay' = shown'
    PROVE  IInv'
<1>1. /\ buffered_output' \in Buffer
      /\ Len(buffered_output'.bytes) < BufferedOutputMaxBytes
      /\ sent' \in Seq(Event)
      /\ captured_at' \in Seq(Nat)
      /\ Captured' = Captured \o data
      /\ Attribution'
      /\ Ages'
  BY BufferStep
<1>2. TypeOK'
  BY <1>1 DEF IInv, TypeOK, Buffer, Event, Ids
<1>3. Running'
  BY DEF Running
<1>4. CapturedIsShown'
  BY <1>1 DEF CapturedIsShown
<1>5. AtRest' /\ OutputBeforeResult'
  BY <1>3 DEF AtRest, OutputBeforeResult
<1> QED BY <1>1, <1>2, <1>4, <1>5 DEF IInv, Accounting

LEMMA PrintTeletypeStep == ASSUME IInv, PrintTeletype PROVE IInv'
<1> DEFINE c    == issued + 1
           data == IF console_device_capture_active THEN <<>> ELSE <<c>>
<1>1. /\ Running
      /\ issued' = c
      /\ shown' = Append(shown, c)
      /\ CaptureTty(c)
      /\ clean' = (clean /\ writes = <<>>)
      /\ UNCHANGED <<active_request_id, console_device_capture_active, writes,
                     now, polled>>
  BY DEF PrintTeletype, clockVars
<1>2. /\ issued \in Nat /\ shown \in Seq(Nat) /\ writes \in Seq(Frame)
      /\ console_device_capture_active \in BOOLEAN /\ clean \in BOOLEAN
  BY DEF IInv, TypeOK
<1>3. /\ c \in Nat
      /\ Append(shown, c) \in Seq(Nat)
      /\ Append(shown, c) = shown \o <<c>>
      /\ <<c>> \in Seq(Nat) /\ <<c>> # <<>> /\ <<>> \in Seq(Nat)
  BY <1>2, OneMore, EmptySeq
<1>4. /\ data \in Seq(Nat)
      /\ IF data = <<>> THEN UNCHANGED captureVars ELSE Capture(data)
  BY <1>1, <1>3 DEF CaptureTty
<1>5. Nesting'
  BY <1>1 DEF IInv, Accounting, Nesting
<1>6. ASSUME clean'
      PROVE  (Captured \o data) \o UnderWay' = shown'
  <2>1. clean /\ writes = <<>> /\ ~console_device_capture_active
    BY <1>1, <1>6 DEF IInv, Accounting, Nesting
  <2>2. data = <<c>> /\ UnderWay = <<>> /\ UnderWay' = <<>>
    BY <1>1, <2>1 DEF UnderWay
  <2>3. Captured \in Seq(Nat)
    BY CapturedTyped DEF IInv
  <2>4. Captured = shown
    <3>1. Captured \o <<>> = shown
      BY <1>1, <2>1, <2>2 DEF IInv, Accounting, CapturedIsShown
    <3> QED BY <2>3, <3>1, ConcatEmptySeq
  <2>5. (Captured \o <<c>>) \o <<>> = Captured \o <<c>>
    BY <1>3, <2>3, ConcatProperties, ConcatEmptySeq
  <2> QED BY <1>1, <1>3, <2>2, <2>4, <2>5
<1> HIDE DEF data, c
<1> QED BY <1>1, <1>2, <1>3, <1>4, <1>5, <1>6, StepKeepsInvariant

LEMMA BeginConWriteStep ==
    ASSUME IInv, NEW n \in 0 .. MaxIssued, BeginConWrite(n) PROVE IInv'
<1> DEFINE f    == [done |-> <<>>, rest |-> Fresh(n)]
           data == <<>>
<1>1. /\ Running
      /\ console_device_capture_active' = TRUE
      /\ writes' = <<f>> \o writes
      /\ issued' = issued + n
      /\ clean' = (clean /\ writes = <<>>)
      /\ UNCHANGED <<active_request_id, shown, now, polled>>
      /\ UNCHANGED captureVars
  BY DEF BeginConWrite, clockVars
<1>2. /\ issued \in Nat /\ shown \in Seq(Nat) /\ writes \in Seq(Frame)
      /\ clean \in BOOLEAN /\ n \in Nat
  BY CaptureAssumption DEF IInv, TypeOK
<1>3. f \in Frame
  <2>1. Fresh(n) \in [1 .. n -> Nat]
    BY <1>2 DEF Fresh
  <2>2. Fresh(n) \in Seq(Nat) /\ <<>> \in Seq(Nat)
    BY <1>2, <2>1, FunctionIsSequence, EmptySeq
  <2> QED BY <2>2 DEF Frame
<1>4. /\ writes' \in Seq(Frame)
      /\ writes' # <<>>
      /\ Head(writes') = f
      /\ Len(writes') = Len(writes) + 1
  BY <1>1, <1>2, <1>3, Pushed
<1>5. /\ data \in Seq(Nat)
      /\ IF data = <<>> THEN UNCHANGED captureVars ELSE Capture(data)
  BY <1>1, EmptySeq
<1>6. Nesting'
  <2> SUFFICES ASSUME clean' PROVE Len(writes') <= 1
    BY <1>1, <1>4 DEF Nesting
  <2>1. writes = <<>>
    BY <1>1
  <2>2. Len(writes) = 0
    BY <2>1
  <2> QED BY <1>4, <2>2
<1>7. ASSUME clean'
      PROVE  (Captured \o data) \o UnderWay' = shown'
  <2>1. clean /\ UnderWay = <<>>
    BY <1>1, <1>7 DEF UnderWay
  <2>2. UnderWay' = <<>>
    BY <1>4 DEF UnderWay
  <2>3. Captured \in Seq(Nat)
    BY CapturedTyped DEF IInv
  <2>4. Captured \o <<>> = shown
    BY <1>1, <2>1 DEF IInv, Accounting, CapturedIsShown
  <2>5. Captured \o <<>> = Captured
    BY <2>3, ConcatEmptySeq
  <2>6. (Captured \o data) \o <<>> = shown
    BY <2>4, <2>5
  <2>7. shown' = shown
    BY <1>1
  <2> QED BY <2>2, <2>6, <2>7
<1>8. issued' \in Nat /\ clean' \in BOOLEAN
  BY <1>1, <1>2
<1> HIDE DEF f, data
<1> QED BY <1>1, <1>2, <1>4, <1>5, <1>6, <1>7, <1>8, StepKeepsInvariant

LEMMA WriteElsewhereStep == ASSUME IInv, WriteElsewhere PROVE IInv'
<1> DEFINE data == <<>>
<1>1. /\ Running
      /\ console_device_capture_active' = FALSE
      /\ clean' = (clean /\ writes = <<>>)
      /\ UNCHANGED <<active_request_id, writes, issued, shown, now, polled>>
      /\ UNCHANGED captureVars
  BY DEF WriteElsewhere, clockVars
<1>2. /\ issued \in Nat /\ shown \in Seq(Nat) /\ writes \in Seq(Frame)
      /\ clean \in BOOLEAN
  BY DEF IInv, TypeOK
<1>3. data \in Seq(Nat)
  BY EmptySeq
<1>4. Nesting'
  BY <1>1 DEF IInv, Accounting, Nesting
<1>5. ASSUME clean'
      PROVE  (Captured \o data) \o UnderWay' = shown'
  <2>1. UnderWay' = UnderWay
    BY <1>1 DEF UnderWay
  <2>2. Captured \in Seq(Nat)
    BY CapturedTyped DEF IInv
  <2>3. Captured \o UnderWay = shown
    BY <1>1, <1>5 DEF IInv, Accounting, CapturedIsShown
  <2> QED BY <1>1, <2>1, <2>2, <2>3, ConcatEmptySeq
<1> QED BY <1>1, <1>2, <1>3, <1>4, <1>5, StepKeepsInvariant

LEMMA ShowCharStep == ASSUME IInv, ShowChar PROVE IInv'
<1> DEFINE top  == Head(writes)
           c    == Head(top.rest)
           f    == [done |-> Append(top.done, c), rest |-> Tail(top.rest)]
           data == IF console_device_capture_active THEN <<>> ELSE <<c>>
<1>1. /\ Running
      /\ writes # <<>>
      /\ top.rest # <<>>
      /\ writes' = <<f>> \o Tail(writes)
      /\ shown' = Append(shown, c)
      /\ CaptureTty(c)
      /\ UNCHANGED <<active_request_id, console_device_capture_active, issued,
                     clean, now, polled>>
  BY DEF ShowChar, clockVars
<1>2. /\ issued \in Nat /\ shown \in Seq(Nat) /\ writes \in Seq(Frame)
      /\ console_device_capture_active \in BOOLEAN /\ clean \in BOOLEAN
  BY DEF IInv, TypeOK
<1>3. /\ top \in Frame
      /\ Tail(writes) \in Seq(Frame)
      /\ Len(Tail(writes)) = Len(writes) - 1
  BY <1>1, <1>2, HeadTailProperties
<1>4. /\ top.done \in Seq(Nat) /\ top.rest \in Seq(Nat)
      /\ c \in Nat /\ Tail(top.rest) \in Seq(Nat)
  <2>1. top.done \in Seq(Nat) /\ top.rest \in Seq(Nat)
    BY <1>3 DEF Frame
  <2> QED BY <1>1, <2>1, HeadTailProperties
<1>5. /\ Append(shown, c) \in Seq(Nat)
      /\ Append(shown, c) = shown \o <<c>>
      /\ Append(top.done, c) \in Seq(Nat)
      /\ Append(top.done, c) = top.done \o <<c>>
      /\ <<c>> \in Seq(Nat) /\ <<c>> # <<>> /\ <<>> \in Seq(Nat)
  BY <1>2, <1>4, OneMore, EmptySeq
<1>6. f \in Frame /\ f.done = top.done \o <<c>>
  BY <1>4, <1>5 DEF Frame
<1>7. /\ writes' \in Seq(Frame)
      /\ writes' # <<>>
      /\ Head(writes') = f
      /\ Len(writes') = Len(writes) - 1 + 1
  BY <1>1, <1>3, <1>6, Pushed
<1>8. Len(writes') = Len(writes)
  <2>1. Len(writes) \in Nat
    BY <1>2, LenProperties
  <2> QED BY <1>7, <2>1
<1>9. /\ data \in Seq(Nat)
      /\ IF data = <<>> THEN UNCHANGED captureVars ELSE Capture(data)
  BY <1>1, <1>5 DEF CaptureTty
<1>10. Nesting'
  BY <1>1, <1>7, <1>8 DEF IInv, Accounting, Nesting
<1>11. ASSUME clean'
       PROVE  (Captured \o data) \o UnderWay' = shown'
  <2>1. clean /\ console_device_capture_active
    BY <1>1, <1>11 DEF IInv, Accounting, Nesting
  <2>2. data = <<>>
    BY <2>1
  <2>3. UnderWay = top.done /\ UnderWay' = top.done \o <<c>>
    BY <1>1, <1>6, <1>7 DEF UnderWay
  <2>4. Captured \in Seq(Nat)
    BY CapturedTyped DEF IInv
  <2>5. Captured \o top.done = shown
    BY <1>1, <2>1, <2>3 DEF IInv, Accounting, CapturedIsShown
  <2>6. Captured \o (top.done \o <<c>>) = (Captured \o top.done) \o <<c>>
    BY <1>4, <1>5, <2>4, Regrouped
  <2>7. Captured \o <<>> = Captured
    BY <2>4, ConcatEmptySeq
  <2> HIDE DEF c, top, data
  <2> QED BY <1>1, <1>5, <2>2, <2>3, <2>5, <2>6, <2>7
<1> HIDE DEF data, c, f, top
<1> QED BY <1>1, <1>2, <1>5, <1>7, <1>9, <1>10, <1>11, StepKeepsInvariant

LEMMA EndConWriteStep == ASSUME IInv, EndConWrite PROVE IInv'
<1> DEFINE data == Head(writes).done
<1>1. /\ Running
      /\ writes # <<>>
      /\ console_device_capture_active' = FALSE
      /\ writes' = Tail(writes)
      /\ IF data = <<>> THEN UNCHANGED captureVars ELSE Capture(data)
      /\ UNCHANGED <<active_request_id, issued, shown, clean, now, polled>>
  BY DEF EndConWrite, clockVars
<1>2. /\ issued \in Nat /\ shown \in Seq(Nat) /\ writes \in Seq(Frame)
      /\ clean \in BOOLEAN
  BY DEF IInv, TypeOK
<1>3. /\ Head(writes) \in Frame
      /\ writes' \in Seq(Frame)
      /\ Len(writes') = Len(writes) - 1
  BY <1>1, <1>2, HeadTailProperties
<1>4. data \in Seq(Nat)
  BY <1>3 DEF Frame
<1>5. ASSUME clean'
      PROVE  writes' = <<>>
  <2>1. Len(writes) <= 1 /\ Len(writes) \in Nat /\ Len(writes') \in Nat
    BY <1>1, <1>2, <1>3, <1>5, LenProperties DEF IInv, Accounting, Nesting
  <2>2. Len(writes') = 0
    BY <1>3, <2>1
  <2> QED BY <1>3, <2>2, EmptySeq
<1>6. Nesting'
  <2>1. Len(<<>>) = 0
    OBVIOUS
  <2> QED BY <1>1, <1>5, <2>1 DEF Nesting
<1>7. ASSUME clean'
      PROVE  (Captured \o data) \o UnderWay' = shown'
  <2>1. UnderWay = data /\ UnderWay' = <<>>
    BY <1>1, <1>5, <1>7 DEF UnderWay
  <2>2. Captured \in Seq(Nat)
    BY CapturedTyped DEF IInv
  <2>3. Captured \o data = shown
    BY <1>1, <1>7, <2>1 DEF IInv, Accounting, CapturedIsShown
  <2>4. shown \o <<>> = shown
    BY <1>2, ConcatEmptySeq
  <2> QED BY <1>1, <2>1, <2>3, <2>4
<1> HIDE DEF data
<1> QED BY <1>1, <1>2, <1>3, <1>4, <1>6, <1>7, StepKeepsInvariant

LEMMA BreakConWriteStep == ASSUME IInv, BreakConWrite PROVE IInv'
<1> DEFINE top  == Head(writes)
           c    == issued + 1
           f    == [done |-> top.done \o top.rest, rest |-> <<>>]
           data == IF console_device_capture_active THEN <<>> ELSE <<c>>
<1>1. /\ Running
      /\ writes # <<>>
      /\ writes' = <<f>> \o Tail(writes)
      /\ issued' = c
      /\ shown' = Append(shown, c)
      /\ CaptureTty(c)
      /\ clean' = FALSE
      /\ UNCHANGED <<active_request_id, console_device_capture_active, now,
                     polled>>
  BY DEF BreakConWrite, clockVars
<1>2. /\ issued \in Nat /\ shown \in Seq(Nat) /\ writes \in Seq(Frame)
      /\ console_device_capture_active \in BOOLEAN
  BY DEF IInv, TypeOK
<1>3. /\ c \in Nat
      /\ Append(shown, c) \in Seq(Nat)
      /\ <<c>> \in Seq(Nat) /\ <<c>> # <<>> /\ <<>> \in Seq(Nat)
  BY <1>2, OneMore, EmptySeq
<1>4. top \in Frame /\ Tail(writes) \in Seq(Frame)
  BY <1>1, <1>2, HeadTailProperties
<1>5. f \in Frame
  <2>1. top.done \in Seq(Nat) /\ top.rest \in Seq(Nat)
    BY <1>4 DEF Frame
  <2>2. top.done \o top.rest \in Seq(Nat)
    BY <2>1, ConcatProperties
  <2> QED BY <1>3, <2>2 DEF Frame
<1>6. writes' \in Seq(Frame)
  BY <1>1, <1>4, <1>5, Pushed
<1>7. /\ data \in Seq(Nat)
      /\ IF data = <<>> THEN UNCHANGED captureVars ELSE Capture(data)
  BY <1>1, <1>3 DEF CaptureTty
<1>8. Nesting'
  BY <1>1 DEF Nesting
<1> HIDE DEF data, c, f, top
<1> QED BY <1>1, <1>2, <1>3, <1>6, <1>7, <1>8, StepKeepsInvariant

LEMMA BeginRequestStep ==
    ASSUME IInv, NEW id \in Requests, BeginRequest(id) PROVE IInv'
<1>1. /\ ~Running
      /\ active_request_id' = id
      /\ buffered_output' = [request_id |-> id, bytes |-> <<>>,
                             first_byte_ms |-> 0]
      /\ sent' = <<>> /\ issued' = 0 /\ shown' = <<>> /\ captured_at' = <<>>
      /\ clean' = TRUE
      /\ UNCHANGED <<console_device_capture_active, writes, now, polled>>
  BY DEF BeginRequest, Reset
<1>2. /\ <<>> \in Seq(Nat) /\ <<>> \in Seq(Event) /\ Len(<<>>) = 0
  BY EmptySeq
<1>3. buffered_output' \in Buffer /\ buffered_output'.bytes = <<>>
  BY <1>1, <1>2 DEF Buffer, Ids
<1>4. TypeOK'
  <2>1. Len(buffered_output'.bytes) < BufferedOutputMaxBytes
    BY <1>2, <1>3, CaptureAssumption
  <2>2. active_request_id' \in Ids
    BY <1>1 DEF Ids
  <2> QED BY <1>1, <1>2, <1>3, <2>1, <2>2
          DEF IInv, TypeOK, Buffer, Event, Ids
<1>5. Attribution' /\ Ages'
  BY <1>1, <1>2, <1>3 DEF Attribution, EventsCarryTheirRequest, Ages
<1>6. writes' = <<>> /\ Running' /\ Nesting'
  <2>1. writes = <<>> /\ ~console_device_capture_active
    BY <1>1 DEF IInv, Accounting, AtRest, Nesting
  <2> QED BY <1>1, <1>2, <2>1, CaptureAssumption DEF Running, Nesting
<1>7. Captured' = <<>>
  <2>1. SentData' \in Seq(Nat) /\ Len(SentData') = 0
    BY <1>1, <1>2, CharactersTyped DEF SentData
  <2>2. SentData' = <<>>
    BY <2>1, EmptySeq
  <2>3. Captured' = <<>> \o <<>>
    BY <1>3, <2>2 DEF Captured
  <2> QED BY <1>2, <2>3, ConcatEmptySeq
<1>8. CapturedIsShown'
  <2>1. UnderWay' = <<>>
    BY <1>6 DEF UnderWay
  <2>2. Captured' \o UnderWay' = <<>>
    BY <1>2, <1>7, <2>1, ConcatEmptySeq
  <2> QED BY <1>1, <2>2 DEF CapturedIsShown
<1>9. AtRest' /\ OutputBeforeResult'
  BY <1>6 DEF AtRest, OutputBeforeResult
<1> QED BY <1>4, <1>5, <1>6, <1>8, <1>9 DEF IInv, Accounting

LEMMA EndRequestStep == ASSUME IInv, EndRequest PROVE IInv'
<1>1. /\ Running /\ writes = <<>>
      /\ Flush(buffered_output)
      /\ active_request_id' = NoRequest
      /\ UNCHANGED <<console_device_capture_active, writes, issued, shown,
                     clean, now, polled>>
  BY DEF EndRequest, guestVars, clockVars
<1>2. /\ sent \in Seq(Event) /\ buffered_output \in Buffer
      /\ buffered_output.request_id = active_request_id
  BY <1>1 DEF IInv, TypeOK, Buffer, Event, Ids, Attribution
<1>3. /\ buffered_output' \in Buffer
      /\ buffered_output'.bytes = <<>>
      /\ captured_at' = <<>>
      /\ sent' \in Seq(Event)
      /\ SentData' = SentData \o buffered_output.bytes
  BY <1>1, <1>2, FlushMoves
<1>4. <<>> \in Seq(Nat) /\ Len(<<>>) = 0
  BY EmptySeq
<1>5. ~Running'
  BY <1>1 DEF Running
<1>6. TypeOK'
  <2>1. Len(buffered_output'.bytes) < BufferedOutputMaxBytes
    BY <1>3, <1>4, CaptureAssumption
  <2> QED BY <1>1, <1>3, <1>4, <2>1 DEF IInv, TypeOK, Buffer, Event, Ids
<1>7. Attribution' /\ Ages'
  BY <1>3, <1>4, <1>5 DEF Attribution, EventsCarryTheirRequest, Ages
<1>8. Nesting' /\ AtRest' /\ CapturedIsShown'
  BY <1>1, <1>3, <1>5 DEF IInv, Accounting, Nesting, AtRest, CapturedIsShown
<1>9. OutputBeforeResult'
  <2> SUFFICES ASSUME clean PROVE SentData' = shown
    BY <1>1 DEF OutputBeforeResult
  <2>1. Captured \in Seq(Nat)
    BY CapturedTyped DEF IInv
  <2>2. Captured \o <<>> = shown
    BY <1>1 DEF IInv, Accounting, CapturedIsShown, UnderWay
  <2>3. Captured = shown
    BY <2>1, <2>2, ConcatEmptySeq
  <2> QED BY <1>3, <2>3 DEF Captured
<1> QED BY <1>6, <1>7, <1>8, <1>9 DEF IInv, Accounting

LEMMA TickStep == ASSUME IInv, Tick PROVE IInv'
<1>1. /\ polled' = FALSE /\ now' = now + 1
      /\ UNCHANGED <<active_request_id, buffered_output, sent, captured_at,
                     console_device_capture_active, writes, issued, shown, clean>>
  BY DEF Tick, captureVars, guestVars
<1>2. TypeOK' /\ Attribution'
  <2>1. now \in Nat /\ now' \in Nat
    BY <1>1 DEF IInv, TypeOK
  <2>2. TypeOK'
    BY <1>1, <2>1 DEF IInv, TypeOK
  <2>3. Attribution'
    BY <1>1 DEF IInv, Attribution, EventsCarryTheirRequest, Running
  <2> QED BY <2>2, <2>3
<1>3. Accounting'
  BY <1>1 DEF IInv, Accounting, Nesting, AtRest, CapturedIsShown,
              OutputBeforeResult, Captured, SentData, UnderWay, Running
<1>4. Ages'
  <2>1. /\ now \in Nat /\ buffered_output.first_byte_ms \in Nat
        /\ \A i \in 1 .. Len(captured_at) :
             captured_at[i] \in buffered_output.first_byte_ms .. now
    BY DEF IInv, TypeOK, Ages
  <2>2. \A i \in 1 .. Len(captured_at) :
          captured_at[i] \in buffered_output.first_byte_ms .. (now + 1)
    BY <2>1
  <2> QED BY <1>1, <2>1, <2>2 DEF IInv, Ages
<1> QED BY <1>2, <1>3, <1>4 DEF IInv

LEMMA NormalLoopStep == ASSUME IInv, NormalLoop PROVE IInv'
<1>1. /\ polled' = TRUE
      /\ UNCHANGED <<active_request_id, console_device_capture_active, writes,
                     issued, shown, clean, now>>
  BY DEF NormalLoop, guestVars
<1>2. /\ sent \in Seq(Event) /\ buffered_output \in Buffer
      /\ now \in Nat /\ buffered_output.first_byte_ms \in Nat
      /\ buffered_output.bytes \in Seq(Nat)
  BY DEF IInv, TypeOK, Buffer, Event, Ids
<1>3. CASE Running /\ Due(buffered_output)
  <2>1. Flush(buffered_output)
    BY <1>3 DEF NormalLoop
  <2>2. /\ buffered_output' \in Buffer
        /\ buffered_output'.bytes = <<>>
        /\ buffered_output'.request_id = buffered_output.request_id
        /\ captured_at' = <<>>
        /\ sent' \in Seq(Event)
        /\ Captured' = SentData \o buffered_output.bytes
        /\ \A i \in 1 .. Len(sent') :
             sent'[i][1] = IF i \in 1 .. Len(sent) THEN sent[i][1]
                                                   ELSE buffered_output.request_id
    BY <1>2, <2>1, FlushMoves
  <2>3. <<>> \in Seq(Nat) /\ Len(<<>>) = 0
    BY EmptySeq
  <2>4. Captured' = Captured
    BY <2>2 DEF Captured
  <2>5. TypeOK'
    <3>1. Len(buffered_output'.bytes) < BufferedOutputMaxBytes
      BY <2>2, <2>3, CaptureAssumption
    <3> QED BY <1>1, <2>2, <2>3, <3>1 DEF IInv, TypeOK, Buffer, Event, Ids
  <2>6. Attribution'
    <3>1. /\ buffered_output.request_id = active_request_id
          /\ \A i \in 1 .. Len(sent) : sent[i][1] = active_request_id
      BY <1>3 DEF IInv, Attribution, EventsCarryTheirRequest
    <3> QED BY <1>1, <2>2, <3>1 DEF Attribution, EventsCarryTheirRequest
  <2>7. Ages'
    BY <2>2, <2>3 DEF Ages
  <2>8. Running'
    BY <1>1, <1>3 DEF Running
  <2>9. CapturedIsShown'
    BY <1>1, <1>3, <2>4 DEF IInv, Accounting, CapturedIsShown, UnderWay
  <2>10. Nesting' /\ AtRest' /\ OutputBeforeResult'
    BY <1>1, <2>8 DEF IInv, Accounting, Nesting, AtRest, OutputBeforeResult
  <2> QED BY <2>5, <2>6, <2>7, <2>9, <2>10 DEF IInv, Accounting
<1>4. CASE ~(Running /\ Due(buffered_output))
  <2>1. UNCHANGED <<buffered_output, sent, captured_at>>
    BY <1>4 DEF NormalLoop, captureVars
  <2>2. TypeOK'
    BY <1>1, <2>1 DEF IInv, TypeOK
  <2>3. Attribution'
    BY <1>1, <2>1 DEF IInv, Attribution, EventsCarryTheirRequest, Running
  <2>4. Accounting'
    BY <1>1, <2>1 DEF IInv, Accounting, Nesting, AtRest, CapturedIsShown,
                      OutputBeforeResult, Captured, SentData, UnderWay, Running
  <2>5. ASSUME Running, buffered_output.bytes # <<>>
        PROVE  now - buffered_output.first_byte_ms < BufferedOutputMaxMs
    <3>1. buffered_output.request_id # NoRequest
      BY <2>5 DEF IInv, Attribution, Running
    <3> QED BY <1>2, <1>4, <2>5, <3>1, CaptureAssumption DEF Due
  <2>6. Ages'
    BY <1>1, <2>1, <2>5 DEF IInv, Ages, Running
  <2> QED BY <2>2, <2>3, <2>4, <2>6 DEF IInv
<1> QED BY <1>3, <1>4

LEMMA StutterStep == ASSUME IInv, UNCHANGED vars PROVE IInv'
<1>1. UNCHANGED <<active_request_id, console_device_capture_active,
                  buffered_output, writes, now, polled, sent, issued, shown,
                  captured_at, clean>>
  BY DEF vars
<1>2. TypeOK' /\ Attribution' /\ Ages'
  BY <1>1 DEF IInv, TypeOK, Attribution, EventsCarryTheirRequest, Ages, Running
<1>3. Accounting'
  BY <1>1 DEF IInv, Accounting, Nesting, AtRest, CapturedIsShown,
              OutputBeforeResult, Captured, SentData, UnderWay, Running
<1> QED BY <1>2, <1>3 DEF IInv

\* Every reachable state satisfies the inductive invariant, hence TypeOK.
THEOREM Invariance == Spec => []IInv
<1>1. Init => IInv
  BY Initially
<1>2. IInv /\ [Next]_vars => IInv'
  <2> SUFFICES ASSUME IInv, [Next]_vars PROVE IInv'
    OBVIOUS
  <2>1. ASSUME NEW id \in Requests, BeginRequest(id) PROVE IInv'
    BY <2>1, BeginRequestStep
  <2>2. CASE EndRequest
    BY <2>2, EndRequestStep
  <2>3. CASE PrintTeletype
    BY <2>3, PrintTeletypeStep
  <2>4. ASSUME NEW n \in 0 .. MaxIssued, BeginConWrite(n) PROVE IInv'
    BY <2>4, BeginConWriteStep
  <2>5. CASE WriteElsewhere
    BY <2>5, WriteElsewhereStep
  <2>6. CASE ShowChar
    BY <2>6, ShowCharStep
  <2>7. CASE EndConWrite
    BY <2>7, EndConWriteStep
  <2>8. CASE BreakConWrite
    BY <2>8, BreakConWriteStep
  <2>9. CASE Tick
    BY <2>9, TickStep
  <2>10. CASE NormalLoop
    BY <2>10, NormalLoopStep
  <2>11. CASE UNCHANGED vars
    BY <2>11, StutterStep
  <2> QED BY <2>1, <2>2, <2>3, <2>4, <2>5, <2>6, <2>7, <2>8, <2>9, <2>10,
             <2>11 DEF Next
<1> QED BY <1>1, <1>2, PTL DEF Spec

\* The variables keep their types and the buffer stays below its limit
\* between two hooks (host_control_protocol.cpp:475).
THEOREM TypeCorrect == Spec => []TypeOK
<1>1. IInv => TypeOK
  BY DEF IInv
<1> QED BY <1>1, Invariance, PTL

\* For every size of the buffer, age limit and depth of nesting: nothing the
\* console shows is lost, repeated or reordered on its way to the client, as
\* long as no handler writes inside a write and no break ends one
\* (dos_files.cpp:865-876, host_control.cpp:2197-2244).
THEOREM CaptureIsExact == Spec => []CapturedIsShown
<1>1. IInv => CapturedIsShown
  BY DEF IInv, Accounting
<1> QED BY <1>1, Invariance, PTL

\* All output of a request is sent before its result
\* (host_control.cpp:1562-1571).
THEOREM ResultComesLast == Spec => []OutputBeforeResult
<1>1. IInv => OutputBeforeResult
  BY DEF IInv, Accounting
<1> QED BY <1>1, Invariance, PTL

\* Whatever handlers and breaks do, output is never attributed to another
\* request (host_control.cpp:1536).
THEOREM OutputIsAttributed == Spec => []EventsCarryTheirRequest
<1>1. IInv => EventsCarryTheirRequest
  BY DEF IInv, Attribution
<1> QED BY <1>1, Invariance, PTL

\* However slowly output trickles in, after a round of the emulator loop no
\* buffered byte is older than the limit (host_control_protocol.cpp:463-480).
THEOREM OutputIsPrompt == Spec => []NoByteHeldPastLimit
<1>1. IInv => NoByteHeldPastLimit
  <2> SUFFICES ASSUME IInv, Running, polled, NEW i \in 1 .. Len(captured_at)
               PROVE  now - captured_at[i] < BufferedOutputMaxMs
    BY DEF NoByteHeldPastLimit
  <2>1. buffered_output.bytes # <<>>
    <3>1. Len(captured_at) # 0 /\ Len(<<>>) = 0
      OBVIOUS
    <3> QED BY <3>1 DEF IInv, Ages
  <2>2. /\ now - buffered_output.first_byte_ms < BufferedOutputMaxMs
        /\ captured_at[i] \in buffered_output.first_byte_ms .. now
    BY <2>1 DEF IInv, Ages
  <2>3. now \in Nat /\ buffered_output.first_byte_ms \in Nat
    BY DEF IInv, TypeOK
  <2> QED BY <2>2, <2>3, CaptureAssumption
<1> QED BY <1>1, Invariance, PTL
=============================================================================
