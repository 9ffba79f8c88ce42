------------------------ MODULE WorkflowClientProofs ------------------------
(***************************************************************************)
(* Every value of every variable is what TypeOK says, and a workflow that  *)
(* succeeds has seen every request it sent succeed: for all recipes.       *)
(***************************************************************************)
EXTENDS WorkflowClientProps, TLAPS

\* What the operators on sequences return.
LEMMA SeqFacts ==
  ASSUME NEW S, NEW s \in Seq(S)
  PROVE  /\ Len(s) \in Nat /\ DOMAIN s = 1..Len(s)
         /\ \A i \in 1..Len(s) : s[i] \in S
  OBVIOUS

LEMMA TailFacts ==
  ASSUME NEW S, NEW s \in Seq(S), s # <<>>
  PROVE  /\ Head(s) = s[1] /\ s[1] \in S /\ 1 \in 1..Len(s)
         /\ Tail(s) \in Seq(S) /\ Len(Tail(s)) = Len(s) - 1
         /\ \A i \in 1..(Len(s) - 1) : Tail(s)[i] = s[i + 1]
  OBVIOUS

LEMMA AppendFacts ==
  ASSUME NEW S, NEW s \in Seq(S), NEW e \in S
  PROVE  /\ Append(s, e) \in Seq(S) /\ Len(Append(s, e)) = Len(s) + 1
         /\ \A i \in 1..Len(s) : Append(s, e)[i] = s[i]
         /\ Append(s, e)[Len(s) + 1] = e
  OBVIOUS

LEMMA SubSeqFacts ==
  ASSUME NEW S, NEW s \in Seq(S), NEW m \in 1..(Len(s) + 1), NEW n \in 0..Len(s),
         m <= n + 1
  PROVE  /\ SubSeq(s, m, n) \in Seq(S) /\ Len(SubSeq(s, m, n)) = n + 1 - m
         /\ \A i \in 1..(n + 1 - m) : SubSeq(s, m, n)[i] = s[m + i - 1]
  OBVIOUS

LEMMA RemoveAtFacts ==
  ASSUME NEW S, NEW s \in Seq(S), NEW n \in 1..Len(s)
  PROVE  RemoveAt(s, n) \in Seq(S)
<1>1. Len(s) \in Nat
  BY SeqFacts
<1>2. SubSeq(s, 1, n - 1) \in Seq(S) /\ SubSeq(s, n + 1, Len(s)) \in Seq(S)
  BY <1>1, SubSeqFacts
<1> QED
  BY <1>2 DEF RemoveAt

(***************************************************************************)
(* The calls of run_steps: only the recipe's own is not nested in an exec, *)
(* and every other has a step to go on with once the call above it returns.*)
(***************************************************************************)
WellStacked(calls, n) ==
  /\ calls \in Seq(Calls) /\ calls # <<>>
  /\ \A k \in 1..Len(calls) :
        calls[k].id \in 0..n /\ calls[k].at >= 1 /\ (calls[k].id = 0 <=> k = 1)
  /\ \A k \in 1..(Len(calls) - 1) : calls[k].at <= Len(calls[k].steps)

Nested(calls, id) == \E k \in 1..Len(calls) : calls[k].id = id

\* In the middle of a step, or at the end of the recipe with nothing open.
StackInv ==
  /\ WellStacked(stack, Len(ops)) /\ awaited \in 0..Len(ops)
  /\ mode = "run" => stack[Len(stack)].at <= Len(stack[Len(stack)].steps)
  /\ mode = "done" => Len(stack) = 1
  /\ mode \in {"ready", "done"} => awaited = 0

Good(id) == id \in DOMAIN completed /\ Validates(completed[id])

\* A request the client is neither waiting for nor going to has succeeded.
Accounted == \A id \in 1..Len(ops) : Good(id) \/ id = awaited \/ Nested(stack, id)

Completion(e) == e.id # 0 /\ e.event # "output"

\* One completion at the most: remembered, on its way, or to come from the queue.
AnsweredOnce ==
  /\ DOMAIN completed \subseteq 1..taken
  /\ \A i \in 1..Len(wire) : wire[i].id \in 0..taken
  /\ \A i \in 1..Len(wire) : Completion(wire[i]) =>
        /\ wire[i].id \notin DOMAIN completed
        /\ \A j \in 1..Len(wire) : Completion(wire[j]) /\ wire[j].id = wire[i].id => j = i
        /\ \A j \in 1..Len(queue) : queue[j] # wire[i].id
  /\ \A i \in 1..Len(queue) :
        /\ queue[i] \notin DOMAIN completed
        /\ \A j \in 1..Len(queue) : queue[j] = queue[i] => j = i

Types == TypeOK /\ queue \in Seq(Nat)

IInv == Types /\ StackInv /\ Accounted /\ AnsweredOnce

-----------------------------------------------------------------------------
\* After a step the calls are still stacked as they should be, and the id of
\* the exec whose nested steps are done is the one awaited.
LEMMA ResumeFacts ==
  ASSUME NEW n \in Nat, NEW c, WellStacked(c, n), Resume(c)
  PROVE  /\ WellStacked(stack', n) /\ awaited' \in 0..n /\ mode' \in {"run", "done"}
         /\ mode' = "run" => stack'[Len(stack')].at <= Len(stack'[Len(stack')].steps)
         /\ mode' = "done" => Len(stack') = 1 /\ awaited' = 0
         /\ \A id \in 1..n : Nested(c, id) => id = awaited' \/ Nested(stack', id)
<1> DEFINE call == c[Len(c)]
           more == call.at <= Len(call.steps)
<1>1. /\ Len(c) \in Nat \ {0} /\ Last(c) = call /\ call \in Calls
      /\ \A k \in 1..Len(c) : c[k] \in Calls
  BY DEF WellStacked, Last
<1>2. /\ call.id \in 0..n /\ call.at >= 1 /\ (call.id = 0 <=> Len(c) = 1)
      /\ call.at \in Nat /\ Len(call.steps) \in Nat
  <2>1. call.at \in Nat /\ call.id \in Nat /\ call.steps \in Seq(Steps)
    BY <1>1 DEF Calls
  <2>2. Len(c) \in 1..Len(c)
    BY <1>1
  <2>3. call.id \in 0..n /\ call.at >= 1 /\ (call.id = 0 <=> Len(c) = 1)
    BY <2>2 DEF WellStacked
  <2> QED
    BY <2>1, <2>3, SeqFacts
<1>3. CASE more /\ stack' = c /\ awaited' = 0 /\ mode' = "run"
  BY <1>1, <1>2, <1>3
<1>4. CASE ~more /\ call.id = 0 /\ stack' = c /\ awaited' = 0 /\ mode' = "done"
  BY <1>1, <1>2, <1>4
<1>5. CASE ~more /\ call.id # 0 /\ stack' = Front(c) /\ awaited' = call.id /\ mode' = "run"
  <2>1. Len(c) - 1 \in Nat \ {0}
    BY <1>1, <1>2, <1>5
  <2>2. /\ stack' \in Seq(Calls) /\ Len(stack') = Len(c) - 1 /\ stack' # <<>>
        /\ \A k \in 1..(Len(c) - 1) : stack'[k] = c[k]
    <3> DEFINE m == Len(c) - 1
               s == SubSeq(c, 1, m)
    <3>1. stack' = s /\ c \in Seq(Calls)
      BY <1>5 DEF Front, WellStacked
    <3>2. m \in 1..Len(c) /\ m \in 0..Len(c) /\ 1 \in 1..(Len(c) + 1) /\ 1 <= m + 1
      BY <2>1
    <3> HIDE DEF m
    <3>3. /\ s \in Seq(Calls) /\ Len(s) = m + 1 - 1
          /\ \A k \in 1..(m + 1 - 1) : s[k] = c[1 + k - 1]
      BY <3>1, <3>2, SubSeqFacts, Zenon
    <3> HIDE DEF s
    <3>4. /\ s \in Seq(Calls) /\ Len(s) = m /\ s # <<>>
          /\ \A k \in 1..m : s[k] = c[k]
      BY <3>2, <3>3
    <3> QED
      BY <3>1, <3>4 DEF m
  <2>3. WellStacked(stack', n)
    BY <1>1, <2>1, <2>2 DEF WellStacked
  <2>4. stack'[Len(stack')].at <= Len(stack'[Len(stack')].steps)
    BY <2>1, <2>2 DEF WellStacked
  <2>5. ASSUME NEW id \in 1..n, Nested(c, id)
        PROVE  id = awaited' \/ Nested(stack', id)
    <3>1. PICK k \in 1..Len(c) : c[k].id = id
      BY <2>5 DEF Nested
    <3>2. CASE k = Len(c)
      BY <1>5, <3>1, <3>2
    <3>3. CASE k # Len(c)
      BY <1>1, <2>2, <3>1, <3>3 DEF Nested
    <3> QED
      BY <3>2, <3>3
  <2> QED
    BY <1>2, <1>5, <2>3, <2>4, <2>5
<1> QED
  BY <1>1, <1>3, <1>4, <1>5 DEF Resume

\* While a workflow runs its innermost call is at one of its steps.
LEMMA AtAStep ==
  ASSUME Types, StackInv, mode = "run"
  PROVE  /\ Len(stack) \in Nat \ {0} /\ Caller = stack[Len(stack)] /\ Caller \in Calls
         /\ Caller.at \in 1..Len(Caller.steps) /\ Step \in Steps
<1>1. /\ Len(stack) \in Nat \ {0} /\ Caller = stack[Len(stack)] /\ Caller \in Calls
      /\ Caller.at >= 1 /\ Caller.at <= Len(Caller.steps)
  BY DEF StackInv, WellStacked, Caller, Last
<1>2. Caller.steps \in Seq(Steps) /\ Caller.at \in Nat
  BY <1>1 DEF Calls
<1>3. Caller.at \in 1..Len(Caller.steps)
  BY <1>1, <1>2
<1> QED
  BY <1>1, <1>2, <1>3, SeqFacts DEF Step

\* Going on after a step, whatever is awaited meanwhile.
LEMMA GoFacts ==
  ASSUME Types, StackInv, mode = "run", Go
  PROVE  /\ WellStacked(stack', Len(ops)) /\ awaited' \in 0..Len(ops)
         /\ mode' \in {"run", "done"}
         /\ mode' = "run" => stack'[Len(stack')].at <= Len(stack'[Len(stack')].steps)
         /\ mode' = "done" => Len(stack') = 1 /\ awaited' = 0
         /\ \A id \in 1..Len(ops) :
               Nested(stack, id) => id = awaited' \/ Nested(stack', id)
<1> DEFINE c == [stack EXCEPT ![Len(stack)].at = @ + 1]
<1>1. /\ Len(stack) \in Nat \ {0} /\ Len(ops) \in Nat /\ stack \in Seq(Calls)
      /\ stack[Len(stack)] \in Calls
  BY AtAStep DEF Types, TypeOK
<1>2. /\ c \in Seq(Calls) /\ c # <<>> /\ Len(c) = Len(stack)
      /\ \A k \in 1..(Len(stack) - 1) : c[k] = stack[k]
      /\ c[Len(stack)].id = stack[Len(stack)].id
      /\ c[Len(stack)].at = stack[Len(stack)].at + 1
  <2> DEFINE call == stack[Len(stack)]
             next == [call EXCEPT !.at = @ + 1]
             m == Len(stack)
  <2>0. call \in Calls
    BY <1>1
  <2>2. c = [stack EXCEPT ![m] = next]
    BY <1>1
  <2> HIDE DEF call
  <2>1. next \in Calls /\ next.id = call.id /\ next.at = call.at + 1
    BY <2>0 DEF Calls
  <2> USE DEF call
  <2>3. m \in 1..Len(stack)
    BY <1>1
  <2> HIDE DEF c, next
  <2>4. /\ c \in Seq(Calls) /\ Len(c) = Len(stack) /\ c[m] = next
        /\ \A k \in 1..Len(stack) : k # m => c[k] = stack[k]
    BY <1>1, <2>1, <2>2, <2>3
  <2> QED
    BY <1>1, <2>1, <2>4
<1>3. \A k \in 1..Len(stack) : c[k].id = stack[k].id /\ c[k].at >= 1
  BY <1>1, <1>2 DEF StackInv, WellStacked, Calls
<1>4. WellStacked(c, Len(ops))
  BY <1>1, <1>2, <1>3 DEF StackInv, WellStacked
<1>5. \A id \in 1..Len(ops) : Nested(stack, id) => Nested(c, id)
  BY <1>2, <1>3 DEF Nested
<1>6. Resume(c)
  BY DEF Go
<1> HIDE DEF c
<1> QED
  BY <1>1, <1>4, <1>5, <1>6, ResumeFacts

-----------------------------------------------------------------------------
\* A completion is remembered once, and nothing remembered is overwritten.
LEMMA ReadFacts ==
  ASSUME Types, AnsweredOnce, wire # <<>>, wire' = Tail(wire),
         completed' = Remember(Head(wire)), UNCHANGED <<ops, taken, queue>>
  PROVE  /\ Head(wire) \in Events /\ wire' \in Seq(Events) /\ AnsweredOnce'
         /\ \A id \in DOMAIN completed' :
               /\ completed'[id].id = id
               /\ completed'[id].event \in {"error", Answer(ops[id])}
         /\ \A id : Good(id) => Good(id)'
         /\ \A id \in 1..Len(ops) : CompletesRequest(Head(wire), id) =>
               id \in DOMAIN completed' /\ completed'[id] = Head(wire)
<1> DEFINE e == Head(wire)
           kept == e.id \in 1..Len(ops) /\ CompletesRequest(e, e.id)
<1>1. /\ e = wire[1] /\ e \in Events /\ 1 \in 1..Len(wire) /\ Len(wire) \in Nat
      /\ wire' \in Seq(Events) /\ Len(wire') = Len(wire) - 1
      /\ \A i \in 1..(Len(wire) - 1) : wire'[i] = wire[i + 1]
  BY TailFacts, SeqFacts DEF Types, TypeOK
<1>2. kept => Completion(e)
  <2>1. ops \in Seq(Ops)
    BY DEF Types, TypeOK
  <2>2. kept => ops[e.id] \in Ops /\ e.event \in {"error", Answer(ops[e.id])} /\ e.id # 0
    BY <2>1, SeqFacts DEF CompletesRequest
  <2> QED
    BY <2>2 DEF Answer, Ops, Completion
<1>3. /\ \A i \in 1..Len(wire') : Completion(wire'[i]) =>
            /\ wire'[i].id \notin DOMAIN completed /\ (kept => wire'[i].id # e.id)
            /\ \A j \in 1..Len(wire') :
                  Completion(wire'[j]) /\ wire'[j].id = wire'[i].id => j = i
            /\ \A j \in 1..Len(queue) : queue[j] # wire'[i].id
      /\ \A i \in 1..Len(wire') : wire'[i].id \in 0..taken
  <2>1. ASSUME NEW i \in 1..Len(wire')
        PROVE  i + 1 \in 1..Len(wire) /\ i + 1 # 1 /\ wire'[i] = wire[i + 1]
    BY <1>1
  <2>2. ASSUME NEW i \in 1..Len(wire'), Completion(wire'[i])
        PROVE  /\ wire'[i].id \notin DOMAIN completed /\ (kept => wire'[i].id # e.id)
               /\ \A j \in 1..Len(queue) : queue[j] # wire'[i].id
    BY <1>1, <1>2, <2>1, <2>2 DEF AnsweredOnce
  <2>3. ASSUME NEW i \in 1..Len(wire'), Completion(wire'[i]),
               NEW j \in 1..Len(wire'), Completion(wire'[j]), wire'[j].id = wire'[i].id
        PROVE  j = i
    <3>1. j + 1 = i + 1
      BY <2>1, <2>3 DEF AnsweredOnce
    <3> QED
      BY <3>1
  <2>4. \A i \in 1..Len(wire') : wire'[i].id \in 0..taken
    BY <2>1 DEF AnsweredOnce
  <2> QED
    BY <2>2, <2>3, <2>4
<1>4. CASE kept
  <2>1. completed' = Kept(e)
    BY <1>4 DEF Remember
  <2>2. /\ DOMAIN completed' = DOMAIN completed \cup {e.id} /\ completed'[e.id] = e
        /\ \A id \in DOMAIN completed : id # e.id => completed'[id] = completed[id]
    BY <2>1 DEF Kept
  <2>3. /\ e.id \notin DOMAIN completed /\ e.id \in 1..taken
        /\ \A j \in 1..Len(queue) : queue[j] # e.id
    <3>1. e.id \in 0..taken /\ e.id # 0
      BY <1>1, <1>2, <1>4 DEF AnsweredOnce, Completion
    <3>2. taken \in Nat
      BY DEF Types, TypeOK
    <3> QED
      BY <1>1, <1>2, <1>4, <3>1, <3>2 DEF AnsweredOnce
  <2>4. AnsweredOnce'
    BY <1>3, <1>4, <2>2, <2>3 DEF AnsweredOnce, Completion
  <2>5. ASSUME NEW id \in DOMAIN completed'
        PROVE  completed'[id].id = id /\ completed'[id].event \in {"error", Answer(ops[id])}
    <3>1. CASE id = e.id
      BY <1>4, <2>2, <3>1 DEF CompletesRequest
    <3>2. CASE id # e.id
      BY <2>2, <3>2 DEF Types, TypeOK
    <3> QED
      BY <3>1, <3>2
  <2>6. \A id : Good(id) => Good(id)'
    BY <2>2, <2>3 DEF Good, Validates
  <2>7. \A id \in 1..Len(ops) : CompletesRequest(e, id) =>
           id \in DOMAIN completed' /\ completed'[id] = e
    BY <2>2 DEF CompletesRequest
  <2> QED
    BY <1>1, <2>4, <2>5, <2>6, <2>7
<1>5. CASE ~kept
  <2>1. completed' = completed
    BY <1>5 DEF Remember
  <2>2. AnsweredOnce'
    BY <1>3, <2>1 DEF AnsweredOnce, Completion
  <2>3. \A id \in 1..Len(ops) : ~CompletesRequest(e, id)
    BY <1>5 DEF CompletesRequest
  <2>4. \A id : Good(id) => Good(id)'
    BY <2>1 DEF Good, Validates
  <2> QED
    BY <1>1, <2>1, <2>2, <2>3, <2>4 DEF Types, TypeOK
<1> QED
  BY <1>4, <1>5

-----------------------------------------------------------------------------
Place == StackInv /\ Accounted /\ mode \in {"ready", "run", "done", "failed"}

\* A step ends and the client goes on: if a completion was awaited it is good.
LEMMA GoesOn ==
  ASSUME IInv, mode = "run", Go, UNCHANGED ops, \A id : Good(id) => Good(id)',
         \A id \in 1..Len(ops) : id = awaited => Good(id)'
  PROVE  Place'
<1>1. Types /\ StackInv /\ Accounted
  BY DEF IInv
<1>2. /\ WellStacked(stack', Len(ops)) /\ awaited' \in 0..Len(ops)
      /\ mode' \in {"run", "done"}
      /\ mode' = "run" => stack'[Len(stack')].at <= Len(stack'[Len(stack')].steps)
      /\ mode' = "done" => Len(stack') = 1 /\ awaited' = 0
      /\ \A id \in 1..Len(ops) :
            Nested(stack, id) => id = awaited' \/ Nested(stack', id)
  BY <1>1, GoFacts, Zenon
<1>3. StackInv'
  BY <1>2 DEF StackInv
<1>4. ASSUME NEW id \in 1..Len(ops)
      PROVE  Good(id)' \/ id = awaited' \/ Nested(stack', id)
  <2>1. Good(id) \/ id = awaited \/ Nested(stack, id)
    BY <1>1 DEF Accounted
  <2> QED
    BY <1>2, <2>1
<1>5. Accounted'
  <2>1. \A id \in 1..Len(ops) : Good(id)' \/ id = awaited' \/ Nested(stack, id)'
    BY <1>4 DEF Nested
  <2>2. ops' = ops
    OBVIOUS
  <2> QED
    BY <2>1, <2>2 DEF Accounted
<1> QED
  BY <1>2, <1>3, <1>5 DEF Place

\* Nothing but the mode changes, and the client was not done.
LEMMA GoesNowhere ==
  ASSUME IInv, UNCHANGED <<place, ops>>, \A id : Good(id) => Good(id)',
         mode' = mode \/ (mode # "done" /\ mode' = "failed")
  PROVE  Place'
<1>1. /\ stack' = stack /\ awaited' = awaited /\ ops' = ops /\ StackInv /\ Accounted
      /\ mode \in {"ready", "run", "done", "failed"}
  BY DEF IInv, Types, TypeOK, place
<1>2. StackInv'
  BY <1>1 DEF StackInv
<1>3. Accounted'
  <2>1. \A id \in 1..Len(ops) : Good(id)' \/ id = awaited' \/ Nested(stack, id)'
    BY <1>1 DEF Accounted, Nested
  <2> QED
    BY <1>1, <2>1 DEF Accounted
<1> QED
  BY <1>1, <1>2, <1>3 DEF Place

\* What the client leaves alone when it does not read.
LEMMA NothingRead ==
  ASSUME IInv, UNCHANGED <<completed, session_ended, wire, server>>, Place', UNCHANGED ops,
         pending' \in Seq(Events)
  PROVE  IInv'
<1>1. AnsweredOnce'
  BY DEF IInv, AnsweredOnce, Completion, server
<1>2. stack' \in Seq(Calls) /\ stack' # <<>> /\ awaited' \in 0..Len(ops')
  BY DEF Place, StackInv, WellStacked
<1>3. Types'
  BY <1>2 DEF IInv, Types, TypeOK, Place, server
<1> QED
  BY <1>1, <1>3 DEF IInv, Place

LEMMA SendRequestKeeps ==
  ASSUME IInv, SendRequest
  PROVE  IInv'
<1>1. /\ Types /\ StackInv /\ Accounted /\ AnsweredOnce /\ mode = "run" /\ awaited = 0
      /\ pending' = pending /\ completed' = completed /\ session_ended' = session_ended
      /\ wire' = wire /\ taken' = taken /\ queue' = queue /\ outputs' = outputs
      /\ open' = open
  BY DEF IInv, SendRequest, Running, server
<1>2. /\ \A id : Good(id) => Good(id)'
      /\ pending' \in Seq(Events)
  BY <1>1 DEF Good, Validates, Types, TypeOK
<1>3. CASE Fail /\ UNCHANGED ops
  <2>1. Place'
    BY <1>1, <1>2, <1>3, GoesNowhere DEF Fail
  <2> QED
    BY <1>1, <1>2, <1>3, <2>1, NothingRead DEF server
<1>4. ASSUME NEW op \in Ops, Send(op)
      PROVE  IInv'
  <2> DEFINE n == Len(ops) + 1
  <2>1. /\ ops' \in Seq(Ops) /\ Len(ops') = n /\ Len(ops) \in Nat /\ n \in Nat
        /\ \A id \in 1..Len(ops) : ops'[id] = ops[id]
    <3>1. ops \in Seq(Ops) /\ ops' = Append(ops, op)
      BY <1>1, <1>4 DEF Send, Types, TypeOK
    <3> QED
      BY <3>1, AppendFacts, SeqFacts
  <2>2. /\ Len(stack) \in Nat \ {0} /\ Caller = stack[Len(stack)] /\ Caller \in Calls
        /\ Caller.at \in 1..Len(Caller.steps) /\ Step \in Steps /\ stack \in Seq(Calls)
    BY <1>1, AtAStep DEF Types, TypeOK
  <2> HIDE DEF n
  <2>3. Place'
    <3>1. CASE Step.action = "exec_interactive"
      <4> DEFINE call == Call(Step.steps, n)
                 c == Append(stack, call)
      <4>1. Resume(c)
        BY <1>4, <2>1, <3>1 DEF Send
      <4>2. call \in Calls /\ call.at = 1 /\ call.id = n
        <5>1. Step.steps \in Seq(Steps)
          BY <2>2, <3>1, RecipeAssumption
        <5> QED
          BY <2>1, <5>1 DEF Call, Calls
      <4> HIDE DEF call
      <4>3. /\ c \in Seq(Calls) /\ Len(c) = Len(stack) + 1 /\ c # <<>>
            /\ \A k \in 1..Len(stack) : c[k] = stack[k]
            /\ c[Len(stack) + 1] = call
        BY <2>2, <4>2
      <4> HIDE DEF c
      <4>4. \A k \in 1..Len(c) : c[k].id \in 0..n /\ c[k].at >= 1 /\ (c[k].id = 0 <=> k = 1)
        <5>1. \A k \in 1..Len(stack) :
                 c[k].id \in 0..n /\ c[k].at >= 1 /\ (c[k].id = 0 <=> k = 1)
          <6>1. \A k \in 1..Len(stack) : /\ stack[k].id \in 0..Len(ops) /\ stack[k].at >= 1
                                         /\ (stack[k].id = 0 <=> k = 1)
            BY <1>1 DEF StackInv, WellStacked
          <6>2. \A m : m \in 0..Len(ops) => m \in 0..n
            BY <2>1 DEF n
          <6> QED
            BY <4>3, <6>1, <6>2
        <5>2. n \in 0..n /\ n # 0
          BY <2>1 DEF n
        <5> QED
          BY <2>2, <4>2, <4>3, <5>1, <5>2
      <4>5. \A k \in 1..(Len(c) - 1) : c[k].at <= Len(c[k].steps)
        <5>1. \A k \in 1..(Len(stack) - 1) : stack[k].at <= Len(stack[k].steps)
          BY <1>1 DEF StackInv, WellStacked
        <5>2. stack[Len(stack)].at <= Len(stack[Len(stack)].steps)
          BY <1>1 DEF StackInv
        <5> QED
          BY <2>2, <4>3, <5>1, <5>2
      <4>6. WellStacked(c, n)
        BY <4>3, <4>4, <4>5 DEF WellStacked
      <4>7. /\ WellStacked(stack', n) /\ awaited' \in 0..n /\ mode' \in {"run", "done"}
            /\ mode' = "run" => stack'[Len(stack')].at <= Len(stack'[Len(stack')].steps)
            /\ mode' = "done" => Len(stack') = 1 /\ awaited' = 0
            /\ \A id \in 1..n : Nested(c, id) => id = awaited' \/ Nested(stack', id)
        BY <2>1, <4>1, <4>6, ResumeFacts, Zenon
      <4>8. StackInv'
        BY <2>1, <4>7 DEF StackInv
      <4>9. ASSUME NEW id \in 1..n
            PROVE  Good(id)' \/ id = awaited' \/ Nested(stack', id)
        <5>1. CASE id = n
          <6>1. Nested(c, id)
            BY <2>2, <4>2, <4>3, <5>1 DEF Nested
          <6> QED
            BY <4>7, <6>1
        <5>2. CASE id # n
          <6>1. id \in 1..Len(ops) /\ id # 0
            BY <2>1, <5>2 DEF n
          <6>2. Good(id) \/ Nested(stack, id)
            BY <1>1, <6>1 DEF Accounted
          <6>3. Nested(stack, id) => Nested(c, id)
            BY <2>2, <4>3 DEF Nested
          <6> QED
            BY <1>2, <4>7, <6>2, <6>3
        <5> QED
          BY <5>1, <5>2
      <4>10. Accounted'
        BY <2>1, <4>9 DEF Accounted, Nested
      <4> QED
        BY <4>7, <4>8, <4>10 DEF Place
    <3>2. CASE Step.action # "exec_interactive"
      <4>1. awaited' = n /\ stack' = stack /\ mode' = mode
        BY <1>4, <2>1, <3>2 DEF Send
      <4>2. StackInv'
        <5>1. \A m : m \in 0..Len(ops) => m \in 0..n
          BY <2>1 DEF n
        <5>2. n \in 0..n
          BY <2>1 DEF n
        <5>3. WellStacked(stack, n)
          BY <1>1, <5>1 DEF StackInv, WellStacked
        <5> QED
          BY <1>1, <2>1, <4>1, <5>2, <5>3 DEF StackInv
      <4>3. ASSUME NEW id \in 1..n
            PROVE  Good(id)' \/ id = awaited' \/ Nested(stack', id)
        <5>1. CASE id # n
          <6>1. id \in 1..Len(ops) /\ id # 0
            BY <2>1, <5>1 DEF n
          <6> QED
            BY <1>1, <1>2, <4>1, <6>1 DEF Accounted
        <5> QED
          BY <4>1, <5>1
      <4>4. Accounted'
        BY <2>1, <4>3 DEF Accounted, Nested
      <4> QED
        BY <1>1, <4>1, <4>2, <4>4 DEF Place
    <3> QED
      BY <3>1, <3>2
  <2>4. AnsweredOnce'
    BY <1>1 DEF AnsweredOnce, Completion
  <2>5. Types'
    <3>1. \A m : m \in 1..Len(ops) => m \in 1..Len(ops')
      BY <2>1 DEF n
    <3>2. taken' \in 0..Len(ops')
      BY <1>1, <2>1 DEF Types, TypeOK, n
    <3>3. \A id \in DOMAIN completed' :
             completed'[id].id = id /\ completed'[id].event \in {"error", Answer(ops'[id])}
      BY <1>1, <2>1 DEF Types, TypeOK, Answer
    <3>4. stack' \in Seq(Calls) /\ stack' # <<>> /\ awaited' \in 0..Len(ops')
      BY <2>3 DEF Place, StackInv, WellStacked
    <3>5. /\ mode' \in {"ready", "run", "done", "failed"} /\ ops' \in Seq(Ops)
          /\ pending' \in Seq(Events) /\ wire' \in Seq(Events)
          /\ DOMAIN completed' \subseteq 1..Len(ops') /\ session_ended' \in BOOLEAN
          /\ open' \in BOOLEAN /\ outputs' \in 0..MaxOutput /\ queue' \in Seq(Nat)
          /\ \A i \in 1..Len(queue') : queue'[i] \in 1..taken'
      BY <1>1, <1>2, <2>1, <2>3, <3>1 DEF Types, TypeOK, Place
    <3> QED
      BY <3>2, <3>3, <3>4, <3>5 DEF Types, TypeOK, Answer
  <2> QED
    BY <2>3, <2>4, <2>5 DEF IInv, Place
<1>5. CASE Send(IF Step.action = "request" THEN Step.op ELSE "exec")
  <2>1. (IF Step.action = "request" THEN Step.op ELSE "exec") \in Ops
    <3>1. Step \in Steps
      BY <1>1, AtAStep
    <3>2. Step.action = "request" => Step.op \in Ops
      BY <3>1, RecipeAssumption
    <3> QED
      BY <3>2 DEF Ops
  <2> QED
    BY <1>4, <1>5, <2>1
<1> QED
  BY <1>3, <1>5 DEF SendRequest

LEMMA AwaitCompletedKeeps ==
  ASSUME IInv, AwaitCompleted
  PROVE  IInv'
<1>1. /\ UNCHANGED <<ops, completed, pending, session_ended, wire, server>>
      /\ mode = "run" /\ awaited \in DOMAIN completed /\ pending \in Seq(Events)
      /\ \A id : Good(id) => Good(id)'
  BY DEF AwaitCompleted, Awaiting, Running, IInv, Types, TypeOK, Good, Validates
<1>2. Place'
  <2>1. CASE Validates(completed[awaited])
    <3>1. Go /\ Good(awaited)
      BY <1>1, <2>1 DEF AwaitCompleted, Validate, Good
    <3> QED
      BY <1>1, <3>1, GoesOn
  <2>2. CASE ~Validates(completed[awaited])
    <3>1. Fail
      BY <2>2 DEF AwaitCompleted, Validate
    <3> QED
      BY <1>1, <3>1, GoesNowhere DEF Fail
  <2> QED
    BY <2>1, <2>2
<1> QED
  BY <1>1, <1>2, NothingRead

LEMMA MatchPendingKeeps ==
  ASSUME IInv, MatchPending
  PROVE  IInv'
<1>1. /\ UNCHANGED <<ops, completed, session_ended, wire, server>> /\ Go
      /\ mode = "run" /\ awaited = 0 /\ pending \in Seq(Events)
      /\ \A id : Good(id) => Good(id)'
  BY DEF MatchPending, Matching, Running, IInv, Types, TypeOK, Good, Validates
<1>2. Place'
  BY <1>1, GoesOn
<1>3. pending' \in Seq(Events)
  <2>1. PICK i \in 1..Len(pending) : pending' = RemoveAt(pending, i)
    BY DEF MatchPending
  <2> QED
    BY <1>1, <2>1, RemoveAtFacts
<1> QED
  BY <1>1, <1>2, <1>3, NothingRead

LEMMA ReadEventKeeps ==
  ASSUME IInv, ReadEvent
  PROVE  IInv'
<1> DEFINE e == Head(wire)
<1>1. /\ Types /\ StackInv /\ Accounted /\ AnsweredOnce /\ Reading /\ wire # <<>>
      /\ wire' = Tail(wire) /\ completed' = Remember(e)
      /\ session_ended' = (session_ended \/ (e.event = "result" /\ e.exit))
      /\ ops' = ops /\ taken' = taken /\ queue' = queue /\ outputs' = outputs
      /\ open' = open /\ pending \in Seq(Events)
  BY DEF IInv, ReadEvent, server, Types, TypeOK
<1>2. /\ e \in Events /\ wire' \in Seq(Events) /\ AnsweredOnce'
      /\ \A id \in DOMAIN completed' :
            /\ completed'[id].id = id
            /\ completed'[id].event \in {"error", Answer(ops[id])}
      /\ \A id : Good(id) => Good(id)'
      /\ \A id \in 1..Len(ops) : CompletesRequest(e, id) =>
            id \in DOMAIN completed' /\ completed'[id] = e
  BY <1>1, ReadFacts
<1>3. Append(pending, e) \in Seq(Events)
  BY <1>1, <1>2, AppendFacts
<1>4. mode # "done"
  BY <1>1 DEF Reading, Awaiting, Matching, Running
<1>5. Place' /\ pending' \in Seq(Events)
  <2>1. CASE pending' = Append(pending, e) /\ UNCHANGED <<place, mode>>
    <3>1. Place'
      BY <1>1, <1>2, <2>1, GoesNowhere
    <3> QED
      BY <1>3, <2>1, <3>1
  <2>2. CASE mode = "ready" /\ Resume(stack) /\ UNCHANGED pending
    <3>1. Place'
      <4>1. WellStacked(stack, Len(ops)) /\ awaited = 0 /\ Len(ops) \in Nat
        BY <1>1, <2>2 DEF StackInv, Types, TypeOK
      <4>2. /\ WellStacked(stack', Len(ops)) /\ awaited' \in 0..Len(ops)
            /\ mode' \in {"run", "done"}
            /\ mode' = "run" => stack'[Len(stack')].at <= Len(stack'[Len(stack')].steps)
            /\ mode' = "done" => Len(stack') = 1 /\ awaited' = 0
            /\ \A id \in 1..Len(ops) :
                  Nested(stack, id) => id = awaited' \/ Nested(stack', id)
        BY <2>2, <4>1, ResumeFacts, Zenon
      <4>3. \A id \in 1..Len(ops) : Good(id) \/ Nested(stack, id)
        BY <1>1, <4>1 DEF Accounted
      <4>4. \A id \in 1..Len(ops) : Good(id)' \/ id = awaited' \/ Nested(stack', id)
        BY <1>2, <4>2, <4>3
      <4>5. Accounted'
        BY <1>1, <4>4 DEF Accounted, Nested
      <4> QED
        BY <1>1, <4>2, <4>5 DEF Place, StackInv
    <3> QED
      BY <1>1, <2>2, <3>1
  <2>3. CASE Awaiting /\ CompletesRequest(e, awaited) /\ Validate(e) /\ UNCHANGED pending
    <3>1. ASSUME NEW id \in 1..Len(ops), id = awaited, Validates(e)
          PROVE  Good(id)'
      BY <1>2, <2>3, <3>1 DEF Good, Validates
    <3>2. CASE Validates(e)
      <4>1. Go
        BY <2>3, <3>2 DEF Validate
      <4>2. mode = "run"
        BY <2>3 DEF Awaiting, Running
      <4>3. Place'
        BY <1>1, <1>2, <3>1, <3>2, <4>1, <4>2, GoesOn
      <4> QED
        BY <1>1, <2>3, <4>3
    <3>3. CASE ~Validates(e)
      <4>1. Fail
        BY <2>3, <3>3 DEF Validate
      <4>2. Place'
        BY <1>1, <1>2, <1>4, <4>1, GoesNowhere DEF Fail
      <4> QED
        BY <1>1, <2>3, <4>2
    <3> QED
      BY <3>2, <3>3
  <2>4. CASE Matching /\ Go /\ UNCHANGED pending
    <3>1. awaited = 0 /\ mode = "run"
      BY <2>4 DEF Matching, Running
    <3>2. Place'
      BY <1>1, <1>2, <2>4, <3>1, GoesOn
    <3> QED
      BY <1>1, <2>4, <3>2
  <2> QED
    <3>1. CASE mode = "ready"
      <4>1. Resume(stack) /\ UNCHANGED pending
        BY <3>1 DEF ReadEvent, Awaiting, Matching, Running
      <4> QED
        BY <2>2, <3>1, <4>1
    <3>2. CASE Awaiting
      <4>1. \/ CompletesRequest(e, awaited) /\ Validate(e) /\ UNCHANGED pending
            \/ pending' = Append(pending, e) /\ UNCHANGED <<place, mode>>
        BY <3>2 DEF ReadEvent, Awaiting, Matching, Running
      <4> QED
        BY <2>1, <2>3, <3>2, <4>1
    <3>3. CASE Matching
      <4>1. \/ Go /\ UNCHANGED pending
            \/ pending' = Append(pending, e) /\ UNCHANGED <<place, mode>>
        BY <3>3 DEF ReadEvent, Awaiting, Matching, Running
      <4> QED
        BY <2>1, <2>4, <3>3, <4>1
    <3> QED
      BY <1>1, <3>1, <3>2, <3>3 DEF Reading
<1>6. Types'
  <2>1. stack' \in Seq(Calls) /\ stack' # <<>> /\ awaited' \in 0..Len(ops')
        /\ mode' \in {"ready", "run", "done", "failed"}
    BY <1>5 DEF Place, StackInv, WellStacked
  <2>2. session_ended' \in BOOLEAN
    BY <1>1, <1>2 DEF Types, TypeOK, Events
  <2>3. DOMAIN completed' \subseteq 1..Len(ops')
    <3>1. DOMAIN completed' \subseteq 1..taken
      BY <1>1, <1>2 DEF AnsweredOnce
    <3>2. taken \in 0..Len(ops) /\ Len(ops) \in Nat
      BY <1>1 DEF Types, TypeOK
    <3>3. \A m : m \in 1..taken => m \in 1..Len(ops)
      BY <3>2
    <3> QED
      BY <1>1, <3>1, <3>3
  <2> QED
    BY <1>1, <1>2, <1>5, <2>1, <2>2, <2>3 DEF Types, TypeOK, Answer
<1> QED
  BY <1>2, <1>5, <1>6 DEF IInv, Place

LEMMA GiveUpKeeps ==
  ASSUME IInv, GiveUp
  PROVE  IInv'
<1>1. /\ UNCHANGED <<ops, completed, pending, session_ended, wire, server>> /\ Fail
      /\ pending \in Seq(Events) /\ mode # "done"
      /\ \A id : Good(id) => Good(id)'
  BY DEF GiveUp, Reading, Awaiting, Matching, Running, IInv, Types, TypeOK, Good, Validates
<1>2. Place'
  BY <1>1, GoesNowhere DEF Fail
<1> QED
  BY <1>1, <1>2, NothingRead

-----------------------------------------------------------------------------
LEMMA EventTyped ==
  ASSUME NEW kind \in Kinds, NEW id \in Nat, NEW ok \in BOOLEAN, NEW exit \in BOOLEAN
  PROVE  Event(kind, id, ok, exit) \in Events /\ Event(kind, id, ok, exit).id = id
  BY DEF Event, Events

\* What the server leaves alone, whatever it does.
LEMMA ServerOnly ==
  ASSUME IInv, UNCHANGED client
  PROVE  /\ Place' /\ completed' = completed /\ ops' = ops /\ ops \in Seq(Ops)
         /\ (Types /\ AnsweredOnce) /\ taken \in Nat /\ Len(ops) \in Nat
         /\ (/\ wire' \in Seq(Events) /\ taken' \in 0..Len(ops) /\ queue' \in Seq(Nat)
             /\ \A i \in 1..Len(queue') : queue'[i] \in 1..taken'
             /\ outputs' \in 0..MaxOutput /\ open' \in BOOLEAN) => Types'
<1>1. /\ stack' = stack /\ awaited' = awaited /\ mode' = mode /\ ops' = ops
      /\ completed' = completed /\ pending' = pending /\ session_ended' = session_ended
  BY DEF client, place
<1>2. Place'
  <2>1. \A id : Good(id) => Good(id)'
    BY <1>1 DEF Good, Validates
  <2> QED
    BY <1>1, <2>1, GoesNowhere DEF place
<1>3. Types /\ AnsweredOnce /\ ops \in Seq(Ops) /\ taken \in Nat /\ Len(ops) \in Nat
  BY DEF IInv, Types, TypeOK
<1>4. ASSUME wire' \in Seq(Events), taken' \in 0..Len(ops), queue' \in Seq(Nat),
             \A i \in 1..Len(queue') : queue'[i] \in 1..taken',
             outputs' \in 0..MaxOutput, open' \in BOOLEAN
      PROVE  Types'
  BY <1>1, <1>3, <1>4 DEF Types, TypeOK, Answer
<1> QED
  BY <1>1, <1>2, <1>3, <1>4

LEMMA TakeRequestKeeps ==
  ASSUME IInv, TakeRequest
  PROVE  IInv'
<1> DEFINE t == taken + 1
<1>1. /\ Place' /\ completed' = completed /\ ops' = ops /\ ops \in Seq(Ops)
      /\ Types /\ AnsweredOnce /\ outputs' = outputs /\ open' = open
      /\ wire \in Seq(Events) /\ queue \in Seq(Nat)
      /\ taken' = t /\ t \in 1..Len(ops) /\ t \in 0..Len(ops)
      /\ taken \in Nat /\ t \in Nat /\ Len(ops) \in Nat
  BY ServerOnly DEF TakeRequest, Types, TypeOK
<1>2. \A m : m \in 0..taken => m \in 0..t /\ m # t
  BY <1>1
<1>3. /\ \A i \in 1..Len(wire) : wire[i].id \in 0..taken
      /\ \A i \in 1..Len(queue) : queue[i] \in 0..taken /\ queue[i] # 0
      /\ DOMAIN completed \subseteq 0..taken /\ 0 \notin DOMAIN completed
  <2>1. \A m : m \in 1..taken => m \in 0..taken /\ m # 0
    BY <1>1
  <2> QED
    BY <1>1, <2>1 DEF AnsweredOnce, Types, TypeOK
<1>4. \A m : m \in 0..t /\ m # 0 => m \in 1..t
  BY <1>1
<1>5. t \in 1..t /\ t \in 0..t
  BY <1>1
<1> HIDE DEF t
<1>6. CASE queue' = Append(queue, t) /\ UNCHANGED wire
  <2>1. /\ queue' \in Seq(Nat) /\ Len(queue') = Len(queue) + 1 /\ Len(queue) \in Nat
        /\ \A i \in 1..Len(queue) : queue'[i] = queue[i]
        /\ queue'[Len(queue) + 1] = t
    BY <1>1, <1>6, AppendFacts, SeqFacts
  <2>2. \A i \in 1..Len(queue') : i \in 1..Len(queue) \/ i = Len(queue) + 1
    BY <2>1
  <2>3. \A i \in 1..Len(queue') : queue'[i] \in 1..t
    BY <1>2, <1>3, <1>4, <1>5, <2>1, <2>2
  <2>4. Types'
    BY <1>1, <1>6, <2>1, <2>3, ServerOnly DEF TakeRequest, Types, TypeOK
  <2>5. ASSUME NEW i \in 1..Len(wire), Completion(wire[i])
        PROVE  \A j \in 1..Len(queue') : queue'[j] # wire[i].id
    BY <1>1, <1>2, <1>3, <2>1, <2>2, <2>5 DEF AnsweredOnce
  <2>6. ASSUME NEW i \in 1..Len(queue')
        PROVE  /\ queue'[i] \notin DOMAIN completed
               /\ \A j \in 1..Len(queue') : queue'[j] = queue'[i] => j = i
    BY <1>1, <1>2, <1>3, <2>1, <2>2 DEF AnsweredOnce
  <2>7. DOMAIN completed \subseteq 1..t
    BY <1>2, <1>3, <1>4
  <2>8. \A i \in 1..Len(wire) : wire[i].id \in 0..t
    BY <1>2, <1>3
  <2>9. AnsweredOnce'
    BY <1>1, <1>6, <2>5, <2>6, <2>7, <2>8 DEF AnsweredOnce, Completion
  <2> QED
    BY <1>1, <2>4, <2>9 DEF IInv, Place
<1>7. ASSUME NEW e \in Events, e.id = t, wire' = Append(wire, e), UNCHANGED queue
      PROVE  IInv'
  <2>1. /\ wire' \in Seq(Events) /\ Len(wire') = Len(wire) + 1 /\ Len(wire) \in Nat
        /\ \A i \in 1..Len(wire) : wire'[i] = wire[i]
        /\ wire'[Len(wire) + 1] = e
    BY <1>1, <1>7, AppendFacts, SeqFacts
  <2>2. \A i \in 1..Len(wire') : i \in 1..Len(wire) \/ i = Len(wire) + 1
    BY <2>1
  <2>3. \A i \in 1..Len(wire') : wire'[i].id \in 0..t
    BY <1>2, <1>3, <1>5, <1>7, <2>1, <2>2
  <2>4. \A i \in 1..Len(queue) : queue[i] \in 1..t
    BY <1>2, <1>3, <1>4
  <2>5. Types'
    BY <1>1, <1>7, <2>1, <2>4, ServerOnly DEF TakeRequest, Types, TypeOK
  <2>6. ASSUME NEW i \in 1..Len(wire'), Completion(wire'[i])
        PROVE  /\ wire'[i].id \notin DOMAIN completed
               /\ \A j \in 1..Len(wire') :
                     Completion(wire'[j]) /\ wire'[j].id = wire'[i].id => j = i
               /\ \A j \in 1..Len(queue) : queue[j] # wire'[i].id
    <3>1. ASSUME NEW k \in 1..Len(wire), Completion(wire[k])
          PROVE  wire[k].id # t /\ wire[k].id \notin DOMAIN completed
      BY <1>1, <1>2, <1>3, <3>1 DEF AnsweredOnce
    <3>2. t \notin DOMAIN completed /\ \A j \in 1..Len(queue) : queue[j] # t
      BY <1>2, <1>3
    <3>3. CASE i = Len(wire) + 1
      BY <1>7, <2>1, <2>2, <2>6, <3>1, <3>2, <3>3
    <3>4. CASE i \in 1..Len(wire)
      BY <1>1, <1>7, <2>1, <2>2, <2>6, <3>1, <3>4 DEF AnsweredOnce
    <3> QED
      BY <2>2, <3>3, <3>4
  <2>7. DOMAIN completed \subseteq 1..t
    BY <1>2, <1>3, <1>4
  <2>8. AnsweredOnce'
    BY <1>1, <1>7, <2>3, <2>6, <2>7 DEF AnsweredOnce, Completion
  <2> QED
    BY <1>1, <2>5, <2>8 DEF IInv, Place
<1>8. CASE ops[taken'] = "input"
  <2>1. PICK e \in {Event("input_result", t, TRUE, FALSE), Event("error", t, FALSE, FALSE)} :
           wire' = Append(wire, e) /\ UNCHANGED queue
    BY <1>1, <1>8 DEF TakeRequest, Emit
  <2>2. e \in Events /\ e.id = t
    BY <1>1, <2>1, EventTyped DEF Kinds
  <2> QED
    BY <1>7, <2>1, <2>2
<1> QED
  BY <1>1, <1>6, <1>8 DEF TakeRequest

\* The first request in the queue is being served, and no completion of it read.
LEMMA OutputKeeps ==
  ASSUME IInv, Output
  PROVE  IInv'
<1> DEFINE e == Event("output", Head(queue), TRUE, FALSE)
<1>1. /\ Place' /\ completed' = completed /\ ops' = ops
      /\ Types /\ AnsweredOnce /\ outputs' = outputs + 1 /\ outputs < MaxOutput
      /\ open' = open /\ taken' = taken /\ queue' = queue /\ wire' = Append(wire, e)
      /\ queue # <<>> /\ queue \in Seq(Nat) /\ wire \in Seq(Events) /\ taken \in Nat
  BY ServerOnly DEF Output, Serving, Emit, Types, TypeOK
<1>2. Head(queue) = queue[1] /\ 1 \in 1..Len(queue)
  BY <1>1, TailFacts
<1>3. Head(queue) \in 1..taken
  BY <1>1, <1>2 DEF Types, TypeOK
<1>4. e \in Events /\ e.id \in 0..taken /\ ~Completion(e)
  BY <1>1, <1>3 DEF Event, Events, Kinds, Completion
<1> HIDE DEF e
<1>5. /\ wire' \in Seq(Events) /\ Len(wire') = Len(wire) + 1 /\ Len(wire) \in Nat
      /\ \A i \in 1..Len(wire) : wire'[i] = wire[i]
      /\ wire'[Len(wire) + 1] = e
  BY <1>1, <1>4, AppendFacts, SeqFacts
<1>6. \A i \in 1..Len(wire') : i \in 1..Len(wire) \/ i = Len(wire) + 1
  BY <1>5
<1>7. outputs' \in 0..MaxOutput
  BY <1>1, RecipeAssumption DEF Types, TypeOK
<1>8. Types'
  BY <1>1, <1>5, <1>7, ServerOnly DEF Output, Types, TypeOK
<1>9. AnsweredOnce'
  <2>1. ASSUME NEW i \in 1..Len(wire'), Completion(wire'[i])
        PROVE  /\ wire'[i].id \notin DOMAIN completed
               /\ \A j \in 1..Len(wire') :
                     Completion(wire'[j]) /\ wire'[j].id = wire'[i].id => j = i
               /\ \A j \in 1..Len(queue) : queue[j] # wire'[i].id
    BY <1>1, <1>4, <1>5, <1>6, <2>1 DEF AnsweredOnce
  <2>2. \A i \in 1..Len(wire') : wire'[i].id \in 0..taken
    BY <1>1, <1>4, <1>5, <1>6 DEF AnsweredOnce
  <2> QED
    BY <1>1, <2>1, <2>2 DEF AnsweredOnce, Completion
<1> QED
  BY <1>1, <1>8, <1>9 DEF IInv, Place

\* The completion of the first request takes it out of the queue.
LEMMA FinishKeeps ==
  ASSUME IInv, UNCHANGED client, NEW e \in Events, e.id = Head(queue), queue # <<>>,
         Finish(e), open' \in BOOLEAN
  PROVE  IInv'
<1>1. /\ Place' /\ completed' = completed /\ ops' = ops
      /\ Types /\ AnsweredOnce /\ outputs' = 0 /\ taken' = taken /\ taken \in Nat
      /\ queue' = Tail(queue) /\ wire' = Append(wire, e)
      /\ queue \in Seq(Nat) /\ wire \in Seq(Events)
  BY ServerOnly DEF Finish, Emit, Types, TypeOK
<1>2. /\ e.id = queue[1] /\ 1 \in 1..Len(queue) /\ Len(queue) \in Nat
      /\ queue' \in Seq(Nat) /\ Len(queue') = Len(queue) - 1
      /\ \A i \in 1..(Len(queue) - 1) : queue'[i] = queue[i + 1]
  BY <1>1, TailFacts, SeqFacts
<1>3. \A i \in 1..Len(queue') : i + 1 \in 1..Len(queue) /\ queue'[i] = queue[i + 1] /\ i + 1 # 1
  BY <1>2
<1>4. e.id \in 1..taken /\ e.id \in 0..taken
  BY <1>1, <1>2 DEF Types, TypeOK
<1>5. /\ wire' \in Seq(Events) /\ Len(wire') = Len(wire) + 1 /\ Len(wire) \in Nat
      /\ \A i \in 1..Len(wire) : wire'[i] = wire[i]
      /\ wire'[Len(wire) + 1] = e
  BY <1>1, AppendFacts, SeqFacts
<1>6. \A i \in 1..Len(wire') : i \in 1..Len(wire) \/ i = Len(wire) + 1
  BY <1>5
<1>7. Types'
  <2>1. \A i \in 1..Len(queue') : queue'[i] \in 1..taken
    BY <1>1, <1>3 DEF Types, TypeOK
  <2>2. 0 \in 0..MaxOutput /\ taken \in 0..Len(ops)
    BY <1>1, RecipeAssumption DEF Types, TypeOK
  <2> QED
    BY <1>1, <1>2, <1>5, <2>1, <2>2, ServerOnly
<1>8. AnsweredOnce'
  <2>2. \A i \in 1..Len(queue') : queue'[i] # e.id
    BY <1>1, <1>2, <1>3 DEF AnsweredOnce
  <2>3. ASSUME NEW i \in 1..Len(wire'), Completion(wire'[i])
        PROVE  /\ wire'[i].id \notin DOMAIN completed
               /\ \A j \in 1..Len(wire') :
                     Completion(wire'[j]) /\ wire'[j].id = wire'[i].id => j = i
               /\ \A j \in 1..Len(queue') : queue'[j] # wire'[i].id
    <3>1. ASSUME NEW k \in 1..Len(wire), Completion(wire[k])
          PROVE  wire[k].id # e.id /\ wire[k].id \notin DOMAIN completed
      BY <1>1, <1>2, <3>1 DEF AnsweredOnce
    <3>2. e.id \notin DOMAIN completed
      BY <1>1, <1>2 DEF AnsweredOnce
    <3>3. CASE i = Len(wire) + 1
      BY <1>5, <1>6, <2>2, <2>3, <3>1, <3>2, <3>3
    <3>4. CASE i \in 1..Len(wire)
      BY <1>1, <1>3, <1>5, <1>6, <2>3, <3>1, <3>4 DEF AnsweredOnce
    <3> QED
      BY <1>6, <3>3, <3>4
  <2>4. ASSUME NEW i \in 1..Len(queue')
        PROVE  /\ queue'[i] \notin DOMAIN completed
               /\ \A j \in 1..Len(queue') : queue'[j] = queue'[i] => j = i
    <3>1. ASSUME NEW j \in 1..Len(queue'), queue'[j] = queue'[i]
          PROVE  j = i
      <4>1. j + 1 = i + 1
        BY <1>1, <1>3, <3>1 DEF AnsweredOnce
      <4> QED
        BY <4>1
    <3> QED
      BY <1>1, <1>3, <3>1 DEF AnsweredOnce
  <2>5. \A i \in 1..Len(wire') : wire'[i].id \in 0..taken
    BY <1>1, <1>4, <1>5, <1>6 DEF AnsweredOnce
  <2> QED
    BY <1>1, <2>3, <2>4, <2>5 DEF AnsweredOnce, Completion
<1> QED
  BY <1>1, <1>7, <1>8 DEF IInv, Place

LEMMA CommandEndsKeeps ==
  ASSUME IInv, CommandEnds
  PROVE  IInv'
<1>1. /\ UNCHANGED client /\ queue # <<>> /\ Head(queue) \in Nat /\ open' \in BOOLEAN
  BY TailFacts DEF CommandEnds, Serving, IInv, Types, TypeOK
<1>2. PICK e \in {Event("result", Head(queue), TRUE, FALSE),
                  Event("result", Head(queue), FALSE, FALSE),
                  Event("error", Head(queue), FALSE, FALSE),
                  Event("result", Head(queue), TRUE, TRUE)} : Finish(e)
  BY DEF CommandEnds
<1>3. e \in Events /\ e.id = Head(queue)
  <2>1. "result" \in Kinds /\ "error" \in Kinds /\ TRUE \in BOOLEAN /\ FALSE \in BOOLEAN
    BY DEF Kinds
  <2>2. \A kind \in {"result", "error"}, ok \in BOOLEAN, exit \in BOOLEAN :
           LET f == Event(kind, Head(queue), ok, exit)
           IN  f \in Events /\ f.id = Head(queue)
    BY <1>1, <2>1, EventTyped
  <2> QED
    BY <1>2, <2>1, <2>2
<1> QED
  BY <1>1, <1>2, <1>3, FinishKeeps

LEMMA StatusAnsweredKeeps ==
  ASSUME IInv, StatusAnswered
  PROVE  IInv'
<1> DEFINE e == Event("status", Head(queue), TRUE, FALSE)
<1>1. /\ UNCHANGED client /\ queue # <<>> /\ Head(queue) \in Nat /\ open' \in BOOLEAN
      /\ Finish(e)
  BY TailFacts DEF StatusAnswered, Serving, IInv, Types, TypeOK
<1>2. e \in Events /\ e.id = Head(queue)
  BY <1>1, EventTyped DEF Kinds
<1> QED
  BY <1>1, <1>2, FinishKeeps

-----------------------------------------------------------------------------
LEMMA InitHolds ==
  ASSUME Init
  PROVE  IInv
<1>1. PICK r \in Recipes : stack = <<Call(r, 0)>>
  BY DEF Init
<1>2. /\ r \in Seq(Steps) /\ MaxOutput \in Nat
  BY RecipeAssumption
<1>3. /\ Call(r, 0) \in Calls /\ Len(stack) = 1 /\ stack[1] = Call(r, 0)
      /\ Call(r, 0).id = 0 /\ Call(r, 0).at = 1 /\ Call(r, 0).steps = r
  BY <1>1, <1>2 DEF Call, Calls
<1>4. stack \in Seq(Calls) /\ stack # <<>>
  BY <1>1, <1>3
<1>5. /\ ops = <<>> /\ Len(ops) = 0 /\ awaited = 0 /\ mode = "ready" /\ taken = 0
      /\ DOMAIN completed = {} /\ queue = <<>> /\ Len(queue) = 0
      /\ Len(wire) = 1 /\ wire[1].id = 0
  BY DEF Init, Event
<1>6. wire \in Seq(Events)
  BY DEF Init, Event, Events, Kinds
<1>7. Types
  <2>1. ops \in Seq(Ops) /\ pending \in Seq(Events) /\ queue \in Seq(Nat)
    BY DEF Init
  <2>2. session_ended = FALSE /\ open = TRUE /\ outputs \in 0..MaxOutput
    BY <1>2 DEF Init
  <2>3. /\ awaited \in 0..Len(ops) /\ taken \in 0..Len(ops)
        /\ DOMAIN completed \subseteq 1..Len(ops)
        /\ \A i \in 1..Len(queue) : queue[i] \in 1..taken
    BY <1>5
  <2>4. \A id \in DOMAIN completed :
           completed[id].id = id /\ completed[id].event \in {"error", Answer(ops[id])}
    BY <1>5
  <2>5. mode \in {"ready", "run", "done", "failed"} /\ session_ended \in BOOLEAN
        /\ open \in BOOLEAN
    BY <1>5, <2>2
  <2> QED
    BY <1>4, <1>6, <2>1, <2>2, <2>3, <2>4, <2>5 DEF Types, TypeOK
<1>8. StackInv
  BY <1>3, <1>4, <1>5 DEF StackInv, WellStacked
<1>9. Accounted
  BY <1>5 DEF Accounted
<1>10. AnsweredOnce
  BY <1>5 DEF AnsweredOnce, Completion
<1> QED
  BY <1>7, <1>8, <1>9, <1>10 DEF IInv

LEMMA NextKeeps ==
  ASSUME IInv, [Next]_vars
  PROVE  IInv'
<1>1. CASE UNCHANGED vars
  BY <1>1 DEF vars, client, server, place, IInv, Types, TypeOK, StackInv, Accounted, Good,
              Validates, Nested, AnsweredOnce, Completion, WellStacked, Answer
<1>2. CASE Ended
  BY <1>1, <1>2 DEF Ended
<1> QED
  BY <1>1, <1>2, SendRequestKeeps, AwaitCompletedKeeps, MatchPendingKeeps, ReadEventKeeps,
     GiveUpKeeps, TakeRequestKeeps, OutputKeeps, CommandEndsKeeps, StatusAnsweredKeeps
     DEF Next, ClientNext, ServerNext

\* WorkflowClient, all recipes and servers: every variable keeps its type, and
\* completed_requests has a completion only under the id it completes.
THEOREM TypeCorrect == Spec => []TypeOK
<1>1. IInv => TypeOK
  BY DEF IInv, Types
<1> QED
  BY <1>1, InitHolds, NextKeeps, PTL DEF Spec

\* run_workflow returns without an error only if every request it sent, nested
\* ones and those whose completion another step read included, has succeeded.
THEOREM EveryRequestSucceeded == Spec => []SuccessIsReal
<1>1. IInv => SuccessIsReal
  <2>1. ASSUME IInv, mode = "done", NEW id \in 1..Len(ops)
        PROVE  Good(id)
    <3>1. Len(stack) = 1 /\ awaited = 0 /\ WellStacked(stack, Len(ops))
      BY <2>1 DEF IInv, StackInv
    <3>2. \A k \in 1..Len(stack) : stack[k].id = 0
      BY <3>1 DEF WellStacked
    <3>3. id # 0 /\ ~Nested(stack, id)
      BY <3>2 DEF Nested
    <3> QED
      BY <2>1, <3>1, <3>3 DEF IInv, Accounted
  <2> QED
    BY <2>1 DEF SuccessIsReal, Good, Validates
<1> QED
  BY <1>1, InitHolds, NextKeeps, PTL DEF Spec
=============================================================================
