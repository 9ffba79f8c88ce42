--------------------------- MODULE WorkflowClient ---------------------------
(***************************************************************************)
(* WorkflowRuntime of src/scripts/host_control_client.py: a client that    *)
(* runs the steps of a recipe one by one, sending requests, waiting for    *)
(* their completions and for events, over a session whose server answers   *)
(* input at once and other requests in turn (HostControlSession says how). *)
(*                                                                         *)
(* A step sends a request and awaits its completion (action "request"), or *)
(* matches an event ("wait_for"), or sends an exec, runs steps of its own  *)
(* and then awaits the exec ("exec_interactive").                          *)
(***************************************************************************)
EXTENDS Integers, Sequences, SequencesExt

CONSTANTS
  Steps,        \* the steps recipes consist of, those inside of others included
  Recipes,      \* sequences of steps
  MaxOutput,    \* output events of a command
  Fails,        \* may requests be answered by an error or a failed command?
  Exits,        \* may a command end the DOS shell?
  TimesOut      \* is the client started with --timeout?

Ops == {"exec", "status", "input"}
Kinds == {"ready", "output", "result", "status", "input_result", "error"}

ASSUME RecipeAssumption ==
  /\ MaxOutput \in Nat \ {0}
  /\ \A s \in Steps :
       \/ s.action = "request" /\ s.op \in Ops
       \/ s.action = "wait_for" /\ s.event \in Kinds /\ s.ok \subseteq BOOLEAN
       \/ s.action = "exec_interactive" /\ s.steps \in Seq(Steps)
  /\ Recipes \subseteq Seq(Steps)

VARIABLES
  stack,         \* the calls of run_steps, the recipe's first
  awaited,       \* the request whose completion is awaited, or 0
  mode,          \* "ready", "run", "done" or "failed"
  ops,           \* request_ops, by request id
  completed,     \* completed_requests
  pending,       \* pending_events
  session_ended,
  wire,          \* events the client has not read
  taken,         \* requests the server has read
  queue,         \* those it has not begun, without input requests
  outputs,       \* output events of the first of queue
  open           \* the server's end

place == <<stack, awaited>>
client == <<place, mode, ops, completed, pending, session_ended>>
server == <<taken, queue, outputs, open>>
vars == <<client, wire, server>>

Event(kind, id, ok, exit) == [event |-> kind, id |-> id, ok |-> ok, exit |-> exit]
Answer(op) == CASE op = "exec" -> "result" [] op = "status" -> "status"
                [] op = "input" -> "input_result"

\* A call of run_steps; id is the exec these steps are nested in, or 0.
Call(steps, id) == [steps |-> steps, at |-> 1, id |-> id]
Caller == Last(stack)
Step == Caller.steps[Caller.at]

Init ==
  /\ \E r \in Recipes : stack = <<Call(r, 0)>>
  /\ awaited = 0 /\ mode = "ready" /\ ops = <<>>
  /\ completed = <<>> /\ pending = <<>> /\ session_ended = FALSE
  /\ wire = <<Event("ready", 0, TRUE, FALSE)>>
  /\ taken = 0 /\ queue = <<>> /\ outputs = 0 /\ open = TRUE

-----------------------------------------------------------------------------
\* Faulty: any event with the id of the request.
CompletesRequestAnyKind(e, id) == e.id = id

\* event_completes_request.
CompletesRequest(e, id) == e.id = id /\ e.event \in {"error", Answer(ops[id])}

\* event_matches.
Matches(e, m) == e.event = m.event /\ e.ok \in m.ok

Running == mode = "run"
Awaiting == Running /\ awaited # 0
Matching == Running /\ awaited = 0 /\ Step.action = "wait_for"

\* completed_requests with e under its request's id.
Kept(e) == [id \in DOMAIN completed \cup {e.id} |-> IF id = e.id THEN e ELSE completed[id]]

\* Faulty: only the completion of the request waited for is remembered.
RememberAwaited(e) ==
  IF e.id \in 1..Len(ops) /\ CompletesRequest(e, e.id) /\ awaited = e.id
  THEN Kept(e) ELSE completed

\* remember_completion, of every event that is read.
Remember(e) ==
  IF e.id \in 1..Len(ops) /\ CompletesRequest(e, e.id) THEN Kept(e) ELSE completed

Fail == mode' = "failed" /\ UNCHANGED place

\* At first and after a step: the next one; or, when those of an exec_interactive are done,
\* the completion of its exec is awaited; or all are done.
Resume(calls) ==
  LET call == Last(calls)
      more == call.at <= Len(call.steps)
  IN  \/ more /\ stack' = calls /\ awaited' = 0 /\ mode' = "run"
      \/ /\ ~more /\ call.id # 0
         /\ stack' = Front(calls) /\ awaited' = call.id /\ mode' = "run"
      \/ ~more /\ call.id = 0 /\ stack' = calls /\ awaited' = 0 /\ mode' = "done"

Go == Resume([stack EXCEPT ![Len(stack)].at = @ + 1])

\* Faulty: a command that failed is taken for one that succeeded.
ValidatesError(e) == e.event # "error"

\* validate_completion: no error, and an errorlevel the step expects.
Validates(e) == e.event # "error" /\ e.ok

Validate(e) == IF Validates(e) THEN Go ELSE Fail

\* send_request; run_request then awaits it, run_exec_interactive runs steps.
Send(op) ==
  /\ ops' = Append(ops, op)
  /\ IF Step.action = "exec_interactive"
     THEN Resume(Append(stack, Call(Step.steps, Len(ops'))))
     ELSE awaited' = Len(ops') /\ UNCHANGED <<stack, mode>>

\* After the server has gone a request is lost, or refused by the transport.
SendRequest ==
  /\ Running /\ awaited = 0 /\ Step.action # "wait_for"
  /\ IF session_ended THEN Fail /\ UNCHANGED ops
     ELSE \/ Send(IF Step.action = "request" THEN Step.op ELSE "exec")
          \/ ~open /\ Fail /\ UNCHANGED ops
  /\ UNCHANGED <<completed, pending, session_ended, wire, server>>

\* wait_for_request, when the completion has been read before.
AwaitCompleted ==
  /\ Awaiting /\ awaited \in DOMAIN completed
  /\ Validate(completed[awaited])
  /\ UNCHANGED <<ops, completed, pending, session_ended, wire, server>>

\* wait_for_event, when a matching event is pending: the first one.
MatchPending ==
  /\ Matching
  /\ \E i \in 1..Len(pending) :
       /\ Matches(pending[i], Step)
       /\ \A j \in 1..(i - 1) : ~Matches(pending[j], Step)
       /\ pending' = RemoveAt(pending, i)
  /\ Go
  /\ UNCHANGED <<ops, completed, session_ended, wire, server>>

\* The client waits for an event to be read.
Reading ==
  \/ mode = "ready"
  \/ Awaiting /\ awaited \notin DOMAIN completed
  \/ Matching /\ \A i \in 1..Len(pending) : ~Matches(pending[i], Step)

\* read_event, and what the waiting step does with the event.
ReadEvent ==
  /\ Reading /\ wire # <<>>
  /\ LET e == Head(wire)
         keep == pending' = Append(pending, e) /\ UNCHANGED <<place, mode>>
     IN  /\ wire' = Tail(wire) /\ completed' = Remember(e)
         /\ session_ended' = (session_ended \/ (e.event = "result" /\ e.exit))
         /\ CASE mode = "ready" -> Resume(stack) /\ UNCHANGED pending
              [] Awaiting ->
                   IF CompletesRequest(e, awaited)
                   THEN Validate(e) /\ UNCHANGED pending ELSE keep
              [] Matching ->
                   IF Matches(e, Step) THEN Go /\ UNCHANGED pending ELSE keep
  /\ UNCHANGED <<ops, server>>

\* RequestTimeout, or the end of the stream (SessionClosed).
GiveUp ==
  /\ Reading /\ wire = <<>> /\ (TimesOut \/ ~open) /\ Fail
  /\ UNCHANGED <<ops, completed, pending, session_ended, wire, server>>

-----------------------------------------------------------------------------
Emit(e) == wire' = Append(wire, e)

\* The reader thread takes a request: input is answered, others are queued.
TakeRequest ==
  /\ open /\ taken < Len(ops) /\ taken' = taken + 1
  /\ IF ops[taken'] = "input"
     THEN /\ \/ Emit(Event("input_result", taken', TRUE, FALSE))
             \/ Fails /\ Emit(Event("error", taken', FALSE, FALSE))
          /\ UNCHANGED queue
     ELSE queue' = Append(queue, taken') /\ UNCHANGED wire
  /\ UNCHANGED <<client, outputs, open>>

Serving(op) == open /\ queue # <<>> /\ ops[Head(queue)] = op

Output ==
  /\ Serving("exec") /\ outputs < MaxOutput /\ outputs' = outputs + 1
  /\ Emit(Event("output", Head(queue), TRUE, FALSE))
  /\ UNCHANGED <<client, taken, queue, open>>

Finish(e) == Emit(e) /\ queue' = Tail(queue) /\ outputs' = 0 /\ UNCHANGED taken

CommandEnds ==
  /\ Serving("exec")
  /\ \/ outputs > 0 /\ Finish(Event("result", Head(queue), TRUE, FALSE)) /\ UNCHANGED open
     \/ Fails /\ Finish(Event("result", Head(queue), FALSE, FALSE)) /\ UNCHANGED open
     \/ Fails /\ Finish(Event("error", Head(queue), FALSE, FALSE)) /\ UNCHANGED open
     \/ Exits /\ Finish(Event("result", Head(queue), TRUE, TRUE)) /\ open' = FALSE
  /\ UNCHANGED client

StatusAnswered ==
  /\ Serving("status") /\ Finish(Event("status", Head(queue), TRUE, FALSE))
  /\ UNCHANGED <<client, open>>

\* The client has ended.
Ended == mode \in {"done", "failed"} /\ UNCHANGED vars

ClientNext == SendRequest \/ AwaitCompleted \/ MatchPending \/ ReadEvent
ServerNext == TakeRequest \/ Output \/ CommandEnds \/ StatusAnswered

Next == ClientNext \/ GiveUp \/ ServerNext \/ Ended

Spec == Init /\ [][Next]_vars

\* The client runs, it notices the end of the stream, and the server serves.
FairSpec == Spec /\ WF_vars(ClientNext) /\ WF_vars(GiveUp /\ ~open)
              /\ WF_vars(TakeRequest) /\ WF_vars(CommandEnds \/ StatusAnswered)
=============================================================================
