------------------------ MODULE WorkflowClientProps ------------------------
(***************************************************************************)
(* Properties of the workflow client.                                      *)
(***************************************************************************)
EXTENDS WorkflowClient

Events == [event : Kinds, id : Nat, ok : BOOLEAN, exit : BOOLEAN]
Calls == [steps : Seq(Steps), at : Nat, id : Nat]

\* Types; and each completion is kept under the id of its own request.
TypeOK ==
  /\ stack \in Seq(Calls) /\ stack # <<>> /\ awaited \in 0..Len(ops)
  /\ mode \in {"ready", "run", "done", "failed"}
  /\ ops \in Seq(Ops) /\ pending \in Seq(Events) /\ wire \in Seq(Events)
  /\ DOMAIN completed \subseteq 1..Len(ops)
  /\ \A id \in DOMAIN completed :
        completed[id].id = id /\ completed[id].event \in {"error", Answer(ops[id])}
  /\ session_ended \in BOOLEAN /\ open \in BOOLEAN
  /\ taken \in 0..Len(ops) /\ outputs \in 0..MaxOutput
  /\ \A i \in 1..Len(queue) : queue[i] \in 1..taken

\* A workflow succeeds only if every request it sent has, whichever step read
\* the completion, its own or another that waited for an event meanwhile.
SuccessIsReal ==
  mode = "done" =>
    \A id \in 1..Len(ops) :
      id \in DOMAIN completed /\ completed[id].event # "error" /\ completed[id].ok

\* The client does not wait for the completion of a request for ever, without
\* any timeout, although other steps have read events before it.
AwaitEnds == []<>~Awaiting

\* A workflow comes to its end.
WorkflowEnds == <>(mode \in {"done", "failed"})
=============================================================================
