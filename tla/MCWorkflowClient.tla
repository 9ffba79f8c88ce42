-------------------------- MODULE MCWorkflowClient --------------------------
EXTENDS WorkflowClientProps

Request(o) == [action |-> "request", op |-> o]
WaitFor(e) == [action |-> "wait_for", event |-> e, ok |-> BOOLEAN]
WaitForOk(e) == [action |-> "wait_for", event |-> e, ok |-> {TRUE}]
Interactive(s) == [action |-> "exec_interactive", steps |-> s]

Nested == {Request("status"), Request("input"), WaitFor("output"), WaitForOk("result")}
UpTo1(S) == {<<>>} \cup {<<s>> : s \in S}
UpTo2(S) == UpTo1(S) \cup {<<s, t>> : s, t \in S}

Top == {Request("exec"), WaitFor("output")} \cup {Interactive(s) : s \in UpTo1(Nested)}

\* An exec, and an interactive one, inside of another.
Deep == {Interactive(<<Request("exec")>>),
         Interactive(<<Interactive(<<Request("input")>>), Request("status")>>)}

MCSteps == Nested \cup Top \cup Deep \cup {Interactive(s) : s \in UpTo2(Nested)}
             \cup {Interactive(<<Request("input")>>), WaitFor("input_result")}

\* A step of every kind, with up to two nested steps, alone or behind an exec;
\* and two steps with up to one nested step each.
MCRecipes ==
  UpTo2(Top) \cup {<<s>> : s \in Deep}
    \cup UNION {{<<Interactive(s)>>, <<Request("exec"), Interactive(s)>>} : s \in UpTo2(Nested)}

\* The recipe of docs/host-control.md, "Workflow recipes".
DocRecipes ==
  {<<Request("exec"), Request("exec"), Request("status"), Request("input"),
     Request("input"), WaitFor("input_result")>>}
=============================================================================
