------------------------ MODULE HostControlProtocol ------------------------
(***************************************************************************)
(* What a client of a host-control session may rely on                     *)
(* (docs/host-control.md, "Requests" and "Events").  A session is the      *)
(* sequence of requests sent and the sequence of events received.  exec    *)
(* and status are executed one at a time in the order sent, each answered  *)
(* by one event before the next one is taken up; output events belong to   *)
(* the exec that is being executed.  input, cancel and malformed requests  *)
(* are answered on the side, in the order sent among themselves.  After    *)
(* the result of an exec that ended the DOS shell no other command runs.   *)
(* The session may end at any moment and leave requests unanswered.        *)
(***************************************************************************)
EXTENDS Integers, Sequences

CONSTANT Templates            \* the requests a client may send

VARIABLES sent, events

vars == <<sent, events>>

InTurn(r) == r.op \in {"exec", "status"}

TurnRequests == {i \in DOMAIN sent : InTurn(sent[i])}
SideRequests == DOMAIN sent \ TurnRequests

(* The event that answers a request carries its id; output does not.       *)
Answered == {events[i].id : i \in {j \in DOMAIN events :
                                       events[j].event # "output"}}

(* The first request of a class that has no answer yet.                    *)
IsNext(i, class) ==
    /\ i \in class \ Answered
    /\ \A j \in class \ Answered : i <= j

ShellExited == \E i \in DOMAIN events : /\ events[i].event = "result"
                                        /\ events[i].exit

Init ==
    /\ sent = <<>>
    /\ events = <<>>

Send ==
    \E r \in Templates :
        /\ sent' = Append(sent, r)
        /\ UNCHANGED events

(* The kinds of event that may answer a request of each kind.              *)
Answers(r) ==
    CASE r.op = "exec"   -> {"result", "error"}
      [] r.op = "status" -> {"status"}
      [] r.op = "input"  -> {"input_result", "error"}
      [] r.op = "cancel" -> {"cancel_result", "error"}
      [] OTHER           -> {"error"}

IsLogged(P(_)) ==
    /\ Len(events') = Len(events) + 1
    /\ SubSeq(events', 1, Len(events)) = events
    /\ P(events'[Len(events')])
    /\ UNCHANGED sent

Answer(class) ==
    \E i \in class :
        /\ IsNext(i, class)
        /\ IsLogged(LAMBDA e : e.id = i /\ e.event \in Answers(sent[i]))

Output ==
    \E i \in TurnRequests :
        /\ IsNext(i, TurnRequests)
        /\ sent[i].op = "exec"
        /\ IsLogged(LAMBDA e : e.id = i /\ e.event = "output")

Next ==
    \/ Send
    \/ Answer(SideRequests)
    \/ ~ShellExited /\ (Answer(TurnRequests) \/ Output)

Spec == Init /\ [][Next]_vars

=============================================================================
