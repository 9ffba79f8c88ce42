----------------------- MODULE HostControlSessionProps -----------------------
(***************************************************************************)
(* What a host-control session must guarantee to its client whatever the   *)
(* interleaving of the client, the reader thread and the emulator thread.  *)
(***************************************************************************)
EXTENDS HostControlSession

ReaderStates == {"read", "exec", "status", "input", "cancel", "malformed",
                 "setbreak", "setcancel", "ctrlc", "reply", "done"}

MainStates == {"wait", "check", "arm", "armed", "run", "output", "ran",
               "exchange", "after", "flush", "rest", "emit", "end",
               "stop", "join", "returned"}

Ids == 0 .. MaxRequests

Events ==
    [event : {"none", "status", "error", "input_result"}, id : Ids]
      \cup [event : {"output"}, id : Ids, units : Nat]
      \cup [event : {"cancel_result"}, id : Ids, target : Ids]
      \cup [event : {"result"}, id : Ids, exit : BOOLEAN, cancelled : BOOLEAN,
            units : Nat, broken : BOOLEAN]

FlagTypes ==
    /\ closed \in BOOLEAN /\ stopped \in BOOLEAN /\ disconnected \in BOOLEAN
    /\ ioError \in BOOLEAN /\ writeFailed \in BOOLEAN
    /\ inProgress \in BOOLEAN /\ cancelReq \in BOOLEAN /\ ctrlbrk \in BOOLEAN
    /\ broken \in BOOLEAN /\ shellExit \in BOOLEAN /\ failed \in BOOLEAN

EventTypes ==
    /\ events \in Seq(Events) /\ seen \in 0 .. Len(events)
    /\ \A i \in DOMAIN events : events[i].event # "none" /\ events[i].id # 0

TypeOK ==
    /\ sent \in Seq(Templates) /\ Len(sent) <= MaxRequests
    /\ received \in 0 .. Len(sent)
    /\ EventTypes
    /\ FlagTypes
    /\ reader \in ReaderStates /\ main \in MainStates
    /\ mutex \in {"free", "reader", "main"}
    /\ inHand \in Ids /\ target \in Ids /\ cmd \in Ids
    /\ reply \in Events /\ answer \in Events
    /\ requests \in Seq(Ids \ {0})
    /\ inputQ \in Seq(Ids \X Ids) /\ Len(inputQ) <= InputCap
    /\ buf \in 0 .. produced /\ produced \in 0 .. MaxOutput
    /\ process \in {"serving", "returned", "killed"}
    /\ hits \subseteq Ids \ {0}

-----------------------------------------------------------------------------
ResultEvents == {i \in DOMAIN events : events[i].event = "result"}

(* What an event adds to the output of a request, and what all of them do. *)
Units(e, id) == IF e.event = "output" /\ e.id = id THEN e.units ELSE 0

UnitsIn(s, id) ==
    LET total[n \in 0 .. Len(s)] ==
            IF n = 0 THEN 0 ELSE total[n - 1] + Units(s[n], id)
    IN  total[Len(s)]

OutputUnits(id) == UnitsIn(events, id)

(* Every unit of output a command produced has been sent, under its own    *)
(* id, by the time its result is sent, although output is buffered and     *)
(* flushed on thresholds and the reader thread writes events in between.   *)
OutputComplete ==
    \A i \in ResultEvents : OutputUnits(events[i].id) = events[i].units

(* The flush at the end of the session finds something to send only when   *)
(* the client is gone: no way out of the session with a live client leaves *)
(* output behind (run_control_socket_session, 1498-1582).                  *)
NothingLeftToFlush ==
    Serving /\ main = "end" /\ ~failed => buf = 0 \/ PeerGone

ShellExited == \E i \in ResultEvents : events[i].exit

(* The session is an implementation of the protocol: exec and status are   *)
(* answered in the order sent, output belongs to the command in execution, *)
(* nothing is answered twice, no command runs after the shell has exited.  *)
Protocol == INSTANCE HostControlProtocol

ImplementsProtocol == Protocol!Spec

-----------------------------------------------------------------------------
(* Scheduling: each thread runs when it can; a command that can return     *)
(* returns; the client is free to do nothing.                              *)
FairSpec == /\ Spec
            /\ WF_vars(ReaderNext)
            /\ WF_vars(MainNext)

(* ... and the client reads the events it is sent.                         *)
FairClientSpec == FairSpec /\ WF_vars(Receive)

AnsweredIds == {events[i].id : i \in {j \in DOMAIN events :
                                          events[j].event # "output"}}

(* Every request is answered in the end, unless the client leaves or the   *)
(* session ends.                                                           *)
EveryRequestAnswered ==
    \A i \in 1 .. MaxRequests :
        i <= Len(sent) ~> \/ i \in AnsweredIds \/ closed
                          \/ ShellExited \/ process # "serving"

(* When the client closes its end while commands are queued or running,    *)
(* the session stops its reader thread and returns.                        *)
CloseEndsSession == closed ~> process = "returned"

(* A thread waits in a write for a client that has stopped reading, and    *)
(* keeps everything that needs the mutex waiting.                          *)
BlockedInWrite == mutex # "free" /\ ~HasRoom

(* A cancel that was accepted while a batch file runs stops it, even if a  *)
(* command in the batch resets the guest's break flag: RunInternal also    *)
(* looks at cancel_requested (docs/host-control-windows-pipe-roadmap.md).  *)
(* Only a client that does not read the batch's own output, or the answers *)
(* to its requests, can keep it from stopping.                             *)
CancelStopsBatch ==
    \A i \in 1 .. MaxRequests :
        (main \in {"run", "output"} /\ cmd = i /\ i \in hits)
            ~> \/ main \notin {"run", "output"} \/ process # "serving"
               \/ []BlockedInWrite

(* A session ends when the DOS shell has exited: shutting the socket down  *)
(* ends a reader thread that waits for requests or in a write, so that it  *)
(* can be joined.  Only a write in which the reader thread was blocked     *)
(* before that, on a client that never reads again, can hold the session   *)
(* up, since the last flush needs the mutex.                               *)
ShellExitEndsSession ==
    ShellExited ~> \/ process # "serving"
                   \/ [](mutex = "reader" /\ ~HasRoom /\ ~stopped)

(* Not true of the code when the client stops reading, and checked by no   *)
(* run (see the README): a reader thread blocked in a write has the mutex. *)
(* docs/host-control.md:220: "A host-control session ends when the DOS     *)
(* shell exits, which ends the DOSBox-X process."                          *)
ShellExitAlwaysEndsSession == ShellExited ~> process # "serving"

-----------------------------------------------------------------------------
(* Claims of the documentation that the code does not keep; no run checks  *)
(* them, the README describes the behaviours that break them.              *)

(* "Request cancellation of the in-flight command ... The exec's result    *)
(* then reports cancelled: true": a cancel that was acknowledged before    *)
(* the result of the command it found running shows in that result.        *)
AckedCancelReported ==
    \A i \in ResultEvents, j \in DOMAIN events :
        (/\ j < i
         /\ events[j].event = "cancel_result"
         /\ events[j].target = events[i].id)
            => events[i].cancelled

(* "... removes the socket path when the session ends": the process lives  *)
(* until the session function has returned.                                *)
NeverKilled == process # "killed"

=============================================================================
