----------------------------- MODULE McpSession -----------------------------
(***************************************************************************)
(* The MCP server of mcp-server/dosbox_mcp: the tools of server.py, the    *)
(* DosboxSession of session.py they work on, and its SessionState, shared  *)
(* by the thread that runs the tools and the thread that reads events.     *)
(* SessionState's lock protects each of its methods and nothing more, so   *)
(* one action here is one locked call, one write or one read.              *)
(*                                                                         *)
(* The tools are called one at a time.  The other end of the pipe is       *)
(* DOSBox-X: its reader thread answers cancel and input at once and queues *)
(* exec requests, which its emulator thread runs.  The line of a result    *)
(* carries the current DOS directory as it is, in the code page of DOS;    *)
(* next_event takes UTF-8 only, and what it raises ends the reader thread. *)
(***************************************************************************)
EXTENDS Integers, Sequences

CONSTANTS
    MaxSessions,  \* bound of the model: launches
    MaxRequests,  \* bound of the model: request ids in one session
    MaxChunks,    \* bound of the model: output events in one session
    CodePageNames \* whether a directory may have a name that is not UTF-8

ASSUME McpAssumption ==
    /\ MaxSessions \in Nat
    /\ MaxRequests \in Nat \ {0}
    /\ MaxChunks \in Nat
    /\ CodePageNames \in BOOLEAN

VARIABLES
    \* server.py and the tool in progress
    session,      \* _session: "none" or "active"
    call,         \* where the tool thread is; "idle" between two tools
    snapDone,     \* "done" in the snapshot that poll took
    launches,     \* how often start_session has been called
    \* DosboxSession and SessionState
    phase, last_result, output_buffer, next_request_id, stop_reading,
    \* _read_loop
    reader, inHand,
    \* DOSBox-X
    child,        \* its process: "none", "up" or "gone" (exited by itself)
    orphans,      \* live processes that no session refers to any more
    toServer, backlog, running, executing, fromServer, connected,
    \* history
    execId,       \* id of the exec written last
    chunks,       \* how many output events DOSBox-X has sent
    returned,     \* output returned by poll
    doneReported, \* a poll has returned done since the last exec
    errorSeen     \* an error event has been recorded in this session

toolVars    == <<session, call, snapDone, launches>>
stateVars   == <<phase, last_result, output_buffer>>
objectVars  == <<stateVars, next_request_id, stop_reading>>
readerVars  == <<reader, inHand>>
processVars == <<child, orphans, connected>>
pipeVars    == <<toServer, fromServer>>
execVars    == <<backlog, running, executing, chunks>>
serverVars  == <<pipeVars, execVars>>
reportVars  == <<returned, doneReported>>
historyVars == <<execId, reportVars, errorSeen>>
\* What a step of the tools leaves to the other actors.
others      == <<readerVars, processVars, serverVars>>
vars == <<toolVars, objectVars, others, historyVars>>

Event(kind, id, chunk) == [kind |-> kind, id |-> id, chunk |-> chunk]
NoEvent == Event("none", 0, 0)
Ids == 0 .. MaxRequests
\* "garbled" is a result that cannot be decoded.
Kinds == {"none", "ready", "output", "result", "garbled", "error", "ack"}
Events == [kind : Kinds, id : Ids, chunk : 0 .. MaxChunks]

TypeOK ==
    /\ session \in {"none", "active"}
    /\ call \in {"idle", "connect", "await_ready", "setup", "exec_begin",
                 "exec_write", "setup_wait", "poll_drain", "write_input",
                 "write_cancel", "stop_close", "stop_join", "stop_mark"}
    /\ snapDone \in BOOLEAN
    /\ launches \in 0 .. MaxSessions
    /\ phase \in {"starting", "ready", "busy", "stopped"}
    /\ last_result \in Events
    /\ last_result.kind \in {"none", "result", "error"}
    /\ output_buffer \in Seq(1 .. MaxChunks)
    /\ next_request_id \in 1 .. MaxRequests + 1
    /\ stop_reading \in BOOLEAN
    /\ reader \in {"off", "loop", "reading", "record", "eof", "dead"}
    /\ inHand \in Events
    /\ child \in {"none", "up", "gone"}
    /\ orphans \in 0 .. MaxSessions
    /\ toServer \in Seq(Ids \X {"exec", "input", "cancel"})
    /\ backlog \in Seq(Ids)
    /\ running \in Ids
    /\ executing \in BOOLEAN
    /\ fromServer \in Seq(Events)
    /\ connected \in BOOLEAN
    /\ execId \in Ids
    /\ chunks \in 0 .. MaxChunks
    /\ returned \in Seq(1 .. MaxChunks)
    /\ doneReported \in BOOLEAN
    /\ errorSeen \in BOOLEAN

NewSession ==
    /\ phase' = "starting"
    /\ last_result' = NoEvent
    /\ output_buffer' = <<>>
    /\ next_request_id' = 1
    /\ stop_reading' = FALSE
    /\ reader' = "off"
    /\ inHand' = NoEvent
    /\ toServer' = <<>>
    /\ backlog' = <<>>
    /\ running' = 0
    /\ executing' = FALSE
    /\ fromServer' = <<>>
    /\ connected' = FALSE
    /\ execId' = 0
    /\ chunks' = 0
    /\ returned' = <<>>
    /\ doneReported' = FALSE
    /\ errorSeen' = FALSE

Init ==
    /\ session = "none"
    /\ call = "idle"
    /\ snapDone = FALSE
    /\ launches = 0
    /\ phase = "starting"
    /\ last_result = NoEvent
    /\ output_buffer = <<>>
    /\ next_request_id = 1
    /\ stop_reading = FALSE
    /\ reader = "off"
    /\ inHand = NoEvent
    /\ child = "none"
    /\ orphans = 0
    /\ toServer = <<>>
    /\ backlog = <<>>
    /\ running = 0
    /\ executing = FALSE
    /\ fromServer = <<>>
    /\ connected = FALSE
    /\ execId = 0
    /\ chunks = 0
    /\ returned = <<>>
    /\ doneReported = FALSE
    /\ errorSeen = FALSE

Idle == call = "idle" /\ session = "active"
Done == last_result # NoEvent

\* The tool goes on to c (and to nothing else).
Goto(c) ==
    /\ call' = c
    /\ UNCHANGED <<session, snapDone, launches>>

-----------------------------------------------------------------------------
(* start_session: DosboxSession.launch.                                    *)

Launch ==
    /\ call = "idle"
    /\ session = "none"
    /\ launches < MaxSessions
    /\ launches' = launches + 1
    /\ call' = "connect"
    /\ child' = "up"
    /\ NewSession
    /\ UNCHANGED <<session, snapDone, orphans>>

\* DOSBox-X greets the client with "ready".
Connect ==
    /\ call = "connect"
    /\ child = "up"
    /\ connected' = TRUE
    /\ fromServer' = <<Event("ready", 0, 0)>>
    /\ reader' = "loop"
    /\ Goto("await_ready")
    /\ UNCHANGED <<objectVars, inHand, child, orphans, toServer, execVars,
                   historyVars>>

\* The process has exited, or is killed at the deadline: no process is left.
ConnectFails ==
    /\ call = "connect"
    /\ child' = "none"
    /\ Goto("idle")
    /\ UNCHANGED <<objectVars, readerVars, orphans, connected, serverVars,
                   historyVars>>

\* An exception that launch lets through: the session object is dropped with
\* its reader thread, and its process is not stopped.
LaunchRaises ==
    /\ orphans' = IF child = "up" THEN orphans + 1 ELSE orphans
    /\ child' = "none"
    /\ reader' = "off"
    /\ Goto("idle")
    /\ UNCHANGED <<stateVars, stop_reading, inHand, connected, serverVars,
                   historyVars>>

AwaitReady ==
    /\ call = "await_ready"
    /\ phase = "ready"
    /\ Goto("setup")
    /\ UNCHANGED <<objectVars, others, historyVars>>

ClosedBeforeReady ==
    /\ call = "await_ready"
    /\ phase = "stopped"
    /\ LaunchRaises
    /\ UNCHANGED next_request_id

\* stop(force=True).
ReadyTimeout ==
    /\ call = "await_ready"
    /\ phase = "starting"
    /\ stop_reading' = TRUE
    /\ Goto("stop_close")
    /\ UNCHANGED <<stateVars, next_request_id, others, historyVars>>

\* _run_setup, with one command: it is sent like any other exec.
SetupCheck ==
    /\ call = "setup"
    /\ \/ /\ phase = "ready"
          /\ Goto("exec_begin")
          /\ UNCHANGED <<stateVars, stop_reading, others, historyVars>>
       \/ /\ phase # "ready"
          /\ LaunchRaises
    /\ UNCHANGED next_request_id

SetupDone ==
    /\ call = "setup_wait"
    /\ Done
    /\ session' = "active"
    /\ call' = "idle"
    /\ UNCHANGED <<snapDone, launches, objectVars, others, historyVars>>

SetupTimeout ==
    /\ call = "setup_wait"
    /\ ~Done
    /\ LaunchRaises
    /\ UNCHANGED next_request_id

-----------------------------------------------------------------------------
(* exec, send_input, cancel.                                               *)

\* Faulty: exec does not insist on a ready session.
ExecCheckAny ==
    /\ Idle
    /\ next_request_id <= MaxRequests
    /\ phase # "stopped"
    /\ Goto("exec_begin")
    /\ UNCHANGED <<objectVars, others, historyVars>>

\* exec's snapshot.
ExecCheck ==
    /\ Idle
    /\ next_request_id <= MaxRequests
    /\ phase = "ready"
    /\ Goto("exec_begin")
    /\ UNCHANGED <<objectVars, others, historyVars>>

\* begin_request, whatever the phase has become since the snapshot.
ExecBegin ==
    /\ call = "exec_begin"
    /\ phase' = "busy"
    /\ last_result' = NoEvent
    /\ doneReported' = FALSE
    /\ Goto("exec_write")
    /\ UNCHANGED <<output_buffer, next_request_id, stop_reading, others,
                   execId, returned, errorSeen>>

\* _write_request takes an id, and raises when DOSBox-X has gone.
Write(op) ==
    /\ child = "up"
    /\ next_request_id' = next_request_id + 1
    /\ toServer' = Append(toServer, <<next_request_id, op>>)

WriteRaises ==
    /\ child # "up"
    /\ next_request_id' = next_request_id + 1

ExecWrite ==
    /\ call = "exec_write"
    /\ Write("exec")
    /\ execId' = next_request_id
    /\ Goto(IF session = "active" THEN "idle" ELSE "setup_wait")
    /\ UNCHANGED <<stateVars, stop_reading, readerVars, processVars,
                   fromServer, execVars, reportVars, errorSeen>>

\* The exception leaves the session busy.
ExecWriteFails ==
    /\ call = "exec_write"
    /\ WriteRaises
    /\ \/ /\ session = "active"
          /\ Goto("idle")
          /\ UNCHANGED <<stateVars, stop_reading, others, historyVars>>
       \/ /\ session = "none"
          /\ LaunchRaises

\* The snapshot of send_input and of cancel.
InputOrCancelCheck(op) ==
    /\ Idle
    /\ next_request_id <= MaxRequests
    /\ phase = "busy"
    /\ Goto(IF op = "input" THEN "write_input" ELSE "write_cancel")
    /\ UNCHANGED <<objectVars, others, historyVars>>

InputOrCancelWrite(op) ==
    /\ call = IF op = "input" THEN "write_input" ELSE "write_cancel"
    /\ \/ Write(op)
       \/ WriteRaises /\ UNCHANGED toServer
    /\ Goto("idle")
    /\ UNCHANGED <<stateVars, stop_reading, readerVars, processVars,
                   fromServer, execVars, historyVars>>

-----------------------------------------------------------------------------
(* poll.  The loop that waits for the command or the deadline only takes   *)
(* snapshots; the last one is what poll returns.                           *)

PollLook ==
    /\ Idle
    /\ snapDone' = Done
    /\ call' = "poll_drain"
    /\ UNCHANGED <<session, launches, objectVars, others, historyVars>>

\* Faulty: output is returned and kept.
DrainKeeping ==
    /\ returned' = returned \o output_buffer
    /\ UNCHANGED output_buffer

\* drain_output.
Drain ==
    /\ returned' = returned \o output_buffer
    /\ output_buffer' = <<>>

\* Faulty: a poll that returns output can say done for the command although
\* its result has not been recorded.
PollDrainEarlyDone ==
    /\ call = "poll_drain"
    /\ Drain
    /\ doneReported' = (doneReported \/ snapDone \/ output_buffer # <<>>)
    /\ Goto("idle")
    /\ UNCHANGED <<phase, last_result, next_request_id, stop_reading, others,
                   execId, errorSeen>>

PollDrain ==
    /\ call = "poll_drain"
    /\ Drain
    /\ doneReported' = (doneReported \/ snapDone)
    /\ Goto("idle")
    /\ UNCHANGED <<phase, last_result, next_request_id, stop_reading, others,
                   execId, errorSeen>>

-----------------------------------------------------------------------------
(* stop_session: DosboxSession.stop.                                       *)

StopBegin ==
    /\ Idle
    /\ stop_reading' = TRUE
    /\ Goto("stop_close")
    /\ UNCHANGED <<stateVars, next_request_id, others, historyVars>>

StopClose ==
    /\ call = "stop_close"
    /\ connected' = FALSE
    /\ Goto("stop_join")
    /\ UNCHANGED <<objectVars, readerVars, child, orphans, serverVars,
                   historyVars>>

\* The join gives up after five seconds; the process is waited for or killed.
StopJoinAndKill ==
    /\ call = "stop_join"
    /\ child' = "none"
    /\ Goto("stop_mark")
    /\ UNCHANGED <<objectVars, readerVars, orphans, connected, serverVars,
                   historyVars>>

StopMark ==
    /\ call = "stop_mark"
    /\ phase' = "stopped"
    /\ session' = "none"
    /\ call' = "idle"
    /\ UNCHANGED <<snapDone, launches, last_result, output_buffer,
                   next_request_id, stop_reading, others, historyVars>>

-----------------------------------------------------------------------------
(* _read_loop.                                                             *)

ReaderLoop ==
    /\ reader = "loop"
    /\ reader' = IF stop_reading THEN "off" ELSE "reading"
    /\ UNCHANGED <<toolVars, objectVars, inHand, processVars, serverVars,
                   historyVars>>

\* next_event returns an event.
ReaderTake ==
    /\ reader = "reading"
    /\ connected
    /\ fromServer # <<>>
    /\ Head(fromServer).kind # "garbled"
    /\ inHand' = Head(fromServer)
    /\ fromServer' = Tail(fromServer)
    /\ reader' = "record"
    /\ UNCHANGED <<toolVars, objectVars, processVars, toServer, execVars,
                   historyVars>>

\* next_event raises a RuntimeError, which _read_loop lets through: the line
\* is gone and so is the thread, and nobody marks the session stopped.
ReaderRaises ==
    /\ reader = "reading"
    /\ connected
    /\ fromServer # <<>>
    /\ Head(fromServer).kind = "garbled"
    /\ fromServer' = Tail(fromServer)
    /\ reader' = "dead"
    /\ UNCHANGED <<toolVars, objectVars, inHand, processVars, toServer,
                   execVars, historyVars>>

\* next_event times out; this changes something only when the loop is to end.
ReaderTimeout ==
    /\ reader = "reading"
    /\ stop_reading
    /\ reader' = "loop"
    /\ UNCHANGED <<toolVars, objectVars, inHand, processVars, serverVars,
                   historyVars>>

\* next_event returns None: the pipe was closed at this end or at the other.
ReaderEnd ==
    /\ reader = "reading"
    /\ ~connected \/ (child # "up" /\ fromServer = <<>>)
    /\ reader' = "eof"
    /\ UNCHANGED <<toolVars, objectVars, inHand, processVars, serverVars,
                   historyVars>>

ReaderMarkStopped ==
    /\ reader = "eof"
    /\ phase' = "stopped"
    /\ reader' = "off"
    /\ UNCHANGED <<toolVars, last_result, output_buffer, next_request_id,
                   stop_reading, inHand, processVars, serverVars, historyVars>>

\* Faulty: every answer counts as the result of the command.
CompletesAny(e) == e.kind \in {"result", "error", "ack"}

\* Faulty: a result leaves the phase alone.
NextPhaseStuck(e) ==
    IF e.kind = "ready" /\ phase = "starting" THEN "ready" ELSE phase

Completes(e) == e.kind \in {"result", "error"}

NextPhase(e) ==
    IF Completes(e) \/ (e.kind = "ready" /\ phase = "starting")
    THEN "ready" ELSE phase

\* record_event.
ReaderRecord ==
    /\ reader = "record"
    /\ phase' = NextPhase(inHand)
    /\ last_result' = IF Completes(inHand) THEN inHand ELSE last_result
    /\ output_buffer' = IF inHand.kind = "output"
                        THEN Append(output_buffer, inHand.chunk)
                        ELSE output_buffer
    /\ errorSeen' = (errorSeen \/ inHand.kind = "error")
    /\ inHand' = NoEvent
    /\ reader' = "loop"
    /\ UNCHANGED <<toolVars, next_request_id, stop_reading, processVars,
                   serverVars, execId, reportVars>>

-----------------------------------------------------------------------------
(* DOSBox-X.                                                               *)

Send(kind, id, chunk) == fromServer' = Append(fromServer, Event(kind, id, chunk))

\* Its reader thread: exec is queued; cancel is an error when no command is
\* running yet or any more; input is accepted or refused.
ServerReceive ==
    /\ child = "up"
    /\ toServer # <<>>
    /\ toServer' = Tail(toServer)
    /\ LET id == Head(toServer)[1]
           op == Head(toServer)[2]
       IN  \/ /\ op = "exec"
              /\ backlog' = Append(backlog, id)
              /\ UNCHANGED fromServer
           \/ /\ op = "cancel"
              /\ Send(IF executing THEN "ack" ELSE "error", id, 0)
              /\ UNCHANGED backlog
           \/ /\ op = "input"
              /\ \E kind \in {"ack", "error"} : Send(kind, id, 0)
              /\ UNCHANGED backlog
    /\ UNCHANGED <<toolVars, objectVars, readerVars, processVars, running,
                   executing, chunks, historyVars>>

\* Its emulator thread takes the next exec, captures output, clears
\* exec_in_progress when the command returns, and sends the result.
ServerStart ==
    /\ child = "up"
    /\ running = 0
    /\ backlog # <<>>
    /\ running' = Head(backlog)
    /\ executing' = TRUE
    /\ backlog' = Tail(backlog)
    /\ UNCHANGED <<toolVars, objectVars, readerVars, processVars, pipeVars,
                   chunks, historyVars>>

ServerOutput ==
    /\ child = "up"
    /\ running # 0
    /\ chunks < MaxChunks
    /\ chunks' = chunks + 1
    /\ Send("output", running, chunks + 1)
    /\ UNCHANGED <<toolVars, objectVars, readerVars, processVars, toServer,
                   backlog, running, executing, historyVars>>

ServerReturn ==
    /\ child = "up"
    /\ executing
    /\ executing' = FALSE
    /\ UNCHANGED <<toolVars, objectVars, readerVars, processVars, pipeVars,
                   backlog, running, chunks, historyVars>>

ServerResult ==
    /\ child = "up"
    /\ running # 0
    /\ ~executing
    /\ \/ Send("result", running, 0)
       \/ CodePageNames /\ Send("garbled", running, 0)
    /\ running' = 0
    /\ UNCHANGED <<toolVars, objectVars, readerVars, processVars, toServer,
                   backlog, executing, chunks, historyVars>>

\* The shell exits, or the process crashes or is killed by the user.
ServerDies ==
    /\ child = "up"
    /\ connected
    /\ child' = "gone"
    /\ UNCHANGED <<toolVars, objectVars, readerVars, orphans, connected,
                   serverVars, historyVars>>

-----------------------------------------------------------------------------
StartSession ==
    \/ Launch
    \/ Connect
    \/ ConnectFails
    \/ AwaitReady
    \/ ClosedBeforeReady
    \/ ReadyTimeout
    \/ SetupCheck
    \/ SetupDone
    \/ SetupTimeout

Exec == ExecCheck \/ ExecBegin \/ ExecWrite \/ ExecWriteFails
Poll == PollLook \/ PollDrain
SendInput == InputOrCancelCheck("input") \/ InputOrCancelWrite("input")
Cancel == InputOrCancelCheck("cancel") \/ InputOrCancelWrite("cancel")
StopSession == StopBegin \/ StopClose \/ StopJoinAndKill \/ StopMark
Tool == StartSession \/ Exec \/ Poll \/ SendInput \/ Cancel \/ StopSession

ReadLoop ==
    \/ ReaderLoop
    \/ ReaderTake
    \/ ReaderRaises
    \/ ReaderTimeout
    \/ ReaderEnd
    \/ ReaderMarkStopped
    \/ ReaderRecord

Server ==
    \/ ServerReceive
    \/ ServerStart
    \/ ServerOutput
    \/ ServerReturn
    \/ ServerResult
    \/ ServerDies

Next == Tool \/ ReadLoop \/ Server

Spec == Init /\ [][Next]_vars

\* A tool that has been called goes on, both threads are scheduled, and a DOS
\* command that is running returns.  Nobody has to call another tool.
Fairness ==
    /\ WF_vars(call # "idle" /\ Tool)
    /\ WF_vars(ReadLoop)
    /\ WF_vars(ServerReceive)
    /\ WF_vars(ServerStart)
    /\ WF_vars(ServerReturn \/ ServerResult)

FairSpec == Spec /\ Fairness
=============================================================================
