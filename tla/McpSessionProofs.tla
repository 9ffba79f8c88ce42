-------------------------- MODULE McpSessionProofs --------------------------
(***************************************************************************)
(* The MCP session for any number of launches, requests and outputs.       *)
(***************************************************************************)
EXTENDS McpSessionProps, TLAPS

Output(e) == e.kind = "output"
Result(e) == e.kind \in {"result", "garbled"}

\* Outputs are numbered from one, a line that cannot be decoded is in nobody's
\* hands, no tool writes without an id left, and each process was launched
\* once.
TypeInv ==
    /\ TypeOK
    /\ Output(inHand) => inHand.chunk \in 1 .. MaxChunks
    /\ inHand.kind # "garbled"
    /\ \A i \in DOMAIN fromServer :
          Output(fromServer[i]) => fromServer[i].chunk \in 1 .. MaxChunks
    /\ call \in {"connect", "await_ready", "setup"} => next_request_id = 1
    /\ call \in {"exec_begin", "exec_write", "write_input", "write_cancel"}
          => next_request_id <= MaxRequests
    /\ orphans + (IF child = "up" THEN 1 ELSE 0) <= launches

-----------------------------------------------------------------------------
(* A command on its way: asked for in the pipe, queued, running, answered  *)
(* in the pipe back, in the hands of the reader thread.                    *)

Asks(i) == toServer[i][2] = "exec"
Asked == \E i \in DOMAIN toServer : Asks(i)
Queued == backlog # <<>>
Running == running # 0
Answered == \E i \in DOMAIN fromServer : Result(fromServer[i])
InHand == Result(inHand)
Outstanding == Asked \/ Queued \/ Running \/ Answered \/ InHand

\* There is one at a time, in one place ...
Single ==
    /\ \A i, j \in DOMAIN toServer : Asks(i) /\ Asks(j) => i = j
    /\ Len(backlog) <= 1
    /\ \A i, j \in DOMAIN fromServer :
          Result(fromServer[i]) /\ Result(fromServer[j]) => i = j
    /\ Asked => ~Queued /\ ~Running /\ ~Answered /\ ~InHand
    /\ Queued => ~Running /\ ~Answered /\ ~InHand
    /\ Running => ~Answered /\ ~InHand
    /\ Answered => ~InHand

\* ... none while the session may start the next or has the answer ...
Quiet ==
    /\ (phase \in {"starting", "ready"} \/ last_result # NoEvent
          \/ call \in {"exec_begin", "exec_write"}) => ~Outstanding
    /\ call = "exec_write" =>
          last_result = NoEvent /\ phase \notin {"starting", "ready"}

\* ... it is the command started last ...
Latest ==
    /\ \A i \in DOMAIN toServer : Asks(i) => toServer[i][1] = execId
    /\ \A i \in DOMAIN backlog : backlog[i] = execId
    /\ Running => running = execId
    /\ \A i \in DOMAIN fromServer :
          Result(fromServer[i]) => fromServer[i].id = execId
    /\ InHand => inHand.id = execId
    /\ last_result # NoEvent => last_result.id = execId

\* ... and its outputs come before its result.
OutputsFirst ==
    /\ \A i, j \in DOMAIN fromServer :
          Result(fromServer[i]) /\ Output(fromServer[j]) => j < i
    /\ InHand \/ last_result # NoEvent =>
          \A i \in DOMAIN fromServer : ~Output(fromServer[i])
    /\ last_result # NoEvent => ~Output(inHand)

\* Once a poll has seen the result and drained, nothing is left to drain.
Drained ==
    /\ call = "poll_drain" /\ snapDone => last_result # NoEvent
    /\ doneReported => last_result # NoEvent /\ output_buffer = <<>>

Command == Single /\ Quiet /\ Latest /\ OutputsFirst /\ Drained

CommandInv == ~errorSeen => Command

-----------------------------------------------------------------------------
(* Sequences.                                                              *)

LEMMA AppendFacts ==
    ASSUME NEW S, NEW s \in Seq(S), NEW e \in S
    PROVE  /\ Append(s, e) \in Seq(S) /\ Append(s, e) # <<>>
           /\ Len(s) \in Nat /\ Len(Append(s, e)) = Len(s) + 1
           /\ DOMAIN s = 1 .. Len(s)
           /\ DOMAIN Append(s, e) = 1 .. Len(s) + 1
           /\ \A i \in DOMAIN s : Append(s, e)[i] = s[i]
           /\ Append(s, e)[Len(s) + 1] = e
  OBVIOUS

LEMMA TailFacts ==
    ASSUME NEW S, NEW s \in Seq(S), s # <<>>
    PROVE  /\ Head(s) = s[1] /\ 1 \in DOMAIN s /\ s[1] \in S
           /\ Tail(s) \in Seq(S)
           /\ Len(s) \in Nat /\ Len(Tail(s)) = Len(s) - 1
           /\ \A i \in DOMAIN s : i \in Nat /\ i <= Len(s)
           /\ \A i \in DOMAIN Tail(s) : /\ i + 1 \in DOMAIN s
                                        /\ Tail(s)[i] = s[i + 1]
                                        /\ i + 1 # 1
  OBVIOUS

LEMMA EmptySeq ==
    ASSUME NEW S
    PROVE  <<>> \in Seq(S) /\ DOMAIN <<>> = {}
  OBVIOUS

LEMMA ConcatType ==
    ASSUME NEW S, NEW s \in Seq(S), NEW t \in Seq(S)
    PROVE  s \o t \in Seq(S)
  OBVIOUS

-----------------------------------------------------------------------------
(* Types.                                                                  *)

LEMMA EventType ==
    ASSUME NEW kind \in Kinds, NEW id \in Ids,
           NEW chunk \in 0 .. MaxChunks
    PROVE  /\ Event(kind, id, chunk) \in Events
           /\ Event(kind, id, chunk).kind = kind
           /\ Event(kind, id, chunk).id = id
           /\ Event(kind, id, chunk).chunk = chunk
  BY DEF Event, Events, Kinds

LEMMA NoEventFacts ==
    /\ NoEvent \in Events
    /\ NoEvent.kind = "none"
    /\ ~Output(NoEvent) /\ ~Result(NoEvent)
  BY McpAssumption DEF NoEvent, Event, Events, Kinds, Ids, Output, Result

LEMMA NothingFacts ==
    /\ 0 \in Ids /\ 0 \in 0 .. MaxChunks /\ 0 \in 0 .. MaxSessions
    /\ 1 \in 1 .. MaxRequests + 1
    /\ <<>> \in Seq(1 .. MaxChunks) /\ <<>> \in Seq(Ids)
    /\ <<>> \in Seq(Events)
    /\ <<>> \in Seq(Ids \X {"exec", "input", "cancel"})
<1>1. /\ 0 \in Ids /\ 0 \in 0 .. MaxChunks /\ 0 \in 0 .. MaxSessions
      /\ 1 \in 1 .. MaxRequests + 1
  BY McpAssumption DEF Ids
<1>2. <<>> \in Seq(1 .. MaxChunks) /\ <<>> \in Seq(Ids)
  BY EmptySeq
<1>3. <<>> \in Seq(Events)
  BY EmptySeq
<1>4. <<>> \in Seq(Ids \X {"exec", "input", "cancel"})
  BY EmptySeq
<1> QED
  BY <1>1, <1>2, <1>3, <1>4

LEMMA TypeInit == Init => TypeInv
<1> SUFFICES ASSUME Init PROVE TypeInv
  OBVIOUS
<1>1. TypeOK
  BY McpAssumption, NoEventFacts, NothingFacts DEF Init, TypeOK
<1> QED
  BY <1>1, McpAssumption, NoEventFacts, EmptySeq DEF Init, TypeInv

\* What a new session starts with.
LEMMA NewSessionType ==
    ASSUME NewSession
    PROVE  /\ phase' = "starting" /\ last_result' \in Events
           /\ last_result'.kind = "none"
           /\ output_buffer' \in Seq(1 .. MaxChunks)
           /\ next_request_id' = 1 /\ 1 \in 1 .. MaxRequests + 1
           /\ stop_reading' \in BOOLEAN /\ reader' = "off"
           /\ inHand' \in Events /\ inHand'.kind = "none"
           /\ toServer' \in Seq(Ids \X {"exec", "input", "cancel"})
           /\ backlog' \in Seq(Ids) /\ running' \in Ids
           /\ executing' \in BOOLEAN
           /\ fromServer' \in Seq(Events) /\ fromServer' = <<>>
           /\ connected' \in BOOLEAN /\ execId' \in Ids
           /\ chunks' \in 0 .. MaxChunks
           /\ returned' \in Seq(1 .. MaxChunks)
           /\ doneReported' \in BOOLEAN /\ errorSeen' \in BOOLEAN
  BY NoEventFacts, NothingFacts DEF NewSession

\* A step of the tools that leaves the data of the session alone.
LEMMA TypeToolStep ==
    ASSUME TypeInv, \/ ConnectFails \/ AwaitReady \/ ClosedBeforeReady
                    \/ ReadyTimeout \/ SetupCheck \/ SetupDone \/ SetupTimeout
                    \/ ExecCheck \/ InputOrCancelCheck("input")
                    \/ InputOrCancelCheck("cancel") \/ PollLook \/ StopSession
    PROVE  TypeInv'
<1> USE McpAssumption
<1> USE DEF TypeInv, TypeOK, Output, Goto, Idle, objectVars, stateVars, others,
            readerVars, processVars, pipeVars, execVars, serverVars,
            reportVars, historyVars
<1>1. CASE ConnectFails
  BY <1>1 DEF ConnectFails
<1>2. CASE AwaitReady
  BY <1>2 DEF AwaitReady
<1>3. CASE ClosedBeforeReady
  BY <1>3 DEF ClosedBeforeReady, LaunchRaises
<1>4. CASE ReadyTimeout
  BY <1>4 DEF ReadyTimeout
<1>5. CASE SetupCheck
  BY <1>5 DEF SetupCheck, LaunchRaises
<1>6. CASE SetupDone
  BY <1>6 DEF SetupDone
<1>7. CASE SetupTimeout
  BY <1>7 DEF SetupTimeout, LaunchRaises
<1>8. CASE ExecCheck
  BY <1>8 DEF ExecCheck
<1>9. CASE InputOrCancelCheck("input")
  BY <1>9 DEF InputOrCancelCheck
<1>12. CASE InputOrCancelCheck("cancel")
  BY <1>12 DEF InputOrCancelCheck
<1>10. CASE PollLook
  BY <1>10 DEF PollLook, Done
<1>11. CASE StopSession
  <2>1. CASE StopBegin
    BY <2>1 DEF StopBegin
  <2>2. CASE StopClose
    <3>1. connected' \in BOOLEAN
      BY <2>2 DEF StopClose
    <3> QED
      BY <2>2, <3>1 DEF StopClose
  <2>3. CASE StopJoinAndKill
    BY <2>3 DEF StopJoinAndKill
  <2>4. CASE StopMark
    BY <2>4 DEF StopMark
  <2> QED
    BY <1>11, <2>1, <2>2, <2>3, <2>4 DEF StopSession
<1> QED
  BY <1>1, <1>2, <1>3, <1>4, <1>5, <1>6, <1>7, <1>8, <1>9, <1>10, <1>11,
     <1>12

\* The other steps of the tools.
LEMMA TypeDataStep ==
    ASSUME TypeInv, \/ Launch \/ Connect \/ ExecBegin \/ ExecWrite
                    \/ ExecWriteFails \/ InputOrCancelWrite("input")
                    \/ InputOrCancelWrite("cancel") \/ PollDrain
    PROVE  TypeInv'
<1> USE McpAssumption
<1> USE DEF TypeInv, TypeOK, Output, Goto, Idle, objectVars, stateVars, others,
            readerVars, processVars, pipeVars, execVars, serverVars,
            reportVars, historyVars
<1>1. CASE Launch
  <2>1. NewSession /\ orphans' = orphans /\ launches' = launches + 1
        /\ launches' \in 0 .. MaxSessions /\ call' = "connect"
        /\ child' = "up" /\ session' = session /\ snapDone' = snapDone
    BY <1>1 DEF Launch
  <2> QED
    BY <2>1, NewSessionType, EmptySeq
<1>2. CASE Connect
  <2>1. Event("ready", 0, 0) \in Events /\ Event("ready", 0, 0).kind = "ready"
    BY NothingFacts DEF Event, Events, Kinds
  <2>2. /\ fromServer' = <<Event("ready", 0, 0)>> /\ fromServer' \in Seq(Events)
        /\ DOMAIN fromServer' = {1} /\ fromServer'[1] = Event("ready", 0, 0)
    BY <1>2, <2>1 DEF Connect
  <2>3. connected' = TRUE /\ reader' = "loop"
    BY <1>2 DEF Connect
  <2> QED
    BY <1>2, <2>1, <2>2, <2>3 DEF Connect
<1>3. CASE ExecBegin
  <2>1. doneReported' \in BOOLEAN /\ last_result' \in Events
        /\ last_result'.kind = "none"
    BY <1>3, NoEventFacts DEF ExecBegin
  <2> QED
    BY <1>3, <2>1 DEF ExecBegin
<1>4. CASE ExecWrite
  <2>1. /\ next_request_id \in Ids
        /\ next_request_id + 1 \in 1 .. MaxRequests + 1
        /\ <<next_request_id, "exec">> \in Ids \X {"exec", "input", "cancel"}
    BY <1>4 DEF ExecWrite, Ids
  <2>2. /\ toServer' \in Seq(Ids \X {"exec", "input", "cancel"})
        /\ next_request_id' = next_request_id + 1 /\ execId' \in Ids
    BY <1>4, <2>1, AppendFacts DEF ExecWrite, Write
  <2> QED
    BY <1>4, <2>1, <2>2 DEF ExecWrite
<1>5. CASE ExecWriteFails
  <2>1. next_request_id' = next_request_id + 1
        /\ next_request_id + 1 \in 1 .. MaxRequests + 1
    BY <1>5 DEF ExecWriteFails, WriteRaises
  <2>2. CASE session = "active" /\ call' = "idle"
    BY <1>5, <2>1, <2>2 DEF ExecWriteFails, LaunchRaises
  <2>3. CASE LaunchRaises
    BY <1>5, <2>1, <2>3 DEF LaunchRaises
  <2> QED
    BY <1>5, <2>2, <2>3 DEF ExecWriteFails
<1>6. ASSUME NEW op \in {"input", "cancel"}, InputOrCancelWrite(op)
      PROVE  TypeInv'
  <2>1. call \in {"write_input", "write_cancel"}
    BY <1>6 DEF InputOrCancelWrite
  <2>0. next_request_id \in 1 .. MaxRequests
    BY <2>1
  <2>2. /\ next_request_id \in Ids
        /\ next_request_id + 1 \in 1 .. MaxRequests + 1
        /\ <<next_request_id, op>> \in Ids \X {"exec", "input", "cancel"}
    BY <1>6, <2>0, McpAssumption DEF Ids
  <2>3. next_request_id' = next_request_id + 1
    BY <1>6 DEF InputOrCancelWrite, Write, WriteRaises
  <2>4. toServer' = Append(toServer, <<next_request_id, op>>)
            \/ toServer' = toServer
    BY <1>6 DEF InputOrCancelWrite, Write
  <2>5. toServer' \in Seq(Ids \X {"exec", "input", "cancel"})
    <3>1. ASSUME NEW r \in Ids \X {"exec", "input", "cancel"}
          PROVE  Append(toServer, r) \in Seq(Ids \X {"exec", "input", "cancel"})
      BY AppendFacts
    <3> QED
      BY <2>2, <2>4, <3>1
  <2> QED
    BY <1>6, <2>2, <2>3, <2>5 DEF InputOrCancelWrite
<1>7. CASE PollDrain
  <2>1. /\ returned' \in Seq(1 .. MaxChunks)
        /\ output_buffer' \in Seq(1 .. MaxChunks)
    BY <1>7, ConcatType, NothingFacts DEF PollDrain, Drain
  <2>2. doneReported' \in BOOLEAN
    BY <1>7 DEF PollDrain
  <2> QED
    BY <1>7, <2>1, <2>2 DEF PollDrain
<1> QED
  BY <1>1, <1>2, <1>3, <1>4, <1>5, <1>6, <1>7

LEMMA TypeReaderStep ==
    ASSUME TypeInv, ReadLoop
    PROVE  TypeInv'
<1> USE McpAssumption
<1> USE DEF TypeInv, TypeOK, Output, objectVars, stateVars, toolVars,
            readerVars, processVars, pipeVars, execVars, serverVars,
            reportVars, historyVars
<1>1. CASE ReaderLoop
  BY <1>1 DEF ReaderLoop
<1>2. CASE ReaderTake
  <2>1. /\ 1 \in DOMAIN fromServer
        /\ inHand' = fromServer[1] /\ inHand' \in Events
        /\ fromServer' = Tail(fromServer) /\ fromServer' \in Seq(Events)
        /\ \A i \in DOMAIN fromServer' : /\ i + 1 \in DOMAIN fromServer
                                         /\ fromServer'[i] = fromServer[i + 1]
    BY <1>2, TailFacts DEF ReaderTake
  <2> QED
    BY <1>2, <2>1 DEF ReaderTake
<1>3. CASE ReaderTimeout
  BY <1>3 DEF ReaderTimeout
<1>4. CASE ReaderEnd
  BY <1>4 DEF ReaderEnd
<1>5. CASE ReaderMarkStopped
  BY <1>5 DEF ReaderMarkStopped
<1>6. CASE ReaderRecord
  <2>1. phase' \in {"starting", "ready", "busy", "stopped"}
    BY <1>6 DEF ReaderRecord, NextPhase
  <2>2. /\ last_result' \in Events
        /\ last_result'.kind \in {"none", "result", "error"}
    BY <1>6 DEF ReaderRecord, Completes
  <2>3. output_buffer' \in Seq(1 .. MaxChunks)
    BY <1>6, AppendFacts DEF ReaderRecord
  <2>4. errorSeen' \in BOOLEAN
    BY <1>6 DEF ReaderRecord
  <2>5. inHand' \in Events /\ inHand'.kind = "none"
    BY <1>6, NoEventFacts DEF ReaderRecord
  <2> QED
    BY <1>6, <2>1, <2>2, <2>3, <2>4, <2>5 DEF ReaderRecord
<1>7. CASE ReaderRaises
  <2>1. /\ fromServer' = Tail(fromServer) /\ fromServer' \in Seq(Events)
        /\ \A i \in DOMAIN fromServer' : /\ i + 1 \in DOMAIN fromServer
                                         /\ fromServer'[i] = fromServer[i + 1]
    BY <1>7, TailFacts DEF ReaderRaises
  <2> QED
    BY <1>7, <2>1 DEF ReaderRaises
<1> QED
  BY <1>1, <1>2, <1>3, <1>4, <1>5, <1>6, <1>7 DEF ReadLoop

\* What the server sends is an event.
LEMMA SendType ==
    ASSUME TypeInv, NEW kind \in Kinds,
           NEW id \in Ids, NEW chunk \in 0 .. MaxChunks, Send(kind, id, chunk),
           kind = "output" => chunk \in 1 .. MaxChunks
    PROVE  /\ fromServer' \in Seq(Events)
           /\ \A i \in DOMAIN fromServer' :
                 Output(fromServer'[i]) => fromServer'[i].chunk \in 1 .. MaxChunks
<1> DEFINE e == Event(kind, id, chunk)
<1>1. e \in Events /\ e.kind = kind /\ e.chunk = chunk
  BY EventType
<1>2. fromServer \in Seq(Events) /\ fromServer' = Append(fromServer, e)
  BY DEF Send, TypeInv, TypeOK
<1> HIDE DEF e
<1>3. /\ fromServer' \in Seq(Events)
      /\ \A i \in DOMAIN fromServer' :
            \/ i \in DOMAIN fromServer /\ fromServer'[i] = fromServer[i]
            \/ fromServer'[i] = e
  BY <1>1, <1>2, AppendFacts
<1> QED
  BY <1>1, <1>3 DEF TypeInv, Output

LEMMA TypeServerStep ==
    ASSUME TypeInv, Server
    PROVE  TypeInv'
<1> USE McpAssumption
<1> USE DEF TypeInv, TypeOK, objectVars, stateVars, toolVars, readerVars,
            processVars, pipeVars, execVars, serverVars, reportVars, historyVars
<1>1. CASE ServerReceive
  <2> DEFINE id == Head(toServer)[1]
  <2>1. id \in Ids /\ toServer' \in Seq(Ids \X {"exec", "input", "cancel"})
    BY <1>1, TailFacts DEF ServerReceive
  <2>2. CASE backlog' = Append(backlog, id) /\ UNCHANGED fromServer
    <3>1. backlog' \in Seq(Ids)
      BY <2>1, <2>2, AppendFacts
    <3> QED
      BY <1>1, <2>1, <2>2, <3>1 DEF ServerReceive
  <2>3. ASSUME NEW kind \in {"ack", "error"}, Send(kind, id, 0),
               UNCHANGED backlog
        PROVE  TypeInv'
    <3>1. /\ fromServer' \in Seq(Events)
          /\ \A i \in DOMAIN fromServer' :
                Output(fromServer'[i]) => fromServer'[i].chunk \in 1 .. MaxChunks
      BY <2>1, <2>3, SendType, NothingFacts DEF Kinds
    <3> HIDE DEF id
    <3> QED
      BY <1>1, <2>1, <2>3, <3>1 DEF ServerReceive
  <2> QED
    BY <1>1, <2>2, <2>3 DEF ServerReceive
<1>2. CASE ServerStart
  <2>1. running' \in Ids /\ backlog' \in Seq(Ids) /\ executing' \in BOOLEAN
    BY <1>2, TailFacts DEF ServerStart
  <2> QED
    BY <1>2, <2>1 DEF ServerStart
<1>3. CASE ServerOutput
  <2>1. chunks + 1 \in 1 .. MaxChunks /\ chunks + 1 \in 0 .. MaxChunks
    BY <1>3 DEF ServerOutput
  <2>2. /\ fromServer' \in Seq(Events)
        /\ \A i \in DOMAIN fromServer' :
              Output(fromServer'[i]) => fromServer'[i].chunk \in 1 .. MaxChunks
    BY <1>3, <2>1, SendType DEF ServerOutput, Kinds
  <2> QED
    BY <1>3, <2>1, <2>2 DEF ServerOutput
<1>4. CASE ServerReturn
  <2>1. executing' \in BOOLEAN
    BY <1>4 DEF ServerReturn
  <2> QED
    BY <1>4, <2>1 DEF ServerReturn
<1>5. CASE ServerResult
  <2>1. /\ fromServer' \in Seq(Events)
        /\ \A i \in DOMAIN fromServer' :
              Output(fromServer'[i]) => fromServer'[i].chunk \in 1 .. MaxChunks
    <3>1. PICK kind \in {"result", "garbled"} : Send(kind, running, 0)
      BY <1>5 DEF ServerResult
    <3>2. kind \in Kinds
      BY <3>1 DEF Kinds
    <3> QED
      BY <3>1, <3>2, SendType, NothingFacts
  <2> QED
    BY <1>5, <2>1, NothingFacts DEF ServerResult
<1>6. CASE ServerDies
  BY <1>6 DEF ServerDies
<1> QED
  BY <1>1, <1>2, <1>3, <1>4, <1>5, <1>6 DEF Server

LEMMA TypeStep == TypeInv /\ [Next]_vars => TypeInv'
<1> SUFFICES ASSUME TypeInv, [Next]_vars PROVE TypeInv'
  OBVIOUS
<1>1. CASE Tool
  BY <1>1, TypeToolStep, TypeDataStep
  DEF Tool, StartSession, Exec, Poll, SendInput, Cancel
<1>2. CASE ReadLoop
  BY <1>2, TypeReaderStep
<1>3. CASE Server
  BY <1>3, TypeServerStep
<1>4. CASE UNCHANGED vars
  BY <1>4 DEF TypeInv, TypeOK, vars, toolVars, objectVars, stateVars, others,
              readerVars, processVars, pipeVars, execVars, serverVars,
              reportVars, historyVars
<1> QED
  BY <1>1, <1>2, <1>3, <1>4 DEF Next

(* Every variable of the session, its threads and its process keeps its    *)
(* type: no tool writes a request without an id.                           *)
THEOREM TypeCorrect == Spec => []TypeOK
<1>1. TypeInv => TypeOK
  BY DEF TypeInv
<1> QED
  BY <1>1, TypeInit, TypeStep, PTL DEF Spec

-----------------------------------------------------------------------------
(* One command at a time.                                                  *)

LEMMA CommandInit == Init => CommandInv
<1> SUFFICES ASSUME Init PROVE CommandInv
  OBVIOUS
<1> QED
  BY NoEventFacts, EmptySeq
  DEF Init, CommandInv, Command, Single, Quiet, Latest, OutputsFirst, Drained,
      Asks, Asked, Queued, Running, Answered, InHand, Outstanding

\* A step that moves no request and no event keeps the invariant if it starts
\* no command outside a quiet session.
LEMMA CommandFrame ==
    ASSUME CommandInv,
           UNCHANGED <<toServer, backlog, running, fromServer, inHand,
                       last_result, output_buffer, execId, doneReported,
                       errorSeen>>,
           phase' \in {phase, "stopped"},
           call' = "exec_begin" => call = "exec_begin" \/ phase = "ready",
           call' = "exec_write" => call = "exec_write",
           call' = "poll_drain" /\ snapDone' => last_result # NoEvent
    PROVE  CommandInv'
<1> QED
  BY DEF CommandInv, Command, Single, Quiet, Latest, OutputsFirst, Drained,
         Asks, Asked, Queued, Running, Answered, InHand, Outstanding

LEMMA CommandToolStep ==
    ASSUME TypeInv, CommandInv,
           \/ ConnectFails \/ AwaitReady \/ ClosedBeforeReady
           \/ ReadyTimeout \/ SetupCheck \/ SetupDone \/ SetupTimeout
           \/ ExecCheck \/ ExecWriteFails \/ InputOrCancelCheck("input")
           \/ InputOrCancelCheck("cancel") \/ PollLook \/ StopSession
    PROVE  CommandInv'
<1> USE DEF Goto, Idle, objectVars, stateVars, others, readerVars, processVars,
            pipeVars, execVars, serverVars, reportVars, historyVars
<1>1. /\ UNCHANGED <<toServer, backlog, running, fromServer, inHand,
                     last_result, output_buffer, execId, doneReported,
                     errorSeen>>
      /\ phase' \in {phase, "stopped"}
      /\ call' = "exec_begin" => phase = "ready"
      /\ call' # "exec_write"
      /\ call' = "poll_drain" /\ snapDone' => last_result # NoEvent
  <2>1. CASE ConnectFails \/ AwaitReady \/ ClosedBeforeReady \/ ReadyTimeout
    BY <2>1 DEF ConnectFails, AwaitReady, ClosedBeforeReady, ReadyTimeout,
                LaunchRaises
  <2>2. CASE SetupCheck
    BY <2>2 DEF SetupCheck, LaunchRaises
  <2>3. CASE SetupDone \/ SetupTimeout \/ ExecCheck
    BY <2>3 DEF SetupDone, SetupTimeout, ExecCheck, LaunchRaises
  <2>4. CASE ExecWriteFails
    BY <2>4 DEF ExecWriteFails, LaunchRaises
  <2>5. CASE InputOrCancelCheck("input")
    BY <2>5 DEF InputOrCancelCheck
  <2>6. CASE InputOrCancelCheck("cancel")
    BY <2>6 DEF InputOrCancelCheck
  <2>7. CASE PollLook
    <3>1. snapDone' = (last_result # NoEvent) /\ call' = "poll_drain"
      BY <2>7 DEF PollLook, Done
    <3> QED
      BY <2>7, <3>1 DEF PollLook
  <2>8. CASE StopSession
    BY <2>8 DEF StopSession, StopBegin, StopClose, StopJoinAndKill, StopMark
  <2> QED
    BY <2>1, <2>2, <2>3, <2>4, <2>5, <2>6, <2>7, <2>8
<1> QED
  BY <1>1, CommandFrame

\* What the pipes hold after a step that puts something in or takes something
\* out.
LEMMA RequestAdded ==
    ASSUME TypeInv, NEW r \in Ids \X {"exec", "input", "cancel"},
           toServer' = Append(toServer, r)
    PROVE  /\ Len(toServer) \in Nat
           /\ DOMAIN toServer = 1 .. Len(toServer)
           /\ DOMAIN toServer' = 1 .. Len(toServer) + 1
           /\ \A i \in DOMAIN toServer : toServer'[i] = toServer[i]
           /\ toServer'[Len(toServer) + 1] = r
  BY AppendFacts DEF TypeInv, TypeOK

LEMMA EventSent ==
    ASSUME TypeInv, NEW kind \in Kinds,
           NEW id \in Ids, NEW chunk \in 0 .. MaxChunks, Send(kind, id, chunk)
    PROVE  /\ Len(fromServer) \in Nat
           /\ DOMAIN fromServer = 1 .. Len(fromServer)
           /\ DOMAIN fromServer' = 1 .. Len(fromServer) + 1
           /\ \A i \in DOMAIN fromServer : fromServer'[i] = fromServer[i]
           /\ fromServer'[Len(fromServer) + 1].kind = kind
           /\ fromServer'[Len(fromServer) + 1].id = id
<1> DEFINE e == Event(kind, id, chunk)
<1>1. e \in Events /\ e.kind = kind /\ e.id = id
  BY EventType
<1>2. fromServer \in Seq(Events) /\ fromServer' = Append(fromServer, e)
  BY DEF Send, TypeInv, TypeOK
<1> HIDE DEF e
<1> QED
  BY <1>1, <1>2, AppendFacts

LEMMA EventTaken ==
    ASSUME TypeInv, fromServer # <<>>, fromServer' = Tail(fromServer)
    PROVE  /\ Head(fromServer) = fromServer[1] /\ 1 \in DOMAIN fromServer
           /\ \A i \in DOMAIN fromServer : i \in Nat
           /\ \A i \in DOMAIN fromServer' :
                 /\ i + 1 \in DOMAIN fromServer /\ i + 1 # 1
                 /\ fromServer'[i] = fromServer[i + 1] /\ i \in Int
  BY TailFacts DEF TypeInv, TypeOK

LEMMA RequestTaken ==
    ASSUME TypeInv, toServer # <<>>, toServer' = Tail(toServer)
    PROVE  /\ Head(toServer) = toServer[1] /\ 1 \in DOMAIN toServer
           /\ \A i \in DOMAIN toServer' :
                 /\ i + 1 \in DOMAIN toServer /\ i + 1 # 1
                 /\ toServer'[i] = toServer[i + 1] /\ i \in Int
  BY TailFacts DEF TypeInv, TypeOK

LEMMA CommandDataStep ==
    ASSUME TypeInv, CommandInv,
           \/ Launch \/ Connect \/ ExecBegin \/ ExecWrite
           \/ InputOrCancelWrite("input") \/ InputOrCancelWrite("cancel")
           \/ PollDrain
    PROVE  CommandInv'
<1> USE DEF CommandInv, Command, Single, Quiet, Latest, OutputsFirst, Drained,
            Asks, Asked, Queued, Running, Answered, InHand, Outstanding
<1> USE DEF Goto, objectVars, stateVars, others, readerVars, processVars,
            pipeVars, execVars, serverVars, reportVars, historyVars
<1>1. CASE Launch
  <2>1. NewSession /\ call' = "connect"
    BY <1>1 DEF Launch
  <2> QED
    BY <2>1, NoEventFacts, EmptySeq DEF NewSession
<1>2. CASE Connect
  <2>1. Event("ready", 0, 0).kind = "ready"
    BY DEF Event
  <2>2. /\ DOMAIN fromServer' = {1}
        /\ ~Output(fromServer'[1]) /\ ~Result(fromServer'[1])
    BY <1>2, <2>1 DEF Connect, Output, Result
  <2>3. /\ call' = "await_ready"
        /\ UNCHANGED <<toServer, backlog, running, inHand, phase, last_result,
                       output_buffer, execId, doneReported, errorSeen>>
    BY <1>2 DEF Connect
  <2> QED
    BY <2>2, <2>3
<1>3. CASE ExecBegin
  <2>1. /\ UNCHANGED <<toServer, backlog, running, fromServer, inHand,
                       output_buffer, execId, errorSeen>>
        /\ call = "exec_begin" /\ call' = "exec_write" /\ phase' = "busy"
        /\ last_result' = NoEvent /\ ~doneReported'
    BY <1>3 DEF ExecBegin
  <2> QED
    BY <2>1
<1>4. CASE ExecWrite
  <2> DEFINE r == <<next_request_id, "exec">>
  <2>1. r \in Ids \X {"exec", "input", "cancel"}
        /\ r[1] = next_request_id /\ r[2] = "exec"
    BY <1>4 DEF ExecWrite, TypeInv, TypeOK, Ids
  <2>2. /\ toServer' = Append(toServer, r) /\ execId' = r[1]
        /\ UNCHANGED <<backlog, running, fromServer, inHand, phase, last_result,
                       output_buffer, doneReported, errorSeen>>
        /\ call = "exec_write" /\ call' \in {"idle", "setup_wait"}
    BY <1>4 DEF ExecWrite, Write
  <2> HIDE DEF r
  <2>3. errorSeen \/ (~Outstanding /\ last_result = NoEvent /\ ~doneReported)
    BY <2>2
  <2> QED
    BY <2>1, <2>2, <2>3, RequestAdded
<1>5. ASSUME NEW op \in {"input", "cancel"}, InputOrCancelWrite(op)
      PROVE  CommandInv'
  <2>1. /\ call \in {"write_input", "write_cancel"} /\ call' = "idle"
        /\ UNCHANGED <<backlog, running, fromServer, inHand, phase, last_result,
                       output_buffer, execId, doneReported, errorSeen>>
        /\ \/ toServer' = toServer
           \/ toServer' = Append(toServer, <<next_request_id, op>>)
    BY <1>5 DEF InputOrCancelWrite, Write
  <2>2. CASE toServer' = toServer
    BY <2>1, <2>2
  <2>3. ASSUME NEW r \in Ids \X {"exec", "input", "cancel"}, r[2] # "exec",
               toServer' = Append(toServer, r)
        PROVE  CommandInv'
    BY <2>1, <2>3, RequestAdded
  <2>4. <<next_request_id, op>> \in Ids \X {"exec", "input", "cancel"}
    BY <1>5, <2>1 DEF TypeInv, TypeOK, Ids
  <2> QED
    BY <1>5, <2>1, <2>2, <2>3, <2>4
<1>6. CASE PollDrain
  <2>1. /\ UNCHANGED <<toServer, backlog, running, fromServer, inHand, phase,
                       last_result, execId, errorSeen>>
        /\ call = "poll_drain" /\ call' = "idle"
        /\ output_buffer' = <<>>
        /\ doneReported' => doneReported \/ snapDone
    BY <1>6 DEF PollDrain, Drain
  <2> QED
    BY <2>1
<1> QED
  BY <1>1, <1>2, <1>3, <1>4, <1>5, <1>6

LEMMA CommandReaderStep ==
    ASSUME TypeInv, CommandInv, ReadLoop
    PROVE  CommandInv'
<1> USE DEF toolVars, objectVars, stateVars, readerVars, processVars, pipeVars,
            execVars, serverVars, reportVars, historyVars
<1>1. CASE ReaderLoop \/ ReaderTimeout \/ ReaderEnd \/ ReaderMarkStopped
  <2>1. /\ UNCHANGED <<toServer, backlog, running, fromServer, inHand,
                       last_result, output_buffer, execId, doneReported,
                       errorSeen, call, snapDone>>
        /\ phase' \in {phase, "stopped"}
    BY <1>1 DEF ReaderLoop, ReaderTimeout, ReaderEnd, ReaderMarkStopped
  <2>2. CommandInv => (call = "poll_drain" /\ snapDone => last_result # NoEvent)
                      \/ errorSeen
    BY DEF CommandInv, Command, Drained
  <2>3. CASE errorSeen
    BY <2>1, <2>3 DEF CommandInv
  <2> QED
    BY <2>1, <2>2, <2>3, CommandFrame
<1>2. CASE ReaderTake
  <2>1. /\ UNCHANGED <<toServer, backlog, running, phase, last_result,
                       output_buffer, execId, doneReported, errorSeen, call,
                       snapDone>>
        /\ fromServer # <<>> /\ inHand' = Head(fromServer)
        /\ fromServer' = Tail(fromServer)
    BY <1>2 DEF ReaderTake
  <2>2. CASE errorSeen
    BY <2>1, <2>2 DEF CommandInv
  <2>3. CASE Command
    <3>1. Single'
      BY <2>1, <2>3, EventTaken DEF Command, Single, Asks, Asked, Queued,
         Running, Answered, InHand
    <3>2. Quiet'
      BY <2>1, <2>3, EventTaken DEF Command, Quiet, Asks, Asked, Queued,
         Running, Answered, InHand, Outstanding
    <3>3. Latest'
      BY <2>1, <2>3, EventTaken DEF Command, Latest, Asks, Running, InHand
    <3>4. OutputsFirst'
      BY <2>1, <2>3, EventTaken DEF Command, OutputsFirst, Single,
         Quiet, Outstanding, Answered, InHand
    <3>5. Drained'
      BY <2>1, <2>3 DEF Command, Drained
    <3> QED
      BY <3>1, <3>2, <3>3, <3>4, <3>5 DEF CommandInv, Command
  <2> QED
    BY <2>2, <2>3 DEF CommandInv
<1>3. CASE ReaderRecord
  <2>1. /\ UNCHANGED <<toServer, backlog, running, fromServer, execId,
                       doneReported, call, snapDone>>
        /\ inHand' = NoEvent
        /\ phase' = NextPhase(inHand)
        /\ last_result' = IF Completes(inHand) THEN inHand ELSE last_result
        /\ output_buffer' = IF inHand.kind = "output"
                            THEN Append(output_buffer, inHand.chunk)
                            ELSE output_buffer
    BY <1>3 DEF ReaderRecord
  <2>2. errorSeen' = (errorSeen \/ inHand.kind = "error")
    BY <1>3 DEF ReaderRecord
  <2>3. CASE errorSeen'
    BY <2>3 DEF CommandInv
  <2>4. CASE ~errorSeen'
    <3>1. Command /\ (Completes(inHand) <=> InHand)
      BY <2>2, <2>4 DEF CommandInv, Completes, InHand, Result, TypeInv
    <3>2. Single'
      BY <2>1, <3>1, NoEventFacts DEF Command, Single, Asks, Asked, Queued,
         Running, Answered, InHand
    <3>3. Quiet'
      BY <2>1, <3>1, NoEventFacts DEF Command, Single, Quiet, Asks, Asked,
         Queued, Running, Answered, InHand, Outstanding, NextPhase
    <3>4. Latest'
      BY <2>1, <3>1, NoEventFacts DEF Command, Latest, Asks, Running, InHand
    <3>5. OutputsFirst'
      BY <2>1, <3>1, NoEventFacts DEF Command, OutputsFirst, InHand
    <3>6. Drained'
      <4>1. last_result # NoEvent => last_result' # NoEvent
        BY <2>1, <3>1, NoEventFacts DEF InHand
      <4>2. last_result # NoEvent => output_buffer' = output_buffer
        BY <2>1, <3>1 DEF Command, OutputsFirst, Output
      <4> QED
        BY <2>1, <3>1, <4>1, <4>2 DEF Command, Drained
    <3> QED
      BY <3>2, <3>3, <3>4, <3>5, <3>6 DEF CommandInv, Command
  <2> QED
    BY <2>3, <2>4
<1>4. CASE ReaderRaises
  <2>1. /\ UNCHANGED <<toServer, backlog, running, phase, last_result,
                       output_buffer, execId, doneReported, errorSeen, call,
                       snapDone, inHand>>
        /\ fromServer # <<>> /\ fromServer' = Tail(fromServer)
    BY <1>4 DEF ReaderRaises
  <2>2. CASE errorSeen
    BY <2>1, <2>2 DEF CommandInv
  <2>3. CASE Command
    <3>1. Single'
      BY <2>1, <2>3, EventTaken DEF Command, Single, Asks, Asked, Queued,
         Running, Answered, InHand
    <3>2. Quiet'
      BY <2>1, <2>3, EventTaken DEF Command, Quiet, Asks, Asked, Queued,
         Running, Answered, InHand, Outstanding
    <3>3. Latest'
      BY <2>1, <2>3, EventTaken DEF Command, Latest, Asks, Running, InHand
    <3>4. OutputsFirst'
      BY <2>1, <2>3, EventTaken DEF Command, OutputsFirst, InHand
    <3>5. Drained'
      BY <2>1, <2>3 DEF Command, Drained
    <3> QED
      BY <3>1, <3>2, <3>3, <3>4, <3>5 DEF CommandInv, Command
  <2> QED
    BY <2>2, <2>3 DEF CommandInv
<1> QED
  BY <1>1, <1>2, <1>3, <1>4 DEF ReadLoop

LEMMA CommandServerStep ==
    ASSUME TypeInv, CommandInv, Server
    PROVE  CommandInv'
<1> USE DEF toolVars, objectVars, stateVars, readerVars, processVars, pipeVars,
            execVars, serverVars, reportVars, historyVars
<1>0. errorSeen' = errorSeen
  BY DEF Server, ServerReceive, ServerStart, ServerOutput, ServerReturn,
         ServerResult, ServerDies
<1>1. SUFFICES ASSUME ~errorSeen PROVE Command'
  BY <1>0 DEF CommandInv
<1>2. Command
  BY <1>1 DEF CommandInv
<1> USE DEF Command, Single, Quiet, Latest, OutputsFirst, Drained, Asks, Asked,
            Queued, Running, Answered, InHand, Outstanding
<1>3. CASE ServerReceive
  <2> DEFINE id == Head(toServer)[1]
             op == Head(toServer)[2]
  <2>1. /\ UNCHANGED <<phase, last_result, output_buffer, execId, doneReported,
                       call, snapDone, inHand, running>>
        /\ toServer # <<>> /\ toServer' = Tail(toServer)
    BY <1>3 DEF ServerReceive
  <2>2. CASE /\ op = "exec" /\ backlog' = Append(backlog, id)
             /\ UNCHANGED fromServer
    <3>1. backlog = <<>> /\ backlog' = <<id>> /\ id = execId
      <4>1. 1 \in DOMAIN toServer /\ Asks(1) /\ id = toServer[1][1]
        BY <2>1, <2>2, RequestTaken
      <4>2. backlog = <<>> /\ id = execId
        BY <1>2, <4>1
      <4> HIDE DEF id
      <4> QED
        BY <2>2, <4>2
    <3>2. backlog' # <<>> /\ Len(backlog') = 1 /\ DOMAIN backlog' = {1}
          /\ backlog'[1] = execId
      BY <3>1
    <3> QED
      BY <1>2, <2>1, <2>2, <3>1, <3>2, RequestTaken
  <2>3. ASSUME op # "exec", NEW kind \in {"ack", "error"}, Send(kind, id, 0),
               UNCHANGED backlog
        PROVE  Command'
    <3>1. id \in Ids /\ 0 \in 0 .. MaxChunks
      BY <2>1, TailFacts, NothingFacts DEF TypeInv, TypeOK
    <3> HIDE DEF id
    <3>2. /\ Len(fromServer) \in Nat
          /\ DOMAIN fromServer = 1 .. Len(fromServer)
          /\ DOMAIN fromServer' = 1 .. Len(fromServer) + 1
          /\ \A i \in DOMAIN fromServer : fromServer'[i] = fromServer[i]
          /\ ~Result(fromServer'[Len(fromServer) + 1])
          /\ ~Output(fromServer'[Len(fromServer) + 1])
      BY <2>3, <3>1, EventSent DEF Result, Output, Kinds
    <3>3. \A i \in DOMAIN toServer' : /\ i + 1 \in DOMAIN toServer /\ i \in Int
                                      /\ toServer'[i] = toServer[i + 1]
      BY <2>1, RequestTaken
    <3>4. Single'
      <4>1. Asked' => Asked
        BY <3>3
      <4>2. Answered' => Answered
        BY <3>2
      <4>3. \A i, j \in DOMAIN toServer' : Asks(i)' /\ Asks(j)' => i = j
        BY <1>2, <3>3
      <4>4. \A i, j \in DOMAIN fromServer' :
               Result(fromServer[i])' /\ Result(fromServer[j])' => i = j
        BY <1>2, <3>2
      <4> QED
        BY <1>2, <2>1, <2>3, <4>1, <4>2, <4>3, <4>4
    <3>5. Quiet'
      BY <1>2, <2>1, <2>3, <3>2, <3>3
    <3>6. Latest'
      BY <1>2, <2>1, <2>3, <3>2, <3>3
    <3>7. OutputsFirst'
      <4>1. \A i \in DOMAIN fromServer' :
               Result(fromServer'[i]) \/ Output(fromServer'[i]) =>
                  i \in DOMAIN fromServer /\ fromServer'[i] = fromServer[i]
        BY <3>2
      <4>2. \A i, j \in DOMAIN fromServer' :
               Result(fromServer'[i]) /\ Output(fromServer'[j]) => j < i
        BY <1>2, <4>1
      <4> QED
        BY <1>2, <2>1, <4>1, <4>2
    <3>8. Drained'
      BY <1>2, <2>1
    <3> QED
      BY <3>4, <3>5, <3>6, <3>7, <3>8
  <2> QED
    BY <1>3, <2>2, <2>3 DEF ServerReceive
<1>4. CASE ServerStart
  <2>1. /\ UNCHANGED <<toServer, fromServer, phase, last_result, output_buffer,
                       execId, doneReported, call, snapDone, inHand>>
        /\ backlog # <<>> /\ running' = Head(backlog)
        /\ backlog' = Tail(backlog)
    BY <1>4 DEF ServerStart
  <2>2. backlog' = <<>> /\ running' = execId
    BY <1>2, <2>1 DEF TypeInv, TypeOK
  <2> QED
    BY <1>2, <2>1, <2>2, EmptySeq
<1>5. CASE ServerOutput
  <2>1. /\ UNCHANGED <<toServer, backlog, running, phase, last_result,
                       output_buffer, execId, doneReported, call, snapDone,
                       inHand>>
        /\ running # 0 /\ running \in Ids /\ chunks \in 0 .. MaxChunks
        /\ chunks < MaxChunks /\ Send("output", running, chunks + 1)
    BY <1>5 DEF ServerOutput, TypeInv, TypeOK
  <2>3. chunks + 1 \in 0 .. MaxChunks
    BY <2>1, McpAssumption
  <2>2. /\ Len(fromServer) \in Nat
        /\ DOMAIN fromServer = 1 .. Len(fromServer)
        /\ DOMAIN fromServer' = 1 .. Len(fromServer) + 1
        /\ \A i \in DOMAIN fromServer : fromServer'[i] = fromServer[i]
        /\ ~Result(fromServer'[Len(fromServer) + 1])
    BY <2>1, <2>3, EventSent DEF Result, Kinds
  <2> QED
    BY <1>2, <2>1, <2>2
<1>6. CASE ServerResult
  <2>1. /\ UNCHANGED <<toServer, backlog, phase, last_result,
                       output_buffer, execId, doneReported, call, snapDone,
                       inHand>>
        /\ running # 0 /\ running \in Ids /\ running' = 0
        /\ 0 \in 0 .. MaxChunks
        /\ \E kind \in {"result", "garbled"} : Send(kind, running, 0)
    BY <1>6, NothingFacts DEF ServerResult, TypeInv, TypeOK
  <2>2. /\ Len(fromServer) \in Nat
        /\ DOMAIN fromServer = 1 .. Len(fromServer)
        /\ DOMAIN fromServer' = 1 .. Len(fromServer) + 1
        /\ \A i \in DOMAIN fromServer : fromServer'[i] = fromServer[i]
        /\ fromServer'[Len(fromServer) + 1].id = running
        /\ ~Output(fromServer'[Len(fromServer) + 1])
    BY <2>1, EventSent DEF Output, Kinds
  <2> QED
    BY <1>2, <2>1, <2>2
<1>7. CASE ServerReturn \/ ServerDies
  <2>1. UNCHANGED <<toServer, backlog, running, fromServer, phase, last_result,
                    output_buffer, execId, doneReported, call, snapDone,
                       inHand>>
    BY <1>7 DEF ServerReturn, ServerDies
  <2> QED
    BY <1>2, <2>1
<1> QED
  BY <1>3, <1>4, <1>5, <1>6, <1>7 DEF Server

LEMMA CommandStep == TypeInv /\ CommandInv /\ [Next]_vars => CommandInv'
<1> SUFFICES ASSUME TypeInv, CommandInv, [Next]_vars PROVE CommandInv'
  OBVIOUS
<1>1. CASE Tool
  BY <1>1, CommandToolStep, CommandDataStep
  DEF Tool, StartSession, Exec, Poll, SendInput, Cancel
<1>2. CASE ReadLoop
  BY <1>2, CommandReaderStep
<1>3. CASE Server
  BY <1>3, CommandServerStep
<1>4. CASE UNCHANGED vars
  <2>1. UNCHANGED <<toServer, backlog, running, fromServer, inHand, last_result,
                    output_buffer, execId, doneReported, errorSeen, phase, call,
                    snapDone>>
    BY <1>4 DEF vars, toolVars, objectVars, stateVars, others, readerVars,
                processVars, pipeVars, execVars, serverVars, reportVars,
                historyVars
  <2> QED
    BY <2>1 DEF CommandInv, Command, Single, Quiet, Latest, OutputsFirst,
       Drained, Asks, Asked, Queued, Running, Answered, InHand, Outstanding
<1> QED
  BY <1>1, <1>2, <1>3, <1>4 DEF Next

SessionInv == TypeInv /\ CommandInv

LEMMA SessionCorrect == Spec => []SessionInv
<1>1. Init => SessionInv
  BY TypeInit, CommandInit DEF SessionInv
<1>2. SessionInv /\ [Next]_vars => SessionInv'
  BY TypeStep, CommandStep DEF SessionInv
<1> QED
  BY <1>1, <1>2, PTL DEF Spec

(* A second exec is not given to DOSBox-X before the first has been        *)
(* answered, however the tools, the reader thread and DOSBox-X take turns, *)
(* until an error event has been taken for a result.                       *)
THEOREM OneAtATime == Spec => []OneCommandAtATime
<1>1. SessionInv => OneCommandAtATime
  <2> SUFFICES ASSUME SessionInv, ~errorSeen,
                      NEW i \in Unanswered, NEW j \in Unanswered
               PROVE  i = j
    BY DEF OneCommandAtATime
  <2>1. Latest
    BY DEF SessionInv, CommandInv, Command
  <2>2. \A k \in Unanswered : k = execId
    BY <2>1 DEF Unanswered, Latest, Asks, Running
  <2> QED
    BY <2>2
<1> QED
  BY <1>1, SessionCorrect, PTL

(* A result that has been recorded is the one of the command started last, *)
(* and DOSBox-X has no command left.                                       *)
THEOREM DoneForLastExec == Spec => []DoneIsForLastExec
<1>1. SessionInv => DoneIsForLastExec
  <2> SUFFICES ASSUME SessionInv, ~errorSeen, last_result # NoEvent
               PROVE  last_result.id = execId /\ Unanswered = {}
    BY DEF DoneIsForLastExec
  <2>1. Latest /\ Quiet
    BY DEF SessionInv, CommandInv, Command
  <2>2. backlog \in Seq(Ids)
    BY DEF SessionInv, TypeInv, TypeOK
  <2>3. ~Asked /\ backlog = <<>> /\ running = 0
    BY <2>1 DEF Quiet, Outstanding, Queued, Running
  <2>4. Unanswered = {}
    BY <2>3, EmptySeq DEF Unanswered, Asked, Asks
  <2> QED
    BY <2>1, <2>4 DEF Latest
<1> QED
  BY <1>1, SessionCorrect, PTL

(* Once a poll has said done, the polls up to the next exec return no more *)
(* output: poll's two reads of the state, with the reader thread between   *)
(* them, do not tear.                                                      *)
THEOREM DoneStaysFinal == Spec => DoneIsFinal
<1> DEFINE Final == doneReported /\ doneReported' /\ ~errorSeen
                       => returned' = returned
<1>1. SessionInv /\ [Next]_vars => [Final]_vars
  <2> SUFFICES ASSUME SessionInv, [Next]_vars, doneReported, doneReported',
                      ~errorSeen
               PROVE  returned' = returned
    OBVIOUS
  <2>1. CASE Launch
    BY <2>1 DEF Launch, NewSession
  <2>2. CASE PollDrain
    <3>1. output_buffer = <<>> /\ returned \in Seq(1 .. MaxChunks)
      BY DEF SessionInv, TypeInv, TypeOK, CommandInv, Command, Drained
    <3>2. returned' = returned \o output_buffer
      BY <2>2 DEF PollDrain, Drain
    <3> QED
      BY <3>1, <3>2
  <2>3. CASE Next /\ ~Launch /\ ~PollDrain
    <3> USE DEF Goto, objectVars, stateVars, others, toolVars, readerVars,
                processVars, pipeVars, execVars, serverVars, reportVars,
                historyVars
    <3>1. CASE StartSession
      BY <2>3, <3>1 DEF StartSession, Connect, ConnectFails, AwaitReady,
         ClosedBeforeReady, ReadyTimeout, SetupCheck, SetupDone, SetupTimeout,
         LaunchRaises
    <3>2. CASE Exec
      BY <3>2 DEF Exec, ExecCheck, ExecBegin, ExecWrite, ExecWriteFails,
         LaunchRaises
    <3>3. CASE PollLook \/ SendInput \/ Cancel
      BY <3>3 DEF PollLook, SendInput, Cancel, InputOrCancelCheck,
         InputOrCancelWrite
    <3>4. CASE StopSession
      BY <3>4 DEF StopSession, StopBegin, StopClose, StopJoinAndKill, StopMark
    <3>5. CASE ReadLoop
      BY <3>5 DEF ReadLoop, ReaderLoop, ReaderTake, ReaderRaises,
         ReaderTimeout, ReaderEnd, ReaderMarkStopped, ReaderRecord
    <3>6. CASE Server
      BY <3>6 DEF Server, ServerReceive, ServerStart, ServerOutput,
         ServerReturn, ServerResult, ServerDies
    <3> QED
      BY <2>3, <3>1, <3>2, <3>3, <3>4, <3>5, <3>6 DEF Next, Tool, Poll
  <2>4. CASE UNCHANGED vars
    BY <2>4 DEF vars, historyVars, reportVars
  <2> QED
    BY <2>1, <2>2, <2>3, <2>4
<1>2. Spec => [][Final]_vars
  BY <1>1, SessionCorrect, PTL DEF Spec
<1> QED
  BY <1>2 DEF DoneIsFinal

-----------------------------------------------------------------------------
(* Output.                                                                 *)

\* start_session has not returned ...
Starting == call \in {"connect", "await_ready", "setup", "setup_wait"}

\* ... nothing has happened in a session that is not connected yet ...
Fresh ==
    /\ reader = "off"
    /\ toServer = <<>> /\ backlog = <<>> /\ running = 0 /\ ~executing
    /\ fromServer = <<>>

\* ... and the outputs that have been read are the first ones, those in the
\* pipe the others.
InOrder(read, pipe, sent) ==
    LET outputs == {i \in DOMAIN pipe : Output(pipe[i])}
    IN  /\ \A i \in 1 .. Len(read) : read[i] = i
        /\ Len(read) <= sent
        /\ {pipe[i].chunk : i \in outputs} = Len(read) + 1 .. sent
        /\ \A i, j \in outputs : i < j => pipe[i].chunk < pipe[j].chunk

OutputInv ==
    /\ session = "active" => ~Starting
    /\ call = "connect" => Fresh
    /\ session = "active" \/ call # "idle" => InOrder(Read, fromServer, chunks)

LEMMA ConcatFacts ==
    ASSUME NEW S, NEW s \in Seq(S), NEW t \in Seq(S), NEW e \in S
    PROVE  /\ s \o t \in Seq(S)
           /\ s \o <<>> = s
           /\ <<e>> \in Seq(S)
           /\ s \o <<e>> = Append(s, e)
           /\ s \o Append(t, e) = Append(s \o t, e)
  OBVIOUS

LEMMA NothingRead ==
    ASSUME NEW pipe \in Seq(Events),
           \A i \in DOMAIN pipe : ~Output(pipe[i])
    PROVE  InOrder(<<>>, pipe, 0)
<1>1. {i \in DOMAIN pipe : Output(pipe[i])} = {}
  OBVIOUS
<1>2. Len(<<>>) = 0
  OBVIOUS
<1> QED
  BY <1>1, <1>2 DEF InOrder

\* The server sends an event that is no output, or the next output.
LEMMA OutputSent ==
    ASSUME NEW read \in Seq(1 .. MaxChunks), NEW pipe \in Seq(Events),
           NEW sent \in Nat, NEW e \in Events, InOrder(read, pipe, sent),
           NEW new \in Nat,
           IF Output(e) THEN e.chunk = sent + 1 /\ new = sent + 1
                        ELSE new = sent
    PROVE  InOrder(read, Append(pipe, e), new)
<1> DEFINE q == Append(pipe, e)
           old == {i \in DOMAIN pipe : Output(pipe[i])}
           outputs == {i \in DOMAIN q : Output(q[i])}
           l == Len(pipe) + 1
<1>1. /\ Len(pipe) \in Nat /\ DOMAIN pipe = 1 .. Len(pipe)
      /\ DOMAIN q = 1 .. l
      /\ \A i \in DOMAIN pipe : q[i] = pipe[i]
      /\ q[l] = e
  BY AppendFacts
<1>2. outputs = IF Output(e) THEN old \cup {l} ELSE old
  <2> HIDE DEF q
  <2> QED
    BY <1>1
<1>3. /\ {pipe[i].chunk : i \in old} = Len(read) + 1 .. sent
      /\ \A i, j \in old : i < j => pipe[i].chunk < pipe[j].chunk
      /\ \A i \in 1 .. Len(read) : read[i] = i
  BY DEF InOrder
<1>4. \A i \in old : q[i] = pipe[i] /\ i < l /\ i \in Nat
                     /\ pipe[i].chunk \in Len(read) + 1 .. sent
  <2> HIDE DEF q
  <2> QED
    BY <1>1, <1>3
<1>5. Len(read) \in Nat /\ Len(read) <= sent
  BY DEF InOrder
<1> HIDE DEF q, old, outputs, l
<1>6. {q[i].chunk : i \in outputs} = Len(read) + 1 .. new
  <2>1. {q[i].chunk : i \in old} = Len(read) + 1 .. sent
    BY <1>3, <1>4
  <2>2. CASE Output(e)
    <3>1. {q[i].chunk : i \in outputs} = {q[i].chunk : i \in old} \cup {sent + 1}
      BY <1>1, <1>2, <2>2
    <3>2. new = sent + 1
      BY <2>2
    <3>3. Len(read) + 1 .. sent + 1 = (Len(read) + 1 .. sent) \cup {sent + 1}
      BY <1>5
    <3> QED
      BY <2>1, <3>1, <3>2, <3>3
  <2>3. CASE ~Output(e)
    BY <2>1, <2>3, <1>2
  <2> QED
    BY <2>2, <2>3
<1>7. \A i, j \in outputs : i < j => q[i].chunk < q[j].chunk
  <2>1. \A i, j \in old : i < j => q[i].chunk < q[j].chunk
    BY <1>3, <1>4
  <2>2. Output(e) => \A i \in old : q[i].chunk < q[l].chunk
    BY <1>1, <1>4, <1>5
  <2>3. \A i \in old : i < l /\ i \in Nat /\ l \in Nat
    BY <1>4, <1>1 DEF l
  <2>4. \A i \in outputs : i \in old \/ (Output(e) /\ i = l)
    BY <1>2
  <2>5. \A i \in old : ~(l < i)
    BY <2>3
  <2>6. ~(l < l)
    BY <1>1 DEF l
  <2> QED
    BY <2>1, <2>2, <2>4, <2>5, <2>6
<1>8. Len(read) <= new
  BY <1>5
<1> QED
  BY <1>3, <1>6, <1>7, <1>8 DEF InOrder, q, outputs

\* The reader thread takes an event: an output is the next one.
LEMMA OutputTaken ==
    ASSUME NEW read \in Seq(1 .. MaxChunks), NEW pipe \in Seq(Events),
           pipe # <<>>, NEW sent \in Nat, InOrder(read, pipe, sent)
    PROVE  InOrder(IF Output(Head(pipe)) THEN Append(read, Head(pipe).chunk)
                                         ELSE read,
                   Tail(pipe), sent)
<1> DEFINE e == Head(pipe)
           q == Tail(pipe)
           old == {i \in DOMAIN pipe : Output(pipe[i])}
           outputs == {i \in DOMAIN q : Output(q[i])}
           n == Len(read)
<1>1. /\ e = pipe[1] /\ 1 \in DOMAIN pipe
      /\ \A i \in DOMAIN pipe : i \in Nat /\ i >= 1 
      /\ DOMAIN q = {i \in Nat : i >= 1 /\ i + 1 \in DOMAIN pipe}
      /\ \A i \in DOMAIN q : q[i] = pipe[i + 1]
  BY TailFacts
<1>2. outputs = {i \in Nat : i >= 1 /\ i + 1 \in old}
  <2> HIDE DEF q
  <2> QED
    BY <1>1
<1>3. /\ {pipe[i].chunk : i \in old} = n + 1 .. sent
      /\ \A i, j \in old : i < j => pipe[i].chunk < pipe[j].chunk
      /\ \A i \in 1 .. n : read[i] = i
      /\ n \in Nat /\ n <= sent
  BY DEF InOrder
<1>4. \A i \in outputs : q[i] = pipe[i + 1]
  BY <1>1
<1>5. \A i \in old : i \in Nat /\ i >= 1 /\ (i = 1 <=> i - 1 \notin outputs)
  <2> HIDE DEF q, outputs
  <2> QED
    BY <1>1, <1>2
<1>6. 1 \in old <=> Output(e)
  BY <1>1
<1>10. \A i \in old : pipe[i].chunk \in n + 1 .. sent
  BY <1>3
<1> HIDE DEF e, q, old, outputs
<1>7. \A i, j \in outputs : i < j => q[i].chunk < q[j].chunk
  <2> SUFFICES ASSUME NEW i \in outputs, NEW j \in outputs, i < j
               PROVE  q[i].chunk < q[j].chunk
    OBVIOUS
  <2>1. /\ i + 1 \in old /\ j + 1 \in old /\ i + 1 < j + 1
        /\ q[i] = pipe[i + 1] /\ q[j] = pipe[j + 1]
    BY <1>2, <1>4
  <2>2. pipe[i + 1].chunk < pipe[j + 1].chunk
    BY <1>3, <2>1
  <2> QED
    BY <2>1, <2>2
<1>11. {q[i].chunk : i \in outputs} = {pipe[i].chunk : i \in old \ {1}}
  <2>1. \A i \in old \ {1} : i - 1 \in outputs /\ q[i - 1] = pipe[i]
    BY <1>2, <1>4, <1>5
  <2>2. \A i \in outputs : i + 1 \in old \ {1} /\ q[i] = pipe[i + 1]
    BY <1>2, <1>4
  <2> QED
    BY <2>1, <2>2
<1>8. CASE Output(e)
  <2>1. \A i \in old \ {1} : e.chunk < pipe[i].chunk
    BY <1>1, <1>3, <1>5, <1>6, <1>8
  <2>2. e.chunk \in n + 1 .. sent
    BY <1>1, <1>6, <1>8, <1>10
  <2>3. e.chunk = n + 1
    <3>1. n + 1 \in {pipe[i].chunk : i \in old}
      BY <1>3, <2>2
    <3>2. PICK i \in old : pipe[i].chunk = n + 1
      BY <3>1
    <3> QED
      BY <1>1, <2>1, <2>2, <3>2, <1>3
  <2>4. {pipe[i].chunk : i \in old \ {1}} = n + 2 .. sent
    <3>1. \A c \in n + 2 .. sent : \E i \in old \ {1} : pipe[i].chunk = c
      <4> TAKE c \in n + 2 .. sent
      <4>1. c \in n + 1 .. sent /\ c # n + 1
        BY <1>3
      <4>2. PICK i \in old : pipe[i].chunk = c
        BY <4>1, <1>3
      <4>3. i # 1
        BY <4>1, <4>2, <2>3, <1>1
      <4> QED
        BY <4>2, <4>3
    <3>2. \A i \in old \ {1} : pipe[i].chunk \in n + 2 .. sent
      BY <1>3, <1>10, <2>1, <2>3
    <3> QED
      BY <3>1, <3>2
  <2>5. /\ Len(Append(read, e.chunk)) = n + 1
        /\ \A i \in 1 .. n + 1 : Append(read, e.chunk)[i] = i
    <3>1. /\ Len(Append(read, e.chunk)) = n + 1
          /\ \A i \in 1 .. n : Append(read, e.chunk)[i] = read[i]
          /\ Append(read, e.chunk)[n + 1] = e.chunk
      OBVIOUS
    <3> QED
      BY <3>1, <1>3, <2>3
  <2>6. (n + 1) + 1 = n + 2
    BY <1>3
  <2>7. n + 1 <= sent
    BY <1>3, <2>2
  <2>8. InOrder(Append(read, e.chunk), q, sent)
    <3> DEFINE r == Append(read, e.chunk)
    <3>1. /\ Len(r) = n + 1 /\ Len(r) + 1 = n + 2
          /\ \A i \in 1 .. Len(r) : r[i] = i
      BY <2>5, <2>6
    <3> HIDE DEF r, n
    <3>2. Len(r) <= sent
      BY <2>7, <3>1
    <3>3. {q[i].chunk : i \in outputs} = Len(r) + 1 .. sent
      BY <1>11, <2>4, <3>1
    <3>4. InOrder(r, q, sent)
      BY <1>7, <3>1, <3>2, <3>3 DEF InOrder, outputs
    <3> QED
      BY <3>4 DEF r
  <2> QED
    BY <1>8, <2>8 DEF e, q
<1>9. CASE ~Output(e)
  <2>1. old \ {1} = old
    BY <1>6, <1>9
  <2> QED
    BY <1>3, <1>7, <1>9, <1>11, <2>1 DEF InOrder, e, q, outputs
<1> QED
  BY <1>8, <1>9

LEMMA OutputInit == Init => OutputInv
  BY DEF Init, OutputInv, Starting

\* A step that moves no output.
LEMMA OutputFrame ==
    ASSUME OutputInv,
           UNCHANGED <<returned, output_buffer, inHand, fromServer, chunks>>,
           \/ reader' = reader
           \/ reader # "record" /\ reader' # "record"
           \/ call' = "idle" /\ session' # "active",
           session' = "active" =>
              (session = "active" \/ call # "idle") /\ ~Starting',
           call' # "idle" => session = "active" \/ call # "idle",
           call' = "connect" =>
              /\ call = "connect"
              /\ UNCHANGED <<reader, toServer, backlog, running, executing>>
    PROVE  OutputInv'
<1>1. CASE session' = "active" \/ call' # "idle"
  <2>1. InOrder(Read, fromServer, chunks) /\ Read' = Read
    BY <1>1 DEF OutputInv, Read
  <2> QED
    BY <2>1 DEF OutputInv, Fresh
<1> QED
  BY <1>1 DEF OutputInv

LEMMA ReadType ==
    ASSUME TypeInv
    PROVE  /\ Read \in Seq(1 .. MaxChunks)
           /\ returned \o output_buffer \in Seq(1 .. MaxChunks)
           /\ reader # "record" \/ ~Output(inHand)
                 => Read = returned \o output_buffer
           /\ reader = "record" /\ Output(inHand)
                 => Read = Append(returned \o output_buffer, inHand.chunk)
<1> DEFINE S == 1 .. MaxChunks
           known == returned \o output_buffer
<1>1. returned \in Seq(S) /\ output_buffer \in Seq(S)
  BY DEF TypeInv, TypeOK
<1>3. Output(inHand) => inHand.chunk \in S
  BY DEF TypeInv
<1> HIDE DEF S
<1>2. known \in Seq(S)
  BY <1>1, ConcatType
<1> HIDE DEF known
<1>4. CASE reader = "record" /\ Output(inHand)
  <2>1. known \o <<inHand.chunk>> = Append(known, inHand.chunk)
    BY <1>2, <1>3, <1>4, ConcatFacts
  <2>2. Append(known, inHand.chunk) \in Seq(S)
    BY <1>2, <1>3, <1>4, AppendFacts
  <2> QED
    BY <1>2, <1>4, <2>1, <2>2 DEF Read, Output, known, S
<1>5. CASE ~(reader = "record" /\ Output(inHand))
  <2>1. known \o <<>> = known
    BY <1>2
  <2> QED
    BY <1>2, <1>5, <2>1 DEF Read, Output, known, S
<1> QED
  BY <1>4, <1>5

LEMMA OutputToolStep ==
    ASSUME TypeInv, OutputInv, Tool
    PROVE  OutputInv'
<1> USE DEF Starting, Goto, Idle, objectVars, stateVars, others, readerVars, processVars,
            pipeVars, execVars, serverVars, reportVars, historyVars
<1>1. CASE Launch
  <2>1. NewSession /\ session' = "none"
    BY <1>1 DEF Launch
  <2>2. Read' = <<>> /\ chunks' = 0 /\ fromServer' = <<>>
    BY <2>1, NoEventFacts DEF NewSession, Read
  <2>3. InOrder(<<>>, <<>>, 0)
    BY NothingRead, NothingFacts, EmptySeq
  <2> QED
    BY <2>1, <2>2, <2>3 DEF OutputInv, Fresh, NewSession
<1>2. CASE Connect
  <2>1. InOrder(Read, <<>>, chunks) /\ call' = "await_ready"
    BY <1>2 DEF OutputInv, Fresh, Connect
  <2>2. InOrder(Read, fromServer', chunks)
    <3>1. Event("ready", 0, 0) \in Events /\ Event("ready", 0, 0).kind = "ready"
      BY NothingFacts DEF Event, Events, Kinds
    <3>2. fromServer' = <<Event("ready", 0, 0)>>
      BY <1>2 DEF Connect
    <3>3. chunks \in Nat
      BY DEF TypeInv, TypeOK
    <3>4. \A e \in Events : e.kind = "ready" =>
             InOrder(Read, Append(<<>>, e), chunks)
      BY <2>1, <3>3, NothingFacts, ReadType, OutputSent DEF Output
    <3>5. Append(<<>>, Event("ready", 0, 0)) = <<Event("ready", 0, 0)>>
      OBVIOUS
    <3> QED
      BY <3>1, <3>2, <3>4, <3>5
  <2>3. Read' = Read /\ chunks' = chunks /\ session' # "active"
    BY <1>2 DEF Connect, OutputInv, Fresh, Read
  <2> QED
    BY <2>1, <2>2, <2>3 DEF OutputInv
<1>3. CASE PollDrain
  <2>1. /\ returned' = returned \o output_buffer /\ output_buffer' = <<>>
        /\ call = "poll_drain" /\ call' = "idle"
        /\ UNCHANGED <<reader, inHand, fromServer, chunks>>
    BY <1>3 DEF PollDrain, Drain
  <2>2. (returned \o output_buffer) \o <<>> = returned \o output_buffer
    BY ReadType
  <2>3. Read' = Read
    BY <2>1, <2>2 DEF Read
  <2> QED
    BY <2>1, <2>3 DEF OutputInv
<1>4. CASE ConnectFails \/ AwaitReady \/ ClosedBeforeReady \/ ReadyTimeout
  BY <1>4, OutputFrame DEF OutputInv, ConnectFails, AwaitReady, ClosedBeforeReady,
                           ReadyTimeout, LaunchRaises
<1>5. CASE SetupCheck \/ SetupDone \/ SetupTimeout
  BY <1>5, OutputFrame DEF OutputInv, SetupCheck, SetupDone, SetupTimeout, LaunchRaises
<1>6. CASE Exec
  BY <1>6, OutputFrame DEF OutputInv, Exec, ExecCheck, ExecBegin, ExecWrite,
                           ExecWriteFails, LaunchRaises
<1>7. CASE PollLook \/ SendInput \/ Cancel
  BY <1>7, OutputFrame DEF OutputInv, PollLook, SendInput, Cancel, InputOrCancelCheck,
                           InputOrCancelWrite
<1>8. CASE StopSession
  BY <1>8, OutputFrame DEF OutputInv, StopSession, StopBegin, StopClose, StopJoinAndKill,
                           StopMark
<1> QED
  BY <1>1, <1>2, <1>3, <1>4, <1>5, <1>6, <1>7, <1>8
  DEF Tool, StartSession, Poll

LEMMA OutputReaderStep ==
    ASSUME TypeInv, OutputInv, ReadLoop
    PROVE  OutputInv'
<1> USE DEF Starting, toolVars, objectVars, stateVars, readerVars, processVars, pipeVars,
            execVars, serverVars, reportVars, historyVars
<1>0. chunks \in Nat /\ fromServer \in Seq(Events)
  BY DEF TypeInv, TypeOK
<1>1. CASE ReaderLoop \/ ReaderTimeout \/ ReaderEnd \/ ReaderMarkStopped
  <2>1. /\ UNCHANGED <<returned, output_buffer, inHand, fromServer, chunks,
                       session, call>>
        /\ reader # "record" /\ reader' # "record" /\ reader # "off"
    BY <1>1 DEF ReaderLoop, ReaderTimeout, ReaderEnd, ReaderMarkStopped
  <2> QED
    BY <2>1, OutputFrame DEF OutputInv, Fresh
<1>2. CASE ReaderTake
  <2>1. /\ UNCHANGED <<returned, output_buffer, chunks, session, call>>
        /\ reader = "reading" /\ reader' = "record"
        /\ fromServer # <<>> /\ inHand' = Head(fromServer)
        /\ fromServer' = Tail(fromServer)
    BY <1>2 DEF ReaderTake
  <2>2. Read' = IF Output(Head(fromServer))
                THEN Append(Read, Head(fromServer).chunk) ELSE Read
    <3>1. TypeInv'
      BY TypeReaderStep
    <3>2. Read = returned \o output_buffer
      BY <2>1, ReadType
    <3>3. Output(inHand') =>
             Read' = Append((returned \o output_buffer)', (inHand.chunk)')
      BY <2>1, <3>1, ReadType DEF Output, Read
    <3>4. ~Output(inHand') => Read' = (returned \o output_buffer)'
      BY <2>1, <3>1, ReadType DEF Output, Read
    <3> QED
      BY <2>1, <3>2, <3>3, <3>4
  <2>3. CASE session = "active" \/ call # "idle"
    <3>1. InOrder(Read, fromServer, chunks)
      BY <2>3 DEF OutputInv
    <3>2. InOrder(Read', fromServer', chunks)
      BY <1>0, <2>1, <2>2, <3>1, ReadType, OutputTaken
    <3> QED
      BY <2>1, <3>2 DEF OutputInv, Fresh
  <2> QED
    BY <2>1, <2>3 DEF OutputInv
<1>3. CASE ReaderRecord
  <2>1. /\ UNCHANGED <<returned, chunks, session, call, fromServer>>
        /\ reader = "record" /\ reader' = "loop"
        /\ output_buffer' = IF inHand.kind = "output"
                            THEN Append(output_buffer, inHand.chunk)
                            ELSE output_buffer
    BY <1>3 DEF ReaderRecord
  <2>2. Read' = Read
    <3>1. Read' = returned \o output_buffer'
      <4>1. TypeInv'
        BY TypeReaderStep
      <4>2. Read' = (returned \o output_buffer)'
        BY <2>1, <4>1, ReadType DEF Read
      <4> QED
        BY <2>1, <4>2
    <3>2. CASE Output(inHand)
      <4>1. /\ inHand.chunk \in 1 .. MaxChunks
            /\ returned \in Seq(1 .. MaxChunks)
            /\ output_buffer \in Seq(1 .. MaxChunks)
        BY <3>2 DEF TypeInv, TypeOK
      <4>2. returned \o Append(output_buffer, inHand.chunk)
              = Append(returned \o output_buffer, inHand.chunk)
        BY <4>1, ConcatFacts
      <4> QED
        BY <2>1, <3>1, <3>2, <4>2, ReadType DEF Output
    <3>3. CASE ~Output(inHand)
      BY <2>1, <3>1, <3>3, ReadType DEF Output
    <3> QED
      BY <3>2, <3>3
  <2> QED
    BY <2>1, <2>2 DEF OutputInv, Fresh
<1>4. CASE ReaderRaises
  <2>1. /\ UNCHANGED <<returned, output_buffer, inHand, chunks, session, call>>
        /\ reader = "reading" /\ reader' = "dead"
        /\ fromServer # <<>> /\ ~Output(Head(fromServer))
        /\ fromServer' = Tail(fromServer)
    BY <1>4 DEF ReaderRaises, Output
  <2>2. Read' = Read
    BY <2>1 DEF Read
  <2>3. CASE session = "active" \/ call # "idle"
    <3>1. InOrder(Read, fromServer, chunks)
      BY <2>3 DEF OutputInv
    <3>2. InOrder(Read', fromServer', chunks)
      BY <1>0, <2>1, <2>2, <3>1, ReadType, OutputTaken
    <3> QED
      BY <2>1, <3>2 DEF OutputInv, Fresh
  <2> QED
    BY <2>1, <2>3 DEF OutputInv
<1> QED
  BY <1>1, <1>2, <1>3, <1>4 DEF ReadLoop

LEMMA OutputServerStep ==
    ASSUME TypeInv, OutputInv, Server
    PROVE  OutputInv'
<1> USE DEF Starting, toolVars, objectVars, stateVars, readerVars, processVars, pipeVars,
            execVars, serverVars, reportVars, historyVars
<1>0. /\ chunks \in Nat /\ fromServer \in Seq(Events) /\ running \in Ids
      /\ toServer \in Seq(Ids \X {"exec", "input", "cancel"})
  BY DEF TypeInv, TypeOK
<1>1. ASSUME NEW kind \in Kinds, NEW id \in Ids,
             NEW chunk \in 0 .. MaxChunks, Send(kind, id, chunk),
             IF kind = "output" THEN chunk = chunks + 1 /\ chunks' = chunks + 1
                                ELSE chunks' = chunks,
             call # "connect",
             UNCHANGED <<returned, output_buffer, inHand, reader, session, call>>
      PROVE  OutputInv'
  <2> DEFINE e == Event(kind, id, chunk)
  <2>1. /\ e \in Events /\ e.kind = kind /\ e.chunk = chunk
        /\ fromServer' = Append(fromServer, e)
    BY <1>1, EventType DEF Send
  <2> HIDE DEF e
  <2>2. Read' = Read /\ chunks' \in Nat
    BY <1>0, <1>1 DEF Read
  <2>3. CASE session = "active" \/ call # "idle"
    <3>1. InOrder(Read, fromServer, chunks)
      BY <2>3 DEF OutputInv
    <3>2. IF Output(e) THEN e.chunk = chunks + 1 /\ chunks' = chunks + 1
                       ELSE chunks' = chunks
      BY <1>1, <2>1 DEF Output
    <3>3. InOrder(Read, fromServer', chunks')
      BY <1>0, <2>1, <2>2, <3>1, <3>2, ReadType, OutputSent
    <3> QED
      BY <1>1, <2>2, <3>3 DEF OutputInv
  <2> QED
    BY <1>1, <2>3 DEF OutputInv
<1>2. CASE ServerReceive
  <2> DEFINE id == Head(toServer)[1]
             op == Head(toServer)[2]
  <2>1. /\ UNCHANGED <<returned, output_buffer, inHand, reader, session, call,
                       chunks>>
        /\ toServer # <<>> /\ call # "connect"
    BY <1>2 DEF ServerReceive, OutputInv, Fresh
  <2>2. CASE UNCHANGED fromServer
    BY <2>1, <2>2, OutputFrame DEF OutputInv
  <2>3. ASSUME NEW kind \in {"ack", "error"}, Send(kind, id, 0)
        PROVE  OutputInv'
    <3>1. id \in Ids /\ 0 \in 0 .. MaxChunks
      BY <1>0, <2>1, TailFacts, NothingFacts
    <3> HIDE DEF id
    <3> QED
      BY <1>1, <2>1, <2>3, <3>1 DEF Kinds
  <2> QED
    BY <1>2, <2>2, <2>3 DEF ServerReceive
<1>3. CASE ServerStart
  <2>1. /\ UNCHANGED <<returned, output_buffer, inHand, reader, session, call,
                       chunks, fromServer>>
        /\ call # "connect"
    BY <1>3 DEF ServerStart, OutputInv, Fresh
  <2> QED
    BY <2>1, OutputFrame DEF OutputInv
<1>4. CASE ServerOutput
  <2>1. /\ UNCHANGED <<returned, output_buffer, inHand, reader, session, call>>
        /\ call # "connect" /\ Send("output", running, chunks + 1)
        /\ chunks' = chunks + 1 /\ chunks + 1 \in 0 .. MaxChunks
    BY <1>4, McpAssumption DEF ServerOutput, OutputInv, Fresh, TypeInv, TypeOK
  <2> QED
    BY <1>0, <1>1, <2>1 DEF Kinds
<1>5. CASE ServerReturn
  <2>1. /\ UNCHANGED <<returned, output_buffer, inHand, reader, session, call,
                       chunks, fromServer>>
        /\ call # "connect"
    BY <1>5 DEF ServerReturn, OutputInv, Fresh
  <2> QED
    BY <2>1, OutputFrame DEF OutputInv
<1>6. CASE ServerResult
  <2>1. /\ UNCHANGED <<returned, output_buffer, inHand, reader, session, call,
                       chunks>>
        /\ call # "connect"
    BY <1>6 DEF ServerResult, OutputInv, Fresh
  <2>2. PICK kind \in {"result", "garbled"} : Send(kind, running, 0)
    BY <1>6 DEF ServerResult
  <2>3. kind \in Kinds
    BY <2>2 DEF Kinds
  <2> QED
    BY <1>0, <1>1, <2>1, <2>2, <2>3, NothingFacts
<1>7. CASE ServerDies
  BY <1>7, OutputFrame DEF OutputInv, ServerDies
<1> QED
  BY <1>2, <1>3, <1>4, <1>5, <1>6, <1>7 DEF Server

LEMMA OutputStep == TypeInv /\ OutputInv /\ [Next]_vars => OutputInv'
<1> SUFFICES ASSUME TypeInv, OutputInv, [Next]_vars PROVE OutputInv'
  OBVIOUS
<1>1. CASE UNCHANGED vars
  BY <1>1, OutputFrame
  DEF Starting, OutputInv, vars, toolVars, objectVars, stateVars, others, readerVars, processVars,
      pipeVars, execVars, serverVars, reportVars, historyVars
<1> QED
  BY <1>1, OutputToolStep, OutputReaderStep, OutputServerStep DEF Next

(* The polls return each output event once and in order: none is lost,     *)
(* repeated or overtaken between DOSBox-X, the reader thread, the buffer   *)
(* and poll's drain.                                                       *)
THEOREM OutputInOrder == Spec => []OutputOnceInOrder
<1>1. TypeInv /\ OutputInv => OutputOnceInOrder
  BY DEF OutputInv, OutputOnceInOrder, InOrder, Outputs, Output
<1> QED
  BY <1>1, TypeInit, TypeStep, OutputInit, OutputStep, PTL DEF Spec
=============================================================================
