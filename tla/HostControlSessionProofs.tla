---------------------- MODULE HostControlSessionProofs ----------------------
(***************************************************************************)
(* A host-control session for any requests, any number of them, any amount *)
(* of output, either transport and any room in the kernel.                 *)
(***************************************************************************)
EXTENDS HostControlSessionProps, WellFoundedInduction, NaturalsInduction,
        TLAPS

Turn == Protocol!TurnRequests
Side == Protocol!SideRequests
Answered == Protocol!Answered
AnswerOf(e, id) ==
    e.id = id /\ e.event \in Protocol!Answers(sent[id]) \ {"output"}

\* Where the emulator thread has a request in work, and where it is an exec.
Executing == {"arm", "armed", "run", "output", "ran", "exchange", "after",
              "flush", "rest"}
Working == {"check", "emit"} \cup Executing
Leaving == {"end", "stop", "join", "returned"}

\* The reader thread handles the request it has read last.
ReaderInv ==
    /\ reader \notin {"read", "done"} =>
          inHand = received /\ inHand \in DOMAIN sent
    /\ reader \in {"exec", "status", "input", "cancel", "malformed"} =>
          sent[inHand].op = reader
    /\ reader \in {"setbreak", "setcancel", "ctrlc"} =>
          sent[inHand].op = "cancel"
    /\ reader = "reply" => inHand \in Side /\ AnswerOf(reply, inHand)

\* The emulator thread has an exec or a status request in work, and leaves
\* with output that it has not sent only when it cannot be sent.
MainInv ==
    /\ main \in Working => cmd \in Turn
    /\ main \in Executing => sent[cmd].op = "exec"
    /\ main \in {"after", "flush", "rest"} => answer.event = "result"
    /\ main \in {"after", "flush", "rest", "emit"} => AnswerOf(answer, cmd)
    /\ inProgress => main \in {"run", "output", "ran"}
    /\ main \in {"wait", "check", "emit"} => buf = 0
    /\ main = "end" /\ buf > 0 => failed \/ (closed /\ PeerGone)
    /\ stopped => main \in {"join", "returned"}
    /\ disconnected => closed \/ stopped
    /\ ShellExited => main \in Leaving

\* The commands that wait are in the order sent, behind the one in work.
QueueInv ==
    /\ \A i \in DOMAIN requests :
          requests[i] \in Turn \ Answered /\ requests[i] <= received
    /\ \A i, j \in DOMAIN requests : i < j => requests[i] < requests[j]
    /\ main \in Working => \A i \in DOMAIN requests : cmd < requests[i]
    /\ reader \in {"exec", "status"} =>
          /\ \A i \in DOMAIN requests : requests[i] < inHand
          /\ main \in Working => cmd < inHand

\* A request that has not been answered is in work, waits, is in the hand of
\* the reader thread or has not been read, unless its answer could not be sent.
NothingLost ==
    /\ Answered \subseteq 1 .. received
    /\ main \in Working => cmd \notin Answered /\ cmd <= received
    /\ reader \notin {"read", "done"} => inHand \notin Answered
    /\ main \notin Leaving =>
          \A k \in Turn \ Answered :
              \/ main \in Working /\ k = cmd
              \/ \E i \in DOMAIN requests : requests[i] = k
              \/ reader \in {"exec", "status"} /\ k = inHand
              \/ k > received
    /\ ~WriteFails =>
          \A k \in Side \ Answered :
              k > received \/ (reader \notin {"read", "done"} /\ k = inHand)

\* A process that was killed does nothing more.
SessionInv == ReaderInv /\ MainInv /\ QueueInv /\ NothingLost

Inv == TypeOK /\ (process # "killed" => SessionInv)

-----------------------------------------------------------------------------
(* Sequences and events.                                                   *)

LEMMA AppendFacts ==
    ASSUME NEW S, NEW s \in Seq(S), NEW e \in S
    PROVE  /\ Append(s, e) \in Seq(S)
           /\ Len(s) \in Nat /\ Len(Append(s, e)) = Len(s) + 1
           /\ DOMAIN s = 1 .. Len(s)
           /\ DOMAIN Append(s, e) = 1 .. Len(s) + 1
           /\ \A i \in DOMAIN s : Append(s, e)[i] = s[i]
           /\ Append(s, e)[Len(s) + 1] = e
  OBVIOUS

LEMMA PrefixOfAppend ==
    ASSUME NEW S, NEW s \in Seq(S), NEW e \in S
    PROVE  SubSeq(Append(s, e), 1, Len(s)) = s
  OBVIOUS

LEMMA TailFacts ==
    ASSUME NEW S, NEW s \in Seq(S), s # <<>>
    PROVE  /\ Head(s) = s[1] /\ 1 \in DOMAIN s /\ s[1] \in S
           /\ Tail(s) \in Seq(S)
           /\ Len(s) \in Nat /\ Len(Tail(s)) = Len(s) - 1
           /\ DOMAIN s = 1 .. Len(s) /\ DOMAIN Tail(s) = 1 .. Len(s) - 1
           /\ \A i \in DOMAIN Tail(s) : Tail(s)[i] = s[i + 1]
  OBVIOUS

LEMMA EmptySeq ==
    ASSUME NEW S
    PROVE  <<>> \in Seq(S) /\ DOMAIN <<>> = {} /\ Len(<<>>) = 0
  OBVIOUS

LEMMA PlainEvent ==
    ASSUME NEW e \in {"none", "status", "error", "input_result"}, NEW id \in Ids
    PROVE  /\ Event(e, id) \in Events
           /\ Event(e, id).event = e /\ Event(e, id).id = id
<1>1. Event(e, id)
         \in [event : {"none", "status", "error", "input_result"}, id : Ids]
  BY DEF Event
<1> QED
  BY <1>1 DEF Event, Events

LEMMA ResultEvent ==
    ASSUME NEW id \in Ids, NEW exit \in BOOLEAN, NEW cancelled \in BOOLEAN,
           NEW out \in Nat, NEW brk \in BOOLEAN
    PROVE  LET e == ExecResult(id, exit, cancelled, out, brk)
           IN  /\ e \in Events /\ e.event = "result" /\ e.id = id
<1>1. ExecResult(id, exit, cancelled, out, brk)
         \in [event : {"result"}, id : Ids, exit : BOOLEAN,
              cancelled : BOOLEAN, units : Nat, broken : BOOLEAN]
  BY DEF ExecResult
<1> QED
  BY <1>1 DEF ExecResult, Events

LEMMA OutEvent ==
    ASSUME NEW id \in Ids, NEW n \in Nat
    PROVE  /\ OutputEvent(id, n) \in Events
           /\ OutputEvent(id, n).event = "output" /\ OutputEvent(id, n).id = id
<1>1. OutputEvent(id, n) \in [event : {"output"}, id : Ids, units : Nat]
  BY DEF OutputEvent
<1> QED
  BY <1>1 DEF OutputEvent, Events

LEMMA CancelEvent ==
    ASSUME NEW id \in Ids, NEW t \in Ids
    PROVE  /\ CancelResult(id, t) \in Events
           /\ CancelResult(id, t).event = "cancel_result"
           /\ CancelResult(id, t).id = id
<1>1. CancelResult(id, t)
         \in [event : {"cancel_result"}, id : Ids, target : Ids]
  BY DEF CancelResult
<1> QED
  BY <1>1 DEF CancelResult, Events

LEMMA NoEventFacts == NoEvent \in Events /\ 0 \in Ids
<1>1. 0 \in Ids
  BY SessionAssumption DEF Ids
<1>2. NoEvent
         \in [event : {"none", "status", "error", "input_result"}, id : Ids]
  BY <1>1 DEF NoEvent
<1> QED
  BY <1>1, <1>2 DEF Events

-----------------------------------------------------------------------------
(* Flags.                                                                  *)

LEMMA FlagStep ==
    ASSUME FlagTypes, Next
    PROVE  FlagTypes'
<1> USE DEF FlagTypes, connVars, readerVars, linkVars, flagVars, mainVars,
            execVars
<1>1. CASE Send
  BY <1>1 DEF Send
<1>2. CASE Receive
  BY <1>2 DEF Receive
<1>3. CASE Close
  BY <1>3 DEF Close
<1>4. CASE ReadLine
  BY <1>4 DEF ReadLine
<1>5. CASE HandOver
  BY <1>5 DEF HandOver
<1>6. CASE Malformed
  BY <1>6 DEF Malformed
<1>7. CASE HandleInput
  BY <1>7 DEF HandleInput
<1>8. CASE CancelLook
  BY <1>8 DEF CancelLook
<1>9. CASE ReadEnd
  BY <1>9 DEF ReadEnd
<1>10. CASE CancelSetBreak
  BY <1>10 DEF CancelSetBreak
<1>11. CASE CancelSetRequested
  BY <1>11 DEF CancelSetRequested
<1>12. CASE CancelQueueCtrlC
  BY <1>12 DEF CancelQueueCtrlC
<1>13. CASE Reply
  BY <1>13 DEF Reply, WriteOk, WriteLost, WriteKilled
<1>14. CASE Leave
  BY <1>14 DEF Leave
<1>15. CASE Take
  BY <1>15 DEF Take
<1>16. CASE GiveUp
  BY <1>16 DEF GiveUp, FoundGone
<1>17. CASE AnswerStatus
  BY <1>17 DEF AnswerStatus
<1>18. CASE BeginExec
  BY <1>18 DEF BeginExec
<1>19. CASE Disarm
  BY <1>19 DEF Disarm
<1>20. CASE StartExec
  BY <1>20 DEF StartExec
<1>21. CASE GuestOutput
  BY <1>21 DEF GuestOutput
<1>22. CASE FlushOutput
  BY <1>22 DEF FlushOutput, MainWrites, WriteOk, WriteLost, WriteKilled
<1>23. CASE DrainInput
  BY <1>23 DEF DrainInput
<1>24. CASE GuestResetsBreak
  BY <1>24 DEF GuestResetsBreak
<1>25. CASE UnwindBatch
  BY <1>25 DEF UnwindBatch
<1>26. CASE CommandReturns
  BY <1>26 DEF CommandReturns
<1>27. CASE CommandThrows
  BY <1>27 DEF CommandThrows
<1>28. CASE EndExec
  BY <1>28 DEF EndExec
<1>29. CASE ExchangeCancel
  BY <1>29 DEF ExchangeCancel
<1>30. CASE StillThere
  BY <1>30 DEF StillThere
<1>31. CASE FinalFlush
  BY <1>31 DEF FinalFlush
<1>32. CASE Emit
  BY <1>32 DEF Emit, MainWrites, Write, WriteOk, WriteLost, WriteKilled
<1>33. CASE LastFlush
  BY <1>33 DEF LastFlush, FoundGone
<1>34. CASE StopReader
  BY <1>34 DEF StopReader
<1>35. CASE JoinReader
  BY <1>35 DEF JoinReader
<1>36. CASE Ended
  BY <1>36 DEF Ended, vars
<1>37. CASE LockToReply
  BY <1>37 DEF LockToReply
<1>38. CASE BeginFlush
  BY <1>38 DEF BeginFlush
<1>39. CASE LockToWrite
  BY <1>39 DEF LockToWrite
<1>40. CASE FlushRest
  BY <1>40 DEF FlushRest, MainWrites, Write, WriteOk, WriteLost, WriteKilled
<1> QED
  BY <1>1, <1>2, <1>3, <1>4, <1>5, <1>6, <1>7, <1>8, <1>9, <1>10, <1>11,
     <1>12, <1>13, <1>14, <1>15, <1>16, <1>17, <1>18, <1>19, <1>20, <1>21,
     <1>22, <1>23, <1>24, <1>25, <1>26, <1>27, <1>28, <1>29, <1>30, <1>31,
     <1>32, <1>33, <1>34, <1>35, <1>36, <1>37, <1>38, <1>39, <1>40
  DEF Next, ClientNext, ReaderNext, MainNext

-----------------------------------------------------------------------------
(* Types.                                                                  *)

LEMMA EventTypesStep ==
    ASSUME EventTypes, NEW e \in Events, e.event # "none", e.id # 0,
           seen' = seen, WriteOk(e) \/ WriteLost \/ WriteKilled
    PROVE  EventTypes'
<1>1. CASE events' = events
  BY <1>1 DEF EventTypes
<1>2. CASE events' = Append(events, e)
  <2>1. events \in Seq(Events)
    BY DEF EventTypes
  <2>2. /\ events' \in Seq(Events) /\ Len(events') = Len(events) + 1
        /\ \A i \in DOMAIN events' :
              (i \in DOMAIN events /\ events'[i] = events[i]) \/ events'[i] = e
        /\ Len(events) \in Nat
    BY <1>2, <2>1, AppendFacts
  <2> QED
    BY <2>2 DEF EventTypes
<1> QED
  BY <1>1, <1>2 DEF WriteOk, WriteLost, WriteKilled

LEMMA Working0 ==
    ASSUME TypeOK, SessionInv
    PROVE  /\ Turn \subseteq DOMAIN sent /\ Side \subseteq DOMAIN sent
           /\ DOMAIN sent = 1 .. Len(sent) /\ Len(sent) \in Nat
           /\ DOMAIN sent \subseteq Ids \ {0}
           /\ main \in Working => cmd \in Ids \ {0}
           /\ reader \notin {"read", "done"} => inHand \in Ids \ {0}
<1>1. DOMAIN sent = 1 .. Len(sent) /\ Len(sent) \in Nat /\ Len(sent) <= MaxRequests
  BY DEF TypeOK
<1>2. Turn \subseteq DOMAIN sent /\ Side \subseteq DOMAIN sent
  BY DEF Turn, Side, Protocol!TurnRequests, Protocol!SideRequests
<1>3. DOMAIN sent \subseteq Ids \ {0}
  BY <1>1, SessionAssumption DEF Ids
<1> QED
  BY <1>1, <1>2, <1>3 DEF SessionInv, ReaderInv, MainInv

LEMMA ClientTypes ==
    ASSUME TypeOK, ClientNext, FlagTypes'
    PROVE  TypeOK'
<1> USE SessionAssumption
<1> USE DEF TypeOK, readerVars, linkVars, flagVars, mainVars, execVars
<1>1. CASE Send
  <2> PICK r \in Templates : sent' = Append(sent, r)
    BY <1>1 DEF Send
  <2>1. /\ sent' \in Seq(Templates) /\ Len(sent') = Len(sent) + 1
        /\ Len(sent) \in Nat /\ Len(sent) < MaxRequests
    BY <1>1, AppendFacts DEF Send
  <2>2. EventTypes'
    BY <1>1 DEF Send, EventTypes
  <2> QED
    BY <1>1, <2>1, <2>2 DEF Send
<1>2. CASE Receive
  <2>1. EventTypes'
    BY <1>2 DEF Receive, EventTypes
  <2> QED
    BY <1>2, <2>1 DEF Receive
<1>3. CASE Close
  <2>1. EventTypes'
    BY <1>3 DEF Close, EventTypes
  <2> QED
    BY <1>3, <2>1 DEF Close
<1> QED
  BY <1>1, <1>2, <1>3 DEF ClientNext

LEMMA ReaderTypes ==
    ASSUME TypeOK, SessionInv, ReaderNext, FlagTypes'
    PROVE  TypeOK'
<1> USE SessionAssumption
<1> USE DEF TypeOK, connVars, linkVars, flagVars, mainVars, execVars, ReaderAt,
            ReaderStates
<1>0. reader # "reply" \/ LockToReply => EventTypes'
  BY DEF ReaderNext, ReadLine, ReadEnd, HandOver, Malformed, HandleInput,
     CancelLook, CancelSetBreak, CancelSetRequested, CancelQueueCtrlC,
     LockToReply, Reply, EventTypes
<1>1. CASE ReadLine
  <2>1. received + 1 \in DOMAIN sent /\ sent[received + 1] \in Templates
    BY <1>1 DEF ReadLine, Unread
  <2>2. received + 1 \in Ids /\ received + 1 \in 0 .. Len(sent)
    BY <2>1 DEF Ids
  <2>3. sent[received + 1].op \in ReaderStates
    BY <2>1
  <2> QED
    BY <1>0, <1>1, <2>2, <2>3 DEF ReadLine
<1>2. CASE ReadEnd
  BY <1>0, <1>2 DEF ReadEnd
<1>3. CASE HandOver
  <2>1. inHand \in Ids \ {0}
    BY <1>3, Working0 DEF HandOver
  <2>2. requests' \in Seq(Ids \ {0})
    BY <1>3, <2>1, AppendFacts DEF HandOver
  <2> QED
    BY <1>0, <1>3, <2>2, NoEventFacts DEF HandOver
<1>4. CASE Malformed
  <2>1. reply' \in Events
    BY <1>4, PlainEvent DEF Malformed
  <2> QED
    BY <1>0, <1>4, <2>1 DEF Malformed
<1>5. CASE HandleInput
  <2>1. reply' \in Events
    BY <1>5, PlainEvent DEF HandleInput
  <2>2. inputQ' \in Seq(Ids \X Ids) /\ Len(inputQ') <= InputCap
    <3>1. <<inHand, 0>> \in Ids \X Ids
      BY NoEventFacts
    <3>2. CASE inputQ' = Append(inputQ, <<inHand, 0>>) /\ InputFits
      BY <3>1, <3>2, AppendFacts DEF InputFits
    <3> QED
      BY <1>5, <3>2 DEF HandleInput
  <2> QED
    BY <1>0, <1>5, <2>1, <2>2 DEF HandleInput
<1>6. CASE CancelLook
  <2>1. inProgress => cmd \in Ids \ {0}
    BY Working0 DEF SessionInv, MainInv, Working, Executing
  <2>2. hits' \subseteq Ids \ {0}
    BY <1>6, <2>1 DEF CancelLook
  <2>3. reply' \in Events
    BY <1>6, PlainEvent DEF CancelLook
  <2>4. reader' \in ReaderStates /\ target' \in Ids
    BY <1>6 DEF CancelLook
  <2> QED
    BY <1>0, <1>6, <2>2, <2>3, <2>4 DEF CancelLook
<1>7. CASE CancelSetBreak
  BY <1>0, <1>7 DEF CancelSetBreak
<1>8. CASE CancelSetRequested
  BY <1>0, <1>8 DEF CancelSetRequested
<1>9. CASE CancelQueueCtrlC
  <2>1. reply' \in Events
    BY <1>9, CancelEvent DEF CancelQueueCtrlC
  <2>2. inputQ' \in Seq(Ids \X Ids) /\ Len(inputQ') <= InputCap
    <3>1. <<inHand, target>> \in Ids \X Ids
      OBVIOUS
    <3>2. CASE inputQ' = Append(inputQ, <<inHand, target>>) /\ InputFits
      BY <3>1, <3>2, AppendFacts DEF InputFits
    <3> QED
      BY <1>9, <3>2 DEF CancelQueueCtrlC
  <2> QED
    BY <1>0, <1>9, <2>1, <2>2, NoEventFacts DEF CancelQueueCtrlC
<1>10. CASE Reply
  <2>1. reply.id = inHand /\ inHand # 0 /\ reply.event # "none"
    <3>1. AnswerOf(reply, inHand) /\ inHand \in DOMAIN sent
      BY <1>10 DEF Reply, SessionInv, ReaderInv
    <3> QED
      BY <1>10, <3>1, Working0 DEF Reply, AnswerOf, Protocol!Answers
  <2>2. EventTypes'
    BY <1>10, <2>1, EventTypesStep DEF Reply
  <2>3. process' \in {"serving", "returned", "killed"}
    BY <1>10 DEF Reply, WriteOk, WriteLost, WriteKilled
  <2> QED
    BY <1>10, <2>2, <2>3, NoEventFacts DEF Reply
<1>11. CASE LockToReply
  BY <1>0, <1>11 DEF LockToReply, readerVars
<1> QED
  BY <1>1, <1>2, <1>3, <1>4, <1>5, <1>6, <1>7, <1>8, <1>9, <1>10, <1>11
  DEF ReaderNext

LEMMA MainTypes ==
    ASSUME TypeOK, SessionInv, MainNext, FlagTypes'
    PROVE  TypeOK'
<1> USE SessionAssumption
<1> USE DEF TypeOK, connVars, readerVars, linkVars, flagVars, mainVars,
            execVars,
            MainAt, MainStates
<1>0. UNCHANGED <<events, seen>> => EventTypes'
  BY DEF EventTypes
<1>1. CASE Leave
  BY <1>0, <1>1 DEF Leave
<1>2. CASE Take
  <2>1. cmd' \in Ids /\ requests' \in Seq(Ids \ {0})
    BY <1>2, TailFacts DEF Take
  <2> QED
    BY <1>0, <1>2, <2>1 DEF Take
<1>3. CASE GiveUp
  BY <1>0, <1>3 DEF GiveUp, FoundGone
<1>4. CASE AnswerStatus
  <2>1. answer' \in Events
    BY <1>4, PlainEvent DEF AnswerStatus
  <2> QED
    BY <1>0, <1>4, <2>1 DEF AnswerStatus
<1>5. CASE BeginExec
  <2>1. answer' \in Events
    BY <1>5, PlainEvent DEF BeginExec
  <2>2. inputQ' \in Seq(Ids \X Ids) /\ Len(inputQ') <= InputCap
    <3>1. <<cmd, 0>> \in Ids \X Ids
      BY NoEventFacts
    <3>2. CASE inputQ' = Append(inputQ, <<cmd, 0>>) /\ InputFits
      BY <3>1, <3>2, AppendFacts DEF InputFits
    <3>3. CASE inputQ' = inputQ
      BY <3>3
    <3> QED
      BY <1>5, <3>2, <3>3 DEF BeginExec
  <2>3. main' \in {"emit", "arm"} /\ buf' = 0 /\ produced' = 0
    BY <1>5 DEF BeginExec
  <2> QED
    BY <1>0, <1>5, <2>1, <2>2, <2>3 DEF BeginExec
<1>6. CASE Disarm
  BY <1>0, <1>6 DEF Disarm
<1>7. CASE StartExec
  BY <1>0, <1>7 DEF StartExec
<1>8. CASE GuestOutput
  BY <1>0, <1>8 DEF GuestOutput
<1>9. CASE FlushOutput
  <2>1. OutputEvent(cmd, buf) \in Events /\ OutputEvent(cmd, buf).id # 0
        /\ OutputEvent(cmd, buf).event # "none"
    <3>1. cmd \in Ids \ {0}
      BY <1>9, Working0 DEF FlushOutput, MainWrites, Working, Executing
    <3> QED
      BY <3>1, OutEvent
  <2>2. EventTypes'
    BY <1>9, <2>1, EventTypesStep DEF FlushOutput, MainWrites
  <2>3. process' \in {"serving", "returned", "killed"}
    BY <1>9 DEF FlushOutput, WriteOk, WriteLost, WriteKilled
  <2> QED
    BY <1>9, <2>2, <2>3 DEF FlushOutput, MainWrites
<1>10. CASE DrainInput
  <2>1. inputQ' \in Seq(Ids \X Ids) /\ Len(inputQ') <= InputCap
    BY <1>10, TailFacts DEF DrainInput
  <2> QED
    BY <1>0, <1>10, <2>1 DEF DrainInput
<1>11. CASE GuestResetsBreak
  BY <1>0, <1>11 DEF GuestResetsBreak
<1>12. CASE UnwindBatch
  BY <1>0, <1>12 DEF UnwindBatch
<1>13. CASE CommandReturns
  BY <1>0, <1>13 DEF CommandReturns
<1>14. CASE CommandThrows
  BY <1>0, <1>14 DEF CommandThrows
<1>15. CASE EndExec
  BY <1>0, <1>15 DEF EndExec
<1>16. CASE ExchangeCancel
  <2>1. answer' \in Events
    <3>1. shellExit \in BOOLEAN /\ cancelReq \in BOOLEAN /\ broken \in BOOLEAN
          /\ produced \in Nat /\ cmd \in Ids
      BY DEF FlagTypes
    <3> QED
      BY <1>16, <3>1, ResultEvent DEF ExchangeCancel
  <2>2. inputQ' \in Seq(Ids \X Ids) /\ Len(inputQ') <= InputCap
    BY <1>16, EmptySeq DEF ExchangeCancel
  <2> QED
    BY <1>0, <1>16, <2>1, <2>2 DEF ExchangeCancel
<1>17. CASE StillThere
  BY <1>0, <1>17 DEF StillThere
<1>18. CASE FinalFlush
  BY <1>0, <1>18 DEF FinalFlush
<1>19. CASE Emit
  <2>1. answer.id # 0 /\ answer.event # "none"
    <3>1. AnswerOf(answer, cmd) /\ cmd \in DOMAIN sent /\ cmd # 0
      BY <1>19, Working0 DEF Emit, MainWrites, SessionInv, MainInv, Working
    <3> QED
      BY <3>1 DEF AnswerOf, Protocol!Answers
  <2>2. EventTypes'
    BY <1>19, <2>1, EventTypesStep DEF Emit, MainWrites, Write
  <2>3. process' \in {"serving", "returned", "killed"} /\ main' \in MainStates
    BY <1>19 DEF Emit, Write, WriteOk, WriteLost, WriteKilled
  <2> QED
    BY <1>19, <2>2, <2>3, NoEventFacts DEF Emit, MainWrites
<1>20. CASE LastFlush
  BY <1>0, <1>20 DEF LastFlush, FoundGone
<1>21. CASE StopReader
  BY <1>0, <1>21 DEF StopReader
<1>22. CASE JoinReader
  BY <1>0, <1>22, NoEventFacts DEF JoinReader
<1>23. CASE BeginFlush
  BY <1>0, <1>23 DEF BeginFlush
<1>24. CASE LockToWrite
  BY <1>0, <1>24 DEF LockToWrite
<1>25. CASE FlushRest
  <2>1. OutputEvent(cmd, buf) \in Events /\ OutputEvent(cmd, buf).id # 0
        /\ OutputEvent(cmd, buf).event # "none"
    <3>1. cmd \in Ids \ {0}
      BY <1>25, Working0 DEF FlushRest, MainWrites, Working, Executing
    <3> QED
      BY <3>1, OutEvent
  <2>2. EventTypes'
    BY <1>25, <2>1, EventTypesStep DEF FlushRest, MainWrites, Write
  <2>3. process' \in {"serving", "returned", "killed"} /\ main' \in MainStates
    BY <1>25 DEF FlushRest, Write, WriteOk, WriteLost, WriteKilled
  <2> QED
    BY <1>25, <2>2, <2>3 DEF FlushRest, MainWrites
<1> QED
  BY <1>1, <1>2, <1>3, <1>4, <1>5, <1>6, <1>7, <1>8, <1>9, <1>10, <1>11, <1>12,
     <1>13, <1>14, <1>15, <1>16, <1>17, <1>18, <1>19, <1>20, <1>21, <1>22,
     <1>23, <1>24, <1>25
  DEF MainNext

-----------------------------------------------------------------------------
(* What an event or a request adds.                                        *)

LEMMA SameSent ==
    ASSUME sent' = sent
    PROVE  Turn' = Turn /\ Side' = Side
  BY DEF Turn, Side, Protocol!TurnRequests, Protocol!SideRequests,
     Protocol!InTurn

LEMMA SameEvents ==
    ASSUME events' = events
    PROVE  Answered' = Answered /\ (ShellExited' <=> ShellExited)
  BY DEF Answered, Protocol!Answered, ShellExited, ResultEvents

LEMMA Kinds ==
    ASSUME NEW i \in DOMAIN sent
    PROVE  /\ i \in Turn \/ i \in Side
           /\ ~(i \in Turn /\ i \in Side)
           /\ i \in Turn <=> sent[i].op \in {"exec", "status"}
  BY DEF Turn, Side, Protocol!TurnRequests, Protocol!SideRequests,
     Protocol!InTurn

LEMMA RequestSent ==
    ASSUME TypeOK, NEW r \in Templates, sent' = Append(sent, r)
    PROVE  /\ DOMAIN sent \subseteq DOMAIN sent'
           /\ DOMAIN sent' = DOMAIN sent \cup {Len(sent) + 1}
           /\ \A i \in DOMAIN sent : /\ sent'[i] = sent[i]
                                     /\ i \in Turn' <=> i \in Turn
                                     /\ i \in Side' <=> i \in Side
           /\ received < Len(sent) + 1
           /\ Turn' \subseteq DOMAIN sent' /\ Side' \subseteq DOMAIN sent'
<1>1. /\ DOMAIN sent = 1 .. Len(sent) /\ Len(sent) \in Nat
      /\ DOMAIN sent' = 1 .. Len(sent) + 1
      /\ \A i \in DOMAIN sent : sent'[i] = sent[i]
  BY AppendFacts DEF TypeOK
<1>2. \A i \in DOMAIN sent : /\ i \in Turn' <=> i \in Turn
                             /\ i \in Side' <=> i \in Side
  BY <1>1 DEF Turn, Side, Protocol!TurnRequests, Protocol!SideRequests,
              Protocol!InTurn
<1>3. received < Len(sent) + 1
  BY <1>1 DEF TypeOK
<1> QED
  BY <1>1, <1>2, <1>3
  DEF Turn, Side, Protocol!TurnRequests, Protocol!SideRequests

LEMMA Logged ==
    ASSUME TypeOK, NEW e \in Events, events' = Append(events, e)
    PROVE  /\ e.event = "output" => Answered' = Answered
           /\ e.event # "output" => Answered' = Answered \cup {e.id}
           /\ ShellExited' <=> ShellExited \/ (e.event = "result" /\ e.exit)
           /\ Len(events') = Len(events) + 1
           /\ SubSeq(events', 1, Len(events)) = events
           /\ events'[Len(events')] = e
<1>1. events \in Seq(Events)
  BY DEF TypeOK, EventTypes
<1>2. /\ Len(events) \in Nat /\ Len(events') = Len(events) + 1
      /\ DOMAIN events = 1 .. Len(events)
      /\ DOMAIN events' = 1 .. Len(events) + 1
      /\ \A i \in DOMAIN events : events'[i] = events[i]
      /\ events'[Len(events) + 1] = e
  BY <1>1, AppendFacts
<1>3. SubSeq(events', 1, Len(events)) = events
  BY <1>1, PrefixOfAppend
<1>4. \A x : x \in Answered'
               <=> x \in Answered \/ (e.event # "output" /\ x = e.id)
  BY <1>2 DEF Answered, Protocol!Answered
<1>5. ShellExited' <=> ShellExited \/ (e.event = "result" /\ e.exit)
  BY <1>2 DEF ShellExited, ResultEvents
<1> QED
  BY <1>2, <1>3, <1>4, <1>5

-----------------------------------------------------------------------------
(* The invariant.                                                          *)

LEMMA InvInit == Init => Inv
<1> SUFFICES ASSUME Init PROVE Inv
  OBVIOUS
<1>1. TypeOK
  <2>1. sent \in Seq(Templates) /\ Len(sent) = 0 /\ requests \in Seq(Ids \ {0})
        /\ events \in Seq(Events) /\ DOMAIN events = {} /\ Len(events) = 0
    BY EmptySeq DEF Init
  <2>2. inputQ \in Seq(Ids \X Ids) /\ Len(inputQ) = 0
    BY EmptySeq DEF Init
  <2>3. FlagTypes
    BY DEF Init, FlagTypes
  <2> QED
    BY <2>1, <2>2, <2>3, NoEventFacts, SessionAssumption
    DEF Init, TypeOK, EventTypes, ReaderStates, MainStates
<1>2. Turn = {} /\ Side = {} /\ Answered = {} /\ ~ShellExited
  BY EmptySeq DEF Init, Turn, Side, Answered, ShellExited, ResultEvents,
     Protocol!TurnRequests, Protocol!SideRequests, Protocol!Answered
<1> QED
  BY <1>1, <1>2, EmptySeq DEF Init, Inv, SessionInv, ReaderInv, MainInv,
     QueueInv, NothingLost, Working, Executing, Leaving

\* A client that is gone stays away.
LEMMA PeerGoneStays ==
    ASSUME TypeOK, closed, PeerGone, closed', sent' = sent,
           disconnected => disconnected',
           received' \in Nat, received <= received'
    PROVE  PeerGone'
BY DEF PeerGone, Unread, TypeOK

LEMMA ClientStep ==
    ASSUME TypeOK, SessionInv, ClientNext
    PROVE  SessionInv'
<1> USE DEF SessionInv, ReaderInv, MainInv, QueueInv, NothingLost, readerVars,
            linkVars, flagVars, mainVars, execVars
<1>1. CASE Send
  <2> PICK r \in Templates : sent' = Append(sent, r)
    BY <1>1 DEF Send
  <2>1. /\ UNCHANGED <<received, events, closed, stopped, readerVars, linkVars,
                       flagVars, mainVars>>
        /\ Answered' = Answered /\ (ShellExited' <=> ShellExited) /\ ~closed
    BY <1>1, SameEvents DEF Send
  <2>2. ReaderInv'
    BY <2>1, RequestSent, Working0 DEF AnswerOf
  <2>3. MainInv'
    BY <2>1, RequestSent, Working0 DEF AnswerOf, Working, Executing
  <2>4. QueueInv'
    BY <2>1, RequestSent, Working0
  <2>5. NothingLost'
    BY <2>1, RequestSent, Working0 DEF WriteFails, TypeOK
  <2> QED
    BY <2>2, <2>3, <2>4, <2>5
<1>2. CASE Receive \/ Close
  <2>1. /\ UNCHANGED <<sent, received, stopped, readerVars, linkVars, flagVars,
                       mainVars>>
        /\ Answered' = Answered /\ (ShellExited' <=> ShellExited)
        /\ Turn' = Turn /\ Side' = Side /\ (closed => closed')
    BY <1>2, SameEvents, SameSent DEF Receive, Close
  <2>2. ReaderInv'
    BY <2>1 DEF AnswerOf
  <2>3. MainInv'
    BY <2>1, PeerGoneStays DEF AnswerOf, TypeOK
  <2>4. QueueInv'
    BY <2>1
  <2>5. NothingLost'
    BY <2>1 DEF WriteFails
  <2> QED
    BY <2>2, <2>3, <2>4, <2>5
<1> QED
  BY <1>1, <1>2 DEF ClientNext

Siding == {"input", "cancel", "malformed", "setbreak", "setcancel", "ctrlc",
           "reply"}

\* The reader thread between reading a request and answering it by itself.
LEMMA ReaderQuiet ==
    ASSUME TypeOK, SessionInv,
           UNCHANGED <<sent, received, events, requests, closed, stopped,
                       inHand,
                       mainVars, inProgress, disconnected>>,
           reader \in Siding, reader' \in Siding
    PROVE  MainInv' /\ QueueInv' /\ NothingLost'
<1>1. /\ Turn' = Turn /\ Side' = Side /\ Answered' = Answered
      /\ (ShellExited' <=> ShellExited)
      /\ (WriteFails' <=> WriteFails)
  BY SameSent, SameEvents DEF WriteFails
<1>2. MainInv'
  BY <1>1, PeerGoneStays
  DEF SessionInv, MainInv, mainVars, execVars, AnswerOf, TypeOK
<1>3. QueueInv'
  BY <1>1 DEF SessionInv, QueueInv, mainVars, Siding
<1>4. NothingLost'
  BY <1>1 DEF SessionInv, NothingLost, mainVars, Siding
<1> QED
  BY <1>2, <1>3, <1>4

LEMMA ReaderStep ==
    ASSUME TypeOK, SessionInv, ReaderNext, process' # "killed"
    PROVE  SessionInv'
<1> USE DEF ReaderAt, connVars, linkVars, flagVars
<1>1. CASE ReadLine
  <2> DEFINE n == received + 1
  <2>1. /\ reader = "read" /\ n \in DOMAIN sent /\ received' = n /\ inHand' = n
        /\ reader' = sent[n].op
        /\ UNCHANGED <<sent, events, closed, stopped, requests, disconnected,
                       inProgress, mainVars>>
    BY <1>1 DEF ReadLine, Unread, TypeOK
  <2>2. /\ Turn' = Turn /\ Side' = Side /\ Answered' = Answered
        /\ (ShellExited' <=> ShellExited) /\ (WriteFails' <=> WriteFails)
    BY <2>1, SameSent, SameEvents DEF WriteFails
  <2>3. sent[n].op \in {"exec", "status", "input", "cancel", "malformed"}
    BY <2>1, SessionAssumption DEF TypeOK
  <2>4. n \notin Answered /\ received \in Nat /\ n = received + 1
    BY <2>1 DEF SessionInv, NothingLost, TypeOK
  <2> HIDE DEF n
  <2>5. ReaderInv'
    BY <2>1, <2>3 DEF ReaderInv
  <2>6. MainInv'
    <3>1. received' \in Nat /\ received <= received'
      BY <2>1, <2>4
    <3> QED
      BY <2>1, <2>2, <3>1, PeerGoneStays
      DEF SessionInv, MainInv, mainVars, execVars, AnswerOf
  <2>7. QueueInv'
    <3>1. \A i \in DOMAIN requests : requests[i] <= n /\ requests[i] < n
      BY <2>4, SessionAssumption DEF SessionInv, QueueInv, TypeOK, Ids
    <3>2. main \in Working => cmd < n
      BY <2>4, Working0, SessionAssumption DEF SessionInv, NothingLost, Ids
    <3> QED
      BY <2>1, <2>2, <3>1, <3>2 DEF SessionInv, QueueInv, mainVars
  <2>8. NothingLost'
    <3>1. Answered \subseteq 1 .. n
      BY <2>4 DEF SessionInv, NothingLost
    <3>2. \A k \in DOMAIN sent : k > received => k = n \/ k > n
      BY <2>4, Working0 DEF SessionInv
    <3>3. n \in Turn => sent[n].op \in {"exec", "status"}
      BY <2>1, Kinds
    <3>4. main \in Working => cmd \notin Answered /\ cmd <= n
      BY <2>4, Working0, SessionAssumption DEF SessionInv, NothingLost, Ids
    <3>5. ASSUME main \notin Leaving, NEW k \in Turn \ Answered
          PROVE  \/ main \in Working /\ k = cmd
                 \/ \E i \in DOMAIN requests : requests[i] = k
                 \/ reader' \in {"exec", "status"} /\ k = n
                 \/ k > n
      BY <2>1, <3>2, <3>3, <3>5, Working0 DEF SessionInv, NothingLost
    <3>6. ASSUME ~WriteFails, NEW k \in Side \ Answered
          PROVE  k > n \/ (reader' \notin {"read", "done"} /\ k = n)
      BY <2>1, <2>3, <3>2, <3>6, Working0 DEF SessionInv, NothingLost
    <3> QED
      BY <2>1, <2>2, <2>4, <3>1, <3>4, <3>5, <3>6 DEF NothingLost, mainVars
  <2> QED
    BY <2>5, <2>6, <2>7, <2>8 DEF SessionInv
<1>2. CASE ReadEnd
  <2>1. /\ UNCHANGED <<sent, events, received, closed, stopped, requests,
                       inProgress, mainVars, inHand>>
        /\ reader = "read" /\ reader' = "done" /\ (closed \/ stopped)
        /\ disconnected'
    BY <1>2 DEF ReadEnd, ReaderStopped
  <2>2. /\ Turn' = Turn /\ Side' = Side /\ Answered' = Answered
        /\ (ShellExited' <=> ShellExited) /\ (WriteFails' <=> WriteFails)
    BY <2>1, SameSent, SameEvents DEF WriteFails
  <2>3. ReaderInv' /\ QueueInv'
    BY <2>1, <2>2 DEF SessionInv, ReaderInv, QueueInv, mainVars
  <2>4. MainInv'
    BY <2>1, <2>2, PeerGoneStays
    DEF SessionInv, MainInv, mainVars, execVars, AnswerOf, TypeOK
  <2>5. NothingLost'
    BY <2>1, <2>2 DEF SessionInv, NothingLost, mainVars
  <2> QED
    BY <2>3, <2>4, <2>5 DEF SessionInv
<1>3. CASE HandOver
  <2>1. /\ UNCHANGED <<sent, events, received, closed, stopped, disconnected,
                       inProgress, mainVars>>
        /\ reader \in {"exec", "status"} /\ reader' = "read"
        /\ requests' = Append(requests, inHand)
    BY <1>3 DEF HandOver
  <2>2. /\ Turn' = Turn /\ Side' = Side /\ Answered' = Answered
        /\ (ShellExited' <=> ShellExited) /\ (WriteFails' <=> WriteFails)
    BY <2>1, SameSent, SameEvents DEF WriteFails
  <2>3. /\ inHand = received /\ inHand \in Turn \ Answered
        /\ inHand \in Ids \ {0}
    BY <2>1, Kinds, Working0 DEF SessionInv, ReaderInv, NothingLost
  <2>4. /\ Len(requests) \in Nat
        /\ DOMAIN requests = 1 .. Len(requests)
        /\ DOMAIN requests' = 1 .. Len(requests) + 1
        /\ \A i \in DOMAIN requests : requests'[i] = requests[i]
        /\ requests'[Len(requests) + 1] = inHand
    BY <2>1, <2>3, AppendFacts DEF TypeOK
  <2>5. ReaderInv'
    BY <2>1 DEF ReaderInv
  <2>6. MainInv'
    BY <2>1, <2>2, PeerGoneStays
    DEF SessionInv, MainInv, mainVars, execVars, AnswerOf, TypeOK
  <2>8. QueueInv'
    BY <2>1, <2>2, <2>3, <2>4, SessionAssumption
    DEF SessionInv, QueueInv, mainVars, Ids
  <2>9. NothingLost'
    <3>1. Len(requests) + 1 \in DOMAIN requests'
      BY <2>4
    <3>2. \A k : (\E i \in DOMAIN requests : requests[i] = k) \/ k = inHand
              => \E i \in DOMAIN requests' : requests'[i] = k
      BY <2>4, <3>1
    <3>3. inHand \notin Side
      BY <2>3, Working0, Kinds
    <3> QED
      BY <2>1, <2>2, <2>3, <3>2, <3>3 DEF SessionInv, NothingLost, mainVars
  <2> QED
    BY <2>5, <2>6, <2>8, <2>9 DEF SessionInv
<1>4. CASE Malformed \/ HandleInput
  <2>1. /\ UNCHANGED <<sent, received, events, requests, closed, stopped,
                       inHand,
                       mainVars, inProgress, disconnected>>
        /\ reader \in {"malformed", "input"} /\ reader' = "reply"
        /\ reply' \in {Event("error", inHand), Event("input_result", inHand)}
        /\ reader = "malformed" => reply' = Event("error", inHand)
    BY <1>4 DEF Malformed, HandleInput
  <2>2. inHand \in Ids /\ inHand \in Side /\ sent[inHand].op = reader
    BY <2>1, Kinds DEF SessionInv, ReaderInv, TypeOK
  <2>3. AnswerOf(reply, inHand)'
    BY <2>1, <2>2, PlainEvent DEF AnswerOf, Protocol!Answers
  <2>4. ReaderInv'
    BY <2>1, <2>2, <2>3, SameSent DEF SessionInv, ReaderInv
  <2> QED
    BY <2>1, <2>4, ReaderQuiet DEF SessionInv, Siding
<1>5. CASE CancelLook \/ CancelSetBreak \/ CancelSetRequested \/ CancelQueueCtrlC
  <2>1. /\ UNCHANGED <<sent, received, events, requests, closed, stopped,
                       inHand,
                       mainVars, inProgress, disconnected>>
        /\ reader \in {"cancel", "setbreak", "setcancel", "ctrlc"}
        /\ reader' \in {"setbreak", "setcancel", "ctrlc", "reply"}
        /\ reader' = "reply" => reply' = Event("error", inHand)
                                \/ reply' = CancelResult(inHand, target)
    BY <1>5 DEF CancelLook, CancelSetBreak, CancelSetRequested,
       CancelQueueCtrlC
  <2>2. /\ inHand \in Ids /\ inHand \in Side /\ inHand = received
        /\ inHand \in DOMAIN sent /\ sent[inHand].op = "cancel" /\ target \in Ids
    BY <2>1, Kinds DEF SessionInv, ReaderInv, TypeOK
  <2>3. reader' = "reply" => AnswerOf(reply, inHand)'
    BY <2>1, <2>2, PlainEvent, CancelEvent DEF AnswerOf, Protocol!Answers
  <2>4. ReaderInv'
    BY <2>1, <2>2, <2>3, SameSent DEF ReaderInv
  <2> QED
    BY <2>1, <2>4, ReaderQuiet DEF SessionInv, Siding
<1>6. CASE Reply
  <2>1. /\ reader = "reply" /\ reader' = "read" /\ inHand \in Side
        /\ inHand = received /\ AnswerOf(reply, inHand)
        /\ UNCHANGED <<sent, received, closed, stopped, requests, mainVars,
                       inProgress>>
        /\ disconnected' => disconnected \/ WriteFails
        /\ disconnected => disconnected'
    BY <1>6 DEF Reply, SessionInv, ReaderInv, WriteOk, WriteLost, WriteKilled
  <2>2. /\ Turn' = Turn /\ Side' = Side /\ (WriteFails' <=> WriteFails)
        /\ WriteFails => closed \/ stopped
    BY <2>1, SameSent DEF WriteFails
  <2>3. /\ inHand \notin Turn
        /\ reply.event \notin {"output", "result"} /\ reply.id = inHand
    <3>1. inHand \in DOMAIN sent /\ inHand \notin Turn
      BY <2>1, Working0, Kinds
    <3>2. sent[inHand].op \in {"input", "cancel", "malformed"}
      BY <3>1, Kinds, SessionAssumption DEF TypeOK
    <3> QED
      BY <2>1, <3>1, <3>2 DEF AnswerOf, Protocol!Answers
  <2>4. ~(ShellExited' /\ ~ShellExited)
    BY <1>6, <2>3, Logged, SameEvents DEF Reply, WriteOk, WriteLost,
       WriteKilled, TypeOK
  <2>5. \/ WriteFails /\ Answered' = Answered
        \/ ~WriteFails /\ Answered' = Answered \cup {inHand}
    BY <1>6, <2>3, Logged, SameEvents DEF Reply, WriteOk, WriteLost,
       WriteKilled, TypeOK
  <2>6. ReaderInv'
    BY <2>1 DEF ReaderInv
  <2>7. MainInv'
    BY <2>1, <2>2, <2>4, PeerGoneStays
    DEF SessionInv, MainInv, mainVars, execVars, AnswerOf, TypeOK
  <2>8. QueueInv'
    BY <2>1, <2>2, <2>3, <2>5 DEF SessionInv, QueueInv, mainVars
  <2>9. NothingLost'
    <3>1. received \in 1 .. received
      BY <2>1, Working0 DEF TypeOK, SessionInv, ReaderInv
    <3> QED
      BY <2>1, <2>2, <2>3, <2>5, <3>1 DEF SessionInv, MainInv, NothingLost,
         mainVars
  <2> QED
    BY <2>6, <2>7, <2>8, <2>9 DEF SessionInv
<1>7. CASE LockToReply
  <2>1. /\ UNCHANGED <<sent, received, events, requests, closed, stopped,
                       inHand, reader, reply, mainVars, inProgress,
                       disconnected>>
        /\ reader = "reply"
    BY <1>7 DEF LockToReply, readerVars
  <2>2. ReaderInv'
    BY <2>1, SameSent DEF SessionInv, ReaderInv, AnswerOf
  <2> QED
    BY <2>1, <2>2, ReaderQuiet DEF SessionInv, Siding
<1> QED
  BY <1>1, <1>2, <1>3, <1>4, <1>5, <1>6, <1>7 DEF ReaderNext

-----------------------------------------------------------------------------
(* The emulator thread.                                                    *)

\* A step that takes up no request and answers none.
LEMMA MainQuiet ==
    ASSUME TypeOK, SessionInv,
           UNCHANGED <<sent, received, closed, reader, inHand, reply,
                       requests>>,
           Answered' = Answered, stopped => stopped',
           \/ main' \in Leaving
           \/ main \in Working /\ main' \in Working /\ cmd' = cmd
    PROVE  ReaderInv' /\ QueueInv' /\ NothingLost'
<1>1. Turn' = Turn /\ Side' = Side /\ (WriteFails => WriteFails')
  BY SameSent DEF WriteFails
<1>2. main' \in Working => main \in Working /\ cmd' = cmd /\ main' \notin Leaving
  BY DEF Working, Executing, Leaving
<1>3. main' \notin Leaving => main' \in Working /\ main \notin Leaving
  BY DEF Working, Executing, Leaving
<1>4. ReaderInv'
  BY <1>1 DEF SessionInv, ReaderInv, AnswerOf
<1>5. QueueInv'
  BY <1>1, <1>2 DEF SessionInv, QueueInv
<1>6. NothingLost'
  BY <1>1, <1>2, <1>3 DEF SessionInv, NothingLost
<1> QED
  BY <1>4, <1>5, <1>6

\* What the events of a command in execution do not change.
LEMMA OutputWritten ==
    ASSUME TypeOK, cmd \in Ids,
           events' = events \/ events' = Append(events, OutputEvent(cmd, buf))
    PROVE  Answered' = Answered /\ (ShellExited' <=> ShellExited)
<1>1. OutputEvent(cmd, buf) \in Events /\ OutputEvent(cmd, buf).event = "output"
  BY OutEvent DEF TypeOK
<1> QED
  BY <1>1, Logged, SameEvents

LEMMA Gone ==
    ASSUME TypeOK, SessionInv, main \notin {"join", "returned"}
    PROVE  /\ ~stopped
           /\ WriteFails <=> closed
           /\ PeerGone => closed
           /\ disconnected => closed
  BY SessionAssumption DEF SessionInv, MainInv, WriteFails, PeerGone

LEMMA TakeStep ==
    ASSUME TypeOK, SessionInv, Take
    PROVE  SessionInv'
<1>1. /\ main = "wait" /\ main' = "check" /\ requests # <<>>
      /\ cmd' = Head(requests) /\ requests' = Tail(requests)
      /\ UNCHANGED <<sent, received, events, closed, stopped, reader, inHand,
                     reply, disconnected, inProgress, buf, answer>>
  BY DEF Take, MainAt, connVars, readerVars, flagVars, execVars
<1>2. /\ Turn' = Turn /\ Side' = Side /\ Answered' = Answered
      /\ (ShellExited' <=> ShellExited) /\ (WriteFails' <=> WriteFails)
  BY <1>1, SameSent, SameEvents DEF WriteFails
<1>3. /\ cmd' = requests[1] /\ 1 \in DOMAIN requests
      /\ Len(requests) \in Nat
      /\ DOMAIN requests = 1 .. Len(requests)
      /\ DOMAIN requests' = 1 .. Len(requests) - 1
      /\ \A i \in DOMAIN requests' : requests'[i] = requests[i + 1]
  BY <1>1, TailFacts DEF TypeOK
<1>4. cmd' \in Turn \ Answered /\ cmd' <= received
  BY <1>3 DEF SessionInv, QueueInv
<1>5. ReaderInv'
  BY <1>1, <1>2 DEF SessionInv, ReaderInv, AnswerOf
<1>6. MainInv'
  BY <1>1, <1>2, <1>4 DEF SessionInv, MainInv, Working, Executing, Leaving
<1>7. QueueInv'
  <2>1. \A i \in DOMAIN requests' : i + 1 \in DOMAIN requests /\ 1 < i + 1
    BY <1>3
  <2>2. \A i \in DOMAIN requests' :
           requests'[i] \in Turn \ Answered /\ requests'[i] <= received
    BY <1>3, <2>1 DEF SessionInv, QueueInv
  <2>3. \A i, j \in DOMAIN requests' : i < j => requests'[i] < requests'[j]
    BY <1>3, <2>1 DEF SessionInv, QueueInv
  <2>4. \A i \in DOMAIN requests' : cmd' < requests'[i]
    BY <1>3, <2>1 DEF SessionInv, QueueInv
  <2>5. reader \in {"exec", "status"} =>
           cmd' < inHand /\ \A i \in DOMAIN requests' : requests'[i] < inHand
    BY <1>3, <2>1 DEF SessionInv, QueueInv
  <2> QED
    BY <1>1, <1>2, <2>2, <2>3, <2>4, <2>5 DEF QueueInv
<1>8. NothingLost'
  <2>1. \A i \in DOMAIN requests : i = 1 \/ (i - 1 \in DOMAIN requests'
                                             /\ requests'[i - 1] = requests[i])
    BY <1>3
  <2>2. \A k : (\E i \in DOMAIN requests : requests[i] = k)
                 => k = cmd' \/ \E i \in DOMAIN requests' : requests'[i] = k
    BY <1>3, <2>1
  <2>3. main \notin Working /\ main' \in Working /\ main \notin Leaving
    BY <1>1 DEF Working, Executing, Leaving
  <2> QED
    BY <1>1, <1>2, <1>4, <2>2, <2>3 DEF SessionInv, NothingLost
<1> QED
  BY <1>5, <1>6, <1>7, <1>8 DEF SessionInv

LEMMA EmitStep ==
    ASSUME TypeOK, SessionInv, Emit, process' # "killed"
    PROVE  SessionInv'
<1> DEFINE last == answer.event = "result" /\ answer.exit
<1>1. /\ main = "emit" /\ AnswerOf(answer, cmd) /\ cmd \in Turn /\ cmd # 0
      /\ cmd \notin Answered /\ cmd <= received /\ cmd \in 1 .. received
      /\ UNCHANGED <<sent, received, closed, stopped, reader, inHand, reply,
                     requests, inProgress, buf>>
  BY Working0, SessionAssumption
  DEF Emit, MainWrites, MainAt, SessionInv, MainInv, NothingLost, Working,
      readerVars, flagVars, TypeOK, Ids
<1>2. Turn' = Turn /\ Side' = Side /\ (WriteFails' <=> WriteFails)
  BY <1>1, SameSent DEF WriteFails
<1>3. CASE WriteLost
  <2>1. /\ main' = "end" /\ failed' = TRUE /\ events' = events /\ closed
        /\ Answered' = Answered /\ (ShellExited' <=> ShellExited)
    BY <1>1, <1>3, Gone, SameEvents DEF Emit, Write, WriteOk, WriteLost,
       WriteKilled
  <2>2. ReaderInv' /\ QueueInv' /\ NothingLost'
    BY <1>1, <2>1, MainQuiet DEF Leaving
  <2>3. MainInv'
    BY <1>1, <1>2, <2>1 DEF SessionInv, MainInv, Working, Executing, Leaving
  <2> QED
    BY <2>2, <2>3 DEF SessionInv
<1>4. CASE WriteOk(answer)
  <2>1. /\ main' = IF last THEN "end" ELSE "wait"
        /\ events' = Append(events, answer)
        /\ disconnected' = disconnected
    BY <1>4 DEF Emit, Write, WriteOk, WriteLost, WriteKilled
  <2>2. answer.event # "output" /\ answer.id = cmd
    <3>1. cmd \in DOMAIN sent /\ sent[cmd].op \in {"exec", "status"}
      BY <1>1, Working0, Kinds
    <3> QED
      BY <1>1, <3>1 DEF AnswerOf, Protocol!Answers
  <2>3. /\ Answered' = Answered \cup {cmd}
        /\ ShellExited' <=> ShellExited \/ last
    BY <2>1, <2>2, Logged DEF TypeOK
  <2>4. ~ShellExited /\ cmd \notin Side
    BY <1>1, Working0, Kinds DEF SessionInv, MainInv, Leaving
  <2>5. ReaderInv'
    BY <1>1, <1>2 DEF SessionInv, ReaderInv, AnswerOf
  <2>6. MainInv'
    BY <1>1, <1>2, <2>1, <2>3, <2>4
    DEF SessionInv, MainInv, Working, Executing, Leaving
  <2>7. QueueInv'
    <3>1. main \in Working /\ main' \notin Working
      BY <1>1, <2>1 DEF Working, Executing
    <3>2. \A i \in DOMAIN requests : requests[i] # cmd
      BY <1>1, <3>1, SessionAssumption DEF SessionInv, QueueInv, TypeOK, Ids
    <3> QED
      BY <1>1, <1>2, <2>3, <3>1, <3>2 DEF SessionInv, QueueInv
  <2>8. NothingLost'
    <3>1. main \in Working /\ main' \notin Working /\ main \notin Leaving
      BY <1>1, <2>1 DEF Working, Executing, Leaving
    <3>2. reader \in {"exec", "status"} => inHand # cmd
      BY <1>1, <3>1, SessionAssumption DEF SessionInv, QueueInv, TypeOK, Ids
    <3>3. reader \notin {"read", "done", "exec", "status"} => inHand \in Side
      BY Kinds, SessionAssumption DEF SessionInv, ReaderInv, TypeOK,
         ReaderStates
    <3> QED
      BY <1>1, <1>2, <2>3, <2>4, <3>1, <3>2, <3>3 DEF SessionInv, NothingLost
  <2> QED
    BY <2>5, <2>6, <2>7, <2>8 DEF SessionInv
<1> QED
  BY <1>3, <1>4 DEF Emit, Write, WriteKilled

LEMMA MainStep ==
    ASSUME TypeOK, SessionInv, MainNext, process' # "killed"
    PROVE  SessionInv'
<1> USE DEF MainAt, connVars, readerVars, linkVars, flagVars, execVars
<1>0. UNCHANGED <<sent, events>> =>
         /\ Turn' = Turn /\ Side' = Side /\ Answered' = Answered
         /\ (ShellExited' <=> ShellExited)
  BY SameSent, SameEvents
<1>1. CASE Leave \/ GiveUp
  <2>1. /\ UNCHANGED <<sent, received, events, closed, stopped, reader, inHand,
                       reply, requests, inProgress, cmd, buf, answer, failed>>
        /\ main \in {"wait", "check", "after"} /\ main' = "end"
        /\ disconnected => disconnected'
        /\ disconnected' => disconnected \/ closed
        /\ main = "after" => closed /\ PeerGone
    BY <1>1, Gone DEF Leave, GiveUp, FoundGone
  <2>2. ReaderInv' /\ QueueInv' /\ NothingLost'
    BY <1>0, <2>1, MainQuiet DEF Leaving
  <2>3. main = "after" => closed' /\ PeerGone'
    BY <2>1, PeerGoneStays DEF TypeOK
  <2>4. main # "after" => buf = 0
    BY <2>1 DEF SessionInv, MainInv
  <2>5. MainInv'
    BY <1>0, <2>1, <2>3, <2>4
    DEF SessionInv, MainInv, Working, Executing, Leaving
  <2> QED
    BY <2>2, <2>5 DEF SessionInv
<1>2. CASE AnswerStatus \/ BeginExec
  <2>1. /\ UNCHANGED <<sent, received, events, closed, stopped, reader, inHand,
                       reply, requests, disconnected, inProgress, cmd>>
        /\ main = "check" /\ main' \in {"arm", "emit"} /\ buf' \in {0, buf}
        /\ main' = "arm" => sent[cmd].op = "exec"
        /\ main' = "emit" =>
              \/ answer' = Event("status", cmd) /\ sent[cmd].op = "status"
              \/ answer' = Event("error", cmd) /\ sent[cmd].op = "exec"
    BY <1>2 DEF AnswerStatus, BeginExec
  <2>2. ReaderInv' /\ QueueInv' /\ NothingLost'
    BY <1>0, <2>1, MainQuiet DEF Working, Executing
  <2>3. main' = "emit" => AnswerOf(answer, cmd)'
    BY <2>1, PlainEvent DEF AnswerOf, Protocol!Answers, TypeOK
  <2>4. MainInv'
    BY <1>0, <2>1, <2>3 DEF SessionInv, MainInv, Working, Executing, Leaving
  <2> QED
    BY <2>2, <2>4 DEF SessionInv
<1>3. CASE Disarm \/ StartExec \/ GuestOutput \/ BeginFlush \/ DrainInput
           \/ GuestResetsBreak \/ UnwindBatch \/ CommandReturns \/ EndExec
  <2>1. /\ UNCHANGED <<sent, received, events, closed, stopped, reader, inHand,
                       reply, requests, disconnected, cmd, answer>>
        /\ main \in {"arm", "armed", "run", "ran"}
        /\ main' \in {"armed", "run", "output", "ran", "exchange"}
        /\ inProgress' => main' \in {"run", "output", "ran"}
    <3>1. main \notin {"run", "output", "ran"} => inProgress = FALSE
      BY DEF SessionInv, MainInv, TypeOK, FlagTypes
    <3>2. CASE Disarm \/ StartExec \/ EndExec \/ DrainInput
      BY <3>1, <3>2 DEF Disarm, StartExec, EndExec, DrainInput, mainVars
    <3>3. CASE GuestResetsBreak \/ GuestOutput \/ BeginFlush \/ UnwindBatch
               \/ CommandReturns
      BY <3>3 DEF GuestResetsBreak, GuestOutput, BeginFlush, UnwindBatch,
         CommandReturns, mainVars
    <3> QED
      BY <1>3, <3>2, <3>3
  <2>2. ReaderInv' /\ QueueInv' /\ NothingLost'
    BY <1>0, <2>1, MainQuiet DEF Working, Executing
  <2>3. MainInv'
    BY <1>0, <2>1 DEF SessionInv, MainInv, Working, Executing, Leaving
  <2> QED
    BY <2>2, <2>3 DEF SessionInv
<1>4. CASE FlushOutput \/ FlushRest
  <2>1. /\ UNCHANGED <<sent, received, closed, stopped, reader, inHand, reply,
                       requests, inProgress, cmd, answer>>
        /\ \/ main = "output" /\ main' = "run"
           \/ main = "rest" /\ main' = "emit" /\ buf' = 0
           \/ main = "rest" /\ main' = "end" /\ failed'
        /\ disconnected' => disconnected \/ WriteFails
        /\ events' = events \/ events' = Append(events, OutputEvent(cmd, buf))
    BY <1>4 DEF FlushOutput, FlushRest, MainWrites, Write, WriteOk, WriteLost,
       WriteKilled
  <2>2. Answered' = Answered /\ (ShellExited' <=> ShellExited)
    BY <2>1, OutputWritten DEF TypeOK
  <2>3. ReaderInv' /\ QueueInv' /\ NothingLost'
    BY <2>1, <2>2, MainQuiet DEF Working, Executing, Leaving
  <2>4. MainInv'
    BY <2>1, <2>2, Gone, SameSent
    DEF SessionInv, MainInv, Working, Executing, Leaving, AnswerOf
  <2> QED
    BY <2>3, <2>4 DEF SessionInv
<1>5. CASE ExchangeCancel \/ StillThere
  <2>1. /\ UNCHANGED <<sent, received, events, closed, stopped, reader, inHand,
                       reply, requests, disconnected, inProgress, cmd>>
        /\ main \in {"exchange", "after"} /\ main' \in {"after", "flush"}
        /\ main = "after" => answer' = answer
        /\ main = "exchange" =>
              answer' = ExecResult(cmd, shellExit, cancelReq, produced, broken)
    BY <1>5 DEF ExchangeCancel, StillThere
  <2>2. answer'.event = "result" /\ AnswerOf(answer, cmd)'
    <3>1. CASE main = "exchange"
      <4>1. sent[cmd].op = "exec"
        BY <3>1 DEF SessionInv, MainInv, Executing
      <4>2. shellExit \in BOOLEAN /\ cancelReq \in BOOLEAN /\ broken \in BOOLEAN
            /\ produced \in Nat /\ cmd \in Ids
        BY DEF TypeOK, FlagTypes
      <4>3. answer'.event = "result" /\ answer'.id = cmd
        BY <2>1, <3>1, <4>2, ResultEvent
      <4> QED
        BY <2>1, <4>1, <4>3 DEF AnswerOf, Protocol!Answers
    <3>2. CASE main = "after"
      BY <2>1, <3>2 DEF SessionInv, MainInv, AnswerOf
    <3> QED
      BY <2>1, <3>1, <3>2
  <2>3. ReaderInv' /\ QueueInv' /\ NothingLost'
    BY <1>0, <2>1, MainQuiet DEF Working, Executing
  <2>4. MainInv'
    BY <1>0, <2>1, <2>2 DEF SessionInv, MainInv, Working, Executing, Leaving
  <2> QED
    BY <2>3, <2>4 DEF SessionInv
<1>6. CASE FinalFlush
  <2>1. /\ UNCHANGED <<sent, received, events, closed, stopped, reader, inHand,
                       reply, requests, disconnected, inProgress, cmd, buf,
                       answer>>
        /\ main = "flush" /\ main' \in {"emit", "rest", "end"}
        /\ main' = "emit" => buf = 0
        /\ main' = "end" => failed'
    BY <1>6 DEF FinalFlush
  <2>2. ReaderInv' /\ QueueInv' /\ NothingLost'
    BY <1>0, <2>1, MainQuiet DEF Working, Executing, Leaving
  <2>3. MainInv'
    BY <1>0, <2>1 DEF SessionInv, MainInv, Working, Executing, Leaving, AnswerOf
  <2> QED
    BY <2>2, <2>3 DEF SessionInv
<1>7. CASE LastFlush
  <2>1. /\ UNCHANGED <<sent, received, events, closed, stopped, reader, inHand,
                       reply, requests, inProgress, cmd, answer>>
        /\ main = "end" /\ main' = "stop"
        /\ disconnected' => disconnected \/ closed
    BY <1>7, Gone DEF LastFlush, FoundGone, TypeOK, SessionInv, MainInv
  <2>2. ReaderInv' /\ QueueInv' /\ NothingLost'
    BY <1>0, <2>1, MainQuiet DEF Leaving
  <2>3. MainInv'
    BY <1>0, <2>1 DEF SessionInv, MainInv, Working, Executing, Leaving
  <2> QED
    BY <2>2, <2>3 DEF SessionInv
<1>8. CASE StopReader \/ JoinReader
  <2>1. /\ UNCHANGED <<sent, received, events, closed, reader, inHand, reply,
                       requests, disconnected>>
        /\ main \in {"stop", "join"} /\ main' \in {"join", "returned"}
        /\ (stopped => stopped') /\ (inProgress' => inProgress)
    BY <1>8 DEF StopReader, JoinReader
  <2>2. ReaderInv' /\ QueueInv' /\ NothingLost'
    BY <1>0, <2>1, MainQuiet DEF Leaving
  <2>3. MainInv'
    BY <1>0, <2>1 DEF SessionInv, MainInv, Working, Executing, Leaving
  <2> QED
    BY <2>2, <2>3 DEF SessionInv
<1>9. CASE LockToWrite
  <2>1. /\ UNCHANGED <<sent, received, events, closed, stopped, reader, inHand,
                       reply, requests, disconnected, inProgress, mainVars>>
        /\ main \in {"output", "rest", "emit"}
    BY <1>9 DEF LockToWrite
  <2>2. UNCHANGED <<main, cmd, buf, answer, failed>>
    BY <2>1 DEF mainVars
  <2>3. ReaderInv' /\ QueueInv' /\ NothingLost'
    BY <1>0, <2>1, <2>2, MainQuiet DEF Working, Executing, Leaving
  <2>4. MainInv'
    BY <1>0, <2>1, <2>2, PeerGoneStays DEF SessionInv, MainInv, AnswerOf, TypeOK
  <2> QED
    BY <2>3, <2>4 DEF SessionInv
<1> QED
  BY <1>1, <1>2, <1>3, <1>4, <1>5, <1>6, <1>7, <1>8, <1>9, TakeStep, EmitStep
  DEF MainNext, CommandThrows

LEMMA InvStep ==
    ASSUME Inv, [Next]_vars
    PROVE  Inv'
<1>1. CASE Ended \/ UNCHANGED vars
  <2>1. UNCHANGED vars
    BY <1>1 DEF Ended
  <2>2. /\ UNCHANGED <<connVars, readerVars, linkVars, flagVars, mainVars>>
        /\ process' = process /\ hits' = hits
    BY <2>1 DEF vars
  <2>3. sent' = sent /\ events' = events
    BY <2>2 DEF connVars
  <2>4. TypeOK'
    BY <2>2 DEF Inv, TypeOK, FlagTypes, EventTypes, connVars, readerVars,
       linkVars, flagVars, mainVars, execVars
  <2>5. SessionInv => SessionInv'
    <3> USE DEF connVars, readerVars, linkVars, flagVars, mainVars, execVars
    <3>1. /\ Turn' = Turn /\ Side' = Side /\ Answered' = Answered
          /\ (ShellExited' <=> ShellExited) /\ (WriteFails' <=> WriteFails)
      BY <2>2, <2>3, SameSent, SameEvents DEF WriteFails
    <3>2. ReaderInv => ReaderInv'
      BY <2>2, <3>1 DEF ReaderInv, AnswerOf
    <3>3. MainInv => MainInv'
      BY <2>2, <3>1 DEF MainInv, AnswerOf, PeerGone, Unread
    <3>4. QueueInv => QueueInv'
      BY <2>2, <3>1 DEF QueueInv
    <3>5. NothingLost => NothingLost'
      BY <2>2, <3>1 DEF NothingLost
    <3> QED
      BY <3>2, <3>3, <3>4, <3>5 DEF SessionInv
  <2> QED
    BY <2>2, <2>4, <2>5 DEF Inv
<1>2. CASE ClientNext \/ ReaderNext \/ MainNext
  <2>1. process = "serving"
    BY <1>2 DEF ClientNext, Send, Receive, Close, ReaderNext, ReadLine,
       ReadEnd,
       HandOver, Malformed, HandleInput, CancelLook, CancelSetBreak,
       CancelSetRequested, CancelQueueCtrlC, Reply, MainNext, Leave, Take,
       GiveUp, AnswerStatus, BeginExec, Disarm, StartExec, GuestOutput,
       BeginFlush, FlushOutput, DrainInput, GuestResetsBreak, UnwindBatch,
       CommandReturns, CommandThrows, EndExec, ExchangeCancel, StillThere,
       FinalFlush, FlushRest, LockToReply, LockToWrite, MainWrites, Emit,
       LastFlush, StopReader, JoinReader, ReaderAt, MainAt, Serving
  <2>2. TypeOK /\ SessionInv
    BY <2>1 DEF Inv
  <2>3. FlagTypes'
    BY <1>2, <2>2, FlagStep DEF Next, TypeOK
  <2>4. TypeOK'
    BY <1>2, <2>2, <2>3, ClientTypes, ReaderTypes, MainTypes
  <2>5. process' # "killed" => SessionInv'
    BY <1>2, <2>2, ClientStep, ReaderStep, MainStep
  <2> QED
    BY <2>4, <2>5 DEF Inv
<1> QED
  BY <1>1, <1>2 DEF Next

(* Every variable keeps its type: the input queue keeps to its bound, the  *)
(* output not yet flushed was produced by the command in execution, every  *)
(* event that was sent is one of those the documentation lists.            *)
THEOREM TypeCorrect == Spec => []TypeOK
<1>1. Init => Inv
  BY InvInit
<1>2. Inv /\ [Next]_vars => Inv'
  BY InvStep
<1>3. Inv => TypeOK
  BY DEF Inv
<1> QED
  BY <1>1, <1>2, <1>3, PTL DEF Spec

(* Whatever way a session comes to its end, the last flush has nothing to  *)
(* send to a client that is still there (run_control_socket_session,       *)
(* 1498-1582).                                                             *)
THEOREM LastFlushEmpty == Spec => []NothingLeftToFlush
<1>1. Init => Inv
  BY InvInit
<1>2. Inv /\ [Next]_vars => Inv'
  BY InvStep
<1>3. Inv => NothingLeftToFlush
  BY DEF Inv, SessionInv, MainInv, NothingLeftToFlush, Serving, TypeOK
<1> QED
  BY <1>1, <1>2, <1>3, PTL DEF Spec

-----------------------------------------------------------------------------
(* Refinement: the connection keeps to the protocol.                       *)

LEMMA NextOnTheSide ==
    ASSUME TypeOK, SessionInv, reader = "reply", ~WriteFails
    PROVE  Protocol!IsNext(inHand, Side)
<1>1. inHand \in Side \ Answered /\ inHand = received
  BY DEF SessionInv, ReaderInv, NothingLost
<1>2. \A k \in Side \ Answered : k > received \/ k = inHand
  BY DEF SessionInv, NothingLost
<1>3. \A k \in Side \ Answered : inHand <= k
  BY <1>1, <1>2, Working0 DEF TypeOK
<1> QED
  BY <1>1, <1>3 DEF Protocol!IsNext, Answered

LEMMA NextInTurn ==
    ASSUME TypeOK, SessionInv, main \in Working
    PROVE  Protocol!IsNext(cmd, Turn)
<1>1. cmd \in Turn \ Answered /\ cmd <= received /\ main \notin Leaving
  BY DEF SessionInv, MainInv, NothingLost, Working, Executing, Leaving
<1>2. ASSUME NEW k \in Turn \ Answered
      PROVE  cmd <= k
  <2>1. cmd \in Nat /\ k \in Nat /\ received \in Nat
    BY Working0, SessionAssumption DEF Ids, TypeOK
  <2>2. CASE k = cmd
    BY <2>1, <2>2
  <2>3. CASE \E j \in DOMAIN requests : requests[j] = k
    BY <2>1, <2>3 DEF SessionInv, QueueInv
  <2>4. CASE reader \in {"exec", "status"} /\ k = inHand
    BY <2>1, <2>4 DEF SessionInv, QueueInv
  <2>5. CASE k > received
    BY <1>1, <2>1, <2>5
  <2> QED
    BY <1>1, <2>2, <2>3, <2>4, <2>5 DEF SessionInv, NothingLost
<1> QED
  BY <1>1, <1>2 DEF Protocol!IsNext, Answered

LEMMA OutputSent ==
    ASSUME TypeOK, SessionInv, main \in Executing, sent' = sent,
           events' = Append(events, OutputEvent(cmd, buf))
    PROVE  Protocol!Next
<1>1. main \in Working /\ main \notin Leaving /\ sent[cmd].op = "exec"
  BY DEF SessionInv, MainInv, Working, Executing, Leaving
<1>2. cmd \in Turn /\ Protocol!IsNext(cmd, Turn)
  BY <1>1, NextInTurn DEF SessionInv, MainInv
<1>3. LET e == OutputEvent(cmd, buf)
      IN  e \in Events /\ e.event = "output" /\ e.id = cmd
  BY OutEvent DEF TypeOK
<1>4. /\ Len(events') = Len(events) + 1
      /\ SubSeq(events', 1, Len(events)) = events
      /\ events'[Len(events')].id = cmd
      /\ events'[Len(events')].event = "output"
  BY <1>3, Logged
<1>5. Protocol!Output
  BY <1>1, <1>2, <1>4 DEF Protocol!Output, Protocol!IsLogged, Turn
<1>6. ~Protocol!ShellExited
  BY <1>1 DEF SessionInv, MainInv, ShellExited, ResultEvents,
     Protocol!ShellExited
<1> QED
  BY <1>5, <1>6 DEF Protocol!Next

LEMMA AnswerSent ==
    ASSUME TypeOK, SessionInv, sent' = sent,
           NEW class, NEW i \in class, Protocol!IsNext(i, class),
           NEW e \in Events, AnswerOf(e, i), events' = Append(events, e)
    PROVE  Protocol!Answer(class)
<1>1. /\ Len(events') = Len(events) + 1
      /\ SubSeq(events', 1, Len(events)) = events
      /\ events'[Len(events')] = e
  BY Logged
<1>2. /\ events'[Len(events')].id = i
      /\ events'[Len(events')].event \in Protocol!Answers(sent[i])
  BY <1>1 DEF AnswerOf
<1> QED
  BY <1>1, <1>2 DEF Protocol!Answer, Protocol!IsLogged

LEMMA ProtocolStep ==
    ASSUME Inv, [Next]_vars
    PROVE  [Protocol!Next]_(Protocol!vars)
<1> USE DEF Protocol!vars, connVars, readerVars, linkVars, flagVars, mainVars,
            execVars
<1>1. CASE Send
  BY <1>1 DEF Send, Protocol!Next, Protocol!Send
<1>2. CASE Reply
  <2>1. TypeOK /\ SessionInv /\ reader = "reply" /\ sent' = sent
    BY <1>2 DEF Inv, Reply, ReaderAt, Serving
  <2>2. CASE WriteOk(reply)
    <3>1. events' = Append(events, reply) /\ Protocol!IsNext(inHand, Side)
      BY <2>1, <2>2, NextOnTheSide DEF WriteOk
    <3>2. inHand \in Side /\ AnswerOf(reply, inHand) /\ reply \in Events
      BY <2>1 DEF SessionInv, ReaderInv, TypeOK
    <3>3. Protocol!Answer(Side)
      BY <2>1, <3>1, <3>2, AnswerSent
    <3> QED
      BY <3>3 DEF Protocol!Next, Side
  <2> QED
    BY <1>2, <2>1, <2>2 DEF Reply, WriteLost, WriteKilled
<1>3. CASE Emit
  <2>1. TypeOK /\ SessionInv /\ main = "emit" /\ sent' = sent
    BY <1>3 DEF Inv, Emit, MainWrites, MainAt, Serving
  <2>2. CASE WriteOk(answer)
    <3>1. main \in Working /\ main \notin Leaving
      BY <2>1 DEF Working, Leaving, Executing
    <3>2. events' = Append(events, answer) /\ Protocol!IsNext(cmd, Turn)
      BY <2>1, <2>2, <3>1, NextInTurn DEF WriteOk
    <3>3. cmd \in Turn /\ AnswerOf(answer, cmd) /\ answer \in Events
      BY <2>1, <3>1 DEF SessionInv, MainInv, TypeOK
    <3>4. Protocol!Answer(Turn)
      BY <2>1, <3>2, <3>3, AnswerSent
    <3>5. ~Protocol!ShellExited
      BY <2>1, <3>1 DEF SessionInv, MainInv, ShellExited, ResultEvents,
         Protocol!ShellExited
    <3> QED
      BY <3>4, <3>5 DEF Protocol!Next, Turn
  <2> QED
    BY <1>3, <2>1, <2>2 DEF Emit, Write, WriteLost, WriteKilled
<1>4. CASE FlushOutput \/ FlushRest
  <2>1. /\ TypeOK /\ SessionInv /\ main \in Executing /\ sent' = sent
        /\ events' = events \/ events' = Append(events, OutputEvent(cmd, buf))
    BY <1>4 DEF Inv, FlushOutput, FlushRest, MainWrites, Write, WriteOk,
       WriteLost, WriteKilled, MainAt, Serving, Executing
  <2> QED
    BY <2>1, OutputSent
<1>6. CASE Receive \/ Close
  BY <1>6 DEF Receive, Close
<1>7. CASE ReadLine \/ ReadEnd \/ HandOver \/ Malformed \/ HandleInput
           \/ CancelLook \/ CancelSetBreak \/ CancelSetRequested
           \/ CancelQueueCtrlC \/ LockToReply
  BY <1>7 DEF ReadLine, ReadEnd, HandOver, Malformed, HandleInput, CancelLook,
     CancelSetBreak, CancelSetRequested, CancelQueueCtrlC, LockToReply
<1>8. CASE Leave \/ Take \/ GiveUp \/ AnswerStatus \/ BeginExec \/ Disarm
           \/ StartExec \/ GuestOutput \/ BeginFlush \/ DrainInput
           \/ GuestResetsBreak \/ LockToWrite
  BY <1>8 DEF Leave, Take, GiveUp, AnswerStatus, BeginExec, Disarm, StartExec,
     GuestOutput, BeginFlush, DrainInput, GuestResetsBreak, LockToWrite
<1>9. CASE UnwindBatch \/ CommandReturns \/ CommandThrows \/ EndExec
           \/ ExchangeCancel \/ StillThere \/ FinalFlush \/ LastFlush
           \/ StopReader \/ JoinReader
  BY <1>9 DEF UnwindBatch, CommandReturns, CommandThrows, EndExec,
     ExchangeCancel, StillThere, FinalFlush, LastFlush, StopReader, JoinReader
<1>10. CASE Ended \/ UNCHANGED vars
  BY <1>10 DEF Ended, vars
<1> QED
  BY <1>1, <1>2, <1>3, <1>4, <1>6, <1>7, <1>8, <1>9, <1>10
  DEF Next, ClientNext, ReaderNext, MainNext

(* The session with its reader thread, its emulator thread, its queue of   *)
(* commands and its buffered output implements the protocol: commands are  *)
(* answered once and in the order sent, output belongs to the command in   *)
(* execution, nothing runs after the shell has exited.                     *)
THEOREM SessionImplementsProtocol == Spec => ImplementsProtocol
<1>1. Init => Protocol!Init /\ Inv
  BY InvInit DEF Init, Protocol!Init
<1>2. Inv /\ [Next]_vars => Inv'
  BY InvStep
<1>3. Inv /\ [Next]_vars => [Protocol!Next]_(Protocol!vars)
  BY ProtocolStep
<1> QED
  BY <1>1, <1>2, <1>3, PTL DEF Spec, ImplementsProtocol, Protocol!Spec

-----------------------------------------------------------------------------
(* Sums over events, by induction on their number.                         *)

LEMMA FirstNatural ==
    ASSUME NEW S, S \subseteq Nat, S # {}
    PROVE  \E n \in S : n # 0 => n - 1 \in Nat \ S
<1>1. PICK n \in S : \A m \in S : ~(<<m, n>> \in OpToRel(<, Nat))
  BY NatLessThanWellFounded, WFMin
<1>2. \A m \in S : ~(m < n)
  BY <1>1 DEF OpToRel
<1> QED
  BY <1>2

\* f holds the sums of the first n events, for each n up to m.
Sums(f, s, id, m) ==
    f = [n \in 0 .. m |->
            IF n = 0 THEN 0 ELSE f[n - 1] + Units(s[n], id)]

LEMMA UnitsType ==
    ASSUME NEW e \in Events, NEW id
    PROVE  Units(e, id) \in Nat
  BY DEF Units, Events

LEMMA SumsExist ==
    ASSUME NEW s \in Seq(Events), NEW id, NEW m \in 0 .. Len(s)
    PROVE  \E f \in [0 .. m -> Nat] : Sums(f, s, id, m)
<1> DEFINE S == {n \in 0 .. Len(s) :
                    ~ \E f \in [0 .. n -> Nat] : Sums(f, s, id, n)}
<1>1. SUFFICES ASSUME S # {} PROVE FALSE
  OBVIOUS
<1>2. PICK n \in S : n # 0 => n - 1 \in Nat \ S
  <2>1. S \subseteq Nat
    OBVIOUS
  <2> HIDE DEF S
  <2> QED
    BY <1>1, <2>1, FirstNatural
<1>3. n \in 0 .. Len(s) /\ Len(s) \in Nat
  OBVIOUS
<1>4. n # 0
  <2>1. Sums([k \in 0 .. 0 |-> 0], s, id, 0)
    BY DEF Sums
  <2>2. [k \in 0 .. 0 |-> 0] \in [0 .. 0 -> Nat]
    OBVIOUS
  <2> QED
    BY <2>1, <2>2
<1>5. n - 1 \in 0 .. Len(s) /\ n - 1 \notin S
  BY <1>2, <1>3, <1>4
<1>6. PICK f \in [0 .. n - 1 -> Nat] : Sums(f, s, id, n - 1)
  BY <1>5
<1> DEFINE g == [k \in 0 .. n |->
                    IF k = n THEN f[n - 1] + Units(s[n], id) ELSE f[k]]
<1>7. Units(s[n], id) \in Nat
  BY <1>3, <1>4, UnitsType
<1>8. g \in [0 .. n -> Nat]
  BY <1>3, <1>4, <1>6, <1>7
<1>9. \A k \in 0 .. n :
         g[k] = IF k = 0 THEN 0 ELSE g[k - 1] + Units(s[k], id)
  <2> TAKE k \in 0 .. n
  <2>1. CASE k = n
    BY <1>3, <1>4, <2>1
  <2>2. CASE k # n
    <3>1. k \in 0 .. n - 1 /\ (k # 0 => k - 1 \in 0 .. n - 1)
      BY <1>3, <2>2
    <3>2. f[k] = IF k = 0 THEN 0 ELSE f[k - 1] + Units(s[k], id)
      BY <1>6, <3>1 DEF Sums
    <3>3. g[k] = f[k] /\ (k # 0 => g[k - 1] = f[k - 1])
      BY <1>3, <2>2, <3>1
    <3> QED
      BY <3>2, <3>3
  <2> QED
    BY <2>1, <2>2
<1>10. Sums(g, s, id, n)
  <2> HIDE DEF g
  <2> QED
    BY <1>8, <1>9 DEF Sums
<1> QED
  BY <1>8, <1>10

\* Two sequences with the same first p events have the same sum of them.
LEMMA SumsAgree ==
    ASSUME NEW s, NEW t, NEW id, NEW m \in Nat, NEW l \in Nat,
           NEW f, NEW g, Sums(f, s, id, m), Sums(g, t, id, l),
           NEW p \in Nat, p <= m, p <= l, \A k \in 1 .. p : s[k] = t[k]
    PROVE  f[p] = g[p]
<1> DEFINE S == {n \in 0 .. p : f[n] # g[n]}
<1>1. SUFFICES ASSUME S # {} PROVE FALSE
  OBVIOUS
<1>2. PICK n \in S : n # 0 => n - 1 \in Nat \ S
  <2>1. S \subseteq Nat
    OBVIOUS
  <2> HIDE DEF S
  <2> QED
    BY <1>1, <2>1, FirstNatural
<1>3. /\ f[n] = IF n = 0 THEN 0 ELSE f[n - 1] + Units(s[n], id)
      /\ g[n] = IF n = 0 THEN 0 ELSE g[n - 1] + Units(t[n], id)
  <2>1. n \in 0 .. m /\ n \in 0 .. l
    OBVIOUS
  <2> HIDE DEF S
  <2>2. f[n] = IF n = 0 THEN 0 ELSE f[n - 1] + Units(s[n], id)
    BY <2>1 DEF Sums
  <2>3. g[n] = IF n = 0 THEN 0 ELSE g[n - 1] + Units(t[n], id)
    BY <2>1 DEF Sums
  <2> QED
    BY <2>2, <2>3
<1>4. n # 0
  BY <1>3
<1>5. n - 1 \in 0 .. p /\ n - 1 \notin S
  BY <1>2, <1>4
<1> QED
  BY <1>3, <1>4, <1>5

LEMMA UnitsInSums ==
    ASSUME NEW s \in Seq(Events), NEW id
    PROVE  \E f \in [0 .. Len(s) -> Nat] :
              Sums(f, s, id, Len(s)) /\ UnitsIn(s, id) = f[Len(s)]
<1> DEFINE F == CHOOSE f : Sums(f, s, id, Len(s))
<1>1. Len(s) \in Nat
  OBVIOUS
<1>2. PICK f \in [0 .. Len(s) -> Nat] : Sums(f, s, id, Len(s))
  BY <1>1, SumsExist
<1>3. Sums(F, s, id, Len(s))
  BY <1>2
<1>4. UnitsIn(s, id) = F[Len(s)]
  BY DEF UnitsIn, Sums
<1> HIDE DEF F
<1>5. F[Len(s)] = f[Len(s)]
  BY <1>1, <1>2, <1>3, SumsAgree
<1> QED
  BY <1>2, <1>4, <1>5

\* An event adds its units to the output of its request.
LEMMA UnitsAppend ==
    ASSUME NEW s \in Seq(Events), NEW e \in Events, NEW id
    PROVE  /\ UnitsIn(s, id) \in Nat
           /\ UnitsIn(Append(s, e), id) = UnitsIn(s, id) + Units(e, id)
<1> DEFINE t == Append(s, e)
           n == Len(s)
<1>1. /\ t \in Seq(Events) /\ n \in Nat /\ Len(t) = n + 1
      /\ \A k \in 1 .. n : s[k] = t[k]
      /\ t[n + 1] = e
  BY AppendFacts
<1> HIDE DEF t, n
<1>2. PICK f \in [0 .. n -> Nat] : Sums(f, s, id, n) /\ UnitsIn(s, id) = f[n]
  BY UnitsInSums DEF n
<1>3. PICK g \in [0 .. n + 1 -> Nat] :
         Sums(g, t, id, n + 1) /\ UnitsIn(t, id) = g[n + 1]
  BY <1>1, UnitsInSums
<1>4. f[n] = g[n]
  <2>1. n \in Nat /\ n + 1 \in Nat /\ n <= n /\ n <= n + 1
    BY <1>1
  <2>2. \A k \in 1 .. n : s[k] = t[k]
    BY <1>1
  <2>3. Sums(f, s, id, n)
    BY <1>2
  <2>4. Sums(g, t, id, n + 1)
    BY <1>3
  <2> QED
    BY <2>1, <2>2, <2>3, <2>4, SumsAgree
<1>5. g[n + 1] = g[n] + Units(e, id)
  <2>1. n + 1 \in 0 .. n + 1 /\ n + 1 # 0 /\ (n + 1) - 1 = n
    BY <1>1
  <2> QED
    BY <1>1, <1>3, <2>1 DEF Sums
<1> QED
  BY <1>1, <1>2, <1>3, <1>4, <1>5 DEF t

LEMMA UnitsInEmpty ==
    ASSUME NEW id
    PROVE  UnitsIn(<<>>, id) = 0
<1>1. <<>> \in Seq(Events) /\ Len(<<>>) = 0
  BY EmptySeq
<1>2. PICK f \in [0 .. 0 -> Nat] :
         Sums(f, <<>>, id, 0) /\ UnitsIn(<<>>, id) = f[0]
  BY <1>1, UnitsInSums
<1> QED
  BY <1>2 DEF Sums

\* Events that are no output of a request add up to nothing.
LEMMA NoUnits ==
    ASSUME NEW s \in Seq(Events), NEW id,
           \A i \in DOMAIN s : Units(s[i], id) = 0
    PROVE  UnitsIn(s, id) = 0
<1>1. Len(s) \in Nat /\ DOMAIN s = 1 .. Len(s)
  OBVIOUS
<1>2. PICK f \in [0 .. Len(s) -> Nat] :
         Sums(f, s, id, Len(s)) /\ UnitsIn(s, id) = f[Len(s)]
  BY UnitsInSums
<1> DEFINE S == {n \in 0 .. Len(s) : f[n] # 0}
<1>3. SUFFICES ASSUME S # {} PROVE FALSE
  BY <1>1, <1>2
<1>4. PICK n \in S : n # 0 => n - 1 \in Nat \ S
  <2>1. S \subseteq Nat
    OBVIOUS
  <2> HIDE DEF S
  <2> QED
    BY <1>3, <2>1, FirstNatural
<1>5. f[n] = IF n = 0 THEN 0 ELSE f[n - 1] + Units(s[n], id)
  BY <1>2 DEF Sums
<1>6. n # 0 /\ n \in DOMAIN s
  BY <1>1, <1>5
<1>7. n - 1 \in 0 .. Len(s) /\ n - 1 \notin S
  BY <1>1, <1>4, <1>6
<1> QED
  BY <1>5, <1>6, <1>7

-----------------------------------------------------------------------------
(* Output.                                                                 *)

\* Output that has been sent belongs to a command that has been answered, or
\* to the one in execution ...
OutputOwned ==
    main \notin Leaving =>
        \A i \in DOMAIN events :
            events[i].event = "output" =>
                \/ events[i].id \in Answered
                \/ main \in Executing \cup {"emit"} /\ events[i].id = cmd

\* ... for which what was sent and what is buffered make up what it produced,
\* up to the result that says so, unless a write has failed.
Accounted ==
    /\ main \in Executing /\ ~writeFailed => OutputUnits(cmd) + buf = produced
    /\ main \in {"after", "flush", "rest"} => answer.units = produced
    /\ main = "emit" /\ answer.event = "result" =>
          OutputUnits(cmd) = answer.units

OutputInv == OutputComplete /\ (process # "killed" => OutputOwned /\ Accounted)

\* After a write has failed none succeeds, since the peer has gone.
FailureNoted == writeFailed => disconnected

LEMMA FailureStep ==
    ASSUME FailureNoted, Next
    PROVE  FailureNoted'
<1> USE DEF FailureNoted, connVars, readerVars, linkVars, flagVars, mainVars,
            execVars
<1>1. CASE Reply \/ FlushOutput \/ FlushRest \/ Emit
  BY <1>1 DEF Reply, FlushOutput, FlushRest, Emit, Write, WriteOk,
     WriteLost, WriteKilled
<1>2. CASE ReadEnd \/ GiveUp \/ LastFlush \/ JoinReader
  BY <1>2 DEF ReadEnd, GiveUp, LastFlush, FoundGone, JoinReader
<1>3. CASE HandOver \/ LockToReply \/ Take \/ LockToWrite
  BY <1>3 DEF HandOver, LockToReply, Take, LockToWrite
<1>4. CASE Send \/ Receive \/ Close \/ ReadLine \/ Malformed \/ HandleInput
           \/ CancelLook \/ CancelSetBreak \/ CancelSetRequested
           \/ CancelQueueCtrlC
  BY <1>4 DEF Send, Receive, Close, ReadLine, Malformed, HandleInput,
     CancelLook, CancelSetBreak, CancelSetRequested, CancelQueueCtrlC
<1>5. CASE Leave \/ AnswerStatus \/ BeginExec \/ Disarm \/ StartExec
           \/ GuestOutput \/ BeginFlush \/ DrainInput \/ GuestResetsBreak
  BY <1>5 DEF Leave, AnswerStatus, BeginExec, Disarm, StartExec, GuestOutput,
     BeginFlush, DrainInput, GuestResetsBreak
<1>6. CASE UnwindBatch \/ CommandReturns \/ CommandThrows \/ EndExec
           \/ ExchangeCancel \/ StillThere \/ FinalFlush \/ StopReader \/ Ended
  BY <1>6 DEF UnwindBatch, CommandReturns, CommandThrows, EndExec,
     ExchangeCancel, StillThere, FinalFlush, StopReader, Ended, vars
<1> QED
  BY <1>1, <1>2, <1>3, <1>4, <1>5, <1>6
  DEF Next, ClientNext, ReaderNext, MainNext

LEMMA SameOutput ==
    ASSUME events' = events
    PROVE  /\ \A id : OutputUnits(id)' = OutputUnits(id)
           /\ OutputComplete => OutputComplete'
<1>1. \A id : OutputUnits(id)' = OutputUnits(id)
  BY DEF OutputUnits
<1> QED
  BY <1>1 DEF OutputComplete, ResultEvents, OutputUnits

LEMMA LoggedOutput ==
    ASSUME TypeOK, NEW e \in Events, events' = Append(events, e)
    PROVE  /\ \A id : /\ OutputUnits(id) \in Nat
                      /\ UnitsIn(events', id) = OutputUnits(id) + Units(e, id)
           /\ DOMAIN events' = DOMAIN events \cup {Len(events) + 1}
           /\ \A i \in DOMAIN events : events'[i] = events[i]
           /\ events'[Len(events) + 1] = e
<1>1. events \in Seq(Events)
  BY DEF TypeOK, EventTypes
<1>2. \A id : /\ OutputUnits(id) \in Nat
              /\ UnitsIn(events', id) = OutputUnits(id) + Units(e, id)
  BY <1>1, UnitsAppend DEF OutputUnits
<1>3. /\ DOMAIN events' = 1 .. Len(events) + 1
      /\ DOMAIN events = 1 .. Len(events) /\ Len(events) \in Nat
      /\ \A i \in DOMAIN events : events'[i] = events[i]
      /\ events'[Len(events) + 1] = e
  BY <1>1, AppendFacts
<1> QED
  BY <1>2, <1>3

LEMMA ResultsAnswered ==
    ASSUME NEW i \in ResultEvents
    PROVE  i \in DOMAIN events /\ events[i].id \in Answered
  BY DEF ResultEvents, Answered, Protocol!Answered

\* An event keeps the results complete if it is no output of an answered
\* command, and, when it is a result, the output before it adds up.
LEMMA CompleteLogged ==
    ASSUME TypeOK, OutputComplete, NEW e \in Events,
           events' = Append(events, e),
           e.event = "output" => e.id \notin Answered,
           e.event = "result" => OutputUnits(e.id) = e.units
    PROVE  OutputComplete'
<1> SUFFICES ASSUME NEW i \in ResultEvents'
             PROVE  UnitsIn(events', events'[i].id) = events'[i].units
  BY DEF OutputComplete, OutputUnits
<1>1. i \in DOMAIN events' /\ events'[i].event = "result"
  BY DEF ResultEvents
<1>2. CASE i \in DOMAIN events
  <2>1. /\ events'[i] = events[i] /\ i \in ResultEvents
    BY <1>1, <1>2, LoggedOutput DEF ResultEvents
  <2>2. events[i].id \in Answered /\ OutputUnits(events[i].id) = events[i].units
    BY <2>1, ResultsAnswered DEF OutputComplete
  <2>3. Units(e, events[i].id) = 0
    BY <2>2 DEF Units
  <2>4. OutputUnits(events[i].id) \in Nat
        /\ UnitsIn(events', events[i].id)
              = OutputUnits(events[i].id) + Units(e, events[i].id)
    BY LoggedOutput
  <2> QED
    BY <2>1, <2>2, <2>3, <2>4
<1>3. CASE i \notin DOMAIN events
  <2>1. events'[i] = e
    BY <1>1, <1>3, LoggedOutput
  <2>2. Units(e, e.id) = 0
    BY <1>1, <2>1 DEF Units
  <2>3. OutputUnits(e.id) \in Nat
        /\ UnitsIn(events', e.id) = OutputUnits(e.id) + Units(e, e.id)
    BY LoggedOutput
  <2> QED
    BY <1>1, <2>1, <2>2, <2>3
<1> QED
  BY <1>2, <1>3

\* A command that has not begun has no output.
LEMMA NoOutputYet ==
    ASSUME TypeOK, SessionInv, OutputOwned, main = "check"
    PROVE  OutputUnits(cmd) = 0
<1>1. cmd \notin Answered /\ main \notin Leaving
  BY DEF SessionInv, NothingLost, Working, Leaving
<1>2. \A i \in DOMAIN events : Units(events[i], cmd) = 0
  BY <1>1 DEF OutputOwned, Units, Executing
<1>3. events \in Seq(Events)
  BY DEF TypeOK, EventTypes
<1> QED
  BY <1>2, <1>3, NoUnits DEF OutputUnits

\* The output of the command in execution is flushed.
LEMMA OutputFlushed ==
    ASSUME TypeOK, SessionInv, OutputInv, process # "killed",
           main \in Executing, cmd' = cmd,
           events' = Append(events, OutputEvent(cmd, buf)),
           main' \in Executing \cup {"emit"}
    PROVE  /\ OutputComplete' /\ OutputOwned'
           /\ ~writeFailed => OutputUnits(cmd)' = produced
<1> DEFINE e == OutputEvent(cmd, buf)
<1>1. /\ e \in Events /\ e.event = "output" /\ e.id = cmd /\ e.units = buf
      /\ buf \in Nat
  <2>1. cmd \in Ids /\ buf \in Nat
    BY DEF TypeOK
  <2> QED
    BY <2>1, OutEvent DEF OutputEvent
<1>2. cmd \notin Answered /\ main \notin Leaving
  BY DEF SessionInv, NothingLost, Working, Executing, Leaving
<1>3. events' = Append(events, e)
  OBVIOUS
<1> HIDE DEF e
<1>4. OutputComplete'
  BY <1>1, <1>2, <1>3, CompleteLogged DEF OutputInv
<1>5. Answered' = Answered
  BY <1>1, <1>3, Logged
<1>6. OutputOwned'
  BY <1>1, <1>2, <1>3, <1>5, LoggedOutput DEF OutputInv, OutputOwned
<1>7. ~writeFailed => UnitsIn(events', cmd) = produced
  <2>1. Units(e, cmd) = buf
    BY <1>1 DEF Units
  <2>2. OutputUnits(cmd) \in Nat
        /\ UnitsIn(events', cmd) = OutputUnits(cmd) + Units(e, cmd)
    BY <1>1, <1>3, LoggedOutput
  <2> QED
    BY <1>1, <2>1, <2>2 DEF OutputInv, Accounted
<1> QED
  BY <1>4, <1>6, <1>7 DEF OutputUnits

LEMMA OutputInit == Init => OutputInv
  BY EmptySeq DEF Init, OutputInv, OutputComplete, ResultEvents, OutputOwned,
     Accounted, Executing

\* A step that sends no event and does not move the emulator thread.
LEMMA OutputFrame ==
    ASSUME OutputInv, events' = events,
           process' = process, writeFailed => writeFailed',
           UNCHANGED mainVars
    PROVE  OutputInv'
<1>1. Answered' = Answered
  BY SameEvents
<1>2. OutputComplete'
  BY SameOutput DEF OutputInv
<1> QED
  BY <1>1, <1>2 DEF OutputInv, OutputOwned, Accounted, OutputUnits, mainVars,
     execVars

LEMMA OutputReply ==
    ASSUME TypeOK, SessionInv, OutputInv, Reply, process # "killed"
    PROVE  OutputInv'
<1>1. /\ UNCHANGED mainVars /\ inHand \in Side /\ AnswerOf(reply, inHand)
      /\ reply \in Events
  BY DEF Reply, ReaderAt, SessionInv, ReaderInv, TypeOK
<1>2. reply.event \notin {"output", "result"}
  <2>1. inHand \in DOMAIN sent /\ inHand \notin Turn
    BY <1>1, Working0, Kinds
  <2>2. sent[inHand].op \in {"input", "cancel", "malformed"}
    BY <2>1, Kinds, SessionAssumption DEF TypeOK
  <2> QED
    BY <1>1, <2>1, <2>2 DEF AnswerOf, Protocol!Answers
<1>3. CASE WriteOk(reply)
  <2>1. /\ events' = Append(events, reply)
        /\ UNCHANGED <<writeFailed, process>>
    BY <1>3 DEF WriteOk
  <2>2. OutputComplete'
    BY <1>1, <1>2, <2>1, CompleteLogged DEF OutputInv
  <2>3. Answered \subseteq Answered'
    BY <1>1, <1>2, <2>1, Logged
  <2>4. OutputOwned'
    BY <1>1, <1>2, <2>1, <2>3, LoggedOutput
    DEF OutputInv, OutputOwned, mainVars
  <2>5. OutputUnits(cmd)' = OutputUnits(cmd)
    <3>1. Units(reply, cmd) = 0
      BY <1>2 DEF Units
    <3>2. OutputUnits(cmd) \in Nat
          /\ UnitsIn(events', cmd) = OutputUnits(cmd) + Units(reply, cmd)
      BY <1>1, <2>1, LoggedOutput
    <3> QED
      BY <1>1, <3>1, <3>2 DEF OutputUnits, mainVars
  <2> QED
    BY <1>1, <2>1, <2>2, <2>4, <2>5
    DEF OutputInv, Accounted, mainVars, execVars
<1>4. CASE WriteLost
  BY <1>1, <1>4, OutputFrame DEF WriteLost
<1>5. CASE WriteKilled
  BY <1>5, SameOutput DEF WriteKilled, OutputInv
<1> QED
  BY <1>3, <1>4, <1>5 DEF Reply

\* A step of the emulator thread that sends no event and ends outside the
\* execution of a command.
LEMMA OutputIdle ==
    ASSUME TypeOK, SessionInv, OutputInv, process # "killed",
           events' = events, main \in MainStates,
           main' \in Leaving \/ (main = "wait" /\ main' = "check")
    PROVE  OutputInv'
<1>1. Answered' = Answered /\ OutputComplete'
  BY SameEvents, SameOutput DEF OutputInv
<1>2. main' \notin Executing \cup {"emit"}
  BY DEF Executing, Leaving
<1>3. Accounted'
  BY <1>2 DEF Accounted, Executing
<1>4. OutputOwned'
  BY <1>1, <1>2 DEF OutputInv, OutputOwned, Leaving, Executing
<1> QED
  BY <1>1, <1>3, <1>4 DEF OutputInv

LEMMA OutputMain ==
    ASSUME TypeOK, SessionInv, OutputInv, FailureNoted, MainNext,
           process # "killed"
    PROVE  OutputInv'
<1> USE DEF MainAt, connVars, readerVars, linkVars, flagVars, execVars
<1>0. /\ buf \in Nat /\ produced \in Nat /\ main \in MainStates
      /\ OutputComplete /\ OutputOwned /\ Accounted
  BY SessionAssumption DEF TypeOK, OutputInv
<1>1. CASE Leave \/ Take \/ GiveUp \/ LastFlush \/ StopReader
           \/ JoinReader
  <2>1. /\ events' = events
        /\ main' \in Leaving \/ (main = "wait" /\ main' = "check")
    BY <1>1 DEF Leave, Take, GiveUp, LastFlush,
       StopReader, JoinReader, Leaving
  <2> QED
    BY <1>0, <2>1, OutputIdle
<1>2. CASE AnswerStatus \/ BeginExec
  <2>1. /\ events' = events /\ cmd' = cmd /\ main = "check"
        /\ \/ main' = "arm" /\ buf' = 0 /\ produced' = 0
           \/ main' = "emit" /\ answer' \in {Event("status", cmd), Event("error", cmd)}
    BY <1>2 DEF AnswerStatus, BeginExec
  <2>2. OutputUnits(cmd) = 0 /\ Answered' = Answered /\ OutputComplete'
    BY <1>0, <2>1, NoOutputYet, SameEvents, SameOutput
  <2>3. main' = "emit" => answer'.event # "result"
    BY <2>1, PlainEvent DEF TypeOK
  <2>4. Accounted'
    BY <2>1, <2>2, <2>3 DEF Accounted, OutputUnits, Executing
  <2>5. OutputOwned'
    BY <1>0, <2>1, <2>2 DEF OutputOwned, Executing, Leaving
  <2> QED
    BY <2>2, <2>4, <2>5 DEF OutputInv
<1>3. CASE Disarm \/ StartExec \/ GuestOutput \/ BeginFlush \/ DrainInput
           \/ GuestResetsBreak \/ UnwindBatch \/ CommandReturns \/ EndExec
  <2>1. /\ UNCHANGED <<events, cmd, answer, writeFailed, process>>
        /\ main \in {"arm", "armed", "run", "ran"}
        /\ main' \in {"armed", "run", "output", "ran", "exchange"}
        /\ \/ UNCHANGED <<buf, produced>>
           \/ buf' = buf + 1 /\ produced' = produced + 1
    <3>1. CASE Disarm \/ StartExec \/ EndExec \/ DrainInput
      BY <3>1 DEF Disarm, StartExec, EndExec, DrainInput, mainVars
    <3>2. CASE GuestResetsBreak \/ GuestOutput \/ BeginFlush \/ UnwindBatch
               \/ CommandReturns
      BY <3>2 DEF GuestResetsBreak, GuestOutput, BeginFlush, UnwindBatch,
         CommandReturns, mainVars
    <3> QED
      BY <1>3, <3>1, <3>2
  <2>2. Answered' = Answered /\ OutputComplete'
    BY <1>0, <2>1, SameEvents, SameOutput
  <2>3. OutputUnits(cmd) \in Nat
    BY UnitsAppend, NoEventFacts DEF OutputUnits, TypeOK, EventTypes
  <2>4. Accounted'
    BY <1>0, <2>1, <2>3 DEF Accounted, OutputUnits, Executing
  <2>5. OutputOwned'
    BY <1>0, <2>1, <2>2 DEF OutputOwned, Executing, Leaving
  <2> QED
    BY <2>2, <2>4, <2>5 DEF OutputInv
<1>4. CASE CommandThrows
  BY <1>0, <1>4, SameOutput DEF CommandThrows, OutputInv
<1>5. CASE FlushOutput
  <2>1. /\ main = "output" /\ main' = "run" /\ buf' = 0
        /\ UNCHANGED <<cmd, produced, answer>>
    BY <1>5 DEF FlushOutput, MainWrites
  <2>2. CASE WriteOk(OutputEvent(cmd, buf))
    <3>1. /\ events' = Append(events, OutputEvent(cmd, buf))
          /\ UNCHANGED <<writeFailed, process>>
      BY <2>2 DEF WriteOk
    <3>2. /\ OutputComplete' /\ OutputOwned'
          /\ ~writeFailed => OutputUnits(cmd)' = produced
      BY <2>1, <2>2, <3>1, OutputFlushed DEF Executing
    <3> QED
      BY <1>0, <2>1, <3>1, <3>2 DEF OutputInv, Accounted, Executing
  <2>3. CASE WriteLost
    <3>1. events' = events /\ writeFailed' /\ process' = process
      BY <2>3 DEF WriteLost
    <3>2. Answered' = Answered /\ OutputComplete'
      BY <1>0, <3>1, SameEvents, SameOutput
    <3> QED
      BY <1>0, <2>1, <3>1, <3>2 DEF OutputInv, OutputOwned, Accounted,
         Executing, Leaving
  <2>4. CASE WriteKilled
    BY <1>0, <2>4, SameOutput DEF WriteKilled, OutputInv
  <2> QED
    BY <1>5, <2>2, <2>3, <2>4 DEF FlushOutput
<1>6. CASE ExchangeCancel \/ StillThere
  <2>1. /\ UNCHANGED <<events, cmd, writeFailed, process, buf, produced>>
        /\ main \in {"exchange", "after"} /\ main' \in {"after", "flush"}
        /\ main = "after" => answer' = answer
        /\ main = "exchange" =>
              answer' = ExecResult(cmd, shellExit, cancelReq, produced, broken)
    BY <1>6 DEF ExchangeCancel, StillThere
  <2>2. Answered' = Answered /\ OutputComplete'
    BY <1>0, <2>1, SameEvents, SameOutput
  <2>3. answer'.units = produced
    BY <1>0, <2>1 DEF Accounted, ExecResult
  <2>4. Accounted'
    BY <1>0, <2>1, <2>3 DEF Accounted, OutputUnits, Executing
  <2>5. OutputOwned'
    BY <1>0, <2>1, <2>2 DEF OutputOwned, Executing, Leaving
  <2> QED
    BY <2>2, <2>4, <2>5 DEF OutputInv
<1>7. CASE FinalFlush
  <2>1. /\ UNCHANGED <<events, process, writeFailed, cmd, buf, produced, answer>>
        /\ main = "flush" /\ answer.units = produced
    BY <1>0, <1>7 DEF FinalFlush, Accounted
  <2>2. CASE main' = "end"
    BY <1>0, <2>1, <2>2, OutputIdle DEF Leaving
  <2>3. CASE ~writeFailed /\ (main' = "rest" \/ (main' = "emit" /\ buf = 0))
    <3>1. Answered' = Answered /\ OutputComplete'
      BY <1>0, <2>1, SameEvents, SameOutput
    <3>2. OutputUnits(cmd) + buf = produced /\ OutputUnits(cmd) \in Nat
      BY <1>0, <2>1, <2>3, UnitsAppend, NoEventFacts
      DEF Accounted, Executing, OutputUnits, TypeOK, EventTypes
    <3>3. Accounted'
      BY <1>0, <2>1, <2>3, <3>2 DEF Accounted, OutputUnits, Executing
    <3>4. OutputOwned'
      BY <1>0, <2>1, <2>3, <3>1 DEF OutputOwned, Executing, Leaving
    <3> QED
      BY <3>1, <3>3, <3>4 DEF OutputInv
  <2> QED
    BY <1>7, <2>2, <2>3 DEF FinalFlush
<1>8. CASE Emit
  <2>1. /\ main = "emit" /\ AnswerOf(answer, cmd) /\ answer \in Events
        /\ answer.event # "output" /\ answer.id = cmd
    <3>1. main \in Working /\ cmd \in Turn
      BY <1>8 DEF Emit, MainWrites, SessionInv, MainInv, Working
    <3>2. cmd \in DOMAIN sent /\ sent[cmd].op \in {"exec", "status"}
      BY <3>1, Working0, Kinds
    <3> QED
      BY <1>8, <3>2 DEF Emit, MainWrites, SessionInv, MainInv, AnswerOf,
         Protocol!Answers, TypeOK
  <2>2. CASE WriteOk(answer)
    <3>1. events' = Append(events, answer) /\ main' \in {"wait", "end"}
      BY <1>8, <2>2 DEF Emit, Write, WriteOk, WriteLost, WriteKilled
    <3>2. OutputComplete'
      BY <1>0, <2>1, <3>1, CompleteLogged DEF Accounted
    <3>3. Answered' = Answered \cup {cmd}
      BY <2>1, <3>1, Logged
    <3>4. OutputOwned'
      BY <1>0, <2>1, <3>1, <3>3, LoggedOutput DEF OutputOwned, Leaving
    <3> QED
      BY <3>1, <3>2, <3>4 DEF OutputInv, Accounted, Executing
  <2>3. CASE WriteLost /\ main' = "end"
    BY <1>0, <2>3, OutputIdle DEF WriteLost, Leaving
  <2>4. CASE WriteKilled
    BY <1>0, <2>4, SameOutput DEF WriteKilled, OutputInv
  <2> QED
    BY <1>8, <2>2, <2>3, <2>4 DEF Emit, Write
<1>9. CASE FlushRest
  <2>1. main = "rest" /\ UNCHANGED <<cmd, produced, answer>>
        /\ answer.units = produced
    BY <1>0, <1>9 DEF FlushRest, MainWrites, Accounted
  <2>2. CASE WriteLost /\ main' = "end"
    BY <1>0, <2>2, OutputIdle DEF WriteLost, Leaving
  <2>3. CASE WriteKilled
    BY <1>0, <2>3, SameOutput DEF WriteKilled, OutputInv
  <2>4. CASE WriteOk(OutputEvent(cmd, buf)) /\ main' = "emit"
    <3>1. /\ events' = Append(events, OutputEvent(cmd, buf))
          /\ UNCHANGED <<writeFailed, process>>
      BY <2>4 DEF WriteOk
    <3>2. /\ OutputComplete' /\ OutputOwned'
          /\ ~writeFailed => OutputUnits(cmd)' = produced
      BY <2>1, <2>4, <3>1, OutputFlushed DEF Executing
    <3>3. ~writeFailed
      BY <2>1, <2>4, Gone DEF FailureNoted, WriteOk
    <3> QED
      BY <2>1, <2>4, <3>1, <3>2, <3>3 DEF OutputInv, Accounted, Executing
  <2> QED
    BY <1>9, <2>2, <2>3, <2>4 DEF FlushRest, Write
<1>10. CASE LockToWrite
  BY <1>10, OutputFrame DEF LockToWrite
<1> QED
  BY <1>1, <1>2, <1>3, <1>4, <1>5, <1>6, <1>7, <1>8, <1>9, <1>10 DEF MainNext

LEMMA OutputStep ==
    ASSUME Inv, OutputInv, FailureNoted, [Next]_vars
    PROVE  OutputInv' /\ FailureNoted'
<1> USE DEF connVars, readerVars, linkVars, flagVars
<1>0. FailureNoted'
  BY FailureStep DEF FailureNoted, vars
<1> SUFFICES OutputInv'
  BY <1>0
<1>1. CASE Ended \/ UNCHANGED vars
  BY <1>1, OutputFrame DEF Ended, vars
<1>2. CASE ClientNext
  BY <1>2, OutputFrame DEF ClientNext, Send, Receive, Close
<1>3. CASE ReaderNext
  <2>1. TypeOK /\ SessionInv /\ process # "killed"
    BY <1>3 DEF Inv, ReaderNext, ReadLine, ReadEnd, HandOver, Malformed,
       HandleInput, CancelLook, CancelSetBreak, CancelSetRequested,
       CancelQueueCtrlC, LockToReply, Reply, ReaderAt, Serving
  <2>2. CASE ReaderNext /\ ~Reply
    BY <2>2, OutputFrame
    DEF ReaderNext, ReadLine, ReadEnd, HandOver, Malformed, HandleInput,
        CancelLook, CancelSetBreak, CancelSetRequested, CancelQueueCtrlC,
        LockToReply
  <2> QED
    BY <1>3, <2>1, <2>2, OutputReply
<1>4. CASE MainNext
  <2>1. TypeOK /\ SessionInv /\ process # "killed"
    BY <1>4 DEF Inv, MainNext, Leave, Take, GiveUp, AnswerStatus, BeginExec,
       Disarm, StartExec, GuestOutput, BeginFlush, FlushOutput, DrainInput,
       GuestResetsBreak, UnwindBatch, CommandReturns, CommandThrows, EndExec,
       ExchangeCancel, StillThere, FinalFlush, FlushRest, LockToWrite, Emit,
       LastFlush, StopReader, JoinReader, MainWrites, MainAt,
       Serving
  <2> QED
    BY <1>4, <2>1, OutputMain
<1> QED
  BY <1>1, <1>2, <1>3, <1>4 DEF Next

(* By the time the result of a command is sent, the output events with its *)
(* id have carried every unit of output it produced: the flushes on        *)
(* thresholds, the final flush and the events of the reader thread in      *)
(* between lose and add nothing.                                           *)
THEOREM OutputAllSent == Spec => []OutputComplete
<1>1. Init => Inv /\ OutputInv /\ FailureNoted
  BY InvInit, OutputInit DEF Init, FailureNoted
<1>2. Inv /\ OutputInv /\ FailureNoted /\ [Next]_vars
         => Inv' /\ OutputInv' /\ FailureNoted'
  BY InvStep, OutputStep
<1>3. OutputInv => OutputComplete
  BY DEF OutputInv
<1> QED
  BY <1>1, <1>2, <1>3, PTL DEF Spec

=============================================================================
