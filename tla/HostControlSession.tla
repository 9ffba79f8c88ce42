------------------------- MODULE HostControlSession -------------------------
(***************************************************************************)
(* A host-control session of src/src/misc/host_control.cpp: the client,    *)
(* the reader thread (socket_session_reader, duplex_session_reader) and    *)
(* the emulator thread (run_control_socket_session,                        *)
(* run_control_duplex_session), which also runs the guest.                 *)
(*                                                                         *)
(* The reader thread answers input, cancel and malformed requests itself   *)
(* and hands exec and status requests to the emulator thread.  Every       *)
(* section of code under the session mutex is one action, and so is every  *)
(* access to an atomic variable shared between the two threads.  A write   *)
(* to the client is made under the mutex and lasts until the client has    *)
(* read enough: taking the mutex and writing are two actions, and whatever *)
(* else needs the mutex waits in between.  Request ids are positions in    *)
(* the sequence of requests sent.                                          *)
(***************************************************************************)
EXTENDS Integers, Sequences

CONSTANTS
    Transport,    \* "socket", or "pipe" (FIFO pair or Windows named pipe)
    SigPipe,      \* TRUE where a write to a closed peer raises SIGPIPE (Unix)
    Templates,    \* the requests the client may send
    MaxRequests,  \* bound of the model: requests in one session
    MaxOutput,    \* bound of the model: units of output of one command
    Room,         \* events the kernel holds for a client that is not reading
    InputCap,     \* input_queue_max_codes
    GuestThrows   \* TRUE when a command may end in a C++ exception (BOOT)

ASSUME SessionAssumption ==
    /\ Transport \in {"socket", "pipe"}
    /\ {SigPipe, GuestThrows} \subseteq BOOLEAN
    /\ {MaxRequests, MaxOutput, Room, InputCap} \subseteq Nat
    /\ Templates \subseteq
           [op : {"exec", "status", "input", "cancel", "malformed"},
            run : {"prog", "batch", "loop", "none"},
            input : {"none", "good", "bad"}]

VARIABLES
    \* the connection
    sent,         \* requests written by the client
    received,     \* how many of them the reader thread has read
    events,       \* events written by the server
    seen,         \* how many of them the client has read
    closed,       \* the client has closed its end
    stopped,      \* the session has shut the socket down or set stop_reader
    \* the reader thread
    reader,       \* its control state
    inHand,       \* id of the request it is handling, 0 if none
    reply,        \* the event it is about to write
    target,       \* history: exec in progress when request_cancel looked
    \* shared by the two threads
    requests,     \* state.requests, as ids
    disconnected, \* state.disconnected
    ioError,      \* state.had_io_error
    writeFailed,  \* session_write_failed
    mutex,        \* state.mutex: the thread that writes under it, or "free"
    inProgress,   \* exec_in_progress
    cancelReq,    \* cancel_requested
    ctrlbrk,      \* the guest's break flag
    inputQ,       \* pending_input_codes: <<request, exec it is meant for>>
    \* the emulator thread
    main,         \* its control state
    cmd,          \* id of the request it is handling, 0 if none
    buf,          \* units in buffered_output
    produced,     \* history: units of output of the current exec
    broken,       \* history: RunInternal unwound the current batch
    shellExit,    \* first_shell->exit when the command returned
    answer,       \* the event it is about to write
    failed,       \* result.had_io_error
    process,      \* "serving", "returned" or "killed"
    hits          \* history: execs a cancel request has seen in progress

connVars   == <<sent, received, events, seen, closed, stopped>>
readerVars == <<reader, inHand, reply, target>>
linkVars   == <<requests, disconnected, ioError, writeFailed, mutex>>
flagVars   == <<inProgress, cancelReq, ctrlbrk, inputQ>>
execVars   == <<buf, produced, broken, shellExit>>
mainVars   == <<main, cmd, execVars, answer, failed>>
vars == <<connVars, readerVars, linkVars, flagVars, mainVars, process, hits>>

NoEvent == [event |-> "none", id |-> 0]
Event(e, id) == [event |-> e, id |-> id]
ExecResult(id, exit, cancelled, out, brk) ==
    [event |-> "result", id |-> id, exit |-> exit, cancelled |-> cancelled,
     units |-> out, broken |-> brk]
OutputEvent(id, n) == [event |-> "output", id |-> id, units |-> n]
CancelResult(id, t) == [event |-> "cancel_result", id |-> id, target |-> t]

Init ==
    /\ sent = <<>> /\ received = 0 /\ seen = 0
    /\ events = <<>>
    /\ closed = FALSE /\ stopped = FALSE
    /\ reader = "read" /\ inHand = 0 /\ reply = NoEvent /\ target = 0
    /\ requests = <<>>
    /\ disconnected = FALSE /\ ioError = FALSE /\ writeFailed = FALSE
    /\ mutex = "free"
    /\ inProgress = FALSE /\ cancelReq = FALSE /\ ctrlbrk = FALSE
    /\ inputQ = <<>>
    /\ main = "wait" /\ cmd = 0 /\ buf = 0 /\ produced = 0
    /\ broken = FALSE /\ shellExit = FALSE /\ answer = NoEvent
    /\ failed = FALSE
    /\ process = "serving"
    /\ hits = {}

Serving == process = "serving"
ReaderAt(point) == Serving /\ reader = point
MainAt(point) == Serving /\ main = point

-----------------------------------------------------------------------------
(* The client.                                                             *)

Send ==
    \E r \in Templates :
        /\ Serving /\ ~closed /\ ~stopped /\ Len(sent) < MaxRequests
        /\ sent' = Append(sent, r)
        /\ UNCHANGED <<received, events, seen, closed, stopped, readerVars,
                       linkVars, flagVars, mainVars, process, hits>>

Receive ==
    /\ Serving /\ ~closed /\ seen < Len(events)
    /\ seen' = seen + 1
    /\ UNCHANGED <<sent, received, events, closed, stopped, readerVars,
                   linkVars, flagVars, mainVars, process, hits>>

Close ==
    /\ Serving /\ ~closed
    /\ closed' = TRUE
    /\ UNCHANGED <<sent, received, events, seen, stopped, readerVars,
                   linkVars, flagVars, mainVars, process, hits>>

-----------------------------------------------------------------------------
(* write_socket_session_line, write_duplex_session_line: a write blocks    *)
(* while the client does not read.  Once the peer is gone, or the session  *)
(* has shut the socket down or cancelled the I/O of the Windows pipe, it   *)
(* raises SIGPIPE, which nothing in the program handles, or fails and      *)
(* marks the session.                                                      *)

Windows == Transport = "pipe" /\ ~SigPipe
WriteFails == closed \/ (stopped /\ (Transport = "socket" \/ Windows))
HasRoom == Len(events) - seen < Room
MutexFree == mutex = "free"

WriteOk(e) ==
    /\ ~WriteFails /\ HasRoom
    /\ events' = Append(events, e)
    /\ UNCHANGED <<disconnected, ioError, writeFailed, process>>

WriteLost ==
    /\ WriteFails /\ ~SigPipe
    /\ disconnected' = TRUE /\ ioError' = TRUE /\ writeFailed' = TRUE
    /\ UNCHANGED <<events, process>>

WriteKilled ==
    /\ WriteFails /\ SigPipe
    /\ process' = "killed"
    /\ UNCHANGED <<events, disconnected, ioError, writeFailed>>

-----------------------------------------------------------------------------
(* The reader thread.                                                      *)

Unread == received < Len(sent)

(* The FIFO reader polls stop_reader before every byte; the Windows pipe   *)
(* reader first hands out the lines it has already; data left in a socket  *)
(* can still be read after shutdown.                                       *)
ReaderStopped == stopped /\ Transport = "pipe"

ReadLine ==
    /\ ReaderAt("read") /\ Unread /\ (ReaderStopped => Windows)
    /\ received' = received + 1
    /\ inHand' = received + 1
    /\ reader' = sent[received + 1].op
    /\ UNCHANGED <<sent, events, seen, closed, stopped, reply, target,
                   linkVars, flagVars, mainVars, process, hits>>

(* Faulty: the reader thread ends without telling the emulator thread.     *)
ReadEndSilently ==
    /\ ReaderAt("read")
    /\ ReaderStopped \/ (~Unread /\ (closed \/ stopped))
    /\ reader' = "done"
    /\ UNCHANGED <<connVars, inHand, reply, target, linkVars, flagVars,
                   mainVars, process, hits>>

ReadEnd ==
    /\ ReaderAt("read") /\ MutexFree
    /\ ReaderStopped \/ (~Unread /\ (closed \/ stopped))
    /\ reader' = "done"
    /\ disconnected' = TRUE
    /\ UNCHANGED <<connVars, inHand, reply, target, requests, ioError,
                   writeFailed, mutex, flagVars, mainVars, process, hits>>

(* Faulty: the newest request is put in front of those that are waiting.   *)
HandOverInFront ==
    /\ ReaderAt("exec") \/ ReaderAt("status")
    /\ MutexFree
    /\ requests' = <<inHand>> \o requests
    /\ reader' = "read" /\ inHand' = 0
    /\ UNCHANGED <<connVars, reply, target, disconnected, ioError, writeFailed,
                   mutex, flagVars, mainVars, process, hits>>

HandOver ==
    /\ ReaderAt("exec") \/ ReaderAt("status")
    /\ MutexFree
    /\ requests' = Append(requests, inHand)
    /\ reader' = "read" /\ inHand' = 0
    /\ UNCHANGED <<connVars, reply, target, disconnected, ioError,
                   writeFailed, mutex, flagVars, mainVars, process, hits>>

Malformed ==
    /\ ReaderAt("malformed")
    /\ reply' = Event("error", inHand)
    /\ reader' = "reply"
    /\ UNCHANGED <<connVars, inHand, target, linkVars, flagVars, mainVars,
                   process, hits>>

(* Faulty: the bound of queue_input_codes compared with <= after the push. *)
InputFitsOneMore == Len(inputQ) <= InputCap

InputFits == Len(inputQ) < InputCap

(* handle_socket_input_request: build the codes, queue them (one code      *)
(* stands for them all), acknowledge.                                      *)
HandleInput ==
    LET queued == sent[inHand].input = "good" /\ InputFits IN
    /\ ReaderAt("input")
    /\ inputQ' = IF queued THEN Append(inputQ, <<inHand, 0>>) ELSE inputQ
    /\ reply' = Event(IF queued THEN "input_result" ELSE "error", inHand)
    /\ reader' = "reply"
    /\ UNCHANGED <<connVars, inHand, target, linkVars, inProgress, cancelReq,
                   ctrlbrk, mainVars, process, hits>>

(* Faulty: a cancel that finds no command running is not answered.         *)
CancelLookUnanswered ==
    /\ ReaderAt("cancel")
    /\ IF inProgress
       THEN reader' = "setbreak" /\ target' = cmd /\ hits' = hits \cup {cmd}
       ELSE reader' = "read" /\ UNCHANGED <<target, hits>>
    /\ UNCHANGED <<connVars, inHand, reply, linkVars, flagVars, mainVars,
                   process>>

(* request_cancel: look at exec_in_progress, then set ctrlbrk, then        *)
(* cancel_requested, then queue a Ctrl-C.                                  *)
CancelLook ==
    /\ ReaderAt("cancel")
    /\ IF inProgress
       THEN /\ reader' = "setbreak"
            /\ target' = cmd
            /\ hits' = hits \cup {cmd}
            /\ UNCHANGED reply
       ELSE /\ reader' = "reply"
            /\ reply' = Event("error", inHand)
            /\ UNCHANGED <<target, hits>>
    /\ UNCHANGED <<connVars, inHand, linkVars, flagVars, mainVars, process>>

CancelSetBreak ==
    /\ ReaderAt("setbreak")
    /\ ctrlbrk' = TRUE
    /\ reader' = "setcancel"
    /\ UNCHANGED <<connVars, inHand, reply, target, linkVars, inProgress,
                   cancelReq, inputQ, mainVars, process, hits>>

CancelSetRequested ==
    /\ ReaderAt("setcancel")
    /\ cancelReq' = TRUE
    /\ reader' = "ctrlc"
    /\ UNCHANGED <<connVars, inHand, reply, target, linkVars, inProgress,
                   ctrlbrk, inputQ, mainVars, process, hits>>

CancelQueueCtrlC ==
    /\ ReaderAt("ctrlc")
    /\ inputQ' = IF InputFits THEN Append(inputQ, <<inHand, target>>)
                              ELSE inputQ
    /\ reply' = CancelResult(inHand, target)
    /\ target' = 0
    /\ reader' = "reply"
    /\ UNCHANGED <<connVars, inHand, linkVars, inProgress, cancelReq, ctrlbrk,
                   mainVars, process, hits>>

LockToReply ==
    /\ ReaderAt("reply") /\ MutexFree
    /\ mutex' = "reader"
    /\ UNCHANGED <<connVars, readerVars, requests, disconnected, ioError,
                   writeFailed, flagVars, mainVars, process, hits>>

(* The result of the write is ignored: after a failure the thread goes on  *)
(* reading until the connection ends.                                      *)
Reply ==
    /\ ReaderAt("reply") /\ mutex = "reader"
    /\ WriteOk(reply) \/ WriteLost \/ WriteKilled
    /\ mutex' = "free"
    /\ reader' = "read" /\ inHand' = 0 /\ reply' = NoEvent
    /\ UNCHANGED <<sent, received, seen, closed, stopped, target, requests,
                   flagVars, mainVars, hits>>

ReaderNext ==
    \/ ReadLine
    \/ ReadEnd
    \/ HandOver
    \/ Malformed
    \/ HandleInput
    \/ CancelLook
    \/ CancelSetBreak
    \/ CancelSetRequested
    \/ CancelQueueCtrlC
    \/ LockToReply
    \/ Reply

-----------------------------------------------------------------------------
(* The emulator thread between commands.                                   *)

(* The socket session gives up as soon as it is disconnected; the pipe     *)
(* session pops a pending request first, and gives up at the next check.   *)
Leave ==
    /\ MainAt("wait") /\ MutexFree /\ disconnected
    /\ Transport = "socket" \/ requests = <<>>
    /\ main' = "end"
    /\ UNCHANGED <<connVars, readerVars, linkVars, flagVars, cmd, execVars,
                   answer, failed, process, hits>>

Take ==
    /\ MainAt("wait") /\ MutexFree /\ requests # <<>>
    /\ ~(Transport = "socket" /\ disconnected)
    /\ cmd' = Head(requests)
    /\ requests' = Tail(requests)
    /\ main' = "check"
    /\ UNCHANGED <<connVars, readerVars, disconnected, ioError, writeFailed,
                   mutex, flagVars, execVars, answer, failed, process, hits>>

(* has_socket_session_peer_disconnected peeks at the socket: unread data   *)
(* make it answer "no" whatever state.disconnected says.                   *)
PeerGone ==
    IF Transport = "socket" THEN ~Unread /\ (closed \/ disconnected)
                            ELSE disconnected

(* It needs the mutex for every other answer, and so does                  *)
(* is_duplex_session_disconnected.                                         *)
PeerKnown == (Transport = "socket" /\ Unread) \/ MutexFree

FoundThere == PeerKnown /\ ~PeerGone

(* What it finds it records.                                               *)
FoundGone ==
    /\ PeerKnown /\ PeerGone
    /\ disconnected' = TRUE

GiveUp ==
    /\ MainAt("check") \/ MainAt("after")
    /\ FoundGone
    /\ main' = "end"
    /\ UNCHANGED <<connVars, readerVars, requests, ioError, writeFailed, mutex,
                   flagVars, cmd, execVars, answer, failed, process, hits>>

AnswerStatus ==
    /\ MainAt("check") /\ FoundThere /\ sent[cmd].op = "status"
    /\ answer' = Event("status", cmd)
    /\ main' = "emit"
    /\ UNCHANGED <<connVars, readerVars, linkVars, flagVars, cmd, execVars,
                   failed, process, hits>>

(* stage_exec_input: the exec is refused when its input has no key codes   *)
(* or does not fit into the queue.                                         *)
BeginExec ==
    LET input == sent[cmd].input
        refused == input = "bad" \/ (input = "good" /\ ~InputFits)
    IN
    /\ MainAt("check") /\ FoundThere /\ sent[cmd].op = "exec"
    /\ buf' = 0 /\ produced' = 0 /\ broken' = FALSE /\ shellExit' = FALSE
    /\ IF refused
       THEN /\ answer' = Event("error", cmd)
            /\ main' = "emit"
            /\ UNCHANGED inputQ
       ELSE /\ main' = "arm"
            /\ inputQ' = IF input = "good" THEN Append(inputQ, <<cmd, 0>>)
                                           ELSE inputQ
            /\ UNCHANGED answer
    /\ UNCHANGED <<connVars, readerVars, linkVars, inProgress, cancelReq,
                   ctrlbrk, cmd, failed, process, hits>>

Disarm ==
    /\ MainAt("arm")
    /\ cancelReq' = FALSE
    /\ main' = "armed"
    /\ UNCHANGED <<connVars, readerVars, linkVars, inProgress, ctrlbrk,
                   inputQ, cmd, execVars, answer, failed, process, hits>>

StartExec ==
    /\ MainAt("armed")
    /\ inProgress' = TRUE
    /\ main' = "run"
    /\ UNCHANGED <<connVars, readerVars, linkVars, cancelReq, ctrlbrk, inputQ,
                   cmd, execVars, answer, failed, process, hits>>

-----------------------------------------------------------------------------
(* The emulator thread while the command runs (SHELL_ExecuteHostCommand).  *)

GuestOutput ==
    /\ MainAt("run") /\ produced < MaxOutput
    /\ buf' = buf + 1 /\ produced' = produced + 1
    /\ UNCHANGED <<connVars, readerVars, linkVars, flagVars, main, cmd,
                   broken, shellExit, answer, failed, process, hits>>

(* capture_dos_write, capture_tty_output and flush_buffered_output_if_due  *)
(* flush on a size or time threshold.  The guest goes on when the event    *)
(* has been written; it is not told of a failure.                          *)
BeginFlush ==
    /\ MainAt("run") /\ buf > 0
    /\ main' = "output"
    /\ UNCHANGED <<connVars, readerVars, linkVars, flagVars, cmd, execVars,
                   answer, failed, process, hits>>

LockToWrite ==
    /\ Serving /\ main \in {"output", "rest", "emit"} /\ MutexFree
    /\ mutex' = "main"
    /\ UNCHANGED <<connVars, readerVars, requests, disconnected, ioError,
                   writeFailed, flagVars, mainVars, process, hits>>

MainWrites(point) ==
    /\ MainAt(point) /\ mutex = "main"
    /\ mutex' = "free"
    /\ UNCHANGED <<sent, received, seen, closed, stopped, readerVars, requests,
                   flagVars, produced, broken, shellExit, hits>>

FlushOutput ==
    /\ MainWrites("output")
    /\ WriteOk(OutputEvent(cmd, buf)) \/ WriteLost \/ WriteKilled
    /\ buf' = 0
    /\ main' = "run"
    /\ UNCHANGED <<cmd, answer, failed>>

(* drain_queued_input moves a code to the keyboard ring.                   *)
DrainInput ==
    /\ MainAt("run") /\ inputQ # <<>>
    /\ inputQ' = Tail(inputQ)
    /\ UNCHANGED <<connVars, readerVars, linkVars, inProgress, cancelReq,
                   ctrlbrk, mainVars, process, hits>>

(* Shell commands, INT 21h and the console device reset ctrlbrk.           *)
GuestResetsBreak ==
    /\ MainAt("run") /\ ctrlbrk
    /\ ctrlbrk' = FALSE
    /\ UNCHANGED <<connVars, readerVars, linkVars, inProgress, cancelReq,
                   inputQ, mainVars, process, hits>>

(* Faulty: RunInternal looks at ctrlbrk only.                              *)
UnwindBatchOnBreak ==
    /\ MainAt("run") /\ sent[cmd].run \in {"batch", "loop"}
    /\ ctrlbrk
    /\ ctrlbrk' = FALSE
    /\ broken' = TRUE
    /\ main' = "ran"
    /\ UNCHANGED <<connVars, readerVars, linkVars, inProgress, cancelReq,
                   inputQ, cmd, buf, produced, shellExit, answer, failed,
                   process, hits>>

(* RunInternal, before every line of a batch file.                         *)
UnwindBatch ==
    /\ MainAt("run") /\ sent[cmd].run \in {"batch", "loop"}
    /\ ctrlbrk \/ cancelReq
    /\ ctrlbrk' = FALSE
    /\ broken' = TRUE
    /\ main' = "ran"
    /\ UNCHANGED <<connVars, readerVars, linkVars, inProgress, cancelReq,
                   inputQ, cmd, buf, produced, shellExit, answer, failed,
                   process, hits>>

(* The command returns, having ended the DOS shell ("exited") or not.      *)
CommandReturns ==
    /\ MainAt("run") /\ sent[cmd].run \in {"prog", "batch"}
    /\ shellExit' \in BOOLEAN
    /\ main' = "ran"
    /\ UNCHANGED <<connVars, readerVars, linkVars, flagVars, cmd, buf,
                   produced, broken, answer, failed, process, hits>>

(* An exception unwinds the session with its reader thread still joinable: *)
(* ~thread calls std::terminate.                                           *)
CommandThrows ==
    /\ MainAt("run") /\ GuestThrows
    /\ process' = "killed"
    /\ UNCHANGED <<connVars, readerVars, linkVars, flagVars, mainVars, hits>>

-----------------------------------------------------------------------------
(* The emulator thread after the command.                                  *)

EndExec ==
    /\ MainAt("ran")
    /\ inProgress' = FALSE
    /\ main' = "exchange"
    /\ UNCHANGED <<connVars, readerVars, linkVars, cancelReq, ctrlbrk, inputQ,
                   cmd, execVars, answer, failed, process, hits>>

(* cancel_requested.exchange(false); clear_queued_input() if it was set.   *)
ExchangeCancel ==
    /\ MainAt("exchange")
    /\ answer' = ExecResult(cmd, shellExit, cancelReq,
                            produced, broken)
    /\ cancelReq' = FALSE
    /\ inputQ' = IF cancelReq THEN <<>> ELSE inputQ
    /\ main' = "after"
    /\ UNCHANGED <<connVars, readerVars, linkVars, inProgress, ctrlbrk, cmd,
                   execVars, failed, process, hits>>

StillThere ==
    /\ MainAt("after") /\ FoundThere
    /\ main' = "flush"
    /\ UNCHANGED <<connVars, readerVars, linkVars, flagVars, cmd, execVars,
                   answer, failed, process, hits>>

(* A write by the emulator thread: on failure it leaves the session.       *)
Write(e, next) ==
    \/ WriteOk(e) /\ main' = next /\ UNCHANGED failed
    \/ WriteLost /\ main' = "end" /\ failed' = TRUE
    \/ WriteKilled /\ UNCHANGED <<main, failed>>

(* Faulty: the result is sent without flushing the output first.           *)
FinalFlushForgotten ==
    /\ MainAt("flush")
    /\ main' = "emit"
    /\ UNCHANGED <<connVars, readerVars, linkVars, flagVars, cmd, execVars,
                   answer, failed, process, hits>>

(* The rest of the output is sent, unless there is none or an earlier      *)
(* write has failed.                                                       *)
FinalFlush ==
    /\ MainAt("flush")
    /\ \/ writeFailed /\ main' = "end" /\ failed' = TRUE
       \/ ~writeFailed /\ buf = 0 /\ main' = "emit" /\ UNCHANGED failed
       \/ ~writeFailed /\ buf > 0 /\ main' = "rest" /\ UNCHANGED failed
    /\ UNCHANGED <<connVars, readerVars, linkVars, flagVars, cmd, execVars,
                   answer, process, hits>>

FlushRest ==
    /\ MainWrites("rest")
    /\ Write(OutputEvent(cmd, buf), "emit")
    /\ buf' = 0
    /\ UNCHANGED <<cmd, answer>>

Emit ==
    LET last == answer.event = "result" /\ answer.exit IN
    /\ MainWrites("emit")
    /\ Write(answer, IF last THEN "end" ELSE "wait")
    /\ cmd' = 0 /\ answer' = NoEvent
    /\ UNCHANGED buf

(* The end of the session: a last flush, stop the reader, join it.  The    *)
(* flush is made when no write has failed and the client is found to be    *)
(* there; then nothing is buffered (NothingLeftToFlush) and emitting       *)
(* nothing is no write.                                                    *)
LastFlush ==
    /\ MainAt("end")
    /\ \/ failed /\ UNCHANGED disconnected
       \/ ~failed /\ FoundGone
       \/ ~failed /\ FoundThere /\ UNCHANGED disconnected
    /\ main' = "stop"
    /\ UNCHANGED <<connVars, readerVars, requests, ioError, writeFailed, mutex,
                   flagVars, cmd, execVars, answer, failed, process, hits>>

(* Faulty: the reader thread is joined without being told to stop.         *)
StopReaderForgotten ==
    /\ MainAt("stop")
    /\ main' = "join"
    /\ UNCHANGED <<connVars, readerVars, linkVars, flagVars, cmd, execVars,
                   answer, failed, process, hits>>

StopReader ==
    /\ MainAt("stop")
    /\ stopped' = TRUE
    /\ main' = "join"
    /\ UNCHANGED <<sent, received, events, seen, closed, readerVars, linkVars,
                   flagVars, cmd, execVars, answer, failed, process, hits>>

(* Before the join the Windows pipe waits for the client to read what has  *)
(* been written (FlushFileBuffers).                                        *)
JoinReader ==
    /\ MainAt("join") /\ reader = "done"
    /\ Windows => closed \/ seen = Len(events)
    /\ failed' = (failed \/ ioError)
    /\ inProgress' = FALSE /\ writeFailed' = FALSE /\ buf' = 0
    /\ cmd' = 0 /\ answer' = NoEvent
    /\ main' = "returned"
    /\ process' = "returned"
    /\ UNCHANGED <<connVars, readerVars, requests, disconnected, ioError,
                   mutex, cancelReq, ctrlbrk, inputQ, produced, broken,
                   shellExit, hits>>

MainNext ==
    \/ Leave \/ Take \/ GiveUp
    \/ AnswerStatus \/ BeginExec \/ Disarm \/ StartExec
    \/ GuestOutput \/ BeginFlush \/ FlushOutput
    \/ DrainInput \/ GuestResetsBreak
    \/ UnwindBatch \/ CommandReturns \/ CommandThrows
    \/ EndExec \/ ExchangeCancel \/ StillThere \/ FinalFlush \/ FlushRest
    \/ LockToWrite \/ Emit
    \/ LastFlush \/ StopReader \/ JoinReader

-----------------------------------------------------------------------------
ClientNext == Send \/ Receive \/ Close

(* The process is gone: nothing happens any more.                          *)
Ended == process # "serving" /\ UNCHANGED vars

Next == ClientNext \/ ReaderNext \/ MainNext \/ Ended

Spec == Init /\ [][Next]_vars

=============================================================================
