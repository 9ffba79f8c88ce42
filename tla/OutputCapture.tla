---------------------------- MODULE OutputCapture ---------------------------
(***************************************************************************)
(* How console output of a command becomes "output" events.  Two hooks     *)
(* feed one buffer: DOS_WriteFile captures a write to the CON device as a  *)
(* whole when it returns, INT 10h captures single characters; while the    *)
(* CON device drives INT 10h itself, console_device_capture_active keeps   *)
(* the second hook quiet.  The buffer is sent when it is large or old, and *)
(* before the result of the request.                                       *)
(*                                                                         *)
(* The CON device runs guest code for every character (INT 29h, INT 10h,   *)
(* and INT 23h after a break), so a handler may print or write in the      *)
(* middle of a write: writes form a stack.  All this is one thread.        *)
(* Characters are numbered in the order in which the program issues them.  *)
(***************************************************************************)
EXTENDS Integers, Sequences

CONSTANTS
    Requests,              \* ids of exec requests
    NoRequest,             \* the empty active_request_id
    BufferedOutputMaxBytes,
    BufferedOutputMaxMs,
    MaxIssued,             \* bound of the model: characters of one request
    MaxDepth,              \* bound of the model: nesting of writes
    MaxNow                 \* bound of the model: milliseconds

ASSUME CaptureAssumption ==
    /\ NoRequest \notin Requests
    /\ BufferedOutputMaxBytes \in Nat \ {0}
    /\ BufferedOutputMaxMs \in Nat \ {0}
    /\ MaxIssued \in Nat
    /\ MaxDepth \in Nat \ {0}
    /\ MaxNow \in Nat

VARIABLES
    active_request_id,
    console_device_capture_active,
    buffered_output,  \* its request_id, bytes and first_byte_ms
    writes,           \* DOS writes to CON in progress, innermost first
    now,              \* get_monotonic_ms
    polled,           \* the emulator loop has run since the clock ticked
    sent,             \* output events of the request, as <<id, character>>
    issued,           \* history: characters the program has issued
    shown,            \* history: characters that reached the console
    captured_at,      \* history: when each buffered byte was captured
    clean             \* history: no handler wrote and no break ended a write

vars == <<active_request_id, console_device_capture_active, buffered_output,
          writes, now, polled, sent, issued, shown, captured_at, clean>>

clockVars   == <<now, polled>>
guestVars   == <<console_device_capture_active, writes, issued, shown, clean>>
captureVars == <<buffered_output, sent, captured_at>>

\* A write in progress: the characters displayed so far and those to come.
Frame == [done : Seq(Nat), rest : Seq(Nat)]

TypeOK ==
    /\ active_request_id \in Requests \cup {NoRequest}
    /\ console_device_capture_active \in BOOLEAN
    /\ buffered_output \in [request_id : Requests \cup {NoRequest},
                            bytes : Seq(Nat), first_byte_ms : Nat]
    /\ Len(buffered_output.bytes) < BufferedOutputMaxBytes
    /\ writes \in Seq(Frame)
    /\ now \in Nat
    /\ polled \in BOOLEAN
    /\ sent \in Seq((Requests \cup {NoRequest}) \X Nat)
    /\ issued \in Nat
    /\ shown \in Seq(Nat)
    /\ captured_at \in Seq(Nat)
    /\ clean \in BOOLEAN

\* reset_session_state, before the first request.
Init ==
    /\ active_request_id = NoRequest
    /\ console_device_capture_active = FALSE
    /\ buffered_output = [request_id |-> NoRequest, bytes |-> <<>>,
                          first_byte_ms |-> 0]
    /\ writes = <<>>
    /\ now = 0
    /\ polled = TRUE
    /\ sent = <<>>
    /\ issued = 0
    /\ shown = <<>>
    /\ captured_at = <<>>
    /\ clean = TRUE

-----------------------------------------------------------------------------
(* The buffer: append_buffered_output, should_flush_buffered_output and    *)
(* flush_buffered_output_json_line.                                        *)

Running == active_request_id # NoRequest

\* Faulty: the age of the buffer restarts with every byte.
AppendedRestarting(data) ==
    [buffered_output EXCEPT !.bytes = @ \o data, !.first_byte_ms = now]

Appended(data) ==
    [buffered_output EXCEPT
        !.bytes = @ \o data,
        !.first_byte_ms = IF buffered_output.bytes = <<>> THEN now ELSE @]

\* Faulty: the size limit is compared with the wrong operator.
DueLate(buffer) ==
    /\ buffer.request_id # NoRequest
    /\ buffer.bytes # <<>>
    /\ \/ Len(buffer.bytes) > BufferedOutputMaxBytes
       \/ now - buffer.first_byte_ms >= BufferedOutputMaxMs

Due(buffer) ==
    /\ buffer.request_id # NoRequest
    /\ buffer.bytes # <<>>
    /\ \/ Len(buffer.bytes) >= BufferedOutputMaxBytes
       \/ now - buffer.first_byte_ms >= BufferedOutputMaxMs

Events(id, bytes) == [i \in 1 .. Len(bytes) |-> <<id, bytes[i]>>]

Times(n) == [i \in 1 .. n |-> now]

\* One event line for all of the buffer's bytes; no line for an empty buffer.
Flush(buffer) ==
    /\ buffered_output' = [buffer EXCEPT !.bytes = <<>>, !.first_byte_ms = 0]
    /\ sent' = sent \o Events(buffer.request_id, buffer.bytes)
    /\ captured_at' = <<>>

Hold(buffer, times) ==
    /\ buffered_output' = buffer
    /\ captured_at' = times
    /\ UNCHANGED sent

\* The common tail of capture_dos_write and capture_tty_output.
Capture(data) ==
    LET buffer == Appended(data)
        times  == captured_at \o Times(Len(data))
    IN  IF Due(buffer) THEN Flush(buffer) ELSE Hold(buffer, times)

-----------------------------------------------------------------------------
(* The request loop of the session.                                        *)

\* reset_buffered_output.
Reset(id) == [request_id |-> id, bytes |-> <<>>, first_byte_ms |-> 0]

BeginRequest(id) ==
    /\ ~Running
    /\ active_request_id' = id
    /\ buffered_output' = Reset(id)
    /\ sent' = <<>>
    /\ issued' = 0
    /\ shown' = <<>>
    /\ captured_at' = <<>>
    /\ clean' = TRUE
    /\ UNCHANGED <<console_device_capture_active, writes, now, polled>>

\* Faulty: the result is sent without what the buffer still holds.
EndRequestUnflushed ==
    /\ Running
    /\ writes = <<>>
    /\ active_request_id' = NoRequest
    /\ UNCHANGED <<captureVars, guestVars, clockVars>>

\* The command has returned: the rest of its output, then its result.
EndRequest ==
    /\ Running
    /\ writes = <<>>
    /\ Flush(buffered_output)
    /\ active_request_id' = NoRequest
    /\ UNCHANGED <<guestVars, clockVars>>

-----------------------------------------------------------------------------
(* The guest.  Inside a write only a handler can run; it is not clean.     *)

Fresh(n) == [i \in 1 .. n |-> issued + i]

\* Faulty: the flag is not consulted.
CaptureTtyAlways(c) == Capture(<<c>>)

\* capture_tty_output.
CaptureTty(c) ==
    IF console_device_capture_active
    THEN UNCHANGED captureVars
    ELSE Capture(<<c>>)

\* A program, or a handler, prints through INT 10h, function 0Eh.
PrintTeletype ==
    /\ Running
    /\ issued < MaxIssued
    /\ issued' = issued + 1
    /\ shown' = Append(shown, issued + 1)
    /\ CaptureTty(issued + 1)
    /\ clean' = (clean /\ writes = <<>>)
    /\ UNCHANGED <<active_request_id, console_device_capture_active, writes,
                   clockVars>>

\* DOS_WriteFile on CON, up to the device's loop over the n characters.
BeginConWrite(n) ==
    /\ Running
    /\ Len(writes) < MaxDepth
    /\ issued + n <= MaxIssued
    /\ console_device_capture_active' = TRUE
    /\ writes' = <<[done |-> <<>>, rest |-> Fresh(n)]>> \o writes
    /\ issued' = issued + n
    /\ clean' = (clean /\ writes = <<>>)
    /\ UNCHANGED <<active_request_id, shown, captureVars, clockVars>>

\* DOS_WriteFile on a file or another device: nothing is captured, and the
\* flag is down when it returns.
WriteElsewhere ==
    /\ Running
    /\ console_device_capture_active' = FALSE
    /\ clean' = (clean /\ writes = <<>>)
    /\ UNCHANGED <<active_request_id, writes, issued, shown, captureVars,
                   clockVars>>

\* device_CON::Write displays one character by INT 10h.
ShowChar ==
    /\ Running
    /\ writes # <<>>
    /\ LET top == Head(writes)
           c   == Head(top.rest)
       IN  /\ top.rest # <<>>
           /\ writes' = <<[done |-> Append(top.done, c),
                           rest |-> Tail(top.rest)]>> \o Tail(writes)
           /\ shown' = Append(shown, c)
           /\ CaptureTty(c)
    /\ UNCHANGED <<active_request_id, console_device_capture_active, issued,
                   clean, clockVars>>

\* The device returns: the flag goes down and the data is captured.  A
\* handler's write may end inside another one.
EndConWrite ==
    /\ Running
    /\ writes # <<>>
    /\ Head(writes).rest = <<>>
    /\ console_device_capture_active' = FALSE
    /\ writes' = Tail(writes)
    /\ IF Head(writes).done = <<>>
       THEN UNCHANGED captureVars
       ELSE Capture(Head(writes).done)
    /\ UNCHANGED <<active_request_id, issued, shown, clean, clockVars>>

\* Ctrl-Break ends the write after a last "^C" on the console, counted as one
\* character.  The device does not reduce *size, so that DOS_WriteFile is
\* going to capture the data it was given, all of it.
BreakConWrite ==
    /\ Running
    /\ issued < MaxIssued
    /\ writes # <<>>
    /\ LET top == Head(writes)
       IN  /\ top.rest # <<>>
           /\ writes' = <<[done |-> top.done \o top.rest, rest |-> <<>>]>>
                            \o Tail(writes)
    /\ issued' = issued + 1
    /\ shown' = Append(shown, issued + 1)
    /\ CaptureTty(issued + 1)
    /\ clean' = FALSE
    /\ UNCHANGED <<active_request_id, console_device_capture_active, clockVars>>

-----------------------------------------------------------------------------
(* The emulator loop.  The clock is slow compared with it: Normal_Loop     *)
(* comes round at least once in every millisecond.                         *)

Tick ==
    /\ polled
    /\ now < MaxNow
    /\ now' = now + 1
    /\ polled' = FALSE
    /\ UNCHANGED <<active_request_id, captureVars, guestVars>>

\* flush_buffered_output_if_due.
NormalLoop ==
    /\ polled' = TRUE
    /\ IF Running /\ Due(buffered_output)
       THEN Flush(buffered_output)
       ELSE UNCHANGED captureVars
    /\ UNCHANGED <<active_request_id, guestVars, now>>

-----------------------------------------------------------------------------
Next ==
    \/ \E id \in Requests : BeginRequest(id)
    \/ EndRequest
    \/ PrintTeletype
    \/ \E n \in 0 .. MaxIssued : BeginConWrite(n)
    \/ WriteElsewhere
    \/ ShowChar
    \/ EndConWrite
    \/ BreakConWrite
    \/ Tick
    \/ NormalLoop

Spec == Init /\ [][Next]_vars
=============================================================================
