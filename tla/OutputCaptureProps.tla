------------------------- MODULE OutputCaptureProps -------------------------
(***************************************************************************)
(* What the output events of a request say about its console output.       *)
(***************************************************************************)
EXTENDS OutputCapture

Characters(events) == [i \in 1 .. Len(events) |-> events[i][2]]

SentData == Characters(sent)

\* What the client has been sent or is about to be sent.
Captured == SentData \o buffered_output.bytes

\* The displayed part of the write in progress, which is captured later.
UnderWay == IF writes = <<>> THEN <<>> ELSE Head(writes).done

\* Between the three places a displayed character can be in, nothing is
\* lost, repeated or reordered: what was captured, followed by what the CON
\* device has displayed of the current write, is what the console shows --
\* as long as no handler wrote inside a write and no break ended one.
\* dos_files.cpp:864-876, host_control.cpp:2197-2244.
CapturedIsShown == clean /\ Running => Captured \o UnderWay = shown

\* When the result has been sent, all output has been sent before it
\* (host_control.cpp:1562-1571).
OutputBeforeResult == clean /\ ~Running => SentData = shown

\* Every output event carries the id of the request whose command wrote it
\* (reset_buffered_output at host_control.cpp:1536).
EventsCarryTheirRequest ==
    Running => \A i \in 1 .. Len(sent) : sent[i][1] = active_request_id

\* Output trickling in cannot be held back for ever: once the emulator loop
\* has come round, no buffered byte is older than the limit, however many
\* bytes followed it (host_control_protocol.cpp:455-457, 469-483).
NoByteHeldPastLimit ==
    Running /\ polled =>
        \A i \in 1 .. Len(captured_at) :
            now - captured_at[i] < BufferedOutputMaxMs

\* Not true of the code, and checked by no run (see the README): a CON write
\* that a break ends is captured whole.
\* docs/host-control.md:143: "Command output is emitted as raw DOS console
\* bytes".  Every character in an output event was on the console.
OnlyConsoleBytesSent ==
    \A i \in 1 .. Len(sent) :
        \E j \in 1 .. Len(shown) : sent[i][2] = shown[j]
=============================================================================
