# Verification of DOSBox-X: host control and the emulator core under it

This directory holds TLA+ models of the host-control interface of this DOSBox-X
fork and of the parts of the emulator's core that everything else stands on --
the interrupt controllers, the queue of timed events and the DOS memory arena --,
the TLC configurations that check them, and proofs checked by TLAPS. Line numbers
in this file refer to the repository at the commit modelled; `host_control.cpp`
stands for `src/misc/host_control.cpp` of the repository, `pic.cpp` for
`src/hardware/pic.cpp`, `dos_memory.cpp` for `src/dos/dos_memory.cpp`.

## 1. The system

DOSBox-X emulates a PC. This fork adds *host control*: a client on the host sends
newline-delimited JSON requests (`exec`, `status`, `input_text`, `key`, `cancel`)
over stdio, a Unix socket, a FIFO pair or a Windows named pipe, and receives
events (`ready`, `output`, `result`, `status`, `input_result`, `cancel_result`,
`error`). On top of it are a reference client with a workflow runner and an MCP
server that offers the same to software agents. Below it is the upstream emulator:
one thread that runs the CPU in slices, serves timed events between them, delivers
interrupts, and runs a DOS kernel with its own memory management.

### Components, their state and their operations

| Component | State | Operations | What makes it correct |
|---|---|---|---|
| Input queue (`host_control.cpp:2048-2195`, `ints/bios_keyboard.cpp:365-520`) | `pending_input_codes`, the sequence counter, the BIOS ring, `over_key_buffer`, the pause flag | queue, clear, drain in two locked halves, guest reads a key | acknowledged keys arrive once, in order, unless cleared; nobody waits for ever |
| Duplex session (`host_control.cpp:137-630`, `1290-1640`) | request deque, `disconnected`, `had_io_error`, `exec_in_progress`, `cancel_requested`, `ctrlbrk`, the buffer | reader thread: read, answer input and cancel, hand over; emulator thread: take, run, flush, answer, stop | a legal event stream; output complete; a cancel stops a batch file; a session ends when it should and only then |
| Output capture (`host_control.cpp:2197-2249`, `host_control_protocol.cpp:441-498`, `dos_files.cpp:864-877`, `int10.cpp:212`) | `buffered_output`, `active_request_id`, `console_device_capture_active` | capture a CON write, capture a character, flush when due, reset, final flush | every console character is sent once, in order, under its request, before the result, and soon |
| MCP session (`mcp-server/dosbox_mcp`) | `_session`, phase, last result, output buffer, reader thread | `start_session`, `exec`, `poll`, `send_input`, `cancel`, `stop_session`, `_read_loop` | output once and in order; `done` is about the last command and final; busy ends; one process |
| Workflow client (`scripts/host_control_client.py:560-930`) | `pending_events`, `completed_requests`, `request_ops`, `session_ended` | send a request, await its completion, match an event, nested steps, time out | success means that every request succeeded; no step takes the completion another needs; an awaited completion ends the wait |
| Interrupt controllers (`pic.cpp:40-640`) | request, mask, service and mode registers of two 8259s, `PIC_IRQCheck` and its pending event | devices raise and lower lines; the guest masks, acknowledges, initialises; `PIC_runIRQs` delivers | no request and no wake-up is lost; nothing is nested into a more urgent service; the slave is heard |
| Event queue (`pic.cpp:640-900`, the core loop) | the sorted list of entries, `CPU_Cycles`, `CPU_CycleLeft`, `srv_lag` | add, remove, serve, deal out a slice, begin a millisecond | events on time, in order, each served |
| DOS memory arena (`dos_memory.cpp`, `dos_execute.cpp`, `xms.cpp:632`) | two chains of memory control blocks, strategy, UMB link, running programs | allocate, free, resize, link, EXEC, terminate, stay resident | the chains cover the memory; nobody loses a block; nothing that fits is refused; all is returned |
| Stdio session (`host_control.cpp:1141-1288`) | as the duplex one, without a reader thread | read, run, answer | the same stream, with everything in turn |
| Endpoints (`host_control.cpp:1690-1997`) | paths created, descriptors | open, close | what was created is removed, also after a failure in between |
| Line framing (`host_control.cpp:322-348`, `509-561`, `654-684`, `1021-1105`) | accumulator | append bytes, take a line | the lines read are the lines written |
| Request and event format (`host_control_protocol.cpp`) | none | parse, print, base64 | what was printed parses to itself |
| Error level tracking (`host_control.cpp:2251-2268`) | a running maximum | reset, track, take | -- |

`PROJECT.json` also lists the upstream parts that are not modelled (shell language,
file services, BIOS, CPU, devices, user interface, libraries).

### How the components interact

```
 agent --tool calls--> MCP session  \
 recipe --steps----> workflow client --requests--> [pipe] --> reader thread --deque--> emulator thread
                          ^  reader thread <--events-- [pipe] <----- write lock ------/      |
                          '- polls                                                      runs the DOS command
                                              input queue <-- reader thread                   |
                                                   '--- drained by Normal_Loop ---> BIOS ring -+
                                              output buffer <-- CON writes, INT 10h -----------|
                                                                                               |
   Normal_Loop: CPU core --(slice ends)--> PIC_RunQueue --> event handlers --> PIC_ActivateIRQ |
                   ^                          |  '--> PIC_runIRQs --> CPU interrupt            |
                   '---- CPU_Cycles ----------'                           DOS kernel: MCB chains
```

* The reader thread calls into the input queue and sets the cancel flags while the
  emulator thread runs the guest. Both threads write events under one mutex.
* The emulator thread runs the whole guest inside `exec_request`; `Normal_Loop`
  (`dosbox.cpp:469-471`) drains input and flushes old output from in there.
* `DOS_Shell::RunInternal` (`shell.cpp:726-745`) polls the cancel flags.
* In the MCP server, the tool thread and the event thread share `SessionState`,
  whose lock covers each method and nothing more.
* `PIC_RunQueue` serves events between two slices; a handler may raise a line, which
  adds the event `PIC_IRQCheckDelayed` to the same queue, which sets `PIC_IRQCheck`,
  which makes the next `PIC_RunQueue` call `PIC_runIRQs`.
* The shell and every program get their memory from the arena; `DOS_Execute` asks for
  the largest block first and allocates it afterwards.

### Hard behaviours

Two threads with flags outside any lock; a drain that drops its lock around a call;
two capture hooks for the same characters, with guest handlers running inside one of
them; a peer that closes or stops reading at any moment; joins on a thread that may be
blocked; answers that overtake queued commands; check-then-act in the MCP tools;
completions read by a step that is not waiting for them; requests that arrive masked,
shut out or in the middle of a service, on two chained controllers that must both be
asked again; a delayed wake-up and its withdrawal; a slice of cycles that must end early
for an event added inside it, and a clock that is set back every millisecond; blocks that
merge, split and regrow across two chains that are linked and unlinked; a size asked for
and used later. The `hazards` of `PROJECT.json` list each at its line, with the properties
that cover it, or the reason why none does.

## 2. Modules

| Module | Contents |
|---|---|
| `InputFifo` | what input promises: a bounded FIFO with whole-batch acceptance and a clear |
| `InputQueue` | the queue as coded, `Props` its properties, `Proofs` its theorems, `MC` for TLC |
| `HostControlProtocol` | what a client may rely on: a legal sequence of requests and events |
| `HostControlSession` | client, reader thread and emulator thread of a socket or pipe session; `Props`, `Proofs`, `MC` |
| `OutputCapture` | the two hooks and the output buffer; `Props`, `Proofs`, `MC` |
| `McpSession` | MCP tools, event thread and DOSBox-X; `Props`, `Proofs`, `MC` |
| `WorkflowClient` | the recipe runner and a server that answers as `HostControlSession` does; `Props`, `Proofs`, `MC` |
| `InterruptController` | both 8259s, devices, guest and `PIC_runIRQs`; `Props`, `Proofs`, `MC` |
| `EventQueue` | the queue, the clock and the emulator loop; `Props`, `Proofs`, `MC` |
| `DosMemory` | the MCB chains and the programs on them; `Props`, `Proofs`, `MC` |

A definition marked "Faulty" is a plausible mistake in the definition that follows it;
it is used by no specification. The `mutants` of `PROJECT.json` put each in the place of
the correct one, and TLC must then find the named property violated.

### Correspondence with the code

**InputQueue.** One action per section under `pending_input_mutex`: `QueueInputCodes`,
`ClearQueuedInput` (either thread), `DrainPeek`, `DrainPop`; and between the last two the
outcomes of `BIOS_AddKeyToBuffer`: stored, ring full, or paused (where it reports success
and stores nothing). Codes are represented by the order in which they were accepted,
since no function looks at what they are.

**HostControlSession.** Both threads have a control state; one action per critical
section and per access to an atomic that both threads touch. `request_cancel` is four
steps (test, `ctrlbrk`, `cancel_requested`, Ctrl-C in the input queue), because the command
may return between any two. The end of an exec is `EndExec`, `ExchangeCancel`, `StillThere`,
`FinalFlush`, `Emit`. Output is counted in units.
An event is written under the session mutex, and the write lasts as long as the client has
`Room` unread events: taking the lock (`LockToReply`, `LockToWrite`) and the write (`Reply`,
`FlushOutput`, `FlushRest`, `Emit`) are two steps, and `mutex` says which thread is between
them. The thread itself does nothing else meanwhile -- a flush from inside the guest (`main` is
`output`) holds up the guest --, and the other thread waits where it needs the mutex: to write,
to hand over or take a request, to note the end of the connection, and to test whether the peer is there.
That test locks only when the socket has nothing to read (`PeerKnown`).
The flush at the end of the session (`LastFlush`) is no write in the model: when no write has failed and
the client is there, nothing is buffered any more. `NothingLeftToFlush` is that fact, checked and proved.
A write fails or kills the process when the peer is gone. On Windows, the lines already taken from the pipe are
still read after the session has stopped, and it waits for the client to read before it returns.

**OutputCapture.** One thread. A CON write is begun, displays character by character
(each passing through INT 10h and its hook), and ends with the capture of the whole; the
guest code that CON calls for each character may print or write itself, so writes form a
stack. Characters are numbered as issued, and `shown` records what reached the console.
`captured_at` records when each buffered byte came. Millisecond ticks wait for the
emulator loop to come round, which it does continuously.

**McpSession.** The tool thread is in at most one tool (`call`); one action per locked call
of `SessionState`, per write to the pipe, and per step of `stop`. `DosboxSession.launch`
includes its failures. DOSBox-X is reduced to its reader thread (queues an exec; answers a
cancel with an error unless a command is in progress) and its emulator thread (start,
output, return, result). Several setup commands are one. The poll loop's inner snapshots
have no effect and are left out; its last one and the drain are two steps. A result whose directory
is not UTF-8 (`garbled`, if `CodePageNames`) makes `next_event` raise, which ends the reader thread
(`ReaderRaises`, `dead`) and nothing else.

**WorkflowClient.** `stack` is the stack of Python calls of `run_steps`: each has its steps,
the index of the present one, and the request id of the `exec_interactive` it is nested in.
Steps nest to any depth, as `parse_workflow_steps` accepts them. `awaited` is the argument of the
`wait_for_request` in progress. One action per step that needs no event (`SendRequest`,
`AwaitCompleted`, `MatchPending`), one for reading an event and what the waiting step does
with it, one for the time-out and the end of the stream; each goes on, in the same action, to the
next step or back to the caller (`Resume`). Steps that do nothing (`noop`, `comment`) are left out,
and recipes are constants because they are parsed before the client connects. The
server answers input at once and everything else in turn, and closes when the shell exits.

**InterruptController.** A register is the set of its lines. One action per port write
(`WriteMask`, `Eoi`, `SpecificEoi`, `SetSpecial`, `WriteIcw1`, `WriteIcw`), per call of a device
(`ActivateIRQ`, `DeActivateIRQ`), for the event `PIC_IRQCheckDelayed` (any time after
`activate`) and for `PIC_runIRQs`. What the code does by calls from one controller into the
other (`activate`, `deactivate`, `check_for_irq`) is composed of operators from board to
board, so that an action is the whole handler. The state of the input pins is kept only for edge-triggered lines,
the only ones for which the code reads it. A non-maskable interrupt or a trap
(`PIC_runIRQs` returning early) is `RunIRQs` not taken. Reads of the registers change no
state and are left out.

**EventQueue.** `pc` says where the emulator is; one action per instruction, per end of a
slice, per entry into and exit from `PIC_RunQueue`, per handler, per use of the queue by a
handler, and for `TIMER_AddTick`. Times are counted in parts of a cycle, where the code has a
floating-point fraction of a millisecond: an event may be due between two cycles, and the
conversions that drop the fraction are modelled. Rounding of the floating-point numbers is
not.

**DosMemory.** `mcb` maps the segment of each header to its contents; a chain is the set of
headers met on the way to its last block. `CompressMemory`, `AllocateMemory`,
`ResizeMemory`, `FreeProcessMemory` and `Link` are functions from arenas to arenas. Where the code
goes along a chain and changes it, they say what comes of that: `DOS_CompressMemory` leaves each free
block ending where the last of the free blocks behind it did, and the search of
`DOS_AllocateMemory` picks the first, the smallest (of several, the one met first) or the last block
that fits, upper memory before low memory. One action
per DOS call, with everything it does (an `Execute` makes the environment, the failing request
for 0FFFFh paragraphs, the size, the block and the change of owner). `held` is history: what
programs were told they own. Programs write only inside their blocks, so the repair of
overwritten chains has nothing to do and is left out.

## 3. Runs

| Run | Question | Bounds |
|---|---|---|
| `input_queue` | order, loss, duplication, FIFO refinement, progress, with a pause key | 5 codes, deque of 3, ring of 2: a batch overfills the deque, the ring fills, and codes are queued while an older one is between peek and pop (7,378 states) |
| `session_socket` | legal event stream, complete output, nothing left at the last flush; Unix socket with SIGPIPE and throwing commands | 3 requests of every kind, 1 unit of output, room for 2 events (2,049,568 states) |
| `session_live` | the same on a transport where a failed write is an error; each request answered, close ends the session | 3 requests, 1 unit of output, room for 1 event, so that writes do block; no room for input, which is then refused (321,256 states) |
| `session_cancel` | endless batch files stop, a shell exit ends the session, unless a thread is blocked for ever in a write | 3 requests out of endless batch, ordinary batch and cancel, 1 unit of output, room for 1 event and a client that may stop reading: both threads block in a write, and on the other's lock; no room for the Ctrl-C of a cancel (262,541 states) |
| `output_capture` | exactness, order and promptness of output | 4 characters, buffer limit 3, age limit 2, two nested writes, 2 requests (interchangeable: symmetry) |
| `mcp_session` | polls, completion, one command at a time, busy ends | one session, 4 requests (setup, exec, cancel or input, exec), 2 output events, any result may be one that cannot be decoded (337,009 states) |
| `workflow_client` | success is real, awaited completions end the wait | recipes of up to two steps of every kind, with up to two nested ones, and one with an interactive exec inside of another; 2 output events per command; failures, exits and time-outs (51,429 states) |
| `workflow_recipe` (violation) | the recipe of `docs/host-control.md` ends | that recipe, commands that succeed |
| `interrupt_controller` | no lost request or wake-up, registers agree, slave and urgent requests are served | 3 requests from an edge and a level line of the master and two of the slave, one with the CS = DS hack; mask writes, special mask mode on the master, reinitialisations of the slave (89,488 states) |
| `interrupts_shut_out` (violation) | all requests are served | 4 requests, no reinitialisation |
| `event_queue` | order, punctuality, progress | 3 handlers in a queue of 3, milliseconds of 3 cycles of 2 parts, delays of 0, 1 and 7 parts, I/O that overdraws by up to 2 cycles: an event lands in the slice, after it, and two milliseconds later |
| `dos_memory` | chains, ownership, refusals, return of memory, EXEC | 3 programs, 5 paragraphs below and 3 above the boundary, sizes 1 and 3, four strategies: first, last and best fit, upper memory only and first (72,144 states) |

Why these bounds suffice in practice: no action compares anything across more than two
requests, codes, writes or blocks, and every bound was chosen so that each limit of the code
(capacity, ring, age, size, room, slice, millisecond) is reached and exceeded, and so that a second request is
in the system while the first is in each of its states. Every faulty variant is found
within them. The runs are exhaustive; `SYMMETRY` is used only for a run of invariants.
`CHECK_DEADLOCK FALSE` appears where the system may stop for good: a client that does not
read (`session_cancel`), a bounded number of sessions and requests (`mcp_session`), and a
workflow that waits for what never comes (`workflow_recipe`).

### Fairness

* Input queue: the emulator thread runs (weak fairness of the drain). The guest reads its
  keyboard again and again, and ends a pause, whenever that is repeatedly possible (strong
  fairness): without a guest that reads, no code can leave a full ring.
* Session: both threads are scheduled; `session_live` also has a client that reads its
  events and commands that return. Nothing makes a client send or leave, and in `session_cancel`
  nothing makes it read. `std::mutex` is not fair: a thread may be passed over as often as the other one has
  something to write, which the bounds on requests and output make finite.
* MCP: a tool that was called goes on, both threads are scheduled, and a DOS command that
  runs returns. Nothing makes an agent call a tool, and time-outs may or may not occur.
* Workflow client: the client runs and notices the end of the stream, the server serves. A
  time-out may or may not occur.
* Interrupt controllers: the pending check comes (the event queue serves it), the emulator
  calls `PIC_runIRQs` whenever a delivery is possible again and again (which takes interrupts enabled
  and, for a line with the hack, CS = DS: that both recur is assumed of the guest), and the guest
  does what every guest must: it enables interrupts again, acknowledges what is in service and
  completes an initialisation it has begun. Nothing makes it unmask a line or a device raise one.
* Event queue: the loop goes on (weak), and the core runs an instruction now and then (strong:
  it may return early for a callback or an interrupt, but not for ever without having run one).

## 4. What the checks show

Holding, over all interleavings within the bounds:

* `DeliveredInOrder`, `NoSilentDrop`: the head a drain peeked at is the one
  it removes, although the lock is dropped in between. This holds because only the emulator
  thread clears the queue. A clear by the reader thread (the faulty variant) breaks it.
* `ImplementsFifo`: the queue refines `InputFifo`; a code moves when the BIOS takes it.
* `ImplementsProtocol`: a session refines `HostControlProtocol`; `OutputComplete`: the units in
  the output events before a result add up to what the command produced; `NothingLeftToFlush`:
  no way out of the session leaves output of a client that is still there for the last flush.
* `EveryRequestAnswered`, `CloseEndsSession`.
* `ShellExitEndsSession`: the session ends after the shell has exited, unless the reader thread stays blocked in
  a write it had begun before the socket was shut down (finding 3).
* `CancelStopsBatch`: the second flag, `cancel_requested`, is what makes a cancel work when
  the guest resets `ctrlbrk`. A batch file whose output, or the answer to a request during which, nobody ever
  reads does not stop: the emulator thread is then inside a write or waits for the mutex.
* `CapturedIsShown`, `OutputBeforeResult`, `NoByteHeldPastLimit`.
  (`EventsCarryTheirRequest` is proved and needs no run: `ImplementsProtocol` also says whose output it is.)
* `OutputOnceInOrder`, and, while the server has reported no error, `OneCommandAtATime`,
  `DoneIsForLastExec`, `DoneIsFinal`; `BusyEnds` as long as the process lives and no line has
  ended the reader thread (finding 4).
* `SuccessIsReal`: whichever step read a completion, a workflow that reports success has one
  for every request it sent; `AwaitEnds`: no step awaits what another has consumed.
* `NoLostWakeup`, `NoRequestLost`, `SlaveIsHeard`, `UrgentServed`: see the theorems for how far
  they reach. `NoRequestLost` is checked without a device on line 2 of the slave (finding 1).
* `QueueStable`, `ServedOnTime`, `EventuallyServed`: an event is late by at most what an I/O
  instruction overdraws, the one cycle of the shortest slice, and the core's last test; a smaller
  bound fails.
* `HeldBlocksStand`, `RefusedOnlyWhenFull`, `ProcessMemoryReturned`, `ExecNeverFatal`: the
  `E_Exit` of `DOS_Execute` is never reached.

Not holding (with a violation run and a finding in `PROJECT.json`):

1. `slave_startIRQ` (`pic.cpp:525`) means to clear a cascade request with nothing behind it, but
   lowers line 2 of the slave. The request stays on the master, is found first each time, and
   IRQ 3 to 7 are never served again; a waiting IRQ 10 is lost.
2. The recipe of `docs/host-control.md:318-331` waits for ever: its last step waits for an
   `input_result` that the key step before it has consumed. (With `--timeout`, as that document
   invokes it, the recipe fails instead of waiting.)

Not holding, found with the modules by stating the property and left without a run:

3. A session does not end after the shell has exited if its client has stopped reading and the reader thread is blocked
   in a write (`host_control.cpp:373-374`): it holds the mutex that the emulator thread takes (1579, 486, 453)
   before it shuts the socket down (1584), against `docs/host-control.md:220`
   (`ShellExitAlwaysEndsSession` under `MCSessionCancel.cfg`).
4. A result whose current directory is not UTF-8 ends the MCP server's reader thread (`session.py:75`, uncaught in
   193-202); the session stays busy although DOSBox-X has answered and lives, against
   `docs/superpowers/specs/2026-08-16-dosbox-mcp-server-design.md:62`
   (`CompletionEndsBusy` under `MCMcpSession.cfg`; it holds with `CodePageNames = FALSE`).
5. On DOS/V machines a code refused by a full ring is delivered twice
   (`bios_keyboard.cpp:437`): set `DosV = TRUE` in `MCInputQueue.cfg` and check `DeliveredInOrder`.
6. A cancel that is acknowledged may not show in the result of the command it found
   (`host_control.cpp:1552`).
7. A client that leaves at the wrong moment kills DOSBox-X by SIGPIPE (`host_control.cpp:307`),
   against `docs/host-control.md:27-28`.
8. A CON write ended by Ctrl-Break or cancel is captured as if it had been completed
   (`dev_con.h:1120`, `OnlyConsoleBytesSent`).
9. An MCP `cancel` that overtakes its queued `exec` makes `poll` report `done` for a
   command that has not started (`session_state.py:52` against `server.py:64-66`,
   `NoOutputAfterDone`).
10. `start_session` leaves its process behind when a setup command times out or the
   connection closes early (`session.py:234`, `AtMostOneProcess`).
11. With best or last fit, an allocation that asks for upper memory first may be made in low
   memory although upper memory has room (`dos_memory.cpp:339`, `HighFirst`).

Also seen while modelling: on a FIFO pair, a reader thread that blocks in a write after the last
flush is not released either, since there is no shutdown
(`ShellExitEndsSession` with `Transport = "pipe"` and `MCSessionCancel.cfg` otherwise
unchanged shows it); a late cancel leaves `ctrlbrk` set for the next batch file; input is
swallowed while the guest is paused; a DOS write by a handler inside a CON write lowers the
capture flag, after which the rest of the outer write is captured twice; a handler that
prints through INT 10h inside a CON write is not captured at all; a line of the master with the
CS = DS hack that is skipped clears `PIC_IRQCheck` and is not tried again until something else
asks (`pic.cpp:560`); a hacked line of the slave that is passed over for a less urgent one
is not heard until the slave's EOI; an ICW1 with "single" and without ICW4 makes the next mask write an initialisation word
(`pic.cpp:306`); an ICW4 that turns automatic EOI on while a line is in service reaches an assertion
(`pic.cpp:73`); a full event queue drops an event silently (`pic.cpp:665`), and the entry of
the handler that runs still counts; upper memory that is not linked is never compressed;
`DOS_FreeMemory` does not compress either; resizing a block whose stale header was
merged away overlaps the merged block (`dos_memory.cpp:430`); a `wait_for` may match an event left from an
earlier step, and completions stay among the pending events.

## 5. What is proved

TLAPS proves, for every value of the constants that satisfies the modules' named
assumptions (`QueueAssumption`, `SessionAssumption`, `CaptureAssumption`, `McpAssumption`,
`ControllerAssumption`, `QueueSizeAssumption`, `RecipeAssumption`, `ArenaAssumption`: limits are naturals, recipes are sequences of well-formed steps, requests are records of the kinds modelled, ids are
distinct from the empty one, lines are lines and the cascade has no device on the master, and there is conventional memory
for the shell and a free block):

| Theorem | Statement |
|---|---|
| `InputQueueProofs!TypeCorrect`, `QueueStaysOrdered`, `DeliveryInOrder`, `NothingDropped` | the safety properties of the queue, assuming `~DosV` |
| `InputQueueProofs!QueueImplementsFifo` | `Spec => Fifo!Spec`, assuming `~DosV` |
| `HostControlSessionProofs!TypeCorrect` | types, among them the bound of the input queue and the kinds of event |
| `HostControlSessionProofs!OutputAllSent` | `OutputComplete`: what a command produced has been sent when its result is |
| `HostControlSessionProofs!LastFlushEmpty` | `NothingLeftToFlush`: the last flush of a session, made when no write has failed, never has output for a client that is there |
| `HostControlSessionProofs!SessionImplementsProtocol` | `Spec => Protocol!Spec`: the two threads keep to the protocol |
| `McpSessionProofs!TypeCorrect` | types, and one process per launch |
| `McpSessionProofs!OutputInOrder` | `OutputOnceInOrder`: polls return each output event once and in order, errors or not |
| `McpSessionProofs!OneAtATime`, `DoneForLastExec`, `DoneStaysFinal` | one command at a time; `done` is about the last one and final; while no error event has been recorded |
| `OutputCaptureProofs!TypeCorrect` | types, and the buffer below its limit between steps |
| `OutputCaptureProofs!CaptureIsExact`, `ResultComesLast` | exactness and order of output |
| `OutputCaptureProofs!OutputIsAttributed` | attribution |
| `OutputCaptureProofs!OutputIsPrompt` | no byte is held past the limit |
| `WorkflowClientProofs!TypeCorrect` | types, and completions under their own id |
| `WorkflowClientProofs!EveryRequestSucceeded` | a workflow succeeds only if all its requests did |
| `InterruptControllerProofs!RegistersConsistent` | types, and `active_irq` is the highest line in service |
| `InterruptControllerProofs!WakeupNotLost` | `NoLostWakeup`, if no line of the master has the CS = DS hack |
| `InterruptControllerProofs!SlaveHeard` | `SlaveIsHeard`, if the hacked lines of the slave are its least urgent |
| `InterruptControllerProofs!RequestsKept` | `NoRequestLost`, if the slave has no device on the number of the cascade line |
| `EventQueueProofs!TypeCorrect` | types, and no more entries in use than the queue has |
| `EventQueueProofs!QueueStaysOrdered` | the order of the queue |
| `EventQueueProofs!NeverServedLate` | punctuality |
| `DosMemoryProofs!ArenaInvariant` | the inductive invariant of the arena |
| `DosMemoryProofs!TypeCorrect` | the blocks cover the memory, and each chain goes as far as it should |
| `DosMemoryProofs!BlocksStand`, `MemoryReturned` | no block a program holds is lost, none stays behind when it ends |
| `DosMemoryProofs!RefusedWhenFull` | an allocation is refused only where there is no room |
| `DosMemoryProofs!ExecFinds` | `DOS_Execute` gets the memory it has asked about |

None of the conditions can be dropped: each excludes a behaviour listed in section 4 (5 for
`~DosV`, 9 for the error event, the hacked lines, finding 1).

*Input queue.* `OrderInv` adds `Bookkeeping` to the properties: what is queued was
acknowledged, cleared codes lie below the head of the queue, and `over_key_buffer` is
empty. Order of delivery alone is not inductive: `DrainPop` needs to know that the head it
removes is the one it peeked at, and `AddStored` that nothing at or above `Frontier` has
been delivered or cleared. `DropInv` adds `NoSilentDrop`. For the refinement, `Backlog`
leaves out the head while the drain is between the BIOS call and the pop; each action maps
to `Accept`, `Give`, `Discard` or a stutter.

*Duplex session.* That a request is answered in its turn is a fact about the whole session:
`NothingLost` says where every request is that has no answer -- in work, in the queue, in the
hand of the reader thread, not yet read, or beyond answering because the session is over or a
write has failed. `QueueInv` puts these places in the order sent; `ReaderInv` and `MainInv` say what each
thread holds at each point, that output is sent only for the exec in work, that `disconnected`
is set only when the client has left or the session has stopped, that a failed write has been
noted there as well (`FailureNoted`), and that output is left at the end only after a failed
write or when the client is gone, which it then stays (`PeerGoneStays`). Their conjunction `SessionInv` is
inductive with `TypeOK`; `ClientStep`, `ReaderStep` and `MainStep` take the three parties in
turn, and `MainQuiet` and `ReaderQuiet` deal with the many steps that take up and answer
nothing. A process that was killed is excepted: it does nothing more. `ProtocolStep` then maps a
successful write to `Answer` or `Output`, and everything else but `Send` to a stutter.
For `OutputComplete` the invariant `OutputInv` adds that output sent is that of an answered request or of
the one in work (`OutputOwned`), and that for the latter what was sent and what is buffered
make up what it produced, up to the result that says so (`Accounted`); a failed write ends the account,
after which no result is sent either.

*MCP session.* The command on its way is in one of five places: asked for in the pipe, queued
in DOSBox-X, running, answered in the pipe back (so that it can be decoded or not), or in the hands of the reader
thread; an answer that ends the reader thread is in none of them.
`CommandInv` says that while no error event has been recorded there is one in one place (`Single`),
none while a new one may start or the result is recorded (`Quiet`), that it is the last one started
(`Latest`), that its output comes before its result (`OutputsFirst`), and that after a `done` was
reported nothing is left to read (`Drained`). Three theorems follow from it; none of the
properties is inductive, since a result in the pipe could belong to anything.
`OutputOnceInOrder` needs no condition: its invariant, also called `OutputInv`, keeps it from the launch on,
while `start_session` is still running, and says that nothing is under way before the connection stands.

*Output capture.* `CapturedIsShown` is not inductive: an action inside a write must know
that the flag is up, and an action outside that it is down. `Nesting` says that in a clean
request writes are not nested and the flag is up exactly during one; `AtRest` that between
requests nothing is buffered or under way; `Accounting` collects them with both properties.
`Ages` says that `captured_at` has one entry per buffered byte, none before
`first_byte_ms` and none in the future, and that after the loop has come round the oldest is
under the limit; `Attribution` ties the buffer's id to the active request. `Invariance`
proves their conjunction with `TypeOK`.

*Workflow client.* That success is real says nothing before the end. `Accounted` says
what holds on the way: a request has succeeded, or is awaited, or belongs to a call
that is still on the stack. At the end there is one call, of no request, and nothing is awaited
(`StackInv`), so only the first is left. A success must also last, although
`completed_requests` is overwritten by every completion read: `AnsweredOnce` says that a request
has one completion at the most, remembered, on its way, or still to come from the server's queue.
`ResumeFacts` is the lemma about returning to callers, for stacks of any depth.

*Interrupt controllers.* The inductive invariant `TInv` adds two facts to the types: special
mask mode is on only where the guest switches it, and only devices raise lines of the slave.
Without the first, `active_irq` could not be the highest line in service after `start_irq`;
without the second, the argument for the slave could meet a hacked line with no device. The
wake-up, the slave and the requests are each inductive relative to `TInv`. The actions of
devices and guest are not taken one by one for each property: `Step` says what every one of
them does to the board (nothing new deliverable on the master without a check; the slave
still heard; registers still in agreement), it composes, and `BoardSteps` shows that each action is one, from lemmas
about raising, lowering and checking a line. `RunStep` does the same for `PIC_runIRQs`,
through `start_irq`, `slave_startIRQ` and the check after an automatic EOI.

*Event queue.* `Ordered` adds to the order of the queue that `calls` names the handlers in it,
each once: without it an entry taken out could leave its name behind, and the next entry of that
handler would count as older than it is. Inserting, removing and setting back all times are shown to keep it,
for sequences of any length. That an event is served in time is no invariant of one place in
the loop but a bound that grows through it. `Timely` says that the end of a fresh slice is less than
a cycle past any event in the queue; that an overdrawn clock is at most the cost of the I/O
instruction further; that the core's last test costs a cycle more, which is the bound when
`PIC_RunQueue` begins to serve; and that a handler, which adds events relative to its own time,
cannot add one that is later than its own event is. `PreemptFacts` is the reason the first bound survives an event added inside a slice, and
`SliceFacts` the reason it holds of a new one.

*Memory arena.* The invariant `ArenaInv` says that every header is well formed and its block ends
at the next header or at the end of the memory (`Arena`), that the last blocks are those at the end and,
while the upper memory is not linked, the one below it (`Ends`), that what was given out
stands under its owner's name (`Standing`), that the running programs are different and own their PSP
blocks (`Running`), and that other owners are DOS or resident (`Returned`). None of the
properties is inductive without the first two: `Link` puts `Z` into the right header only because
blocks end where others begin, and a block given out is nobody's only because it was
free. `TypeOK` describes the chains as walked; that the walk meets exactly the headers that
`Arena` and `Ends` speak of is `ChainIsOnward`, by induction on the distance to the end of the memory.
Each operation is then a function of arenas: `SplitFacts`, `JoinFacts`, `CompressFacts`, `LinkFacts`, `FreedFacts`,
`AllocateFacts` and `ResizeFacts` say that it makes an arena of an arena, which blocks it keeps
(`Keeps`) and whose blocks there are afterwards (`OwnersFrom`), and these compose. `RefusedWhenFull` and
`ExecFinds` need more of `DOS_CompressMemory`: behind a free block of the chain lies none that is free
(`Combined`), so a gap is one block (`BehindSmall`), and compressing again changes nothing
(`CompressAgain`), so that the allocation searches the very blocks whose sizes were looked up.
The segments and sizes of an arena never exceed `LastSeg`, so the 16 bits the code has for
them are enough whenever the memory's own size fits.

*Only model-checked:* liveness, which rests on fairness and is out of the prover's reach
(`EventuallyLeaves`, `EveryRequestAnswered`, `CloseEndsSession`, `CancelStopsBatch`,
`ShellExitEndsSession`, `BusyEnds`, `UrgentServed`, `EventuallyServed`, `AwaitEnds`). Every other property of
the passing runs is stated by a theorem, some under the conditions named in the table.
Two definitions are recursive functions, the sum over events and the walk of a chain; the prover
has no induction over them, and the lemmas about them (`UnitsAppend`, `WalkIsOnward`) take the least
counterexample instead.

## 6. Abstractions

* A request, an event and a character are numbers or small records; JSON, base64, code
  pages and the wording of errors are left out. A malformed request is a kind of request.
* A line is read and written in one step: byte framing, partial lines at end of file and
  the 1 MiB limit of the Windows pipe are not modelled.
* Atomics are sequentially consistent, as `std::atomic` with default ordering is. `ctrlbrk`
  is a plain `bool` shared by two threads; it is treated as an atomic one, both orders of
  a concurrent store and load being explored.
* Errorlevels, drives and directories in results are left out.
* MCP tools are called one at a time; a result that cannot be decoded is one kind of event,
  and other events are well formed (their text is ASCII).
* The exception of BOOT ends the process (`CommandThrows`), as `std::terminate` does.
* `PIC_IRQCheckDelayed` comes some time after `activate`, not a fixed delay; the two modules of
  `pic.cpp` are not composed.
* Each handler with its value is queued at most once, as nearly all callers see to; handlers
  ask for a delay above zero (one that re-adds itself without a delay would keep
  `PIC_RunQueue` from returning). A change of `CPU_CycleMax` between two milliseconds is left out.
* The memory arena has upper memory and no PCjr layout, the code pages whose drivers are
  refused memory are left out, so is an environment that `MakeEnv` gives up after it was allocated
  (`dos_execute.cpp:233-236`), programs do not free their own PSP block, and a freed block is resized only while
  its header is on the chain. XMS release and reallocation of upper memory blocks are left out.

## 7. Not modelled, and the order in which it would come

The emulated machine itself -- instruction semantics, sound, video, disks, file systems,
networking, the vendored libraries, user interface -- is by far the largest part of the source and is
data transformation or host I/O without the interleavings a model checker is for; each
device would be a project of its own. Of the rest:

1. `ServerEndpoints`: open and close of socket, FIFOs and Windows pipe with a failure after
   each step, restart over a stale path; the FIFO reader's stop flag.
2. `StdioSession`: the single-threaded loop as another implementation of
   `HostControlProtocol`, with input and cancel answered in turn.
3. `LineFraming`: `append_line_bytes` and `read_fd_line` over small alphabets against a
   reference split, including chunks, limits and end of file.
4. `RequestParse`: the hand-written JSON scanner over bounded inputs.
5. Parallel MCP tools in `McpSession`.
6. Compositions: session and input queue (which request an input was meant for), session
   and output capture (output units as captured characters), event queue and interrupt
   controllers (the delay of the check).
