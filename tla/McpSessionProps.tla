-------------------------- MODULE McpSessionProps ---------------------------
(***************************************************************************)
(* What an agent may rely on when it drives DOSBox-X with the MCP tools.   *)
(***************************************************************************)
EXTENDS McpSession

Outputs == {i \in DOMAIN fromServer : fromServer[i].kind = "output"}

\* The output that has left the pipe, in the order in which it left.
Read ==
    LET unread == IF reader = "record" /\ inHand.kind = "output"
                  THEN <<inHand.chunk>> ELSE <<>>
    IN  returned \o output_buffer \o unread

\* Output goes to the agent exactly once and in order: what the polls have
\* returned, the buffer, the reader thread and the pipe hold together all
\* output events, while poll, the reader and the server race
\* (session_state.py:39-72).
OutputOnceInOrder ==
    session = "active" =>
        /\ \A i \in 1 .. Len(Read) : Read[i] = i
        /\ Len(Read) <= chunks
        /\ {fromServer[i].chunk : i \in Outputs} = Len(Read) + 1 .. chunks
        /\ \A i, j \in Outputs :
              i < j => fromServer[i].chunk < fromServer[j].chunk

\* The exec requests that DOSBox-X has not answered.
Unanswered ==
    {toServer[i][1] : i \in {j \in DOMAIN toServer : toServer[j][2] = "exec"}}
        \cup {backlog[i] : i \in DOMAIN backlog}
        \cup ({running} \ {0})

\* A command is not started before the previous one has ended, as long as
\* the server has reported no error (session.py:237-241).
OneCommandAtATime ==
    ~errorSeen => \A i, j \in Unanswered : i = j

\* "done" belongs to the command started last, and that command is over, as
\* long as the server has reported no error (session_state.py:33-37, 52-56).
DoneIsForLastExec ==
    ~errorSeen /\ last_result # NoEvent =>
        /\ last_result.id = execId
        /\ Unanswered = {}

\* Not true of the code, and checked by no run (see the README): an error event
\* counts as the result of the command that runs.
\* mcp-server/dosbox_mcp/server.py:64-66: "Once done is true, later polls
\* return done:true with no new output until the next exec()."
NoOutputAfterDone ==
    [][doneReported /\ doneReported' => returned' = returned]_vars

\* The same as long as the server has reported no error.
DoneIsFinal ==
    [][doneReported /\ doneReported' /\ ~errorSeen => returned' = returned]_vars

\* A busy session does not stay busy, unless DOSBox-X has gone or a line that
\* is not UTF-8 has ended the reader thread (session.py:193-202,
\* session_state.py:52-56).
BusyEnds == phase = "busy" ~> phase # "busy" \/ child # "up" \/ reader = "dead"

\* Not true of the code, and checked by no run (see the README): a result that
\* is not UTF-8 ends the reader thread, and the session stays busy.
\* docs/superpowers/specs/2026-08-16-dosbox-mcp-server-design.md:62: "`poll`
\* transitions `busy` -> `ready` once the in-flight request completes."
CompletionEndsBusy ==
    phase = "busy" /\ call = "idle" /\ Unanswered = {}
        ~> phase # "busy" \/ child # "up"

\* Not true of the code, and checked by no run (see the README): a failed
\* start_session leaves its process behind.
\* docs/superpowers/specs/2026-08-16-dosbox-mcp-server-design.md:31: "One MCP
\* server process manages at most one DOSBox-X child process."
AtMostOneProcess == orphans + (IF child = "up" THEN 1 ELSE 0) <= 1
=============================================================================
