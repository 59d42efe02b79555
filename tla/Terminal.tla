------------------------------ MODULE Terminal ------------------------------
(***************************************************************************)
(* One web terminal (server/internal/httpapi/terminal.go): the websocket of *)
(* a browser bridged to an attach of a tmux session.                        *)
(*                                                                         *)
(* The goroutines are the handler, the reader of the socket, the forwarder  *)
(* of the attach's outcome, and those the docker client runs for the attach *)
(* (external): one reads the pipe that is its stdin, one writes its output  *)
(* through the bridge, and a last one reports its end.  The client may      *)
(* report the end while its last output is still being written: this is     *)
(* what the write mutex wmu guards against.                                 *)
(***************************************************************************)
EXTENDS Naturals, Sequences

CONSTANTS
  MaxFrames,  \* bound: frames the browser sends
  MaxOutput   \* bound: pieces of output the session writes

ASSUME TerminalAssumption == MaxFrames \in Nat /\ MaxOutput \in Nat

VARIABLES
  browser,  \* the browser: "here" or "gone"
  inbox,    \* the frames it sent that the reader has not read
  typed,    \* how many frames it sent
  socket,   \* the server's end of the websocket: "open" or "closed"
  main,     \* where the handler is
  reader,   \* where the reader is: "none", "read", "write", "ended" (closed is closed)
  attach,   \* the exec of tmux: "none", "running", "ended"
  stdin,    \* the client's reader of the pipe: "none", "reading", "gone"
  output,   \* the client's writer: "idle", "locking", "writing"
  written,  \* pieces of output begun
  pipe,     \* inW: "open" or "closed"
  ctx,      \* "live" or "cancelled"
  done,     \* the channel done, of capacity 1: how many outcomes wait in it
  forward,  \* the goroutine that feeds done: "none", "waiting", "ended"
  wmu,      \* who holds wmu: "nobody", "main", "output"
  log,      \* the events appended: terminal.attach, terminal.detach
  fed       \* history: the inputs the session got

client == <<attach, stdin, output, written, fed>>
bridge == <<socket, main, reader, pipe, ctx, done, forward, wmu, log>>
vars   == <<browser, inbox, typed, client, bridge>>

\* A frame is an input, numbered, or a resize or junk, which feed nothing.
Other == 0
Frames == 0..MaxFrames

-----------------------------------------------------------------------------
(* The browser and the session.                                            *)

BrowserSends ==
  /\ browser = "here" /\ socket = "open" /\ main \notin {"preflight", "refused"}
  /\ typed < MaxFrames
  /\ typed' = typed + 1
  /\ \E frame \in {typed + 1, Other} : inbox' = Append(inbox, frame)
  /\ UNCHANGED <<browser, client, bridge>>

BrowserGoes ==
  /\ browser = "here" /\ browser' = "gone"
  /\ UNCHANGED <<inbox, typed, client, bridge>>

\* The command exits (the session ended, the container stopped, the user
\* detached) or its stream fails.
AttachEnds ==
  /\ attach = "running" /\ attach' = "ended"
  /\ UNCHANGED <<browser, inbox, typed, stdin, output, written, fed, bridge>>

\* The attach is dropped with its context, or its stdin is at its end.
AttachDropped == (ctx = "cancelled" \/ stdin = "gone") /\ AttachEnds

\* The client takes what the reader offers on the pipe.  After the end of the
\* exec it takes one more, for it cannot pass it on.
StdinTakes ==
  /\ reader = "write" /\ stdin = "reading" /\ pipe = "open"
  /\ reader' = "read"
  /\ inbox' = Tail(inbox)
  /\ \/ attach = "running" /\ fed' = Append(fed, Head(inbox)) /\ stdin' = stdin
     \/ attach = "ended" /\ stdin' = "gone" /\ fed' = fed
  /\ UNCHANGED <<browser, typed, attach, output, written,
                 socket, main, pipe, ctx, done, forward, wmu, log>>

StdinEnds ==
  /\ stdin = "reading" /\ pipe = "closed"
  /\ stdin' = "gone"
  /\ UNCHANGED <<browser, inbox, typed, attach, output, written, fed, bridge>>

-----------------------------------------------------------------------------
(* The output of the session: the writer out.                               *)

OutputComes ==
  /\ attach = "running" /\ output = "idle" /\ written < MaxOutput
  /\ output' = "locking" /\ written' = written + 1
  /\ UNCHANGED <<browser, inbox, typed, attach, stdin, fed, bridge>>

OutputLocks ==
  /\ output = "locking" /\ wmu = "nobody"
  /\ output' = "writing" /\ wmu' = "output"
  /\ UNCHANGED <<browser, inbox, typed, attach, stdin, written, fed,
                 socket, main, reader, pipe, ctx, done, forward, log>>

\* WriteMessage returns: a browser that is here reads, another write fails.
OutputWritten ==
  /\ output = "writing"
  /\ output' = "idle" /\ wmu' = "nobody"
  /\ UNCHANGED <<browser, inbox, typed, attach, stdin, written, fed,
                 socket, main, reader, pipe, ctx, done, forward, log>>

-----------------------------------------------------------------------------
(* The forwarder of the outcome and the reader of the socket.               *)

\* Slip: the outcome is offered to whoever waits for it, with no room to leave it.
ForwardUnbuffered ==
  /\ forward = "waiting" /\ attach = "ended" /\ main = "select"
  /\ forward' = "ended" /\ done' = 1
  /\ UNCHANGED <<browser, inbox, typed, client, socket, main, reader, pipe, ctx, wmu, log>>

\* The attach's outcome is put where there is room for it.
Forward ==
  /\ forward = "waiting" /\ attach = "ended"
  /\ forward' = "ended" /\ done' = 1
  /\ UNCHANGED <<browser, inbox, typed, client, socket, main, reader, pipe, ctx, wmu, log>>

\* Slip: a goroutine for each frame, and they are served in any order.
ReadAnyFrame ==
  /\ reader = "read"
  /\ \E i \in DOMAIN inbox :
       LET others == SubSeq(inbox, 1, i - 1) \o SubSeq(inbox, i + 1, Len(inbox))
       IN  IF inbox[i] = Other
             THEN inbox' = others /\ reader' = reader
             ELSE inbox' = <<inbox[i]>> \o others /\ reader' = "write"
  /\ UNCHANGED <<browser, typed, client, socket, main, pipe, ctx, done, forward, wmu, log>>

\* A frame is read, also one that had arrived before the socket was closed.
\* An input is offered on the pipe, anything else dealt with at once.  (The write
\* on the pipe fails only when the pipe is closed: see PipeOutlivesReader.)
ReadFrame ==
  /\ reader = "read" /\ inbox # <<>>
  /\ IF Head(inbox) = Other
       THEN inbox' = Tail(inbox) /\ reader' = reader
       ELSE inbox' = inbox /\ reader' = "write"
  /\ UNCHANGED <<browser, typed, client, socket, main, pipe, ctx, done, forward, wmu, log>>

\* ReadMessage fails once either end is closed, what was in flight being lost or not.
ReadFails ==
  /\ reader = "read" /\ (browser = "gone" \/ socket = "closed")
  /\ reader' = "ended"
  /\ UNCHANGED <<browser, inbox, typed, client, socket, main, pipe, ctx, done, forward, wmu, log>>

-----------------------------------------------------------------------------
(* The handler.                                                             *)

\* Slip: the event is appended before the upgrade, which may fail.
PreflightLogsFirst ==
  /\ main = "preflight"
  /\ main' \in {"refused", "attaching"}
  /\ log' = <<"terminal.attach">>
  /\ UNCHANGED <<browser, inbox, typed, client, socket, reader, pipe, ctx, done, forward, wmu>>

\* Every check, then the upgrade; a failed one is answered and ends the handler.
Preflight ==
  /\ main = "preflight"
  /\ \/ main' = "refused" /\ log' = log
     \/ main' = "attaching" /\ log' = <<"terminal.attach">>
  /\ UNCHANGED <<browser, inbox, typed, client, socket, reader, pipe, ctx, done, forward, wmu>>

\* The exec is made and the goroutines start, or the terminal ends with an error.
Attach ==
  /\ main = "attaching"
  /\ \/ /\ main' = "select" /\ reader' = "read" /\ forward' = "waiting"
        /\ attach' = "running" /\ stdin' = "reading"
     \/ main' = "failing" /\ UNCHANGED <<reader, forward, attach, stdin>>
  /\ UNCHANGED <<browser, inbox, typed, output, written, fed, socket, pipe, ctx, done, wmu, log>>

\* Slip: the end of the socket is noticed only together with the session's.
SelectClosedLate ==
  /\ main = "select" /\ reader = "ended" /\ done = 1
  /\ main' = "draining"
  /\ UNCHANGED <<browser, inbox, typed, client, socket, reader, pipe, ctx, done, forward, wmu, log>>

\* select: the reader ended.
SelectClosed ==
  /\ main = "select" /\ reader = "ended"
  /\ main' = "draining"
  /\ UNCHANGED <<browser, inbox, typed, client, socket, reader, pipe, ctx, done, forward, wmu, log>>

\* select: the attach ended.
SelectDone ==
  /\ main = "select" /\ done = 1
  /\ main' = "exiting" /\ done' = 0
  /\ UNCHANGED <<browser, inbox, typed, client, socket, reader, pipe, ctx, forward, wmu, log>>

\* Slip: the exit frame is written without the mutex.
ExitUnlocked ==
  /\ main \in {"exiting", "failing"}
  /\ main' = IF main = "exiting" THEN "exit frame" ELSE "last frame"
  /\ UNCHANGED <<browser, inbox, typed, client, socket, reader, pipe, ctx, done, forward, wmu, log>>

\* exitFrame takes the mutex.
ExitLocks ==
  /\ main \in {"exiting", "failing"} /\ wmu = "nobody"
  /\ wmu' = "main"
  /\ main' = IF main = "exiting" THEN "exit frame" ELSE "last frame"
  /\ UNCHANGED <<browser, inbox, typed, client, socket, reader, pipe, ctx, done, forward, log>>

\* The frame is written and, when the session had ended, the socket is closed.
ExitWritten ==
  /\ main \in {"exit frame", "last frame"}
  /\ wmu' = "nobody"
  /\ main' = "draining"
  /\ socket' = IF main = "exit frame" THEN "closed" ELSE socket
  /\ UNCHANGED <<browser, inbox, typed, client, reader, pipe, ctx, done, forward, log>>

\* What the deferred calls do: inW.Close, cancel, the event, conn.Close.
Deferred ==
  /\ pipe' = "closed" /\ ctx' = "cancelled" /\ socket' = "closed" /\ main' = "returned"
  /\ log' = Append(log, "terminal.detach")

\* Slip: the handler does not wait for the reader.
ReturnAtOnce ==
  /\ main = "draining"
  /\ Deferred
  /\ UNCHANGED <<browser, inbox, typed, client, reader, done, forward, wmu>>

\* The reader has ended, or was never started.
Return ==
  /\ main = "draining" /\ reader \in {"none", "ended"}
  /\ Deferred
  /\ UNCHANGED <<browser, inbox, typed, client, reader, done, forward, wmu>>

-----------------------------------------------------------------------------

Init ==
  /\ browser = "here" /\ inbox = <<>> /\ typed = 0
  /\ socket = "open" /\ main = "preflight" /\ reader = "none" /\ pipe = "open"
  /\ ctx = "live" /\ done = 0 /\ forward = "none" /\ wmu = "nobody"
  /\ attach = "none" /\ stdin = "none" /\ output = "idle" /\ written = 0
  /\ log = <<>> /\ fed = <<>>

Client  == StdinTakes \/ StdinEnds \/ AttachDropped \/ OutputLocks \/ OutputWritten
Reader  == ReadFrame \/ ReadFails
Handler == Preflight \/ Attach \/ SelectClosed \/ SelectDone \/ ExitLocks \/ ExitWritten \/ Return

Next == BrowserSends \/ BrowserGoes \/ AttachEnds \/ OutputComes \/ Client \/ Reader
        \/ Forward \/ Handler

Spec == Init /\ [][Next]_vars

\* Every goroutine that can go on does.  A stream that has ended reports so, and
\* a browser that is here reads what is written to it; that it stays, that it
\* goes, and that the session ends are not assumed.
FairSpec ==
  /\ Spec
  /\ WF_vars(Handler) /\ WF_vars(Reader) /\ WF_vars(Forward)
  /\ WF_vars(StdinTakes) /\ WF_vars(StdinEnds) /\ WF_vars(AttachDropped)
  /\ WF_vars(OutputWritten) /\ SF_vars(OutputLocks) /\ SF_vars(ExitLocks)

-----------------------------------------------------------------------------
(* Properties                                                               *)

\* The variables keep their types; the log has what has been done so far, no
\* attach that was refused and no detach before the handler returns.
TypeOK ==
  /\ browser \in {"here", "gone"} /\ inbox \in Seq(Frames) /\ typed \in Frames
  /\ socket \in {"open", "closed"} /\ pipe \in {"open", "closed"} /\ ctx \in {"live", "cancelled"}
  /\ main \in {"preflight", "refused", "attaching", "failing", "select", "exiting",
               "exit frame", "last frame", "draining", "returned"}
  /\ reader \in {"none", "read", "write", "ended"} /\ forward \in {"none", "waiting", "ended"}
  /\ attach \in {"none", "running", "ended"} /\ stdin \in {"none", "reading", "gone"}
  /\ output \in {"idle", "locking", "writing"} /\ written \in 0..MaxOutput
  /\ done \in 0..1 /\ wmu \in {"nobody", "main", "output"} /\ fed \in Seq(Frames)
  /\ log = CASE main \in {"preflight", "refused"} -> <<>>
             [] main = "returned" -> <<"terminal.attach", "terminal.detach">>
             [] OTHER -> <<"terminal.attach">>

\* The socket takes one writer at a time: no exit frame is written while output
\* still is (terminal.go: gorilla writes are not concurrent-safe).
OneWriter == ~(output = "writing" /\ main \in {"exit frame", "last frame"})

\* The pipe is closed only when the reader has ended: no input it read is refused
\* by its own handler.
PipeOutlivesReader == pipe = "closed" => reader \in {"none", "ended"}

\* The session gets the inputs in the order they were typed, none twice.
InputInOrder == \A i \in 1..(Len(fed) - 1) : fed[i] < fed[i + 1]

\* Once the browser is gone the handler returns, the session living on or not,
\* unless the attach ends by itself meanwhile.
BrowserGoneReturns ==
  browser = "gone" ~> main \in {"refused", "returned"} \/ attach = "ended"

\* A handler that returned leaves nothing behind: the attach is dropped, and every
\* goroutine ends.
NothingStays ==
  main = "returned" ~>
    /\ attach # "running" /\ forward # "waiting" /\ stdin # "reading"
    /\ reader \in {"none", "ended"} /\ output = "idle"

\* After the session ended the handler returns: terminal.go says that closing the
\* socket unblocks the reader.
SessionEndReturns == attach = "ended" ~> main = "returned"
=============================================================================
