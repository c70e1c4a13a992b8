------------------------------ MODULE LspProcess ------------------------------
(***************************************************************************)
(* A language server as a child process: its three pipes, the two threads  *)
(* that read its output, and the editor's one thread, which writes to it,  *)
(* polls it, and stops it.  deco-lsp/src/process.rs, with the callers in   *)
(* supervisor.rs.                                                          *)
(*                                                                         *)
(* A pipe holds a bounded number of messages or lines; writing to a full   *)
(* one blocks.  `pc' is what the editor's thread is doing: it leaves       *)
(* "idle" for a call and comes back when the call returns.  A deadline may *)
(* pass at any moment of a bounded wait.                                   *)
(*                                                                         *)
(* A process the server started inherits its pipes and may hold them open  *)
(* for as long as it likes after the server has exited.                    *)
(*                                                                         *)
(* LspAnswers is the other end of a session; where the two would have a    *)
(* name in common, the one here is the process's.                          *)
(***************************************************************************)
EXTENDS Integers, Sequences

CONSTANTS Inherited,   \* pipes that a process the server starts keeps open
          MaxPipe,     \* messages or lines a pipe holds
          MaxWrites,   \* bound on the notifications of the editor
          MaxOutput    \* bound on what the server writes

ASSUME ProcessAssumption ==
  /\ Inherited \subseteq {"out", "err"}
  /\ MaxPipe \in Nat \ {0} /\ MaxWrites \in Nat /\ MaxOutput \in Nat

VARIABLES
  pc,                \* what the editor's thread is doing
  writes,            \* notifications it has sent
  child,             \* what the server is doing
  stdin, stdinOpen,  \* its input
  out, err,          \* its output: messages, and a number of lines
  output,            \* how much it has written
  wrote,             \* lines it has written to stderr
  holds,             \* pipes another process holds open
  outPump, errPump,  \* the reading threads
  inbox,             \* ServerProcess::incoming
  logged,            \* ErrorLog::total
  tail               \* what stderr_after_exit returned with

pipes == <<stdin, stdinOpen, out, err>>
childVars == <<child, output, wrote, holds>>
pumpVars == <<outPump, errPump, inbox, logged>>
processVars == <<pc, writes, pipes, childVars, pumpVars, tail>>

Calls == {"write", "poll", "answer", "drain exit", "drain pump", "drop",
          "shutdown", "exit", "wait", "join out", "join err"}

ProcessInit ==
  /\ pc = "idle" /\ writes = 0
  /\ child = "reading" /\ stdin = <<>> /\ stdinOpen = TRUE
  /\ out = <<>> /\ err = 0 /\ output = 0 /\ wrote = 0 /\ holds = {}
  /\ outPump = "running" /\ errPump = "running" /\ inbox = <<>> /\ logged = 0
  /\ tail = "unread"

Exited == child = "exited"

(***************************************************************************)
(* Faults: variants of the operators below that a plausible mistake would  *)
(* give.  No specification uses them; they show what the properties catch. *)
(***************************************************************************)
\* One thread reads both: stderr when stdout has ended.
PumpErrLineAfterOut ==
  /\ errPump = "running" /\ err > 0 /\ outPump = "done"
  /\ err' = err - 1 /\ logged' = logged + 1
  /\ UNCHANGED <<pc, writes, stdin, stdinOpen, out, childVars, outPump, errPump,
                 inbox, tail>>

\* The log is read as soon as the server has exited.
DrainedUnpumped ==
  /\ pc = "drain pump" /\ pc' = "drop" /\ tail' = "complete"
  /\ UNCHANGED <<writes, pipes, childVars, pumpVars>>

\* Dropping the process leaves its threads behind.
DropUnjoined ==
  /\ pc = "drop"
  /\ IF Exited THEN pc' = "gone" ELSE pc' = "wait"
  /\ stdinOpen' = (Exited /\ stdinOpen)
  /\ UNCHANGED <<writes, stdin, out, err, childVars, pumpVars, tail>>

(***************************************************************************)
(* The editor's thread.                                                    *)
(***************************************************************************)
\* ServerProcess::send blocks while the pipe is full and fails once the server
\* has exited.
Send(message) ==
  \/ ~Exited /\ Len(stdin) < MaxPipe /\ stdin' = Append(stdin, message)
  \/ Exited /\ stdin' = stdin

Goto(next) ==
  /\ pc' = next
  /\ UNCHANGED <<writes, pipes, childVars, pumpVars, tail>>

Call ==
  /\ pc = "idle"
  /\ \/ writes < MaxWrites /\ pc' = "write" /\ writes' = writes + 1
     \/ pc' \in {"poll", "shutdown"} /\ writes' = writes
  /\ UNCHANGED <<pipes, childVars, pumpVars, tail>>

Write ==
  /\ pc = "write" /\ Send("message") /\ pc' = "idle"
  /\ UNCHANGED <<writes, stdinOpen, out, err, childVars, pumpVars, tail>>

\* Supervisor::poll takes what has arrived.  A request is answered at once; the
\* end of the output, or output that cannot be read, stops the server.
PollEvent ==
  /\ pc = "poll" /\ inbox # <<>>
  /\ inbox' = Tail(inbox)
  /\ pc' = CASE Head(inbox) = "frame"   -> "poll"
             [] Head(inbox) = "request" -> "answer"
             [] OTHER                   -> "drain exit"
  /\ UNCHANGED <<writes, pipes, childVars, outPump, errPump, logged, tail>>

\* Nothing is left: the exit status is looked at too.
PollEnd ==
  /\ pc = "poll" /\ inbox = <<>>
  /\ Goto(IF Exited THEN "drain exit" ELSE "idle")

AnswerServer ==
  /\ pc = "answer" /\ Send("message")
  /\ pc' = IF Exited THEN "drain exit" ELSE "poll"
  /\ UNCHANGED <<writes, stdinOpen, out, err, childVars, pumpVars, tail>>

\* stderr_after_exit: wait for the exit, then for the pump, up to a deadline.
DrainExit ==
  /\ pc = "drain exit" /\ Exited
  /\ Goto("drain pump")

Drained ==
  /\ pc = "drain pump" /\ errPump = "done"
  /\ pc' = "drop" /\ tail' = "complete"
  /\ UNCHANGED <<writes, pipes, childVars, pumpVars>>

DrainTimeout ==
  /\ pc \in {"drain exit", "drain pump"}
  /\ pc' = "drop" /\ tail' = "partial"
  /\ UNCHANGED <<writes, pipes, childVars, pumpVars>>

\* Drop: a server that still runs is stopped, and one that does not is joined.
Drop ==
  /\ pc = "drop"
  /\ IF Exited THEN pc' = "join out" /\ UNCHANGED stdinOpen
               ELSE pc' = "wait" /\ stdinOpen' = FALSE
  /\ UNCHANGED <<writes, stdin, out, err, childVars, pumpVars, tail>>

\* Supervisor::stop: shutdown and exit are written, then stdin is closed.
BeginStop ==
  /\ pc = "shutdown" /\ Send("message") /\ pc' = "exit"
  /\ UNCHANGED <<writes, stdinOpen, out, err, childVars, pumpVars, tail>>

EndStop ==
  /\ pc = "exit" /\ Send("exit") /\ pc' = "wait"
  /\ stdinOpen' = FALSE
  /\ UNCHANGED <<writes, out, err, childVars, pumpVars, tail>>

\* ServerProcess::stop: wait for the exit, or kill at the deadline.
WaitExit ==
  /\ pc = "wait" /\ Exited
  /\ Goto("join out")

WaitKill ==
  /\ pc = "wait" /\ pc' = "join out"
  /\ child' = "exited"
  /\ UNCHANGED <<writes, pipes, output, wrote, holds, pumpVars, tail>>

JoinOut == pc = "join out" /\ outPump = "done" /\ Goto("join err")
JoinErr == pc = "join err" /\ errPump = "done" /\ Goto("gone")

EditorStep ==
  \/ Write \/ PollEvent \/ PollEnd \/ AnswerServer
  \/ DrainExit \/ Drained \/ DrainTimeout \/ Drop
  \/ BeginStop \/ EndStop \/ WaitExit \/ WaitKill \/ JoinOut \/ JoinErr

(***************************************************************************)
(* The reading threads.                                                    *)
(***************************************************************************)
PipeClosed(pipe) == Exited /\ pipe \notin holds

\* pump_messages: what cannot be read ends the thread.
PumpMessage ==
  /\ outPump = "running" /\ out # <<>>
  /\ IF Head(out) = "bad"
       THEN outPump' = "done" /\ inbox' = Append(inbox, "failed") /\ out' = <<>>
       ELSE /\ inbox' = Append(inbox, Head(out)) /\ out' = Tail(out)
            /\ UNCHANGED outPump
  /\ UNCHANGED <<pc, writes, stdin, stdinOpen, err, childVars, errPump, logged, tail>>

PumpClosed ==
  /\ outPump = "running" /\ out = <<>> /\ PipeClosed("out")
  /\ outPump' = "done" /\ inbox' = Append(inbox, "closed")
  /\ UNCHANGED <<pc, writes, pipes, childVars, errPump, logged, tail>>

PumpErrLine ==
  /\ errPump = "running" /\ err > 0
  /\ err' = err - 1 /\ logged' = logged + 1
  /\ UNCHANGED <<pc, writes, stdin, stdinOpen, out, childVars, outPump, errPump,
                 inbox, tail>>

PumpErrClosed ==
  /\ errPump = "running" /\ err = 0 /\ PipeClosed("err")
  /\ errPump' = "done"
  /\ UNCHANGED <<pc, writes, pipes, childVars, outPump, inbox, logged, tail>>

Pumps == PumpMessage \/ PumpClosed \/ PumpErrLine \/ PumpErrClosed

(***************************************************************************)
(* The server: it reads a message, may write before it reads another, and  *)
(* blocks on whatever pipe is full.                                        *)
(***************************************************************************)
editorVars == <<pc, writes, tail>>

MayWrite == IF output < MaxOutput THEN {"writing", "logging"} ELSE {}

ServerReads ==
  /\ child = "reading" /\ stdin # <<>>
  /\ stdin' = Tail(stdin)
  /\ child' \in IF Head(stdin) = "exit" THEN {"exited"}
                ELSE {"reading"} \cup MayWrite
  /\ UNCHANGED <<editorVars, stdinOpen, out, err, output, wrote, holds, pumpVars>>

\* Unasked: a notification, a request of its own, a line of a log.
ServerSpeaks ==
  /\ child = "reading" /\ child' \in MayWrite
  /\ UNCHANGED <<editorVars, pipes, output, wrote, holds, pumpVars>>

\* Nobody reads what is written after the thread has ended.
ServerWrites ==
  /\ child = "writing" /\ child' = "reading" /\ output' = output + 1
  /\ \/ /\ outPump = "running" /\ Len(out) < MaxPipe
        /\ \E frame \in {"frame", "request", "bad"} : out' = Append(out, frame)
     \/ outPump = "done" /\ out' = out
  /\ UNCHANGED <<editorVars, stdin, stdinOpen, err, wrote, holds, pumpVars>>

ServerLogs ==
  /\ child = "logging" /\ child' = "reading" /\ output' = output + 1
  /\ err < MaxPipe /\ err' = err + 1 /\ wrote' = wrote + 1
  /\ UNCHANGED <<editorVars, stdin, stdinOpen, out, holds, pumpVars>>

ServerExits ==
  /\ ~Exited /\ child' = "exited"
  /\ UNCHANGED <<editorVars, pipes, output, wrote, holds, pumpVars>>

\* A process of the server's own inherits its pipes; it ends when it likes.
ServerStartsProcess ==
  /\ ~Exited /\ Inherited # {} /\ holds' = Inherited
  /\ UNCHANGED <<editorVars, pipes, child, output, wrote, pumpVars>>

ProcessEnds ==
  /\ holds # {} /\ holds' = {}
  /\ UNCHANGED <<editorVars, pipes, child, output, wrote, pumpVars>>

ServerStep ==
  \/ ServerReads \/ ServerSpeaks \/ ServerWrites \/ ServerLogs
  \/ ServerExits \/ ServerStartsProcess \/ ProcessEnds

ProcessNext == Call \/ EditorStep \/ Pumps \/ ServerStep

\* The operating system runs the editor's thread and the two pumps.
Fairness ==
  /\ WF_processVars(EditorStep)
  /\ WF_processVars(PumpMessage \/ PumpClosed)
  /\ WF_processVars(PumpErrLine \/ PumpErrClosed)

\* A server that works keeps reading, and finishes what it writes.
ServerWorks ==
  WF_processVars(ServerReads) /\ WF_processVars(ServerWrites) /\ WF_processVars(ServerLogs)

ProcessSpec == ProcessInit /\ [][ProcessNext]_processVars /\ Fairness
WorkingSpec == ProcessSpec /\ ServerWorks

(***************************************************************************)
(* Properties.                                                             *)
(***************************************************************************)
ProcessTypeOK ==
  /\ pc \in Calls \cup {"idle", "gone"} /\ writes \in 0..MaxWrites
  /\ child \in {"reading", "writing", "logging", "exited"}
  /\ stdin \in Seq({"message", "exit"}) /\ Len(stdin) <= MaxPipe
  /\ stdinOpen \in BOOLEAN
  /\ out \in Seq({"frame", "request", "bad"}) /\ Len(out) <= MaxPipe
  /\ err \in 0..MaxPipe /\ output \in 0..MaxOutput /\ wrote \in 0..MaxOutput
  /\ holds \in {{}, Inherited}
  /\ outPump \in {"running", "done"} /\ errPump \in {"running", "done"}
  /\ inbox \in Seq({"frame", "request", "closed", "failed"})
  /\ logged \in 0..MaxOutput
  /\ tail \in {"unread", "partial", "complete"}

\* A stopped server leaves nothing behind, whichever way it stopped: no
\* process, no thread, and no message that could still arrive.
NothingLeftBehind ==
  /\ ProcessTypeOK
  /\ pc = "gone" => Exited /\ outPump = "done" /\ errPump = "done"

\* The two waits of stderr_after_exit: when no deadline cut them short, every
\* line the server wrote is in the log, although another thread reads it.
TailIsComplete == tail = "complete" => logged = wrote

\* Two threads drain the pipes, so while the server works no call of the editor
\* blocks for ever on a server that is blocked on the editor: only a process the
\* server left behind with its pipes can hold up a call.
CallsReturn == (pc \in Calls) ~> (pc \in {"idle", "gone"} \/ holds # {})

=============================================================================
