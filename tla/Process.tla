------------------------------ MODULE Process ------------------------------
(***************************************************************************)
(* The supervisor of an external program (internal/process) and its client *)
(* (plugins/processors/execd, plugins/outputs/execd).  Four goroutines     *)
(* meet: the client, which writes metrics to the program and stops it;     *)
(* cmdLoop, which waits for it and starts it again; the goroutine of       *)
(* cmdWait that ends it when Stop was called; and the reader of its        *)
(* output.  The program may exit at any time, never read, ignore the end   *)
(* of its input and ignore SIGTERM.                                        *)
(*                                                                         *)
(* Commands are numbered; p.Cmd is the last.  p.Stdin is read and written  *)
(* by client and cmdLoop without a lock.                                   *)
(***************************************************************************)
EXTENDS Integers

CONSTANTS
  MaxCmds,  \* bound: number of commands
  PipeCap   \* metrics that fit into a pipe

ASSUME ProcessAssumption == MaxCmds \in Nat \ {0} /\ PipeCap \in Nat \ {0}

VARIABLES
  client,     \* the goroutine of the plugin: calls of Add, then Stop
  target,     \* the command whose pipe a call of Add writes to
  cancelled,  \* Stop has cancelled the context
  panicked,   \* a call through a nil Stdin
  loop,       \* the goroutine of cmdLoop
  cmd,        \* p.Cmd
  stdin,      \* p.Stdin: the command it belongs to, 0 for nil
  closedIn,   \* commands whose standard input is closed
  pipe,       \* metrics in the input pipe of each command
  running,    \* commands that run
  stopper,    \* the goroutine of cmdWait in gracefulStop
  killed,     \* the command that was sent SIGKILL
  output      \* the goroutine of cmdWait that reads p.Stdout

clientVars == <<client, target, cancelled, panicked>>
childVars  == <<closedIn, pipe, running>>
waitVars   == <<stopper, killed, output>>

processVars == <<clientVars, loop, cmd, stdin, childVars, waitVars>>

Cmds == 1 .. MaxCmds

ProcessInit ==
  /\ client = "new" /\ target = 0 /\ cancelled = FALSE /\ panicked = FALSE
  /\ loop = "none" /\ cmd = 0 /\ stdin = 0
  /\ closedIn = {} /\ pipe = [c \in Cmds |-> 0] /\ running = {}
  /\ stopper = "none" /\ killed = 0 /\ output = "ended"
-----------------------------------------------------------------------------
\* cmdWait begins: the goroutines for the output and for the end.
WaitBegins ==
  /\ loop' = "wait"
  /\ stopper' = "watch" /\ output' = "reading"

\* Start: cmdStart, before there is another goroutine, and cmdLoop.
ProcessStart ==
  /\ client = "new"
  /\ \/ /\ client' = "up" /\ cmd' = 1 /\ stdin' = 1 /\ running' = {1}
        /\ WaitBegins
     \/ /\ client' = "failed"
        /\ UNCHANGED <<cmd, stdin, running, loop, stopper, output>>
  /\ UNCHANGED <<target, cancelled, panicked, closedIn, pipe, killed>>

\* Add: p.Stdin is loaded ...
ExecdAdd ==
  /\ client = "up"
  /\ IF stdin = 0
     THEN client' = "panic" /\ panicked' = TRUE /\ UNCHANGED target
     ELSE client' = "write" /\ target' = stdin /\ UNCHANGED panicked
  /\ UNCHANGED <<cancelled, loop, cmd, stdin, childVars, waitVars>>

\* The input pipe of c is closed at either end.  The end of a program that was never
\* started is open.
Broken(c) == c \in closedIn \/ (c = cmd /\ loop = "wait" /\ c \notin running)

\* ... and written to, which waits for room; it fails when the pipe is
\* broken.
ExecdWrite ==
  /\ client = "write"
  /\ \/ Broken(target) /\ UNCHANGED pipe
     \/ /\ ~Broken(target) /\ pipe[target] < PipeCap
        /\ pipe' = [pipe EXCEPT ![target] = @ + 1]
  /\ client' = "up"
  /\ UNCHANGED <<target, cancelled, panicked, loop, cmd, stdin, closedIn, running, waitVars>>

\* Stop: p.cancel() ...
ProcessStop ==
  /\ client = "up"
  /\ client' = "cancelled" /\ cancelled' = TRUE
  /\ UNCHANGED <<target, panicked, loop, cmd, stdin, childVars, waitVars>>

\* ... p.Stdin.Close() ...
CloseStdin ==
  /\ client = "cancelled"
  /\ IF stdin = 0
     THEN client' = "panic" /\ panicked' = TRUE /\ UNCHANGED closedIn
     ELSE client' = "waiting" /\ closedIn' = closedIn \cup {stdin} /\ UNCHANGED panicked
  /\ UNCHANGED <<target, cancelled, loop, cmd, stdin, pipe, running, waitVars>>

\* Mutant of StopDone: Stop does not wait for cmdLoop.
StopWithoutWait ==
  /\ client = "waiting"
  /\ client' = "stopped"
  /\ UNCHANGED <<target, cancelled, panicked, loop, cmd, stdin, childVars, waitVars>>

\* ... p.mainLoopWg.Wait().
StopDone ==
  /\ client = "waiting" /\ loop = "ended"
  /\ client' = "stopped"
  /\ UNCHANGED <<target, cancelled, panicked, loop, cmd, stdin, childVars, waitVars>>
-----------------------------------------------------------------------------
\* p.Cmd.Wait() returns: the program has ended, its pipes are closed on this side
\* too, and processCtx is cancelled.
CmdWait ==
  /\ loop = "wait" /\ cmd \notin running
  /\ closedIn' = closedIn \cup {cmd}
  /\ loop' = "reap"
  /\ UNCHANGED <<clientVars, cmd, stdin, pipe, running, waitVars>>

\* cmdWait returns; cmdLoop asks isQuitting.
Reap ==
  /\ loop = "reap" /\ stopper = "done" /\ output = "ended"
  /\ loop' = IF cancelled THEN "ended" ELSE "delay"
  /\ UNCHANGED <<clientVars, cmd, stdin, childVars, waitVars>>

\* The delay ends, or the context is done; select takes either if both are ready.
Delay ==
  /\ loop = "delay"
  /\ \/ cancelled /\ loop' = "ended"
     \/ cmd < MaxCmds /\ loop' = "start"
  /\ UNCHANGED <<clientVars, cmd, stdin, childVars, waitVars>>

\* cmdStart: p.Cmd and p.Stdin are replaced; StdinPipe may fail with a nil pipe, and
\* the other pipes after it ...
OpenPipes ==
  /\ loop = "start"
  /\ cmd' = cmd + 1
  /\ \/ stdin' = cmd + 1 /\ loop' \in {"launch", "ended"}
     \/ stdin' = 0 /\ loop' = "ended"
  /\ UNCHANGED <<clientVars, childVars, waitVars>>

\* ... the program is started, or cannot be, which closes the pipes.
Launch ==
  /\ loop = "launch"
  /\ \/ /\ running' = running \cup {cmd}
        /\ WaitBegins
        /\ UNCHANGED closedIn
     \/ /\ loop' = "ended"
        /\ closedIn' = closedIn \cup {cmd}
        /\ UNCHANGED <<running, stopper, output>>
  /\ UNCHANGED <<clientVars, cmd, stdin, pipe, killed>>

\* Mutant of GracefulStop: no SIGKILL after SIGTERM.
GracefulTerm ==
  /\ \/ stopper = "watch" /\ cancelled /\ stopper' = "term" /\ UNCHANGED killed
     \/ stopper = "term" /\ stopper' = "kill" /\ UNCHANGED killed
     \/ stopper = "kill" /\ stopper' = "done" /\ UNCHANGED killed
     \/ stopper \in {"watch", "term", "kill"} /\ loop = "reap" /\ stopper' = "done" /\ UNCHANGED killed
  /\ UNCHANGED <<clientVars, loop, cmd, stdin, childVars, output>>

\* The third goroutine of cmdWait: after cancel, SIGTERM after a timeout, and
\* SIGKILL after another, unless the program has ended (processCtx).
GracefulStop ==
  /\ \/ stopper = "watch" /\ cancelled /\ stopper' = "term" /\ UNCHANGED killed
     \/ stopper = "term" /\ stopper' = "kill" /\ UNCHANGED killed
     \/ stopper = "kill" /\ stopper' = "done" /\ killed' = cmd
     \/ stopper \in {"watch", "term", "kill"} /\ loop = "reap" /\ stopper' = "done" /\ UNCHANGED killed
  /\ UNCHANGED <<clientVars, loop, cmd, stdin, childVars, output>>

\* cmdReadOut ends: at the end of the output, when Wait has closed it, or for an
\* error (a line longer than its buffer).
ReadEnds ==
  /\ output = "reading"
  /\ output' = "ended"
  /\ UNCHANGED <<clientVars, loop, cmd, stdin, childVars, stopper, killed>>

\* The program reads a metric, or exits.
ProgramReads(c) ==
  /\ c \in running /\ pipe[c] > 0
  /\ pipe' = [pipe EXCEPT ![c] = @ - 1]
  /\ UNCHANGED <<clientVars, loop, cmd, stdin, closedIn, running, waitVars>>

ProgramExits(c) ==
  /\ c \in running
  /\ running' = running \ {c}
  /\ UNCHANGED <<clientVars, loop, cmd, stdin, closedIn, pipe, waitVars>>
-----------------------------------------------------------------------------
ProcessNext ==
  \/ ProcessStart \/ ExecdAdd \/ ExecdWrite \/ ProcessStop \/ CloseStdin \/ StopDone
  \/ CmdWait \/ Reap \/ Delay \/ OpenPipes \/ Launch
  \/ GracefulStop \/ ReadEnds
  \/ \E c \in Cmds : ProgramReads(c) \/ ProgramExits(c)

ProcessSpec == ProcessInit /\ [][ProcessNext]_processVars

\* Goroutines go on, timers fire and a program that was killed is gone.  Nothing is
\* assumed of Add, Stop, Start or a program that was not killed.
ProcessFairness ==
  /\ WF_processVars(CloseStdin) /\ WF_processVars(StopDone)
  /\ WF_processVars(CmdWait) /\ WF_processVars(Reap) /\ WF_processVars(Delay)
  /\ WF_processVars(OpenPipes) /\ WF_processVars(Launch)
  /\ WF_processVars(GracefulStop)
  /\ WF_processVars(loop = "reap" /\ ReadEnds)
  /\ WF_processVars(killed \in running /\ ProgramExits(killed))
-----------------------------------------------------------------------------
\* At no time do two programs run, and the one that runs is watched: a restart that
\* races Stop does not escape it.  When Stop has returned none runs and nothing
\* reads its output any more, so the accumulator is free of the plugin.
NoOrphan ==
  /\ \A c \in running : c = cmd /\ loop = "wait" /\ stopper # "none"
  /\ client = "stopped" => running = {} /\ output = "ended" /\ loop = "ended"

\* Stop returns, whatever the program does and wherever cmdLoop is, unless it
\* panics.
StopReturns == client = "cancelled" ~> (client = "stopped" \/ panicked)
=============================================================================
