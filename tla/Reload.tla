------------------------------- MODULE Reload -------------------------------
(***************************************************************************)
(* reloadLoop and runAgent (cmd/telegraf/telegraf.go): the loop around the *)
(* agent, the goroutine that waits for a signal and tells the loop through *)
(* a channel whether to go round again.                                    *)
(***************************************************************************)
EXTENDS Naturals

CONSTANT MaxReloads  \* bound: iterations after the first

ASSUME ReloadAssumption == MaxReloads \in Nat

VARIABLES
  once,       \* the agent returns by itself: --once, --test, or no inputs in the
              \* configuration, which --plugin-directory allows
  main,       \* the main goroutine
  reload,     \* the channel: "empty", "true" or "false"
  signals,    \* the channel of this iteration, with room for one signal
  watcher,    \* the goroutine of this iteration that waits for a signal
  ctxDone,    \* the context of this iteration is done
  taken,      \* the signal that the goroutine took
  reloads

loopVars == <<once, main, reload, signals, watcher, ctxDone, taken, reloads>>

LoopInit ==
  /\ once \in BOOLEAN
  /\ main = "config" /\ reload = "false"
  /\ signals = "none" /\ watcher = "select" /\ ctxDone = FALSE
  /\ taken = "none" /\ reloads = 0

\* A signal, or a change that watchLocalConfig reports as SIGHUP: it is dropped if
\* the channel is full.
Signal(s) ==
  /\ signals = "none" /\ signals' = s
  /\ UNCHANGED <<once, main, reload, watcher, ctxDone, taken, reloads>>

\* Mutant of TakeSignal: the context is cancelled before the channel is changed.
TakeSignalCancelling ==
  /\ watcher = "select" /\ signals # "none"
  /\ signals' = "none" /\ taken' = signals
  /\ watcher' = IF signals = "SIGHUP" THEN "receive" ELSE "done"
  /\ ctxDone' = TRUE
  /\ UNCHANGED <<once, main, reload, reloads>>

\* The goroutine takes a signal: SIGHUP replaces false by true in the channel ...
TakeSignal ==
  /\ watcher = "select" /\ signals # "none"
  /\ signals' = "none" /\ taken' = signals
  /\ watcher' = IF signals = "SIGHUP" THEN "receive" ELSE "cancel"
  /\ UNCHANGED <<once, main, reload, ctxDone, reloads>>

ReceiveFalse ==
  /\ watcher = "receive" /\ reload # "empty"
  /\ reload' = "empty" /\ watcher' = "send"
  /\ UNCHANGED <<once, main, signals, ctxDone, taken, reloads>>

SendTrue ==
  /\ watcher = "send" /\ reload = "empty"
  /\ reload' = "true" /\ watcher' = "cancel"
  /\ UNCHANGED <<once, main, signals, ctxDone, taken, reloads>>

\* The channel stop, which the Windows service closes.
TakeStop ==
  /\ watcher = "select"
  /\ taken' = "stop" /\ watcher' = "cancel"
  /\ UNCHANGED <<once, main, reload, signals, ctxDone, reloads>>

\* ... and the context is cancelled.
CancelAgent ==
  /\ watcher = "cancel"
  /\ watcher' = "done" /\ ctxDone' = TRUE
  /\ UNCHANGED <<once, main, reload, signals, taken, reloads>>

\* Agent.Run connects the outputs one after the other; one that refuses is tried
\* again in 15 seconds.
StartOutputs ==
  /\ main = "connect" /\ main' \in {"agent", "retry"}
  /\ UNCHANGED <<once, reload, signals, watcher, ctxDone, taken, reloads>>

\* The second attempt succeeds and the next output is connected, or it fails, or the
\* sleep before it ends with the context. That error is wrapped, so it is not the
\* context.Canceled that the loop lets pass: it is as fatal as any other, although
\* it may be SIGHUP that ended the context.
RetryConnect ==
  /\ main = "retry" /\ main' \in {"connect", "fatal"}
  /\ UNCHANGED <<once, reload, signals, watcher, ctxDone, taken, reloads>>

\* runAgent returns; an error other than that of the context is fatal.
AgentReturns ==
  /\ main = "agent"
  /\ \/ (ctxDone \/ once) /\ main' = "loop"
     \/ main' = "fatal"
  /\ UNCHANGED <<once, reload, signals, watcher, ctxDone, taken, reloads>>

\* for <-reload: the next iteration, with a new context and channel of signals.
Again ==
  /\ main = "loop" /\ reload = "true" /\ reloads < MaxReloads
  /\ main' = "config" /\ reload' = "false" /\ reloads' = reloads + 1
  /\ signals' = "none" /\ watcher' = "select" /\ ctxDone' = FALSE /\ taken' = "none"
  /\ once' \in BOOLEAN

LoopEnds ==
  /\ main = "loop" /\ reload = "false"
  /\ main' = "ended" /\ reload' = "empty"
  /\ UNCHANGED <<once, signals, watcher, ctxDone, taken, reloads>>

\* runAgent loads the configuration, sets up logging (see Logging) and runs the
\* agent; a configuration with an error is fatal. --test connects no outputs.
RunAgent ==
  /\ main = "config" /\ main' \in {"connect", "fatal"} \cup (IF once THEN {"agent"} ELSE {})
  /\ UNCHANGED <<once, reload, signals, watcher, ctxDone, taken, reloads>>

LoopNext ==
  \/ \E s \in {"SIGHUP", "SIGTERM"} : Signal(s)
  \/ TakeSignal \/ TakeStop \/ ReceiveFalse \/ SendTrue \/ CancelAgent
  \/ RunAgent \/ StartOutputs \/ RetryConnect \/ AgentReturns \/ Again \/ LoopEnds

LoopSpec == LoopInit /\ [][LoopNext]_loopVars
-----------------------------------------------------------------------------
\* Unless an error ends Telegraf (main = "fatal"; the context's own error is one
\* while the outputs connect), SIGHUP starts the agent again and a signal to stop
\* does not: what the loop is about to read from the channel is what the goroutine
\* was told, although channel and context are changed in separate steps.
EndsAsTold ==
  main = "loop" /\ ~once => (reload = "true" <=> taken = "SIGHUP")
=============================================================================
