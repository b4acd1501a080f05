------------------------------- MODULE Agent -------------------------------
(***************************************************************************)
(* The agent (agent/agent.go): Run, Once and Test start the plugins,       *)
(* connect them by channels, run them, and take them down in the order of  *)
(* the flow when the context is done.                                      *)
(*                                                                         *)
(* Channels are numbered in the order of the flow.  Channel c in 1 .. NP   *)
(* is the source of the c-th processor; then, if there are aggregators,    *)
(* come their source and the sources of the aggregator processors; the     *)
(* last one is the source of the outputs.  The processor that reads c      *)
(* writes c + 1.  Metrics are told apart only by where they are, so a      *)
(* channel is a number of metrics and whether it is closed.                *)
(*                                                                         *)
(* A plugin is what its interface allows: an input emits metrics from      *)
(* Gather and, between Start and the return of Stop, from goroutines of    *)
(* its own; a processor keeps metrics and passes them on until its Stop    *)
(* returns.  What an output does with a metric is the module RunningOutput.*)
(***************************************************************************)
EXTENDS Integers, FiniteSets

CONSTANTS
  Modes,       \* how the agent may be started: "run", "once" or "test"
  NI,          \* number of inputs
  Service,     \* the inputs that are ServiceInputs
  NP,          \* number of processors
  NAgg,        \* number of aggregators
  DropOriginal,\* the aggregators with drop_original
  NAP,         \* number of aggregator processors
  NOut,        \* number of outputs
  MayFail,     \* the phases of the start in which a plugin may fail
  Cap,         \* capacity of a channel (100 in the code)
  MaxHold,     \* bound: metrics a processor keeps
  MaxMetrics   \* bound: metrics emitted by inputs

ASSUME AgentAssumption ==
  /\ Modes \subseteq {"run", "once", "test"}
  /\ NI \in Nat /\ NP \in Nat /\ NAgg \in Nat /\ NAP \in Nat /\ NOut \in Nat
  /\ NAgg = 0 => NAP = 0
  /\ Service \subseteq 1 .. NI /\ DropOriginal \subseteq 1 .. NAgg
  /\ Cap \in Nat \ {0} /\ MaxHold \in Nat \ {0} /\ MaxMetrics \in Nat

Inputs      == 1 .. NI
Aggregators == 1 .. NAgg
Outputs     == 1 .. NOut

AggSrc   == NP + 1
Out      == IF NAgg = 0 THEN NP + 1 ELSE NP + NAP + 2
AggC     == NP + 2
Channels == 1 .. Out

Processors    == 1 .. NP
AggProcessors == IF NAgg = 0 THEN {} ELSE AggC .. Out - 1
AllProcessors == Processors \cup AggProcessors

VARIABLES
  mode,      \* "run", "once" or "test"
  run,       \* where Run is: the phases of the start, "running", "returned"
  todo,      \* the plugin that this phase starts, or stops, next
  err,       \* the phase that failed, "" if none
  ctxDone,   \* the context of Run is done
  out,       \* output -> "new", "retry", "connected", "closed"
  consumer,  \* the reader of the last channel: "off", "on", "done"
  proc,      \* processor -> "new", "started", "stopping", "done"
  hold,      \* processor -> metrics it keeps
  svc,       \* service input -> "new", "started", "failed", "stopping", "stopped"
  flight,    \* input -> metrics its own goroutines are sending
  loop,      \* input -> "none", "idle", "gathering", "done": its gather loop
  gath,      \* input -> metrics its Gather is sending
  ins,       \* runInputs: "gather", "stop", "done"
  fwd,       \* the reader of the aggregators: "recv", "add", "done"
  fwdAgg,    \* the aggregator it gives the metric to next
  fwdDrop,   \* dropOriginal
  push,      \* aggregator -> "wait", "push", "last", "done": its push loop
  cache,     \* aggregator -> whether it has aggregated something since Reset
  aggs,      \* runAggregators: "run" or "done"
  chan,      \* channel -> metrics in it
  closed,    \* the closed channels
  emitted,   \* metrics emitted by inputs
  panicked   \* a send on, or a close of, a closed channel

startVars == <<mode, run, todo, err>>
outVars   == <<out, consumer>>
procVars  == <<proc, hold>>
inVars    == <<svc, flight, loop, gath, ins, emitted>>
aggVars   == <<fwd, fwdAgg, fwdDrop, push, cache, aggs>>
chanVars  == <<chan, closed, panicked>>
vars == <<startVars, ctxDone, outVars, procVars, inVars, aggVars, chanVars>>

Init ==
  /\ mode \in Modes
  /\ run = "init" /\ todo = 0 /\ err = "" /\ ctxDone = FALSE
  /\ out = [o \in Outputs |-> "new"]
  /\ consumer = IF mode = "test" THEN "on" ELSE "off"
  /\ proc = [c \in AllProcessors |-> "new"] /\ hold = [c \in AllProcessors |-> 0]
  /\ svc = [i \in Inputs |-> "new"] /\ flight = [i \in Inputs |-> 0]
  /\ loop = [i \in Inputs |-> "none"] /\ gath = [i \in Inputs |-> 0]
  /\ ins = "gather" /\ emitted = 0
  /\ fwd = "recv" /\ fwdAgg = 1 /\ fwdDrop = FALSE
  /\ push = [a \in Aggregators |-> "wait"] /\ cache = [a \in Aggregators |-> FALSE]
  /\ aggs = IF NAgg = 0 THEN "done" ELSE "run"
  /\ chan = [c \in Channels |-> 0] /\ closed = {} /\ panicked = FALSE

Running == run = "running"

\* Go's channels.
Send(c) ==
  IF c \in closed
    THEN panicked' = TRUE /\ UNCHANGED <<chan, closed>>
    ELSE /\ chan[c] < Cap
         /\ chan' = [chan EXCEPT ![c] = @ + 1]
         /\ UNCHANGED <<closed, panicked>>

Receive(c) ==
  /\ chan[c] > 0
  /\ chan' = [chan EXCEPT ![c] = @ - 1]
  /\ UNCHANGED <<closed, panicked>>

Close(c) ==
  /\ panicked' = (panicked \/ c \in closed)
  /\ closed' = closed \cup {c}
  /\ UNCHANGED chan

Exhausted(c) == c \in closed /\ chan[c] = 0
-----------------------------------------------------------------------------
(* The start: Run, once and test up to the first goroutine. *)

Phase(p, n) == run' = p /\ todo' = n /\ UNCHANGED <<mode, err>>

Fail == run' = "returned" /\ err' = run /\ UNCHANGED <<mode, todo>>

\* initPlugins.  Mode "test" has no outputs to connect.
InitPlugins ==
  /\ run = "init"
  /\ \/ Phase("outputs", IF mode = "test" THEN NOut + 1 ELSE 1)
     \/ "init" \in MayFail /\ Fail
  /\ UNCHANGED <<ctxDone, outVars, procVars, inVars, aggVars, chanVars>>

\* startOutputs: the next Connect, the second one after a pause of 15 seconds.
\* The error path closes the outputs that are connected.
ConnectOutput ==
  /\ run = "outputs" /\ todo \in Outputs
  /\ \/ /\ out' = [out EXCEPT ![todo] = "connected"]
        /\ Phase("outputs", todo + 1)
     \/ /\ "outputs" \in MayFail /\ out[todo] = "new"
        /\ out' = [out EXCEPT ![todo] = "retry"]
        /\ UNCHANGED startVars
     \/ /\ "outputs" \in MayFail /\ out[todo] = "retry"
        /\ out' = [o \in Outputs |-> IF out[o] = "connected" THEN "closed" ELSE out[o]]
        /\ Fail
  /\ UNCHANGED <<ctxDone, consumer, procVars, inVars, aggVars, chanVars>>

\* Mutant of ConnectInterrupted: the connected outputs are not closed.
ConnectAbandoned ==
  /\ run = "outputs" /\ todo \in Outputs
  /\ out[todo] = "retry" /\ ctxDone
  /\ Fail
  /\ UNCHANGED <<ctxDone, outVars, procVars, inVars, aggVars, chanVars>>

\* The pause ends early when the context is done.
ConnectInterrupted ==
  /\ run = "outputs" /\ todo \in Outputs
  /\ out[todo] = "retry" /\ ctxDone
  /\ out' = [o \in Outputs |-> IF out[o] = "connected" THEN "closed" ELSE out[o]]
  /\ Fail
  /\ UNCHANGED <<ctxDone, consumer, procVars, inVars, aggVars, chanVars>>

OutputsStarted ==
  /\ run = "outputs" /\ todo \notin Outputs
  /\ Phase("aggprocs", Out - 1)
  /\ UNCHANGED <<ctxDone, outVars, procVars, inVars, aggVars, chanVars>>

\* startProcessors starts the last processor first.  The error path stops those
\* it has started and closes the channels they write.
StartProcessor(phase, procs, following, n) ==
  /\ run = phase
  /\ \/ /\ todo \in procs
        /\ proc' = [proc EXCEPT ![todo] = "started"]
        /\ Phase(phase, todo - 1)
        /\ UNCHANGED closed
     \/ /\ todo \in procs /\ phase \in MayFail
        /\ proc' = [c \in AllProcessors |->
                      IF c \in procs /\ proc[c] = "started" THEN "done" ELSE proc[c]]
        /\ closed' = closed \cup {c + 1 : c \in {d \in procs : proc[d] = "started"}}
        /\ Fail
     \/ /\ todo \notin procs
        /\ Phase(following, n)
        /\ UNCHANGED <<proc, closed>>
  /\ UNCHANGED <<ctxDone, outVars, hold, inVars, aggVars, chan, panicked>>

StartAggProcessor == StartProcessor("aggprocs", AggProcessors, "procs", NP)

StartMainProcessor == StartProcessor("procs", Processors, "inputs", 1)

\* startInputs, and testStartInputs, which goes on after an error.
StartInput ==
  /\ run = "inputs" /\ todo \in Inputs
  /\ \/ /\ todo \in Service
        /\ svc' = [svc EXCEPT ![todo] = "started"]
        /\ Phase("inputs", todo + 1)
     \/ /\ todo \notin Service
        /\ Phase("inputs", todo + 1)
        /\ UNCHANGED svc
     \/ /\ todo \in Service /\ "inputs" \in MayFail
        /\ svc' = [svc EXCEPT ![todo] = "failed"]
        /\ IF mode = "run"
             THEN run' = "undo" /\ todo' = 1 /\ err' = "inputs" /\ UNCHANGED mode
             ELSE Phase("inputs", todo + 1)
  /\ UNCHANGED <<ctxDone, outVars, procVars, flight, loop, gath, ins, emitted, aggVars, chanVars>>

\* The goroutines are started.
Go ==
  /\ run = "inputs" /\ todo \notin Inputs
  /\ Phase("running", 1)
  /\ consumer' = "on"
  /\ loop' = [i \in Inputs |-> "idle"]
  /\ UNCHANGED <<ctxDone, out, procVars, svc, flight, gath, ins, emitted,
                 aggVars, chanVars>>

Start ==
  \/ InitPlugins \/ ConnectOutput \/ ConnectInterrupted \/ OutputsStarted
  \/ StartAggProcessor \/ StartMainProcessor \/ StartInput \/ Go
-----------------------------------------------------------------------------
(* Inputs: gatherLoop, gatherOnce, the service inputs, runInputs. *)

\* The select of gatherLoop takes a tick, even if the context is done as well.
\* Modes "once" and "test" gather once.
Gather(i) ==
  /\ Running /\ loop[i] = "idle"
  /\ loop' = [loop EXCEPT ![i] = "gathering"]
  /\ UNCHANGED <<startVars, ctxDone, outVars, procVars, svc, flight, gath, ins, emitted,
                 aggVars, chanVars>>

GatherDone(i) ==
  /\ mode = "run" /\ loop[i] = "idle" /\ ctxDone
  /\ loop' = [loop EXCEPT ![i] = "done"]
  /\ UNCHANGED <<startVars, ctxDone, outVars, procVars, svc, flight, gath, ins, emitted,
                 aggVars, chanVars>>

GatherEmit(i) ==
  /\ loop[i] = "gathering" /\ gath[i] = 0 /\ emitted < MaxMetrics
  /\ gath' = [gath EXCEPT ![i] = 1]
  /\ emitted' = emitted + 1
  /\ UNCHANGED <<startVars, ctxDone, outVars, procVars, svc, flight, loop, ins, aggVars, chanVars>>

GatherSend(i) ==
  /\ gath[i] = 1
  /\ Send(1)
  /\ gath' = [gath EXCEPT ![i] = 0]
  /\ UNCHANGED <<startVars, ctxDone, outVars, procVars, svc, flight, loop, ins, emitted, aggVars>>

GatherReturn(i) ==
  /\ loop[i] = "gathering" /\ gath[i] = 0
  /\ loop' = [loop EXCEPT ![i] = IF mode = "run" THEN "idle" ELSE "done"]
  /\ UNCHANGED <<startVars, ctxDone, outVars, procVars, svc, flight, gath, ins, emitted,
                 aggVars, chanVars>>

\* A service input emits from its Start until its Stop is called ...
ServiceEmit(i) ==
  /\ svc[i] = "started" /\ flight[i] = 0 /\ emitted < MaxMetrics
  /\ flight' = [flight EXCEPT ![i] = 1]
  /\ emitted' = emitted + 1
  /\ UNCHANGED <<startVars, ctxDone, outVars, procVars, svc, loop, gath, ins, aggVars, chanVars>>

ServiceSend(i) ==
  /\ flight[i] = 1
  /\ Send(1)
  /\ flight' = [flight EXCEPT ![i] = 0]
  /\ UNCHANGED <<startVars, ctxDone, outVars, procVars, svc, loop, gath, ins, emitted, aggVars>>

\* ... and Stop waits for what is in flight.  stopServiceInputs goes through the
\* inputs of the unit, which in modes "once" and "test" has those that failed.
StopInput ==
  /\ run = "undo" \/ (Running /\ ins = "stop")
  /\ todo \in Inputs
  /\ \/ /\ svc[todo] = "started"
        /\ svc' = [svc EXCEPT ![todo] = "stopping"]
        /\ UNCHANGED todo
     \/ /\ \/ svc[todo] = "stopping" /\ flight[todo] = 0
           \/ svc[todo] = "failed" /\ mode # "run"
        /\ svc' = [svc EXCEPT ![todo] = "stopped"]
        /\ todo' = todo + 1
     \/ /\ svc[todo] = "new" \/ (svc[todo] = "failed" /\ mode = "run")
        /\ todo' = todo + 1
        /\ UNCHANGED svc
  /\ UNCHANGED <<mode, run, err, ctxDone, outVars, procVars, flight, loop, gath, ins, emitted,
                 aggVars, chanVars>>

\* startInputs returns its error.
Undone ==
  /\ run = "undo" /\ todo \notin Inputs
  /\ run' = "returned"
  /\ UNCHANGED <<mode, todo, err, ctxDone, outVars, procVars, inVars, aggVars, chanVars>>

\* All gather loops have returned (and, in modes "once" and "test", the pause).
StopInputs ==
  /\ Running /\ ins = "gather" /\ \A i \in Inputs : loop[i] = "done"
  /\ ins' = "stop" /\ todo' = 1
  /\ UNCHANGED <<mode, run, err, ctxDone, outVars, procVars, svc, flight, loop, gath, emitted,
                 aggVars, chanVars>>

\* Mutant of CloseInputs: the channel is closed before the service inputs are
\* stopped.
CloseInputsEarly ==
  /\ Running /\ ins = "stop"
  /\ Close(1)
  /\ ins' = "done"
  /\ UNCHANGED <<startVars, ctxDone, outVars, procVars, svc, flight, loop, gath, emitted, aggVars>>

CloseInputs ==
  /\ Running /\ ins = "stop" /\ todo \notin Inputs
  /\ Close(1)
  /\ ins' = "done"
  /\ UNCHANGED <<startVars, ctxDone, outVars, procVars, svc, flight, loop, gath, emitted, aggVars>>

Input(i) ==
  \/ Gather(i) \/ GatherDone(i) \/ GatherEmit(i) \/ GatherSend(i) \/ GatherReturn(i)
  \/ ServiceEmit(i) \/ ServiceSend(i)
-----------------------------------------------------------------------------
(* Processors: a goroutine of runProcessors for each. *)

ProcessorAdd(c) ==
  /\ Running /\ proc[c] = "started" /\ hold[c] < MaxHold
  /\ Receive(c)
  /\ hold' = [hold EXCEPT ![c] = @ + 1]
  /\ UNCHANGED <<startVars, ctxDone, outVars, proc, inVars, aggVars>>

ProcessorSend(c) ==
  /\ proc[c] \in {"started", "stopping"} /\ hold[c] > 0
  /\ Send(c + 1)
  /\ hold' = [hold EXCEPT ![c] = @ - 1]
  /\ UNCHANGED <<startVars, ctxDone, outVars, proc, inVars, aggVars>>

ProcessorDrop(c) ==
  /\ proc[c] \in {"started", "stopping"} /\ hold[c] > 0
  /\ hold' = [hold EXCEPT ![c] = @ - 1]
  /\ UNCHANGED <<startVars, ctxDone, outVars, proc, inVars, aggVars, chanVars>>

\* Mutant of ProcessorStop: what is left in the closed channel is not read.
ProcessorStopEarly(c) ==
  /\ Running /\ proc[c] = "started" /\ c \in closed
  /\ proc' = [proc EXCEPT ![c] = "stopping"]
  /\ UNCHANGED <<startVars, ctxDone, outVars, hold, inVars, aggVars, chanVars>>

ProcessorStop(c) ==
  /\ Running /\ proc[c] = "started" /\ Exhausted(c)
  /\ proc' = [proc EXCEPT ![c] = "stopping"]
  /\ UNCHANGED <<startVars, ctxDone, outVars, hold, inVars, aggVars, chanVars>>

\* Stop returns when no metric is in progress.
ProcessorClose(c) ==
  /\ proc[c] = "stopping" /\ hold[c] = 0
  /\ Close(c + 1)
  /\ proc' = [proc EXCEPT ![c] = "done"]
  /\ UNCHANGED <<startVars, ctxDone, outVars, hold, inVars, aggVars>>

Processor(c) == ProcessorAdd(c) \/ ProcessorSend(c) \/ ProcessorStop(c) \/ ProcessorClose(c)
-----------------------------------------------------------------------------
(* Aggregators: the reader and the push loops of runAggregators. *)

AggregatorReceive ==
  /\ Running /\ NAgg > 0 /\ fwd = "recv"
  /\ Receive(AggSrc)
  /\ fwd' = "add" /\ fwdAgg' = 1 /\ fwdDrop' = FALSE
  /\ UNCHANGED <<startVars, ctxDone, outVars, procVars, inVars, push, cache, aggs>>

\* RunningAggregator.Add of a metric that its filter does not select or leaves
\* without fields, before the lock.
AggregatorPassOver ==
  /\ fwd = "add" /\ fwdAgg \in Aggregators
  /\ fwdDrop' \in {fwdDrop, fwdDrop \/ fwdAgg \in DropOriginal}
  /\ fwdAgg' = fwdAgg + 1
  /\ UNCHANGED <<startVars, ctxDone, outVars, procVars, inVars, fwd, push, cache, aggs, chanVars>>

\* RunningAggregator.Add of any other metric needs the lock, which Push holds while
\* it sends; a metric outside the window is not aggregated.
AggregatorAdd ==
  /\ fwd = "add" /\ fwdAgg \in Aggregators
  /\ push[fwdAgg] \notin {"push", "last"}
  /\ fwdDrop' = (fwdDrop \/ fwdAgg \in DropOriginal)
  /\ \/ UNCHANGED cache
     \/ cache' = [cache EXCEPT ![fwdAgg] = TRUE]
  /\ fwdAgg' = fwdAgg + 1
  /\ UNCHANGED <<startVars, ctxDone, outVars, procVars, inVars, fwd, push, aggs, chanVars>>

AggregatorPass ==
  /\ fwd = "add" /\ fwdAgg \notin Aggregators
  /\ IF fwdDrop THEN UNCHANGED chanVars ELSE Send(Out)
  /\ fwd' = "recv"
  /\ UNCHANGED <<startVars, ctxDone, outVars, procVars, inVars, fwdAgg, fwdDrop, push, cache, aggs>>

AggregatorDone ==
  /\ Running /\ NAgg > 0 /\ fwd = "recv" /\ Exhausted(AggSrc)
  /\ fwd' = "done"
  /\ UNCHANGED <<startVars, ctxDone, outVars, procVars, inVars, fwdAgg, fwdDrop, push, cache,
                 aggs, chanVars>>

\* The end of a period, or of the context, whichever the select takes.
PushPeriod(a) ==
  /\ Running /\ push[a] = "wait"
  /\ push' = [push EXCEPT ![a] = "push"]
  /\ UNCHANGED <<startVars, ctxDone, outVars, procVars, inVars, fwd, fwdAgg, fwdDrop, cache,
                 aggs, chanVars>>

\* Mutant of PushLast: no Push at the end.
PushNoLast(a) ==
  /\ push[a] = "wait" /\ fwd = "done"
  /\ push' = [push EXCEPT ![a] = "done"]
  /\ UNCHANGED <<startVars, ctxDone, outVars, procVars, inVars, fwd, fwdAgg, fwdDrop, cache,
                 aggs, chanVars>>

\* Mutant of PushLast: break instead of return, so the loop goes on.
PushBreak(a) ==
  /\ push[a] = "wait" /\ fwd = "done"
  /\ push' = [push EXCEPT ![a] = "push"]
  /\ UNCHANGED <<startVars, ctxDone, outVars, procVars, inVars, fwd, fwdAgg, fwdDrop, cache,
                 aggs, chanVars>>

PushLast(a) ==
  /\ push[a] = "wait" /\ fwd = "done"
  /\ push' = [push EXCEPT ![a] = "last"]
  /\ UNCHANGED <<startVars, ctxDone, outVars, procVars, inVars, fwd, fwdAgg, fwdDrop, cache,
                 aggs, chanVars>>

\* Push sends the aggregates and Reset forgets them, under the lock.
PushSend(a) ==
  /\ push[a] \in {"push", "last"} /\ cache[a]
  /\ Send(AggC)
  /\ cache' = [cache EXCEPT ![a] = FALSE]
  /\ UNCHANGED <<startVars, ctxDone, outVars, procVars, inVars, fwd, fwdAgg, fwdDrop, push, aggs>>

PushReturn(a) ==
  /\ push[a] \in {"push", "last"} /\ ~cache[a]
  /\ push' = [push EXCEPT ![a] = IF @ = "push" THEN "wait" ELSE "done"]
  /\ UNCHANGED <<startVars, ctxDone, outVars, procVars, inVars, fwd, fwdAgg, fwdDrop, cache,
                 aggs, chanVars>>

CloseAggregators ==
  /\ aggs = "run" /\ fwd = "done" /\ \A a \in Aggregators : push[a] = "done"
  /\ Close(AggC)
  /\ aggs' = "done"
  /\ UNCHANGED <<startVars, ctxDone, outVars, procVars, inVars, fwd, fwdAgg, fwdDrop, push, cache>>

Reader == AggregatorReceive \/ AggregatorAdd \/ AggregatorPass \/ AggregatorDone

Pusher(a) == PushLast(a) \/ PushSend(a) \/ PushReturn(a)
-----------------------------------------------------------------------------
(* The outputs, and the end. *)

\* The fan-out of runOutputs, or the printing goroutine of Test.
ConsumerReceive ==
  /\ consumer = "on"
  /\ Receive(Out)
  /\ UNCHANGED <<startVars, ctxDone, outVars, procVars, inVars, aggVars>>

\* The flush loops have returned and stopRunningOutputs closes the outputs.
ConsumerStop ==
  /\ consumer = "on" /\ Exhausted(Out)
  /\ consumer' = "done"
  /\ out' = [o \in Outputs |-> IF out[o] = "connected" THEN "closed" ELSE out[o]]
  /\ UNCHANGED <<startVars, ctxDone, procVars, inVars, aggVars, chanVars>>

Consumer == ConsumerReceive \/ ConsumerStop

\* wg.Wait() of Run.
Return ==
  /\ Running /\ ins = "done" /\ aggs = "done" /\ consumer = "done"
  /\ \A c \in AllProcessors : proc[c] = "done"
  /\ run' = "returned"
  /\ UNCHANGED <<mode, todo, err, ctxDone, outVars, procVars, inVars, aggVars, chanVars>>

Cancel ==
  /\ ~ctxDone
  /\ ctxDone' = TRUE
  /\ UNCHANGED <<startVars, outVars, procVars, inVars, aggVars, chanVars>>

Returned == run = "returned" /\ UNCHANGED vars

Main == Start \/ StopInput \/ Undone \/ StopInputs \/ CloseInputs \/ CloseAggregators \/ Return

Next ==
  \/ Main \/ Consumer \/ Cancel \/ Returned \/ Reader \/ AggregatorPassOver
  \/ \E i \in Inputs : Input(i)
  \/ \E c \in AllProcessors : Processor(c) \/ ProcessorDrop(c)
  \/ \E a \in Aggregators : Pusher(a) \/ PushPeriod(a)

Spec == Init /\ [][Next]_vars

\* Goroutines go on, tickers tick, plugin calls return and a select with several
\* ready cases does not pass over one of them for ever, nor does the mutex of an
\* aggregator that is free again and again pass over the reader.  Nobody has to
\* emit, to drop, to pass over a metric, to end a period or to cancel.
Fairness ==
  /\ WF_vars(Main) /\ WF_vars(Consumer) /\ WF_vars(Reader) /\ SF_vars(AggregatorAdd)
  /\ \A i \in Inputs :
       /\ WF_vars(Gather(i)) /\ WF_vars(GatherSend(i)) /\ WF_vars(GatherReturn(i))
       /\ WF_vars(ServiceSend(i)) /\ SF_vars(GatherDone(i))
  /\ \A c \in AllProcessors : WF_vars(Processor(c))
  /\ \A a \in Aggregators :
       WF_vars(PushSend(a)) /\ WF_vars(PushReturn(a)) /\ SF_vars(PushLast(a))

FairSpec == Spec /\ Fairness
-----------------------------------------------------------------------------
\* The program counters and the channels stay in their ranges.
TypeOK ==
  /\ mode \in {"run", "once", "test"}
  /\ run \in {"init", "outputs", "aggprocs", "procs", "inputs", "undo", "running", "returned"}
  /\ todo \in Nat /\ ctxDone \in BOOLEAN
  /\ err \in {"", "init", "outputs", "aggprocs", "procs", "inputs"}
  /\ out \in [Outputs -> {"new", "retry", "connected", "closed"}]
  /\ consumer \in {"off", "on", "done"}
  /\ proc \in [AllProcessors -> {"new", "started", "stopping", "done"}]
  /\ hold \in [AllProcessors -> 0 .. MaxHold]
  /\ svc \in [Inputs -> {"new", "started", "failed", "stopping", "stopped"}]
  /\ flight \in [Inputs -> 0 .. 1] /\ gath \in [Inputs -> 0 .. 1]
  /\ loop \in [Inputs -> {"none", "idle", "gathering", "done"}]
  /\ ins \in {"gather", "stop", "done"} /\ emitted \in Nat
  /\ fwd \in {"recv", "add", "done"} /\ fwdAgg \in Nat /\ fwdDrop \in BOOLEAN
  /\ push \in [Aggregators -> {"wait", "push", "last", "done"}]
  /\ cache \in [Aggregators -> BOOLEAN] /\ aggs \in {"run", "done"}
  /\ chan \in [Channels -> 0 .. Cap] /\ closed \subseteq Channels /\ panicked \in BOOLEAN

\* No goroutine sends on a closed channel or closes one twice, whatever the
\* plugins do: not even the reader of the aggregators and the last aggregator
\* processor, which write the same channel and of which only one closes it.
NeverPanics == ~panicked

\* When Run returns without an error every metric is out of the channels and the
\* plugins, aggregates included, and every plugin is stopped.
Drained ==
  run = "returned" /\ err = "" =>
    /\ \A c \in Channels : chan[c] = 0 /\ c \in closed
    /\ \A c \in AllProcessors : hold[c] = 0 /\ proc[c] = "done"
    /\ \A i \in Inputs : flight[i] = 0 /\ gath[i] = 0 /\ svc[i] \in {"new", "stopped"}
    /\ \A a \in Aggregators : ~cache[a]
    /\ \A o \in Outputs : out[o] # "connected"

\* agent.go: "If an error occurs calling Connect all stared plugins have Close
\* called", "If an error occurs any started processors are Stopped"; and no
\* service input is left running.
FailedStartUndone ==
  run = "returned" =>
    /\ \A i \in Inputs : svc[i] \notin {"started", "stopping"} /\ flight[i] = 0
    /\ err = "outputs" => \A o \in Outputs : out[o] # "connected"
    /\ err = "aggprocs" => \A c \in AggProcessors : proc[c] # "started"
    /\ err = "procs" => \A c \in Processors : proc[c] # "started"

\* A processor, also one of the aggregators, is stopped only when nothing comes to it
\* any more: the inputs and the processors before it have stopped and are empty, and
\* so is the channel it reads.
StopsDownstream ==
  \A c \in AllProcessors :
    Running /\ proc[c] \in {"stopping", "done"} =>
      /\ ins = "done" /\ chan[c] = 0
      /\ \A d \in AllProcessors : d < c => proc[d] = "done" /\ hold[d] = 0 /\ chan[d] = 0

\* A running agent whose context is done stops, however full the channels are;
\* modes "once" and "test" stop by themselves.
Stops == Running /\ (ctxDone \/ mode # "run") ~> run = "returned"

\* agent.go: "Run starts and runs the Agent until the context is done."
\* (Refuted: if an input fails to start, startInputs waits in Stop for a service
\* input that waits for room in a channel nobody reads yet.)
ReturnsWhenDone == ctxDone ~> run = "returned"
=============================================================================
