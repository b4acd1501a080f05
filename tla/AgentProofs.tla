---------------------------- MODULE AgentProofs ----------------------------
(***************************************************************************)
(* What Agent.tla checks on small agents, for every number of inputs,      *)
(* processors, aggregators, aggregator processors and outputs, and every   *)
(* capacity of the channels.                                               *)
(***************************************************************************)
EXTENDS Agent, WellFoundedInduction, TLAPS

-----------------------------------------------------------------------------
(* The order of the channels. *)

\* Which channels the plugins read and write.
LEMMA Layout ==
  /\ Out \in Nat /\ AggSrc \in Nat /\ AggC \in Nat
  /\ 1 \in Channels /\ Out \in Channels /\ AggSrc \in Channels
  /\ NAgg > 0 => AggC \in Channels
  /\ AllProcessors \subseteq Channels /\ Channels \subseteq Nat \ {0}
  /\ \A c \in AllProcessors : c + 1 \in Channels /\ c + 1 # 1
<1>1. Out \in Nat /\ Out >= NP + 1 /\ (NAgg > 0 => Out >= NP + 2)
  BY AgentAssumption DEF Out
<1> QED BY <1>1, AgentAssumption
        DEF AggSrc, AggC, Channels, AllProcessors, Processors, AggProcessors

\* Nobody but runAggregators writes the first channel after the aggregators, and
\* nothing is between a processor and the channel it writes.
LEMMA Order ==
  /\ \A c, d \in AllProcessors : d < c + 1 => d < c \/ d = c
  /\ \A c, d \in AllProcessors : c + 1 = d + 1 => c = d
  /\ NAgg > 0 => /\ \A c \in AllProcessors : c + 1 # AggC /\ c # AggSrc
                 /\ \A c \in AllProcessors : c + 1 >= AggC => c >= AggC
                 /\ \A d \in AllProcessors : d < AggC => d < AggSrc
                 /\ Out >= AggC /\ ~(1 >= AggC) /\ AggC # 1
<1>1. Out \in Nat /\ (NAgg > 0 => Out >= NP + 2)
  BY AgentAssumption DEF Out
<1> QED BY <1>1, AgentAssumption
        DEF AggSrc, AggC, AllProcessors, Processors, AggProcessors

\* Every channel has one reader: a processor, the reader of the aggregators or
\* the outputs ...
LEMMA Readers ==
  \A c \in Channels : c \in AllProcessors \/ c = Out \/ (NAgg > 0 /\ c = AggSrc)
<1> QED BY AgentAssumption
        DEF Out, AggSrc, AggC, Channels, AllProcessors, Processors, AggProcessors

\* ... and one goroutine that closes it: that of the inputs, of the aggregators
\* or of the processor before it.
LEMMA Closers ==
  \A c \in Channels : \/ c = 1 \/ (NAgg > 0 /\ c = AggC)
                      \/ \E d \in AllProcessors : c = d + 1
<1>1. ASSUME NEW c \in Channels, c # 1, NAgg > 0 => c # AggC
      PROVE  c - 1 \in AllProcessors
  BY <1>1, AgentAssumption
  DEF Out, AggSrc, AggC, Channels, AllProcessors, Processors, AggProcessors
<1>2. \A c \in Channels : c = (c - 1) + 1
  BY Layout
<1> QED BY Zenon, <1>1, <1>2
-----------------------------------------------------------------------------
(* The inductive invariant. *)

\* The goroutines of Run are running, or have run.
Live == run = "running" \/ (run = "returned" /\ err = "")

\* The phases of the start: which plugins are started, and what has failed.
StartInv ==
  /\ run \in {"init", "outputs", "aggprocs", "procs", "inputs", "running"} => err = ""
  /\ run = "undo" => err = "inputs"
  /\ run \in {"init", "outputs", "aggprocs", "procs"} => \A i \in Inputs : svc[i] = "new"
  /\ run = "aggprocs" =>
       /\ todo \in AggProcessors \/ \A c \in AggProcessors : todo < c
       /\ \A c \in AggProcessors : todo < c => proc[c] = "started"
  /\ run = "procs" =>
       /\ \A c \in AggProcessors : proc[c] = "started"
       /\ todo \in Processors \/ \A c \in Processors : todo < c
       /\ \A c \in Processors : todo < c => proc[c] = "started"
  /\ run = "inputs" =>
       /\ \A c \in AllProcessors : proc[c] = "started"
       /\ \A i \in Inputs : todo <= i => svc[i] = "new"
  /\ run = "undo" => todo >= 1 /\ \A i \in Inputs : i < todo => svc[i] \notin {"started", "stopping"}

\* Without its goroutines the agent is idle, but for service inputs, which start
\* only when all channels are open.
IdleInv ==
  ~Live =>
    /\ ins = "gather" /\ fwd = "recv" /\ (NAgg > 0 => aggs = "run")
    /\ \A i \in Inputs : loop[i] = "none"
    /\ \A c \in AllProcessors : hold[c] = 0 /\ proc[c] # "stopping"
    /\ \A a \in Aggregators : push[a] = "wait"
    /\ closed = {} \/ (run = "returned" /\ \A i \in Inputs : svc[i] = "new")

\* The inputs are quiet when their channel is closed.
InputInv ==
  /\ \A i \in Inputs : flight[i] = 0 \/ svc[i] \in {"started", "stopping"}
  /\ \A i \in Inputs : gath[i] = 0 \/ loop[i] = "gathering"
  /\ \A i \in Inputs : svc[i] = "failed" /\ mode = "run" => err # ""
  /\ ins # "gather" => \A i \in Inputs : loop[i] = "done"
  /\ ins = "stop" => todo >= 1 /\ \A i \in Inputs : i < todo => svc[i] \in {"new", "stopped"}
  /\ ins = "done" => \A i \in Inputs : svc[i] \in {"new", "stopped"}

\* A channel is closed exactly when the goroutine that closes it has ended, and
\* then everything before it in the flow has ended.
ClosedInv ==
  Live =>
    /\ \A c \in AllProcessors :
         /\ proc[c] # "new"
         /\ proc[c] \in {"stopping", "done"} => Exhausted(c)
         /\ proc[c] = "done" => hold[c] = 0
         /\ c + 1 \in closed <=> proc[c] = "done"
    /\ 1 \in closed <=> ins = "done"
    /\ NAgg > 0 => (AggC \in closed <=> aggs = "done")
    /\ \A c \in closed : ins = "done" /\ \A d \in AllProcessors : d < c => proc[d] = "done"
    /\ NAgg > 0 => \A c \in closed : c >= AggC => aggs = "done"

\* The reader of the aggregators ends before the push loops do, and they before
\* runAggregators.
AggInv ==
  /\ NAgg = 0 => aggs = "done" /\ fwd = "recv"
  /\ NAgg > 0 /\ aggs = "done" => fwd = "done" /\ \A a \in Aggregators : push[a] = "done"
  /\ \A a \in Aggregators : push[a] \in {"last", "done"} => fwd = "done"
  /\ \A a \in Aggregators : push[a] = "done" => ~cache[a]
  /\ fwd = "done" => Exhausted(AggSrc)

\* The outputs end last.
EndInv ==
  /\ consumer = "done" => Exhausted(Out) /\ \A o \in Outputs : out[o] # "connected"
  /\ run = "returned" /\ err = "" =>
       /\ ins = "done" /\ aggs = "done" /\ consumer = "done"
       /\ \A c \in AllProcessors : proc[c] = "done"

\* TypeOK, by parts of the agent.
TypeRun ==
  /\ mode \in {"run", "once", "test"}
  /\ run \in {"init", "outputs", "aggprocs", "procs", "inputs", "undo", "running", "returned"}
  /\ todo \in Nat /\ ctxDone \in BOOLEAN
  /\ err \in {"", "init", "outputs", "aggprocs", "procs", "inputs"}

TypeOut ==
  /\ out \in [Outputs -> {"new", "retry", "connected", "closed"}]
  /\ consumer \in {"off", "on", "done"}

TypeProc ==
  /\ proc \in [AllProcessors -> {"new", "started", "stopping", "done"}]
  /\ hold \in [AllProcessors -> 0 .. MaxHold]

TypeIn ==
  /\ svc \in [Inputs -> {"new", "started", "failed", "stopping", "stopped"}]
  /\ flight \in [Inputs -> 0 .. 1] /\ gath \in [Inputs -> 0 .. 1]
  /\ loop \in [Inputs -> {"none", "idle", "gathering", "done"}]
  /\ ins \in {"gather", "stop", "done"} /\ emitted \in Nat

TypeAgg ==
  /\ fwd \in {"recv", "add", "done"} /\ fwdAgg \in Nat /\ fwdDrop \in BOOLEAN
  /\ push \in [Aggregators -> {"wait", "push", "last", "done"}]
  /\ cache \in [Aggregators -> BOOLEAN] /\ aggs \in {"run", "done"}

TypeChan ==
  chan \in [Channels -> 0 .. Cap] /\ closed \subseteq Channels /\ panicked \in BOOLEAN

Inv ==
  /\ TypeRun /\ TypeOut /\ TypeProc /\ TypeIn /\ TypeAgg /\ TypeChan
  /\ StartInv /\ IdleInv /\ InputInv /\ ClosedInv /\ AggInv /\ EndInv
  /\ FailedStartUndone /\ NeverPanics

\* The initial state.
LEMMA InvInit == Init => Inv
<1> SUFFICES ASSUME Init PROVE Inv
  OBVIOUS
<1>1. /\ mode \in Modes /\ run = "init" /\ todo = 0 /\ err = "" /\ ctxDone = FALSE
      /\ consumer \in {"on", "off"}
      /\ ins = "gather" /\ emitted = 0 /\ fwd = "recv" /\ fwdAgg = 1 /\ fwdDrop = FALSE
      /\ aggs = IF NAgg = 0 THEN "done" ELSE "run"
      /\ closed = {} /\ panicked = FALSE
  BY Zenon DEF Init
<1>2. /\ out = [o \in Outputs |-> "new"]
      /\ proc = [c \in AllProcessors |-> "new"] /\ hold = [c \in AllProcessors |-> 0]
      /\ svc = [i \in Inputs |-> "new"] /\ flight = [i \in Inputs |-> 0]
      /\ loop = [i \in Inputs |-> "none"] /\ gath = [i \in Inputs |-> 0]
      /\ push = [a \in Aggregators |-> "wait"] /\ cache = [a \in Aggregators |-> FALSE]
      /\ chan = [c \in Channels |-> 0]
  BY Zenon DEF Init
<1>3. 0 \in 0 .. MaxHold /\ 0 \in 0 .. Cap /\ 0 \in 0 .. 1
  BY AgentAssumption
<1>4. mode \in {"run", "once", "test"}
  BY Zenon, <1>1, AgentAssumption
<1>0. NAgg > 0 => NAgg # 0
  BY AgentAssumption
<1>5. TypeRun /\ TypeOut /\ TypeProc /\ TypeIn /\ TypeAgg /\ TypeChan
  BY Zenon, <1>1, <1>2, <1>3, <1>4 DEF TypeRun, TypeOut, TypeProc, TypeIn, TypeAgg, TypeChan
<1>6. StartInv /\ IdleInv
  BY Zenon, <1>0, <1>1, <1>2 DEF StartInv, IdleInv, Live
<1>7. InputInv
  BY Zenon, <1>1, <1>2 DEF InputInv
<1>8. ClosedInv /\ AggInv /\ EndInv
  BY Zenon, <1>0, <1>1, <1>2 DEF ClosedInv, AggInv, EndInv, Live
<1>9. FailedStartUndone /\ NeverPanics
  BY Zenon, <1>1 DEF FailedStartUndone, NeverPanics
<1> QED BY Zenon, <1>5, <1>6, <1>7, <1>8, <1>9 DEF Inv

\* The properties that Agent.tla states of the end.
LEMMA InvImplies == Inv => TypeOK /\ Drained /\ StopsDownstream
<1> SUFFICES ASSUME Inv PROVE TypeOK /\ Drained /\ StopsDownstream
  OBVIOUS
<1>0. TypeOK
  BY Zenon DEF Inv, TypeOK, TypeRun, TypeOut, TypeProc, TypeIn, TypeAgg, TypeChan
<1>1. StopsDownstream
  BY DEF Inv, ClosedInv, Live, Exhausted, Running, StopsDownstream
<1>2. ASSUME run = "returned", err = "" PROVE \A c \in Channels : chan[c] = 0 /\ c \in closed
  <2>1. \A c \in Channels : c \in closed
    BY Zenon, <1>2, Closers DEF Inv, ClosedInv, EndInv, Live
  <2>2. \A c \in Channels : chan[c] = 0
    BY Zenon, <1>2, Readers DEF Inv, ClosedInv, EndInv, AggInv, Live, Exhausted
  <2> QED BY Zenon, <2>1, <2>2
<1>3. ASSUME run = "returned", err = ""
      PROVE  /\ \A c \in AllProcessors : hold[c] = 0 /\ proc[c] = "done"
             /\ \A i \in Inputs : flight[i] = 0 /\ gath[i] = 0 /\ svc[i] \in {"new", "stopped"}
             /\ \A o \in Outputs : out[o] # "connected"
  BY Zenon, <1>3 DEF Inv, ClosedInv, InputInv, EndInv, Live
<1>4. ASSUME run = "returned", err = "" PROVE \A a \in Aggregators : ~cache[a]
  <2>1. ASSUME NEW a \in Aggregators PROVE NAgg > 0
    BY <2>1, AgentAssumption DEF Aggregators
  <2> QED BY Zenon, <1>4, <2>1 DEF Inv, AggInv, EndInv
<1> QED BY Zenon, <1>0, <1>1, <1>2, <1>3, <1>4 DEF Drained

-----------------------------------------------------------------------------
(* The steps. *)

\* The parts of the invariant before a step. The steps cite this lemma and the
\* next and leave Inv folded, which keeps their obligations small.
LEMMA Unfold ==
  Inv => /\ TypeRun /\ TypeOut /\ TypeProc /\ TypeIn /\ TypeAgg /\ TypeChan
         /\ StartInv /\ IdleInv /\ InputInv /\ ClosedInv /\ AggInv /\ EndInv
         /\ FailedStartUndone /\ NeverPanics
  BY Zenon DEF Inv

\* The parts of the invariant after a step make it up.
LEMMA Fold ==
  /\ TypeRun' /\ TypeOut' /\ TypeProc' /\ TypeIn' /\ TypeAgg' /\ TypeChan'
  /\ StartInv' /\ IdleInv' /\ InputInv' /\ ClosedInv' /\ AggInv' /\ EndInv'
  /\ FailedStartUndone' /\ NeverPanics'
  => Inv'
  BY Zenon DEF Inv

\* A step that leaves alone what a conjunct is about keeps it.
LEMMA Frame ==
  /\ TypeRun /\ UNCHANGED <<mode, run, todo, ctxDone, err>> => TypeRun'
  /\ TypeOut /\ UNCHANGED <<out, consumer>> => TypeOut'
  /\ TypeProc /\ UNCHANGED <<proc, hold>> => TypeProc'
  /\ TypeIn /\ UNCHANGED <<svc, flight, gath, loop, ins, emitted>> => TypeIn'
  /\ TypeAgg /\ UNCHANGED <<fwd, fwdAgg, fwdDrop, push, cache, aggs>> => TypeAgg'
  /\ TypeChan /\ UNCHANGED <<chan, closed, panicked>> => TypeChan'
  /\ StartInv /\ UNCHANGED <<run, err, svc, todo, proc>> => StartInv'
  /\ IdleInv /\ UNCHANGED <<run, err, ins, fwd, aggs, loop, hold, proc, push, closed, svc>> => IdleInv'
  /\ InputInv /\ UNCHANGED <<flight, svc, gath, loop, mode, err, ins, todo>> => InputInv'
  /\ ClosedInv /\ UNCHANGED <<run, err, proc, closed, chan, hold, ins, aggs>> => ClosedInv'
  /\ AggInv /\ UNCHANGED <<aggs, fwd, push, cache, closed, chan>> => AggInv'
  /\ EndInv /\ UNCHANGED <<consumer, closed, chan, out, run, err, ins, aggs, proc>> => EndInv'
  /\ FailedStartUndone /\ UNCHANGED <<run, svc, flight, err, out, proc>> => FailedStartUndone'
  /\ NeverPanics /\ UNCHANGED <<panicked>> => NeverPanics'
<1>1. TypeRun /\ UNCHANGED <<mode, run, todo, ctxDone, err>> => TypeRun'
  BY Zenon DEF TypeRun
<1>2. TypeOut /\ UNCHANGED <<out, consumer>> => TypeOut'
  BY Zenon DEF TypeOut
<1>3. TypeProc /\ UNCHANGED <<proc, hold>> => TypeProc'
  BY Zenon DEF TypeProc
<1>4. TypeIn /\ UNCHANGED <<svc, flight, gath, loop, ins, emitted>> => TypeIn'
  BY Zenon DEF TypeIn
<1>5. TypeAgg /\ UNCHANGED <<fwd, fwdAgg, fwdDrop, push, cache, aggs>> => TypeAgg'
  BY Zenon DEF TypeAgg
<1>6. TypeChan /\ UNCHANGED <<chan, closed, panicked>> => TypeChan'
  BY Zenon DEF TypeChan
<1>7. StartInv /\ UNCHANGED <<run, err, svc, todo, proc>> => StartInv'
  BY Zenon DEF StartInv
<1>8. IdleInv /\ UNCHANGED <<run, err, ins, fwd, aggs, loop, hold, proc, push, closed, svc>> => IdleInv'
  BY Zenon DEF IdleInv, Live
<1>9. InputInv /\ UNCHANGED <<flight, svc, gath, loop, mode, err, ins, todo>> => InputInv'
  BY Zenon DEF InputInv
<1>10. ClosedInv /\ UNCHANGED <<run, err, proc, closed, chan, hold, ins, aggs>> => ClosedInv'
  BY Zenon DEF ClosedInv, Live, Exhausted
<1>11. AggInv /\ UNCHANGED <<aggs, fwd, push, cache, closed, chan>> => AggInv'
  BY Zenon DEF AggInv, Exhausted
<1>12. EndInv /\ UNCHANGED <<consumer, closed, chan, out, run, err, ins, aggs, proc>> => EndInv'
  BY Zenon DEF EndInv, Exhausted
<1>13. FailedStartUndone /\ UNCHANGED <<run, svc, flight, err, out, proc>> => FailedStartUndone'
  BY Zenon DEF FailedStartUndone
<1>14. NeverPanics /\ UNCHANGED <<panicked>> => NeverPanics'
  BY Zenon DEF NeverPanics
<1> QED BY Zenon, <1>1, <1>2, <1>3, <1>4, <1>5, <1>6, <1>7, <1>8, <1>9, <1>10, <1>11, <1>12, <1>13, <1>14

\* There is an aggregator, so the number of aggregators is not zero.
LEMMA NAggPositive == \A a \in Aggregators : NAgg > 0 /\ NAgg # 0
  BY AgentAssumption DEF Aggregators

\* Gather is called.
LEMMA GatherStep ==
  ASSUME Inv, NEW i \in Inputs, Gather(i)
  PROVE  Inv'
<1>1. /\ run = "running" /\ loop[i] = "idle" /\ loop' = [loop EXCEPT ![i] = "gathering"]
      /\ UNCHANGED <<mode, run, todo, err, ctxDone, out, consumer, proc, hold,
                      svc, flight, gath, ins, emitted, fwd, fwdAgg, fwdDrop,
                      push, cache, aggs, chan, closed, panicked>>
  BY Zenon DEF Gather, Running, startVars, outVars, procVars, inVars, aggVars, chanVars
<1>2. TypeIn'
  BY Zenon, <1>1, Unfold DEF TypeIn
<1>3. IdleInv'
  BY Zenon, <1>1, Unfold DEF IdleInv, Live, TypeIn
<1>4. InputInv'
  BY Zenon, <1>1, Unfold DEF InputInv, TypeIn
<1> QED BY Zenon, <1>1, <1>2, <1>3, <1>4, Unfold, Frame, Fold

\* The gather loop returns.
LEMMA GatherDoneStep ==
  ASSUME Inv, NEW i \in Inputs, GatherDone(i)
  PROVE  Inv'
<1>1. /\ loop[i] = "idle" /\ loop' = [loop EXCEPT ![i] = "done"]
      /\ UNCHANGED <<mode, run, todo, err, ctxDone, out, consumer, proc, hold,
                      svc, flight, gath, ins, emitted, fwd, fwdAgg, fwdDrop,
                      push, cache, aggs, chan, closed, panicked>>
  BY Zenon DEF GatherDone, startVars, outVars, procVars, inVars, aggVars, chanVars
<1>2. TypeIn'
  BY Zenon, <1>1, Unfold DEF TypeIn
<1>3. IdleInv'
  BY Zenon, <1>1, Unfold DEF IdleInv, Live, TypeIn
<1>4. InputInv'
  BY Zenon, <1>1, Unfold DEF InputInv, TypeIn
<1> QED BY Zenon, <1>1, <1>2, <1>3, <1>4, Unfold, Frame, Fold

\* A metric is emitted.
LEMMA GatherEmitStep ==
  ASSUME Inv, NEW i \in Inputs, GatherEmit(i)
  PROVE  Inv'
<1>1. /\ loop[i] = "gathering" /\ gath' = [gath EXCEPT ![i] = 1] /\ emitted' = emitted + 1
      /\ UNCHANGED <<mode, run, todo, err, ctxDone, out, consumer, proc, hold,
                      svc, flight, loop, ins, fwd, fwdAgg, fwdDrop, push, cache,
                      aggs, chan, closed, panicked>>
  BY Zenon DEF GatherEmit, startVars, outVars, procVars, inVars, aggVars, chanVars
<1>2. TypeIn'
  BY <1>1, Unfold DEF TypeIn
<1>3. InputInv'
  BY Zenon, <1>1, Unfold DEF InputInv, TypeIn
<1> QED BY Zenon, <1>1, <1>2, <1>3, Unfold, Frame, Fold

\* Gather returns.
LEMMA GatherReturnStep ==
  ASSUME Inv, NEW i \in Inputs, GatherReturn(i)
  PROVE  Inv'
<1>1. /\ loop[i] = "gathering" /\ gath[i] = 0
      /\ loop' = [loop EXCEPT ![i] = IF mode = "run" THEN "idle" ELSE "done"]
      /\ UNCHANGED <<mode, run, todo, err, ctxDone, out, consumer, proc, hold,
                      svc, flight, gath, ins, emitted, fwd, fwdAgg, fwdDrop,
                      push, cache, aggs, chan, closed, panicked>>
  BY Zenon DEF GatherReturn, startVars, outVars, procVars, inVars, aggVars, chanVars
<1>2. TypeIn'
  BY Zenon, <1>1, Unfold DEF TypeIn
<1>3. IdleInv'
  BY Zenon, <1>1, Unfold DEF IdleInv, Live, TypeIn
<1>4. InputInv'
  BY Zenon, <1>1, Unfold DEF InputInv, TypeIn
<1> QED BY Zenon, <1>1, <1>2, <1>3, <1>4, Unfold, Frame, Fold

\* A service input emits.
LEMMA ServiceEmitStep ==
  ASSUME Inv, NEW i \in Inputs, ServiceEmit(i)
  PROVE  Inv'
<1>1. /\ svc[i] = "started" /\ flight' = [flight EXCEPT ![i] = 1] /\ emitted' = emitted + 1
      /\ UNCHANGED <<mode, run, todo, err, ctxDone, out, consumer, proc, hold,
                      svc, loop, gath, ins, fwd, fwdAgg, fwdDrop, push, cache,
                      aggs, chan, closed, panicked>>
  BY Zenon DEF ServiceEmit, startVars, outVars, procVars, inVars, aggVars, chanVars
<1>2. TypeIn'
  BY <1>1, Unfold DEF TypeIn
<1>3. InputInv'
  BY Zenon, <1>1, Unfold DEF InputInv, TypeIn
<1>4. FailedStartUndone'
  BY Zenon, <1>1, Unfold DEF FailedStartUndone, TypeIn
<1> QED BY Zenon, <1>1, <1>2, <1>3, <1>4, Unfold, Frame, Fold

\* Gather sends a metric: the channel is open as long as Gather runs.
LEMMA GatherSendStep ==
  ASSUME Inv, NEW i \in Inputs, GatherSend(i)
  PROVE  Inv'
<1>1. /\ gath[i] = 1 /\ gath' = [gath EXCEPT ![i] = 0] /\ Send(1)
      /\ UNCHANGED <<mode, run, todo, err, ctxDone, out, consumer, proc, hold,
                      svc, flight, loop, ins, emitted, fwd, fwdAgg, fwdDrop,
                      push, cache, aggs>>
  BY Zenon DEF GatherSend, startVars, outVars, procVars, inVars, aggVars, chanVars
<1>2. 1 \notin closed /\ 1 \in Channels
  BY Zenon, <1>1, Layout, Unfold DEF InputInv, IdleInv, ClosedInv, Live
<1>3. /\ chan[1] < Cap /\ chan' = [chan EXCEPT ![1] = @ + 1] /\ UNCHANGED <<closed, panicked>>
  BY Zenon, <1>1, <1>2 DEF Send
<1>4. \A c \in Channels : Exhausted(c) => Exhausted(c)'
  BY Zenon, <1>2, <1>3, Unfold DEF TypeChan, Exhausted
<1>5. \A c \in closed : c \in Channels
  BY Zenon, Unfold DEF TypeChan
<1>6. TypeIn'
  BY <1>1, Unfold DEF TypeIn
<1>7. TypeChan'
  BY <1>2, <1>3, AgentAssumption, Unfold DEF TypeChan
<1>8. IdleInv'
  BY Zenon, <1>1, <1>3, Unfold DEF IdleInv, Live, TypeIn, TypeProc
<1>9. InputInv'
  BY Zenon, <1>1, Unfold DEF InputInv, TypeIn
<1>10. ClosedInv'
  BY Zenon, <1>1, <1>3, <1>4, Layout, Unfold DEF ClosedInv, Live, TypeProc
<1>11. AggInv'
  BY Zenon, <1>1, <1>3, <1>4, Layout, Unfold DEF AggInv, TypeAgg
<1>12. EndInv'
  BY Zenon, <1>1, <1>3, <1>4, Layout, Unfold DEF EndInv
<1>13. NeverPanics'
  BY Zenon, <1>3, Unfold DEF NeverPanics
<1> QED BY Zenon, <1>1, <1>6, <1>7, <1>8, <1>9, <1>10, <1>11, <1>12, <1>13, Unfold, Frame, Fold

\* A service input sends a metric: the channel is open until its Stop has returned.
LEMMA ServiceSendStep ==
  ASSUME Inv, NEW i \in Inputs, ServiceSend(i)
  PROVE  Inv'
<1>1. /\ flight[i] = 1 /\ flight' = [flight EXCEPT ![i] = 0] /\ Send(1)
      /\ UNCHANGED <<mode, run, todo, err, ctxDone, out, consumer, proc, hold,
                      svc, loop, gath, ins, emitted, fwd, fwdAgg, fwdDrop, push,
                      cache, aggs>>
  BY DEF ServiceSend, startVars, outVars, procVars, inVars, aggVars, chanVars
<1>2. 1 \notin closed /\ 1 \in Channels
  BY Zenon, <1>1, Layout, Unfold DEF InputInv, IdleInv, ClosedInv, Live
<1>3. /\ chan[1] < Cap /\ chan' = [chan EXCEPT ![1] = @ + 1] /\ UNCHANGED <<closed, panicked>>
  BY <1>1, <1>2 DEF Send
<1>4. \A c \in Channels : Exhausted(c) => Exhausted(c)'
  BY <1>2, <1>3, Unfold DEF TypeChan, Exhausted
<1>5. \A c \in closed : c \in Channels
  BY Unfold DEF TypeChan
<1>6. TypeIn'
  BY <1>1, Unfold DEF TypeIn
<1>7. TypeChan'
  BY <1>2, <1>3, AgentAssumption, Unfold DEF TypeChan
<1>8. IdleInv'
  BY Zenon, <1>1, <1>3, Unfold DEF IdleInv, Live, TypeIn, TypeProc
<1>9. InputInv'
  BY Zenon, <1>1, Unfold DEF InputInv, TypeIn
<1>10. ClosedInv'
  BY <1>1, <1>3, <1>4, Layout, Unfold DEF ClosedInv, Live, TypeProc
<1>11. AggInv'
  BY <1>1, <1>3, <1>4, Layout, Unfold DEF AggInv, TypeAgg
<1>12. EndInv'
  BY <1>1, <1>3, <1>4, Layout, Unfold DEF EndInv
<1>13. FailedStartUndone'
  BY Zenon, <1>1, Unfold DEF FailedStartUndone, TypeIn
<1>14. NeverPanics'
  BY <1>3, Unfold DEF NeverPanics
<1> QED BY Zenon, <1>1, <1>6, <1>7, <1>8, <1>9, <1>10, <1>11, <1>12, <1>13, <1>14, Unfold, Frame, Fold

\* A processor takes a metric.
LEMMA ProcessorAddStep ==
  ASSUME Inv, NEW c \in AllProcessors, ProcessorAdd(c)
  PROVE  Inv'
<1>1. /\ run = "running" /\ proc[c] = "started" /\ hold[c] < MaxHold
      /\ hold' = [hold EXCEPT ![c] = @ + 1]
      /\ chan[c] > 0 /\ chan' = [chan EXCEPT ![c] = @ - 1]
      /\ UNCHANGED <<mode, run, todo, err, ctxDone, out, consumer, proc, svc,
                      flight, loop, gath, ins, emitted, fwd, fwdAgg, fwdDrop,
                      push, cache, aggs, closed, panicked>>
  BY Zenon DEF ProcessorAdd, Receive, Running, startVars, outVars, procVars, inVars, aggVars, chanVars
<1>2. \A d \in Channels : Exhausted(d) => Exhausted(d)'
  BY <1>1, Layout, Unfold DEF TypeChan, Exhausted
<1>3. TypeProc'
  BY <1>1, AgentAssumption, Unfold DEF TypeProc
<1>4. TypeChan'
  BY <1>1, Layout, AgentAssumption, Unfold DEF TypeChan
<1>5. IdleInv'
  BY Zenon, <1>1 DEF IdleInv, Live
<1>6. ClosedInv'
  BY Zenon, <1>1, <1>2, Layout, Unfold DEF ClosedInv, Live, TypeProc
<1>7. AggInv'
  BY Zenon, <1>1, <1>2, Layout, Unfold DEF AggInv, TypeAgg
<1>8. EndInv'
  BY Zenon, <1>1, <1>2, Layout, Unfold DEF EndInv
<1> QED BY Zenon, <1>1, <1>3, <1>4, <1>5, <1>6, <1>7, <1>8, Unfold, Frame, Fold

\* A processor passes a metric on: its destination is open until its Stop has returned.
LEMMA ProcessorSendStep ==
  ASSUME Inv, NEW c \in AllProcessors, ProcessorSend(c)
  PROVE  Inv'
<1>1. /\ proc[c] \in {"started", "stopping"} /\ hold[c] > 0 /\ Send(c + 1)
      /\ hold' = [hold EXCEPT ![c] = @ - 1]
      /\ UNCHANGED <<mode, run, todo, err, ctxDone, out, consumer, proc, svc,
                      flight, loop, gath, ins, emitted, fwd, fwdAgg, fwdDrop,
                      push, cache, aggs>>
  BY Zenon DEF ProcessorSend, startVars, outVars, procVars, inVars, aggVars, chanVars
<1>2. c + 1 \notin closed /\ c + 1 \in Channels
  BY <1>1, Layout, Unfold DEF IdleInv, ClosedInv, TypeProc
<1>3. /\ chan[c + 1] < Cap /\ chan' = [chan EXCEPT ![c + 1] = @ + 1] /\ UNCHANGED <<closed, panicked>>
  BY Zenon, <1>1, <1>2 DEF Send
<1>4. \A d \in Channels : Exhausted(d) => Exhausted(d)'
  BY Zenon, <1>2, <1>3, Unfold DEF TypeChan, Exhausted
<1>5. \A d \in closed : d \in Channels
  BY Zenon, Unfold DEF TypeChan
<1>6. TypeProc'
  BY <1>1, AgentAssumption, Unfold DEF TypeProc
<1>7. TypeChan'
  BY <1>2, <1>3, AgentAssumption, Unfold DEF TypeChan
<1>8. IdleInv'
  <2>1. Live
    BY <1>1, Unfold DEF IdleInv
  <2> QED BY Zenon, <1>1, <2>1 DEF IdleInv, Live
<1>9. ClosedInv'
  BY Zenon, <1>1, <1>3, <1>4, Layout, Unfold DEF ClosedInv, Live, TypeProc
<1>10. AggInv'
  BY Zenon, <1>1, <1>3, <1>4, Layout, Unfold DEF AggInv, TypeAgg
<1>11. EndInv'
  BY Zenon, <1>1, <1>3, <1>4, Layout, Unfold DEF EndInv
<1>12. NeverPanics'
  BY Zenon, <1>3, Unfold DEF NeverPanics
<1> QED BY Zenon, <1>1, <1>6, <1>7, <1>8, <1>9, <1>10, <1>11, <1>12, Unfold, Frame, Fold

\* A processor drops a metric.
LEMMA ProcessorDropStep ==
  ASSUME Inv, NEW c \in AllProcessors, ProcessorDrop(c)
  PROVE  Inv'
<1>1. /\ proc[c] \in {"started", "stopping"} /\ hold[c] > 0
      /\ hold' = [hold EXCEPT ![c] = @ - 1]
      /\ UNCHANGED <<mode, run, todo, err, ctxDone, out, consumer, proc, svc,
                      flight, loop, gath, ins, emitted, fwd, fwdAgg, fwdDrop,
                      push, cache, aggs, chan, closed, panicked>>
  BY Zenon DEF ProcessorDrop, startVars, outVars, procVars, inVars, aggVars, chanVars
<1>2. Live
  BY <1>1, Unfold DEF IdleInv
<1>3. TypeProc'
  BY <1>1, AgentAssumption, Unfold DEF TypeProc
<1>4. IdleInv'
  BY Zenon, <1>1, <1>2 DEF IdleInv, Live
<1>5. ClosedInv'
  <2>1. \A d \in AllProcessors : proc'[d] = "done" => hold'[d] = 0
    BY Zenon, <1>1, <1>2, Unfold DEF ClosedInv, TypeProc
  <2> QED BY Zenon, <1>1, <1>2, <2>1, Unfold DEF ClosedInv, Exhausted
<1> QED BY Zenon, <1>1, <1>3, <1>4, <1>5, Unfold, Frame, Fold

\* The Stop of a processor is called when its source is closed and empty.
LEMMA ProcessorStopStep ==
  ASSUME Inv, NEW c \in AllProcessors, ProcessorStop(c)
  PROVE  Inv'
<1>1. /\ run = "running" /\ proc[c] = "started" /\ Exhausted(c)
      /\ proc' = [proc EXCEPT ![c] = "stopping"]
      /\ UNCHANGED <<mode, run, todo, err, ctxDone, out, consumer, hold, svc,
                      flight, loop, gath, ins, emitted, fwd, fwdAgg, fwdDrop,
                      push, cache, aggs, chan, closed, panicked>>
  BY Zenon DEF ProcessorStop, Running, startVars, outVars, procVars, inVars, aggVars, chanVars
<1>2. TypeProc'
  BY Zenon, <1>1, Unfold DEF TypeProc
<1>3. StartInv'
  BY Zenon, <1>1, Unfold DEF StartInv, TypeProc
<1>4. IdleInv'
  BY Zenon, <1>1, Unfold DEF IdleInv, Live, TypeProc
<1>5. ClosedInv'
  BY <1>1, Unfold DEF ClosedInv, Live, Exhausted, TypeProc
<1>6. EndInv'
  BY Zenon, <1>1, Unfold DEF EndInv, Exhausted, TypeProc
<1>7. FailedStartUndone'
  BY Zenon, <1>1, Unfold DEF FailedStartUndone, TypeProc
<1> QED BY Zenon, <1>1, <1>2, <1>3, <1>4, <1>5, <1>6, <1>7, Unfold, Frame, Fold

\* The Stop of a processor has returned: its destination, which nobody else closes, is closed.
LEMMA ProcessorCloseStep ==
  ASSUME Inv, NEW c \in AllProcessors, ProcessorClose(c)
  PROVE  Inv'
<1>1. /\ proc[c] = "stopping" /\ hold[c] = 0 /\ proc' = [proc EXCEPT ![c] = "done"]
      /\ closed' = closed \cup {c + 1} /\ panicked' = (panicked \/ c + 1 \in closed)
      /\ UNCHANGED <<mode, run, todo, err, ctxDone, out, consumer, hold, svc,
                      flight, loop, gath, ins, emitted, fwd, fwdAgg, fwdDrop,
                      push, cache, aggs, chan>>
  BY Zenon DEF ProcessorClose, Close, startVars, outVars, procVars, inVars, aggVars, chanVars
<1>2. Live /\ c + 1 \notin closed /\ c + 1 \in Channels
  BY Zenon, <1>1, Layout, Unfold DEF IdleInv, ClosedInv
<1>3. panicked' = panicked
  BY Zenon, <1>1, <1>2, Unfold DEF TypeChan
<1>4. \A d \in Channels : Exhausted(d) => Exhausted(d)'
  BY Zenon, <1>1 DEF Exhausted
<1>5. TypeProc'
  BY Zenon, <1>1, Unfold DEF TypeProc
<1>6. TypeChan'
  BY Zenon, <1>1, <1>2, <1>3, Unfold DEF TypeChan
<1>7. StartInv'
  BY Zenon, <1>1, <1>2, Unfold DEF StartInv, TypeProc, Live
<1>8. IdleInv'
  BY Zenon, <1>1, <1>2 DEF IdleInv, Live
<1>9. ClosedInv'
  <2>1. Exhausted(c) /\ c \in closed
    BY Zenon, <1>1, <1>2, Unfold DEF ClosedInv, Exhausted
  <2>2. \A d \in AllProcessors : d + 1 \in closed' <=> proc'[d] = "done"
    BY Zenon, <1>1, <1>2, Order, Unfold DEF ClosedInv, TypeProc
  <2>3. 1 \in closed' <=> ins' = "done"
    BY Zenon, <1>1, <1>2, Layout, Unfold DEF ClosedInv
  <2>4. NAgg > 0 => (AggC \in closed' <=> aggs' = "done")
    BY Zenon, <1>1, <1>2, Order, Unfold DEF ClosedInv
  <2>5. \A e \in closed' : ins' = "done" /\ \A d \in AllProcessors : d < e => proc'[d] = "done"
    BY ZenonT(40), <1>1, <1>2, <2>1, Order, Unfold DEF ClosedInv, TypeProc
  <2>6. NAgg > 0 => \A e \in closed' : e >= AggC => aggs' = "done"
    BY Zenon, <1>1, <1>2, <2>1, Order, Unfold DEF ClosedInv
  <2>7. \A d \in AllProcessors :
          /\ proc'[d] # "new"
          /\ proc'[d] \in {"stopping", "done"} => Exhausted(d)'
          /\ proc'[d] = "done" => hold'[d] = 0
    BY Zenon, <1>1, <1>2, <1>4, <2>1, Layout, Unfold DEF ClosedInv, TypeProc
  <2> QED BY Zenon, <2>2, <2>3, <2>4, <2>5, <2>6, <2>7 DEF ClosedInv
<1>10. AggInv'
  BY Zenon, <1>1, <1>4, Layout, Unfold DEF AggInv
<1>11. EndInv'
  BY Zenon, <1>1, <1>4, Layout, Unfold DEF EndInv, TypeProc
<1>12. FailedStartUndone'
  BY <1>1, Unfold DEF FailedStartUndone, TypeProc
<1>13. NeverPanics'
  BY Zenon, <1>3, Unfold DEF NeverPanics
<1> QED BY Zenon, <1>1, <1>5, <1>6, <1>7, <1>8, <1>9, <1>10, <1>11, <1>12, <1>13, Unfold, Frame, Fold

\* The reader of the aggregators takes a metric.
LEMMA AggregatorReceiveStep ==
  ASSUME Inv, AggregatorReceive
  PROVE  Inv'
<1>1. /\ run = "running" /\ NAgg > 0 /\ fwd = "recv"
      /\ fwd' = "add" /\ fwdAgg' = 1 /\ fwdDrop' = FALSE
      /\ chan[AggSrc] > 0 /\ chan' = [chan EXCEPT ![AggSrc] = @ - 1]
      /\ UNCHANGED <<mode, run, todo, err, ctxDone, out, consumer, proc, hold,
                      svc, flight, loop, gath, ins, emitted, push, cache, aggs,
                      closed, panicked>>
  BY Zenon DEF AggregatorReceive, Receive, Running, startVars, outVars, procVars, inVars, aggVars, chanVars
<1>2. \A d \in Channels : Exhausted(d) => Exhausted(d)'
  BY <1>1, Layout, Unfold DEF TypeChan, Exhausted
<1>3. TypeAgg'
  BY Zenon, <1>1, Unfold DEF TypeAgg
<1>4. TypeChan'
  BY <1>1, Layout, AgentAssumption, Unfold DEF TypeChan
<1>5. IdleInv'
  BY Zenon, <1>1 DEF IdleInv, Live
<1>6. ClosedInv'
  BY Zenon, <1>1, <1>2, Layout, Unfold DEF ClosedInv, Live, TypeProc
<1>7. AggInv'
  BY Zenon, <1>1, <1>2, Layout, Unfold DEF AggInv, TypeAgg
<1>8. EndInv'
  BY Zenon, <1>1, <1>2, Layout, Unfold DEF EndInv
<1> QED BY Zenon, <1>1, <1>3, <1>4, <1>5, <1>6, <1>7, <1>8, Unfold, Frame, Fold

\* A metric is given to an aggregator, which may pass over it.
LEMMA AggregatorAddStep ==
  ASSUME Inv, AggregatorPassOver \/ AggregatorAdd
  PROVE  Inv'
<1>1. /\ fwd = "add" /\ fwdAgg \in Aggregators /\ fwdAgg' = fwdAgg + 1
      /\ fwdDrop' = fwdDrop \/ fwdDrop' = (fwdDrop \/ fwdAgg \in DropOriginal)
      /\ cache' = cache \/ cache' = [cache EXCEPT ![fwdAgg] = TRUE]
      /\ UNCHANGED <<mode, run, todo, err, ctxDone, out, consumer, proc, hold,
                      svc, flight, loop, gath, ins, emitted, fwd, push, aggs,
                      chan, closed, panicked>>
  BY Zenon DEF AggregatorPassOver, AggregatorAdd, startVars, outVars, procVars, inVars, aggVars,
     chanVars
<1>2. TypeAgg'
  <2>1. fwdDrop' \in BOOLEAN
    <3>1. fwdDrop \in BOOLEAN
      BY Zenon, Unfold DEF TypeAgg
    <3> QED BY Zenon, <1>1, <3>1, Zenon
  <2>2. fwdAgg' \in Nat
    BY <1>1, Unfold DEF TypeAgg
  <2>3. cache' \in [Aggregators -> BOOLEAN]
    <3>1. cache \in [Aggregators -> BOOLEAN]
      BY Zenon, Unfold DEF TypeAgg
    <3> QED BY Zenon, <1>1, <3>1
  <2> QED BY Zenon, <1>1, <2>1, <2>2, <2>3, Unfold DEF TypeAgg
<1>3. AggInv'
  BY Zenon, <1>1, Unfold DEF AggInv, Exhausted, TypeAgg
<1> QED BY Zenon, <1>1, <1>2, <1>3, Unfold, Frame, Fold

\* The reader passes a metric on to the outputs, whose channel is open as long as the reader runs.
LEMMA AggregatorPassStep ==
  ASSUME Inv, AggregatorPass
  PROVE  Inv'
<1>1. /\ fwd = "add" /\ fwd' = "recv"
      /\ IF fwdDrop THEN UNCHANGED chanVars ELSE Send(Out)
      /\ UNCHANGED <<mode, run, todo, err, ctxDone, out, consumer, proc, hold,
                      svc, flight, loop, gath, ins, emitted, fwdAgg, fwdDrop,
                      push, cache, aggs>>
  BY Zenon DEF AggregatorPass, startVars, outVars, procVars, inVars, aggVars, chanVars
<1>2. Live /\ NAgg > 0
  BY <1>1, AgentAssumption, Unfold DEF IdleInv, AggInv
<1>3. Out \notin closed /\ Out \in Channels
  BY Zenon, <1>1, <1>2, Layout, Order, Unfold DEF ClosedInv, AggInv
<1>4. /\ chan' \in {chan, [chan EXCEPT ![Out] = @ + 1]} /\ UNCHANGED <<closed, panicked>>
      /\ chan' # chan => chan[Out] < Cap
  BY Zenon, <1>1, <1>3 DEF Send, chanVars
<1>5. \A c \in Channels : Exhausted(c) => Exhausted(c)'
  BY Zenon, <1>3, <1>4, Unfold DEF TypeChan, Exhausted
<1>6. TypeAgg'
  BY Zenon, <1>1, Unfold DEF TypeAgg
<1>7. TypeChan'
  BY <1>3, <1>4, AgentAssumption, Unfold DEF TypeChan
<1>8. IdleInv'
  BY Zenon, <1>1, <1>2 DEF IdleInv, Live
<1>9. ClosedInv'
  BY Zenon, <1>1, <1>4, <1>5, Layout, Unfold DEF ClosedInv, Live
<1>10. AggInv'
  BY Zenon, <1>1, <1>2, <1>4, <1>5, AgentAssumption, Unfold DEF AggInv
<1>11. EndInv'
  BY Zenon, <1>1, <1>4, <1>5, Layout, Unfold DEF EndInv
<1>12. NeverPanics'
  BY Zenon, <1>4, Unfold DEF NeverPanics
<1> QED BY Zenon, <1>1, <1>6, <1>7, <1>8, <1>9, <1>10, <1>11, <1>12, Unfold, Frame, Fold

\* The reader ends.
LEMMA AggregatorDoneStep ==
  ASSUME Inv, AggregatorDone
  PROVE  Inv'
<1>1. /\ run = "running" /\ NAgg > 0 /\ fwd = "recv" /\ Exhausted(AggSrc) /\ fwd' = "done"
      /\ UNCHANGED <<mode, run, todo, err, ctxDone, out, consumer, proc, hold,
                      svc, flight, loop, gath, ins, emitted, fwdAgg, fwdDrop,
                      push, cache, aggs, chan, closed, panicked>>
  BY Zenon DEF AggregatorDone, Running, startVars, outVars, procVars, inVars, aggVars, chanVars
<1>2. TypeAgg'
  BY Zenon, <1>1, Unfold DEF TypeAgg
<1>3. IdleInv'
  BY Zenon, <1>1 DEF IdleInv, Live
<1>4. AggInv'
  BY Zenon, <1>1, AgentAssumption, Unfold DEF AggInv, Exhausted, TypeAgg
<1> QED BY Zenon, <1>1, <1>2, <1>3, <1>4, Unfold, Frame, Fold

\* A period ends.
LEMMA PushPeriodStep ==
  ASSUME Inv, NEW a \in Aggregators, PushPeriod(a)
  PROVE  Inv'
<1>1. /\ run = "running" /\ push[a] = "wait" /\ push' = [push EXCEPT ![a] = "push"]
      /\ UNCHANGED <<mode, run, todo, err, ctxDone, out, consumer, proc, hold,
                      svc, flight, loop, gath, ins, emitted, fwd, fwdAgg,
                      fwdDrop, cache, aggs, chan, closed, panicked>>
  BY Zenon DEF PushPeriod, Running, startVars, outVars, procVars, inVars, aggVars, chanVars
<1>2. TypeAgg'
  BY Zenon, <1>1, Unfold DEF TypeAgg
<1>3. IdleInv'
  BY Zenon, <1>1 DEF IdleInv, Live
<1>4. AggInv'
  BY Zenon, <1>1, Unfold DEF AggInv, Exhausted, TypeAgg
<1> QED BY Zenon, <1>1, <1>2, <1>3, <1>4, Unfold, Frame, Fold

\* The last Push.
LEMMA PushLastStep ==
  ASSUME Inv, NEW a \in Aggregators, PushLast(a)
  PROVE  Inv'
<1>1. /\ fwd = "done" /\ push[a] = "wait" /\ push' = [push EXCEPT ![a] = "last"]
      /\ UNCHANGED <<mode, run, todo, err, ctxDone, out, consumer, proc, hold,
                      svc, flight, loop, gath, ins, emitted, fwd, fwdAgg,
                      fwdDrop, cache, aggs, chan, closed, panicked>>
  BY Zenon DEF PushLast, startVars, outVars, procVars, inVars, aggVars, chanVars
<1>2. TypeAgg'
  BY Zenon, <1>1, Unfold DEF TypeAgg
<1>3. IdleInv'
  BY Zenon, <1>1, Unfold DEF IdleInv, Live, TypeAgg
<1>4. AggInv'
  BY Zenon, <1>1, Unfold DEF AggInv, Exhausted, TypeAgg
<1> QED BY Zenon, <1>1, <1>2, <1>3, <1>4, Unfold, Frame, Fold

\* Push returns.
LEMMA PushReturnStep ==
  ASSUME Inv, NEW a \in Aggregators, PushReturn(a)
  PROVE  Inv'
<1>1. /\ push[a] \in {"push", "last"} /\ ~cache[a]
      /\ push' = [push EXCEPT ![a] = IF @ = "push" THEN "wait" ELSE "done"]
      /\ UNCHANGED <<mode, run, todo, err, ctxDone, out, consumer, proc, hold,
                      svc, flight, loop, gath, ins, emitted, fwd, fwdAgg,
                      fwdDrop, cache, aggs, chan, closed, panicked>>
  BY Zenon DEF PushReturn, startVars, outVars, procVars, inVars, aggVars, chanVars
<1>2. TypeAgg'
  BY Zenon, <1>1, Unfold DEF TypeAgg
<1>3. IdleInv'
  BY Zenon, <1>1, Unfold DEF IdleInv, Live, TypeAgg
<1>4. AggInv'
  BY Zenon, <1>1, Unfold DEF AggInv, Exhausted, TypeAgg
<1> QED BY Zenon, <1>1, <1>2, <1>3, <1>4, Unfold, Frame, Fold

\* Push sends aggregates: the channel is open until all push loops have returned.
LEMMA PushSendStep ==
  ASSUME Inv, NEW a \in Aggregators, PushSend(a)
  PROVE  Inv'
<1>1. /\ push[a] \in {"push", "last"} /\ cache[a] /\ Send(AggC)
      /\ cache' = [cache EXCEPT ![a] = FALSE]
      /\ UNCHANGED <<mode, run, todo, err, ctxDone, out, consumer, proc, hold,
                      svc, flight, loop, gath, ins, emitted, fwd, fwdAgg,
                      fwdDrop, push, aggs>>
  BY Zenon DEF PushSend, startVars, outVars, procVars, inVars, aggVars, chanVars
<1>2. AggC \notin closed /\ AggC \in Channels
  BY Zenon, <1>1, Layout, NAggPositive, Unfold DEF IdleInv, ClosedInv, AggInv
<1>3. /\ chan[AggC] < Cap /\ chan' = [chan EXCEPT ![AggC] = @ + 1] /\ UNCHANGED <<closed, panicked>>
  BY Zenon, <1>1, <1>2 DEF Send
<1>4. \A c \in Channels : Exhausted(c) => Exhausted(c)'
  BY Zenon, <1>2, <1>3, Unfold DEF TypeChan, Exhausted
<1>5. \A c \in closed : c \in Channels
  BY Unfold DEF TypeChan
<1>6. TypeAgg'
  BY Zenon, <1>1, Unfold DEF TypeAgg
<1>7. TypeChan'
  BY <1>2, <1>3, AgentAssumption, Unfold DEF TypeChan
<1>8. IdleInv'
  BY Zenon, <1>1, <1>3, Unfold DEF IdleInv, Live
<1>9. ClosedInv'
  BY Zenon, <1>1, <1>3, <1>4, Layout, Unfold DEF ClosedInv, Live, TypeProc
<1>10. AggInv'
  BY Zenon, <1>1, <1>3, <1>4, Layout, Unfold DEF AggInv, TypeAgg
<1>11. EndInv'
  BY Zenon, <1>1, <1>3, <1>4, Layout, Unfold DEF EndInv
<1>12. NeverPanics'
  BY Zenon, <1>3, Unfold DEF NeverPanics
<1> QED BY Zenon, <1>1, <1>6, <1>7, <1>8, <1>9, <1>10, <1>11, <1>12, Unfold, Frame, Fold

\* runAggregators closes the channel of the aggregates, which nobody else closes.
LEMMA CloseAggregatorsStep ==
  ASSUME Inv, CloseAggregators
  PROVE  Inv'
<1>1. /\ aggs = "run" /\ fwd = "done" /\ \A a \in Aggregators : push[a] = "done"
      /\ aggs' = "done" /\ closed' = closed \cup {AggC}
      /\ panicked' = (panicked \/ AggC \in closed)
      /\ UNCHANGED <<mode, run, todo, err, ctxDone, out, consumer, proc, hold,
                      svc, flight, loop, gath, ins, emitted, fwd, fwdAgg,
                      fwdDrop, push, cache, chan>>
  BY Zenon DEF CloseAggregators, Close, startVars, outVars, procVars, inVars, aggVars, chanVars
<1>2. Live /\ AggC \notin closed /\ AggC \in Channels
  BY <1>1, Layout, AgentAssumption, Unfold DEF IdleInv, ClosedInv, AggInv
<1>3. panicked' = panicked
  BY Zenon, <1>1, <1>2, Unfold DEF TypeChan
<1>4. \A d \in Channels : Exhausted(d) => Exhausted(d)'
  BY Zenon, <1>1 DEF Exhausted
<1>5. TypeAgg'
  BY Zenon, <1>1, Unfold DEF TypeAgg
<1>6. TypeChan'
  BY Zenon, <1>1, <1>2, <1>3, Unfold DEF TypeChan
<1>7. IdleInv'
  BY Zenon, <1>1, <1>2 DEF IdleInv, Live
<1>8. ClosedInv'
  <2>1. NAgg > 0 /\ AggSrc \in closed
    BY <1>1, AgentAssumption, Unfold DEF AggInv, Exhausted
  <2>2. ins = "done" /\ \A d \in AllProcessors : d < AggC => proc[d] = "done"
    BY Zenon, <1>2, <2>1, Order, Unfold DEF ClosedInv
  <2>3. \A d \in AllProcessors : d + 1 \in closed' <=> d + 1 \in closed
    BY Zenon, <1>1, <2>1, Order
  <2>4. 1 \in closed' <=> ins' = "done"
    BY Zenon, <1>1, <1>2, <2>1, Order, Unfold DEF ClosedInv
  <2>5. \A e \in closed' : ins' = "done" /\ \A d \in AllProcessors : d < e => proc'[d] = "done"
    BY Zenon, <1>1, <1>2, <2>2, Unfold DEF ClosedInv
  <2>6. \A d \in AllProcessors :
          /\ proc'[d] # "new"
          /\ proc'[d] \in {"stopping", "done"} => Exhausted(d)'
          /\ proc'[d] = "done" => hold'[d] = 0
          /\ d + 1 \in closed' <=> proc'[d] = "done"
    BY Zenon, <1>1, <1>2, <1>4, <2>3, Layout, Unfold DEF ClosedInv
  <2> QED BY Zenon, <1>1, <2>4, <2>5, <2>6 DEF ClosedInv
<1>9. AggInv'
  BY Zenon, <1>1, <1>4, Layout, AgentAssumption, Unfold DEF AggInv
<1>10. EndInv'
  BY Zenon, <1>1, <1>4, Layout, Unfold DEF EndInv
<1>11. NeverPanics'
  BY Zenon, <1>3, Unfold DEF NeverPanics
<1> QED BY Zenon, <1>1, <1>5, <1>6, <1>7, <1>8, <1>9, <1>10, <1>11, Unfold, Frame, Fold

\* The outputs take a metric.
LEMMA ConsumerReceiveStep ==
  ASSUME Inv, ConsumerReceive
  PROVE  Inv'
<1>1. /\ chan[Out] > 0 /\ chan' = [chan EXCEPT ![Out] = @ - 1]
      /\ UNCHANGED <<mode, run, todo, err, ctxDone, out, consumer, proc, hold,
                      svc, flight, loop, gath, ins, emitted, fwd, fwdAgg,
                      fwdDrop, push, cache, aggs, closed, panicked>>
  BY Zenon DEF ConsumerReceive, Receive, startVars, outVars, procVars, inVars, aggVars, chanVars
<1>2. \A d \in Channels : Exhausted(d) => Exhausted(d)'
  BY <1>1, Layout, Unfold DEF TypeChan, Exhausted
<1>3. TypeChan'
  BY <1>1, Layout, AgentAssumption, Unfold DEF TypeChan
<1>4. ClosedInv'
  BY Zenon, <1>1, <1>2, Layout, Unfold DEF ClosedInv, Live, TypeProc
<1>5. AggInv'
  BY Zenon, <1>1, <1>2, Layout, Unfold DEF AggInv, TypeAgg
<1>6. EndInv'
  BY Zenon, <1>1, <1>2, Layout, Unfold DEF EndInv
<1> QED BY Zenon, <1>1, <1>3, <1>4, <1>5, <1>6, Unfold, Frame, Fold

\* The outputs are closed.
LEMMA ConsumerStopStep ==
  ASSUME Inv, ConsumerStop
  PROVE  Inv'
<1>1. /\ Exhausted(Out) /\ consumer' = "done"
      /\ out' = [o \in Outputs |-> IF out[o] = "connected" THEN "closed" ELSE out[o]]
      /\ UNCHANGED <<mode, run, todo, err, ctxDone, proc, hold, svc, flight,
                      loop, gath, ins, emitted, fwd, fwdAgg, fwdDrop, push,
                      cache, aggs, chan, closed, panicked>>
  BY Zenon DEF ConsumerStop, startVars, outVars, procVars, inVars, aggVars, chanVars
<1>2. TypeOut'
  BY Zenon, <1>1, Unfold DEF TypeOut
<1>3. EndInv'
  BY Zenon, <1>1, Unfold DEF EndInv, Exhausted
<1>4. FailedStartUndone'
  BY Zenon, <1>1, Unfold DEF FailedStartUndone, TypeOut
<1> QED BY Zenon, <1>1, <1>2, <1>3, <1>4, Unfold, Frame, Fold

\* Run returns when all goroutines have.
LEMMA ReturnStep ==
  ASSUME Inv, Return
  PROVE  Inv'
<1>1. /\ run = "running" /\ ins = "done" /\ aggs = "done" /\ consumer = "done" /\ run' = "returned"
      /\ \A c \in AllProcessors : proc[c] = "done"
      /\ UNCHANGED <<mode, todo, err, ctxDone, out, consumer, proc, hold, svc,
                      flight, loop, gath, ins, emitted, fwd, fwdAgg, fwdDrop,
                      push, cache, aggs, chan, closed, panicked>>
  BY Zenon DEF Return, Running, startVars, outVars, procVars, inVars, aggVars, chanVars
<1>2. TypeRun'
  BY Zenon, <1>1, Unfold DEF TypeRun
<1>3. StartInv'
  BY Zenon, <1>1, Unfold DEF StartInv
<1>4. IdleInv'
  BY Zenon, <1>1, Unfold DEF IdleInv, Live, StartInv
<1>5. ClosedInv'
  BY Zenon, <1>1, Unfold DEF ClosedInv, Live, Exhausted, StartInv
<1>6. EndInv'
  BY Zenon, <1>1, Unfold DEF EndInv, Exhausted
<1>7. FailedStartUndone'
  BY Zenon, <1>1, Unfold DEF FailedStartUndone, StartInv, InputInv, EndInv
<1> QED BY Zenon, <1>1, <1>2, <1>3, <1>4, <1>5, <1>6, <1>7, Unfold, Frame, Fold

\* The context is done.
LEMMA CancelStep ==
  ASSUME Inv, Cancel
  PROVE  Inv'
<1>1. /\ ctxDone' = TRUE
      /\ UNCHANGED <<mode, run, todo, err, out, consumer, proc, hold, svc,
                      flight, loop, gath, ins, emitted, fwd, fwdAgg, fwdDrop,
                      push, cache, aggs, chan, closed, panicked>>
  BY Zenon DEF Cancel, startVars, outVars, procVars, inVars, aggVars, chanVars
<1>2. TypeRun'
  BY Zenon, <1>1, Unfold DEF TypeRun
<1> QED BY Zenon, <1>1, <1>2, Unfold, Frame, Fold

\* startInputs returns its error when the service inputs are stopped.
LEMMA UndoneStep ==
  ASSUME Inv, Undone
  PROVE  Inv'
<1>1. /\ run = "undo" /\ todo \notin Inputs /\ run' = "returned"
      /\ UNCHANGED <<mode, todo, err, ctxDone, out, consumer, proc, hold, svc,
                      flight, loop, gath, ins, emitted, fwd, fwdAgg, fwdDrop,
                      push, cache, aggs, chan, closed, panicked>>
  BY Zenon DEF Undone, startVars, outVars, procVars, inVars, aggVars, chanVars
<1>2. TypeRun'
  BY Zenon, <1>1, Unfold DEF TypeRun
<1>3. StartInv'
  BY Zenon, <1>1, Unfold DEF StartInv
<1>4. IdleInv'
  BY Zenon, <1>1, Unfold DEF IdleInv, Live, StartInv
<1>5. ClosedInv'
  BY Zenon, <1>1, Unfold DEF ClosedInv, Live, Exhausted, StartInv
<1>6. EndInv'
  BY Zenon, <1>1, Unfold DEF EndInv, Exhausted, StartInv
<1>7. FailedStartUndone'
  <2>1. err = "inputs" /\ \A i \in Inputs : i < todo
    BY <1>1, AgentAssumption, Unfold DEF StartInv, TypeRun, Inputs
  <2> QED BY Zenon, <1>1, <2>1, Unfold DEF StartInv, InputInv, FailedStartUndone
<1> QED BY Zenon, <1>1, <1>2, <1>3, <1>4, <1>5, <1>6, <1>7, Unfold, Frame, Fold

\* The gather loops have returned.
LEMMA StopInputsStep ==
  ASSUME Inv, StopInputs
  PROVE  Inv'
<1>1. /\ run = "running" /\ ins = "gather" /\ ins' = "stop" /\ todo' = 1
      /\ \A i \in Inputs : loop[i] = "done"
      /\ UNCHANGED <<mode, run, err, ctxDone, out, consumer, proc, hold, svc,
                      flight, loop, gath, emitted, fwd, fwdAgg, fwdDrop, push,
                      cache, aggs, chan, closed, panicked>>
  BY Zenon DEF StopInputs, Running, startVars, outVars, procVars, inVars, aggVars, chanVars
<1>2. TypeRun'
  BY Zenon, <1>1, Unfold DEF TypeRun
<1>3. TypeIn'
  BY Zenon, <1>1, Unfold DEF TypeIn
<1>4. StartInv'
  BY Zenon, <1>1, Unfold DEF StartInv
<1>5. IdleInv'
  BY Zenon, <1>1 DEF IdleInv, Live
<1>6. InputInv'
  <2>1. 1 >= 1 /\ \A i \in Inputs : ~(i < 1)
    BY AgentAssumption DEF Inputs
  <2> QED BY Zenon, <1>1, <2>1, Unfold DEF InputInv
<1>7. ClosedInv'
  BY Zenon, <1>1, Unfold DEF ClosedInv, Live, Exhausted
<1>8. EndInv'
  BY Zenon, <1>1, Unfold DEF EndInv, Exhausted
<1> QED BY Zenon, <1>1, <1>2, <1>3, <1>4, <1>5, <1>6, <1>7, <1>8, Unfold, Frame, Fold

\* The service inputs are stopped, and the first channel is closed.
LEMMA CloseInputsStep ==
  ASSUME Inv, CloseInputs
  PROVE  Inv'
<1>1. /\ run = "running" /\ ins = "stop" /\ todo \notin Inputs /\ ins' = "done"
      /\ closed' = closed \cup {1} /\ panicked' = (panicked \/ 1 \in closed)
      /\ UNCHANGED <<mode, run, todo, err, ctxDone, out, consumer, proc, hold,
                      svc, flight, loop, gath, emitted, fwd, fwdAgg, fwdDrop,
                      push, cache, aggs, chan>>
  BY Zenon DEF CloseInputs, Close, Running, startVars, outVars, procVars, inVars, aggVars, chanVars
<1>2. Live /\ 1 \notin closed /\ 1 \in Channels
  BY Zenon, <1>1, Layout, Unfold DEF ClosedInv, Live
<1>3. panicked' = panicked
  BY Zenon, <1>1, <1>2, Unfold DEF TypeChan
<1>4. \A d \in Channels : Exhausted(d) => Exhausted(d)'
  BY Zenon, <1>1 DEF Exhausted
<1>5. TypeIn'
  BY Zenon, <1>1, Unfold DEF TypeIn
<1>6. TypeChan'
  BY Zenon, <1>1, <1>2, <1>3, Unfold DEF TypeChan
<1>7. IdleInv'
  BY Zenon, <1>1, <1>2 DEF IdleInv, Live
<1>8. InputInv'
  <2>1. todo \in Nat /\ todo >= 1
    BY Zenon, <1>1, Unfold DEF InputInv, TypeRun
  <2>2. \A i \in Inputs : i < todo
    BY <1>1, <2>1, AgentAssumption DEF Inputs
  <2> QED BY Zenon, <1>1, <2>2, Unfold DEF InputInv
<1>9. ClosedInv'
  <2>1. \A d \in AllProcessors : d + 1 \in closed' <=> d + 1 \in closed
    BY Zenon, <1>1, Layout
  <2>2. NAgg > 0 => (AggC \in closed' <=> AggC \in closed) /\ ~(1 >= AggC)
    BY Zenon, <1>1, Order
  <2>3. \A d \in AllProcessors : ~(d < 1)
    BY Layout
  <2>4. closed = {}
    BY Zenon, <1>1, <1>2, Unfold DEF ClosedInv
  <2> QED BY Zenon, <1>1, <1>2, <1>4, <2>1, <2>2, <2>3, <2>4, Layout, Unfold DEF ClosedInv, Exhausted
<1>10. AggInv'
  BY Zenon, <1>1, <1>4, Layout, Unfold DEF AggInv
<1>11. EndInv'
  BY Zenon, <1>1, <1>4, Layout, Unfold DEF EndInv
<1>12. NeverPanics'
  BY <1>3, Unfold DEF NeverPanics
<1> QED BY Zenon, <1>1, <1>5, <1>6, <1>7, <1>8, <1>9, <1>10, <1>11, <1>12, Unfold, Frame, Fold

\* The Stop of a service input is called, or returns.
LEMMA StopInputStep ==
  ASSUME Inv, StopInput
  PROVE  Inv'
<1>1. /\ run = "undo" \/ (run = "running" /\ ins = "stop")
      /\ todo \in Inputs
      /\ \/ svc[todo] = "started" /\ svc' = [svc EXCEPT ![todo] = "stopping"] /\ todo' = todo
         \/ /\ svc[todo] = "failed" \/ (svc[todo] = "stopping" /\ flight[todo] = 0)
            /\ svc' = [svc EXCEPT ![todo] = "stopped"] /\ todo' = todo + 1
         \/ /\ svc[todo] = "new" \/ (svc[todo] = "failed" /\ mode = "run")
            /\ todo' = todo + 1 /\ svc' = svc
      /\ UNCHANGED <<mode, run, err, ctxDone, out, consumer, proc, hold, flight,
                      loop, gath, ins, emitted, fwd, fwdAgg, fwdDrop, push,
                      cache, aggs, chan, closed, panicked>>
  BY Zenon DEF StopInput, Running, startVars, outVars, procVars, inVars, aggVars, chanVars
<1>2. todo \in Nat
  BY Zenon, Unfold DEF TypeRun
<1>3. todo + 1 \in Nat
  BY <1>2
<1>4. TypeRun'
  BY Zenon, <1>1, <1>2, <1>3, Unfold DEF TypeRun
<1>5. TypeIn'
  BY Zenon, <1>1, Unfold DEF TypeIn
<1>6. StartInv'
  <2>1. \A i \in Inputs : i < todo + 1 => i < todo \/ i = todo
    BY <1>1, AgentAssumption DEF Inputs
  <2>2. todo >= 1 => todo + 1 >= 1
    BY <1>2
  <2> QED BY Zenon, <1>1, <2>1, <2>2, Unfold DEF StartInv, TypeIn
<1>7. IdleInv'
  BY Zenon, <1>1, Unfold DEF IdleInv, Live
<1>8. InputInv'
  <2>1. \A i \in Inputs : i < todo + 1 => i < todo \/ i = todo
    BY <1>1, AgentAssumption DEF Inputs
  <2>2. todo >= 1 => todo + 1 >= 1
    BY <1>2
  <2>3. ins = "stop" => run = "running" /\ err = ""
    BY Zenon, <1>1, Unfold DEF IdleInv, StartInv, Live
  <2>4. ins # "done"
    BY Zenon, <1>1, Unfold DEF IdleInv, StartInv, Live
  <2> QED BY ZenonT(40), <1>1, <2>1, <2>2, <2>3, <2>4, Unfold DEF InputInv, TypeIn
<1>9. FailedStartUndone'
  BY Zenon, <1>1 DEF FailedStartUndone
<1> QED BY Zenon, <1>1, <1>4, <1>5, <1>6, <1>7, <1>8, <1>9, Unfold, Frame, Fold

\* The order in which startProcessors starts the processors: the last one first.
LEMMA StartOrder ==
  /\ Out - 1 \in AggProcessors \/ AggProcessors = {}
  /\ \A t \in AggProcessors : /\ t - 1 \in Nat
                              /\ t - 1 \in AggProcessors \/ \A c \in AggProcessors : t - 1 < c
                              /\ \A c \in AggProcessors : t - 1 < c => t < c \/ c = t
  /\ NP \in Processors \/ Processors = {}
  /\ \A t \in Processors : /\ t - 1 \in Nat
                           /\ t - 1 \in Processors \/ \A c \in Processors : t - 1 < c
                           /\ \A c \in Processors : t - 1 < c => t < c \/ c = t
<1>1. Out \in Nat /\ AggC \in Nat /\ NP \in Nat /\ Out - 1 \in Int
  BY Layout, AgentAssumption
<1>2. AggProcessors = {} \/ AggProcessors = AggC .. Out - 1
  BY Zenon DEF AggProcessors
<1>3. AggC >= 1
  BY AgentAssumption DEF AggC
<1>4. Out - 1 \in AggProcessors \/ AggProcessors = {}
  BY <1>1, <1>2
<1>5. ASSUME NEW t \in AggProcessors
      PROVE  /\ t - 1 \in Nat
             /\ t - 1 \in AggProcessors \/ \A c \in AggProcessors : t - 1 < c
             /\ \A c \in AggProcessors : t - 1 < c => t < c \/ c = t
  BY <1>1, <1>2, <1>3
<1>6. NP \in Processors \/ Processors = {}
  BY <1>1 DEF Processors
<1>7. ASSUME NEW t \in Processors
      PROVE  /\ t - 1 \in Nat
             /\ t - 1 \in Processors \/ \A c \in Processors : t - 1 < c
             /\ \A c \in Processors : t - 1 < c => t < c \/ c = t
  BY <1>1 DEF Processors
<1> QED BY Zenon, <1>4, <1>5, <1>6, <1>7

\* initPlugins.
LEMMA InitPluginsStep ==
  ASSUME Inv, InitPlugins
  PROVE  Inv'
<1>1. /\ run = "init"
      /\ \/ run' = "outputs" /\ todo' \in {1, NOut + 1} /\ err' = err
         \/ run' = "returned" /\ err' = "init" /\ todo' = todo
      /\ UNCHANGED <<mode, ctxDone, out, consumer, proc, hold, svc, flight,
                      loop, gath, ins, emitted, fwd, fwdAgg, fwdDrop, push,
                      cache, aggs, chan, closed, panicked>>
  BY Zenon DEF InitPlugins, Phase, Fail, startVars, outVars, procVars, inVars, aggVars, chanVars
<1>2. TypeRun'
  <2>1. 1 \in Nat /\ NOut + 1 \in Nat
    BY AgentAssumption
  <2> QED BY Zenon, <1>1, <2>1, Unfold DEF TypeRun
<1>3. StartInv'
  BY Zenon, <1>1, Unfold DEF StartInv
<1>4. IdleInv'
  BY Zenon, <1>1, Unfold DEF IdleInv, Live, StartInv
<1>5. InputInv'
  BY Zenon, <1>1, Unfold DEF InputInv, IdleInv, StartInv, Live
<1>6. ClosedInv'
  BY Zenon, <1>1, Unfold DEF ClosedInv, Live, Exhausted, StartInv
<1>7. EndInv'
  BY Zenon, <1>1, Unfold DEF EndInv, Exhausted, StartInv
<1>8. FailedStartUndone'
  BY Zenon, <1>1, Unfold DEF FailedStartUndone, StartInv, InputInv
<1> QED BY Zenon, <1>1, <1>2, <1>3, <1>4, <1>5, <1>6, <1>7, <1>8, Unfold, Frame, Fold

\* Before the inputs start nothing moves.
LEMMA Before ==
  ASSUME Inv, run \in {"init", "outputs", "aggprocs", "procs"}
  PROVE  /\ err = "" /\ ~Live /\ ins = "gather" /\ fwd = "recv" /\ closed = {} /\ consumer # "done"
         /\ \A i \in Inputs : svc[i] = "new" /\ flight[i] = 0
<1>1. err = "" /\ ~Live /\ \A i \in Inputs : svc[i] = "new"
  BY Zenon, Unfold DEF StartInv, Live
<1>2. ins = "gather" /\ fwd = "recv" /\ closed = {}
  BY Zenon, <1>1, Unfold DEF IdleInv
<1>3. consumer # "done"
  BY Zenon, <1>2, Unfold DEF EndInv, Exhausted
<1>4. \A i \in Inputs : flight[i] = 0
  BY Zenon, <1>1, Unfold DEF InputInv
<1> QED BY Zenon, <1>1, <1>2, <1>3, <1>4

\* Connect, and the error path.
LEMMA ConnectOutputStep ==
  ASSUME Inv, ConnectOutput
  PROVE  Inv'
<1>1. /\ run = "outputs" /\ todo \in Outputs
      /\ out' \in [Outputs -> {"new", "retry", "connected", "closed"}]
      /\ \/ run' = run /\ todo' \in {todo, todo + 1} /\ err' = err
         \/ /\ run' = "returned" /\ err' = "outputs" /\ todo' = todo
            /\ \A o \in Outputs : out'[o] # "connected"
      /\ UNCHANGED <<mode, ctxDone, consumer, proc, hold, svc, flight, loop,
                      gath, ins, emitted, fwd, fwdAgg, fwdDrop, push, cache,
                      aggs, chan, closed, panicked>>
  BY Zenon DEF ConnectOutput, Phase, Fail, Inv, TypeOut, startVars, outVars, procVars, inVars, aggVars, chanVars
<1>2. TypeRun'
  <2>1. todo \in Nat
    BY Unfold DEF TypeRun
  <2>2. todo + 1 \in Nat
    BY <2>1
  <2> QED BY Zenon, <1>1, <2>1, <2>2, Unfold DEF TypeRun
<1>3. TypeOut'
  BY Zenon, <1>1, Unfold DEF TypeOut
<1>4. StartInv'
  BY Zenon, <1>1, Before, Unfold DEF StartInv
<1>5. IdleInv'
  BY Zenon, <1>1, Before, Unfold DEF IdleInv, Live
<1>6. InputInv'
  BY Zenon, <1>1, Before, Unfold DEF InputInv
<1>7. ClosedInv'
  BY Zenon, <1>1, Before, Unfold DEF ClosedInv, Live, Exhausted
<1>8. EndInv'
  BY Zenon, <1>1, Before, Unfold DEF EndInv, Exhausted
<1>9. FailedStartUndone'
  BY Zenon, <1>1, Before, Unfold DEF FailedStartUndone
<1> QED BY Zenon, <1>1, <1>2, <1>3, <1>4, <1>5, <1>6, <1>7, <1>8, <1>9, Unfold, Frame, Fold

\* The pause between two calls of Connect is cut short.
LEMMA ConnectInterruptedStep ==
  ASSUME Inv, ConnectInterrupted
  PROVE  Inv'
<1>1. /\ run = "outputs" /\ run' = "returned" /\ err' = "outputs"
      /\ out' = [o \in Outputs |-> IF out[o] = "connected" THEN "closed" ELSE out[o]]
      /\ UNCHANGED <<mode, todo, ctxDone, consumer, proc, hold, svc, flight,
                      loop, gath, ins, emitted, fwd, fwdAgg, fwdDrop, push,
                      cache, aggs, chan, closed, panicked>>
  BY Zenon DEF ConnectInterrupted, Fail, startVars, outVars, procVars, inVars, aggVars, chanVars
<1>2. TypeRun'
  BY Zenon, <1>1, Unfold DEF TypeRun
<1>3. TypeOut'
  BY Zenon, <1>1, Unfold DEF TypeOut
<1>4. StartInv'
  BY Zenon, <1>1, Before, Unfold DEF StartInv
<1>5. IdleInv'
  BY Zenon, <1>1, Before, Unfold DEF IdleInv, Live
<1>6. InputInv'
  BY Zenon, <1>1, Before, Unfold DEF InputInv
<1>7. ClosedInv'
  BY Zenon, <1>1, Before, Unfold DEF ClosedInv, Live, Exhausted
<1>8. EndInv'
  BY Zenon, <1>1, Before, Unfold DEF EndInv, Exhausted
<1>9. FailedStartUndone'
  BY Zenon, <1>1, Before, Unfold DEF FailedStartUndone, TypeOut
<1> QED BY Zenon, <1>1, <1>2, <1>3, <1>4, <1>5, <1>6, <1>7, <1>8, <1>9, Unfold, Frame, Fold

\* The outputs are connected; the last aggregator processor is the first to start.
LEMMA OutputsStartedStep ==
  ASSUME Inv, OutputsStarted
  PROVE  Inv'
<1>1. /\ run = "outputs" /\ run' = "aggprocs" /\ todo' = Out - 1
      /\ UNCHANGED <<mode, err, ctxDone, out, consumer, proc, hold, svc, flight,
                      loop, gath, ins, emitted, fwd, fwdAgg, fwdDrop, push,
                      cache, aggs, chan, closed, panicked>>
  BY Zenon DEF OutputsStarted, Phase, startVars, outVars, procVars, inVars, aggVars, chanVars
<1>2. TypeRun'
  <2>1. Out - 1 \in Nat
    BY Layout DEF Channels
  <2> QED BY Zenon, <1>1, <2>1, Unfold DEF TypeRun
<1>3. StartInv'
  <2>1. \A c \in AggProcessors : ~(Out - 1 < c)
    BY Layout DEF AggProcessors, AggC
  <2> QED BY Zenon, <1>1, <2>1, Before, StartOrder DEF StartInv
<1>4. IdleInv'
  BY Zenon, <1>1, Before, Unfold DEF IdleInv, Live
<1>5. InputInv'
  BY Zenon, <1>1, Before, Unfold DEF InputInv
<1>6. ClosedInv'
  BY Zenon, <1>1, Before, Unfold DEF ClosedInv, Live, Exhausted
<1>7. EndInv'
  BY Zenon, <1>1, Before, Unfold DEF EndInv, Exhausted
<1>8. FailedStartUndone'
  BY Zenon, <1>1, Before, Unfold DEF FailedStartUndone
<1> QED BY Zenon, <1>1, <1>2, <1>3, <1>4, <1>5, <1>6, <1>7, <1>8, Unfold, Frame, Fold

\* An aggregator processor is started, or the phase ends.
LEMMA StartAggProcessorStep ==
  ASSUME Inv, StartAggProcessor
  PROVE  Inv'
<1>1. /\ run = "aggprocs"
      /\ UNCHANGED <<mode, ctxDone, out, consumer, hold, svc, flight, loop,
                      gath, ins, emitted, fwd, fwdAgg, fwdDrop, push, cache,
                      aggs, chan, panicked>>
  BY Zenon DEF StartAggProcessor, StartProcessor, Phase, Fail, startVars, outVars, procVars, inVars, aggVars, chanVars
<1>2. AggProcessors \subseteq AllProcessors /\ Processors \subseteq AllProcessors
  BY Zenon DEF AllProcessors
<1>3. /\ err = "" /\ ~Live /\ ins = "gather" /\ fwd = "recv" /\ closed = {} /\ consumer # "done"
      /\ \A i \in Inputs : svc[i] = "new" /\ flight[i] = 0
  BY Zenon, <1>1, Before
<1>4. CASE /\ todo \in AggProcessors /\ proc' = [proc EXCEPT ![todo] = "started"]
           /\ run' = run /\ todo' = todo - 1 /\ err' = err /\ closed' = closed
  <2>1. TypeRun' /\ TypeProc'
    BY Zenon, <1>1, <1>2, <1>4, StartOrder, Unfold DEF TypeRun, TypeProc
  <2>2. StartInv'
    BY Zenon, <1>1, <1>2, <1>3, <1>4, StartOrder, Unfold DEF StartInv, TypeProc
  <2>3. IdleInv'
    BY Zenon, <1>1, <1>2, <1>3, <1>4, Unfold DEF IdleInv, Live, TypeProc
  <2>4. InputInv' /\ EndInv'
    BY Zenon, <1>1, <1>3, <1>4, Unfold DEF InputInv, EndInv
  <2>5. ClosedInv' /\ FailedStartUndone'
    BY Zenon, <1>1, <1>3, <1>4 DEF ClosedInv, FailedStartUndone, Live
  <2> QED BY Zenon, <1>1, <1>4, <2>1, <2>2, <2>3, <2>4, <2>5, Unfold, Frame, Fold
<1>5. CASE /\ proc' = [c \in AllProcessors |->
                         IF c \in AggProcessors /\ proc[c] = "started" THEN "done" ELSE proc[c]]
           /\ closed' = closed \cup {c + 1 : c \in {d \in AggProcessors : proc[d] = "started"}}
           /\ run' = "returned" /\ err' = run /\ todo' = todo
  <2>1. TypeRun' /\ TypeProc'
    BY Zenon, <1>1, <1>5, Unfold DEF TypeRun, TypeProc
  <2>2. TypeChan'
    <3>1. \A c \in AggProcessors : c + 1 \in Channels
      BY Zenon, <1>2, Layout
    <3> QED BY Zenon, <1>1, <1>3, <1>5, <3>1, Unfold DEF TypeChan
  <2>3. StartInv' /\ InputInv' /\ AggInv' /\ EndInv'
    BY Zenon, <1>1, <1>3, <1>5, Unfold DEF StartInv, InputInv, AggInv, EndInv
  <2>4. IdleInv'
    BY Zenon, <1>1, <1>3, <1>5, Unfold DEF IdleInv, Live, TypeProc
  <2>5. ClosedInv'
    BY Zenon, <1>1, <1>5 DEF ClosedInv, Live
  <2>6. FailedStartUndone'
    BY Zenon, <1>1, <1>2, <1>3, <1>5 DEF FailedStartUndone
  <2> QED BY Zenon, <1>1, <1>5, <2>1, <2>2, <2>3, <2>4, <2>5, <2>6, Unfold, Frame, Fold
<1>6. CASE /\ todo \notin AggProcessors /\ proc' = proc /\ closed' = closed
           /\ run' = "procs" /\ todo' = NP /\ err' = err
  <2>1. TypeRun'
    BY Zenon, <1>1, <1>6, AgentAssumption, Unfold DEF TypeRun
  <2>2. \A c \in AggProcessors : proc[c] = "started"
    BY Zenon, <1>1, <1>6, Unfold DEF StartInv
  <2>3. StartInv'
    <3>1. \A c \in Processors : ~(NP < c)
      BY AgentAssumption DEF Processors
    <3> QED BY Zenon, <1>1, <1>3, <1>6, <2>2, <3>1, StartOrder DEF StartInv
  <2>4. IdleInv' /\ InputInv' /\ EndInv'
    BY Zenon, <1>1, <1>3, <1>6, Unfold DEF IdleInv, InputInv, EndInv, Live
  <2>5. ClosedInv' /\ FailedStartUndone'
    BY Zenon, <1>1, <1>6 DEF ClosedInv, FailedStartUndone, Live
  <2> QED BY Zenon, <1>1, <1>6, <2>1, <2>3, <2>4, <2>5, Unfold, Frame, Fold
<1> QED BY Zenon, <1>4, <1>5, <1>6 DEF StartAggProcessor, StartProcessor, Phase, Fail

\* A processor is started, or the phase ends.
LEMMA StartMainProcessorStep ==
  ASSUME Inv, StartMainProcessor
  PROVE  Inv'
<1>1. /\ run = "procs"
      /\ UNCHANGED <<mode, ctxDone, out, consumer, hold, svc, flight, loop,
                      gath, ins, emitted, fwd, fwdAgg, fwdDrop, push, cache,
                      aggs, chan, panicked>>
  BY Zenon DEF StartMainProcessor, StartProcessor, Phase, Fail, startVars, outVars, procVars, inVars, aggVars, chanVars
<1>2. AggProcessors \subseteq AllProcessors /\ Processors \subseteq AllProcessors
  BY DEF AllProcessors
<1>3. /\ err = "" /\ ~Live /\ ins = "gather" /\ fwd = "recv" /\ closed = {} /\ consumer # "done"
      /\ \A i \in Inputs : svc[i] = "new" /\ flight[i] = 0
  BY Zenon, <1>1, Before
<1>4. CASE /\ todo \in Processors /\ proc' = [proc EXCEPT ![todo] = "started"]
           /\ run' = run /\ todo' = todo - 1 /\ err' = err /\ closed' = closed
  <2>1. TypeRun' /\ TypeProc'
    BY Zenon, <1>1, <1>2, <1>4, StartOrder, Unfold DEF TypeRun, TypeProc
  <2>2. StartInv'
    BY Zenon, <1>1, <1>2, <1>3, <1>4, StartOrder, Unfold DEF StartInv, TypeProc
  <2>3. IdleInv'
    BY Zenon, <1>1, <1>2, <1>3, <1>4, Unfold DEF IdleInv, Live, TypeProc
  <2>4. InputInv' /\ EndInv'
    BY Zenon, <1>1, <1>3, <1>4, Unfold DEF InputInv, EndInv
  <2>5. ClosedInv' /\ FailedStartUndone'
    BY Zenon, <1>1, <1>3, <1>4 DEF ClosedInv, FailedStartUndone, Live
  <2> QED BY Zenon, <1>1, <1>4, <2>1, <2>2, <2>3, <2>4, <2>5, Unfold, Frame, Fold
<1>5. CASE /\ proc' = [c \in AllProcessors |->
                         IF c \in Processors /\ proc[c] = "started" THEN "done" ELSE proc[c]]
           /\ closed' = closed \cup {c + 1 : c \in {d \in Processors : proc[d] = "started"}}
           /\ run' = "returned" /\ err' = run /\ todo' = todo
  <2>1. TypeRun' /\ TypeProc'
    BY Zenon, <1>1, <1>5, Unfold DEF TypeRun, TypeProc
  <2>2. TypeChan'
    <3>1. \A c \in Processors : c + 1 \in Channels
      BY Zenon, <1>2, Layout
    <3> QED BY Zenon, <1>1, <1>3, <1>5, <3>1, Unfold DEF TypeChan
  <2>3. StartInv' /\ InputInv' /\ AggInv' /\ EndInv'
    BY Zenon, <1>1, <1>3, <1>5, Unfold DEF StartInv, InputInv, AggInv, EndInv
  <2>4. IdleInv'
    BY Zenon, <1>1, <1>3, <1>5, Unfold DEF IdleInv, Live, TypeProc
  <2>5. ClosedInv'
    BY Zenon, <1>1, <1>5 DEF ClosedInv, Live
  <2>6. FailedStartUndone'
    BY Zenon, <1>1, <1>2, <1>3, <1>5 DEF FailedStartUndone
  <2> QED BY Zenon, <1>1, <1>5, <2>1, <2>2, <2>3, <2>4, <2>5, <2>6, Unfold, Frame, Fold
<1>6. CASE /\ todo \notin Processors /\ proc' = proc /\ closed' = closed
           /\ run' = "inputs" /\ todo' = 1 /\ err' = err
  <2>1. TypeRun'
    BY Zenon, <1>1, <1>6, AgentAssumption, Unfold DEF TypeRun
  <2>2. \A c \in Processors : proc[c] = "started"
    BY Zenon, <1>1, <1>6, Unfold DEF StartInv
  <2>3. StartInv'
    <3>1. \A c \in AllProcessors : proc[c] = "started"
      BY Zenon, <1>1, <2>2, Unfold DEF StartInv, AllProcessors
    <3> QED BY Zenon, <1>1, <1>3, <1>6, <3>1 DEF StartInv
  <2>4. IdleInv' /\ InputInv' /\ EndInv'
    BY Zenon, <1>1, <1>3, <1>6, Unfold DEF IdleInv, InputInv, EndInv, Live
  <2>5. ClosedInv' /\ FailedStartUndone'
    BY Zenon, <1>1, <1>6 DEF ClosedInv, FailedStartUndone, Live
  <2> QED BY Zenon, <1>1, <1>6, <2>1, <2>3, <2>4, <2>5, Unfold, Frame, Fold
<1> QED BY Zenon, <1>4, <1>5, <1>6 DEF StartMainProcessor, StartProcessor, Phase, Fail

\* A service input is started, or fails to.
LEMMA StartInputStep ==
  ASSUME Inv, StartInput
  PROVE  Inv'
<1>1. /\ run = "inputs" /\ todo \in Inputs
      /\ \/ svc' = svc /\ run' = run /\ todo' = todo + 1 /\ err' = err
         \/ svc' = [svc EXCEPT ![todo] = "started"] /\ run' = run /\ todo' = todo + 1 /\ err' = err
         \/ /\ svc' = [svc EXCEPT ![todo] = "failed"] /\ mode # "run"
            /\ run' = run /\ todo' = todo + 1 /\ err' = err
         \/ /\ svc' = [svc EXCEPT ![todo] = "failed"]
            /\ run' = "undo" /\ todo' = 1 /\ err' = "inputs"
      /\ UNCHANGED <<mode, ctxDone, out, consumer, proc, hold, flight, loop,
                      gath, ins, emitted, fwd, fwdAgg, fwdDrop, push, cache,
                      aggs, chan, closed, panicked>>
  BY Zenon DEF StartInput, Phase, startVars, outVars, procVars, inVars, aggVars, chanVars
<1>2. todo \in Nat /\ todo <= todo
  BY <1>1, AgentAssumption DEF Inputs
<1>3. ~Live /\ closed = {} /\ ins = "gather" /\ svc[todo] = "new"
  BY Zenon, <1>1, <1>2, Unfold DEF IdleInv, StartInv, Live
<1>4. TypeRun'
  <2>1. todo + 1 \in Nat /\ 1 \in Nat
    BY <1>2
  <2> QED BY Zenon, <1>1, <2>1, Unfold DEF TypeRun
<1>5. TypeIn'
  BY Zenon, <1>1, Unfold DEF TypeIn
<1>6. StartInv'
  <2>1. \A i \in Inputs : ~(i < 1) /\ (todo + 1 <= i => todo <= i /\ i # todo)
    BY <1>2, AgentAssumption DEF Inputs
  <2>2. 1 >= 1
    OBVIOUS
  <2>3. CASE run' = run
    BY ZenonT(40), <1>1, <2>1, <2>3, Unfold DEF StartInv, TypeIn
  <2>4. CASE run' = "undo"
    BY Zenon, <1>1, <2>1, <2>2, <2>4 DEF StartInv
  <2> QED BY Zenon, <1>1, <2>3, <2>4
<1>7. IdleInv'
  BY Zenon, <1>1, <1>3, Unfold DEF IdleInv, Live
<1>8. InputInv'
  BY Zenon, <1>1, <1>3, Unfold DEF InputInv, TypeIn
<1>9. ClosedInv'
  BY Zenon, <1>1 DEF ClosedInv, Live
<1>10. EndInv'
  BY Zenon, <1>1, Unfold DEF EndInv, Exhausted
<1>11. FailedStartUndone'
  BY Zenon, <1>1 DEF FailedStartUndone
<1> QED BY Zenon, <1>1, <1>4, <1>5, <1>6, <1>7, <1>8, <1>9, <1>10, <1>11, Unfold, Frame, Fold

\* The goroutines of Run start.
LEMMA GoStep ==
  ASSUME Inv, Go
  PROVE  Inv'
<1>1. /\ run = "inputs" /\ run' = "running" /\ todo' = 1 /\ consumer' = "on"
      /\ loop' = [i \in Inputs |-> "idle"]
      /\ UNCHANGED <<mode, err, ctxDone, out, proc, hold, svc, flight, gath,
                      ins, emitted, fwd, fwdAgg, fwdDrop, push, cache, aggs,
                      chan, closed, panicked>>
  BY Zenon DEF Go, Phase, startVars, outVars, procVars, inVars, aggVars, chanVars
<1>2. TypeRun'
  BY Zenon, <1>1, Unfold DEF TypeRun
<1>3. TypeOut'
  BY Zenon, <1>1, Unfold DEF TypeOut
<1>4. TypeIn'
  BY Zenon, <1>1, Unfold DEF TypeIn
<1>5. StartInv'
  BY Zenon, <1>1, Unfold DEF StartInv
<1>6. IdleInv'
  BY Zenon, <1>1 DEF IdleInv, Live
<1>7. InputInv'
  BY Zenon, <1>1, Unfold DEF InputInv, IdleInv, StartInv, Live
<1>8. ClosedInv'
  <2>1. ~Live
    BY Zenon, <1>1 DEF Live
  <2>2. closed = {} /\ ins = "gather" /\ (NAgg > 0 => aggs = "run")
    BY Zenon, <1>1, <2>1, Unfold DEF IdleInv
  <2>3. \A c \in AllProcessors : proc[c] = "started"
    BY Zenon, <1>1, Unfold DEF StartInv
  <2> QED BY Zenon, <1>1, <2>2, <2>3 DEF ClosedInv
<1>9. EndInv'
  BY Zenon, <1>1, Unfold DEF EndInv, Exhausted
<1>10. FailedStartUndone'
  BY Zenon, <1>1, Unfold DEF FailedStartUndone
<1> QED BY Zenon, <1>1, <1>2, <1>3, <1>4, <1>5, <1>6, <1>7, <1>8, <1>9, <1>10, Unfold, Frame, Fold

\* Every step keeps the invariant.
LEMMA InvStep == Inv /\ [Next]_vars => Inv'
<1> SUFFICES ASSUME Inv, [Next]_vars PROVE Inv'
  OBVIOUS
<1>1. CASE Main
  BY Zenon, <1>1, InitPluginsStep, ConnectOutputStep, ConnectInterruptedStep, OutputsStartedStep,
     StartAggProcessorStep, StartMainProcessorStep, StartInputStep, GoStep, StopInputStep,
     UndoneStep, StopInputsStep, CloseInputsStep, CloseAggregatorsStep, ReturnStep
  DEF Main, Start
<1>2. CASE Consumer \/ Reader \/ AggregatorPassOver \/ Cancel
  BY Zenon, <1>2, ConsumerReceiveStep, ConsumerStopStep, AggregatorReceiveStep, AggregatorAddStep,
     AggregatorPassStep, AggregatorDoneStep, CancelStep
  DEF Consumer, Reader
<1>3. CASE \E i \in Inputs : Input(i)
  BY Zenon, <1>3, GatherStep, GatherDoneStep, GatherEmitStep, GatherSendStep, GatherReturnStep,
     ServiceEmitStep, ServiceSendStep
  DEF Input
<1>4. CASE \E c \in AllProcessors : Processor(c) \/ ProcessorDrop(c)
  BY Zenon, <1>4, ProcessorAddStep, ProcessorSendStep, ProcessorStopStep, ProcessorCloseStep,
     ProcessorDropStep
  DEF Processor
<1>5. CASE \E a \in Aggregators : Pusher(a) \/ PushPeriod(a)
  BY Zenon, <1>5, PushLastStep, PushSendStep, PushReturnStep, PushPeriodStep DEF Pusher
<1>6. CASE UNCHANGED vars
  <2>1. UNCHANGED <<mode, run, todo, err, ctxDone, out, consumer, proc, hold,
                    svc, flight, loop, gath, ins, emitted, fwd, fwdAgg,
                    fwdDrop, push, cache, aggs, chan, closed, panicked>>
    BY Zenon, <1>6 DEF vars, startVars, outVars, procVars, inVars, aggVars, chanVars
  <2> QED BY Zenon, <2>1, Unfold, Frame, Fold
<1> QED BY Zenon, <1>1, <1>2, <1>3, <1>4, <1>5, <1>6 DEF Next, Returned
-----------------------------------------------------------------------------
\* The invariant holds of every agent.
THEOREM InvCorrect == Spec => []Inv
  BY InvInit, InvStep, PTL DEF Spec

\* The program counters and channels of every agent stay in their ranges.
THEOREM TypeCorrect == Spec => []TypeOK
  BY InvCorrect, InvImplies, PTL

\* No agent sends on a closed channel or closes one twice, for any number of
\* plugins and in every mode, also when its start fails.
THEOREM NeverPanicsCorrect == Spec => []NeverPanics
<1>1. Inv => NeverPanics
  BY Zenon DEF Inv
<1> QED BY <1>1, InvCorrect, PTL

\* When Run returns without an error, no metric is left in a channel or a plugin.
THEOREM DrainedCorrect == Spec => []Drained
  BY InvCorrect, InvImplies, PTL

\* The goroutines of Run stop in the order of the flow.
THEOREM StopsDownstreamCorrect == Spec => []StopsDownstream
  BY InvCorrect, InvImplies, PTL

\* A failed start leaves no service input running and undoes its own phase.
THEOREM FailedStartUndoneCorrect == Spec => []FailedStartUndone
<1>1. Inv => FailedStartUndone
  BY Zenon DEF Inv
<1> QED BY <1>1, InvCorrect, PTL
-----------------------------------------------------------------------------
(* The running agent is never stuck. *)

\* A goroutine of the inputs can go on: a gather loop that is over or makes its one
\* round, the emission of a metric, the stop of the next input, ...
InputGoes ==
  \/ \E i \in Inputs :
       \/ loop[i] = "idle" /\ (mode = "run" => ctxDone)
       \/ loop[i] = "gathering" /\ gath[i] = 0
       \/ (gath[i] = 1 \/ flight[i] = 1) /\ chan[1] < Cap
  \/ ins = "gather" /\ \A i \in Inputs : loop[i] = "done"
  \/ /\ ins = "stop"
     /\ \/ todo \notin Inputs
        \/ svc[todo] \in {"new", "started", "failed"}
        \/ svc[todo] = "stopping" /\ flight[todo] = 0

\* ... that of the processor that reads channel c, ...
ProcessorGoes(c) ==
  \/ proc[c] = "started" /\ hold[c] < MaxHold /\ chan[c] > 0
  \/ proc[c] \in {"started", "stopping"} /\ hold[c] > 0 /\ chan[c + 1] < Cap
  \/ proc[c] = "started" /\ Exhausted(c)
  \/ proc[c] = "stopping" /\ hold[c] = 0

\* ... the reader of the aggregators, even if each of them needs its lock, ...
ReaderGoes ==
  /\ NAgg > 0
  /\ \/ fwd = "recv" /\ (chan[AggSrc] > 0 \/ Exhausted(AggSrc))
     \/ fwd = "add" /\ fwdAgg \in Aggregators /\ push[fwdAgg] \notin {"push", "last"}
     \/ fwd = "add" /\ fwdAgg \notin Aggregators /\ (fwdDrop \/ chan[Out] < Cap)

\* ... the push loop of aggregator a, ...
PusherGoes(a) ==
  \/ push[a] = "wait" /\ fwd = "done"
  \/ push[a] \in {"push", "last"} /\ (cache[a] => chan[AggC] < Cap)

\* ... runAggregators, the outputs, or Run itself.
EndGoes ==
  \/ aggs = "run" /\ fwd = "done" /\ \A a \in Aggregators : push[a] = "done"
  \/ consumer = "on" /\ (chan[Out] > 0 \/ Exhausted(Out))
  \/ /\ ins = "done" /\ aggs = "done" /\ consumer = "done"
     /\ \A c \in AllProcessors : proc[c] = "done"

\* Someone behind the inputs can go on, and someone at all.
StageGoes ==
  \/ ReaderGoes \/ EndGoes
  \/ \E c \in AllProcessors : ProcessorGoes(c)
  \/ \E a \in Aggregators : PusherGoes(a)

SomeoneGoes == InputGoes \/ StageGoes

\* There is a metric or an aggregate on its way.
Loaded ==
  \/ \E c \in Channels : chan[c] # 0
  \/ \E c \in AllProcessors : hold[c] # 0
  \/ fwd = "add"
  \/ \E a \in Aggregators : push[a] \in {"push", "last"}

\* While the agent runs its goroutines never all wait for each other, be the channels
\* as full as they may and the locks of the aggregators held.  Whatever is on its way
\* moves on without the inputs, and once the agent is to end someone has a step of its
\* way to the end to take, without a new metric, a tick or the end of a period.
NeverStuck ==
  Running => /\ Loaded => StageGoes
             /\ ctxDone \/ mode # "run" => SomeoneGoes

\* The goroutines that Run starts are there when it runs, and an input is not stopped
\* before its turn.
StartedInv ==
  /\ Running => consumer # "off" /\ \A i \in Inputs : loop[i] # "none"
  /\ ins = "gather" /\ run \notin {"undo", "returned"} => \A i \in Inputs : svc[i] # "stopped"
  /\ ins = "stop" /\ Running => \A i \in Inputs : todo <= i => svc[i] # "stopped"

\* It holds of a new agent.
LEMMA StartedInit == Init => StartedInv
  BY Zenon DEF Init, StartedInv, Running

\* The steps that StartedInv is not about.
LEMMA StartedFrame ==
  StartedInv /\ UNCHANGED <<run, consumer, loop, ins, svc, todo>> => StartedInv'
  BY Zenon DEF StartedInv, Running

\* The steps of the start.
LEMMA StartedStart ==
  ASSUME Inv, StartedInv, Start
  PROVE  StartedInv'
<1>1. run \in {"init", "outputs", "aggprocs", "procs", "inputs"}
  BY Zenon DEF Start, InitPlugins, ConnectOutput, ConnectInterrupted, OutputsStarted,
     StartAggProcessor, StartMainProcessor, StartProcessor, StartInput, Go
<1>2. ins = "gather" /\ \A i \in Inputs : svc[i] # "stopped"
  BY <1>1, Unfold DEF StartedInv, IdleInv, Live
<1>3. ins' = ins /\ \A i \in Inputs : svc'[i] # "stopped"
  <2>1. CASE StartInput
    BY <1>2, <2>1, Unfold DEF StartInput, TypeIn
  <2>2. CASE ~StartInput
    <3>1. UNCHANGED <<ins, svc>>
      BY <2>2, Zenon DEF Start, InitPlugins, ConnectOutput, ConnectInterrupted, OutputsStarted,
         StartAggProcessor, StartMainProcessor, StartProcessor, Go, inVars
    <3> QED BY <1>2, <3>1, Zenon
  <2> QED BY <2>1, <2>2
<1>4. CASE Go
  <2>1. consumer' = "on" /\ \A i \in Inputs : loop'[i] = "idle"
    BY <1>4, Zenon DEF Go
  <2> QED BY <1>2, <1>3, <2>1 DEF StartedInv
<1>5. CASE ~Go
  <2>1. run' # "running"
    BY <1>1, <1>5 DEF Start, InitPlugins, ConnectOutput, ConnectInterrupted, OutputsStarted,
       StartAggProcessor, StartMainProcessor, StartProcessor, StartInput, Phase, Fail, startVars
  <2> QED BY <1>2, <1>3, <2>1 DEF StartedInv, Running
<1> QED BY <1>4, <1>5

\* The steps of the inputs.
LEMMA StartedInput ==
  ASSUME Inv, StartedInv, NEW i \in Inputs, Input(i)
  PROVE  StartedInv'
<1>1. /\ UNCHANGED <<run, consumer, ins, svc, todo>>
      /\ loop' = loop \/ \E l \in {"idle", "gathering", "done"} : loop' = [loop EXCEPT ![i] = l]
  BY Zenon DEF Input, Gather, GatherDone, GatherEmit, GatherSend, GatherReturn, ServiceEmit,
     ServiceSend, startVars, outVars
<1>2. \A j \in Inputs : loop'[j] = loop[j] \/ loop'[j] # "none"
  BY <1>1, Unfold DEF TypeIn
<1> QED BY <1>1, <1>2, Zenon DEF StartedInv, Running

\* The steps of runInputs, and the end of the agent.
LEMMA StartedStop ==
  ASSUME Inv, StartedInv,
         StopInput \/ Undone \/ StopInputs \/ CloseInputs \/ CloseAggregators \/ Return
  PROVE  StartedInv'
<1>1. CASE StopInput
  <2>0. UNCHANGED <<run, consumer, loop, ins>>
    BY <1>1, Zenon DEF StopInput, outVars
  <2>1. /\ run = "undo" \/ (Running /\ ins = "stop")
        /\ todo \in Inputs
        /\ \/ svc' = [svc EXCEPT ![todo] = "stopping"] /\ todo' = todo
           \/ svc' = [svc EXCEPT ![todo] = "stopped"] /\ todo' = todo + 1
           \/ svc' = svc /\ todo' = todo + 1
    BY <1>1, Zenon DEF StopInput
  <2>2. CASE run = "undo"
    BY <2>0, <2>1, <2>2, Unfold DEF StartedInv, Running, IdleInv, Live
  <2>3. CASE Running /\ ins = "stop"
    <3>1. \A i \in Inputs : todo <= i => svc[i] # "stopped"
      BY <2>3, Zenon DEF StartedInv
    <3>2. svc' = [svc EXCEPT ![todo] = "stopping"] => \A i \in Inputs : todo <= i => svc'[i] # "stopped"
      BY <3>1, Unfold DEF TypeIn
    <3>3. \A i \in Inputs : todo + 1 <= i => todo <= i /\ i # todo
      BY <2>1 DEF Inputs
    <3>4. svc' = [svc EXCEPT ![todo] = "stopped"] \/ svc' = svc =>
            \A i \in Inputs : todo + 1 <= i => svc'[i] # "stopped"
      BY <3>1, <3>3, Unfold, Zenon DEF TypeIn
    <3>5. \A i \in Inputs : todo' <= i => svc'[i] # "stopped"
      BY <2>1, <3>2, <3>4, Zenon
    <3> QED BY <2>0, <2>1, <2>3, <3>5 DEF StartedInv, Running
  <2> QED BY <2>0, <2>1, <2>2, <2>3
<1>2. CASE StopInputs
  <2>1. /\ UNCHANGED <<run, consumer, loop, svc>> /\ Running
        /\ ins = "gather" /\ ins' = "stop"
    BY <1>2, Zenon DEF StopInputs, outVars
  <2> QED BY <2>1 DEF StartedInv, Running
<1>3. CASE CloseInputs
  <2>1. UNCHANGED <<run, consumer, loop, svc>> /\ ins' = "done"
    BY <1>3, Zenon DEF CloseInputs, startVars, outVars
  <2> QED BY <2>1 DEF StartedInv, Running
<1>4. CASE Undone \/ Return
  <2>1. run' = "returned"
    BY <1>4, Zenon DEF Undone, Return
  <2> QED BY <2>1 DEF StartedInv, Running
<1>5. CASE CloseAggregators
  BY <1>5, StartedFrame, Zenon DEF CloseAggregators, startVars, outVars, inVars
<1> QED BY <1>1, <1>2, <1>3, <1>4, <1>5

\* Every step preserves it.
LEMMA StartedStep == Inv /\ StartedInv /\ [Next]_vars => StartedInv'
<1> SUFFICES ASSUME Inv, StartedInv, [Next]_vars PROVE StartedInv'
  OBVIOUS
<1>1. CASE Main
  BY <1>1, StartedStart, StartedStop, Zenon DEF Main
<1>2. CASE Consumer
  <2>1. UNCHANGED <<run, loop, ins, svc, todo>> /\ (consumer' = consumer \/ consumer' = "done")
    BY <1>2, Zenon DEF Consumer, ConsumerReceive, ConsumerStop, startVars, outVars, inVars
  <2> QED BY <2>1 DEF StartedInv, Running
<1>3. CASE \E i \in Inputs : Input(i)
  BY <1>3, StartedInput, Zenon
<1>4. CASE Cancel \/ Returned \/ Reader \/ AggregatorPassOver
  BY <1>4, StartedFrame, Zenon DEF Cancel, Returned, Reader, AggregatorReceive, AggregatorAdd,
     AggregatorPassOver, AggregatorPass, AggregatorDone, vars, startVars, outVars, inVars
<1>5. CASE \E c \in AllProcessors : Processor(c) \/ ProcessorDrop(c)
  BY <1>5, StartedFrame, Zenon DEF Processor, ProcessorAdd, ProcessorSend, ProcessorDrop,
     ProcessorStop, ProcessorClose, startVars, outVars, inVars
<1>6. CASE \E a \in Aggregators : Pusher(a) \/ PushPeriod(a)
  BY <1>6, StartedFrame, Zenon DEF Pusher, PushLast, PushSend, PushReturn, PushPeriod,
     startVars, outVars, inVars
<1>7. CASE UNCHANGED vars
  BY <1>7, StartedFrame, Zenon DEF vars, startVars, outVars, inVars
<1> QED BY <1>1, <1>2, <1>3, <1>4, <1>5, <1>6, <1>7, Zenon DEF Next

\* Every non-empty set of numbers has a least one ...
LEMMA LeastElement ==
  ASSUME NEW T \in SUBSET Nat, T # {}
  PROVE  \E x \in T : \A y \in T : x <= y
<1> DEFINE R == OpToRel(<, Nat)
<1>1. IsWellFoundedOn(R, Nat)
  BY NatLessThanWellFounded
<1> HIDE DEF R
<1>2. PICK x \in T : \A y \in T : ~(<<y, x>> \in R)
  BY <1>1, WFMin, Zenon
<1>3. \A y \in T : y < x => <<y, x>> \in R
  BY SMT DEF R, OpToRel
<1>4. \A y \in T : ~(y < x)
  BY <1>2, <1>3, Zenon
<1>5. \A y \in T : x <= y
  BY <1>4, SMT
<1> QED
  BY <1>5, Zenon

\* ... and so every non-empty set of channels has a last one.
LEMMA LastChannel ==
  ASSUME NEW T \in SUBSET Channels, T # {}
  PROVE  \E c \in T : \A d \in T : d <= c
<1> DEFINE S == {Out - c : c \in T}
<1>0. \A c \in T : Out - c \in Nat
  BY Layout DEF Channels
<1>1. S \in SUBSET Nat /\ S # {}
  BY <1>0, Zenon
<1>2. PICK x \in S : \A y \in S : x <= y
  <2> HIDE DEF S
  <2> QED BY <1>1, LeastElement, Zenon
<1>3. PICK c \in T : x = Out - c
  OBVIOUS
<1>4. \A d \in T : Out - d \in S
  OBVIOUS
<1>5. \A d \in T : Out - c <= Out - d
  BY <1>2, <1>3, <1>4, Zenon
<1>6. \A d \in T : d <= c
  BY <1>5, Layout DEF Channels
<1> QED BY <1>6, Zenon

\* If nobody behind the inputs can go on, then all channels are empty: the last one that
\* is not would be read.
LEMMA StuckIsEmpty ==
  ASSUME Inv, StartedInv, Running, ~StageGoes
  PROVE  \A c \in Channels : chan[c] = 0
<1> DEFINE T == {c \in Channels : chan[c] # 0}
<1> SUFFICES ASSUME T # {} PROVE FALSE
  BY Zenon
<1>1. PICK c \in T : \A d \in T : d <= c
  <2>1. T \in SUBSET Channels
    BY Zenon
  <2> HIDE DEF T
  <2> QED BY <2>1, LastChannel, Zenon
<1>2. /\ chan \in [Channels -> 0 .. Cap] /\ Cap > 0 /\ Channels \subseteq Nat
      /\ c \in Channels
  BY Unfold, Layout, AgentAssumption DEF TypeChan
<1>3. chan[c] > 0 /\ \A d \in Channels : d > c => chan[d] = 0
  BY <1>1, <1>2
<1>4. CASE c = Out
  BY <1>3, <1>4, Unfold DEF TypeOut, EndInv, Exhausted, StageGoes, EndGoes, StartedInv
<1>5. CASE c \in AllProcessors
  <2>1. chan[c + 1] = 0
    BY <1>2, <1>3, <1>5, Layout
  <2>2. ~ProcessorGoes(c) /\ hold[c] \in 0 .. MaxHold
    BY <1>5, Unfold, Zenon DEF StageGoes, TypeProc
  <2>3. /\ proc[c] \in {"started", "stopping", "done"}
        /\ proc[c] \in {"stopping", "done"} => chan[c] = 0
    BY <1>5, Unfold DEF TypeProc, ClosedInv, Live, Running, Exhausted
  <2>4. MaxHold > 0
    BY AgentAssumption
  <2> QED BY <1>2, <1>3, <2>1, <2>2, <2>3, <2>4 DEF ProcessorGoes
<1>6. CASE NAgg > 0 /\ c = AggSrc
  <2>1. chan[AggC] = 0 /\ chan[Out] = 0
    BY <1>2, <1>3, <1>6, Layout, Order, AgentAssumption DEF AggSrc, AggC
  <2>2. \A a \in Aggregators : push[a] \notin {"push", "last"}
    BY <1>2, <2>1 DEF StageGoes, PusherGoes
  <2>3. fwd \in {"recv", "add", "done"} /\ (fwd = "done" => chan[AggSrc] = 0)
    BY Unfold, Zenon DEF TypeAgg, AggInv, Exhausted
  <2>4. ~ReaderGoes
    BY Zenon DEF StageGoes
  <2> QED BY <1>2, <1>3, <1>6, <2>1, <2>2, <2>3, <2>4 DEF ReaderGoes
<1> QED BY <1>2, <1>4, <1>5, <1>6, Readers, Zenon

\* Nothing is held either: there is room for it.
LEMMA StuckIsUnloaded ==
  ASSUME Inv, StartedInv, Running, ~StageGoes
  PROVE  ~Loaded
<1>0. Cap > 0
  BY AgentAssumption
<1>1. (\A c \in Channels : chan[c] = 0) /\ Cap > 0
  BY <1>0, StuckIsEmpty, Zenon
<1>2. ASSUME NEW c \in AllProcessors PROVE hold[c] = 0
  <2>1. chan[c + 1] < Cap
    BY <1>1, Layout
  <2>2. ~ProcessorGoes(c) /\ hold[c] \in 0 .. MaxHold /\ MaxHold \in Nat
    BY Unfold, AgentAssumption, Zenon DEF StageGoes, TypeProc
  <2>3. /\ proc[c] \in {"started", "stopping", "done"}
        /\ proc[c] = "done" => hold[c] = 0
    BY Unfold DEF TypeProc, ClosedInv, Live, Running
  <2> QED BY <2>1, <2>2, <2>3 DEF ProcessorGoes
<1>3. ASSUME NEW a \in Aggregators PROVE push[a] \notin {"push", "last"}
  <2>1. NAgg > 0
    BY AgentAssumption DEF Aggregators
  <2>2. chan[AggC] < Cap
    BY <1>1, <2>1, Layout
  <2> QED BY <2>2 DEF StageGoes, PusherGoes
<1>4. fwd # "add"
  <2> SUFFICES ASSUME fwd = "add" PROVE FALSE
    OBVIOUS
  <2>1. NAgg > 0
    BY Unfold, AgentAssumption DEF AggInv
  <2>2. chan[Out] < Cap
    BY <1>1, Layout
  <2> QED BY <1>3, <2>1, <2>2 DEF StageGoes, ReaderGoes
<1> QED BY <1>1, <1>2, <1>3, <1>4, Zenon DEF Loaded

\* Then the inputs have ended, ...
LEMMA StuckInputs ==
  ASSUME Inv, StartedInv, Running, ~SomeoneGoes, ctxDone \/ mode # "run"
  PROVE  ins = "done" /\ 1 \in closed
<1>0. ~StageGoes
  BY Zenon DEF SomeoneGoes
<1>1. chan[1] = 0 /\ Cap > 0
  BY <1>0, StuckIsEmpty, Layout, AgentAssumption
<1>2. ~InputGoes
  BY Zenon DEF SomeoneGoes, StageGoes
<1>3. \A i \in Inputs : gath[i] = 0 /\ flight[i] = 0
  BY <1>1, <1>2, Unfold DEF InputGoes, TypeIn
<1>4. \A i \in Inputs : loop[i] = "done"
  BY <1>2, <1>3, Unfold DEF InputGoes, TypeIn, StartedInv
<1>5. ins # "gather"
  BY <1>2, <1>4, Zenon DEF InputGoes
<1>6. ins # "stop"
  <2> SUFFICES ASSUME ins = "stop" PROVE FALSE
    OBVIOUS
  <2>1. todo \in Inputs /\ todo \in Nat
    BY <1>2, Unfold, Zenon DEF InputGoes, TypeRun
  <2>2. svc[todo] # "stopped"
    BY <2>1 DEF StartedInv
  <2> QED BY <1>2, <1>3, <2>1, <2>2, Unfold DEF InputGoes, TypeIn
<1>7. ins = "done"
  BY <1>5, <1>6, Unfold, Zenon DEF TypeIn
<1> QED BY <1>7, Unfold, Zenon DEF ClosedInv, Live, Running

\* ... all channels are closed, the first that is not would be closed next, ...
LEMMA StuckIsClosed ==
  ASSUME Inv, StartedInv, Running, ~SomeoneGoes, ctxDone \/ mode # "run"
  PROVE  \A c \in Channels : c \in closed
<1> DEFINE T == {c \in Channels : c \notin closed}
<1> SUFFICES ASSUME T # {} PROVE FALSE
  BY Zenon
<1>1. PICK c \in T : \A d \in T : c <= d
  <2>1. T \in SUBSET Nat
    BY Layout, Zenon
  <2> HIDE DEF T
  <2> QED BY <2>1, LeastElement, Zenon
<1>2. \A d \in Channels : chan[d] = 0
  BY StuckIsEmpty, Zenon DEF SomeoneGoes
<1>3. c \in Channels /\ c \notin closed /\ \A d \in Channels : d < c => Exhausted(d)
  BY <1>1, <1>2, Layout DEF Exhausted
<1>4. CASE c = 1
  BY <1>3, <1>4, StuckInputs
<1>5. CASE NAgg > 0 /\ c = AggC
  <2>1. Exhausted(AggSrc) /\ chan[AggC] = 0 /\ chan[Out] = 0 /\ Cap > 0
    BY <1>2, <1>3, <1>5, Layout, AgentAssumption DEF AggSrc, AggC
  <2>2. \A a \in Aggregators : push[a] \notin {"push", "last"}
    BY <2>1 DEF SomeoneGoes, StageGoes, PusherGoes
  <2>3. ~ReaderGoes /\ ~EndGoes /\ fwd \in {"recv", "add", "done"}
    BY Unfold, Zenon DEF SomeoneGoes, StageGoes, TypeAgg
  <2>4. fwd = "done"
    BY <1>5, <2>1, <2>2, <2>3 DEF ReaderGoes
  <2>5. \A a \in Aggregators : push[a] = "done"
    BY <2>2, <2>4, Unfold DEF SomeoneGoes, StageGoes, PusherGoes, TypeAgg
  <2>6. aggs = "done"
    BY <2>3, <2>4, <2>5, Unfold DEF EndGoes, TypeAgg
  <2> QED BY <1>3, <1>5, <2>6, Unfold, Zenon DEF ClosedInv, Live, Running
<1>6. ASSUME NEW d \in AllProcessors, c = d + 1 PROVE FALSE
  <2>1. Exhausted(d) /\ chan[d + 1] = 0 /\ Cap > 0
    BY <1>2, <1>3, <1>6, Layout, AgentAssumption
  <2>2. ~ProcessorGoes(d) /\ hold[d] \in 0 .. MaxHold
    BY Unfold, Zenon DEF SomeoneGoes, StageGoes, TypeProc
  <2>3. proc[d] \in {"started", "stopping", "done"}
    BY Unfold DEF TypeProc, ClosedInv, Live, Running
  <2>4. proc[d] = "done"
    BY <2>1, <2>2, <2>3 DEF ProcessorGoes
  <2> QED BY <1>3, <1>6, <2>4, Unfold, Zenon DEF ClosedInv, Live, Running
<1> QED BY <1>3, <1>4, <1>5, <1>6, Closers, Zenon

\* ... and Run can return.
LEMMA StuckNever == Inv /\ StartedInv => NeverStuck
<1> SUFFICES ASSUME Inv, StartedInv, Running, ~SomeoneGoes, ctxDone \/ mode # "run" PROVE FALSE
  BY StuckIsUnloaded, Zenon DEF NeverStuck
<1>1. \A c \in Channels : Exhausted(c)
  BY StuckIsEmpty, StuckIsClosed, Zenon DEF SomeoneGoes, Exhausted
<1>2. ~EndGoes /\ Out \in Channels
  BY Layout, Zenon DEF SomeoneGoes, StageGoes
<1>3. consumer = "done"
  BY <1>1, <1>2, Unfold DEF EndGoes, TypeOut, StartedInv
<1>4. \A c \in AllProcessors : proc[c] = "done"
  <2>1. \A c \in AllProcessors : c + 1 \in closed
    BY <1>1, Layout, Zenon DEF Exhausted
  <2> QED BY <2>1, Unfold, Zenon DEF ClosedInv, Live, Running
<1>5. aggs = "done"
  <2>1. CASE NAgg = 0
    BY <2>1, Unfold, Zenon DEF AggInv
  <2>2. CASE NAgg > 0
    BY <1>1, <2>2, Layout, Unfold, Zenon DEF ClosedInv, Live, Running, Exhausted
  <2> QED BY <2>1, <2>2, AgentAssumption
<1> QED BY <1>2, <1>3, <1>4, <1>5, StuckInputs, Zenon DEF EndGoes

\* No agent ever gets stuck while it runs, for any number of plugins, capacity of the
\* channels and order of the steps.
THEOREM NeverStuckCorrect == Spec => []NeverStuck
  BY InvInit, InvStep, StartedInit, StartedStep, StuckNever, PTL DEF Spec
=============================================================================
