--------------------------- MODULE RunningOutput ---------------------------
(***************************************************************************)
(* An output and its buffer at run time (models/running_output.go), driven *)
(* by the two goroutines the agent gives it (agent/agent.go):              *)
(*  - the adder, the fan-out loop of runOutputs, calls AddMetric for each  *)
(*    metric of the source channel and cancels the flush loops when the    *)
(*    channel is closed;                                                   *)
(*  - the flusher, flushLoop with the goroutine of flushOnce it waits for, *)
(*    calls Write on a tick, on a flush signal and at shutdown, and        *)
(*    WriteBatch when AddMetric reports a full batch.                      *)
(* Every access to shared memory (the buffer, the two atomic counters, the *)
(* BatchReady channel) is a step of its own.                               *)
(***************************************************************************)
EXTENDS Buffer, AzureMonitor, FiniteSets

CONSTANTS
  MetricBatchSize,  \* metric_batch_size
  Aggregating       \* whether the plugin may be an AggregatingOutput, and may not

ASSUME OutputAssumption ==
  /\ MetricBatchSize \in BatchSizes
  /\ Aggregating \subseteq BOOLEAN

VARIABLES
  adder,            \* program counter of the adder
  dropped,          \* what its buffer.Add returned
  droppedMetrics,   \* atomic: drops not yet logged
  reported,         \* drops logged so far
  newMetricsCount,  \* atomic: metrics since the last flush or signal
  batchReady,       \* the BatchReady channel holds a value
  ctxDone,          \* the flush context is cancelled
  tick,             \* the ticker's channel holds a value
  flusher,          \* program counter of the flusher
  call,             \* "Write" or "WriteBatch", which the flusher is in
  final,            \* it is the Write of the shutdown
  nBatches,         \* iterations of the loop of Write that are left
  logged,           \* the drops write() has loaded
  failed,           \* the last call ended in an error
  aggregating,      \* the plugin is an AggregatingOutput
  aggMutex,         \* holder of aggMutex: "free" or "flusher"
  closed            \* Output.Close() has been called

adderVars   == <<adder, dropped, newMetricsCount, batchReady, droppedMetrics>>
flushVars   == <<flusher, call, final, nBatches, logged, failed, reported>>
aggVars     == <<aggregating, aggMutex, azureVars>>
controlVars == <<ctxDone, tick, closed>>
vars == <<bufferVars, adderVars, flushVars, aggVars, controlVars>>

Init ==
  /\ BufferInit
  /\ adder = "ready" /\ dropped = 0
  /\ droppedMetrics = 0 /\ newMetricsCount = 0 /\ batchReady = FALSE
  /\ ctxDone = FALSE /\ tick = FALSE /\ closed = FALSE
  /\ flusher = "favor" /\ call = "Write" /\ final = FALSE /\ nBatches = 0
  /\ logged = 0 /\ reported = 0 /\ failed = FALSE
  /\ aggregating \in Aggregating
  /\ aggMutex = "free" /\ AzureInit
-----------------------------------------------------------------------------
(* The adder: RunningOutput.AddMetric, then the end of runOutputs. *)

\* Mutant of AddAggregate: aggMutex is not taken.
AddAggregateUnlocked ==
  /\ adder = "ready" /\ aggregating
  /\ \E b \in Bucket : AzureAdd(b)
  /\ UNCHANGED <<bufferVars, adderVars, flushVars, aggregating, aggMutex, controlVars>>

AddAggregate ==
  /\ adder = "ready" /\ aggregating
  /\ aggMutex = "free"
  /\ \E b \in Bucket : AzureAdd(b)
  /\ UNCHANGED <<bufferVars, adderVars, flushVars, aggregating, aggMutex, controlVars>>

AddMetric ==
  /\ adder = "ready" /\ ~aggregating
  /\ Add(1)
  /\ dropped' = metricsDropped' - metricsDropped
  /\ adder' = "dropped"
  /\ UNCHANGED <<newMetricsCount, batchReady, droppedMetrics, flushVars, aggVars, controlVars>>

CountDropped ==
  /\ adder = "dropped"
  /\ droppedMetrics' = droppedMetrics + dropped
  /\ dropped' = 0
  /\ adder' = "count"
  /\ UNCHANGED <<bufferVars, newMetricsCount, batchReady, flushVars, aggVars, controlVars>>

CountNew ==
  /\ adder = "count"
  /\ newMetricsCount' = newMetricsCount + 1
  /\ adder' = IF newMetricsCount' = MetricBatchSize THEN "restart" ELSE "ready"
  /\ UNCHANGED <<bufferVars, dropped, batchReady, droppedMetrics, flushVars, aggVars, controlVars>>

RestartCount ==
  /\ adder = "restart"
  /\ newMetricsCount' = 0
  /\ adder' = "signal"
  /\ UNCHANGED <<bufferVars, dropped, batchReady, droppedMetrics, flushVars, aggVars, controlVars>>

\* The send does not block: a signal that is still pending stands for both.
SignalBatch ==
  /\ adder = "signal"
  /\ batchReady' = TRUE
  /\ adder' = "ready"
  /\ UNCHANGED <<bufferVars, dropped, newMetricsCount, droppedMetrics, flushVars, aggVars, controlVars>>

\* The source channel is closed and drained.
Cancel ==
  /\ adder = "ready"
  /\ ctxDone' = TRUE
  /\ adder' = "waiting"
  /\ UNCHANGED <<bufferVars, dropped, newMetricsCount, batchReady, droppedMetrics,
                 flushVars, aggVars, tick, closed>>

\* Mutant of Close: runOutputs does not wait for the flush loops.
CloseEarly ==
  /\ adder = "waiting"
  /\ closed' = TRUE
  /\ adder' = "stopped"
  /\ UNCHANGED <<bufferVars, dropped, newMetricsCount, batchReady, droppedMetrics,
                 flushVars, aggVars, ctxDone, tick>>

\* After wg.Wait(): stopRunningOutputs.
Close ==
  /\ adder = "waiting" /\ flusher = "done"
  /\ closed' = TRUE
  /\ adder' = "stopped"
  /\ UNCHANGED <<bufferVars, dropped, newMetricsCount, batchReady, droppedMetrics,
                 flushVars, aggVars, ctxDone, tick>>

Adder ==
  \/ AddAggregate \/ AddMetric \/ CountDropped \/ CountNew \/ RestartCount
  \/ SignalBatch \/ Cancel \/ Close
-----------------------------------------------------------------------------
(* The flusher: flushLoop, flushOnce, Write, WriteBatch and write. *)

Enter(c, atEnd) ==
  /\ call' = c /\ final' = atEnd /\ failed' = FALSE
  /\ IF c = "WriteBatch"
       THEN flusher' = "batch" /\ nBatches' = 1
       ELSE flusher' = (IF aggregating THEN "push" ELSE "restart") /\ nBatches' = 0
  /\ UNCHANGED <<logged, reported>>

\* The first select favors shutdown.
Favor ==
  /\ flusher = "favor"
  /\ \/ ctxDone /\ Enter("Write", TRUE)
     \/ /\ ~ctxDone
        /\ flusher' = "wait"
        /\ UNCHANGED <<call, final, nBatches, logged, failed, reported>>
  /\ UNCHANGED <<bufferVars, adderVars, aggVars, controlVars>>

\* The second select takes any case that is ready.
Wait ==
  /\ flusher = "wait"
  /\ \/ /\ ctxDone
        /\ Enter("Write", TRUE)
        /\ UNCHANGED <<tick, batchReady>>
     \/ /\ tick
        /\ tick' = FALSE
        /\ Enter("Write", FALSE)
        /\ UNCHANGED batchReady
     \/ /\ batchReady
        /\ batchReady' = FALSE
        /\ Enter("WriteBatch", FALSE)
        /\ UNCHANGED tick
  /\ UNCHANGED <<bufferVars, adder, dropped, newMetricsCount, droppedMetrics,
                 aggVars, ctxDone, closed>>

\* Its case for the user's flush signal, which nobody has to send.
FlushRequested ==
  /\ flusher = "wait"
  /\ Enter("Write", FALSE)
  /\ UNCHANGED <<bufferVars, adderVars, aggVars, controlVars>>

At(pc) == flusher = pc

Goto(pc) ==
  /\ flusher' = pc
  /\ UNCHANGED <<call, final, nBatches, logged, failed, reported>>

\* Push, and buffer.Add of what it returns, with aggMutex held.  A bucket has one
\* aggregate or more.
Push ==
  /\ At("push") /\ aggMutex = "free"
  /\ aggMutex' = "flusher"
  /\ AzurePush
  /\ \/ PushedNow = {} /\ UNCHANGED bufferVars
     \/ /\ PushedNow # {}
        /\ \E n \in 1 .. MaxAdd : n >= Cardinality(PushedNow) /\ Add(n)
  /\ Goto("reset")
  /\ UNCHANGED <<adderVars, aggregating, controlVars>>

PushMore ==
  /\ At("reset")
  /\ AddMore
  /\ UNCHANGED <<adderVars, flushVars, aggVars, controlVars>>

Reset ==
  /\ At("reset") /\ Unlocked
  /\ AzureReset
  /\ aggMutex' = "free"
  /\ Goto("restart")
  /\ UNCHANGED <<bufferVars, adderVars, aggregating, controlVars>>

Restart ==
  /\ At("restart")
  /\ newMetricsCount' = 0
  /\ Goto("len")
  /\ UNCHANGED <<bufferVars, adder, dropped, batchReady, droppedMetrics, aggVars, controlVars>>

\* Mutant of Count: full batches only.
CountFull ==
  /\ At("len") /\ Unlocked
  /\ nBatches' = length \div MetricBatchSize
  /\ flusher' = "batch"
  /\ UNCHANGED <<bufferVars, adderVars, aggVars, controlVars>>
  /\ UNCHANGED <<call, final, logged, failed, reported>>

Count ==
  /\ At("len") /\ Unlocked
  /\ nBatches' = (length \div MetricBatchSize) + 1
  /\ flusher' = "batch"
  /\ UNCHANGED <<bufferVars, adderVars, aggVars, controlVars>>
  /\ UNCHANGED <<call, final, logged, failed, reported>>

\* Mutant of Done: the loop goes on after the flush of the shutdown.
DoneNever == "favor"

Done == IF final THEN "done" ELSE "favor"

TakeBatch ==
  /\ At("batch")
  /\ \/ nBatches = 0 /\ Goto(Done) /\ UNCHANGED bufferVars
     \/ /\ nBatches > 0
        /\ Batch(MetricBatchSize)
        /\ Goto(IF batch' = << >> THEN Done ELSE "load")
  /\ UNCHANGED <<adderVars, aggVars, controlVars>>

\* write() logs the drops it has seen, then sets the counter to zero.
LoadDropped ==
  /\ At("load")
  /\ logged' = droppedMetrics
  /\ flusher' = IF droppedMetrics > 0 THEN "zero" ELSE "output"
  /\ UNCHANGED <<bufferVars, adderVars, aggVars, controlVars>>
  /\ UNCHANGED <<call, final, nBatches, failed, reported>>

\* Mutant of ZeroDropped: the counter is logged and kept.
KeepDropped ==
  /\ At("zero")
  /\ reported' = reported + logged
  /\ logged' = 0
  /\ flusher' = "output"
  /\ UNCHANGED <<bufferVars, adderVars, aggVars, controlVars>>
  /\ UNCHANGED <<call, final, nBatches, failed>>

ZeroDropped ==
  /\ At("zero")
  /\ reported' = reported + logged
  /\ droppedMetrics' = 0
  /\ logged' = 0
  /\ flusher' = "output"
  /\ UNCHANGED <<bufferVars, adder, dropped, newMetricsCount, batchReady, aggVars, controlVars>>
  /\ UNCHANGED <<call, final, nBatches, failed>>

OutputWrite(ok) ==
  /\ At("output")
  /\ Goto(IF ok THEN "accept" ELSE "reject")
  /\ UNCHANGED <<bufferVars, adderVars, aggVars, controlVars>>

WriteSucceeded ==
  /\ At("accept")
  /\ Accept
  /\ nBatches' = nBatches - 1
  /\ flusher' = "batch"
  /\ UNCHANGED <<adderVars, aggVars, controlVars>>
  /\ UNCHANGED <<call, final, logged, failed, reported>>

\* Mutant of WriteFailed: the batch is forgotten.
WriteForgotten ==
  /\ At("reject")
  /\ batch' = << >>
  /\ failed' = TRUE
  /\ flusher' = Done
  /\ UNCHANGED <<ring, adding, stats, fates, adderVars, aggVars, controlVars>>
  /\ UNCHANGED <<call, final, nBatches, logged, reported>>

WriteFailed ==
  /\ At("reject")
  /\ Reject
  /\ failed' = TRUE
  /\ flusher' = Done
  /\ UNCHANGED <<adderVars, aggVars, controlVars>>
  /\ UNCHANGED <<call, final, nBatches, logged, reported>>

\* While it waits for a write, flushOnce takes a tick only to log a warning.
SlowWarning ==
  /\ ~ (At("favor") \/ At("wait") \/ At("done"))
  /\ tick
  /\ tick' = FALSE
  /\ UNCHANGED <<bufferVars, adderVars, flushVars, aggVars, ctxDone, closed>>

Tick ==
  /\ ~At("done") /\ ~tick
  /\ tick' = TRUE
  /\ UNCHANGED <<bufferVars, adderVars, flushVars, aggVars, ctxDone, closed>>

Flusher ==
  \/ Favor \/ Wait \/ Push \/ PushMore \/ Reset \/ Restart \/ Count \/ TakeBatch
  \/ LoadDropped \/ ZeroDropped \/ (\E ok \in BOOLEAN : OutputWrite(ok))
  \/ WriteSucceeded \/ WriteFailed

\* The clock of the AggregatingOutput.
Clock ==
  /\ aggregating
  /\ NewMinute
  /\ UNCHANGED <<bufferVars, adderVars, flushVars, aggregating, aggMutex, controlVars>>

\* runOutputs has returned; nothing else may stop.
Stopped == adder = "stopped" /\ UNCHANGED vars

Next == Adder \/ Flusher \/ FlushRequested \/ SlowWarning \/ Tick \/ Clock \/ Stopped

Spec == Init /\ [][Next]_vars

\* Goroutines make progress, the ticker keeps ticking, AddMetric returns once
\* called, and the service behind the output accepts a write again and again.
Fairness ==
  /\ WF_vars(Flusher) /\ WF_vars(Tick)
  /\ WF_vars(CountDropped \/ CountNew \/ RestartCount \/ SignalBatch \/ Close)
  /\ SF_vars(OutputWrite(TRUE))

FairSpec == Spec /\ Fairness
-----------------------------------------------------------------------------
\* Counters and program counters stay in their ranges.
TypeOK ==
  /\ BufferTypeOK
  /\ adder \in {"ready", "dropped", "count", "restart", "signal", "waiting", "stopped"}
  /\ dropped \in 0 .. 1 /\ droppedMetrics \in Nat /\ reported \in Nat
  /\ newMetricsCount \in 0 .. MetricBatchSize
  /\ batchReady \in BOOLEAN /\ ctxDone \in BOOLEAN /\ tick \in BOOLEAN
  /\ flusher \in {"favor", "wait", "push", "reset", "restart", "len", "batch",
                  "load", "zero", "output", "accept", "reject", "done"}
  /\ call \in {"Write", "WriteBatch"} /\ final \in BOOLEAN /\ failed \in BOOLEAN
  /\ nBatches \in Nat /\ logged \in Nat
  /\ aggregating \in BOOLEAN /\ aggMutex \in {"free", "flusher"}
  /\ minute \in Bucket /\ pushedAt \in Bucket /\ pushedAt <= minute
  /\ cache \in [Bucket -> Nat] /\ aggregated \in [Bucket -> Nat] /\ pushed \in [Bucket -> Nat]
  /\ updated \subseteq Bucket /\ missed \subseteq Bucket
  /\ closed \in BOOLEAN

\* RunningOutput uses its buffer the way the buffer needs: one batch out at a
\* time, answered before the next is taken, whatever AddMetric does meanwhile.
\* All that is proved of the buffer holds of the buffer inside an output.
UsesBuffer == BufferSpec

\* output.go: "Close will not be called until all writes have finished, and
\* Write() will not be called once Close() has been".
NoWriteAroundClose == closed => batch = << >> /\ flusher = "done"

\* The shutdown leaves nothing in the buffer unless its one Write failed: the
\* adder is finished when the last Write counts its batches, and the count covers
\* the partial batch.  Of what an AggregatingOutput was given, all minutes that
\* were complete at the last Push have been pushed as they are; only the ones
\* that were not are left behind, and the ones a Reset took for pushed.
ShutdownDrains ==
  flusher = "done" /\ ~failed =>
    /\ size = 0
    /\ \A b \in Bucket : b < pushedAt => pushed[b] = aggregated[b] \/ b \in missed

\* Every drop is logged at most once: the log never reports more than was
\* dropped.  (It may report less: a drop counted between write's load and its
\* store is forgotten, and drops by Reject are not counted.)
ReportsOnlyDrops == reported + droppedMetrics + dropped <= metricsDropped

\* An aggregate that has not been pushed as it is stays marked for the next Push:
\* none is updated between a Push and the Reset that takes its mark, which
\* aggMutex keeps together, and Reset spares the current minute.  The exception
\* is a minute that ends between the two.
AggregatesMarked ==
  \A b \in Bucket :
    \/ pushed[b] = aggregated[b]
    \/ b \in updated /\ cache[b] = aggregated[b]
    \/ b \in missed

\* azure_monitor.go, Reset: "Metrics updated within the latest 1m have not been
\* pushed and should not be cleared."  (Refuted: Reset looks at the clock after
\* Push did, and a minute that has ended in between is cleared.)
OnlyPushedCleared ==
  \A b \in Bucket : aggregated[b] # pushed[b] => b \in updated

\* A metric in the buffer is written, or dropped for newer ones, sooner or later;
\* only the shutdown may leave it there.
EventuallyAnswered ==
  \A m \in Metric : m \in Held ~> m \notin Held \/ flusher = "done"

\* Once the source channel is closed the output is flushed and closed.
EventuallyClosed == ctxDone ~> closed
=============================================================================
