------------------------ MODULE RunningOutputProofs ------------------------
(* Proofs about an output and its flush loop, for every buffer and batch size. *)
EXTENDS RunningOutput, BufferProofs

\* Every step of the output is a step of its buffer or leaves the buffer alone.
LEMMA StepUsesBuffer == [Next]_vars => [BufferNext]_bufferVars
<1> SUFFICES ASSUME [Next]_vars PROVE [BufferNext]_bufferVars
  OBVIOUS
<1> USE DEF BufferNext
<1>1. CASE Adder
  <2>1. CASE AddMetric
    <3>1. 1 \in 1 .. MaxAdd
      BY BufferAssumption
    <3> QED BY Zenon, <2>1, <3>1 DEF AddMetric
  <2>2. CASE Adder /\ ~AddMetric
    BY Zenon, <2>2 DEF Adder, AddAggregate, CountDropped, CountNew, RestartCount,
      SignalBatch, Cancel, Close
  <2> QED BY Zenon, <1>1, <2>1, <2>2
<1>2. CASE Flusher
  <2>1. CASE Push \/ PushMore
    BY Zenon, <2>1 DEF Push, PushMore
  <2>2. CASE TakeBatch
    BY Zenon, <2>2, OutputAssumption DEF TakeBatch
  <2>3. CASE WriteSucceeded \/ WriteFailed
    BY Zenon, <2>3 DEF WriteSucceeded, WriteFailed
  <2>4. CASE Favor \/ Wait \/ Reset \/ Restart \/ Count
    BY Zenon, <2>4 DEF Favor, Wait, Reset, Restart, Count
  <2>5. CASE LoadDropped \/ ZeroDropped \/ (\E ok \in BOOLEAN : OutputWrite(ok))
    BY Zenon, <2>5 DEF LoadDropped, ZeroDropped, OutputWrite
  <2> QED BY Zenon, <1>2, <2>1, <2>2, <2>3, <2>4, <2>5 DEF Flusher
<1>3. CASE FlushRequested \/ SlowWarning \/ Tick \/ Clock \/ Stopped
  BY Zenon, <1>3 DEF FlushRequested, SlowWarning, Tick, Clock, Stopped, vars
<1>4. CASE UNCHANGED vars
  BY Zenon, <1>4 DEF vars
<1> QED BY Zenon, <1>1, <1>2, <1>3, <1>4 DEF Next

\* Every behaviour of an output is one of its buffer.
THEOREM OutputUsesBuffer == Spec => UsesBuffer
<1>1. Init => BufferInit
  BY Zenon DEF Init
<1> QED BY <1>1, StepUsesBuffer, PTL DEF Spec, UsesBuffer, BufferSpec

\* In a running output, too, each metric gets exactly one Accept or Reject.
THEOREM OutputAnswersOnce == Spec => []AnsweredOnce
BY OutputUsesBuffer, AnswerCorrect, PTL DEF UsesBuffer

-----------------------------------------------------------------------------
(* Shutdown. *)

\* The program counters at which the flusher holds a batch.
Holding == {"load", "zero", "output", "accept", "reject"}

\* How the two goroutines agree on the shutdown.  The last conjuncts bound what
\* the final Write has left to do: it never runs out of iterations with metrics
\* in the buffer.
Control ==
  /\ ctxDone <=> adder \in {"waiting", "stopped"}
  /\ final => ctxDone
  /\ closed => flusher = "done"
  /\ flusher = "done" => final
  /\ flusher \notin Holding => batch = << >>
  /\ nBatches \in Nat
  /\ final /\ flusher = "batch" => size = 0 \/ size < nBatches * MetricBatchSize
  /\ flusher \in Holding => nBatches > 0
  /\ final /\ flusher \in Holding =>
       size = 0 \/ size < (nBatches - 1) * MetricBatchSize
  /\ flusher = "done" /\ ~failed => size = 0

\* The output starts with its flush loop in control of nothing.
LEMMA ControlInit == Init => Control
  BY DEF Init, BufferInit, Control, Holding

\* The adder adds nothing once it has cancelled the flush loops.
LEMMA AdderControl ==
  ASSUME Control, BufferInv, Adder
  PROVE  Control'
<1>1. CASE AddMetric
  <2>1. batch' = batch /\ ~ctxDone
    BY Zenon, <1>1 DEF AddMetric, Add, add, Control
  <2> QED BY Zenon, <1>1, <2>1 DEF AddMetric, Control, flushVars, aggVars, controlVars
<1>2. CASE AddAggregate
  BY Zenon, <1>2 DEF AddAggregate, Control, bufferVars, ring, adderVars, flushVars, controlVars
<1>3. CASE CountDropped \/ CountNew \/ RestartCount \/ SignalBatch
  BY <1>3 DEF CountDropped, CountNew, RestartCount, SignalBatch, Control,
    bufferVars, ring, flushVars, aggVars, controlVars
<1>4. CASE Cancel \/ Close
  BY <1>4 DEF Cancel, Close, Control, bufferVars, ring, flushVars, aggVars
<1> QED BY Zenon, <1>1, <1>2, <1>3, <1>4 DEF Adder

\* Every step of the flush loop preserves the control invariant.
LEMMA FlusherControl ==
  ASSUME Control, BufferInv, Flusher \/ FlushRequested
  PROVE  Control'
<1>0. size \in Nat /\ MetricBatchSize \in Nat \ {0} /\ Cap \in Nat \ {0} /\ size <= Cap
  BY BufferAssumption, OutputAssumption DEF BufferInv, BufferTypeOK
<1>1. CASE Favor \/ FlushRequested
  BY <1>1 DEF Favor, FlushRequested, Enter, Control, Holding, bufferVars, ring, adderVars, aggVars, controlVars
<1>2. CASE Wait
  BY <1>2 DEF Wait, Enter, Control, Holding, bufferVars, ring, aggVars
<1>3. CASE Push
  <2>1. batch' = batch
    BY Zenon, <1>3 DEF Push, Add, add, bufferVars
  <2> QED BY Zenon, <1>3, <2>1 DEF Push, At, Goto, Control, Holding, adderVars, controlVars
<1>4. CASE PushMore
  <2>1. batch' = batch
    BY Zenon, <1>4 DEF PushMore, AddMore, add
  <2> QED BY Zenon, <1>4, <2>1 DEF PushMore, At, Control, Holding, adderVars, flushVars, aggVars, controlVars
<1>5. CASE Reset \/ Restart
  BY <1>5 DEF Reset, Restart, At, Goto, Control, Holding, bufferVars, ring, adderVars, aggVars, controlVars
<1>6. CASE Count
  <2>1. batch = << >> /\ length = size
    <3>1. batch = << >>
      BY Zenon, <1>6 DEF Count, At, Control, Holding
    <3>2. batchSize = 0
      BY <3>1 DEF BufferInv, Bookkeeping, BufferTypeOK
    <3> QED BY <1>0, <3>1, <3>2 DEF length, min
  <2>2. nBatches' = (size \div MetricBatchSize) + 1
    BY Zenon, <1>6, <2>1 DEF Count
  <2>3. nBatches' \in Nat /\ size < nBatches' * MetricBatchSize
    <3>1. ASSUME NEW x \in Nat, NEW b \in Nat \ {0}
          PROVE  x \div b \in Nat /\ x < ((x \div b) + 1) * b
      OBVIOUS
    <3> QED BY <1>0, <2>2, <3>1
  <2> QED BY Zenon, <1>6, <2>1, <2>3 DEF Count, At, Control, Holding, bufferVars, ring, adderVars, aggVars, controlVars
<1>7. CASE TakeBatch
  <2>1. /\ flusher = "batch" /\ batch = << >> /\ nBatches \in Nat
        /\ call' = call /\ final' = final /\ nBatches' = nBatches /\ failed' = failed
        /\ adder' = adder /\ ctxDone' = ctxDone /\ closed' = closed
        /\ ~closed
    BY Zenon, <1>7 DEF TakeBatch, At, Goto, Control, Holding, adderVars, aggVars, controlVars
  <2>2. CASE nBatches = 0
    <3>1. flusher' = Done /\ batch' = batch /\ size' = size
      BY <1>7, <2>2 DEF TakeBatch, Goto, bufferVars, ring
    <3>2. final => size = 0
      BY <1>0, <2>1, <2>2 DEF Control
    <3> QED BY Zenon, <2>1, <2>2, <3>1, <3>2 DEF Control, Holding, Done
  <2>3. CASE nBatches > 0 /\ min(size, MetricBatchSize) = 0
    <3>1. batch' = << >> /\ size' = size /\ flusher' = Done
      BY <1>7, <2>1, <2>3 DEF TakeBatch, Batch, Goto, ring
    <3>2. size = 0
      BY Zenon, <1>0, <2>3 DEF min
    <3> QED BY Zenon, <2>1, <2>3, <3>1, <3>2 DEF Control, Holding, Done
  <2>4. CASE nBatches > 0 /\ min(size, MetricBatchSize) > 0
    <3>1. /\ batch' = [i \in 1 .. min(size, MetricBatchSize) |-> buf[nextby(first, i - 1)]]
          /\ size' = size - min(size, MetricBatchSize)
          /\ flusher' = IF batch' = << >> THEN Done ELSE "load"
      BY <1>7, <2>4 DEF TakeBatch, Batch, Goto
    <3>2. Len(batch') = min(size, MetricBatchSize)
      BY <1>0, <3>1 DEF min
    <3>3. flusher' = "load"
      <4>1. Len(batch') # 0
        BY <1>0, <2>4, <3>2 DEF min
      <4>2. batch' # << >>
        BY <4>1
      <4> QED BY <3>1, <4>2, Zenon
    <3>4. final => size' = 0 \/ size' < (nBatches - 1) * MetricBatchSize
      <4>1. final => size = 0 \/ size < nBatches * MetricBatchSize
        BY Zenon, <2>1 DEF Control
      <4>2. (nBatches - 1) * MetricBatchSize = nBatches * MetricBatchSize - MetricBatchSize
        BY <1>0, <2>1
      <4>3. nBatches * MetricBatchSize \in Int
        BY <1>0, <2>1
      <4>4. size' = 0 \/ size' = size - MetricBatchSize
        BY <1>0, <3>1 DEF min
      <4> QED BY <1>0, <2>4, <4>1, <4>2, <4>3, <4>4 DEF min
    <3> QED BY Zenon, <2>1, <2>4, <3>3, <3>4 DEF Control, Holding
  <2> QED BY <1>0, <2>1, <2>2, <2>3, <2>4 DEF min
<1>8. CASE LoadDropped \/ ZeroDropped \/ (\E ok \in BOOLEAN : OutputWrite(ok))
  BY <1>8 DEF LoadDropped, ZeroDropped, OutputWrite, At, Goto, Control, Holding,
    bufferVars, ring, adderVars, aggVars, controlVars
<1>9. CASE WriteSucceeded
  <2>1. /\ flusher = "accept" /\ flusher' = "batch" /\ nBatches' = nBatches - 1
        /\ batch' = << >> /\ size' = size
        /\ final' = final /\ failed' = failed /\ adder' = adder
        /\ ctxDone' = ctxDone /\ closed' = closed
    BY Zenon, <1>9 DEF WriteSucceeded, Accept, At, adderVars, aggVars, controlVars
  <2>2. nBatches \in Nat /\ nBatches > 0
    BY Zenon, <2>1 DEF Control, Holding
  <2>3. nBatches' \in Nat
    BY <2>1, <2>2
  <2> QED BY Zenon, <2>1, <2>2, <2>3 DEF Control, Holding
<1>10. CASE WriteFailed
  <2>1. /\ flusher = "reject" /\ flusher' = Done /\ failed' = TRUE /\ batch' = << >>
        /\ final' = final /\ nBatches' = nBatches /\ adder' = adder
        /\ ctxDone' = ctxDone /\ closed' = closed
    BY Zenon, <1>10 DEF WriteFailed, Reject, At, adderVars, aggVars, controlVars
  <2> QED BY Zenon, <2>1 DEF Control, Holding, Done
<1> QED
  BY Zenon, <1>1, <1>2, <1>3, <1>4, <1>5, <1>6, <1>7, <1>8, <1>9, <1>10 DEF Flusher

\* Every step of the output preserves the control invariant.
LEMMA ControlStep == Control /\ BufferInv /\ [Next]_vars => Control'
<1> SUFFICES ASSUME Control, BufferInv, [Next]_vars PROVE Control'
  OBVIOUS
<1>1. CASE SlowWarning \/ Tick \/ Clock
  BY <1>1 DEF SlowWarning, Tick, Clock, Control, bufferVars, ring, adderVars, flushVars, controlVars
<1>2. CASE Stopped \/ UNCHANGED vars
  BY <1>2 DEF Stopped, vars, Control, bufferVars, ring, adderVars, flushVars,
    aggVars, controlVars
<1> QED
  BY Zenon, <1>1, <1>2, AdderControl, FlusherControl DEF Next

\* Both invariants, of the goroutines and of the buffer, always hold.
LEMMA ControlInv == Spec => [](Control /\ BufferInv)
<1>1. Init => BufferInit
  BY DEF Init
<1> QED
  BY <1>1, ControlInit, ControlStep, StepUsesBuffer, BufferInitInv, BufferStepInv, PTL
  DEF Spec

\* For every buffer and batch size: an output is closed only after its last
\* write has returned, and never written to again.
THEOREM CloseCorrect == Spec => []NoWriteAroundClose
<1>1. Control => NoWriteAroundClose
  BY Zenon DEF Control, NoWriteAroundClose, Holding
<1> QED BY <1>1, ControlInv, PTL
-----------------------------------------------------------------------------
(* Counts. *)

\* What the two goroutines do to the counters they share: the flusher logs no more
\* drops than the counter still holds when it sets it to zero, and the count of new
\* metrics reaches the batch size only for the moment before it is set back.
Counts ==
  /\ dropped \in 0 .. 1 /\ droppedMetrics \in Nat /\ reported \in Nat /\ logged \in Nat
  /\ reported + droppedMetrics + dropped <= metricsDropped
  /\ flusher = "zero" => logged <= droppedMetrics
  /\ newMetricsCount \in 0 .. MetricBatchSize
  /\ newMetricsCount = MetricBatchSize => adder = "restart"

\* The statistic of drops never goes down.
LEMMA DropsGrow ==
  ASSUME BufferInv, [BufferNext]_bufferVars
  PROVE  metricsDropped \in Nat /\ metricsDropped' \in Nat /\ metricsDropped <= metricsDropped'
<1>1. metricsDropped \in Nat /\ metricsDropped' \in Nat
  BY BufferStepInv DEF BufferInv, BufferTypeOK
<1>2. CASE (\E n \in 1 .. MaxAdd : Add(n)) \/ AddMore
  <2>1. add
    BY Zenon, <1>2 DEF Add, AddMore
  <2> QED BY <1>1, <2>1 DEF add
<1>3. CASE \E n \in BatchSizes : Batch(n)
  BY <1>1, <1>3 DEF Batch, stats
<1>4. CASE Accept
  BY <1>1, <1>4 DEF Accept
<1>5. CASE Reject
  <2>1. metricsDropped' = metricsDropped + (Len(batch) - min(Len(batch), Cap - size))
    BY Zenon, <1>5 DEF Reject
  <2>2. Len(batch) \in Nat /\ Cap - size \in Nat
    BY BufferAssumption DEF BufferInv, BufferTypeOK
  <2> QED BY <1>1, <2>1, <2>2 DEF min
<1>6. CASE UNCHANGED bufferVars
  BY <1>1, <1>6 DEF bufferVars, stats
<1> QED BY Zenon, <1>2, <1>3, <1>4, <1>5, <1>6 DEF BufferNext

\* The counters start at zero.
LEMMA CountsInit == Init => Counts
  BY BufferAssumption, OutputAssumption DEF Init, BufferInit, Counts

\* Every step of the output preserves Counts.
LEMMA CountsStep == Counts /\ BufferInv /\ [Next]_vars => Counts'
<1> SUFFICES ASSUME Counts, BufferInv, [Next]_vars PROVE Counts'
  OBVIOUS
<1>0. /\ metricsDropped \in Nat /\ metricsDropped' \in Nat /\ metricsDropped <= metricsDropped'
      /\ MetricBatchSize \in Nat \ {0}
  BY DropsGrow, StepUsesBuffer, BufferAssumption, OutputAssumption
<1> USE DEF Counts
<1>1. CASE AddMetric
  <2>1. add /\ dropped' = metricsDropped' - metricsDropped
    BY Zenon, <1>1 DEF AddMetric, Add
  <2>2. metricsDropped' = metricsDropped + 1 \/ metricsDropped' = metricsDropped
    BY Zenon, <2>1 DEF add
  <2>3. dropped' \in 0 .. 1 /\ metricsDropped' = metricsDropped + dropped'
    <3>1. ASSUME NEW d \in Nat, NEW e \in Nat, e = d + 1 \/ e = d
          PROVE  e - d \in 0 .. 1 /\ e = d + (e - d)
      BY <3>1
    <3> QED BY <1>0, <2>1, <2>2, <3>1, Zenon
  <2>4. /\ adder = "ready" /\ newMetricsCount' = newMetricsCount
        /\ droppedMetrics' = droppedMetrics /\ reported' = reported
        /\ logged' = logged /\ flusher' = flusher
    BY Zenon, <1>1 DEF AddMetric, flushVars
  <2>5. reported' + droppedMetrics' + dropped' <= metricsDropped'
    <3>1. ASSUME NEW r \in Nat, NEW c \in Nat, NEW d \in 0 .. 1, NEW e \in 0 .. 1, NEW n \in Nat,
                 r + c + d <= n
          PROVE  r + c + e <= n + e
      BY <3>1
    <3> QED BY Zenon, <1>0, <2>3, <2>4, <3>1
  <2> QED BY Zenon, <2>3, <2>4, <2>5
<1>2. CASE AddAggregate
  BY <1>0, <1>2 DEF AddAggregate, adderVars, flushVars
<1>3. CASE CountDropped
  BY <1>0, <1>3 DEF CountDropped, flushVars
<1>4. CASE CountNew
  BY <1>0, <1>4 DEF CountNew, flushVars
<1>5. CASE RestartCount \/ SignalBatch \/ Cancel \/ Close
  BY <1>0, <1>5 DEF RestartCount, SignalBatch, Cancel, Close, flushVars
<1>6. CASE Favor \/ FlushRequested
  BY <1>0, <1>6 DEF Favor, FlushRequested, Enter, adderVars
<1>7. CASE Wait
  BY <1>0, <1>7 DEF Wait, Enter
<1>8. CASE Push \/ Reset
  BY <1>0, <1>8 DEF Push, Reset, Goto, adderVars
<1>9. CASE Restart
  BY <1>0, <1>9 DEF Restart, Goto
<1>10. CASE PushMore
  BY <1>0, <1>10 DEF PushMore, adderVars, flushVars
<1>11. CASE Count
  BY <1>0, <1>11 DEF Count, adderVars
<1>12. CASE TakeBatch
  BY <1>0, <1>12 DEF TakeBatch, Goto, Done, adderVars
<1>13. CASE LoadDropped
  BY <1>0, <1>13 DEF LoadDropped, adderVars
<1>14. CASE ZeroDropped
  BY <1>0, <1>14 DEF ZeroDropped, At
<1>15. CASE \E ok \in BOOLEAN : OutputWrite(ok)
  BY <1>0, <1>15 DEF OutputWrite, Goto, adderVars
<1>16. CASE WriteSucceeded \/ WriteFailed
  BY <1>0, <1>16 DEF WriteSucceeded, WriteFailed, Done, adderVars
<1>17. CASE SlowWarning \/ Tick \/ Clock \/ Stopped \/ UNCHANGED vars
  BY <1>0, <1>17 DEF SlowWarning, Tick, Clock, Stopped, vars, adderVars, flushVars
<1> QED
  BY Zenon, <1>1, <1>2, <1>3, <1>4, <1>5, <1>6, <1>7, <1>8, <1>9, <1>10, <1>11, <1>12,
     <1>13, <1>14, <1>15, <1>16, <1>17 DEF Next, Adder, Flusher

\* Counts always holds.
LEMMA CountsInv == Spec => []Counts
<1>1. Spec => []BufferInv
  BY ControlInv, PTL
<1> QED BY <1>1, CountsInit, CountsStep, PTL DEF Spec

\* For every buffer and batch size, and although drops are counted by one goroutine
\* and logged by another without a lock: no drop is logged twice.
THEOREM ReportsCorrect == Spec => []ReportsOnlyDrops
<1>1. Counts => ReportsOnlyDrops
  BY Zenon DEF Counts, ReportsOnlyDrops
<1> QED BY <1>1, CountsInv, PTL

-----------------------------------------------------------------------------
(* Aggregating outputs. *)

\* The program counters of a Write after its Reset.
AfterReset == {"restart", "len", "batch", "done"} \cup Holding

\* What is known of the aggregate of a bucket.  It is all there until the bucket is
\* too old; it is pushed, marked or missed; between Push and Reset the marked ones
\* of complete minutes are pushed; and the last Reset leaves no mark on those.
Kept(b) ==
  /\ ~Expired(b) \/ b \in updated => cache[b] = aggregated[b]
  /\ pushed[b] = aggregated[b] \/ b \in updated \/ b \in missed
  /\ flusher = "reset" /\ b \in updated /\ b < pushedAt => pushed[b] = aggregated[b]
  /\ final /\ flusher \in AfterReset /\ b < pushedAt => b \notin updated

\* aggMutex is held from Push to Reset.
Aggregates ==
  /\ minute \in Bucket /\ pushedAt \in Bucket /\ pushedAt <= minute
  /\ cache \in [Bucket -> Nat] /\ aggregated \in [Bucket -> Nat] /\ pushed \in [Bucket -> Nat]
  /\ updated \subseteq Bucket /\ missed \subseteq Bucket
  /\ flusher = "reset" => aggMutex # "free"
  /\ ~aggregating => updated = {}
  /\ \A b \in Bucket : Kept(b)

\* Nothing is aggregated at first.
LEMMA AggregatesInit == Init => Aggregates
<1> SUFFICES ASSUME Init PROVE Aggregates
  OBVIOUS
<1>1. 0 \in Bucket
  BY AzureAssumption DEF Bucket
<1> QED BY <1>1 DEF Init, AzureInit, Aggregates, Kept

\* Steps that leave the plugin alone preserve Aggregates, but for Push and Reset.
LEMMA AggregatesFrame ==
  ASSUME Aggregates, UNCHANGED <<aggregating, aggMutex, azureVars>>,
         flusher' = "reset" => flusher = "reset",
         final' /\ flusher' \in AfterReset => (final /\ flusher \in AfterReset) \/ ~aggregating
  PROVE  Aggregates'
<1>1. UNCHANGED <<minute, cache, updated, aggregated, pushed, pushedAt, missed>>
  BY DEF azureVars
<1> QED BY Zenon, <1>1 DEF Aggregates, Kept, Expired, Bucket

\* A metric is aggregated while aggMutex is free.
LEMMA AggregatesAdd ==
  ASSUME Aggregates, Control, AddAggregate
  PROVE  Aggregates'
<1>1. PICK a \in Bucket : AzureAdd(a)
  BY Zenon DEF AddAggregate
<1>2. /\ aggregating /\ aggregating' = aggregating /\ flusher' = flusher /\ final' = final
      /\ aggMutex' = aggMutex /\ flusher # "reset" /\ ~final
  BY Zenon DEF AddAggregate, flushVars, Control, Aggregates
<1>3. UNCHANGED <<minute, pushed, pushedAt>>
  BY Zenon, <1>1 DEF AzureAdd
<1>4. CASE UNCHANGED <<cache, updated, aggregated, missed>>
  <2>1. UNCHANGED <<aggregating, aggMutex, azureVars>>
    BY Zenon, <1>2, <1>3, <1>4 DEF azureVars
  <2> QED BY Zenon, <1>2, <2>1, AggregatesFrame
<1>5. CASE /\ ~Expired(a)
           /\ cache' = [cache EXCEPT ![a] = @ + 1]
           /\ aggregated' = [aggregated EXCEPT ![a] = @ + 1]
           /\ updated' = updated \cup {a}
           /\ missed' = missed \ {a}
  <2>1. ASSUME NEW b \in Bucket PROVE Kept(b)'
    <3>1. CASE b = a
      <4>1. cache[a] = aggregated[a]
        BY <1>5 DEF Aggregates, Kept
      <4>2. cache'[a] = aggregated'[a] /\ a \in updated'
        BY <1>5, <4>1 DEF Aggregates
      <4> QED BY Zenon, <1>2, <3>1, <4>2 DEF Kept
    <3>2. CASE b # a
      <4>1. UNCHANGED <<cache[b], aggregated[b]>>
        BY <1>5, <3>2 DEF Aggregates
      <4>2. (b \in updated' <=> b \in updated) /\ (b \in missed' <=> b \in missed)
        BY Zenon, <1>5, <3>2
      <4> QED BY Zenon, <1>2, <1>3, <4>1, <4>2 DEF Aggregates, Kept, Expired
    <3> QED BY Zenon, <3>1, <3>2
  <2>2. cache' \in [Bucket -> Nat] /\ aggregated' \in [Bucket -> Nat]
    BY <1>5 DEF Aggregates
  <2> QED BY Zenon, <1>2, <1>3, <1>5, <2>1, <2>2 DEF Aggregates, Bucket
<1> QED BY Zenon, <1>1, <1>4, <1>5 DEF AzureAdd

\* Push takes every marked aggregate of a complete minute.
LEMMA AggregatesPush ==
  ASSUME Aggregates, Push
  PROVE  Aggregates'
<1>1. /\ flusher = "push" /\ flusher' = "reset" /\ aggMutex' = "flusher" /\ aggregating' = aggregating
  BY Zenon DEF Push, At, Goto
<1>2. /\ UNCHANGED <<minute, cache, updated, aggregated, missed>> /\ pushedAt' = minute
      /\ pushed' = [b \in Bucket |-> IF b \in PushedNow THEN cache[b] ELSE pushed[b]]
  BY Zenon DEF Push, AzurePush
<1>3. ASSUME NEW b \in Bucket PROVE Kept(b)'
  <2>1. "reset" \notin AfterReset
    BY DEF AfterReset, Holding
  <2>2. CASE b \in updated /\ b < minute
    <3>1. pushed'[b] = cache[b]
      BY Zenon, <1>2, <2>2 DEF PushedNow, Complete
    <3> QED BY Zenon, <1>1, <1>2, <2>1, <2>2, <3>1 DEF Aggregates, Kept
  <2>3. CASE ~ (b \in updated /\ b < minute)
    <3>1. pushed'[b] = pushed[b]
      BY Zenon, <1>2, <2>3 DEF PushedNow, Complete
    <3> QED BY Zenon, <1>1, <1>2, <2>1, <2>3, <3>1 DEF Aggregates, Kept, Expired
  <2> QED BY Zenon, <2>2, <2>3
<1>4. pushed' \in [Bucket -> Nat]
  BY <1>2 DEF Aggregates
<1>5. pushedAt' <= minute' /\ aggMutex' # "free"
  BY <1>1, <1>2 DEF Aggregates, Bucket
<1> QED BY Zenon, <1>1, <1>2, <1>3, <1>4, <1>5 DEF Aggregates, Bucket

\* Reset takes no mark of an aggregate that is not pushed and that it does not miss.
LEMMA AggregatesReset ==
  ASSUME Aggregates, Reset
  PROVE  Aggregates'
<1>1. flusher = "reset" /\ flusher' = "restart" /\ aggregating' = aggregating
  BY Zenon DEF Reset, At, Goto
<1>2. /\ UNCHANGED <<minute, aggregated, pushed, pushedAt>>
      /\ cache' = [b \in Bucket |-> IF Expired(b) THEN 0 ELSE cache[b]]
      /\ updated' = {b \in updated : ~Complete(b)}
      /\ missed' = missed \cup {b \in updated : pushedAt <= b /\ Complete(b)}
  BY Zenon DEF Reset, AzureReset
<1>3. ASSUME NEW b \in Bucket PROVE Kept(b)'
  <2>0. minute \in Nat /\ pushedAt \in Nat /\ b \in Nat /\ Retention \in Nat \ {0} /\ pushedAt <= minute
    BY AzureAssumption DEF Aggregates, Bucket
  <2>1. Expired(b) => Complete(b)
    BY <2>0 DEF Expired, Complete
  <2>2. b < pushedAt => Complete(b)
    BY <2>0 DEF Complete
  <2>3. b < pushedAt \/ pushedAt <= b
    BY <2>0
  <2>4. (Expired(b)' <=> Expired(b)) /\ (Complete(b)' <=> Complete(b))
    BY Zenon, <1>2 DEF Expired, Complete
  <2>5. ~Expired(b)' \/ b \in updated' => cache'[b] = aggregated'[b]
    BY Zenon, <1>2, <2>1, <2>4 DEF Aggregates, Kept
  <2>6. pushed'[b] = aggregated'[b] \/ b \in updated' \/ b \in missed'
    BY Zenon, <1>1, <1>2, <2>3 DEF Aggregates, Kept
  <2>7. b < pushedAt' => b \notin updated'
    BY Zenon, <1>2, <2>2
  <2>8. flusher' # "reset"
    BY <1>1
  <2> QED BY Zenon, <2>5, <2>6, <2>7, <2>8 DEF Kept
<1>4. cache' \in [Bucket -> Nat]
  BY <1>2 DEF Aggregates
<1>5. flusher' # "reset"
  BY <1>1
<1> QED BY Zenon, <1>1, <1>2, <1>3, <1>4, <1>5 DEF Aggregates, Bucket

\* The clock goes on, between Push and Reset too.
LEMMA AggregatesClock ==
  ASSUME Aggregates, Clock
  PROVE  Aggregates'
<1>1. UNCHANGED <<flusher, final, aggregating, aggMutex, cache, updated, aggregated, pushed, pushedAt, missed>>
  BY Zenon DEF Clock, NewMinute, flushVars
<1>2. minute' \in Bucket /\ pushedAt <= minute' /\ minute' = minute + 1
  BY AzureAssumption DEF Clock, NewMinute, Aggregates, Bucket
<1>3. ASSUME NEW b \in Bucket PROVE Kept(b)'
  <2>1. ~Expired(b)' => ~Expired(b)
    BY <1>2, AzureAssumption DEF Expired, Aggregates, Bucket
  <2> QED BY Zenon, <1>1, <2>1 DEF Aggregates, Kept
<1> QED BY Zenon, <1>1, <1>2, <1>3 DEF Aggregates, Bucket

\* Every step of the output preserves Aggregates.
LEMMA AggregatesStep == Aggregates /\ Control /\ [Next]_vars => Aggregates'
<1> SUFFICES ASSUME Aggregates, Control, [Next]_vars PROVE Aggregates'
  OBVIOUS
<1>1. CASE AddMetric \/ CountDropped \/ CountNew \/ RestartCount \/ SignalBatch \/ Cancel \/ Close
  <2>1. UNCHANGED <<aggregating, aggMutex, azureVars, flusher, final>>
    BY Zenon, <1>1 DEF AddMetric, CountDropped, CountNew, RestartCount, SignalBatch, Cancel, Close,
       flushVars, aggVars
  <2> QED BY Zenon, <2>1, AggregatesFrame
<1>2. CASE Favor \/ FlushRequested \/ Wait
  <2>1. UNCHANGED <<aggregating, aggMutex, azureVars>>
    BY Zenon, <1>2 DEF Favor, FlushRequested, Wait, aggVars
  <2>2. flusher' \in {"wait", "batch", "push", "restart"}
    BY Zenon, <1>2 DEF Favor, FlushRequested, Wait, Enter
  <2>3. \/ flusher' = "wait"
        \/ \E c \in {"Write", "WriteBatch"}, f \in BOOLEAN : Enter(c, f) /\ (f => c = "Write")
    BY <1>2 DEF Favor, FlushRequested, Wait
  <2>4. final' /\ flusher' \in AfterReset => ~aggregating
    BY <2>3 DEF Enter, AfterReset, Holding
  <2>5. flusher' # "reset"
    BY <2>2
  <2> QED BY Zenon, <2>1, <2>4, <2>5, AggregatesFrame
<1>3. CASE PushMore \/ SlowWarning \/ Tick \/ Stopped \/ UNCHANGED vars
  <2>1. UNCHANGED <<aggregating, aggMutex, azureVars, flusher, final>>
    BY Zenon, <1>3 DEF PushMore, SlowWarning, Tick, Stopped, vars, flushVars, aggVars
  <2> QED BY Zenon, <2>1, AggregatesFrame
<1>4. CASE \/ Restart \/ Count \/ TakeBatch \/ LoadDropped \/ ZeroDropped
           \/ (\E ok \in BOOLEAN : OutputWrite(ok)) \/ WriteSucceeded \/ WriteFailed
  <2>1. UNCHANGED <<aggregating, aggMutex, azureVars, final>>
    BY Zenon, <1>4 DEF Restart, Count, TakeBatch, LoadDropped, ZeroDropped, OutputWrite, WriteSucceeded,
       WriteFailed, Goto, aggVars
  <2>2. flusher \in AfterReset
    BY <1>4 DEF Restart, Count, TakeBatch, LoadDropped, ZeroDropped, OutputWrite, WriteSucceeded,
       WriteFailed, At, AfterReset, Holding
  <2>3. flusher' # "reset"
    BY <1>4 DEF Restart, Count, TakeBatch, LoadDropped, ZeroDropped, OutputWrite, WriteSucceeded,
       WriteFailed, Goto, Done
  <2> QED BY Zenon, <2>1, <2>2, <2>3, AggregatesFrame
<1> QED
  BY Zenon, <1>1, <1>2, <1>3, <1>4, AggregatesAdd, AggregatesPush, AggregatesReset, AggregatesClock
     DEF Next, Adder, Flusher

\* Aggregates always holds.
LEMMA AggregatesInv == Spec => []Aggregates
<1>1. Spec => []Control
  BY ControlInv, PTL
<1> QED BY <1>1, AggregatesInit, AggregatesStep, PTL DEF Spec

\* For every sequence of metrics, flushes and turns of the clock: an aggregate of an
\* AggregatingOutput that is not pushed as it is stays marked for the next Push, unless
\* its minute ended between a Push and the Reset after it.
THEOREM AggregatesCorrect == Spec => []AggregatesMarked
<1>1. Aggregates => AggregatesMarked
  BY Zenon DEF Aggregates, Kept, AggregatesMarked
<1> QED BY <1>1, AggregatesInv, PTL

\* For every buffer and batch size: a shutdown whose last Write succeeds leaves no metric
\* in the buffer, and of an AggregatingOutput no aggregate of a minute that was complete
\* at the last Push, unless a Reset missed it.
THEOREM DrainCorrect == Spec => []ShutdownDrains
<1>1. Control /\ Aggregates => ShutdownDrains
  <2> SUFFICES ASSUME Control, Aggregates, flusher = "done", ~failed
               PROVE  size = 0 /\ \A b \in Bucket : b < pushedAt => pushed[b] = aggregated[b] \/ b \in missed
    BY Zenon DEF ShutdownDrains
  <2>1. size = 0 /\ final
    BY Zenon DEF Control
  <2>2. flusher \in AfterReset
    BY DEF AfterReset
  <2> QED BY Zenon, <2>1, <2>2 DEF Aggregates, Kept
<1> QED BY <1>1, ControlInv, AggregatesInv, PTL

-----------------------------------------------------------------------------
(* Types. *)

AdderStates == {"ready", "dropped", "count", "restart", "signal", "waiting", "stopped"}

FlusherStates == {"favor", "wait", "push", "reset", "restart", "len", "batch",
                  "load", "zero", "output", "accept", "reject", "done"}

\* The parts of TypeOK that the other invariants do not imply.
Places ==
  /\ adder \in AdderStates /\ flusher \in FlusherStates
  /\ call \in {"Write", "WriteBatch"} /\ aggMutex \in {"free", "flusher"}

Flags ==
  /\ batchReady \in BOOLEAN /\ ctxDone \in BOOLEAN /\ tick \in BOOLEAN
  /\ final \in BOOLEAN /\ failed \in BOOLEAN
  /\ aggregating \in BOOLEAN /\ closed \in BOOLEAN

\* The goroutines start at the beginning, with the flags down.
LEMMA PlacesInit == Init => Places /\ Flags
<1> SUFFICES ASSUME Init PROVE Places /\ Flags
  OBVIOUS
<1>1. Places
  BY DEF Init, Places, AdderStates, FlusherStates
<1>2. aggregating \in BOOLEAN
  BY Zenon, OutputAssumption DEF Init
<1> QED BY Zenon, <1>1, <1>2 DEF Init, Flags

\* Every step of the output preserves Places ...
LEMMA PlacesStep == Places /\ [Next]_vars => Places'
<1> SUFFICES ASSUME Places, [Next]_vars PROVE Places'
  OBVIOUS
<1> USE DEF Places, AdderStates, FlusherStates
<1>1. CASE Adder
  BY <1>1 DEF Adder, AddAggregate, AddMetric, CountDropped, CountNew, RestartCount, SignalBatch,
     Cancel, Close, adderVars, flushVars, aggVars
<1>2. CASE Favor \/ FlushRequested \/ Wait
  BY <1>2 DEF Favor, FlushRequested, Wait, Enter, adderVars, aggVars
<1>3. CASE Push \/ PushMore \/ Reset \/ Restart
  BY <1>3 DEF Push, PushMore, Reset, Restart, Goto, adderVars, flushVars, aggVars
<1>4. CASE Count
  BY <1>4 DEF Count, adderVars, aggVars
<1>5. CASE TakeBatch
  BY <1>5 DEF TakeBatch, Goto, Done, adderVars, aggVars
<1>6. CASE LoadDropped \/ ZeroDropped \/ (\E ok \in BOOLEAN : OutputWrite(ok))
  BY <1>6 DEF LoadDropped, ZeroDropped, OutputWrite, Goto, adderVars, aggVars
<1>7. CASE WriteSucceeded \/ WriteFailed
  BY <1>7 DEF WriteSucceeded, WriteFailed, Done, adderVars, aggVars
<1>8. CASE SlowWarning \/ Tick \/ Clock \/ Stopped \/ UNCHANGED vars
  BY <1>8 DEF SlowWarning, Tick, Clock, Stopped, vars, adderVars, flushVars, aggVars
<1> QED
  BY Zenon, <1>1, <1>2, <1>3, <1>4, <1>5, <1>6, <1>7, <1>8 DEF Next, Flusher

\* ... and Flags.
LEMMA FlagsStep == Flags /\ [Next]_vars => Flags'
<1> SUFFICES ASSUME Flags, [Next]_vars PROVE Flags'
  OBVIOUS
<1> USE DEF Flags
<1>1. CASE AddAggregate \/ AddMetric \/ CountDropped \/ CountNew
  BY Zenon, <1>1 DEF AddAggregate, AddMetric, CountDropped, CountNew, adderVars, flushVars,
     aggVars, controlVars
<1>2. CASE RestartCount \/ SignalBatch \/ Cancel \/ Close
  BY Zenon, <1>2 DEF RestartCount, SignalBatch, Cancel, Close, flushVars, aggVars, controlVars
<1>3. CASE Favor \/ FlushRequested
  BY Zenon, <1>3 DEF Favor, FlushRequested, Enter, adderVars, aggVars, controlVars
<1>4. CASE Wait
  BY Zenon, <1>4 DEF Wait, Enter, aggVars
<1>5. CASE Push \/ PushMore \/ Reset \/ Restart \/ Count
  BY Zenon, <1>5 DEF Push, PushMore, Reset, Restart, Count, Goto, adderVars, flushVars, aggVars, controlVars
<1>6. CASE TakeBatch
  BY Zenon, <1>6 DEF TakeBatch, Goto, adderVars, aggVars, controlVars
<1>7. CASE LoadDropped \/ ZeroDropped
  BY Zenon, <1>7 DEF LoadDropped, ZeroDropped, adderVars, aggVars, controlVars
<1>8. CASE \E ok \in BOOLEAN : OutputWrite(ok)
  BY Zenon, <1>8 DEF OutputWrite, Goto, adderVars, aggVars, controlVars
<1>9. CASE WriteSucceeded \/ WriteFailed
  BY Zenon, <1>9 DEF WriteSucceeded, WriteFailed, adderVars, aggVars, controlVars
<1>10. CASE SlowWarning \/ Tick \/ Clock
  BY Zenon, <1>10 DEF SlowWarning, Tick, Clock, adderVars, flushVars, aggVars, controlVars
<1>11. CASE Stopped \/ UNCHANGED vars
  <2>1. UNCHANGED vars
    BY Zenon, <1>11 DEF Stopped
  <2>2. UNCHANGED <<batchReady, ctxDone, tick, final, failed, aggregating, closed>>
    BY <2>1 DEF vars, adderVars, flushVars, aggVars, controlVars
  <2> QED BY Zenon, <2>2
<1> QED
  BY Zenon, <1>1, <1>2, <1>3, <1>4, <1>5, <1>6, <1>7, <1>8, <1>9, <1>10, <1>11
     DEF Next, Adder, Flusher

\* For every buffer and batch size: program counters, flags and counters of an output
\* stay in their ranges; the count of new metrics never passes the batch size.
THEOREM OutputTypeCorrect == Spec => []TypeOK
<1>1. Spec => [](BufferInv /\ Control)
  BY ControlInv, PTL
<1>2. Spec => [](Places /\ Flags)
  BY <1>1, PlacesInit, PlacesStep, FlagsStep, PTL DEF Spec
<1>3. BufferInv /\ Control /\ Places /\ Flags /\ Counts /\ Aggregates => TypeOK
  BY Zenon DEF BufferInv, Control, Places, Flags, Counts, Aggregates, TypeOK, AdderStates, FlusherStates
<1> QED BY <1>1, <1>2, <1>3, CountsInv, AggregatesInv, PTL
-----------------------------------------------------------------------------
(* The shutdown of an output comes to an end. *)

\* How far the flush loop is from the end once its context is done: a call under way,
\* one more that a tick or a batch may have started, and the last one.
Phase ==
  IF closed THEN 0 ELSE
  IF flusher = "done" THEN 1 ELSE
  IF final THEN 2 ELSE
  IF flusher = "favor" THEN 3 ELSE
  IF flusher = "wait" THEN 5 ELSE 4

\* What Write does before it takes batches, and what it does with each.
Before ==
  IF flusher = "push" THEN 4 ELSE
  IF flusher = "reset" THEN 3 ELSE
  IF flusher = "restart" THEN 2 ELSE
  IF flusher = "len" THEN 1 ELSE 0

InBatch ==
  IF flusher = "batch" THEN 4 ELSE
  IF flusher = "load" THEN 3 ELSE
  IF flusher = "zero" THEN 2 ELSE
  IF flusher = "output" THEN 1 ELSE 0

\* What is left to do, the metrics of a Push that are not stored and the batches of the
\* call included.
Way == <<Phase, Before, adding, nBatches, InBatch>>

\* The first of them that changes falls.
Nearer ==
  \E i \in 1 .. 5 :
    /\ Way'[i] < Way[i]
    /\ \A j \in 1 .. 5 : j < i => Way'[j] = Way[j]

\* The goroutine whose turn it is can go on (a Push that stores as many metrics as the
\* bound MaxMetrics leaves included).
OutputGoes ==
  \/ flusher \in {"favor", "wait", "reset", "restart", "load", "zero", "output"}
  \/ flusher = "push" /\ aggMutex = "free" /\ Unlocked
  \/ flusher = "len" /\ Unlocked
  \/ flusher = "batch" /\ Unlocked /\ batch = << >>
  \/ flusher \in {"accept", "reject"} /\ Unlocked /\ batch # << >>
  \/ flusher = "done" /\ adder = "waiting"

\* An output that is shut down is never stuck before it is closed.
ShutdownNotStuck == ctxDone /\ ~closed => OutputGoes /\ \A i \in 1 .. 5 : Way[i] \in Nat

\* Every step of the shutdown but the ticks of the clock leads nearer to the end: a busy
\* ticker or a full batch cannot keep the flush loop from it.
ShutdownAdvances ==
  [][ctxDone => Nearer \/ ((Tick \/ SlowWarning \/ Clock) /\ UNCHANGED Way)]_vars

\* The buffer is locked, and aggMutex held, only from Push to Reset; a batch is out
\* exactly while write has it; the last Write ends the loop.
Turns ==
  /\ flusher \in FlusherStates
  /\ adding # 0 => flusher = "reset"
  /\ aggMutex # "free" => flusher = "reset"
  /\ flusher \in Holding => batch # << >>
  /\ final => flusher \notin {"favor", "wait"}
  /\ closed <=> adder = "stopped"

\* The loop starts with no lock held.
LEMMA TurnsInit == Init => Turns
BY DEF Init, BufferInit, Turns, FlusherStates, Holding

\* A call starts.
LEMMA EnterTurns ==
  ASSUME Turns, NEW c, NEW f, Enter(c, f), flusher \in {"favor", "wait"}, f \in BOOLEAN,
         UNCHANGED <<adding, aggMutex, batch, adder, closed>>
  PROVE  Turns'
<1>1. flusher' \in {"batch", "push", "restart"} /\ adding = 0 /\ aggMutex = "free"
  BY DEF Enter, Turns
<1> QED
  BY <1>1 DEF Turns, FlusherStates, Holding

\* Every step preserves Turns.
LEMMA TurnsStep == Control /\ BufferInv /\ Turns /\ [Next]_vars => Turns'
<1> SUFFICES ASSUME Control, BufferInv, Turns, [Next]_vars PROVE Turns'
  OBVIOUS
<1>0. adding \in Nat
  BY DEF BufferInv, BufferTypeOK
<1>1. CASE AddMetric
  <2>1. /\ batch' = batch /\ adding' = 0 /\ flusher' = flusher /\ final' = final
        /\ aggMutex' = aggMutex /\ adder = "ready" /\ adder' = "dropped" /\ closed' = closed
    BY <1>1 DEF AddMetric, Add, add, Release, flushVars, aggVars, controlVars
  <2> QED
    BY <2>1 DEF Turns
<1>2. CASE AddAggregate
  BY <1>2 DEF AddAggregate, Turns, bufferVars, adderVars, flushVars, controlVars
<1>3. CASE CountDropped \/ CountNew \/ RestartCount \/ SignalBatch
  BY <1>3 DEF CountDropped, CountNew, RestartCount, SignalBatch, Turns, bufferVars, flushVars, aggVars,
     controlVars
<1>4. CASE Cancel \/ Close
  BY <1>4 DEF Cancel, Close, Turns, bufferVars, flushVars, aggVars
<1>5. CASE Favor
  <2>1. UNCHANGED <<adding, aggMutex, batch, adder, closed>>
    BY Zenon, <1>5 DEF Favor, bufferVars, adderVars, aggVars, controlVars
  <2>2. CASE Enter("Write", TRUE)
    BY Zenon, <1>5, <2>1, <2>2, EnterTurns DEF Favor
  <2>3. CASE flusher' = "wait" /\ final' = final
    BY <1>5, <2>1, <2>3 DEF Favor, Turns, FlusherStates, Holding
  <2> QED
    BY Zenon, <1>5, <2>2, <2>3 DEF Favor
<1>6. CASE Wait
  <2>1. UNCHANGED <<adding, aggMutex, batch, adder, closed>>
    BY Zenon, <1>6 DEF Wait, bufferVars, aggVars
  <2>2. \E f \in BOOLEAN, c \in {"Write", "WriteBatch"} : Enter(c, f)
    BY Zenon, <1>6 DEF Wait
  <2> QED
    BY <1>6, <2>1, <2>2, EnterTurns DEF Wait
<1>7. CASE FlushRequested
  <2>1. UNCHANGED <<adding, aggMutex, batch, adder, closed>>
    BY Zenon, <1>7 DEF FlushRequested, bufferVars, adderVars, aggVars, controlVars
  <2> QED
    BY Zenon, <1>7, <2>1, EnterTurns DEF FlushRequested
<1>8. CASE Push
  <2>1. batch' = batch /\ flusher' = "reset" /\ final' = final /\ adder' = adder /\ closed' = closed
    BY Zenon, <1>8 DEF Push, Goto, Add, add, bufferVars, adderVars, controlVars
  <2> QED
    BY <1>8, <2>1 DEF Push, At, Turns, FlusherStates, Holding
<1>9. CASE PushMore
  <2>1. batch' = batch /\ flusher' = flusher /\ flusher = "reset" /\ final' = final
        /\ adder' = adder /\ closed' = closed
    BY Zenon, <1>9 DEF PushMore, At, AddMore, add, adderVars, flushVars, controlVars
  <2> QED
    BY <2>1 DEF Turns, FlusherStates, Holding
<1>10. CASE Reset
  BY <1>10 DEF Reset, At, Goto, Unlocked, Turns, FlusherStates, Holding, bufferVars, adderVars, controlVars
<1>11. CASE Restart
  BY <1>11 DEF Restart, At, Goto, Turns, FlusherStates, Holding, bufferVars, aggVars, controlVars
<1>12. CASE Count
  BY <1>12 DEF Count, At, Turns, FlusherStates, Holding, bufferVars, adderVars, aggVars, controlVars
<1>13. CASE TakeBatch
  <2>1. /\ flusher = "batch" /\ final' = final /\ adder' = adder /\ closed' = closed
        /\ aggMutex' = aggMutex /\ adding' = adding
    BY Zenon, <1>13 DEF TakeBatch, At, Goto, Batch, bufferVars, adderVars, aggVars, controlVars
  <2>2. flusher' \in {Done, "load"} /\ (flusher' = "load" => batch' # << >>)
    BY <1>13 DEF TakeBatch, Goto, Done
  <2> QED
    BY <2>1, <2>2 DEF Turns, Done, FlusherStates, Holding
<1>14. CASE LoadDropped \/ ZeroDropped
  BY <1>14 DEF LoadDropped, ZeroDropped, At, Turns, FlusherStates, Holding, bufferVars, adderVars,
     aggVars, controlVars
<1>15. CASE \E ok \in BOOLEAN : OutputWrite(ok)
  BY <1>15 DEF OutputWrite, At, Goto, Turns, FlusherStates, Holding, bufferVars, adderVars,
     aggVars, controlVars
<1>16. CASE WriteSucceeded
  <2>1. /\ flusher = "accept" /\ flusher' = "batch" /\ final' = final /\ adder' = adder
        /\ closed' = closed /\ aggMutex' = aggMutex /\ adding' = adding
    BY Zenon, <1>16 DEF WriteSucceeded, At, Accept, adderVars, aggVars, controlVars
  <2> QED
    BY <2>1 DEF Turns, FlusherStates, Holding
<1>17. CASE WriteFailed
  <2>1. /\ flusher = "reject" /\ flusher' = Done /\ final' = final /\ adder' = adder
        /\ closed' = closed /\ aggMutex' = aggMutex /\ adding' = adding
    BY Zenon, <1>17 DEF WriteFailed, At, Reject, adderVars, aggVars, controlVars
  <2> QED
    BY <2>1 DEF Turns, Done, FlusherStates, Holding
<1>18. CASE SlowWarning \/ Tick \/ Clock
  BY <1>18 DEF SlowWarning, Tick, Clock, Turns, bufferVars, adderVars, flushVars, aggVars, controlVars
<1>19. CASE Stopped \/ UNCHANGED vars
  BY <1>19 DEF Stopped, vars, Turns, bufferVars, adderVars, flushVars, aggVars, controlVars
<1> QED
  BY Zenon, <1>1, <1>2, <1>3, <1>4, <1>5, <1>6, <1>7, <1>8, <1>9, <1>10, <1>11, <1>12, <1>13,
     <1>14, <1>15, <1>16, <1>17, <1>18, <1>19 DEF Next, Adder, Flusher

\* Nearer, without the tuple.
LEMMA IsNearer ==
  ASSUME \/ Phase' < Phase
         \/ Phase' = Phase /\ Before' < Before
         \/ Phase' = Phase /\ Before' = Before /\ adding' < adding
         \/ Phase' = Phase /\ Before' = Before /\ adding' = adding /\ nBatches' < nBatches
         \/ /\ Phase' = Phase /\ Before' = Before /\ adding' = adding /\ nBatches' = nBatches
            /\ InBatch' < InBatch
  PROVE  Nearer
<1>1. /\ Way[1] = Phase /\ Way[2] = Before /\ Way[3] = adding /\ Way[4] = nBatches
      /\ Way[5] = InBatch
  BY DEF Way
<1>2. /\ Way'[1] = Phase' /\ Way'[2] = Before' /\ Way'[3] = adding' /\ Way'[4] = nBatches'
      /\ Way'[5] = InBatch'
  BY DEF Way
<1> HIDE DEF Way
<1> QED
  BY SMTT(30), <1>1, <1>2 DEF Nearer

\* A step of the flush loop within the call it is in.
LEMMA WithinCall ==
  ASSUME flusher \in FlusherStates \ {"favor", "wait", "done"},
         flusher' \in FlusherStates \ {"favor", "wait", "done"},
         final' = final, closed' = closed
  PROVE  Phase' = Phase
BY DEF Phase, FlusherStates

\* A call that ends leads to the next phase.
LEMMA CallEnds ==
  ASSUME flusher \in FlusherStates \ {"favor", "wait", "done"}, ~closed, flusher' = Done,
         final' = final, closed' = closed
  PROVE  Nearer
<1>1. Phase' < Phase
  BY DEF Phase, Done, FlusherStates
<1> QED
  BY Zenon, <1>1, IsNearer

\* A call that starts leads to the next phase.
LEMMA CallStarts ==
  ASSUME NEW c, NEW f \in BOOLEAN, Enter(c, f), ~closed, ~final, closed' = closed,
         flusher = "wait" \/ (flusher = "favor" /\ f)
  PROVE  Nearer
<1>1. Phase' < Phase
  BY DEF Phase, Enter
<1> QED
  BY Zenon, <1>1, IsNearer

\* Every step after the flush context is done leads nearer to the end.
LEMMA ShutdownStep ==
  ASSUME Control, BufferInv, Turns, Next, ctxDone, ~UNCHANGED vars
  PROVE  Nearer \/ ((Tick \/ SlowWarning \/ Clock) /\ UNCHANGED Way)
<1>0. adding \in Nat /\ nBatches \in Nat
  BY DEF BufferInv, BufferTypeOK, Control
<1>1. adder \in {"waiting", "stopped"}
  BY Zenon DEF Control
<1>2. flusher # "done" => ~closed
  BY Zenon DEF Control
<1>3. CASE Adder
  <2>1. Close
    BY <1>1, <1>3 DEF Adder, AddAggregate, AddMetric, CountDropped, CountNew, RestartCount, SignalBatch, Cancel
  <2>2. flusher = "done" /\ flusher' = "done" /\ closed' = TRUE /\ ~closed
    BY <2>1 DEF Close, Turns, flushVars
  <2>3. Phase' < Phase
    BY <2>2 DEF Phase
  <2> QED
    BY Zenon, <2>3, IsNearer
<1>4. CASE Tick \/ SlowWarning \/ Clock
  <2>1. UNCHANGED <<flusher, final, closed, adding, nBatches>>
    BY <1>4 DEF Tick, SlowWarning, Clock, flushVars, bufferVars, controlVars
  <2>2. UNCHANGED Way
    BY <2>1 DEF Way, Phase, Before, InBatch
  <2> QED
    BY Zenon, <1>4, <2>2
<1>5. CASE Favor
  <2>1. Enter("Write", TRUE) /\ flusher = "favor" /\ closed' = closed
    BY <1>5 DEF Favor, controlVars
  <2>2. ~final
    BY <2>1 DEF Turns
  <2> QED
    BY Zenon, <1>2, <2>1, <2>2, CallStarts
<1>6. CASE Wait \/ FlushRequested
  <2>1. PICK c \in {"Write", "WriteBatch"}, f \in BOOLEAN : Enter(c, f)
    BY Zenon, <1>6 DEF Wait, FlushRequested
  <2>2. flusher = "wait" /\ closed' = closed
    BY Zenon, <1>6 DEF Wait, FlushRequested, controlVars
  <2>3. ~final
    BY <2>2 DEF Turns
  <2> QED
    BY <1>2, <2>1, <2>2, <2>3, CallStarts
<1>7. CASE Push
  <2>1. flusher = "push" /\ flusher' = "reset" /\ final' = final /\ closed' = closed
    BY Zenon, <1>7 DEF Push, At, Goto, controlVars
  <2>2. Phase' = Phase
    BY <2>1, WithinCall DEF FlusherStates
  <2>3. Before' < Before
    BY <2>1 DEF Before
  <2> QED
    BY Zenon, <2>2, <2>3, IsNearer
<1>8. CASE PushMore
  <2>1. flusher = "reset" /\ flusher' = "reset" /\ final' = final /\ closed' = closed
    BY Zenon, <1>8 DEF PushMore, At, flushVars, controlVars
  <2>2. Phase' = Phase /\ Before' = Before
    BY <2>1 DEF Phase, Before
  <2>3. adding' = adding - 1
    BY Zenon, <1>8 DEF PushMore, AddMore, Release
  <2>4. adding' < adding
    BY <1>0, <2>3
  <2> QED
    BY Zenon, <2>2, <2>4, IsNearer
<1>9. CASE Reset \/ Restart \/ Count
  <2>1. /\ <<flusher, flusher'>> \in {<<"reset", "restart">>, <<"restart", "len">>, <<"len", "batch">>}
        /\ final' = final /\ closed' = closed
    BY Zenon, <1>9 DEF Reset, Restart, Count, At, Goto, controlVars
  <2>2. Phase' = Phase
    BY <2>1, WithinCall DEF FlusherStates
  <2>3. Before' < Before
    BY <2>1 DEF Before
  <2> QED
    BY Zenon, <2>2, <2>3, IsNearer
<1>10. CASE TakeBatch
  <2>1. /\ flusher = "batch" /\ final' = final /\ closed' = closed /\ nBatches' = nBatches
        /\ adding' = adding /\ flusher' \in {Done, "load"}
    <3>1. flusher' \in {Done, "load"}
      BY <1>10 DEF TakeBatch, Goto, Done
    <3> QED
      BY Zenon, <1>10, <3>1 DEF TakeBatch, At, Goto, Batch, bufferVars, controlVars
  <2>2. CASE flusher' = Done
    BY <1>2, <2>1, <2>2, CallEnds DEF FlusherStates
  <2>3. CASE flusher' = "load"
    <3>1. Phase' = Phase
      BY <2>1, <2>3, WithinCall DEF FlusherStates
    <3>2. Before' = Before /\ InBatch' < InBatch
      BY <2>1, <2>3 DEF Before, InBatch
    <3> QED
      BY Zenon, <2>1, <3>1, <3>2, IsNearer
  <2> QED
    BY Zenon, <2>1, <2>2, <2>3
<1>11. CASE LoadDropped \/ ZeroDropped \/ \E ok \in BOOLEAN : OutputWrite(ok)
  <2>1. /\ <<flusher, flusher'>> \in {<<"load", "zero">>, <<"load", "output">>, <<"zero", "output">>,
                                      <<"output", "accept">>, <<"output", "reject">>}
        /\ final' = final /\ closed' = closed /\ nBatches' = nBatches /\ adding' = adding
    BY Zenon, <1>11 DEF LoadDropped, ZeroDropped, OutputWrite, At, Goto, bufferVars, controlVars
  <2>2. Phase' = Phase
    BY <2>1, WithinCall DEF FlusherStates
  <2>3. Before' = Before /\ InBatch' < InBatch
    BY <2>1 DEF Before, InBatch
  <2> QED
    BY Zenon, <2>1, <2>2, <2>3, IsNearer
<1>12. CASE WriteSucceeded
  <2>1. /\ flusher = "accept" /\ flusher' = "batch" /\ final' = final /\ closed' = closed
        /\ nBatches' = nBatches - 1 /\ adding' = adding
    BY Zenon, <1>12 DEF WriteSucceeded, At, Accept, controlVars
  <2>2. Phase' = Phase
    BY <2>1, WithinCall DEF FlusherStates
  <2>3. Before' = Before /\ nBatches' < nBatches
    BY <1>0, <2>1 DEF Before
  <2> QED
    BY Zenon, <2>1, <2>2, <2>3, IsNearer
<1>13. CASE WriteFailed
  <2>1. flusher = "reject" /\ flusher' = Done /\ final' = final /\ closed' = closed
    BY Zenon, <1>13 DEF WriteFailed, At, controlVars
  <2> QED
    BY <1>2, <2>1, CallEnds DEF FlusherStates
<1> QED
  BY Zenon, <1>3, <1>4, <1>5, <1>6, <1>7, <1>8, <1>9, <1>10, <1>11, <1>12, <1>13
     DEF Next, Flusher, Stopped

\* In every state of the shutdown the goroutine whose turn it is can go on.
LEMMA ShutdownState == Control /\ BufferInv /\ Turns => ShutdownNotStuck
<1> SUFFICES ASSUME Control, BufferInv, Turns, ctxDone, ~closed PROVE ShutdownNotStuck
  BY Zenon DEF ShutdownNotStuck
<1>1. adding \in Nat /\ nBatches \in Nat
  BY DEF BufferInv, BufferTypeOK, Control
<1>2. \A i \in 1 .. 5 : Way[i] \in Nat
  <2>1. Phase \in Nat /\ Before \in Nat /\ InBatch \in Nat
    BY DEF Phase, Before, InBatch
  <2> QED
    BY <1>1, <2>1 DEF Way
<1>3. adder = "waiting"
  BY Zenon DEF Control, Turns
<1>4. flusher # "reset" => Unlocked /\ aggMutex = "free"
  BY Zenon DEF Turns, Unlocked
<1>5. flusher = "batch" => batch = << >>
  BY Zenon DEF Control, Holding
<1>6. OutputGoes
  BY <1>3, <1>4, <1>5 DEF Turns, FlusherStates, Holding, OutputGoes
<1> QED
  BY Zenon, <1>2, <1>6 DEF ShutdownNotStuck

\* For every buffer and batch size: once runOutputs has cancelled the flush loops, the
\* goroutine of an output whose turn it is can always go on until the output is closed,
\* and each of its steps leads nearer to that; only ticks do not.  This is
\* EventuallyClosed but for the fairness that makes an enabled step happen.
THEOREM ShutdownComesToAnEnd == Spec => []ShutdownNotStuck /\ ShutdownAdvances
<1>1. Spec => [](Control /\ BufferInv)
  BY ControlInv
<1>2. Spec => []Turns
  BY <1>1, TurnsInit, TurnsStep, PTL DEF Spec
<1>3. Control /\ BufferInv /\ Turns /\ [Next]_vars
      => [ctxDone => Nearer \/ ((Tick \/ SlowWarning \/ Clock) /\ UNCHANGED Way)]_vars
  BY Zenon, ShutdownStep
<1> QED
  BY <1>1, <1>2, <1>3, ShutdownState, PTL DEF Spec, ShutdownAdvances
=============================================================================
