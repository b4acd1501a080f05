# Telegraf: TLA+ models and proofs

This directory holds TLA+ specifications of the concurrent core of Telegraf: the
path of a metric from an input to the outputs, the buffer in front of each
output, delivery tracking, the windows of aggregators, and the start and
shutdown of the agent; and of what stands around it: worker pools, supervised
programs, message consumers, the log file, the reload loop and the rate limiter.
TLC checks each specification on small instances; TLAPS proves the most important
properties for every value of the constants.

Run a model with `tlc -config <cfg> <module>` and check proofs with
`tlapm <module>Proofs.tla`, both from this directory. `PROJECT.json` lists the
runs, the source lines behind every definition, the hazards the properties are
aimed at, the disagreements found, and the theorems.

## 1. The system

| Part | Source | State | Operations | Hard behaviour |
|---|---|---|---|---|
| Output buffer | `models/buffer.go` | ring of slots, indices, batch indices, statistics | Add, Batch, Accept, Reject, Len | overwriting while a batch is out; putting a rejected batch back, wrapping round |
| Running output | `models/running_output.go`, flush loop in `agent/agent.go` | buffer, two atomic counters, `BatchReady`, `aggMutex` | AddMetric, Write, WriteBatch, Close | two goroutines, lost signals, load/store pairs, a stale length, the last flush |
| Aggregating output | `plugins/outputs/azure_monitor` | aggregates by minute, marks, the clock | Add, Push, Reset | the clock between Push and Reset, the last minute, late metrics |
| Delivery tracking | `metric/tracking.go`, `agent/accumulator.go` | reference count and answers of a group, delivery channel | AddTrackingMetricGroup, Copy, Accept, Reject, Drop, Delivered | concurrent answers, exactly one notification, panics on a wrong count or a full channel, metrics nobody answers for |
| Aggregator window | `models/running_aggregator.go`, push loop in `agent/agent.go` | window, cache, lock | Add, UpdateWindow, Push | late metrics, a late push loop, the last push |
| Agent | `agent/agent.go` | plugins, channels, goroutines | Run, Once, Test and the start/run functions they call | failures half-way through the start, full channels, closing order |
| Running input/processor | `models/running_input.go`, `running_processor.go` | – | MakeMetric, Gather, Add | none of its own |
| Accumulator | `agent/accumulator.go` | channel | AddMetric, AddFields, WithTracking | blocking send |
| Tickers | `agent/tick.go` | one-slot channel, timer | run, Reset, Stop | dropped ticks, drift, jitter |
| Parallel processors | `plugins/common/parallel` | queue of futures, job queue, workers | Enqueue, Stop | order of results, everyone waiting for everyone |
| Process supervisor | `internal/process`, `plugins/processors/execd` | program, pipes, four goroutines | Start, Add, Stop, restart | Stop racing a restart, a program that does not react |
| Message consumers | `plugins/inputs/{kafka,nsq,nats,mqtt}_consumer` | semaphore, map of groups, mutex, session | receive, Handle, onDelivery, Stop | many endings of a message, answers before they are recorded, sessions |
| Log file | `internal/rotate`, `logger` | file, archives, open files, writer | Write, rotate, purge, newLogWriter | two writers at a reload, failed rename, equal archive names |
| Reload loop | `cmd/telegraf` | reload channel, signals, context | reload, stop | channel and context changed in separate steps, a signal while outputs connect |
| Rate limiter | `internal/limiter` | counter, ticker | take, Stop | token offered across a tick |
| Shim | `plugins/common/shim` | metric channel | RunProcessor | close before Stop |
| Filter, metric, selfstat, config, parsers, serializers | – | – | pure conversions or locked maps | – |

The parts interact along the flow: inputs (through the accumulator) write the
first channel; each processor reads a channel and writes the next; the reader of
the aggregators gives each metric to every aggregator and passes it on, the push
loops write aggregates into the chain of aggregator processors; the fan-out loop
of `runOutputs` gives a copy to each output's buffer, which its flush loop
writes. Tracked metrics count references along all of this. The shutdown goes
the same way: each stage ends when its source is closed and drained, and closes
its destination.

## 2. Modules

- `MetricQueue` - abstract specification: a bounded queue that drops its oldest
  metrics, with one batch out.
- `Buffer` - the ring. One action per method; a variadic `Add` takes one step per
  metric with the mutex held (`adding`). A metric is the number of its arrival,
  so "older" is "<". `batch` is the slice the client holds. `ImplementsQueue` is
  the refinement: the queue is the window of the ring, oldest first.
- `RunningOutput` - extends `Buffer` with the two goroutines of an output. `adder`
  and `flusher` are their program counters; every access to the buffer, an atomic
  or a channel is a step. `Write`, `WriteBatch` and `write` are unrolled in
  `flusher`; a hung write is `flusher = "output"`. `UsesBuffer` states that the
  behaviours are behaviours of `Buffer`, so all that holds of the buffer holds
  within an output.
- `AzureMonitor` - the AggregatingOutput of the repository, which `RunningOutput`
  extends and calls in `AddMetric` and `Write`. The clock counts minutes; a bucket is
  the minute of a metric's timestamp, its aggregate the number of its metrics, and
  `updated` the marks that Push looks for and Reset takes. `pushed`, `aggregated` and
  `missed` record what happened. Push and Reset look at the clock separately, and it
  may go on in between (`Clock`).
- `Accumulator` - abstract specification of what inputs see of delivery tracking: a
  group that is added within the limit is answered at most once, and the channel of answers
  never holds more than it has room for.
- `Tracking` - one `trackingData` per group; references are counted by the place they
  are in. `Accept` and `Reject` are two atomic steps (`Answer`, `decr`), and `notify`
  is a third. Any of the outputs may be an AggregatingOutput: it takes a metric and
  never answers for it, and a failing last Write of a shutdown leaves metrics
  unanswered as well; both kinds of references are in `kept`. The input's own limit on
  groups under way is the guard of `AddTrackingMetricGroup`: it is what the semaphores
  of the consumer inputs do, and the comment in `onDelivery` calls its absence a
  programming error. `ImplementsAccumulator` is the refinement: a group is in flight
  until it is notified, and the answers are those in the channel.
- `RunningAggregator` - the window with a clock. `MaxLatency` bounds the way of a
  metric to `Add`, `MaxLag` how late the push loop is.
- `Agent` - `Run`, `once` and `test` (`mode`): the start phase by phase with its error
  paths, the gather loops, service inputs, processors, the aggregators' reader and
  push loops, the consumer, and the shutdown. `Add` of an aggregator passes over what
  its filter drops without the lock (`AggregatorPassOver`) and needs it for every
  other metric (`AggregatorAdd`), while Push holds it. A channel is a number of
  metrics and whether it is closed, numbered in the order of the flow.
- `Parallel` - the pools `Ordered` and `Unordered` (`ordered` says which). A metric
  is the number of its `Enqueue`, `fn` returns any number of results for it, and a
  future is open or closed; the unbuffered send to it is one step of worker and
  reader. `written` counts what the accumulator was given for each metric.
- `Process` - the supervisor with the processor execd as its client. `client`,
  `loop`, `stopper` and `output` are the program counters of the goroutine that
  calls Add and Stop, of `cmdLoop`, and of the two of `cmdWait`. `stdin` is
  `p.Stdin`, which client and `cmdLoop` use without a lock: each load of it is a
  step. The program (external) may exit, read or do nothing, and reacts for sure to
  SIGKILL only.
- `Consumer` - the four consumers (`plugin` says which), since they do the same with
  the same pieces: a slot of `sem` before the message (kafka, nats) or after it
  (nsq, mqtt), the tracked group, the map `messages`, the answer. The tracking
  accumulator is the sets `inflight` and `answers` of `Accumulator`, and
  `UsesAccumulator` says that every step is one of it (a new session has a new one).
  With `ImplementsAccumulator` this closes the gap between the two modules: what
  `Tracking` assumes of its input the consumers do, and what `Consumer` assumes of
  the answers `Tracking` does.
  kafka has a handler per partition and starts anew with each session; the broker
  then gives out again what lies behind the last offset marked.
- `Logging` - `FileWriter` and `newLogWriter`. An open file is where its inode is:
  under the configured name, in an archive (by the second of its rotation), or
  nowhere. `WriteLine` is the whole of `Write`, the rotation and purge included.
- `Reload` - `reloadLoop`: the main goroutine, the goroutine that waits for a signal,
  and the channel between them. Between configuration and agent the outputs are
  connected, where the end of the context is fatal.
- `Limiter` - the goroutine of the rate limiter and its ticker.
- `MCServices` - the last six side by side. They share no state; a behaviour is one
  of a single part (`part`), so one run checks them all without a product.
- `MC*` - instances for TLC. `*Proofs` - theorems.

Each module has, just before the definition it changes, the mutated forms of
that definition ("Mutant of ..."): plausible bugs that the properties catch.

What the models leave out: names, tags and fields of metrics (a filter is a choice to
drop), the statistics that are not the buffer's, logging, the extra `Gather` into a
null channel for three plugins in mode "once", processors that turn one metric into
several, and timestamps outside `RunningAggregator` and `AzureMonitor`; standard error
of a supervised program, connecting and subscribing of consumers, a call of mqtt's
`recvMessage` that overlaps another (one at a time on a connection), log levels and
targets other than a file, a failing removal of an archive.

## 3. Runs

| Run | Bounds | Shows |
|---|---|---|
| `buffer` | 3 slots, 8 metrics, calls of up to 2, batches of 1, 2 and 4 | window, order, single answer, statistics, drops, refinement of `MetricQueue` |
| `output` | 3 slots, batches of 2, 5 metrics; plain, and aggregating with 3 metrics in 3 minutes, kept for 2 | use of the buffer, close after write, drained shutdown, drop reports, marks of aggregates, answers, termination |
| `tracking` | 2 groups of up to 2 metrics, a copy, 2 outputs of which one may aggregate, one group at a time, a stop at any moment | exact count, one truthful notification, refinement of `Accumulator` (room in the channel), every group read back that somebody answers for |
| `agent` | 2 inputs (one a service), 1 processor, 2 aggregators (one drops originals), 1 aggregator processor, capacity 1, 3 metrics | no panic, drained, order of stops, termination |
| `agent_modes` | the three modes, failures in every phase, 2 outputs, 2 service inputs, 2 aggregator processors, 1 metric | error paths, cancellation during the start, "once" and "test" end by themselves |
| `aggregator` | period 3, grace 2, delay 4, latency 2, lag 4, time up to 14 | windows meet, nothing dropped, everything pushed |
| `services` | pool: 2 workers, 2 futures, 4 metrics of up to 2 results; process: 3 programs, pipes of 1; consumers: 2 slots, 4 messages (one unparseable, one too long) in 2 partitions, 2 sessions; log: files of 2 lines, 1 archive, 5 lines, 3 seconds, 1 reload; 2 reloads of the loop; limiter: 2 tokens | order and completeness of the pools; one watched program, none after Stop; consumers' use of the `Accumulator`, acknowledgements and answers, quiet after Stop; oldest lines go first; the loop ends as told; tokens; pools and supervisor stop, consumers do not stall |

The bounds let the interesting cases happen: a ring that fills and wraps while a batch
is out (more metrics than slots, batches that divide neither), a batch signal that is
lost, a channel that is full at every stage at the same time (capacity 1 with 3
metrics), a push loop that is late by more than a period, a minute that ends between
any two steps of a flush and one that is too old; a pool whose both queues are full, a
second restart while Stop is under way, all slots taken while a partition waits, an
archive that is purged. Deadlock is checked in the runs of the pipeline, where a
finished system stutters in an explicit action. In `services` it is not: pools,
programs, loops and writers end, or wait for clients that need not call; that they do
not hang is what `PoolStops`, `StopReturns` and `NotStalled` say.

Fairness. Goroutines that can go on do (weak fairness of their steps); the tickers
tick; the plugin calls a goroutine waits for return. Strong fairness is used where
Go's `select` chooses among ready cases (`GatherDone`, `PushLast`: a select does not
pass over a ready case for ever), where a mutex or channel is contended (`Add` of an
aggregator, `AggregatorAdd`, `Receive` of the fan-out), and for the success of a write
in `RunningOutput`: `EventuallyAnswered` is about an output whose service accepts a
write again and again. In `Consumer` it is used for slot and mutex, which handlers
compete for, and for `select` in the readers of answers. A killed program ends
(SIGKILL cannot be ignored), its output ends when `Cmd.Wait` has closed it, timers
fire, and `fn` of a pool returns. `NotStalled` also assumes that every group is
answered (weak fairness of `Deliver`); `EventuallyRead` of `Tracking` says when that
is so: not with an output that aggregates. Nothing is assumed of inputs (nobody has to
emit), of signals, of cancellation or of failures.

Runs that are expected to fail state what a document or comment says and show
that the code does something else:

- `agent_stuck`: "Run starts and runs the Agent until the context is done"
  (`agent.go:97`). If an input fails to start, `startInputs` stops the service
  inputs that are running before anything reads the channel they write. One that
  waits for room in the full channel never returns from `Stop`, nor does `Run`.
- `output_minute`: "Metrics updated within the latest 1m have not been pushed and
  should not be cleared" (`azure_monitor.go:627`). Push and Reset each look at the
  clock; the aggregates of a minute that ends in between are cleared without having
  been pushed, and lost unless another metric for that minute comes.
- `aggregator_grace`: the first window "ensures that any metric created after
  start time will be aggregated" (`agent.go:581`); not with the default grace.
- `consumer_quiet`: "Metrics should not be written out to the accumulator once stop
  returns" (`input.go:19`). `Stop` of nats_consumer waits for a goroutine that has
  only started the receiver, that of mqtt_consumer for none; a message they have
  taken is added afterwards. kafka_consumer and nsq_consumer are quiet, which is
  proved.
- `log_reload`: `FileWriter` "writes to the filename specified"
  (`file_writer.go:23`). `newLogWriter` opens the new writer before it closes the
  old one, and `Close` renames the file: after a reload with rotation the log goes
  on in an archive, or in a file without a name once that is purged.

More statements of the documentation are not literally true of the code and have no
run, as each is plain in a few lines of it: "Metrics added while we are writing will
be sent on the next call" (`running_output.go:192`), but the last batch of `Write`
takes them; a tracked group is to be signalled "when the group has been processed"
(`accumulator.go:79`), but an AggregatingOutput never answers, so that an input with
tracking stalls behind azure_monitor once its limit of groups waits; "Reload config on
SIGHUP" (`CHANGELOG.md:3252`), but `connectOutput` returns the error of the context
when SIGHUP comes while it waits for its second attempt, `startOutputs` wraps it, and
`reloadLoop`, which compares with `context.Canceled`, ends Telegraf as it does for a
new configuration that is broken; `metric_buffer_limit` bounds the stored
metrics, not those of a batch that is being written; `Connect` "is only called once
when the plugin starts" (`output.go`) but `connectOutput` calls it a second time
after a failure; metrics outside the period are not ignored if they are within
grace or delay; `testStartInputs` is said to return "only plugins successfully
started" (`agent.go:322`) and returns all of them; the delay is "before each
aggregator is flushed" (`CONFIGURATION.md:422`) but only widens the window; the rate
limiter emits "only 'n' times" (`limiter.go:8`) and may emit n + 1 between two ticks;
"Ignore rotation errors and keep the log open" (`file_writer.go:133`), but a rename
that keeps failing makes `rotateIfNeeded` and `openCurrent` call each other until the
stack overflows; and a restart whose `StdinPipe` fails leaves `Stdin` nil, on which
the next `Add` or `Stop` panics.

Of azure_monitor it should be known what `ShutdownDrains` and `AggregatesMarked` do not
say. A clean shutdown leaves behind what was aggregated in the current minute, since
Push sends nothing early and there is no later one. And an aggregate that is updated
after its minute was pushed is pushed again as a whole: a metric may be in two Pushes.

## 4. Proofs

All proofs are for every value of the constants that satisfies the named
assumption of the module (`BufferAssumption`, `AgentAssumption`, ...: sizes are
natural numbers, capacities and periods are positive, there are aggregator
processors only if there are aggregators). The counters of metrics keep their
bounds, which may be any number.

- `BufferProofs`: type, window, order, single answer, statistics, drops, and the
  refinement of `MetricQueue`. None of them is inductive by itself. `BufferInv`
  is their conjunction with `Bookkeeping`: `batchSize` is at most the length of
  the batch and equal to it unless the buffer is full, which makes the length
  that the statistics report, `min(size + batchSize, cap)`, that of the queue; and
  nothing held is newer than the newest metric added, which keeps the order when
  a rejected batch goes back in front. The remainders of `next`, `nextby` and `prevby`
  are turned into case distinctions once (`WrapUp`, `WrapDown`), and a lemma for
  each method says what it does to the contents as a sequence; the invariant and
  the refinement both rest on these lemmas.
- `RunningOutputProofs`: each step of the two goroutines is a step of the buffer or
  leaves it alone, so the buffer's theorems carry over (`OutputUsesBuffer`,
  `OutputAnswersOnce`). `Control` adds who has cancelled whom, and a bound on what the
  final `Write` has left: after `n` of its batches fewer than the remaining iterations
  take are stored. It yields `CloseCorrect` and the first half of `DrainCorrect`.
  `Counts` relates the drops that were counted, are about to be counted and were
  reported to those of the buffer (`ReportsCorrect`); `Aggregates` adds that the lock
  of an aggregating output is held from Push to Reset, and for each bucket (`Kept`)
  that its aggregate is all there until it is too old, that between Push and Reset the
  marked ones of complete minutes are pushed, and that the last Reset leaves none of
  them marked (`AggregatesCorrect`, and the second half of `DrainCorrect`); with
  `Places` and `Flags` they give the type invariant.
- `TrackingProofs`: the safety properties and the room in the channel
  (`ChannelCorrect`) together are inductive but for `Waiting`, which counts the groups
  under way by the finite set of those the input waits for; cardinalities come from
  `FiniteSetTheorems`. `TrackingImplementsAccumulator` is the refinement, step by step:
  `AddTrackingMetricGroup`, `notify` and the input's read are the steps of
  `Accumulator`, all others stutter.
- `AgentProofs`: type, no panic, drained, order of stops, undone starts. The
  invariant has a part for the phases of the start (`StartInv`, `IdleInv`: the
  channels are all open while a service input may emit), one for the inputs, and
  `ClosedInv`: a channel is closed exactly when the goroutine that closes it has
  ended, and then everything before it in the flow has. The second half replaces
  an induction along the chain of processors. That the reader of the aggregators
  never sends on the closed channel of the outputs follows from the conjunct
  that a channel behind the aggregators is closed only after `runAggregators`
  has ended. `Frame` says which variables each part is about, and there is a
  lemma for each action.
- `RunningAggregatorProofs`: `Windows` gives the window after `n` pushes in closed
  form; `AlignTimeUp` and `FirstWindow` are about the rounding of `AlignTime`.
  `AggregatesAllCorrect` has the premise `Generous`: grace at least the longest
  way of a metric, delay at least the longest lateness of a push.

- `ParallelProofs`: a future or job is known by its number, so that the queues hold
  consecutive numbers (`QueuesInv`): `Read` futures and `Taken` jobs have left them.
  Of the jobs taken each is with exactly one worker or done (`JobsInv`); of the
  futures read all but the one being read are written out, and a worker can send
  only for that one (`OrderedInv`, `UnorderedInv`); goroutines end only with an empty
  queue (`EndInv`). None is inductive alone: that the reader has written everything
  of a future rests on its worker, and the worker's on the reader.
- `ConsumerProofs`: `SlotsInv` is the reason for the limit: outside the end of a
  session the slots taken are exactly the groups under way and the handlers that hold
  a slot without a group (`SlotsAreExact`), and never fewer. It needs
  `PlacesInv` (a message is in one place, so that an answer frees one group) and
  `KnownInv` (a group that is not in the map is that of the one handler which is
  about to put it there, with the mutex). `ReadersInv` says who holds the mutex.
  `ConsumersUseAccumulator` follows step by step. `OwnAreQuietAfterStop` is about
  kafka and nsq, as the others are not.
- `ServicesProofs`: `ProcessInv` (a program runs only while `cmdLoop` waits for it),
  `LoopInv` (what is in the reload channel at each step of the signal's goroutine),
  `LimiterInv` (tokens since the tick exceed the counter by one at most). `LogInv` is
  for `OldestGoFirst`: until a reload or two rotations in one second the lines of the
  archives are in the order of their seconds, those of the file are newer than all of
  them, and with a line every later one is kept. That the purge keeps the newest
  archives is `PurgeKeepsNewest`.

Liveness needs fairness and `ENABLED`, which are out of the prover's reach; the parts
of the argument that are about the code are not. For most of the liveness properties
two facts are proved: in every state somebody can take a step towards the end, where
"can" is spelled out as the guards of the actions; and such steps cannot go on for ever,
since each makes a measure in the natural numbers, or the first entry that changes of a
tuple of them, smaller. What is left to fairness is that a step that can be taken is.

| Theorem | Liveness property | Nobody stuck | What gets less |
|---|---|---|---|
| `ShutdownComesToAnEnd` | `EventuallyClosed` | `Turns`: buffer and `aggMutex` are locked only from Push to Reset, a batch is out exactly during `write` | calls of Write to come, steps before the first batch, metrics of a Push, batches, steps of a batch; only ticks, of the flush ticker or of the clock, leave it unchanged. The bound on metrics added is left aside in the guard of Push |
| `GroupsComeToAnEnd` | `EventuallyRead` | a group that is waited for is held by somebody or in the channel of an input that reads it, or what is left of it is where nobody answers (`GroupLeft`) | copies allowed, references by place along the flow, notification, read |
| `PoolIsNeverStuck`, `StopComesToAnEnd` | `PoolStops` | the reader waits for a worker that has its job, or whose job is at the head of a queue a worker can read | metrics and results left; the set is finite, and every step after Stop takes from it |
| `StopOfProgramEnds` | `StopReturns` | `StopInv`: after the cancellation `gracefulStop` goes on to SIGKILL | a number of steps (`StepsLeft`); only the program's reading does not count |
| `ConsumersNeverStall` | `NotStalled` | a slot is free, or is held by somebody who can give it back without one; for kafka when there are no more partitions than slots | not proved: answers and new messages alternate for ever |
| `NeverStuckCorrect` | `Stops` | while anything is on its way a stage behind the inputs can go on, however full the channels are: the last channel that is not empty is read, as there is room behind it; and once the agent is to end somebody can go on without a tick or a new metric | not proved: gather loops and service inputs may emit again and again until they are stopped |
| `LastPushIsComplete` | `EventuallyPushed` | - | says that when the push loop has returned nothing is left; that it returns is model-checked |

`NeverStuckCorrect` is about the agent while it runs; that a failing start may hang is
what `agent_stuck` shows.

Type invariants are proved, not run. Only model-checked are the liveness properties as
such (`EventuallyAnswered`, `EventuallyClosed`, `EventuallyRead`, `Stops`,
`EventuallyPushed`, `PoolStops`, `StopReturns`, `NotStalled`). `EventuallyAnswered` has
no counterpart in the table: that a metric leaves the buffer depends on writes that
succeed again and again, which is strong fairness and nothing else. Every safety
property and refinement that a run checks and that holds is proved.

## 5. Not modelled, and why

The models cover the concurrent core and the plugins that share its protocols.
By far most lines of the repository are elsewhere:

- some hundreds of input, output, processor and aggregator plugins, which are
  adapters to one service each: requests, tables of names, conversions. Where they
  have state that interleaves it is the protocol of an interface that is modelled
  here (`Agent` takes a plugin to be whatever its interface allows). A model of such
  an adapter would restate its tables;
- parsers, serializers, configuration, the metric type, the filter and the series
  grouper: pure functions of their input, covered by table tests;
- `selfstat`: a locked map of atomic counters;
- the schedules of the tickers: arithmetic on one clock;
- the shim, the Windows service and the command line: sequential code around the
  parts that are modelled. In the shim two adjacent lines are in doubtful order
  (`shim/processor.go:69`: the channel is closed before the processor is stopped);
- amqp_consumer, whose `process` of an old and of a new connection use the same map
  without a lock, cloud_pubsub and directory_monitor: the limit on groups under way
  is the guard of `AddTrackingMetricGroup`, their connections and files are not
  modelled;
- mqtt_consumer across a reconnect, when the library may still be in a call of
  `recvMessage` for the old connection;
- in `Reload` the channels and watchers of earlier iterations, which nobody reads
  any more and the code never releases.
