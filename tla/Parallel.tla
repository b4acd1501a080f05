------------------------------ MODULE Parallel ------------------------------
(***************************************************************************)
(* The worker pools of plugins/common/parallel with which processors that  *)
(* wait for a service (reverse_dns, ifname, aws_ec2) look up several       *)
(* metrics at a time: Ordered, which passes the results on in the order of *)
(* the metrics, and Unordered.                                             *)
(*                                                                         *)
(* A metric is the number of its Enqueue.  fn may return any number of     *)
(* metrics for it; `written' counts those given to the accumulator.        *)
(* Enqueue and Stop are called by one goroutine (runProcessors), Stop when *)
(* there is nothing more to enqueue.                                       *)
(***************************************************************************)
EXTENDS Integers, Sequences, FiniteSets

CONSTANTS
  Workers,     \* the goroutines of the pool
  QueueSize,   \* capacity of the queue of futures
  MaxJobs,     \* bound: metrics enqueued
  MaxResults   \* bound: metrics fn returns for one

ASSUME PoolAssumption ==
  /\ IsFiniteSet(Workers) /\ Workers # {} /\ QueueSize \in Nat \ {0}
  /\ MaxJobs \in Nat /\ MaxResults \in Nat

VARIABLES
  ordered,      \* which of the two pools it is
  caller,       \* the goroutine that calls Enqueue and Stop
  enqueued,     \* number of metrics enqueued
  queue,        \* futures, each by the number of its metric
  workerQueue,  \* jobs (inQueue of Unordered), with room for one per worker
  worker,       \* what each worker does ...
  job,          \* ... for which metric ...
  left,         \* ... and the results it has left to write or send
  reader,       \* the same of readQueue
  future,
  unwritten,
  closed,       \* futures that are closed
  results,      \* number of metrics fn returned for each metric, -1 before
  written       \* number of those given to the accumulator

calls   == <<ordered, caller, enqueued>>
queues  == <<queue, workerQueue>>
workers == <<worker, job, left>>
readers == <<reader, future, unwritten>>

poolVars == <<calls, queues, workers, readers, closed, results, written>>

PoolInit ==
  /\ ordered \in BOOLEAN
  /\ caller = "ready" /\ enqueued = 0
  /\ queue = <<>> /\ workerQueue = <<>>
  /\ worker = [w \in Workers |-> "idle"]
  /\ job = [w \in Workers |-> 0] /\ left = [w \in Workers |-> 0]
  /\ reader = (IF ordered THEN "idle" ELSE "ended") /\ future = 0 /\ unwritten = 0
  /\ closed = {}
  /\ results = [m \in 1 .. MaxJobs |-> -1]
  /\ written = [m \in 1 .. MaxJobs |-> 0]
-----------------------------------------------------------------------------
\* Enqueue of Ordered: the future first ...
Enqueue ==
  /\ ordered /\ caller = "ready" /\ caller' = "job"
  /\ enqueued < MaxJobs /\ enqueued' = enqueued + 1
  /\ Len(queue) < QueueSize /\ queue' = Append(queue, enqueued + 1)
  /\ UNCHANGED <<ordered, workerQueue, workers, readers, closed, results, written>>

\* ... then the job.
EnqueueJob ==
  /\ caller = "job" /\ caller' = "ready"
  /\ Len(workerQueue) < Cardinality(Workers) /\ workerQueue' = Append(workerQueue, enqueued)
  /\ UNCHANGED <<ordered, enqueued, queue, workers, readers, closed, results, written>>

\* Enqueue of Unordered.
EnqueueUnordered ==
  /\ ~ordered /\ caller = "ready"
  /\ enqueued < MaxJobs /\ enqueued' = enqueued + 1
  /\ Len(workerQueue) < Cardinality(Workers) /\ workerQueue' = Append(workerQueue, enqueued + 1)
  /\ UNCHANGED <<ordered, caller, queue, workers, readers, closed, results, written>>

\* A worker receives a job, or finds the queue closed and drained.
TakeJob(w) ==
  /\ worker[w] = "idle" /\ worker' = [worker EXCEPT ![w] = "fn"]
  /\ workerQueue # <<>> /\ workerQueue' = Tail(workerQueue)
  /\ job' = [job EXCEPT ![w] = Head(workerQueue)]
  /\ UNCHANGED <<calls, queue, left, readers, closed, results, written>>

EndWorker(w) ==
  /\ worker[w] = "idle" /\ worker' = [worker EXCEPT ![w] = "ended"]
  /\ workerQueue = <<>> /\ caller = "waiting"
  /\ UNCHANGED <<calls, queues, job, left, readers, closed, results, written>>

\* fn returns n metrics.
Return(w, n) ==
  /\ worker[w] = "fn"
  /\ worker' = [worker EXCEPT ![w] = IF ordered THEN "send" ELSE "write"]
  /\ left' = [left EXCEPT ![w] = n]
  /\ results' = [results EXCEPT ![job[w]] = n]
  /\ UNCHANGED <<calls, queues, job, readers, closed, written>>

\* Mutant of Send: the workers share one channel of results.
SendShared(w) ==
  /\ worker[w] = "send" /\ worker' = [worker EXCEPT ![w] = "close"]
  /\ reader = "range" /\ unwritten = 0
  /\ future' = job[w] /\ unwritten' = left[w]
  /\ UNCHANGED <<calls, queues, job, left, reader, closed, results, written>>

\* job.future <- ...: the future is unbuffered, readQueue receives at once.
Send(w) ==
  /\ worker[w] = "send" /\ worker' = [worker EXCEPT ![w] = "close"]
  /\ reader = "range" /\ unwritten = 0 /\ future = job[w]
  /\ unwritten' = left[w]
  /\ UNCHANGED <<calls, queues, job, left, reader, future, closed, results, written>>

\* Mutant of CloseFuture: the future stays open.
LeaveOpen(w) ==
  /\ worker[w] = "close" /\ worker' = [worker EXCEPT ![w] = "idle"]
  /\ job' = [job EXCEPT ![w] = 0] /\ left' = [left EXCEPT ![w] = 0]
  /\ UNCHANGED <<calls, queues, readers, closed, results, written>>

CloseFuture(w) ==
  /\ worker[w] = "close" /\ worker' = [worker EXCEPT ![w] = "idle"]
  /\ closed' = closed \cup {job[w]}
  /\ job' = [job EXCEPT ![w] = 0] /\ left' = [left EXCEPT ![w] = 0]
  /\ UNCHANGED <<calls, queues, readers, results, written>>

\* A worker of Unordered gives a result to the accumulator, or has given all.
WriteUnordered(w) ==
  /\ worker[w] = "write"
  /\ left[w] > 0 /\ left' = [left EXCEPT ![w] = @ - 1]
  /\ written' = [written EXCEPT ![job[w]] = @ + 1]
  /\ UNCHANGED <<calls, queues, worker, job, readers, closed, results>>

WriteDone(w) ==
  /\ worker[w] = "write" /\ left[w] = 0
  /\ worker' = [worker EXCEPT ![w] = "idle"]
  /\ job' = [job EXCEPT ![w] = 0] /\ left' = [left EXCEPT ![w] = 0]
  /\ UNCHANGED <<calls, queues, readers, closed, results, written>>

\* readQueue takes the next future, ranges over it, and ends with the queue.
ReadFuture ==
  /\ reader = "idle" /\ reader' = "range"
  /\ queue # <<>> /\ queue' = Tail(queue)
  /\ future' = Head(queue)
  /\ UNCHANGED <<calls, workerQueue, workers, unwritten, closed, results, written>>

WriteOrdered ==
  /\ reader = "range"
  /\ unwritten > 0 /\ unwritten' = unwritten - 1
  /\ written' = [written EXCEPT ![future] = @ + 1]
  /\ UNCHANGED <<calls, queues, workers, reader, future, closed, results>>

FutureDone ==
  /\ reader = "range" /\ reader' = "idle"
  /\ unwritten = 0 /\ future \in closed /\ future' = 0
  /\ UNCHANGED <<calls, queues, workers, unwritten, closed, results, written>>

EndReader ==
  /\ reader = "idle" /\ reader' = "ended"
  /\ queue = <<>> /\ caller = "waiting"
  /\ UNCHANGED <<calls, queues, workers, future, unwritten, closed, results, written>>

\* Stop closes the queues ...
StopPool ==
  /\ caller = "ready" /\ caller' = "waiting"
  /\ UNCHANGED <<ordered, enqueued, queues, workers, readers, closed, results, written>>

\* Mutant of PoolStopped: the reader is not in the WaitGroup.
PoolStoppedEarly ==
  /\ caller = "waiting" /\ caller' = "stopped"
  /\ \A w \in Workers : worker[w] = "ended"
  /\ UNCHANGED <<ordered, enqueued, queues, workers, readers, closed, results, written>>

\* ... and waits for the goroutines.
PoolStopped ==
  /\ caller = "waiting" /\ caller' = "stopped"
  /\ reader = "ended" /\ \A w \in Workers : worker[w] = "ended"
  /\ UNCHANGED <<ordered, enqueued, queues, workers, readers, closed, results, written>>
-----------------------------------------------------------------------------
WorkerStep(w) ==
  \/ TakeJob(w) \/ EndWorker(w)
  \/ \E n \in 0 .. MaxResults : Return(w, n)
  \/ Send(w) \/ CloseFuture(w) \/ WriteUnordered(w) \/ WriteDone(w)

ReaderStep == ReadFuture \/ WriteOrdered \/ FutureDone \/ EndReader

PoolNext ==
  \/ Enqueue \/ EnqueueJob \/ EnqueueUnordered
  \/ StopPool \/ PoolStopped
  \/ \E w \in Workers : WorkerStep(w)
  \/ ReaderStep

PoolSpec == PoolInit /\ [][PoolNext]_poolVars

\* The goroutines of the pool go on, fn returns, and a call that waits for room gets
\* it.  The caller need not enqueue or stop.
PoolFairness ==
  /\ WF_poolVars(EnqueueJob) /\ WF_poolVars(PoolStopped) /\ WF_poolVars(ReaderStep)
  /\ \A w \in Workers : WF_poolVars(WorkerStep(w))
-----------------------------------------------------------------------------
\* Ordered passes the results on in the order in which the metrics were enqueued,
\* whichever worker is done first: before one of a metric, all of every earlier one.
\* "... p.queue will enforce order regardless of the order the jobs are completed in".
InOrder ==
  ordered => \A m, n \in 1 .. enqueued :
               m < n /\ written[n] > 0 => written[m] = results[m]

\* When Stop has returned every metric enqueued has been through fn, each of its
\* results has been given to the accumulator exactly once, and nothing is left that
\* a goroutine could give to it: the destination may be closed.
StopCompletes ==
  caller = "stopped" =>
    /\ \A m \in 1 .. enqueued : written[m] = results[m]
    /\ queue = <<>> /\ workerQueue = <<>>

\* Stop returns, although readers and workers wait for each other in both directions:
\* a worker for the reader to come to its future, the reader for the worker of its.
PoolStops == caller = "waiting" ~> caller = "stopped"
=============================================================================
