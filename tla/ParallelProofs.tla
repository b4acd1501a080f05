--------------------------- MODULE ParallelProofs ---------------------------
(***************************************************************************)
(* Proofs that a pool passes results on in order, is done when Stop        *)
(* returns and never gets stuck on the way there, for any number of        *)
(* workers, metrics and results.                                           *)
(***************************************************************************)
EXTENDS Parallel, FiniteSetTheorems, TLAPS

\* Futures that readQueue has taken, and jobs that workers have taken.
Read  == enqueued - Len(queue)
Taken == enqueued - (IF caller = "job" THEN 1 ELSE 0) - Len(workerQueue)

\* s holds the numbers after k.
Run(s, k) == \A i \in 1 .. Len(s) : s[i] = k + i

Busy(w) == worker[w] \in {"fn", "send", "close", "write"}

Has(w, m) == Busy(w) /\ job[w] = m

Sent(m) == m \in closed \/ \E w \in Workers : worker[w] = "close" /\ job[w] = m

WorkerStates == {"idle", "fn", "send", "close", "write", "ended"}

TypesInv ==
  /\ caller \in {"ready", "job", "waiting", "stopped"}
  /\ enqueued \in Nat /\ enqueued =< MaxJobs
  /\ queue \in Seq(Nat) /\ workerQueue \in Seq(Nat)
  /\ worker \in [Workers -> WorkerStates]
  /\ job \in [Workers -> Nat] /\ left \in [Workers -> Nat]
  /\ reader \in {"idle", "range", "ended"} /\ future \in Nat /\ unwritten \in Nat
  /\ results \in [1 .. MaxJobs -> Int] /\ written \in [1 .. MaxJobs -> Nat]

\* The queues hold consecutive numbers.
QueuesInv ==
  /\ Read \in Nat /\ Taken \in Nat
  /\ Run(queue, Read) /\ Run(workerQueue, Taken)
  /\ ~ordered => queue = <<>> /\ caller # "job" /\ reader = "ended"

\* Of the jobs taken each is with one worker or done.
JobsInv ==
  /\ closed \subseteq 1 .. Taken
  /\ \A w \in Workers : Busy(w) => job[w] \in 1 .. Taken /\ job[w] \notin closed
  /\ \A v, w \in Workers : Busy(v) /\ Has(w, job[v]) => v = w
  /\ ordered => \A m \in 1 .. Taken : m \in closed \/ \E w \in Workers : Has(w, m)
  /\ \A w \in Workers : worker[w] \in {"send", "close"} => ordered
  /\ \A w \in Workers : worker[w] = "write" => ~ordered

\* Of the futures taken all but the one that is being read have been written.
OrderedInv ==
  ordered =>
    /\ \A m \in 1 .. MaxJobs : m > Read => written[m] = 0
    /\ \A m \in 1 .. Read : m < Read \/ reader # "range" => m \in closed /\ written[m] = results[m]
    /\ reader = "range" =>
         /\ future = Read /\ Read > 0
         /\ Sent(Read) => written[Read] + unwritten = results[Read]
         /\ ~Sent(Read) => written[Read] = 0 /\ unwritten = 0
    /\ reader # "range" => unwritten = 0
    /\ \A m \in Nat : Sent(m) => m =< Read
    /\ \A w \in Workers : worker[w] = "send" => left[w] = results[job[w]]

\* Of the jobs taken all but those with a worker have been written.
UnorderedInv ==
  ~ordered =>
    /\ \A m \in 1 .. MaxJobs : m > Taken => written[m] = 0
    /\ \A m \in 1 .. Taken : written[m] = results[m] \/ \E w \in Workers : Has(w, m)
    /\ \A w \in Workers : worker[w] = "fn" => written[job[w]] = 0
    /\ \A w \in Workers : worker[w] = "write" =>
         written[job[w]] + left[w] = results[job[w]]

\* Goroutines end when Stop has been called and their queue is empty.
EndInv ==
  /\ \A w \in Workers : worker[w] = "ended" => workerQueue = <<>> /\ caller \in {"waiting", "stopped"}
  /\ ordered /\ reader = "ended" => queue = <<>> /\ caller \in {"waiting", "stopped"}
  /\ caller = "stopped" => reader = "ended" /\ \A w \in Workers : worker[w] = "ended"

PoolInv == TypesInv /\ QueuesInv /\ JobsInv /\ OrderedInv /\ UnorderedInv /\ EndInv
-----------------------------------------------------------------------------
\* A queue of consecutive numbers stays one when the next is appended ...
LEMMA RunAppend ==
  ASSUME NEW s \in Seq(Nat), NEW k \in Nat, NEW x \in Nat, Run(s, k), x = k + Len(s) + 1
  PROVE  /\ Append(s, x) \in Seq(Nat) /\ Len(Append(s, x)) = Len(s) + 1
         /\ Run(Append(s, x), k)
<1>1. /\ Append(s, x) \in Seq(Nat) /\ Len(Append(s, x)) = Len(s) + 1 /\ Len(s) \in Nat
      /\ \A i \in 1 .. Len(s) : Append(s, x)[i] = s[i]
      /\ Append(s, x)[Len(s) + 1] = x
  OBVIOUS
<1>2. ASSUME NEW i \in 1 .. Len(Append(s, x)) PROVE Append(s, x)[i] = k + i
  <2>1. CASE i = Len(s) + 1
    BY <1>1, <2>1
  <2>2. CASE i # Len(s) + 1
    <3>1. i \in 1 .. Len(s)
      BY <1>1, <2>2
    <3> QED
      BY Zenon, <1>1, <3>1 DEF Run
  <2> QED
    BY Zenon, <2>1, <2>2
<1> QED
  BY Zenon, <1>1, <1>2 DEF Run

\* ... and when the first is taken.
LEMMA RunTail ==
  ASSUME NEW s \in Seq(Nat), NEW k \in Nat, Run(s, k), s # <<>>
  PROVE  /\ Tail(s) \in Seq(Nat) /\ Len(Tail(s)) = Len(s) - 1 /\ Len(s) > 0
         /\ Head(s) = k + 1
         /\ Run(Tail(s), k + 1)
<1>1. /\ Tail(s) \in Seq(Nat) /\ Len(Tail(s)) = Len(s) - 1 /\ Len(s) \in Nat /\ Len(s) > 0
      /\ Head(s) = s[1] /\ \A i \in 1 .. Len(s) - 1 : Tail(s)[i] = s[i + 1]
  OBVIOUS
<1> QED
  BY <1>1 DEF Run

\* Numbers of metrics that are in use.
LEMMA InRange ==
  ASSUME PoolInv
  PROVE  /\ MaxJobs \in Nat /\ Read \in 0 .. MaxJobs /\ Taken \in 0 .. MaxJobs
         /\ \A w \in Workers : Busy(w) => job[w] \in 1 .. MaxJobs
         /\ reader = "range" => ordered /\ future = Read /\ future \in 1 .. MaxJobs
<1>1. MaxJobs \in Nat /\ Len(queue) \in Nat /\ Len(workerQueue) \in Nat /\ enqueued \in Nat
      /\ enqueued =< MaxJobs /\ Read \in Nat /\ Taken \in Nat
  BY PoolAssumption DEF PoolInv, TypesInv, QueuesInv
<1>2. Read =< MaxJobs
  BY <1>1 DEF Read
<1>3. Taken =< MaxJobs
  BY <1>1 DEF Taken
<1>4. \A w \in Workers : Busy(w) => job[w] \in 1 .. MaxJobs
  BY <1>1, <1>3 DEF PoolInv, JobsInv
<1>5. reader = "range" => ordered /\ future = Read /\ future \in 1 .. MaxJobs
  BY <1>1, <1>2 DEF PoolInv, QueuesInv, OrderedInv
<1> QED
  BY <1>1, <1>2, <1>3, <1>4, <1>5

\* A future is enqueued, its job not yet.
LEMMA EnqueueInv ==
  ASSUME PoolInv, Enqueue
  PROVE  PoolInv'
<1>0. /\ TypesInv /\ QueuesInv /\ JobsInv /\ OrderedInv /\ UnorderedInv /\ EndInv
      /\ MaxJobs \in Nat /\ Read \in 0 .. MaxJobs /\ Taken \in 0 .. MaxJobs
      /\ \A v \in Workers : Busy(v) => job[v] \in 1 .. MaxJobs
      /\ reader = "range" => ordered /\ future = Read /\ future \in 1 .. MaxJobs
  BY Zenon, InRange DEF PoolInv
<1>1. /\ ordered /\ caller = "ready" /\ caller' = "job"
      /\ enqueued < MaxJobs /\ enqueued' = enqueued + 1 /\ queue' = Append(queue, enqueued + 1)
      /\ ordered' = ordered /\ workerQueue' = workerQueue /\ worker' = worker
      /\ job' = job /\ left' = left /\ reader' = reader /\ future' = future
      /\ unwritten' = unwritten /\ closed' = closed /\ results' = results
      /\ written' = written
  BY Zenon DEF Enqueue, calls, queues, workers, readers
<1>2. Read' = Read /\ Taken' = Taken /\ queue' \in Seq(Nat) /\ Run(queue', Read)
  BY <1>0, <1>1, RunAppend DEF Read, Taken, TypesInv, QueuesInv
<1>3. TypesInv'
  BY SMTT(30), <1>0, <1>1, <1>2 DEF TypesInv, WorkerStates
<1>4. QueuesInv'
  BY Zenon, <1>0, <1>1, <1>2 DEF TypesInv, QueuesInv
<1>5. JobsInv'
  BY Zenon, <1>0, <1>1, <1>2 DEF TypesInv, QueuesInv, JobsInv, Busy, Has
<1>6. OrderedInv'
  BY Zenon, <1>0, <1>1, <1>2 DEF TypesInv, QueuesInv, JobsInv, OrderedInv, Sent, Busy, Has
<1>7. UnorderedInv'
  BY Zenon, <1>0, <1>1, <1>2 DEF TypesInv, QueuesInv, JobsInv, UnorderedInv, Busy, Has
<1>8. EndInv'
  BY Zenon, <1>0, <1>1, <1>2 DEF TypesInv, EndInv, QueuesInv
<1> QED
  BY Zenon, <1>3, <1>4, <1>5, <1>6, <1>7, <1>8 DEF PoolInv

\* The job of a future is enqueued.
LEMMA EnqueueJobInv ==
  ASSUME PoolInv, EnqueueJob
  PROVE  PoolInv'
<1>0. /\ TypesInv /\ QueuesInv /\ JobsInv /\ OrderedInv /\ UnorderedInv /\ EndInv
      /\ MaxJobs \in Nat /\ Read \in 0 .. MaxJobs /\ Taken \in 0 .. MaxJobs
      /\ \A v \in Workers : Busy(v) => job[v] \in 1 .. MaxJobs
      /\ reader = "range" => ordered /\ future = Read /\ future \in 1 .. MaxJobs
  BY InRange DEF PoolInv
<1>1. /\ caller = "job" /\ caller' = "ready"
      /\ workerQueue' = Append(workerQueue, enqueued)
      /\ ordered' = ordered /\ enqueued' = enqueued /\ queue' = queue /\ worker' = worker
      /\ job' = job /\ left' = left /\ reader' = reader /\ future' = future
      /\ unwritten' = unwritten /\ closed' = closed /\ results' = results
      /\ written' = written
  BY Zenon DEF EnqueueJob, calls, queues, workers, readers
<1>2. Read' = Read /\ Taken' = Taken /\ workerQueue' \in Seq(Nat) /\ Run(workerQueue', Taken)
  BY <1>0, <1>1, RunAppend DEF Read, Taken, TypesInv, QueuesInv
<1>3. TypesInv'
  BY Zenon, <1>0, <1>1, <1>2 DEF TypesInv, WorkerStates
<1>4. QueuesInv'
  BY Zenon, <1>0, <1>1, <1>2 DEF TypesInv, QueuesInv
<1>5. JobsInv'
  BY Zenon, <1>0, <1>1, <1>2 DEF TypesInv, QueuesInv, JobsInv, Busy, Has
<1>6. OrderedInv'
  BY Zenon, <1>0, <1>1, <1>2 DEF TypesInv, QueuesInv, JobsInv, OrderedInv, Sent, Busy, Has
<1>7. UnorderedInv'
  BY Zenon, <1>0, <1>1, <1>2 DEF TypesInv, QueuesInv, JobsInv, UnorderedInv, Busy, Has
<1>8. EndInv'
  BY Zenon, <1>0, <1>1, <1>2 DEF TypesInv, EndInv, QueuesInv
<1> QED
  BY <1>3, <1>4, <1>5, <1>6, <1>7, <1>8 DEF PoolInv

\* A metric is enqueued.
LEMMA EnqueueUnorderedInv ==
  ASSUME PoolInv, EnqueueUnordered
  PROVE  PoolInv'
<1>0. /\ TypesInv /\ QueuesInv /\ JobsInv /\ OrderedInv /\ UnorderedInv /\ EndInv
      /\ MaxJobs \in Nat /\ Read \in 0 .. MaxJobs /\ Taken \in 0 .. MaxJobs
      /\ \A v \in Workers : Busy(v) => job[v] \in 1 .. MaxJobs
      /\ reader = "range" => ordered /\ future = Read /\ future \in 1 .. MaxJobs
  BY InRange DEF PoolInv
<1>1. /\ ~ordered /\ caller = "ready"
      /\ enqueued < MaxJobs /\ enqueued' = enqueued + 1
      /\ workerQueue' = Append(workerQueue, enqueued + 1)
      /\ ordered' = ordered /\ caller' = caller /\ queue' = queue /\ worker' = worker
      /\ job' = job /\ left' = left /\ reader' = reader /\ future' = future
      /\ unwritten' = unwritten /\ closed' = closed /\ results' = results
      /\ written' = written
  BY Zenon DEF EnqueueUnordered, calls, queues, workers, readers
<1>2. Read' = Read + 1 /\ Taken' = Taken /\ workerQueue' \in Seq(Nat) /\ Run(workerQueue', Taken)
  BY <1>0, <1>1, RunAppend DEF Read, Taken, TypesInv, QueuesInv
<1>3. TypesInv'
  BY SMTT(30), <1>0, <1>1, <1>2 DEF TypesInv, WorkerStates
<1>4. QueuesInv'
  <2>1. Run(queue', Read')
    BY <1>0, <1>1 DEF QueuesInv, Run
  <2> QED
    BY <1>0, <1>1, <1>2, <2>1 DEF QueuesInv
<1>5. JobsInv'
  BY Zenon, <1>0, <1>1, <1>2 DEF TypesInv, QueuesInv, JobsInv, Busy, Has
<1>6. OrderedInv'
  BY Zenon, <1>0, <1>1, <1>2 DEF TypesInv, QueuesInv, JobsInv, OrderedInv, Sent, Busy, Has
<1>7. UnorderedInv'
  BY <1>0, <1>1, <1>2 DEF TypesInv, QueuesInv, JobsInv, UnorderedInv, Busy, Has
<1>8. EndInv'
  BY Zenon, <1>0, <1>1, <1>2 DEF TypesInv, EndInv, QueuesInv
<1> QED
  BY <1>3, <1>4, <1>5, <1>6, <1>7, <1>8 DEF PoolInv

\* Stop closes the queues.
LEMMA StopPoolInv ==
  ASSUME PoolInv, StopPool
  PROVE  PoolInv'
<1>0. /\ TypesInv /\ QueuesInv /\ JobsInv /\ OrderedInv /\ UnorderedInv /\ EndInv
      /\ MaxJobs \in Nat /\ Read \in 0 .. MaxJobs /\ Taken \in 0 .. MaxJobs
      /\ \A v \in Workers : Busy(v) => job[v] \in 1 .. MaxJobs
      /\ reader = "range" => ordered /\ future = Read /\ future \in 1 .. MaxJobs
  BY InRange DEF PoolInv
<1>1. /\ caller = "ready" /\ caller' = "waiting"
      /\ ordered' = ordered /\ enqueued' = enqueued /\ queue' = queue
      /\ workerQueue' = workerQueue /\ worker' = worker /\ job' = job /\ left' = left
      /\ reader' = reader /\ future' = future /\ unwritten' = unwritten
      /\ closed' = closed /\ results' = results /\ written' = written
  BY Zenon DEF StopPool, calls, queues, workers, readers
<1>2. Read' = Read /\ Taken' = Taken
  BY Zenon, <1>1 DEF Read, Taken
<1>3. TypesInv'
  BY Zenon, <1>0, <1>1, <1>2 DEF TypesInv, WorkerStates
<1>4. QueuesInv'
  BY Zenon, <1>0, <1>1, <1>2 DEF TypesInv, QueuesInv
<1>5. JobsInv'
  BY Zenon, <1>0, <1>1, <1>2 DEF TypesInv, QueuesInv, JobsInv, Busy, Has
<1>6. OrderedInv'
  BY Zenon, <1>0, <1>1, <1>2 DEF TypesInv, QueuesInv, JobsInv, OrderedInv, Sent, Busy, Has
<1>7. UnorderedInv'
  BY <1>0, <1>1, <1>2 DEF TypesInv, QueuesInv, JobsInv, UnorderedInv, Busy, Has
<1>8. EndInv'
  BY Zenon, <1>0, <1>1, <1>2 DEF TypesInv, EndInv, QueuesInv
<1> QED
  BY <1>3, <1>4, <1>5, <1>6, <1>7, <1>8 DEF PoolInv

\* Stop returns.
LEMMA PoolStoppedInv ==
  ASSUME PoolInv, PoolStopped
  PROVE  PoolInv'
<1>0. /\ TypesInv /\ QueuesInv /\ JobsInv /\ OrderedInv /\ UnorderedInv /\ EndInv
      /\ MaxJobs \in Nat /\ Read \in 0 .. MaxJobs /\ Taken \in 0 .. MaxJobs
      /\ \A v \in Workers : Busy(v) => job[v] \in 1 .. MaxJobs
      /\ reader = "range" => ordered /\ future = Read /\ future \in 1 .. MaxJobs
  BY InRange DEF PoolInv
<1>1. /\ caller = "waiting" /\ caller' = "stopped"
      /\ reader = "ended" /\ \A w \in Workers : worker[w] = "ended"
      /\ ordered' = ordered /\ enqueued' = enqueued /\ queue' = queue
      /\ workerQueue' = workerQueue /\ worker' = worker /\ job' = job /\ left' = left
      /\ reader' = reader /\ future' = future /\ unwritten' = unwritten
      /\ closed' = closed /\ results' = results /\ written' = written
  BY Zenon DEF PoolStopped, calls, queues, workers, readers
<1>2. Read' = Read /\ Taken' = Taken
  BY Zenon, <1>1 DEF Read, Taken
<1>3. TypesInv'
  BY Zenon, <1>0, <1>1, <1>2 DEF TypesInv, WorkerStates
<1>4. QueuesInv'
  BY Zenon, <1>0, <1>1, <1>2 DEF TypesInv, QueuesInv
<1>5. JobsInv'
  BY Zenon, <1>0, <1>1, <1>2 DEF TypesInv, QueuesInv, JobsInv, Busy, Has
<1>6. OrderedInv'
  BY Zenon, <1>0, <1>1, <1>2 DEF TypesInv, QueuesInv, JobsInv, OrderedInv, Sent, Busy, Has
<1>7. UnorderedInv'
  BY Zenon, <1>0, <1>1, <1>2 DEF TypesInv, QueuesInv, JobsInv, UnorderedInv, Busy, Has
<1>8. EndInv'
  BY Zenon, <1>0, <1>1, <1>2 DEF TypesInv, EndInv, QueuesInv
<1> QED
  BY <1>3, <1>4, <1>5, <1>6, <1>7, <1>8 DEF PoolInv

\* A worker takes the next job.
LEMMA TakeJobInv ==
  ASSUME PoolInv, NEW w \in Workers, TakeJob(w)
  PROVE  PoolInv'
<1>0. /\ TypesInv /\ QueuesInv /\ JobsInv /\ OrderedInv /\ UnorderedInv /\ EndInv
      /\ MaxJobs \in Nat /\ Read \in 0 .. MaxJobs /\ Taken \in 0 .. MaxJobs
      /\ \A v \in Workers : Busy(v) => job[v] \in 1 .. MaxJobs
      /\ reader = "range" => ordered /\ future = Read /\ future \in 1 .. MaxJobs
  BY Zenon, InRange DEF PoolInv
<1>1. /\ worker[w] = "idle" /\ workerQueue # <<>> /\ workerQueue' = Tail(workerQueue)
      /\ worker' \in [Workers -> WorkerStates] /\ worker'[w] = "fn"
      /\ \A v \in Workers : v # w => worker'[v] = worker[v]
      /\ job' \in [Workers -> Nat] /\ job'[w] = Head(workerQueue)
      /\ \A v \in Workers : v # w => job'[v] = job[v]
      /\ ordered' = ordered /\ caller' = caller /\ enqueued' = enqueued /\ queue' = queue
      /\ left' = left /\ reader' = reader /\ future' = future /\ unwritten' = unwritten
      /\ closed' = closed /\ results' = results /\ written' = written
  BY SMTT(30), <1>0 DEF TakeJob, TypesInv, WorkerStates, calls, queues, workers, readers
<1>2. /\ Read' = Read /\ Taken' = Taken + 1 /\ Head(workerQueue) = Taken + 1
      /\ workerQueue' \in Seq(Nat) /\ Run(workerQueue', Taken + 1)
  <2>1. /\ Tail(workerQueue) \in Seq(Nat) /\ Len(Tail(workerQueue)) = Len(workerQueue) - 1
        /\ Head(workerQueue) = Taken + 1 /\ Run(Tail(workerQueue), Taken + 1)
    BY Zenon, <1>0, <1>1, RunTail DEF TypesInv, QueuesInv
  <2>2. Len(workerQueue) \in Nat /\ enqueued \in Nat
    BY <1>0 DEF TypesInv
  <2>3. Taken' = Taken + 1
    BY <1>1, <2>1, <2>2 DEF Taken
  <2> QED
    BY Zenon, <1>1, <2>1, <2>3 DEF Read
<1>3. TypesInv'
  BY Zenon, <1>0, <1>1, <1>2 DEF TypesInv, WorkerStates
<1>4. QueuesInv'
  BY <1>0, <1>1, <1>2 DEF TypesInv, QueuesInv
<1>5. JobsInv'
  <2>9. /\ Taken \in Nat /\ job'[w] = Taken + 1 /\ ~Busy(w)
        /\ \A v \in Workers : Busy(v) => job[v] \in 1 .. Taken
        /\ \A v \in Workers : v # w => (Busy(v)' <=> Busy(v)) /\ job'[v] = job[v]
    BY <1>0, <1>1, <1>2 DEF JobsInv, Busy
  <2>1. closed' \subseteq 1 .. Taken'
    BY <1>0, <1>1, <1>2 DEF JobsInv, Busy
  <2>2. \A v \in Workers : Busy(v)' => job'[v] \in 1 .. Taken' /\ job'[v] \notin closed'
    BY <1>0, <1>1, <1>2 DEF JobsInv, Busy, Has
  <2>3. \A u, v \in Workers : Busy(u)' /\ Busy(v)' /\ job'[u] = job'[v] => u = v
    <3>1. \A u, v \in Workers : Busy(u) /\ Busy(v) /\ job[u] = job[v] => u = v
      BY Zenon, <1>0 DEF JobsInv, Has
    <3>2. \A v \in Workers : Busy(v) => job[v] # Taken + 1
      BY <2>9
    <3> QED
      BY Zenon, <2>9, <3>1, <3>2
  <2>4. ordered' => \A m \in 1 .. Taken' : m \in closed' \/ \E v \in Workers : Has(v, m)'
    <3> SUFFICES ASSUME ordered', NEW m \in 1 .. Taken'
                 PROVE  m \in closed' \/ \E v \in Workers : Has(v, m)'
      OBVIOUS
    <3>1. CASE m = Taken + 1
      BY Zenon, <3>1, <1>1, <2>9 DEF Has, Busy
    <3>2. CASE m # Taken + 1
      <4>1. m \in 1 .. Taken
        BY <3>2, <1>2, <2>9
      <4>2. m \in closed \/ \E v \in Workers : Has(v, m)
        BY Zenon, <4>1, <1>0, <1>1 DEF JobsInv
      <4> QED
        BY Zenon, <4>2, <2>9, <1>1 DEF Has
    <3> QED
      BY Zenon, <3>1, <3>2
  <2>5. \A v \in Workers : /\ worker'[v] \in {"send", "close"} => ordered'
                           /\ worker'[v] = "write" => ~ordered'
    BY Zenon, <1>0, <1>1 DEF JobsInv
  <2> QED
    BY Zenon, <2>1, <2>2, <2>3, <2>4, <2>5 DEF JobsInv, Has
<1>6. OrderedInv'
  <2> SUFFICES ASSUME ordered PROVE OrderedInv'
    BY Zenon, <1>1 DEF OrderedInv
  <2>0. \A m : Sent(m)' <=> Sent(m)
    BY Zenon, <1>1 DEF Sent
  <2>1. \A m \in 1 .. MaxJobs : m > Read' => written'[m] = 0
    BY Zenon, <1>0, <1>1, <1>2 DEF TypesInv, OrderedInv
  <2>2. \A m \in 1 .. Read' : m < Read' \/ reader' # "range" => m \in closed' /\ written'[m] = results'[m]
    BY Zenon, <1>0, <1>1, <1>2 DEF TypesInv, OrderedInv
  <2>3. /\ reader' = "range" => future' = Read' /\ Read' > 0
        /\ reader' # "range" => unwritten' = 0
    BY Zenon, <1>0, <1>1, <1>2 DEF OrderedInv
  <2>4. reader' = "range" /\ Sent(Read)' => written'[Read'] + unwritten' = results'[Read']
    BY Zenon, <1>0, <1>1, <1>2, <2>0 DEF TypesInv, OrderedInv
  <2>5. reader' = "range" /\ ~Sent(Read)' => written'[Read'] = 0 /\ unwritten' = 0
    BY Zenon, <1>0, <1>1, <1>2, <2>0 DEF TypesInv, OrderedInv
  <2>6. \A m \in Nat : Sent(m)' => m =< Read'
    BY Zenon, <1>0, <1>1, <1>2, <2>0 DEF OrderedInv
  <2>7. \A v \in Workers : worker'[v] = "send" => left'[v] = results'[job'[v]]
    BY Zenon, <1>0, <1>1 DEF OrderedInv
  <2> QED
    BY Zenon, <2>1, <2>2, <2>3, <2>4, <2>5, <2>6, <2>7 DEF OrderedInv
<1>7. UnorderedInv'
  <2> SUFFICES ASSUME ~ordered PROVE UnorderedInv'
    BY Zenon, <1>1 DEF UnorderedInv
  <2>8. /\ Taken \in Nat /\ job'[w] = Taken + 1 /\ ~Busy(w)
        /\ \A v \in Workers : Busy(v) => job[v] \in 1 .. Taken
        /\ \A v \in Workers : v # w => (Busy(v)' <=> Busy(v)) /\ job'[v] = job[v]
    BY <1>0, <1>1, <1>2 DEF JobsInv, Busy
  <2>1. \A m \in 1 .. MaxJobs : m > Taken' => written'[m] = 0
    BY <1>0, <1>1, <1>2 DEF TypesInv, UnorderedInv, JobsInv, Busy
  <2>2. \A m \in 1 .. Taken' : written'[m] = results'[m] \/ \E v \in Workers : Has(v, m)'
    <3> SUFFICES ASSUME NEW m \in 1 .. Taken'
                 PROVE  written'[m] = results'[m] \/ \E v \in Workers : Has(v, m)'
      OBVIOUS
    <3>1. CASE m = Taken + 1
      BY Zenon, <3>1, <1>1, <2>8 DEF Has, Busy
    <3>2. CASE m # Taken + 1
      <4>1. m \in 1 .. Taken
        BY <3>2, <1>2, <2>8
      <4>2. written[m] = results[m] \/ \E v \in Workers : Has(v, m)
        BY Zenon, <4>1, <1>0 DEF UnorderedInv
      <4> QED
        BY Zenon, <4>2, <2>8, <1>1 DEF Has
    <3> QED
      BY Zenon, <3>1, <3>2
  <2>3. \A v \in Workers : worker'[v] = "fn" => written'[job'[v]] = 0
    <3>1. written[Taken + 1] = 0
      <4>1. Taken + 1 \in 1 .. MaxJobs
        <5>1. Len(workerQueue) \in Nat /\ Len(workerQueue) > 0 /\ enqueued \in Nat /\ enqueued =< MaxJobs
          BY <1>0, <1>1 DEF TypesInv
        <5> QED
          BY <5>1, <1>0 DEF Taken
      <4> QED
        BY <4>1, <2>8, <1>0 DEF UnorderedInv
    <3> QED
      BY <3>1, <1>0, <1>1, <2>8 DEF UnorderedInv
  <2>4. \A v \in Workers : worker'[v] = "write" => written'[job'[v]] + left'[v] = results'[job'[v]]
    BY ZenonT(40), <1>0, <1>1, <1>2 DEF TypesInv, UnorderedInv, JobsInv, Busy, Has
  <2> QED
    BY Zenon, <2>1, <2>2, <2>3, <2>4 DEF UnorderedInv
<1>8. EndInv'
  BY Zenon, <1>0, <1>1, <1>2 DEF TypesInv, EndInv, QueuesInv
<1> QED
  BY Zenon, <1>3, <1>4, <1>5, <1>6, <1>7, <1>8 DEF PoolInv

\* A worker ends.
LEMMA EndWorkerInv ==
  ASSUME PoolInv, NEW w \in Workers, EndWorker(w)
  PROVE  PoolInv'
<1>0. /\ TypesInv /\ QueuesInv /\ JobsInv /\ OrderedInv /\ UnorderedInv /\ EndInv
      /\ MaxJobs \in Nat /\ Read \in 0 .. MaxJobs /\ Taken \in 0 .. MaxJobs
      /\ \A v \in Workers : Busy(v) => job[v] \in 1 .. MaxJobs
      /\ reader = "range" => ordered /\ future = Read /\ future \in 1 .. MaxJobs
  BY InRange DEF PoolInv
<1>1. /\ worker[w] = "idle" /\ workerQueue = <<>> /\ caller = "waiting"
      /\ worker' \in [Workers -> WorkerStates] /\ worker'[w] = "ended"
      /\ \A v \in Workers : v # w => worker'[v] = worker[v]
      /\ ordered' = ordered /\ caller' = caller /\ enqueued' = enqueued /\ queue' = queue
      /\ workerQueue' = workerQueue /\ job' = job /\ left' = left /\ reader' = reader
      /\ future' = future /\ unwritten' = unwritten /\ closed' = closed
      /\ results' = results /\ written' = written
  BY Zenon, <1>0 DEF EndWorker, TypesInv, WorkerStates, calls, queues, workers, readers
<1>2. Read' = Read /\ Taken' = Taken
  BY Zenon, <1>1 DEF Read, Taken
<1>3. TypesInv'
  BY Zenon, <1>0, <1>1, <1>2 DEF TypesInv, WorkerStates
<1>4. QueuesInv'
  BY Zenon, <1>0, <1>1, <1>2 DEF TypesInv, QueuesInv
<1>5. JobsInv'
  <2>1. closed' \subseteq 1 .. Taken'
    BY Zenon, <1>0, <1>1, <1>2 DEF JobsInv, Busy
  <2>2. \A v \in Workers : Busy(v)' => job'[v] \in 1 .. Taken' /\ job'[v] \notin closed'
    BY Zenon, <1>0, <1>1, <1>2 DEF JobsInv, Busy, Has
  <2>3. \A u, v \in Workers : Busy(u)' /\ Busy(v)' /\ job'[u] = job'[v] => u = v
    BY <1>0, <1>1, <1>2 DEF JobsInv, Busy, Has
  <2>4. ordered' => \A m \in 1 .. Taken' : m \in closed' \/ \E v \in Workers : Has(v, m)'
    BY Zenon, <1>0, <1>1, <1>2 DEF JobsInv, Busy, Has
  <2>5. \A v \in Workers : /\ worker'[v] \in {"send", "close"} => ordered'
                           /\ worker'[v] = "write" => ~ordered'
    BY Zenon, <1>0, <1>1 DEF JobsInv
  <2> QED
    BY <2>1, <2>2, <2>3, <2>4, <2>5 DEF JobsInv, Has
<1>6. OrderedInv'
  <2> SUFFICES ASSUME ordered PROVE OrderedInv'
    BY Zenon, <1>1 DEF OrderedInv
  <2>0. \A m : Sent(m)' <=> Sent(m)
    BY Zenon, <1>1 DEF Sent
  <2>1. \A m \in 1 .. MaxJobs : m > Read' => written'[m] = 0
    BY Zenon, <1>0, <1>1, <1>2 DEF TypesInv, OrderedInv
  <2>2. \A m \in 1 .. Read' : m < Read' \/ reader' # "range" => m \in closed' /\ written'[m] = results'[m]
    BY Zenon, <1>0, <1>1, <1>2 DEF TypesInv, OrderedInv
  <2>3. /\ reader' = "range" => future' = Read' /\ Read' > 0
        /\ reader' # "range" => unwritten' = 0
    BY Zenon, <1>0, <1>1, <1>2 DEF OrderedInv
  <2>4. reader' = "range" /\ Sent(Read)' => written'[Read'] + unwritten' = results'[Read']
    BY Zenon, <1>0, <1>1, <1>2, <2>0 DEF TypesInv, OrderedInv
  <2>5. reader' = "range" /\ ~Sent(Read)' => written'[Read'] = 0 /\ unwritten' = 0
    BY Zenon, <1>0, <1>1, <1>2, <2>0 DEF TypesInv, OrderedInv
  <2>6. \A m \in Nat : Sent(m)' => m =< Read'
    BY Zenon, <1>0, <1>1, <1>2, <2>0 DEF OrderedInv
  <2>7. \A v \in Workers : worker'[v] = "send" => left'[v] = results'[job'[v]]
    BY Zenon, <1>0, <1>1 DEF OrderedInv
  <2> QED
    BY <2>1, <2>2, <2>3, <2>4, <2>5, <2>6, <2>7 DEF OrderedInv
<1>7. UnorderedInv'
  BY SMTT(30), <1>0, <1>1, <1>2 DEF TypesInv, QueuesInv, JobsInv, UnorderedInv, Busy, Has
<1>8. EndInv'
  BY Zenon, <1>0, <1>1, <1>2 DEF TypesInv, EndInv, QueuesInv
<1> QED
  BY <1>3, <1>4, <1>5, <1>6, <1>7, <1>8 DEF PoolInv

\* fn returns.
LEMMA ReturnInv ==
  ASSUME PoolInv, NEW w \in Workers, NEW n \in 0 .. MaxResults, Return(w, n)
  PROVE  PoolInv'
<1>0. /\ TypesInv /\ QueuesInv /\ JobsInv /\ OrderedInv /\ UnorderedInv /\ EndInv
      /\ MaxJobs \in Nat /\ Read \in 0 .. MaxJobs /\ Taken \in 0 .. MaxJobs
      /\ \A v \in Workers : Busy(v) => job[v] \in 1 .. MaxJobs
      /\ reader = "range" => ordered /\ future = Read /\ future \in 1 .. MaxJobs
  BY Zenon, InRange DEF PoolInv
<1>1. /\ worker[w] = "fn"
      /\ worker' \in [Workers -> WorkerStates] /\ worker'[w] = (IF ordered THEN "send" ELSE "write")
      /\ \A v \in Workers : v # w => worker'[v] = worker[v]
      /\ left' \in [Workers -> Nat] /\ left'[w] = n
      /\ \A v \in Workers : v # w => left'[v] = left[v]
      /\ results' \in [1 .. MaxJobs -> Int] /\ results'[job[w]] = n
      /\ \A m \in 1 .. MaxJobs : m # job[w] => results'[m] = results[m]
      /\ ordered' = ordered /\ caller' = caller /\ enqueued' = enqueued /\ queue' = queue
      /\ workerQueue' = workerQueue /\ job' = job /\ reader' = reader /\ future' = future
      /\ unwritten' = unwritten /\ closed' = closed /\ written' = written
  BY <1>0 DEF Return, TypesInv, Busy, WorkerStates, calls, queues, workers, readers
<1>2. Read' = Read /\ Taken' = Taken
  BY Zenon, <1>1 DEF Read, Taken
<1>3. TypesInv'
  BY Zenon, <1>0, <1>1, <1>2 DEF TypesInv, WorkerStates
<1>4. QueuesInv'
  BY Zenon, <1>0, <1>1, <1>2 DEF TypesInv, QueuesInv
<1>5. JobsInv'
  <2>1. closed' \subseteq 1 .. Taken'
    BY Zenon, <1>0, <1>1, <1>2 DEF JobsInv, Busy
  <2>2. \A v \in Workers : Busy(v)' => job'[v] \in 1 .. Taken' /\ job'[v] \notin closed'
    BY Zenon, <1>0, <1>1, <1>2 DEF JobsInv, Busy, Has
  <2>3. \A u, v \in Workers : Busy(u)' /\ Busy(v)' /\ job'[u] = job'[v] => u = v
    <3>1. \A v \in Workers : Busy(v)' <=> Busy(v)
      BY Zenon, <1>1 DEF Busy
    <3> QED
      BY Zenon, <1>0, <1>1, <3>1 DEF JobsInv, Has
  <2>4. ordered' => \A m \in 1 .. Taken' : m \in closed' \/ \E v \in Workers : Has(v, m)'
    <3>1. \A v \in Workers : Busy(v)' <=> Busy(v)
      BY Zenon, <1>1 DEF Busy
    <3>2. \A m \in 1 .. Taken : \A v \in Workers : Has(v, m) => Has(v, m)'
      BY Zenon, <1>1, <3>1 DEF Has
    <3> QED
      BY Zenon, <1>0, <1>1, <1>2, <3>2 DEF JobsInv
  <2>5. \A v \in Workers : /\ worker'[v] \in {"send", "close"} => ordered'
                           /\ worker'[v] = "write" => ~ordered'
    BY Zenon, <1>0, <1>1 DEF JobsInv
  <2> QED
    BY Zenon, <2>1, <2>2, <2>3, <2>4, <2>5 DEF JobsInv, Has
<1>6. OrderedInv'
  <2> SUFFICES ASSUME ordered PROVE OrderedInv'
    BY Zenon, <1>1 DEF OrderedInv
  <2>0. \A m : Sent(m)' <=> Sent(m)
    BY Zenon, <1>1 DEF Sent
  <2>8. /\ Busy(w) /\ job[w] \in 1 .. MaxJobs
        /\ \A v \in Workers : v # w /\ Busy(v) => job[v] # job[w] /\ job[v] \in 1 .. MaxJobs
        /\ \A v \in Workers : worker[v] \in {"fn", "send", "close", "write"} => Busy(v)
    BY Zenon, <1>0, <1>1 DEF JobsInv, Busy, Has
  <2>10. \A m : Sent(m) => m # job[w]
    BY Zenon, <1>0, <1>1, <2>8 DEF Sent, JobsInv
  <2>1. \A m \in 1 .. MaxJobs : m > Read' => written'[m] = 0
    BY Zenon, <1>0, <1>1, <1>2 DEF TypesInv, OrderedInv
  <2>2. \A m \in 1 .. Read' : m < Read' \/ reader' # "range" => m \in closed' /\ written'[m] = results'[m]
    BY SMTT(30), <1>0, <1>1, <1>2, <2>10 DEF OrderedInv, Sent
  <2>3. /\ reader' = "range" => future' = Read' /\ Read' > 0
        /\ reader' # "range" => unwritten' = 0
    BY Zenon, <1>0, <1>1, <1>2 DEF OrderedInv
  <2>4. reader' = "range" /\ Sent(Read)' => written'[Read'] + unwritten' = results'[Read']
    BY Zenon, <1>0, <1>1, <1>2, <2>0, <2>10 DEF OrderedInv
  <2>5. reader' = "range" /\ ~Sent(Read)' => written'[Read'] = 0 /\ unwritten' = 0
    BY Zenon, <1>0, <1>1, <1>2, <2>0 DEF TypesInv, OrderedInv
  <2>6. \A m \in Nat : Sent(m)' => m =< Read'
    BY Zenon, <1>0, <1>1, <1>2, <2>0 DEF OrderedInv
  <2>7. \A v \in Workers : worker'[v] = "send" => left'[v] = results'[job'[v]]
    BY ZenonT(40), <1>0, <1>1, <2>8 DEF OrderedInv
  <2> QED
    BY Zenon, <2>1, <2>2, <2>3, <2>4, <2>5, <2>6, <2>7 DEF OrderedInv
<1>7. UnorderedInv'
  <2> SUFFICES ASSUME ~ordered PROVE UnorderedInv'
    BY Zenon, <1>1 DEF UnorderedInv
  <2>8. /\ Busy(w) /\ job[w] \in 1 .. MaxJobs
        /\ \A v \in Workers : v # w /\ Busy(v) => job[v] # job[w] /\ job[v] \in 1 .. MaxJobs
        /\ \A v \in Workers : worker[v] \in {"fn", "send", "close", "write"} => Busy(v)
    BY Zenon, <1>0, <1>1 DEF JobsInv, Busy, Has
  <2>9. \A v \in Workers, m \in Nat : Has(v, m) => Has(v, m)'
    BY Zenon, <1>0, <1>1 DEF Has, Busy
  <2>1. \A m \in 1 .. MaxJobs : m > Taken' => written'[m] = 0
    BY Zenon, <1>0, <1>1, <1>2 DEF TypesInv, UnorderedInv, JobsInv, Busy
  <2>2. \A m \in 1 .. Taken' : written'[m] = results'[m] \/ \E v \in Workers : Has(v, m)'
    <3> SUFFICES ASSUME NEW m \in 1 .. Taken'
                 PROVE  written'[m] = results'[m] \/ \E v \in Workers : Has(v, m)'
      OBVIOUS
    <3>1. m \in 1 .. Taken /\ m \in Nat
      BY <1>2
    <3>2. CASE \E v \in Workers : Has(v, m)
      BY Zenon, <3>1, <3>2, <2>9
    <3>3. CASE m = job[w]
      BY Zenon, <3>3, <2>8, <3>2, <3>1 DEF Has
    <3>4. CASE m # job[w] /\ written[m] = results[m]
      <4>1. m \in 1 .. MaxJobs
        BY <3>1, <1>0
      <4> QED
        BY Zenon, <3>4, <4>1, <1>1
    <3> QED
      BY Zenon, <3>1, <3>2, <3>3, <3>4, <1>0 DEF UnorderedInv
  <2>3. \A v \in Workers : worker'[v] = "fn" => written'[job'[v]] = 0
    BY Zenon, <1>0, <1>1, <2>8 DEF UnorderedInv
  <2>4. \A v \in Workers : worker'[v] = "write" => written'[job'[v]] + left'[v] = results'[job'[v]]
    BY SMTT(60), <1>0, <1>1, <2>8 DEF UnorderedInv
  <2> QED
    BY Zenon, <2>1, <2>2, <2>3, <2>4 DEF UnorderedInv
<1>8. EndInv'
  BY Zenon, <1>0, <1>1, <1>2 DEF TypesInv, EndInv, QueuesInv
<1> QED
  BY Zenon, <1>3, <1>4, <1>5, <1>6, <1>7, <1>8 DEF PoolInv

\* readQueue receives what a worker sends.
LEMMA SendInv ==
  ASSUME PoolInv, NEW w \in Workers, Send(w)
  PROVE  PoolInv'
<1>0. /\ TypesInv /\ QueuesInv /\ JobsInv /\ OrderedInv /\ UnorderedInv /\ EndInv
      /\ MaxJobs \in Nat /\ Read \in 0 .. MaxJobs /\ Taken \in 0 .. MaxJobs
      /\ \A v \in Workers : Busy(v) => job[v] \in 1 .. MaxJobs
      /\ reader = "range" => ordered /\ future = Read /\ future \in 1 .. MaxJobs
  BY InRange DEF PoolInv
<1>1. /\ worker[w] = "send" /\ reader = "range" /\ unwritten = 0 /\ future = job[w]
      /\ unwritten' = left[w]
      /\ worker' \in [Workers -> WorkerStates] /\ worker'[w] = "close"
      /\ \A v \in Workers : v # w => worker'[v] = worker[v]
      /\ ordered' = ordered /\ caller' = caller /\ enqueued' = enqueued /\ queue' = queue
      /\ workerQueue' = workerQueue /\ job' = job /\ left' = left /\ reader' = reader
      /\ future' = future /\ closed' = closed /\ results' = results /\ written' = written
  BY Zenon, <1>0 DEF Send, TypesInv, WorkerStates, calls, queues, workers, readers
<1>2. Read' = Read /\ Taken' = Taken
  BY Zenon, <1>1 DEF Read, Taken
<1>3. TypesInv'
  BY Zenon, <1>0, <1>1, <1>2 DEF TypesInv, WorkerStates
<1>4. QueuesInv'
  BY Zenon, <1>0, <1>1, <1>2 DEF TypesInv, QueuesInv
<1>5. JobsInv'
  <2>1. closed' \subseteq 1 .. Taken'
    BY Zenon, <1>0, <1>1, <1>2 DEF JobsInv, Busy
  <2>2. \A v \in Workers : Busy(v)' => job'[v] \in 1 .. Taken' /\ job'[v] \notin closed'
    BY Zenon, <1>0, <1>1, <1>2 DEF JobsInv, Busy, Has
  <2>3. \A u, v \in Workers : Busy(u)' /\ Busy(v)' /\ job'[u] = job'[v] => u = v
    BY <1>0, <1>1, <1>2 DEF JobsInv, Busy, Has
  <2>4. ordered' => \A m \in 1 .. Taken' : m \in closed' \/ \E v \in Workers : Has(v, m)'
    BY <1>0, <1>1, <1>2 DEF JobsInv, Busy, Has
  <2>5. \A v \in Workers : /\ worker'[v] \in {"send", "close"} => ordered'
                           /\ worker'[v] = "write" => ~ordered'
    BY Zenon, <1>0, <1>1 DEF JobsInv
  <2> QED
    BY <2>1, <2>2, <2>3, <2>4, <2>5 DEF JobsInv, Has
<1>6. OrderedInv'
  <2> SUFFICES ASSUME ordered PROVE OrderedInv'
    BY Zenon, <1>1 DEF OrderedInv
  <2>0. \A m : Sent(m)' <=> Sent(m) \/ m = job[w]
    BY Zenon, <1>0, <1>1 DEF Sent, TypesInv
  <2>1. \A m \in 1 .. MaxJobs : m > Read' => written'[m] = 0
    BY Zenon, <1>0, <1>1, <1>2 DEF TypesInv, OrderedInv
  <2>2. \A m \in 1 .. Read' : m < Read' \/ reader' # "range" => m \in closed' /\ written'[m] = results'[m]
    BY Zenon, <1>0, <1>1, <1>2 DEF TypesInv, OrderedInv
  <2>3. /\ reader' = "range" => future' = Read' /\ Read' > 0
        /\ reader' # "range" => unwritten' = 0
    BY Zenon, <1>0, <1>1, <1>2 DEF OrderedInv
  <2>4. reader' = "range" /\ Sent(Read)' => written'[Read'] + unwritten' = results'[Read']
    <3>1. ~Sent(Read)
      BY <1>0, <1>1 DEF Sent, JobsInv, Busy, Has
    <3>2. left[w] = results[job[w]] /\ left[w] \in Nat
      BY Zenon, <1>0, <1>1 DEF OrderedInv, TypesInv
    <3> QED
      BY <3>1, <3>2, <1>0, <1>1, <1>2 DEF OrderedInv
  <2>5. reader' = "range" /\ ~Sent(Read)' => written'[Read'] = 0 /\ unwritten' = 0
    BY Zenon, <1>0, <1>1, <1>2, <2>0
  <2>6. \A m \in Nat : Sent(m)' => m =< Read'
    BY <1>0, <1>1, <1>2, <2>0 DEF OrderedInv
  <2>7. \A v \in Workers : worker'[v] = "send" => left'[v] = results'[job'[v]]
    BY Zenon, <1>0, <1>1 DEF OrderedInv
  <2> QED
    BY <2>1, <2>2, <2>3, <2>4, <2>5, <2>6, <2>7 DEF OrderedInv
<1>7. UnorderedInv'
  BY Zenon, <1>0, <1>1 DEF UnorderedInv, JobsInv
<1>8. EndInv'
  BY Zenon, <1>0, <1>1, <1>2 DEF TypesInv, EndInv, QueuesInv
<1> QED
  BY <1>3, <1>4, <1>5, <1>6, <1>7, <1>8 DEF PoolInv

\* A worker closes the future and is idle.
LEMMA CloseFutureInv ==
  ASSUME PoolInv, NEW w \in Workers, CloseFuture(w)
  PROVE  PoolInv'
<1>0. /\ TypesInv /\ QueuesInv /\ JobsInv /\ OrderedInv /\ UnorderedInv /\ EndInv
      /\ MaxJobs \in Nat /\ Read \in 0 .. MaxJobs /\ Taken \in 0 .. MaxJobs
      /\ \A v \in Workers : Busy(v) => job[v] \in 1 .. MaxJobs
      /\ reader = "range" => ordered /\ future = Read /\ future \in 1 .. MaxJobs
  BY InRange DEF PoolInv
<1>1. /\ worker[w] = "close" /\ closed' = closed \cup {job[w]}
      /\ worker' \in [Workers -> WorkerStates] /\ worker'[w] = "idle"
      /\ \A v \in Workers : v # w => worker'[v] = worker[v]
      /\ job' \in [Workers -> Nat] /\ left' \in [Workers -> Nat]
      /\ \A v \in Workers : v # w => job'[v] = job[v] /\ left'[v] = left[v]
      /\ ordered' = ordered /\ caller' = caller /\ enqueued' = enqueued /\ queue' = queue
      /\ workerQueue' = workerQueue /\ reader' = reader /\ future' = future
      /\ unwritten' = unwritten /\ results' = results /\ written' = written
  BY Zenon, <1>0 DEF CloseFuture, TypesInv, WorkerStates, calls, queues, workers, readers
<1>2. Read' = Read /\ Taken' = Taken
  BY Zenon, <1>1 DEF Read, Taken
<1>3. TypesInv'
  BY Zenon, <1>0, <1>1, <1>2 DEF TypesInv, WorkerStates
<1>4. QueuesInv'
  BY Zenon, <1>0, <1>1, <1>2 DEF TypesInv, QueuesInv
<1>5. JobsInv'
  <2>1. closed' \subseteq 1 .. Taken'
    BY Zenon, <1>0, <1>1, <1>2 DEF JobsInv, Busy
  <2>2. \A v \in Workers : Busy(v)' => job'[v] \in 1 .. Taken' /\ job'[v] \notin closed'
    BY <1>0, <1>1, <1>2 DEF JobsInv, Busy, Has
  <2>3. \A u, v \in Workers : Busy(u)' /\ Busy(v)' /\ job'[u] = job'[v] => u = v
    BY <1>0, <1>1, <1>2 DEF JobsInv, Busy, Has
  <2>4. ordered' => \A m \in 1 .. Taken' : m \in closed' \/ \E v \in Workers : Has(v, m)'
    BY <1>0, <1>1, <1>2 DEF JobsInv, Busy, Has
  <2>5. \A v \in Workers : /\ worker'[v] \in {"send", "close"} => ordered'
                           /\ worker'[v] = "write" => ~ordered'
    BY Zenon, <1>0, <1>1 DEF JobsInv
  <2> QED
    BY <2>1, <2>2, <2>3, <2>4, <2>5 DEF JobsInv, Has
<1>6. OrderedInv'
  <2> SUFFICES ASSUME ordered PROVE OrderedInv'
    BY Zenon, <1>1 DEF OrderedInv
  <2>0. \A m : Sent(m)' <=> Sent(m)
    BY Zenon, <1>0, <1>1 DEF Sent, TypesInv
  <2>1. \A m \in 1 .. MaxJobs : m > Read' => written'[m] = 0
    BY Zenon, <1>0, <1>1, <1>2 DEF TypesInv, OrderedInv
  <2>2. \A m \in 1 .. Read' : m < Read' \/ reader' # "range" => m \in closed' /\ written'[m] = results'[m]
    BY Zenon, <1>0, <1>1, <1>2 DEF TypesInv, OrderedInv
  <2>3. /\ reader' = "range" => future' = Read' /\ Read' > 0
        /\ reader' # "range" => unwritten' = 0
    BY Zenon, <1>0, <1>1, <1>2 DEF OrderedInv
  <2>4. reader' = "range" /\ Sent(Read)' => written'[Read'] + unwritten' = results'[Read']
    BY Zenon, <1>0, <1>1, <1>2, <2>0 DEF TypesInv, OrderedInv
  <2>5. reader' = "range" /\ ~Sent(Read)' => written'[Read'] = 0 /\ unwritten' = 0
    BY Zenon, <1>0, <1>1, <1>2, <2>0 DEF TypesInv, OrderedInv
  <2>6. \A m \in Nat : Sent(m)' => m =< Read'
    BY Zenon, <1>0, <1>1, <1>2, <2>0 DEF OrderedInv
  <2>7. \A v \in Workers : worker'[v] = "send" => left'[v] = results'[job'[v]]
    BY ZenonT(40), <1>0, <1>1, <1>2 DEF TypesInv, OrderedInv, JobsInv, Busy, Has
  <2> QED
    BY <2>1, <2>2, <2>3, <2>4, <2>5, <2>6, <2>7 DEF OrderedInv
<1>7. UnorderedInv'
  BY Zenon, <1>0, <1>1 DEF UnorderedInv, JobsInv
<1>8. EndInv'
  BY Zenon, <1>0, <1>1, <1>2 DEF TypesInv, EndInv, QueuesInv
<1> QED
  BY <1>3, <1>4, <1>5, <1>6, <1>7, <1>8 DEF PoolInv

\* A worker writes a result.
LEMMA WriteUnorderedInv ==
  ASSUME PoolInv, NEW w \in Workers, WriteUnordered(w)
  PROVE  PoolInv'
<1>0. /\ TypesInv /\ QueuesInv /\ JobsInv /\ OrderedInv /\ UnorderedInv /\ EndInv
      /\ MaxJobs \in Nat /\ Read \in 0 .. MaxJobs /\ Taken \in 0 .. MaxJobs
      /\ \A v \in Workers : Busy(v) => job[v] \in 1 .. MaxJobs
      /\ reader = "range" => ordered /\ future = Read /\ future \in 1 .. MaxJobs
  BY InRange DEF PoolInv
<1>1. /\ worker[w] = "write" /\ left[w] > 0
      /\ left' \in [Workers -> Nat] /\ left'[w] = left[w] - 1
      /\ \A v \in Workers : v # w => left'[v] = left[v]
      /\ written' \in [1 .. MaxJobs -> Nat] /\ written'[job[w]] = written[job[w]] + 1
      /\ \A m \in 1 .. MaxJobs : m # job[w] => written'[m] = written[m]
      /\ ordered' = ordered /\ caller' = caller /\ enqueued' = enqueued /\ queue' = queue
      /\ workerQueue' = workerQueue /\ worker' = worker /\ job' = job /\ reader' = reader
      /\ future' = future /\ unwritten' = unwritten /\ closed' = closed
      /\ results' = results
  <2>1. job[w] \in 1 .. MaxJobs /\ left[w] \in Nat /\ left[w] > 0 /\ worker[w] = "write"
    BY Zenon, <1>0 DEF WriteUnordered, TypesInv, Busy
  <2>2. /\ left' \in [Workers -> Nat] /\ left'[w] = left[w] - 1
        /\ \A v \in Workers : v # w => left'[v] = left[v]
    BY <1>0, <2>1 DEF WriteUnordered, TypesInv
  <2>3. /\ written' \in [1 .. MaxJobs -> Nat] /\ written'[job[w]] = written[job[w]] + 1
        /\ \A m \in 1 .. MaxJobs : m # job[w] => written'[m] = written[m]
    BY <1>0, <2>1 DEF WriteUnordered, TypesInv
  <2> QED
    BY Zenon, <2>1, <2>2, <2>3 DEF WriteUnordered, calls, queues, workers, readers
<1>2. Read' = Read /\ Taken' = Taken
  BY Zenon, <1>1 DEF Read, Taken
<1>3. TypesInv'
  BY Zenon, <1>0, <1>1, <1>2 DEF TypesInv, WorkerStates
<1>4. QueuesInv'
  BY Zenon, <1>0, <1>1, <1>2 DEF TypesInv, QueuesInv
<1>5. JobsInv'
  BY Zenon, <1>0, <1>1, <1>2 DEF TypesInv, QueuesInv, JobsInv, Busy, Has
<1>6. OrderedInv'
  BY Zenon, <1>0, <1>1 DEF OrderedInv, JobsInv
<1>7. UnorderedInv'
  <2> SUFFICES ASSUME ~ordered PROVE UnorderedInv'
    BY Zenon, <1>1 DEF UnorderedInv
  <2>8. /\ Busy(w) /\ job[w] \in 1 .. MaxJobs
        /\ \A v \in Workers : v # w /\ Busy(v) => job[v] # job[w] /\ job[v] \in 1 .. MaxJobs
        /\ \A v \in Workers : worker[v] \in {"fn", "send", "close", "write"} => Busy(v)
    BY Zenon, <1>0, <1>1 DEF JobsInv, Busy, Has
  <2>9. \A v \in Workers, m \in Nat : Has(v, m) => Has(v, m)'
    BY Zenon, <1>0, <1>1 DEF Has, Busy
  <2>1. \A m \in 1 .. MaxJobs : m > Taken' => written'[m] = 0
    BY <1>0, <1>1, <1>2 DEF TypesInv, UnorderedInv, JobsInv, Busy
  <2>2. \A m \in 1 .. Taken' : written'[m] = results'[m] \/ \E v \in Workers : Has(v, m)'
    BY <1>0, <1>1, <1>2, <2>8, <2>9 DEF UnorderedInv, Has
  <2>3. \A v \in Workers : worker'[v] = "fn" => written'[job'[v]] = 0
    BY Zenon, <1>0, <1>1, <2>8 DEF UnorderedInv
  <2>4. \A v \in Workers : worker'[v] = "write" => written'[job'[v]] + left'[v] = results'[job'[v]]
    <3>1. written[job[w]] + left[w] = results[job[w]] /\ left[w] \in Nat /\ written[job[w]] \in Nat
      BY Zenon, <1>0, <1>1, <2>8 DEF TypesInv, UnorderedInv
    <3>2. written'[job'[w]] + left'[w] = results'[job'[w]]
      BY <3>1, <1>1
    <3> QED
      BY Zenon, <3>2, <1>0, <1>1, <2>8 DEF UnorderedInv
  <2> QED
    BY <2>1, <2>2, <2>3, <2>4 DEF UnorderedInv
<1>8. EndInv'
  BY Zenon, <1>0, <1>1, <1>2 DEF TypesInv, EndInv, QueuesInv
<1> QED
  BY <1>3, <1>4, <1>5, <1>6, <1>7, <1>8 DEF PoolInv

\* A worker has written all results.
LEMMA WriteDoneInv ==
  ASSUME PoolInv, NEW w \in Workers, WriteDone(w)
  PROVE  PoolInv'
<1>0. /\ TypesInv /\ QueuesInv /\ JobsInv /\ OrderedInv /\ UnorderedInv /\ EndInv
      /\ MaxJobs \in Nat /\ Read \in 0 .. MaxJobs /\ Taken \in 0 .. MaxJobs
      /\ \A v \in Workers : Busy(v) => job[v] \in 1 .. MaxJobs
      /\ reader = "range" => ordered /\ future = Read /\ future \in 1 .. MaxJobs
  BY InRange DEF PoolInv
<1>1. /\ worker[w] = "write" /\ left[w] = 0
      /\ worker' \in [Workers -> WorkerStates] /\ worker'[w] = "idle"
      /\ \A v \in Workers : v # w => worker'[v] = worker[v]
      /\ job' \in [Workers -> Nat] /\ left' \in [Workers -> Nat]
      /\ \A v \in Workers : v # w => job'[v] = job[v] /\ left'[v] = left[v]
      /\ ordered' = ordered /\ caller' = caller /\ enqueued' = enqueued /\ queue' = queue
      /\ workerQueue' = workerQueue /\ reader' = reader /\ future' = future
      /\ unwritten' = unwritten /\ closed' = closed /\ results' = results
      /\ written' = written
  BY Zenon, <1>0 DEF WriteDone, TypesInv, WorkerStates, calls, queues, workers, readers
<1>2. Read' = Read /\ Taken' = Taken
  BY Zenon, <1>1 DEF Read, Taken
<1>3. TypesInv'
  BY Zenon, <1>0, <1>1, <1>2 DEF TypesInv, WorkerStates
<1>4. QueuesInv'
  BY Zenon, <1>0, <1>1, <1>2 DEF TypesInv, QueuesInv
<1>5. JobsInv'
  <2>1. closed' \subseteq 1 .. Taken'
    BY Zenon, <1>0, <1>1, <1>2 DEF JobsInv, Busy
  <2>2. \A v \in Workers : Busy(v)' => job'[v] \in 1 .. Taken' /\ job'[v] \notin closed'
    BY Zenon, <1>0, <1>1, <1>2 DEF JobsInv, Busy, Has
  <2>3. \A u, v \in Workers : Busy(u)' /\ Busy(v)' /\ job'[u] = job'[v] => u = v
    BY <1>0, <1>1, <1>2 DEF JobsInv, Busy, Has
  <2>4. ordered' => \A m \in 1 .. Taken' : m \in closed' \/ \E v \in Workers : Has(v, m)'
    BY Zenon, <1>0, <1>1, <1>2 DEF JobsInv, Busy, Has
  <2>5. \A v \in Workers : /\ worker'[v] \in {"send", "close"} => ordered'
                           /\ worker'[v] = "write" => ~ordered'
    BY Zenon, <1>0, <1>1 DEF JobsInv
  <2> QED
    BY <2>1, <2>2, <2>3, <2>4, <2>5 DEF JobsInv, Has
<1>6. OrderedInv'
  BY Zenon, <1>0, <1>1 DEF OrderedInv, JobsInv
<1>7. UnorderedInv'
  <2> SUFFICES ASSUME ~ordered PROVE UnorderedInv'
    BY Zenon, <1>1 DEF UnorderedInv
  <2>8. /\ Busy(w) /\ job[w] \in 1 .. MaxJobs
        /\ \A v \in Workers : v # w /\ Busy(v) => job[v] # job[w] /\ job[v] \in 1 .. MaxJobs
        /\ \A v \in Workers : worker[v] \in {"fn", "send", "close", "write"} => Busy(v)
    BY Zenon, <1>0, <1>1 DEF JobsInv, Busy, Has
  <2>9. \A v \in Workers, m \in Nat : v # w /\ Has(v, m) => Has(v, m)'
    BY Zenon, <1>0, <1>1 DEF Has, Busy
  <2>1. \A m \in 1 .. MaxJobs : m > Taken' => written'[m] = 0
    BY Zenon, <1>0, <1>1, <1>2 DEF TypesInv, UnorderedInv, JobsInv, Busy
  <2>2. \A m \in 1 .. Taken' : written'[m] = results'[m] \/ \E v \in Workers : Has(v, m)'
    <3>1. written[job[w]] = results[job[w]]
      BY <1>0, <1>1, <2>8 DEF TypesInv, UnorderedInv
    <3> QED
      BY <3>1, <1>0, <1>1, <1>2, <2>9 DEF UnorderedInv, Has
  <2>3. \A v \in Workers : worker'[v] = "fn" => written'[job'[v]] = 0
    BY <1>0, <1>1, <2>8 DEF UnorderedInv
  <2>4. \A v \in Workers : worker'[v] = "write" => written'[job'[v]] + left'[v] = results'[job'[v]]
    BY Zenon, <1>0, <1>1, <2>8 DEF UnorderedInv
  <2> QED
    BY <2>1, <2>2, <2>3, <2>4 DEF UnorderedInv
<1>8. EndInv'
  BY Zenon, <1>0, <1>1, <1>2 DEF TypesInv, EndInv, QueuesInv
<1> QED
  BY <1>3, <1>4, <1>5, <1>6, <1>7, <1>8 DEF PoolInv

\* readQueue takes the next future.
LEMMA ReadFutureInv ==
  ASSUME PoolInv, ReadFuture
  PROVE  PoolInv'
<1>0. /\ TypesInv /\ QueuesInv /\ JobsInv /\ OrderedInv /\ UnorderedInv /\ EndInv
      /\ MaxJobs \in Nat /\ Read \in 0 .. MaxJobs /\ Taken \in 0 .. MaxJobs
      /\ \A v \in Workers : Busy(v) => job[v] \in 1 .. MaxJobs
      /\ reader = "range" => ordered /\ future = Read /\ future \in 1 .. MaxJobs
  BY InRange DEF PoolInv
<1>1. /\ reader = "idle" /\ reader' = "range"
      /\ queue # <<>> /\ queue' = Tail(queue) /\ future' = Head(queue)
      /\ ordered' = ordered /\ caller' = caller /\ enqueued' = enqueued
      /\ workerQueue' = workerQueue /\ worker' = worker /\ job' = job /\ left' = left
      /\ unwritten' = unwritten /\ closed' = closed /\ results' = results
      /\ written' = written
  BY Zenon DEF ReadFuture, calls, queues, workers, readers
<1>2. /\ Read' = Read + 1 /\ Taken' = Taken /\ future' = Read + 1
      /\ queue' \in Seq(Nat) /\ Run(queue', Read + 1)
  BY <1>0, <1>1, RunTail DEF Read, Taken, TypesInv, QueuesInv
<1>3. TypesInv'
  BY <1>0, <1>1, <1>2 DEF TypesInv, WorkerStates
<1>4. QueuesInv'
  BY <1>0, <1>1, <1>2 DEF TypesInv, QueuesInv
<1>5. JobsInv'
  BY Zenon, <1>0, <1>1, <1>2 DEF TypesInv, QueuesInv, JobsInv, Busy, Has
<1>6. OrderedInv'
  <2> SUFFICES ASSUME ordered PROVE OrderedInv'
    BY Zenon, <1>1 DEF OrderedInv
  <2>0. \A m : Sent(m)' <=> Sent(m)
    BY Zenon, <1>1 DEF Sent
  <2>8. Read + 1 \in 1 .. MaxJobs /\ ~Sent(Read + 1) /\ written[Read + 1] = 0 /\ unwritten = 0
    <3>1. Len(queue) \in Nat /\ Len(queue) > 0 /\ enqueued \in Nat /\ enqueued =< MaxJobs
      BY <1>0, <1>1 DEF TypesInv
    <3>2. Read + 1 \in 1 .. MaxJobs
      BY <3>1, <1>0 DEF Read
    <3> QED
      BY <3>2, <1>0, <1>1 DEF OrderedInv
  <2>1. \A m \in 1 .. MaxJobs : m > Read' => written'[m] = 0
    BY <1>0, <1>1, <1>2 DEF TypesInv, OrderedInv
  <2>2. \A m \in 1 .. Read' : m < Read' \/ reader' # "range" => m \in closed' /\ written'[m] = results'[m]
    BY <1>0, <1>1, <1>2 DEF TypesInv, OrderedInv
  <2>3. /\ reader' = "range" => future' = Read' /\ Read' > 0
        /\ reader' # "range" => unwritten' = 0
    BY <1>0, <1>1, <1>2 DEF OrderedInv
  <2>4. reader' = "range" /\ Sent(Read)' => written'[Read'] + unwritten' = results'[Read']
    BY Zenon, <1>0, <1>1, <1>2, <2>0, <2>8 DEF OrderedInv
  <2>5. reader' = "range" /\ ~Sent(Read)' => written'[Read'] = 0 /\ unwritten' = 0
    BY Zenon, <1>0, <1>1, <1>2, <2>0, <2>8 DEF OrderedInv
  <2>6. \A m \in Nat : Sent(m)' => m =< Read'
    BY <1>0, <1>1, <1>2, <2>0 DEF OrderedInv
  <2>7. \A v \in Workers : worker'[v] = "send" => left'[v] = results'[job'[v]]
    BY Zenon, <1>0, <1>1 DEF OrderedInv
  <2> QED
    BY Zenon, <2>1, <2>2, <2>3, <2>4, <2>5, <2>6, <2>7 DEF OrderedInv
<1>7. UnorderedInv'
  BY Zenon, <1>0, <1>1, <1>2 DEF TypesInv, QueuesInv, JobsInv, UnorderedInv, Busy, Has
<1>8. EndInv'
  BY Zenon, <1>0, <1>1, <1>2 DEF TypesInv, EndInv, QueuesInv
<1> QED
  BY <1>3, <1>4, <1>5, <1>6, <1>7, <1>8 DEF PoolInv

\* readQueue writes a result.
LEMMA WriteOrderedInv ==
  ASSUME PoolInv, WriteOrdered
  PROVE  PoolInv'
<1>0. /\ TypesInv /\ QueuesInv /\ JobsInv /\ OrderedInv /\ UnorderedInv /\ EndInv
      /\ MaxJobs \in Nat /\ Read \in 0 .. MaxJobs /\ Taken \in 0 .. MaxJobs
      /\ \A v \in Workers : Busy(v) => job[v] \in 1 .. MaxJobs
      /\ reader = "range" => ordered /\ future = Read /\ future \in 1 .. MaxJobs
  BY InRange DEF PoolInv
<1>1. /\ reader = "range" /\ unwritten > 0 /\ unwritten' = unwritten - 1
      /\ written' \in [1 .. MaxJobs -> Nat] /\ written'[future] = written[future] + 1
      /\ \A m \in 1 .. MaxJobs : m # future => written'[m] = written[m]
      /\ ordered' = ordered /\ caller' = caller /\ enqueued' = enqueued /\ queue' = queue
      /\ workerQueue' = workerQueue /\ worker' = worker /\ job' = job /\ left' = left
      /\ reader' = reader /\ future' = future /\ closed' = closed /\ results' = results
  BY <1>0 DEF WriteOrdered, TypesInv, calls, queues, workers, readers
<1>2. Read' = Read /\ Taken' = Taken
  BY Zenon, <1>1 DEF Read, Taken
<1>3. TypesInv'
  BY <1>0, <1>1, <1>2 DEF TypesInv, WorkerStates
<1>4. QueuesInv'
  BY Zenon, <1>0, <1>1, <1>2 DEF TypesInv, QueuesInv
<1>5. JobsInv'
  BY <1>0, <1>1, <1>2 DEF TypesInv, QueuesInv, JobsInv, Busy, Has
<1>6. OrderedInv'
  <2> SUFFICES ASSUME ordered PROVE OrderedInv'
    BY Zenon, <1>1 DEF OrderedInv
  <2>0. \A m : Sent(m)' <=> Sent(m)
    BY Zenon, <1>1 DEF Sent
  <2>1. \A m \in 1 .. MaxJobs : m > Read' => written'[m] = 0
    BY <1>0, <1>1, <1>2 DEF TypesInv, OrderedInv
  <2>2. \A m \in 1 .. Read' : m < Read' \/ reader' # "range" => m \in closed' /\ written'[m] = results'[m]
    BY <1>0, <1>1, <1>2 DEF TypesInv, OrderedInv
  <2>3. /\ reader' = "range" => future' = Read' /\ Read' > 0
        /\ reader' # "range" => unwritten' = 0
    BY Zenon, <1>0, <1>1, <1>2 DEF OrderedInv
  <2>4. reader' = "range" /\ Sent(Read)' => written'[Read'] + unwritten' = results'[Read']
    BY <1>0, <1>1, <1>2, <2>0 DEF TypesInv, OrderedInv
  <2>5. reader' = "range" /\ ~Sent(Read)' => written'[Read'] = 0 /\ unwritten' = 0
    BY <1>0, <1>1, <1>2, <2>0 DEF TypesInv, OrderedInv
  <2>6. \A m \in Nat : Sent(m)' => m =< Read'
    BY Zenon, <1>0, <1>1, <1>2, <2>0 DEF OrderedInv
  <2>7. \A v \in Workers : worker'[v] = "send" => left'[v] = results'[job'[v]]
    BY Zenon, <1>0, <1>1 DEF OrderedInv
  <2> QED
    BY <2>1, <2>2, <2>3, <2>4, <2>5, <2>6, <2>7 DEF OrderedInv
<1>7. UnorderedInv'
  BY Zenon, <1>0, <1>1, <1>2 DEF TypesInv, QueuesInv, JobsInv, UnorderedInv, Busy, Has
<1>8. EndInv'
  BY Zenon, <1>0, <1>1, <1>2 DEF TypesInv, EndInv, QueuesInv
<1> QED
  BY <1>3, <1>4, <1>5, <1>6, <1>7, <1>8 DEF PoolInv

\* readQueue is done with a future.
LEMMA FutureDoneInv ==
  ASSUME PoolInv, FutureDone
  PROVE  PoolInv'
<1>0. /\ TypesInv /\ QueuesInv /\ JobsInv /\ OrderedInv /\ UnorderedInv /\ EndInv
      /\ MaxJobs \in Nat /\ Read \in 0 .. MaxJobs /\ Taken \in 0 .. MaxJobs
      /\ \A v \in Workers : Busy(v) => job[v] \in 1 .. MaxJobs
      /\ reader = "range" => ordered /\ future = Read /\ future \in 1 .. MaxJobs
  BY InRange DEF PoolInv
<1>1. /\ reader = "range" /\ reader' = "idle"
      /\ unwritten = 0 /\ future \in closed /\ future' = 0
      /\ ordered' = ordered /\ caller' = caller /\ enqueued' = enqueued /\ queue' = queue
      /\ workerQueue' = workerQueue /\ worker' = worker /\ job' = job /\ left' = left
      /\ unwritten' = unwritten /\ closed' = closed /\ results' = results
      /\ written' = written
  BY Zenon DEF FutureDone, calls, queues, workers, readers
<1>2. Read' = Read /\ Taken' = Taken
  BY Zenon, <1>1 DEF Read, Taken
<1>3. TypesInv'
  BY Zenon, <1>0, <1>1, <1>2 DEF TypesInv, WorkerStates
<1>4. QueuesInv'
  BY Zenon, <1>0, <1>1, <1>2 DEF TypesInv, QueuesInv
<1>5. JobsInv'
  BY Zenon, <1>0, <1>1, <1>2 DEF TypesInv, QueuesInv, JobsInv, Busy, Has
<1>6. OrderedInv'
  <2> SUFFICES ASSUME ordered PROVE OrderedInv'
    BY Zenon, <1>1 DEF OrderedInv
  <2>0. \A m : Sent(m)' <=> Sent(m)
    BY Zenon, <1>1 DEF Sent
  <2>1. \A m \in 1 .. MaxJobs : m > Read' => written'[m] = 0
    BY Zenon, <1>0, <1>1, <1>2 DEF TypesInv, OrderedInv
  <2>2. \A m \in 1 .. Read' : m < Read' \/ reader' # "range" => m \in closed' /\ written'[m] = results'[m]
    <3>1. written[Read] = results[Read] /\ Read \in closed
      BY <1>0, <1>1 DEF OrderedInv, Sent, TypesInv
    <3> QED
      BY <3>1, <1>0, <1>1, <1>2 DEF OrderedInv
  <2>3. /\ reader' = "range" => future' = Read' /\ Read' > 0
        /\ reader' # "range" => unwritten' = 0
    BY Zenon, <1>0, <1>1, <1>2 DEF OrderedInv
  <2>4. reader' = "range" /\ Sent(Read)' => written'[Read'] + unwritten' = results'[Read']
    BY Zenon, <1>0, <1>1, <1>2, <2>0 DEF TypesInv, OrderedInv
  <2>5. reader' = "range" /\ ~Sent(Read)' => written'[Read'] = 0 /\ unwritten' = 0
    BY Zenon, <1>0, <1>1, <1>2, <2>0 DEF TypesInv, OrderedInv
  <2>6. \A m \in Nat : Sent(m)' => m =< Read'
    BY Zenon, <1>0, <1>1, <1>2, <2>0 DEF OrderedInv
  <2>7. \A v \in Workers : worker'[v] = "send" => left'[v] = results'[job'[v]]
    BY Zenon, <1>0, <1>1 DEF OrderedInv
  <2> QED
    BY <2>1, <2>2, <2>3, <2>4, <2>5, <2>6, <2>7 DEF OrderedInv
<1>7. UnorderedInv'
  BY Zenon, <1>0, <1>1, <1>2 DEF TypesInv, QueuesInv, JobsInv, UnorderedInv, Busy, Has
<1>8. EndInv'
  BY Zenon, <1>0, <1>1, <1>2 DEF TypesInv, EndInv, QueuesInv
<1> QED
  BY <1>3, <1>4, <1>5, <1>6, <1>7, <1>8 DEF PoolInv

\* readQueue ends.
LEMMA EndReaderInv ==
  ASSUME PoolInv, EndReader
  PROVE  PoolInv'
<1>0. /\ TypesInv /\ QueuesInv /\ JobsInv /\ OrderedInv /\ UnorderedInv /\ EndInv
      /\ MaxJobs \in Nat /\ Read \in 0 .. MaxJobs /\ Taken \in 0 .. MaxJobs
      /\ \A v \in Workers : Busy(v) => job[v] \in 1 .. MaxJobs
      /\ reader = "range" => ordered /\ future = Read /\ future \in 1 .. MaxJobs
  BY InRange DEF PoolInv
<1>1. /\ reader = "idle" /\ reader' = "ended"
      /\ queue = <<>> /\ caller = "waiting"
      /\ ordered' = ordered /\ caller' = caller /\ enqueued' = enqueued /\ queue' = queue
      /\ workerQueue' = workerQueue /\ worker' = worker /\ job' = job /\ left' = left
      /\ future' = future /\ unwritten' = unwritten /\ closed' = closed
      /\ results' = results /\ written' = written
  BY Zenon DEF EndReader, calls, queues, workers, readers
<1>2. Read' = Read /\ Taken' = Taken
  BY Zenon, <1>1 DEF Read, Taken
<1>3. TypesInv'
  BY Zenon, <1>0, <1>1, <1>2 DEF TypesInv, WorkerStates
<1>4. QueuesInv'
  BY Zenon, <1>0, <1>1, <1>2 DEF TypesInv, QueuesInv
<1>5. JobsInv'
  BY Zenon, <1>0, <1>1, <1>2 DEF TypesInv, QueuesInv, JobsInv, Busy, Has
<1>6. OrderedInv'
  <2> SUFFICES ASSUME ordered PROVE OrderedInv'
    BY Zenon, <1>1 DEF OrderedInv
  <2>0. \A m : Sent(m)' <=> Sent(m)
    BY Zenon, <1>1 DEF Sent
  <2>1. \A m \in 1 .. MaxJobs : m > Read' => written'[m] = 0
    BY Zenon, <1>0, <1>1, <1>2 DEF TypesInv, OrderedInv
  <2>2. \A m \in 1 .. Read' : m < Read' \/ reader' # "range" => m \in closed' /\ written'[m] = results'[m]
    BY Zenon, <1>0, <1>1, <1>2 DEF TypesInv, OrderedInv
  <2>3. /\ reader' = "range" => future' = Read' /\ Read' > 0
        /\ reader' # "range" => unwritten' = 0
    BY Zenon, <1>0, <1>1, <1>2 DEF OrderedInv
  <2>4. reader' = "range" /\ Sent(Read)' => written'[Read'] + unwritten' = results'[Read']
    BY Zenon, <1>0, <1>1, <1>2, <2>0 DEF TypesInv, OrderedInv
  <2>5. reader' = "range" /\ ~Sent(Read)' => written'[Read'] = 0 /\ unwritten' = 0
    BY Zenon, <1>0, <1>1, <1>2, <2>0 DEF TypesInv, OrderedInv
  <2>6. \A m \in Nat : Sent(m)' => m =< Read'
    BY Zenon, <1>0, <1>1, <1>2, <2>0 DEF OrderedInv
  <2>7. \A v \in Workers : worker'[v] = "send" => left'[v] = results'[job'[v]]
    BY Zenon, <1>0, <1>1 DEF OrderedInv
  <2> QED
    BY <2>1, <2>2, <2>3, <2>4, <2>5, <2>6, <2>7 DEF OrderedInv
<1>7. UnorderedInv'
  BY Zenon, <1>0, <1>1, <1>2 DEF TypesInv, QueuesInv, JobsInv, UnorderedInv, Busy, Has
<1>8. EndInv'
  BY Zenon, <1>0, <1>1, <1>2 DEF TypesInv, EndInv, QueuesInv
<1> QED
  BY <1>3, <1>4, <1>5, <1>6, <1>7, <1>8 DEF PoolInv

\* A new pool satisfies PoolInv: nothing is enqueued.
LEMMA PoolBegins == PoolInit => PoolInv
<1> SUFFICES ASSUME PoolInit PROVE PoolInv
  OBVIOUS
<1>1. Read = 0 /\ Taken = 0 /\ MaxJobs \in Nat
  <2>1. Len(queue) = 0 /\ Len(workerQueue) = 0 /\ enqueued = 0 /\ caller = "ready"
    BY Zenon DEF PoolInit
  <2> QED
    BY <2>1, PoolAssumption DEF Read, Taken
<1>2. TypesInv /\ EndInv
  BY <1>1, PoolAssumption DEF PoolInit, TypesInv, EndInv, WorkerStates
<1>3. QueuesInv
  BY <1>1 DEF PoolInit, QueuesInv, Run
<1>4. \A w \in Workers : ~Busy(w) /\ worker[w] = "idle"
  BY Zenon DEF PoolInit, Busy
<1>5. JobsInv
  BY <1>1, <1>4 DEF PoolInit, JobsInv
<1>6. \A m : ~Sent(m)
  BY Zenon, <1>4 DEF PoolInit, Sent
<1>7. OrderedInv
  BY <1>1, <1>4, <1>6 DEF PoolInit, OrderedInv
<1>8. UnorderedInv
  BY <1>1, <1>4 DEF PoolInit, UnorderedInv
<1> QED
  BY Zenon, <1>2, <1>3, <1>5, <1>7, <1>8 DEF PoolInv

\* Every step of the caller, of a worker and of readQueue preserves PoolInv.
LEMMA PoolStep == PoolInv /\ [PoolNext]_poolVars => PoolInv'
<1> SUFFICES ASSUME PoolInv, [PoolNext]_poolVars PROVE PoolInv'
  OBVIOUS
<1>1. CASE Enqueue \/ EnqueueJob \/ EnqueueUnordered \/ StopPool \/ PoolStopped
  BY Zenon, <1>1, EnqueueInv, EnqueueJobInv, EnqueueUnorderedInv, StopPoolInv, PoolStoppedInv
<1>2. ASSUME NEW w \in Workers, WorkerStep(w) PROVE PoolInv'
  BY Zenon, <1>2, TakeJobInv, EndWorkerInv, ReturnInv, SendInv, CloseFutureInv,
     WriteUnorderedInv, WriteDoneInv DEF WorkerStep
<1>3. CASE ReaderStep
  BY Zenon, <1>3, ReadFutureInv, WriteOrderedInv, FutureDoneInv, EndReaderInv DEF ReaderStep
<1>4. CASE UNCHANGED poolVars
  <2>1. /\ ordered' = ordered /\ caller' = caller /\ enqueued' = enqueued
        /\ queue' = queue /\ workerQueue' = workerQueue
        /\ worker' = worker /\ job' = job /\ left' = left /\ closed' = closed
        /\ reader' = reader /\ future' = future /\ unwritten' = unwritten
        /\ results' = results /\ written' = written
    BY Zenon, <1>4 DEF poolVars, calls, queues, workers, readers
  <2>2. Read' = Read /\ Taken' = Taken
    BY Zenon, <2>1 DEF Read, Taken
  <2>3. TypesInv'
    BY Zenon, <2>1 DEF PoolInv, TypesInv
  <2>4. QueuesInv'
    BY Zenon, <2>1, <2>2 DEF PoolInv, QueuesInv, Run
  <2>5. JobsInv'
    BY Zenon, <2>1, <2>2 DEF PoolInv, JobsInv, Busy, Has
  <2>6. OrderedInv'
    BY Zenon, <2>1, <2>2 DEF PoolInv, OrderedInv, Sent
  <2>7. UnorderedInv'
    BY Zenon, <2>1, <2>2 DEF PoolInv, UnorderedInv, Busy, Has
  <2>8. EndInv'
    BY Zenon, <2>1 DEF PoolInv, EndInv
  <2> QED
    BY Zenon, <2>3, <2>4, <2>5, <2>6, <2>7, <2>8 DEF PoolInv
<1> QED
  BY Zenon, <1>1, <1>2, <1>3, <1>4 DEF PoolNext

\* Ordered passes results on in the order of Enqueue for any number of workers and
\* metrics and whatever fn returns: readQueue takes the futures in that order and
\* leaves one only when all of its results have been written.
THEOREM PassesOnInOrder == PoolSpec => []InOrder
<1>1. ASSUME PoolInv PROVE InOrder
  <2> SUFFICES ASSUME ordered, NEW m \in 1 .. enqueued, NEW n \in 1 .. enqueued,
                      m < n, written[n] > 0
               PROVE  written[m] = results[m]
    BY Zenon DEF InOrder
  <2>1. /\ MaxJobs \in Nat /\ enqueued \in Nat /\ enqueued =< MaxJobs
        /\ Read \in Nat /\ OrderedInv
    BY Zenon, <1>1, PoolAssumption DEF PoolInv, TypesInv, QueuesInv
  <2>2. n =< Read
    BY <2>1 DEF OrderedInv
  <2>3. m \in 1 .. Read /\ m < Read
    BY <2>1, <2>2
  <2> QED
    BY Zenon, <2>1, <2>3 DEF OrderedInv
<1> QED
  BY <1>1, PoolBegins, PoolStep, PTL DEF PoolSpec

\* When Stop returns nothing is left to do, for both pools: the goroutines it waited
\* for end only with their queue empty, and hold no metric then.
THEOREM StopIsComplete == PoolSpec => []StopCompletes
<1>1. ASSUME PoolInv PROVE StopCompletes
  <2> SUFFICES ASSUME caller = "stopped"
               PROVE  /\ \A m \in 1 .. enqueued : written[m] = results[m]
                      /\ queue = <<>> /\ workerQueue = <<>>
    BY Zenon DEF StopCompletes
  <2>1. /\ reader = "ended" /\ (\A w \in Workers : worker[w] = "ended")
        /\ queue = <<>> /\ workerQueue = <<>>
    BY Zenon, <1>1, PoolAssumption DEF PoolInv, EndInv, QueuesInv
  <2>2. enqueued \in Nat /\ Read = enqueued /\ Taken = enqueued
    BY <1>1, <2>1 DEF PoolInv, TypesInv, Read, Taken
  <2>3. CASE ordered
    BY Zenon, <2>3, <1>1, <2>1, <2>2 DEF PoolInv, OrderedInv
  <2>4. CASE ~ordered
    BY Zenon, <2>4, <1>1, <2>1, <2>2 DEF PoolInv, UnorderedInv, Has, Busy
  <2> QED
    BY Zenon, <2>1, <2>3, <2>4
<1> QED
  BY <1>1, PoolBegins, PoolStep, PTL DEF PoolSpec
-----------------------------------------------------------------------------
(* Nobody waits for ever. *)

\* A worker can go on, ...
WorkerGoes(w) ==
  \/ worker[w] = "idle" /\ (workerQueue # <<>> \/ caller = "waiting")
  \/ worker[w] \in {"fn", "close", "write"}
  \/ worker[w] = "send" /\ reader = "range" /\ unwritten = 0 /\ future = job[w]

\* ... or readQueue, ...
ReaderGoes ==
  \/ reader = "idle" /\ (queue # <<>> \/ caller = "waiting")
  \/ reader = "range" /\ (unwritten > 0 \/ future \in closed)

\* ... or the caller, that waits for room or in Stop.
CallerGoes ==
  \/ caller = "job" /\ Len(workerQueue) < Cardinality(Workers)
  \/ caller = "waiting" /\ reader = "ended" /\ \A w \in Workers : worker[w] = "ended"

\* A call of Enqueue waits for room, or one of Stop for the goroutines.
CallerWaits ==
  \/ caller \in {"job", "waiting"}
  \/ caller = "ready" /\ ordered /\ Len(queue) >= QueueSize
  \/ caller = "ready" /\ ~ordered /\ Len(workerQueue) >= Cardinality(Workers)

\* Whatever the caller waits for, the worker that sends waits for the reader to come to
\* its future, the reader for the worker of its, but never all of them.
PoolNeverStuck == CallerWaits => CallerGoes \/ ReaderGoes \/ \E w \in Workers : WorkerGoes(w)

\* It follows from PoolInv: the future that is read next is that of the oldest job, so
\* a worker has it, or it is about to get it from the head of the queue.
LEMMA PoolNotStuck == PoolInv => PoolNeverStuck
<1> SUFFICES ASSUME PoolInv, CallerWaits, ~CallerGoes, ~ReaderGoes,
                    \A w \in Workers : ~WorkerGoes(w)
             PROVE  FALSE
  BY Zenon DEF PoolNeverStuck
<1>0. TypesInv /\ QueuesInv /\ JobsInv /\ OrderedInv /\ EndInv
  BY Zenon DEF PoolInv
<1>1. Cardinality(Workers) \in Nat /\ Cardinality(Workers) > 0
  BY PoolAssumption, FS_CardinalityType, FS_EmptySet
<1>2. PICK v \in Workers : TRUE
  BY PoolAssumption
<1>3. /\ enqueued \in Nat /\ Len(queue) \in Nat /\ Len(workerQueue) \in Nat
      /\ Len(queue) > 0 => queue # <<>>
      /\ Len(workerQueue) > 0 => workerQueue # <<>>
      /\ queue = <<>> => Len(queue) = 0
      /\ workerQueue = <<>> => Len(workerQueue) = 0
      /\ Read \in Nat /\ Taken \in Nat
  BY <1>0 DEF TypesInv, QueuesInv
<1>4. \A w \in Workers : worker[w] \in {"idle", "send", "ended"}
  BY <1>0 DEF TypesInv, WorkerStates, WorkerGoes
<1>5. \A w \in Workers : worker[w] = "send" => ordered /\ job[w] \in 1 .. Taken /\ job[w] \notin closed
  BY <1>0 DEF JobsInv, Busy
<1>6. \A w \in Workers : workerQueue # <<>> => worker[w] = "send"
  BY <1>0, <1>4 DEF EndInv, WorkerGoes
<1>7. CASE ~ordered
  <2>1. reader = "ended" /\ caller # "job"
    BY <1>0, <1>7, Zenon DEF QueuesInv
  <2>2. workerQueue = <<>>
    BY <1>2, <1>5, <1>6, <1>7, Zenon
  <2>3. caller = "waiting"
    BY <1>1, <1>3, <1>7, <2>1, <2>2 DEF CallerWaits
  <2>4. \A w \in Workers : worker[w] = "ended"
    BY <1>4, <1>5, <1>7, <2>3 DEF WorkerGoes
  <2> QED BY <2>1, <2>3, <2>4, Zenon DEF CallerGoes
<1>8. CASE ordered /\ reader # "range"
  <2>1. queue = <<>>
    BY <1>0, <1>8 DEF TypesInv, EndInv, ReaderGoes
  <2>2. Read = enqueued /\ Taken <= enqueued
    BY <1>3, <2>1 DEF Read, Taken
  <2>3. \A m \in 1 .. Read : m \in closed
    BY <1>0, <1>8, Zenon DEF OrderedInv
  <2>4. \A w \in Workers : worker[w] \in {"idle", "ended"}
    BY <1>3, <1>4, <1>5, <2>2, <2>3
  <2>5. workerQueue = <<>>
    BY <1>2, <1>6, <2>4
  <2>6. caller = "waiting"
    BY <1>1, <1>3, <2>1, <2>5, <1>8, PoolAssumption DEF CallerWaits, CallerGoes
  <2>7. reader = "ended" /\ \A w \in Workers : worker[w] = "ended"
    BY <1>0, <1>8, <2>4, <2>6 DEF TypesInv, ReaderGoes, WorkerGoes
  <2> QED BY <2>6, <2>7, Zenon DEF CallerGoes
<1>9. CASE ordered /\ reader = "range"
  <2>1. future = Read /\ Read > 0 /\ unwritten = 0 /\ Read \notin closed
    BY <1>0, <1>9 DEF TypesInv, OrderedInv, ReaderGoes
  <2>2. Read > Taken
    <3> SUFFICES ASSUME Read <= Taken PROVE FALSE
      BY <1>3
    <3>1. PICK w \in Workers : Has(w, Read)
      BY <1>0, <1>3, <1>9, <2>1 DEF JobsInv
    <3> QED BY <1>4, <1>9, <2>1, <3>1 DEF Has, Busy, WorkerGoes
  <2>3. \A w \in Workers : worker[w] # "send"
    <3>1. \A m \in 1 .. Taken : m \in closed
      BY <1>0, <1>3, <1>9, <2>2 DEF OrderedInv
    <3> QED BY <1>5, <3>1, Zenon
  <2>4. workerQueue = <<>>
    BY <1>2, <1>6, <2>3, Zenon
  <2>5. caller = "job"
    BY <1>3, <2>2, <2>4 DEF Read, Taken
  <2> QED BY <1>1, <1>3, <2>4, <2>5 DEF CallerGoes
<1> QED BY <1>7, <1>8, <1>9

\* No pool gets stuck, for any number of workers and size of the queue.
THEOREM PoolIsNeverStuck == PoolSpec => []PoolNeverStuck
  BY PoolBegins, PoolStep, PoolNotStuck, PTL DEF PoolSpec

-----------------------------------------------------------------------------
(* Stop comes to an end. *)

\* What is left to do when Stop is called: jobs to take, calls of fn that have not
\* returned, results to send, jobs to finish, metrics to write, futures to take and to
\* leave, and goroutines that have not ended.
Untaken    == {m \in 1 .. enqueued : m > Taken}
Unreturned == {m \in 1 .. enqueued : results[m] = -1}
Unsent     == {m \in 1 .. enqueued : ~Sent(m)}
Undone     == {m \in 1 .. enqueued : m > Taken \/ \E w \in Workers : Has(w, m)}
Unwritten  == {x \in (1 .. enqueued) \X (1 .. MaxResults) : x[2] > written[x[1]]}
Unread     == {m \in 1 .. enqueued : m > Read}
Unleft     == {m \in 1 .. enqueued : m > Read \/ (m = Read /\ reader = "range")}
Unended    == {w \in Workers : worker[w] # "ended"}
Waiting    == {g \in {"reader", "caller"} : IF g = "reader" THEN reader # "ended" ELSE caller # "stopped"}

\* Less of it is left after a step: nothing comes back, and something is done.
LessLeft ==
  /\ Untaken' \subseteq Untaken /\ Unreturned' \subseteq Unreturned /\ Unsent' \subseteq Unsent
  /\ Undone' \subseteq Undone /\ Unwritten' \subseteq Unwritten /\ Unread' \subseteq Unread
  /\ Unleft' \subseteq Unleft /\ Unended' \subseteq Unended /\ Waiting' \subseteq Waiting
  /\ \/ Untaken' # Untaken \/ Unreturned' # Unreturned \/ Unsent' # Unsent
     \/ Undone' # Undone \/ Unwritten' # Unwritten \/ Unread' # Unread
     \/ Unleft' # Unleft \/ Unended' # Unended \/ Waiting' # Waiting

\* fn returns once for each metric.
StageInv ==
  /\ \A m \in 1 .. MaxJobs : results[m] <= MaxResults
  /\ \A m \in 1 .. MaxJobs : m > Taken => results[m] = -1
  /\ \A w \in Workers : worker[w] = "fn" => results[job[w]] = -1

\* Parts of the invariant that the steps use.
LEMMA Stages ==
  ASSUME PoolInv
  PROVE  /\ TypesInv /\ QueuesInv /\ JobsInv /\ OrderedInv /\ UnorderedInv /\ EndInv
         /\ MaxJobs \in Nat /\ MaxResults \in Nat /\ enqueued \in 0 .. MaxJobs
         /\ Read \in 0 .. enqueued /\ Taken \in 0 .. enqueued
         /\ \A w \in Workers : Busy(w) => job[w] \in 1 .. enqueued
         /\ reader = "range" => ordered /\ future = Read /\ future \in 1 .. enqueued
<1>1. /\ TypesInv /\ QueuesInv /\ JobsInv /\ OrderedInv /\ UnorderedInv /\ EndInv
      /\ MaxJobs \in Nat /\ MaxResults \in Nat
  BY PoolAssumption, Zenon DEF PoolInv
<1>2. /\ enqueued \in Nat /\ Len(queue) \in Nat /\ Len(workerQueue) \in Nat /\ enqueued <= MaxJobs
      /\ Read \in Nat /\ Taken \in Nat
  BY <1>1 DEF TypesInv, QueuesInv
<1>3. Read <= enqueued /\ Taken <= enqueued
  BY <1>2 DEF Read, Taken
<1>4. \A w \in Workers : Busy(w) => job[w] \in 1 .. enqueued
  BY <1>1, <1>2, <1>3 DEF JobsInv
<1>5. reader = "range" => ordered /\ future = Read /\ future \in 1 .. enqueued
  BY <1>1, <1>2, <1>3 DEF QueuesInv, OrderedInv
<1> QED BY <1>1, <1>2, <1>3, <1>4, <1>5

\* What is left depends on these variables.
LEMMA LeftFrame ==
  ASSUME enqueued' = enqueued
  PROVE  /\ Taken' = Taken => Untaken' = Untaken
         /\ results' = results => Unreturned' = Unreturned
         /\ UNCHANGED <<closed, worker, job>> => Unsent' = Unsent
         /\ Taken' = Taken /\ UNCHANGED <<worker, job>> => Undone' = Undone
         /\ written' = written => Unwritten' = Unwritten
         /\ Read' = Read => Unread' = Unread
         /\ Read' = Read /\ reader' = reader => Unleft' = Unleft
         /\ worker' = worker => Unended' = Unended
         /\ UNCHANGED <<reader, caller>> => Waiting' = Waiting
<1>1. /\ Taken' = Taken => Untaken' = Untaken
      /\ results' = results => Unreturned' = Unreturned
      /\ written' = written => Unwritten' = Unwritten
      /\ Read' = Read => Unread' = Unread
  BY Zenon DEF Untaken, Unreturned, Unwritten, Unread
<1>2. /\ UNCHANGED <<closed, worker, job>> => Unsent' = Unsent
      /\ Taken' = Taken /\ UNCHANGED <<worker, job>> => Undone' = Undone
  BY Zenon DEF Unsent, Sent, Undone, Has, Busy
<1>3. /\ Read' = Read /\ reader' = reader => Unleft' = Unleft
      /\ worker' = worker => Unended' = Unended
      /\ UNCHANGED <<reader, caller>> => Waiting' = Waiting
  BY Zenon DEF Unleft, Unended, Waiting
<1> QED BY <1>1, <1>2, <1>3, Zenon

\* A worker takes a job.
LEMMA TakeJobLess ==
  ASSUME PoolInv, StageInv, NEW w \in Workers, TakeJob(w)
  PROVE  StageInv' /\ LessLeft
<1>0. /\ TypesInv /\ QueuesInv /\ JobsInv /\ enqueued \in 0 .. MaxJobs /\ Taken \in 0 .. enqueued
      /\ MaxJobs \in Nat
  BY Stages, Zenon
<1>1. /\ worker[w] = "idle" /\ workerQueue # <<>> /\ workerQueue' = Tail(workerQueue)
      /\ worker' = [worker EXCEPT ![w] = "fn"] /\ job' = [job EXCEPT ![w] = Head(workerQueue)]
      /\ UNCHANGED <<caller, enqueued, queue, reader, closed, results, written>>
  BY Zenon DEF TakeJob, calls, readers
<1>2. /\ Read' = Read /\ Taken' = Taken + 1 /\ Head(workerQueue) = Taken + 1
      /\ Taken + 1 \in 1 .. enqueued
  <2>1. /\ Len(Tail(workerQueue)) = Len(workerQueue) - 1 /\ Len(workerQueue) > 0
        /\ Head(workerQueue) = Taken + 1
    BY Zenon, <1>0, <1>1, RunTail DEF TypesInv, QueuesInv
  <2>2. Len(workerQueue) \in Nat /\ enqueued \in Nat /\ Taken \in Nat
    BY <1>0 DEF TypesInv
  <2>3. Taken' = Taken + 1
    BY <1>1, <2>1, <2>2 DEF Taken
  <2>4. Taken + 1 \in 1 .. enqueued
    BY <1>1, <2>1, <2>2 DEF Taken
  <2> QED
    BY Zenon, <1>1, <2>1, <2>3, <2>4 DEF Read
<1>3. /\ worker'[w] = "fn" /\ job'[w] = Taken + 1 /\ ~Busy(w)
      /\ \A v \in Workers : v # w => worker'[v] = worker[v] /\ job'[v] = job[v]
  BY <1>0, <1>1, <1>2 DEF TypesInv, Busy
<1>4. StageInv'
  BY <1>0, <1>1, <1>2, <1>3 DEF StageInv
<1>5. Untaken' \subseteq Untaken /\ Untaken' # Untaken
  <2>1. Untaken' \subseteq Untaken
    BY <1>0, <1>1, <1>2 DEF Untaken
  <2>2. Taken + 1 \in Untaken /\ Taken + 1 \notin Untaken'
    BY <1>0, <1>1, <1>2 DEF Untaken
  <2> QED BY <2>1, <2>2, Zenon
<1>6. Unsent' \subseteq Unsent
  BY <1>1, <1>3 DEF Unsent, Sent, Busy
<1>7. Undone' \subseteq Undone
  <2>1. ASSUME NEW m \in 1 .. enqueued, NEW v \in Workers, Has(v, m)' PROVE m = Taken + 1 \/ Has(v, m)
    BY <1>3, <2>1, Zenon DEF Has, Busy
  <2>2. \A m \in 1 .. enqueued : m > Taken + 1 \/ m = Taken + 1 => m > Taken
    BY <1>0
  <2> QED BY <1>1, <1>2, <2>1, <2>2, Zenon DEF Undone
<1>8. Unended' \subseteq Unended
  BY <1>1, <1>3, Zenon DEF Unended
<1> QED BY <1>1, <1>2, <1>4, <1>5, <1>6, <1>7, <1>8, LeftFrame, Zenon DEF LessLeft

\* A worker ends.
LEMMA EndWorkerLess ==
  ASSUME PoolInv, StageInv, NEW w \in Workers, EndWorker(w)
  PROVE  StageInv' /\ LessLeft
<1>1. /\ worker[w] = "idle" /\ worker' = [worker EXCEPT ![w] = "ended"]
      /\ UNCHANGED <<caller, enqueued, queue, workerQueue, job, reader, closed, results, written>>
      /\ worker \in [Workers -> WorkerStates]
  BY Stages, Zenon DEF EndWorker, calls, queues, readers, TypesInv
<1>2. Read' = Read /\ Taken' = Taken
  BY <1>1, Zenon DEF Read, Taken
<1>3. worker'[w] = "ended" /\ \A v \in Workers : v # w => worker'[v] = worker[v]
  BY <1>1, Zenon
<1>4. StageInv'
  BY <1>1, <1>2, <1>3 DEF StageInv
<1>5. Unended' \subseteq Unended /\ Unended' # Unended
  <2>1. w \in Unended /\ w \notin Unended'
    BY <1>1, <1>3 DEF Unended
  <2> QED BY <1>3, <2>1, Zenon DEF Unended
<1>6. Unsent' \subseteq Unsent
  BY <1>1, <1>3 DEF Unsent, Sent
<1>7. Undone' \subseteq Undone
  BY <1>1, <1>2, <1>3 DEF Undone, Has, Busy
<1> QED BY <1>1, <1>2, <1>4, <1>5, <1>6, <1>7, LeftFrame, Zenon DEF LessLeft

\* fn returns.
LEMMA ReturnLess ==
  ASSUME PoolInv, StageInv, NEW w \in Workers, NEW n \in 0 .. MaxResults, Return(w, n)
  PROVE  StageInv' /\ LessLeft
<1>0. /\ TypesInv /\ JobsInv /\ enqueued \in 0 .. MaxJobs /\ Taken \in 0 .. enqueued
      /\ MaxJobs \in Nat /\ MaxResults \in Nat
      /\ \A v \in Workers : Busy(v) => job[v] \in 1 .. enqueued
  BY Stages, Zenon
<1>1. /\ worker[w] = "fn" /\ worker' = [worker EXCEPT ![w] = IF ordered THEN "send" ELSE "write"]
      /\ results' = [results EXCEPT ![job[w]] = n]
      /\ UNCHANGED <<caller, enqueued, queue, workerQueue, job, reader, closed, written>>
  BY Zenon DEF Return, calls, queues, readers
<1>2. Read' = Read /\ Taken' = Taken
  BY <1>1, Zenon DEF Read, Taken
<1>3. /\ Busy(w) /\ job[w] \in 1 .. enqueued /\ job[w] \in 1 .. Taken /\ results[job[w]] = -1
      /\ results'[job[w]] = n /\ \A m \in 1 .. MaxJobs : m # job[w] => results'[m] = results[m]
      /\ worker'[w] \in {"send", "write"}
      /\ \A v \in Workers : v # w => worker'[v] = worker[v]
  <2>1. Busy(w) /\ job[w] \in 1 .. enqueued /\ job[w] \in 1 .. Taken
    BY <1>0, <1>1 DEF JobsInv, Busy
  <2>2. results[job[w]] = -1
    BY <1>1, Zenon DEF StageInv
  <2>3. /\ results'[job[w]] = n /\ \A m \in 1 .. MaxJobs : m # job[w] => results'[m] = results[m]
    BY <1>0, <1>1, <2>1 DEF TypesInv
  <2>4. worker'[w] \in {"send", "write"} /\ \A v \in Workers : v # w => worker'[v] = worker[v]
    BY <1>0, <1>1, Zenon DEF TypesInv
  <2> QED BY <2>1, <2>2, <2>3, <2>4
<1>4. StageInv'
  <2>1. \A m \in 1 .. MaxJobs : results'[m] <= MaxResults
    BY <1>0, <1>3 DEF StageInv
  <2>2. \A m \in 1 .. MaxJobs : m > Taken' => results'[m] = -1
    BY <1>0, <1>2, <1>3 DEF StageInv
  <2>3. ASSUME NEW v \in Workers, worker'[v] = "fn" PROVE results'[job'[v]] = -1
    <3>1. v # w /\ worker[v] = "fn" /\ Busy(v)
      BY <1>3, <2>3 DEF Busy
    <3>2. job[v] # job[w]
      BY <1>0, <1>3, <3>1, Zenon DEF JobsInv, Has
    <3>3. job[v] \in 1 .. MaxJobs
      BY <1>0, <3>1
    <3> QED BY <1>1, <1>3, <3>1, <3>2, <3>3, Zenon DEF StageInv
  <2> QED BY <2>1, <2>2, <2>3, Zenon DEF StageInv
<1>5. Unreturned' \subseteq Unreturned /\ Unreturned' # Unreturned
  <2>1. Unreturned' \subseteq Unreturned
    BY <1>0, <1>1, <1>3 DEF Unreturned
  <2>2. job[w] \in Unreturned /\ job[w] \notin Unreturned'
    BY <1>1, <1>3 DEF Unreturned
  <2> QED BY <2>1, <2>2, Zenon
<1>6. Unsent' \subseteq Unsent
  BY <1>1, <1>3 DEF Unsent, Sent
<1>7. Undone' \subseteq Undone
  BY <1>1, <1>2, <1>3, Zenon DEF Undone, Has, Busy
<1>8. Unended' \subseteq Unended
  BY <1>1, <1>3 DEF Unended
<1> QED BY <1>1, <1>2, <1>4, <1>5, <1>6, <1>7, <1>8, LeftFrame, Zenon DEF LessLeft

\* A worker sends the results to readQueue.
LEMMA SendLess ==
  ASSUME PoolInv, StageInv, NEW w \in Workers, Send(w)
  PROVE  StageInv' /\ LessLeft
<1>0. /\ TypesInv /\ JobsInv /\ \A v \in Workers : Busy(v) => job[v] \in 1 .. enqueued
  BY Stages, Zenon
<1>1. /\ worker[w] = "send" /\ worker' = [worker EXCEPT ![w] = "close"]
      /\ UNCHANGED <<caller, enqueued, queue, workerQueue, job, reader, closed, results, written>>
  BY Zenon DEF Send, calls, queues
<1>2. Read' = Read /\ Taken' = Taken
  BY <1>1, Zenon DEF Read, Taken
<1>3. /\ worker'[w] = "close" /\ \A v \in Workers : v # w => worker'[v] = worker[v]
      /\ Busy(w) /\ job[w] \in 1 .. enqueued
  BY <1>0, <1>1, Zenon DEF TypesInv, Busy
<1>4. StageInv'
  BY <1>1, <1>2, <1>3 DEF StageInv
<1>5. Unsent' \subseteq Unsent /\ Unsent' # Unsent
  <2>1. Unsent' \subseteq Unsent
    BY <1>1, <1>3 DEF Unsent, Sent
  <2>2. ~Sent(job[w])
    <3>1. job[w] \notin closed
      BY <1>0, <1>3, Zenon DEF JobsInv
    <3>2. ASSUME NEW v \in Workers, worker[v] = "close", job[v] = job[w] PROVE FALSE
      <4>1. v = w
        BY <1>0, <1>3, <3>2, Zenon DEF JobsInv, Has, Busy
      <4> QED BY <1>1, <3>2, <4>1
    <3> QED BY <3>1, <3>2, Zenon DEF Sent
  <2>3. job[w] \in Unsent /\ job[w] \notin Unsent'
    BY <1>1, <1>3, <2>2, Zenon DEF Unsent, Sent
  <2> QED BY <2>1, <2>3, Zenon
<1>7. Undone' \subseteq Undone
  BY <1>1, <1>2, <1>3, Zenon DEF Undone, Has, Busy
<1>8. Unended' \subseteq Unended
  BY <1>1, <1>3 DEF Unended
<1> QED BY <1>1, <1>2, <1>4, <1>5, <1>7, <1>8, LeftFrame, Zenon DEF LessLeft

\* A worker closes the future, or, of Unordered, has written all: it has done its job.
LEMMA DoneLess ==
  ASSUME PoolInv, StageInv, NEW w \in Workers, CloseFuture(w) \/ WriteDone(w)
  PROVE  StageInv' /\ LessLeft
<1>0. /\ TypesInv /\ JobsInv /\ \A v \in Workers : Busy(v) => job[v] \in 1 .. enqueued
      /\ Taken \in 0 .. enqueued
  BY Stages, Zenon
<1>1. /\ worker[w] \in {"close", "write"} /\ worker' = [worker EXCEPT ![w] = "idle"]
      /\ closed' = (IF worker[w] = "close" THEN closed \cup {job[w]} ELSE closed)
      /\ job' = [job EXCEPT ![w] = 0]
      /\ UNCHANGED <<caller, enqueued, queue, workerQueue, reader, results, written>>
  <2>1. CASE CloseFuture(w)
    BY <2>1, Zenon DEF CloseFuture, calls, queues, readers
  <2>2. CASE WriteDone(w)
    BY <2>2, SMT DEF WriteDone, calls, queues, readers
  <2> QED BY <2>1, <2>2
<1>2. Read' = Read /\ Taken' = Taken
  BY <1>1, Zenon DEF Read, Taken
<1>3. /\ worker'[w] = "idle" /\ \A v \in Workers : v # w => worker'[v] = worker[v] /\ job'[v] = job[v]
      /\ Busy(w) /\ job[w] \in 1 .. enqueued /\ job[w] \in 1 .. Taken
  <2>1. Busy(w)
    BY <1>1 DEF Busy
  <2> QED BY <1>0, <1>1, <2>1, Zenon DEF TypesInv, JobsInv
<1>4. StageInv'
  BY <1>1, <1>2, <1>3 DEF StageInv
<1>5. Undone' \subseteq Undone /\ Undone' # Undone
  <2>1. \A v \in Workers, m \in 1 .. enqueued : Has(v, m)' => v # w /\ Has(v, m)
    BY <1>3 DEF Has, Busy
  <2>2. Undone' \subseteq Undone
    BY <1>1, <1>2, <2>1, Zenon DEF Undone
  <2>3. PICK m \in 1 .. enqueued : m = job[w]
    BY <1>3, Zenon
  <2>4. m \in Undone
    BY <1>3, <2>3, Zenon DEF Undone, Has
  <2>5. ~(m > Taken)
    BY <1>0, <1>3, <2>3
  <2>6. ASSUME NEW v \in Workers, Has(v, m)' PROVE FALSE
    <3>1. v # w /\ Has(v, m)
      BY <2>1, <2>6, Zenon
    <3> QED BY <1>0, <1>3, <2>3, <3>1, Zenon DEF JobsInv
  <2>7. m \notin Undone'
    BY <1>2, <2>5, <2>6, Zenon DEF Undone
  <2> QED BY <2>2, <2>4, <2>7, Zenon
<1>6. Unsent' \subseteq Unsent
  BY <1>1, <1>3 DEF Unsent, Sent
<1>8. Unended' \subseteq Unended
  BY <1>1, <1>3 DEF Unended
<1> QED BY <1>1, <1>2, <1>4, <1>5, <1>6, <1>8, LeftFrame, Zenon DEF LessLeft

\* A result of metric m is written.
LEMMA WriteLess ==
  ASSUME PoolInv, StageInv, NEW m \in 1 .. enqueued, written[m] < results[m],
         written' = [written EXCEPT ![m] = @ + 1],
         UNCHANGED <<caller, enqueued, queue, workerQueue, worker, job, reader, closed, results>>
  PROVE  StageInv' /\ LessLeft
<1>0. /\ TypesInv /\ enqueued \in 0 .. MaxJobs /\ MaxJobs \in Nat /\ MaxResults \in Nat
  BY Stages, Zenon
<1>1. Read' = Read /\ Taken' = Taken
  BY Zenon DEF Read, Taken
<1>2. StageInv'
  BY <1>1, Zenon DEF StageInv
<1>3. /\ m \in 1 .. MaxJobs /\ written[m] \in Nat /\ results[m] \in Int /\ results[m] <= MaxResults
      /\ written'[m] = written[m] + 1 /\ written[m] + 1 \in 1 .. MaxResults
      /\ \A l \in 1 .. MaxJobs : l # m => written'[l] = written[l]
  <2>1. m \in 1 .. MaxJobs
    BY <1>0
  <2>2. written[m] \in Nat /\ results[m] \in Int /\ results[m] <= MaxResults
    BY <1>0, <2>1, Zenon DEF TypesInv, StageInv
  <2>3. written'[m] = written[m] + 1 /\ \A l \in 1 .. MaxJobs : l # m => written'[l] = written[l]
    BY <1>0, <2>1, Zenon DEF TypesInv
  <2>4. written[m] + 1 \in 1 .. MaxResults
    BY <1>0, <2>2
  <2> QED BY <2>1, <2>2, <2>3, <2>4
<1>4. Unwritten' \subseteq Unwritten
  <2> SUFFICES ASSUME NEW x \in Unwritten' PROVE x \in Unwritten
    OBVIOUS
  <2>1. x \in (1 .. enqueued) \X (1 .. MaxResults) /\ x[2] > written'[x[1]]
    BY Zenon DEF Unwritten
  <2>2. x[1] \in 1 .. MaxJobs /\ x[2] \in Nat
    BY <1>0, <2>1
  <2>3. x[2] > written[x[1]]
    <3>1. CASE x[1] = m
      <4>1. x[2] > written[m] + 1
        BY <1>3, <2>1, <3>1, Zenon
      <4>2. x[2] > written[m]
        BY <1>3, <2>2, <4>1
      <4> QED BY <3>1, <4>2, Zenon
    <3>2. CASE x[1] # m
      BY <1>3, <2>1, <2>2, <3>2, Zenon
    <3> QED BY <3>1, <3>2
  <2> QED BY <2>1, <2>3, Zenon DEF Unwritten
<1>5. Unwritten' # Unwritten
  <2> DEFINE y == <<m, written[m] + 1>>
  <2>1. y \in (1 .. enqueued) \X (1 .. MaxResults) /\ y[1] = m /\ y[2] = written[m] + 1
    BY <1>3
  <2>2. y[2] > written[y[1]] /\ ~(y[2] > written'[y[1]])
    BY <1>3, <2>1
  <2>3. y \in Unwritten
    BY <2>1, <2>2, Zenon DEF Unwritten
  <2>4. y \notin Unwritten'
    BY <2>2, Zenon DEF Unwritten
  <2> QED BY <2>3, <2>4, Zenon
<1> QED BY <1>1, <1>2, <1>4, <1>5, LeftFrame, Zenon DEF LessLeft

\* A worker of Unordered writes a result.
LEMMA WriteUnorderedLess ==
  ASSUME PoolInv, StageInv, NEW w \in Workers, WriteUnordered(w)
  PROVE  StageInv' /\ LessLeft
<1>0. /\ TypesInv /\ JobsInv /\ UnorderedInv /\ enqueued \in 0 .. MaxJobs /\ MaxJobs \in Nat
      /\ \A v \in Workers : Busy(v) => job[v] \in 1 .. enqueued
  BY Stages, Zenon
<1>1. /\ worker[w] = "write" /\ left[w] > 0 /\ written' = [written EXCEPT ![job[w]] = @ + 1]
      /\ UNCHANGED <<caller, enqueued, queue, workerQueue, worker, job, reader, closed, results>>
  BY Zenon DEF WriteUnordered, calls, queues, readers
<1>2. /\ job[w] \in 1 .. enqueued /\ written[job[w]] + left[w] = results[job[w]] /\ left[w] \in Nat
  BY <1>0, <1>1, Zenon DEF Busy, JobsInv, UnorderedInv, TypesInv
<1>3. written[job[w]] \in Nat
  BY <1>0, <1>2 DEF TypesInv
<1>4. written[job[w]] < results[job[w]]
  BY <1>1, <1>2, <1>3
<1> QED BY <1>1, <1>2, <1>4, WriteLess, Zenon

\* The steps of readQueue.
LEMMA ReaderLess ==
  ASSUME PoolInv, StageInv, ReaderStep
  PROVE  StageInv' /\ LessLeft
<1>0. /\ TypesInv /\ QueuesInv /\ OrderedInv /\ enqueued \in 0 .. MaxJobs /\ MaxJobs \in Nat
      /\ Read \in 0 .. enqueued
      /\ reader = "range" => ordered /\ future = Read /\ future \in 1 .. enqueued
  BY Stages, Zenon
<1>1. CASE ReadFuture
  <2>1. /\ reader = "idle" /\ reader' = "range" /\ queue # <<>> /\ queue' = Tail(queue)
        /\ UNCHANGED <<caller, enqueued, workerQueue, worker, job, closed, results, written>>
    BY <1>1, Zenon DEF ReadFuture, calls, workers
  <2>2. Taken' = Taken /\ Read' = Read + 1 /\ Read + 1 \in 1 .. enqueued
    <3>1. Len(Tail(queue)) = Len(queue) - 1 /\ Len(queue) > 0
      BY <1>0, <2>1, RunTail, Zenon DEF TypesInv, QueuesInv
    <3>2. Len(queue) \in Nat /\ enqueued \in Nat /\ Read \in Nat
      BY <1>0 DEF TypesInv
    <3>3. Read' = Read + 1 /\ Read + 1 \in 1 .. enqueued
      BY <2>1, <3>1, <3>2 DEF Read
    <3> QED BY <2>1, <3>3, Zenon DEF Taken
  <2>3. StageInv'
    BY <2>1, <2>2, Zenon DEF StageInv
  <2>4. Unread' \subseteq Unread /\ Unread' # Unread
    <3>1. Unread' \subseteq Unread
      BY <1>0, <2>1, <2>2 DEF Unread
    <3>2. Read + 1 \in Unread /\ Read + 1 \notin Unread'
      BY <1>0, <2>1, <2>2 DEF Unread
    <3> QED BY <3>1, <3>2, Zenon
  <2>5. Unleft' \subseteq Unleft
    BY <1>0, <2>1, <2>2 DEF Unleft
  <2>6. Waiting' \subseteq Waiting
    BY <2>1 DEF Waiting
  <2> QED BY <2>1, <2>2, <2>3, <2>4, <2>5, <2>6, LeftFrame, Zenon DEF LessLeft
<1>2. CASE WriteOrdered
  <2>1. /\ reader = "range" /\ unwritten > 0 /\ written' = [written EXCEPT ![future] = @ + 1]
        /\ UNCHANGED <<caller, enqueued, queue, workerQueue, worker, job, reader, closed, results>>
    BY <1>2, Zenon DEF WriteOrdered, calls, queues, workers
  <2>2. future \in 1 .. enqueued /\ future \in 1 .. MaxJobs /\ future = Read /\ ordered
    BY <1>0, <2>1
  <2>3. written[future] \in Nat /\ unwritten \in Nat
    BY <1>0, <2>2 DEF TypesInv
  <2>4. written[future] + unwritten = results[future]
    BY <1>0, <2>1, <2>2, <2>3 DEF OrderedInv
  <2>5. written[future] < results[future]
    BY <2>1, <2>3, <2>4
  <2> QED BY <2>1, <2>2, <2>5, WriteLess, Zenon
<1>3. CASE FutureDone
  <2>1. /\ reader = "range" /\ reader' = "idle"
        /\ UNCHANGED <<caller, enqueued, queue, workerQueue, worker, job, closed, results, written>>
    BY <1>3, Zenon DEF FutureDone, calls, queues, workers
  <2>2. Read' = Read /\ Taken' = Taken
    BY <2>1, Zenon DEF Read, Taken
  <2>3. StageInv'
    BY <2>1, <2>2, Zenon DEF StageInv
  <2>4. Unleft' \subseteq Unleft /\ Unleft' # Unleft
    <3>1. Unleft' \subseteq Unleft
      BY <2>1, <2>2 DEF Unleft
    <3>2. Read \in Unleft /\ Read \notin Unleft'
      BY <1>0, <2>1, <2>2 DEF Unleft
    <3> QED BY <3>1, <3>2, Zenon
  <2>5. Waiting' \subseteq Waiting
    BY <2>1 DEF Waiting
  <2> QED BY <2>1, <2>2, <2>3, <2>4, <2>5, LeftFrame, Zenon DEF LessLeft
<1>4. CASE EndReader
  <2>1. /\ reader = "idle" /\ reader' = "ended"
        /\ UNCHANGED <<caller, enqueued, queue, workerQueue, worker, job, closed, results, written>>
    BY <1>4, Zenon DEF EndReader, calls, queues, workers
  <2>2. Read' = Read /\ Taken' = Taken
    BY <2>1, Zenon DEF Read, Taken
  <2>3. StageInv'
    BY <2>1, <2>2, Zenon DEF StageInv
  <2>4. Waiting' \subseteq Waiting /\ Waiting' # Waiting
    <3>1. "reader" \in Waiting /\ "reader" \notin Waiting' /\ Waiting' \subseteq Waiting
      BY <2>1 DEF Waiting
    <3> QED BY <3>1, Zenon
  <2>5. Unleft' \subseteq Unleft
    BY <2>1, <2>2 DEF Unleft
  <2> QED BY <2>1, <2>2, <2>3, <2>4, <2>5, LeftFrame, Zenon DEF LessLeft
<1> QED BY <1>1, <1>2, <1>3, <1>4, Zenon DEF ReaderStep

\* The steps of a worker.
LEMMA WorkerLess ==
  ASSUME PoolInv, StageInv, NEW w \in Workers, WorkerStep(w)
  PROVE  StageInv' /\ LessLeft
  BY TakeJobLess, EndWorkerLess, ReturnLess, SendLess, DoneLess, WriteUnorderedLess, Zenon
  DEF WorkerStep

\* Stop returns.
LEMMA PoolStoppedLess ==
  ASSUME PoolInv, StageInv, PoolStopped
  PROVE  StageInv' /\ LessLeft
<1>1. /\ caller = "waiting" /\ caller' = "stopped"
      /\ UNCHANGED <<enqueued, queue, workerQueue, worker, job, reader, closed, results, written>>
  BY Zenon DEF PoolStopped, queues, workers, readers
<1>2. Read' = Read /\ Taken' = Taken
  BY <1>1 DEF Read, Taken
<1>3. StageInv'
  BY <1>1, <1>2, Zenon DEF StageInv
<1>4. Waiting' \subseteq Waiting /\ Waiting' # Waiting
  <2>1. "caller" \in Waiting /\ "caller" \notin Waiting' /\ Waiting' \subseteq Waiting
    BY <1>1 DEF Waiting
  <2> QED BY <2>1, Zenon
<1> QED BY <1>1, <1>2, <1>3, <1>4, LeftFrame, Zenon DEF LessLeft

\* The steps of the caller before Stop.
LEMMA CallerStage ==
  ASSUME PoolInv, StageInv, Enqueue \/ EnqueueJob \/ EnqueueUnordered \/ StopPool
  PROVE  StageInv' /\ caller # "waiting"
<1>0. /\ TypesInv /\ QueuesInv /\ MaxJobs \in Nat /\ Taken \in Nat /\ enqueued \in Nat
      /\ Len(workerQueue) \in Nat /\ workerQueue \in Seq(Nat)
  BY Stages DEF TypesInv
<1>1. UNCHANGED <<worker, job, results>>
  BY Zenon DEF Enqueue, EnqueueJob, EnqueueUnordered, StopPool, workers
<1>2. Taken' = Taken
  <2>1. CASE Enqueue
    BY <1>0, <2>1 DEF Enqueue, Taken
  <2>2. CASE EnqueueJob
    BY <1>0, <2>2 DEF EnqueueJob, Taken
  <2>3. CASE EnqueueUnordered
    BY <1>0, <2>3 DEF EnqueueUnordered, Taken
  <2>4. CASE StopPool
    BY <1>0, <2>4 DEF StopPool, queues, Taken
  <2> QED BY <2>1, <2>2, <2>3, <2>4
<1>3. caller # "waiting"
  BY DEF Enqueue, EnqueueJob, EnqueueUnordered, StopPool
<1> QED BY <1>1, <1>2, <1>3, Zenon DEF StageInv

\* A new pool has nothing to return.
LEMMA StageBegins == PoolInit => StageInv
<1> SUFFICES ASSUME PoolInit PROVE StageInv
  OBVIOUS
<1>1. /\ \A m \in 1 .. MaxJobs : results[m] = -1
      /\ \A w \in Workers : worker[w] = "idle"
  BY Zenon DEF PoolInit
<1> QED BY <1>1, PoolAssumption DEF StageInv

\* What is left is finite, ...
FiniteLeft ==
  /\ IsFiniteSet(Untaken) /\ IsFiniteSet(Unreturned) /\ IsFiniteSet(Unsent)
  /\ IsFiniteSet(Undone) /\ IsFiniteSet(Unwritten) /\ IsFiniteSet(Unread)
  /\ IsFiniteSet(Unleft) /\ IsFiniteSet(Unended) /\ IsFiniteSet(Waiting)

\* ... as each of its parts is a part of a finite set.
LEMMA LeftIsFinite == PoolInv => FiniteLeft
<1> SUFFICES ASSUME PoolInv PROVE FiniteLeft
  OBVIOUS
<1>1. IsFiniteSet(1 .. enqueued) /\ IsFiniteSet(1 .. MaxResults) /\ IsFiniteSet(Workers)
  BY Stages, FS_Interval, PoolAssumption
<1>2. IsFiniteSet((1 .. enqueued) \X (1 .. MaxResults))
  BY <1>1, FS_Product, Zenon
<1>3. IsFiniteSet({"reader", "caller"})
  <2>1. {"reader", "caller"} = {"reader"} \cup {"caller"}
    OBVIOUS
  <2>2. IsFiniteSet({"reader"})
    BY FS_Singleton, Zenon
  <2>3. IsFiniteSet({"reader"} \cup {"caller"})
    BY <2>2, FS_AddElement, Zenon
  <2> QED BY <2>1, <2>3, Zenon
<1>4. /\ Untaken \subseteq 1 .. enqueued /\ Unreturned \subseteq 1 .. enqueued
      /\ Unsent \subseteq 1 .. enqueued /\ Undone \subseteq 1 .. enqueued
      /\ Unread \subseteq 1 .. enqueued /\ Unleft \subseteq 1 .. enqueued
      /\ Unwritten \subseteq (1 .. enqueued) \X (1 .. MaxResults)
      /\ Unended \subseteq Workers /\ Waiting \subseteq {"reader", "caller"}
  BY Zenon DEF Untaken, Unreturned, Unsent, Undone, Unread, Unleft, Unwritten, Unended, Waiting
<1> QED BY <1>1, <1>2, <1>3, <1>4, FS_Subset, Zenon DEF FiniteLeft

\* After Stop is called every step of the pool leaves less to do.
StopAdvances == [][caller = "waiting" => LessLeft]_poolVars

\* The two halves of why Stop returns: what is left when it is called is finite, and
\* becomes less with every step, of which by PoolNeverStuck there always is one.
THEOREM StopComesToAnEnd == PoolSpec => []FiniteLeft /\ StopAdvances
<1>1. PoolInv /\ StageInv /\ [PoolNext]_poolVars =>
        StageInv' /\ [caller = "waiting" => LessLeft]_poolVars
  <2> SUFFICES ASSUME PoolInv, StageInv, [PoolNext]_poolVars
               PROVE  StageInv' /\ [caller = "waiting" => LessLeft]_poolVars
    OBVIOUS
  <2>1. CASE PoolNext
    BY <2>1, CallerStage, PoolStoppedLess, WorkerLess, ReaderLess, Zenon DEF PoolNext
  <2>2. CASE UNCHANGED poolVars
    <3>1. UNCHANGED <<worker, job, results, caller, enqueued, workerQueue>>
      BY <2>2, Zenon DEF poolVars, calls, queues, workers
    <3>2. Taken' = Taken
      BY <3>1, Zenon DEF Taken
    <3>3. StageInv'
      BY <3>1, <3>2, Zenon DEF StageInv
    <3> QED BY <2>2, <3>3
  <2> QED BY <2>1, <2>2
<1> QED BY <1>1, PoolBegins, PoolStep, StageBegins, LeftIsFinite, PTL DEF PoolSpec, StopAdvances
=============================================================================
