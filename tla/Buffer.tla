------------------------------- MODULE Buffer -------------------------------
(***************************************************************************)
(* The circular metric buffer of an output (models/buffer.go).             *)
(*                                                                         *)
(* A metric is the number of its arrival: the k-th metric handed to Add is *)
(* k, so "older" is "<".  The client of the buffer is RunningOutput, whose *)
(* flush loop has at most one batch out at a time; the batch it holds is   *)
(* part of the state, since the buffer forgets a batch it has handed out   *)
(* and Accept and Reject get it back as an argument.                       *)
(*                                                                         *)
(* Every operation runs under the buffer's mutex and is one action, except *)
(* that a variadic Add keeps the mutex for one step per metric (adding).   *)
(***************************************************************************)
EXTENDS Integers, Sequences

CONSTANTS
  Cap,         \* capacity of the buffer (metric_buffer_limit)
  MaxMetrics,  \* bound: number of metrics ever added
  MaxAdd,      \* bound: metrics handed to one call of Add
  BatchSizes,  \* the batch sizes a client asks for
  Nil          \* an empty slot

ASSUME BufferAssumption ==
  /\ Cap \in Nat \ {0}
  /\ MaxMetrics \in Nat
  /\ MaxAdd \in Nat \ {0}
  /\ BatchSizes \subseteq Nat \ {0}
  /\ Nil \notin Nat

VARIABLES
  buf,             \* slot -> metric or Nil
  first,           \* index of the oldest metric
  last,            \* one after the index of the newest metric
  size,            \* number of metrics in the buffer
  batchFirst,      \* index of the first metric of the batch
  batchSize,       \* number of metrics of the batch not yet overwritten
  batch,           \* the batch held by the client, << >> if none
  adding,          \* metrics an Add in progress still has to store
  metricsAdded,    \* the statistics of the buffer
  metricsWritten,
  metricsDropped,
  bufferSize,
  accepted,        \* metric -> number of calls of its Accept()
  rejected         \* metric -> number of calls of its Reject()

ring  == <<buf, first, last, size, batchFirst, batchSize>>
stats == <<metricsAdded, metricsWritten, metricsDropped, bufferSize>>
fates == <<accepted, rejected>>

bufferVars == <<ring, batch, adding, stats, fates>>

Metric == 1 .. MaxMetrics
Slots  == 0 .. Cap - 1
-----------------------------------------------------------------------------
min(a, b) == IF b < a THEN b ELSE a

next(index) == IF index + 1 = Cap THEN 0 ELSE index + 1

nextby(index, count) == (index + count) % Cap

\* Mutant of prevby: one slot too few.
prevbyShort(index, count) == (index - count + 1) % Cap

\* The loop that adds Cap until the index is not negative is the % of TLA+.
prevby(index, count) == (index - count) % Cap

length == min(size + batchSize, Cap)

\* How many slots k lies after index i, going round.
Offset(i, k) == IF k >= i THEN k - i ELSE k - i + Cap

Unlocked == adding = 0

\* Mutant of resetBatch: nothing is reset.
resetNothing == UNCHANGED <<batchFirst, batchSize>>

resetBatch ==
  /\ batchFirst' = 0
  /\ batchSize' = 0

\* Accept() or Reject() on each metric of the set S.
Call(calls, S) == [m \in Metric |-> IF m \in S THEN calls[m] + 1 ELSE calls[m]]

Elements(s) == {s[i] : i \in 1 .. Len(s)}

BufferInit ==
  /\ buf = [k \in Slots |-> Nil]
  /\ first = 0 /\ last = 0 /\ size = 0
  /\ batchFirst = 0 /\ batchSize = 0
  /\ batch = << >>
  /\ adding = 0
  /\ metricsAdded = 0 /\ metricsWritten = 0 /\ metricsDropped = 0
  /\ bufferSize = 0
  /\ accepted = [m \in Metric |-> 0]
  /\ rejected = [m \in Metric |-> 0]

\* Mutant of add: the overwritten metric is counted but not rejected.
addSilently ==
  /\ IF size = Cap
       THEN /\ metricsDropped' = metricsDropped + 1
            /\ batchSize' = IF batchSize > 0 THEN batchSize - 1 ELSE batchSize
            /\ batchFirst' = IF batchSize > 0 THEN next(batchFirst) ELSE batchFirst
            /\ first' = next(first)
       ELSE UNCHANGED <<metricsDropped, batchSize, batchFirst, first>>
  /\ metricsAdded' = metricsAdded + 1
  /\ buf' = [buf EXCEPT ![last] = metricsAdded + 1]
  /\ last' = next(last)
  /\ size' = min(size + 1, Cap)
  /\ UNCHANGED <<rejected, batch, metricsWritten, accepted>>

\* add: store the next metric, dropping the one in the way of a full buffer.
add ==
  /\ IF size = Cap
       THEN /\ rejected' = Call(rejected, {buf[last]})
            /\ metricsDropped' = metricsDropped + 1
            /\ batchSize' = IF batchSize > 0 THEN batchSize - 1 ELSE batchSize
            /\ batchFirst' = IF batchSize > 0 THEN next(batchFirst) ELSE batchFirst
            /\ first' = next(first)
       ELSE UNCHANGED <<rejected, metricsDropped, batchSize, batchFirst, first>>
  /\ metricsAdded' = metricsAdded + 1
  /\ buf' = [buf EXCEPT ![last] = metricsAdded + 1]
  /\ last' = next(last)
  /\ size' = min(size + 1, Cap)
  /\ UNCHANGED <<batch, metricsWritten, accepted>>

\* Add sets the size statistic and releases the mutex after its last metric.
Release(remaining) ==
  /\ adding' = remaining
  /\ bufferSize' = IF remaining = 0 THEN length' ELSE bufferSize

Add(n) ==
  /\ Unlocked
  /\ metricsAdded + n <= MaxMetrics
  /\ add
  /\ Release(n - 1)

AddMore ==
  /\ ~Unlocked
  /\ add
  /\ Release(adding - 1)

Batch(n) ==
  LET outLen == min(size, n)
  IN  /\ Unlocked
      /\ batch = << >>
      /\ \/ /\ outLen = 0
            /\ UNCHANGED <<ring, batch>>
         \/ /\ outLen > 0
            /\ batchFirst' = first
            /\ batchSize' = outLen
            /\ batch' = [i \in 1 .. outLen |-> buf[nextby(first, i - 1)]]
            /\ buf' = [k \in Slots |->
                         IF Offset(first, k) < outLen THEN Nil ELSE buf[k]]
            /\ first' = nextby(first, outLen)
            /\ size' = size - outLen
            /\ UNCHANGED last
      /\ UNCHANGED <<adding, stats, fates>>

Accept ==
  /\ Unlocked
  /\ batch # << >>
  /\ accepted' = Call(accepted, Elements(batch))
  /\ metricsWritten' = metricsWritten + Len(batch)
  /\ resetBatch
  /\ UNCHANGED <<buf, first, last, size, adding, metricsAdded, metricsDropped, rejected>>
  /\ bufferSize' = length'
  /\ batch' = << >>

\* Mutant of Reject: the batch is dropped, as if nothing of it fitted.
RejectDrops ==
  /\ Unlocked
  /\ batch # << >>
  /\ rejected' = Call(rejected, Elements(batch))
  /\ metricsDropped' = metricsDropped + Len(batch)
  /\ resetBatch
  /\ bufferSize' = min(size, Cap)
  /\ batch' = << >>
  /\ UNCHANGED <<buf, first, last, size, adding, metricsAdded, metricsWritten, accepted>>

\* Mutant of Reject: the metrics go back from the front in the wrong order, as
\* if the loop walked the batch from its end.
RejectReversed ==
  LET restore == min(Len(batch), Cap - size)
      skip    == Len(batch) - restore
  IN  /\ Unlocked
      /\ batch # << >>
      /\ first' = prevby(first, restore)
      /\ size' = min(size + restore, Cap)
      /\ buf' = [k \in Slots |->
                   IF Offset(first', k) < restore
                     THEN batch[Len(batch) - Offset(first', k)] ELSE buf[k]]
      /\ rejected' = Call(rejected, {batch[i] : i \in 1 .. skip})
      /\ metricsDropped' = metricsDropped + skip
      /\ resetBatch
      /\ bufferSize' = length'
      /\ batch' = << >>
      /\ UNCHANGED <<last, adding, metricsAdded, metricsWritten, accepted>>

Reject ==
  LET free    == Cap - size
      restore == min(Len(batch), free)
      skip    == Len(batch) - restore
  IN  /\ Unlocked
      /\ batch # << >>
      /\ first' = prevby(first, restore)
      /\ size' = min(size + restore, Cap)
      /\ buf' = [k \in Slots |->
                   IF Offset(first', k) < restore
                     THEN batch[skip + Offset(first', k) + 1] ELSE buf[k]]
      /\ rejected' = Call(rejected, {batch[i] : i \in 1 .. skip})
      /\ metricsDropped' = metricsDropped + skip
      /\ resetBatch
      /\ bufferSize' = length'
      /\ batch' = << >>
      /\ UNCHANGED <<last, adding, metricsAdded, metricsWritten, accepted>>

BufferNext ==
  \/ \E n \in 1 .. MaxAdd : Add(n)
  \/ AddMore
  \/ \E n \in BatchSizes : Batch(n)
  \/ Accept
  \/ Reject

BufferSpec == BufferInit /\ [][BufferNext]_bufferVars
-----------------------------------------------------------------------------
\* The slot i places after the oldest metric, going round.
Slot(i) == IF first + i < Cap THEN first + i ELSE first + i - Cap

\* The stored metrics, oldest first.
Contents == [i \in 1 .. size |-> buf[Slot(i - 1)]]

\* The indices, the batch and the statistics stay in their ranges.
BufferTypeOK ==
  /\ buf \in [Slots -> Metric \cup {Nil}]
  /\ first \in Slots /\ last \in Slots /\ size \in 0 .. Cap
  /\ batchFirst \in Slots /\ batchSize \in Nat
  /\ batch \in Seq(Metric)
  /\ adding \in Nat
  /\ metricsAdded \in Nat /\ metricsAdded + adding <= MaxMetrics
  /\ metricsWritten \in Nat /\ metricsDropped \in Nat /\ bufferSize \in Nat
  /\ accepted \in [Metric -> Nat] /\ rejected \in [Metric -> Nat]

\* A slot holds a metric exactly when it lies in the window that starts at
\* first, has size slots and ends before last: the drop of a full buffer (add
\* rejects buf[last]) never meets an empty slot, and no metric is kept alive
\* outside the window.
WindowOccupied ==
  /\ last = (first + size) % Cap
  /\ \A k \in Slots : buf[k] # Nil <=> Offset(first, k) < size

\* Metrics are stored oldest first, and whatever is out in a batch is older
\* than whatever is stored: a batch that is rejected goes back in front.
OldestFirst ==
  /\ \A i, j \in 1 .. size : i < j => Contents[i] < Contents[j]
  /\ \A i, j \in 1 .. Len(batch) : i < j => batch[i] < batch[j]
  /\ \A i \in 1 .. Len(batch), j \in 1 .. size : batch[i] < Contents[j]

\* Stored or out in a batch: the output still owes the metric an answer.
Held == Elements(Contents) \cup Elements(batch)

\* Of Accept() and Reject() a metric gets one call, once, when it leaves; never
\* while it is held.  A tracked metric panics on the second call.
AnsweredOnce ==
  \A m \in Metric :
    accepted[m] + rejected[m] = IF m <= metricsAdded /\ m \notin Held THEN 1 ELSE 0

\* The statistics account for every metric.  The gauge is not set by Batch, and
\* the overwriting branch of add counts the batch down: it still is, whenever
\* the mutex is free, the number of metrics the buffer would hold if the batch
\* were rejected now.
StatisticsAgree ==
  /\ metricsAdded = metricsWritten + metricsDropped + size + Len(batch)
  /\ Unlocked => bufferSize = min(size + Len(batch), Cap)

\* A metric is dropped only by an operation that leaves the buffer full of
\* newer ones.
DropsOnlyWhenFull ==
  [][ \A m \in Metric :
        rejected'[m] # rejected[m] =>
          /\ size' = Cap
          /\ \A i \in 1 .. Cap : m < Contents'[i] ]_bufferVars

Queue == INSTANCE MetricQueue WITH
  queue     <- Contents,
  count     <- metricsAdded,
  delivered <- {m \in Metric : accepted[m] > 0},
  lost      <- {m \in Metric : rejected[m] > 0}

\* The ring of slots and indices, with its wrap-arounds and its restoring of a
\* batch, implements the bounded queue that drops its oldest metrics.
ImplementsQueue == Queue!Spec
=============================================================================
