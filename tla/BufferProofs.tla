---------------------------- MODULE BufferProofs ----------------------------
(* Proofs about the metric buffer, for every capacity. *)
EXTENDS Buffer, SequenceTheorems, TLAPS

\* Going round once: an index below twice the capacity, reduced modulo it.
LEMMA WrapUp ==
  ASSUME NEW i \in Slots, NEW n \in 0 .. Cap
  PROVE  (i + n) % Cap = IF i + n < Cap THEN i + n ELSE i + n - Cap
  BY BufferAssumption DEF Slots

\* Going back past the start of the buffer (prevby).
LEMMA WrapDown ==
  ASSUME NEW i \in Slots, NEW n \in 0 .. Cap
  PROVE  (i - n) % Cap = IF i - n >= 0 THEN i - n ELSE i - n + Cap
  BY BufferAssumption DEF Slots

-----------------------------------------------------------------------------
(* What each operation does to the stored metrics. *)

\* The window of a buffer whose types and indices are right.
Shape ==
  /\ buf \in [Slots -> Metric \cup {Nil}]
  /\ first \in Slots /\ last \in Slots /\ size \in 0 .. Cap
  /\ last = Slot(size)
  /\ \A k \in Slots : buf[k] # Nil <=> Offset(first, k) < size

\* The indices the proofs use are the window that WindowOccupied states with
\* remainders.
LEMMA ShapeIsWindow ==
  ASSUME BufferTypeOK
  PROVE  WindowOccupied <=> Shape
<1>1. (first + size) % Cap = Slot(size)
  BY Zenon, WrapUp DEF Slot, BufferTypeOK
<1> QED
  BY Zenon, <1>1 DEF WindowOccupied, Shape, BufferTypeOK

\* The contents are a sequence of metrics: no slot of the window is empty.
ContentsOK == Contents \in Seq(Metric) /\ Len(Contents) = size

\* The window holds metrics only: the slots Contents reads are occupied.
LEMMA ContentsType == Shape => ContentsOK
<1> SUFFICES ASSUME Shape PROVE ContentsOK
  OBVIOUS
<1>1. ASSUME NEW i \in 1 .. size
      PROVE  Slot(i - 1) \in Slots /\ Offset(first, Slot(i - 1)) = i - 1
  BY BufferAssumption DEF Shape, Slot, Slots, Offset
<1>2. ASSUME NEW i \in 1 .. size PROVE buf[Slot(i - 1)] \in Metric
  <2>1. buf[Slot(i - 1)] # Nil
    BY <1>1, BufferAssumption DEF Shape
  <2> QED
    BY Zenon, <1>1, <2>1 DEF Shape
<1>3. Contents \in [1 .. size -> Metric]
  BY Zenon, <1>2 DEF Contents
<1> QED
  BY <1>3, BufferAssumption DEF Shape, Contents, ContentsOK

\* The same after a step.
LEMMA ContentsTypeNext == Shape' => ContentsOK'
  BY ContentsType, PTL

\* Storing a metric in a buffer that has room appends it.
LEMMA AddRoom ==
  ASSUME Shape, add, size # Cap, metricsAdded + 1 \in Metric
  PROVE  Shape' /\ Contents' = Append(Contents, metricsAdded + 1)
<1>1. /\ first' = first
      /\ size' = size + 1
      /\ last' = next(last)
      /\ buf' = [buf EXCEPT ![last] = metricsAdded + 1]
  BY BufferAssumption DEF add, Shape, min
<1>2. Offset(first, last) = size
  BY BufferAssumption DEF Shape, Slot, Slots, Offset
<1>3. Shape'
  <2>1. /\ buf' \in [Slots -> Metric \cup {Nil}]
        /\ first' \in Slots /\ last' \in Slots /\ size' \in 0 .. Cap
        /\ last' = Slot(size)'
    BY <1>1, BufferAssumption DEF Shape, Slot, Slots, next
  <2>2. ASSUME NEW k \in Slots
        PROVE  buf'[k] # Nil <=> Offset(first', k) < size'
    <3>1. CASE k = last
      BY <1>1, <1>2, <3>1, BufferAssumption DEF Shape, Metric
    <3>2. CASE k # last
      <4>1. Offset(first, k) # size
        BY <3>2, <1>2, BufferAssumption DEF Slots, Shape, Offset
      <4>2. Offset(first, k) \in Int
        BY BufferAssumption DEF Slots, Shape, Offset
      <4> QED
        BY <1>1, <3>2, <4>1, <4>2 DEF Shape
    <3> QED BY Zenon, <3>1, <3>2
  <2> QED BY Zenon, <2>1, <2>2 DEF Shape
<1>4. ASSUME NEW i \in 1 .. size + 1
      PROVE  buf'[Slot(i - 1)'] = IF i = size + 1 THEN metricsAdded + 1
                                                  ELSE buf[Slot(i - 1)]
  <2>1. Slot(i - 1)' = Slot(i - 1) /\ Slot(i - 1) \in Slots
    BY <1>1, BufferAssumption DEF Shape, Slot, Slots
  <2>2. Slot(i - 1) = last <=> i = size + 1
    BY BufferAssumption DEF Shape, Slot, Slots
  <2> QED BY Zenon, <1>1, <2>1, <2>2 DEF Shape
<1>5. Contents' = [i \in 1 .. size + 1 |->
                     IF i = size + 1 THEN metricsAdded + 1 ELSE Contents[i]]
  BY <1>1, <1>4, ContentsType, BufferAssumption DEF Contents, Shape, ContentsOK
<1>6. Append(Contents, metricsAdded + 1) =
        [i \in 1 .. size + 1 |->
           IF i = size + 1 THEN metricsAdded + 1 ELSE Contents[i]]
  BY ContentsType DEF Shape, ContentsOK, Contents
<1> QED
  BY Zenon, <1>3, <1>5, <1>6

\* Storing a metric in a full buffer drops the oldest one, which is in the slot
\* the new one needs, and appends the new one.
LEMMA AddFull ==
  ASSUME Shape, add, size = Cap, metricsAdded + 1 \in Metric
  PROVE  /\ Shape'
         /\ buf[last] = Contents[1]
         /\ Contents' = Append(Tail(Contents), metricsAdded + 1)
<1>1. /\ first' = next(first)
      /\ size' = size
      /\ last' = next(last)
      /\ buf' = [buf EXCEPT ![last] = metricsAdded + 1]
  BY BufferAssumption DEF add, Shape, min
<1>2. last = first /\ Slot(0) = first
  BY BufferAssumption DEF Shape, Slot, Slots
<1>3. Shape'
  <2>1. /\ buf' \in [Slots -> Metric \cup {Nil}]
        /\ first' \in Slots /\ last' \in Slots /\ size' \in 0 .. Cap
        /\ last' = Slot(size)'
    BY <1>1, <1>2, BufferAssumption DEF Shape, Slot, Slots, next
  <2>2. ASSUME NEW k \in Slots
        PROVE  buf'[k] # Nil <=> Offset(first', k) < size'
    <3>1. Offset(first', k) < size' /\ Offset(first, k) < size
      BY <1>1, <2>1, BufferAssumption DEF Slots, Shape, Offset
    <3>2. buf'[k] # Nil
      BY <1>1, <3>1, BufferAssumption DEF Shape, Metric
    <3> QED BY Zenon, <3>1, <3>2
  <2> QED BY Zenon, <2>1, <2>2 DEF Shape
<1>4. ASSUME NEW i \in 1 .. size
      PROVE  buf'[Slot(i - 1)'] = IF i = size THEN metricsAdded + 1 ELSE buf[Slot(i)]
  <2>1. Slot(i - 1)' = IF i = size THEN last ELSE Slot(i)
    BY <1>1, <1>2, BufferAssumption DEF Shape, Slot, Slots, next
  <2>2. i # size => Slot(i) \in Slots /\ Slot(i) # last
    BY <1>2, BufferAssumption DEF Shape, Slot, Slots
  <2> QED BY Zenon, <1>1, <2>1, <2>2 DEF Shape
<1>5. Contents' = [i \in 1 .. size |->
                     IF i = size THEN metricsAdded + 1 ELSE Contents[i + 1]]
  BY <1>1, <1>4, ContentsType, BufferAssumption DEF Contents, Shape, ContentsOK
<1>6. Append(Tail(Contents), metricsAdded + 1) =
        [i \in 1 .. size |-> IF i = size THEN metricsAdded + 1 ELSE Contents[i + 1]]
  <2>1. Contents \in Seq(Metric) /\ Len(Contents) = size /\ size \in Nat \ {0}
    BY Zenon, ContentsType, BufferAssumption DEF Shape, ContentsOK, Contents
  <2> DEFINE t == Tail(Contents)
  <2>2. /\ t \in Seq(Metric)
        /\ Len(t) = size - 1
        /\ \A i \in 1 .. size - 1 : t[i] = Contents[i + 1]
    BY <2>1
  <2> HIDE DEF t
  <2>3. Append(t, metricsAdded + 1) =
          [i \in 1 .. size |-> IF i = size THEN metricsAdded + 1 ELSE t[i]]
    <3>1. \A s \in Seq(Metric) :
            Append(s, metricsAdded + 1) =
              [i \in 1 .. Len(s) + 1 |->
                 IF i = Len(s) + 1 THEN metricsAdded + 1 ELSE s[i]]
      OBVIOUS
    <3>2. Len(t) + 1 = size
      BY <2>1, <2>2
    <3> QED BY <2>2, <3>1, <3>2, ZenonT(40)
  <2>4. \A i \in 1 .. size : i # size => t[i] = Contents[i + 1]
    BY <2>1, <2>2
  <2> QED BY Zenon, <2>3, <2>4 DEF t
<1>7. buf[last] = Contents[1]
  BY <1>2, ContentsType, BufferAssumption DEF Shape, ContentsOK, Contents
<1> QED
  BY Zenon, <1>3, <1>5, <1>6, <1>7

\* A batch that is not empty is a prefix of the contents.
LEMMA BatchShape ==
  ASSUME Shape, NEW n \in Nat \ {0}, Batch(n), min(size, n) > 0
  PROVE  /\ Shape'
         /\ min(size, n) \in 1 .. size
         /\ batch' = SubSeq(Contents, 1, min(size, n))
         /\ Contents' = SubSeq(Contents, min(size, n) + 1, size)
<1> DEFINE k == min(size, n)
<1>0. k \in 1 .. size
  BY DEF Shape, min
<1> HIDE DEF k
<1>1. /\ batch' = [i \in 1 .. k |-> buf[nextby(first, i - 1)]]
      /\ buf' = [j \in Slots |-> IF Offset(first, j) < k THEN Nil ELSE buf[j]]
      /\ first' = nextby(first, k)
      /\ size' = size - k
      /\ last' = last
  BY <1>0 DEF Batch, k
<1>2. ASSUME NEW i \in 0 .. Cap PROVE nextby(first, i) = Slot(i)
  BY Zenon, WrapUp DEF Shape, nextby, Slot
<1>3. first' = Slot(k) /\ first' \in Slots
  <2>1. k \in 0 .. Cap
    BY <1>0, BufferAssumption DEF Shape
  <2>2. Slot(k) \in Slots
    BY <2>1, BufferAssumption DEF Shape, Slot, Slots
  <2> QED BY Zenon, <1>1, <1>2, <2>1, <2>2
<1>4. Shape'
  <2>1. /\ buf' \in [Slots -> Metric \cup {Nil}]
        /\ last' \in Slots /\ size' \in 0 .. Cap
    BY <1>0, <1>1, BufferAssumption DEF Shape
  <2>2. last' = Slot(size)'
    BY <1>0, <1>1, <1>3, BufferAssumption DEF Shape, Slot, Slots
  <2>3. ASSUME NEW j \in Slots
        PROVE  buf'[j] # Nil <=> Offset(first', j) < size'
    <3>1. Offset(first', j) < size' <=> Offset(first, j) >= k /\ Offset(first, j) < size
      BY <1>0, <1>1, <1>3, BufferAssumption DEF Shape, Slot, Slots, Offset
    <3>2. Offset(first, j) \in Int
      BY BufferAssumption DEF Shape, Slots, Offset
    <3> QED BY <1>0, <1>1, <3>1, <3>2 DEF Shape
  <2> QED BY Zenon, <1>3, <2>1, <2>2, <2>3 DEF Shape
<1>5. batch' = [i \in 1 .. k |-> Contents[i]]
  <2>1. \A i \in 1 .. k : i \in 1 .. size /\ i - 1 \in 0 .. Cap
    BY <1>0, BufferAssumption DEF Shape
  <2>2. \A i \in 1 .. k : Contents[i] = buf[nextby(first, i - 1)]
    BY Zenon, <1>2, <2>1 DEF Contents
  <2> QED BY Zenon, <1>1, <2>2
<1>6. ASSUME NEW i \in 1 .. size - k PROVE buf'[Slot(i - 1)'] = buf[Slot(i + k - 1)]
  <2>1. /\ Slot(i - 1)' = Slot(i + k - 1) /\ Slot(i + k - 1) \in Slots
        /\ Offset(first, Slot(i + k - 1)) = i + k - 1
    BY <1>0, <1>3, BufferAssumption DEF Shape, Slot, Slots, Offset
  <2> QED BY <1>0, <1>1, <2>1
<1>7. Contents' = [i \in 1 .. size - k |-> Contents[i + k]]
  BY SMTT(30), <1>0, <1>1, <1>6, ContentsType, BufferAssumption DEF Contents, Shape, ContentsOK
<1>8. SubSeq(Contents, 1, k) = [i \in 1 .. k |-> Contents[i]]
  BY <1>0, ContentsType DEF Shape, ContentsOK, Contents
<1>9. SubSeq(Contents, k + 1, size) = [i \in 1 .. size - k |-> Contents[i + k]]
  BY <1>0, ContentsType DEF Shape, ContentsOK, Contents
<1> QED
  BY Zenon, <1>0, <1>4, <1>5, <1>7, <1>8, <1>9 DEF k

\* How many metrics of a rejected batch fit, and how many do not.
Restored == min(Len(batch), Cap - size)
Skipped  == Len(batch) - Restored

\* A rejected batch goes back in front, without the metrics that do not fit.
LEMMA RejectShape ==
  ASSUME Shape, batch \in Seq(Metric), Reject
  PROVE  /\ Shape'
         /\ Restored \in 0 .. Len(batch) /\ Skipped \in 0 .. Len(batch)
         /\ size' = size + Restored
         /\ \A i \in 1 .. size' :
              Contents'[i] = IF i <= Restored THEN batch[Skipped + i]
                                              ELSE Contents[i - Restored]
         /\ Contents' = SubSeq(batch, Skipped + 1, Len(batch)) \o Contents
<1>0. /\ Len(batch) \in Nat
      /\ Restored \in 0 .. Len(batch) /\ Skipped \in 0 .. Len(batch)
      /\ Restored \in 0 .. Cap - size
      /\ Len(batch) = Skipped + Restored
  BY BufferAssumption DEF Shape, Restored, Skipped, min
<1>1. /\ first' = prevby(first, Restored)
      /\ size' = size + Restored
      /\ last' = last
      /\ buf' = [j \in Slots |-> IF Offset(first', j) < Restored
                                   THEN batch[Skipped + Offset(first', j) + 1]
                                   ELSE buf[j]]
  BY <1>0, BufferAssumption DEF Reject, Restored, Skipped, Shape, min
<1>2. /\ first' \in Slots
      /\ first' = IF first >= Restored THEN first - Restored ELSE first - Restored + Cap
  <2>1. Restored \in 0 .. Cap
    BY <1>0, BufferAssumption DEF Shape
  <2>2. (first - Restored) % Cap =
          IF first - Restored >= 0 THEN first - Restored ELSE first - Restored + Cap
    BY Zenon, <2>1, WrapDown DEF Shape
  <2> QED BY <1>1, <2>1, <2>2, BufferAssumption DEF Shape, prevby, Slots
<1>3. ASSUME NEW j \in Slots
      PROVE  /\ Offset(first', j) \in 0 .. Cap - 1
             /\ Offset(first', j) >= Restored =>
                  Offset(first, j) = Offset(first', j) - Restored
             /\ Offset(first', j) < Restored => Offset(first, j) >= size
  BY <1>0, <1>2, BufferAssumption DEF Shape, Slots, Offset
<1>4. ASSUME NEW j \in Slots, Offset(first', j) < Restored
      PROVE  buf'[j] = batch[Skipped + Offset(first', j) + 1] /\ buf'[j] \in Metric
  <2>1. Skipped + Offset(first', j) + 1 \in 1 .. Len(batch)
    BY <1>0, <1>3, <1>4
  <2> QED BY <1>1, <1>4, <2>1
<1>5. Shape'
  <2>1. buf' \in [Slots -> Metric \cup {Nil}]
    BY Zenon, <1>1, <1>4 DEF Shape
  <2>2. last' \in Slots /\ size' \in 0 .. Cap /\ last' = Slot(size)'
    BY <1>0, <1>1, <1>2, BufferAssumption DEF Shape, Slot, Slots
  <2>3. ASSUME NEW j \in Slots
        PROVE  buf'[j] # Nil <=> Offset(first', j) < size'
    <3>1. CASE Offset(first', j) < Restored
      <4>1. buf'[j] # Nil
        BY <1>4, <3>1, BufferAssumption DEF Metric
      <4>2. Offset(first', j) < size'
        BY <1>0, <1>1, <1>3, <3>1 DEF Shape
      <4> QED BY Zenon, <4>1, <4>2
    <3>2. CASE Offset(first', j) >= Restored
      BY <1>0, <1>1, <1>3, <3>2, BufferAssumption DEF Shape
    <3> QED BY <1>0, <1>3, <3>1, <3>2, BufferAssumption
  <2> QED BY Zenon, <1>2, <2>1, <2>2, <2>3 DEF Shape
<1>6. ASSUME NEW i \in 1 .. size'
      PROVE  Contents'[i] = IF i <= Restored THEN batch[Skipped + i]
                                             ELSE Contents[i - Restored]
  <2>1. Slot(i - 1)' \in Slots /\ Offset(first', Slot(i - 1)') = i - 1
    BY <1>0, <1>1, <1>2, BufferAssumption DEF Shape, Slot, Slots, Offset
  <2>2. Contents'[i] = buf'[Slot(i - 1)']
    BY Zenon DEF Contents
  <2>3. CASE i <= Restored
    <3>1. Offset(first', Slot(i - 1)') < Restored
      BY <1>0, <1>1, <2>1, <2>3 DEF Shape
    <3>2. Skipped + (i - 1) + 1 = Skipped + i
      BY <1>0
    <3> QED BY Zenon, <1>4, <2>1, <2>2, <2>3, <3>1, <3>2
  <2>4. CASE i > Restored
    <3>1. Slot(i - 1)' = Slot(i - Restored - 1) /\ i - Restored \in 1 .. size
      BY <1>0, <1>1, <1>2, <2>4, BufferAssumption DEF Shape, Slot, Slots
    <3>2. buf'[Slot(i - 1)'] = buf[Slot(i - 1)']
      BY <1>0, <1>1, <2>1, <2>4
    <3> QED BY <1>0, <2>2, <2>4, <3>1, <3>2 DEF Contents
  <2> QED BY <1>0, <1>1, <2>3, <2>4 DEF Shape
<1>7. Contents' = SubSeq(batch, Skipped + 1, Len(batch)) \o Contents
  <2> DEFINE b == SubSeq(batch, Skipped + 1, Len(batch))
  <2>1. /\ b \in Seq(Metric) /\ Len(b) = Restored
        /\ \A i \in 1 .. Restored : b[i] = batch[Skipped + i]
    <3>1. Skipped + 1 \in 1 .. Len(batch) + 1 /\ (Len(batch) - (Skipped + 1)) + 1 = Restored
      BY <1>0
    <3>2. \A i \in 1 .. Restored : (Skipped + 1) + i - 1 = Skipped + i
      BY <1>0
    <3>3. /\ b \in Seq(Metric)
          /\ Len(b) = IF Skipped + 1 <= Len(batch) THEN (Len(batch) - (Skipped + 1)) + 1 ELSE 0
          /\ \A i \in 1 .. (Len(batch) - (Skipped + 1)) + 1 : b[i] = batch[(Skipped + 1) + i - 1]
      BY <1>0, <3>1
    <3>4. Len(b) = Restored
      BY <1>0, <3>1, <3>3
    <3> QED BY Zenon, <3>1, <3>2, <3>3, <3>4
  <2>2. ContentsOK /\ ContentsOK'
    BY Zenon, <1>5, ContentsType, ContentsTypeNext
  <2> HIDE DEF b
  <2>3. /\ b \o Contents \in Seq(Metric)
        /\ Len(b \o Contents) = Restored + size
        /\ \A i \in 1 .. Restored + size :
             (b \o Contents)[i] = IF i <= Restored THEN b[i] ELSE Contents[i - Restored]
    BY <2>1, <2>2, ConcatProperties, ZenonT(40) DEF ContentsOK
  <2>4. Len(Contents') = Len(b \o Contents)
    BY <1>0, <1>1, <2>2, <2>3 DEF Shape, ContentsOK
  <2>5. ASSUME NEW i \in 1 .. Len(Contents') PROVE Contents'[i] = (b \o Contents)[i]
    BY <1>0, <1>1, <1>6, <2>1, <2>2, <2>3 DEF ContentsOK, Shape
  <2>6. Contents' \in Seq(Metric) /\ b \o Contents \in Seq(Metric)
    BY Zenon, <2>2, <2>3 DEF ContentsOK
  <2> QED BY <2>4, <2>5, <2>6, SeqEqual, Zenon DEF b
<1> QED
  BY Zenon, <1>0, <1>1, <1>5, <1>6, <1>7

-----------------------------------------------------------------------------
(* The inductive invariant. *)

\* The count of the metrics of the batch that were not overwritten is wrong only
\* while the buffer is full; nothing held is newer than the newest metric added.
Bookkeeping ==
  /\ batchSize <= Len(batch)
  /\ size < Cap => batchSize = Len(batch)
  /\ Held \subseteq 1 .. metricsAdded

BufferInv ==
  /\ BufferTypeOK
  /\ Shape
  /\ OldestFirst
  /\ Bookkeeping
  /\ AnsweredOnce
  /\ StatisticsAgree

\* NewBuffer makes an empty ring that satisfies the invariant.
LEMMA BufferInitInv == BufferInit => BufferInv
<1> SUFFICES ASSUME BufferInit PROVE BufferInv
  OBVIOUS
<1>1. BufferTypeOK
  BY BufferAssumption DEF BufferInit, BufferTypeOK, Slots, Metric
<1>2. Shape
  BY BufferAssumption DEF BufferInit, Shape, Slots, Slot, Offset
<1>3. Held = {} /\ Len(batch) = 0
  BY DEF BufferInit, Held, Elements, Contents
<1>4. OldestFirst
  BY DEF BufferInit, OldestFirst
<1>5. Bookkeeping
  BY <1>3 DEF BufferInit, Bookkeeping
<1>6. AnsweredOnce
  BY <1>3 DEF BufferInit, AnsweredOnce, Metric
<1>7. StatisticsAgree
  BY <1>3, BufferAssumption DEF BufferInit, StatisticsAgree, min
<1> QED
  BY Zenon, <1>1, <1>2, <1>4, <1>5, <1>6, <1>7 DEF BufferInv

\* An operation that answers once each metric that leaves, and no other, keeps
\* the books of the answers.
LEMMA AnswerLeavers ==
  ASSUME BufferTypeOK, AnsweredOnce, Held \subseteq 1 .. metricsAdded,
         NEW Gone, Gone \subseteq Held,
         metricsAdded' \in {metricsAdded, metricsAdded + 1},
         Held' = (Held \ Gone) \cup (metricsAdded + 1 .. metricsAdded'),
         \A m \in Metric : accepted'[m] + rejected'[m] =
            accepted[m] + rejected[m] + (IF m \in Gone THEN 1 ELSE 0)
  PROVE  AnsweredOnce'
<1> SUFFICES ASSUME NEW m \in Metric
             PROVE  accepted'[m] + rejected'[m] =
                      IF m <= metricsAdded' /\ m \notin Held' THEN 1 ELSE 0
  BY Zenon DEF AnsweredOnce
<1>1. accepted[m] + rejected[m] = IF m <= metricsAdded /\ m \notin Held THEN 1 ELSE 0
  BY Zenon DEF AnsweredOnce
<1>2. m \in Nat /\ metricsAdded \in Nat
  BY DEF BufferTypeOK, Metric
<1>3. m \in Held => m <= metricsAdded
  BY <1>2
<1>4. m \in Held' <=> (m \in Held /\ m \notin Gone)
                        \/ (m >= metricsAdded + 1 /\ m <= metricsAdded')
  BY <1>2
<1>5. m \in Gone => m \in Held
  OBVIOUS
<1> QED
  BY <1>1, <1>2, <1>3, <1>4, <1>5

\* The sum of calls when Call is applied to one of the two counters.
LEMMA CallCounts ==
  ASSUME NEW f \in [Metric -> Nat], NEW S, NEW m \in Metric
  PROVE  Call(f, S)[m] = f[m] + (IF m \in S THEN 1 ELSE 0)
  BY DEF Call

\* Calling Accept() or Reject() on some metrics counts the calls in Nat.
LEMMA CallType ==
  ASSUME NEW f \in [Metric -> Nat], NEW S
  PROVE  Call(f, S) \in [Metric -> Nat]
  BY DEF Call

\* add, for each metric of a call of Add, preserves the invariant: into a free
\* slot, or over the oldest metric of a full buffer.
LEMMA AddInv ==
  ASSUME BufferInv, add, NEW r \in Nat, Release(r),
         metricsAdded + 1 + r <= MaxMetrics
  PROVE  BufferInv'
<1> DEFINE m == metricsAdded + 1
<1>1. /\ BufferTypeOK /\ Shape /\ OldestFirst /\ Bookkeeping
      /\ AnsweredOnce /\ StatisticsAgree /\ ContentsOK
  BY Zenon, ContentsType DEF BufferInv
<1>2. m \in Metric /\ m \in Nat
  BY <1>1, BufferAssumption DEF BufferTypeOK, Metric
<1>3. Shape'
  BY Zenon, <1>1, <1>2, AddRoom, AddFull
<1>4. ContentsOK'
  BY Zenon, <1>3, ContentsTypeNext
<1>5. /\ size \in 0 .. Cap /\ Cap \in Nat \ {0}
      /\ size' = IF size = Cap THEN Cap ELSE size + 1
      /\ metricsAdded' = m
      /\ batch' = batch /\ accepted' = accepted
      /\ metricsWritten' = metricsWritten
  BY <1>1, BufferAssumption DEF add, min, Shape
<1>6. /\ Len(batch) \in Nat /\ batchSize \in Nat
      /\ metricsAdded \in Nat /\ metricsWritten \in Nat /\ metricsDropped \in Nat
      /\ accepted \in [Metric -> Nat] /\ rejected \in [Metric -> Nat]
  BY <1>1 DEF BufferTypeOK
<1>7. /\ batchSize' = IF size = Cap /\ batchSize > 0 THEN batchSize - 1 ELSE batchSize
      /\ batchSize' \in Nat
  BY <1>6 DEF add
<1>8. BufferTypeOK'
  <2>1. rejected' \in [Metric -> Nat] /\ metricsDropped' \in Nat
    <3>1. CASE size = Cap
      <4>1. rejected' = Call(rejected, {buf[last]}) /\ metricsDropped' = metricsDropped + 1
        BY Zenon, <3>1 DEF add
      <4> QED BY <1>6, <4>1, CallType
    <3>2. CASE size # Cap
      BY Zenon, <1>6, <3>2 DEF add
    <3> QED BY Zenon, <3>1, <3>2
  <2>2. batchFirst' \in Slots
    BY <1>1, BufferAssumption DEF add, BufferTypeOK, Slots, next
  <2>3. length' \in Nat
    BY <1>5, <1>7 DEF length, min
  <2>4. bufferSize' \in Nat /\ adding' = r
    BY Zenon, <1>1, <2>3 DEF Release, BufferTypeOK
  <2>5. batch' \in Seq(Metric) /\ metricsAdded' \in Nat /\ metricsWritten' \in Nat
        /\ accepted' \in [Metric -> Nat] /\ metricsAdded' + r <= MaxMetrics
    BY Zenon, <1>1, <1>2, <1>5 DEF BufferTypeOK
  <2> QED
    BY Zenon, <1>3, <1>7, <2>1, <2>2, <2>4, <2>5 DEF BufferTypeOK, Shape
<1>9. StatisticsAgree'
  <2>1. metricsDropped' = IF size = Cap THEN metricsDropped + 1 ELSE metricsDropped
    BY Zenon DEF add
  <2>2. metricsAdded' = metricsWritten' + metricsDropped' + size' + Len(batch')
    <3>1. metricsAdded = metricsWritten + metricsDropped + size + Len(batch)
      BY Zenon, <1>1 DEF StatisticsAgree
    <3> QED BY <1>5, <1>6, <2>1, <3>1
  <2>3. length' = min(size' + Len(batch'), Cap)
    BY <1>1, <1>5, <1>6, <1>7 DEF length, min, Bookkeeping
  <2>4. adding' = 0 => bufferSize' = length'
    BY Zenon DEF Release
  <2> QED
    BY Zenon, <2>2, <2>3, <2>4 DEF StatisticsAgree, Unlocked
<1>10. ASSUME size # Cap
       PROVE  OldestFirst' /\ Bookkeeping' /\ AnsweredOnce'
  <2>1. /\ Contents' = Append(Contents, m)
        /\ rejected' = rejected /\ size' = size + 1
    BY Zenon, <1>1, <1>2, <1>5, <1>10, AddRoom DEF add
  <2>2. \A i \in 1 .. size' : Contents'[i] = IF i = size + 1 THEN m ELSE Contents[i]
    BY <1>1, <1>5, <2>1 DEF ContentsOK
  <2>3. \A i \in 1 .. size : Contents[i] \in Held
    BY Zenon, <1>1 DEF Held, Elements, ContentsOK
  <2>4. \A i \in 1 .. Len(batch) : batch[i] \in Held
    BY Zenon DEF Held, Elements
  <2>5. /\ Held \subseteq 1 .. metricsAdded
        /\ \A x \in Held : x \in Nat /\ x < m
    BY <1>1, <1>6 DEF Bookkeeping
  <2>6. Held' = Held \cup {m}
    <3>1. Elements(Contents') = Elements(Contents) \cup {m}
      <4>1. Len(Contents') = size + 1 /\ Len(Contents) = size
        BY Zenon, <1>1, <1>4, <2>1 DEF ContentsOK
      <4> QED BY <1>5, <2>1, <2>2, <4>1 DEF Elements
    <3> QED BY Zenon, <1>5, <3>1 DEF Held, Elements
  <2>7. OldestFirst'
    <3>1. /\ \A i \in 1 .. size : Contents[i] \in Nat /\ Contents[i] < m
          /\ \A i \in 1 .. Len(batch) : batch[i] \in Nat /\ batch[i] < m
      BY Zenon, <2>3, <2>4, <2>5
    <3>2. /\ \A i, j \in 1 .. size : i < j => Contents[i] < Contents[j]
          /\ \A i, j \in 1 .. Len(batch) : i < j => batch[i] < batch[j]
          /\ \A i \in 1 .. Len(batch), j \in 1 .. size : batch[i] < Contents[j]
      BY Zenon, <1>1 DEF OldestFirst
    <3>3. \A i, j \in 1 .. size' : i < j => Contents'[i] < Contents'[j]
      BY <1>5, <2>1, <2>2, <3>1, <3>2
    <3>4. \A i \in 1 .. Len(batch), j \in 1 .. size' : batch[i] < Contents'[j]
      BY <1>5, <1>6, <2>1, <2>2, <3>1, <3>2
    <3> QED BY Zenon, <1>5, <3>2, <3>3, <3>4 DEF OldestFirst
  <2>8. Bookkeeping'
    <3>1. Held' \subseteq 1 .. metricsAdded'
      BY <1>5, <1>6, <2>5, <2>6
    <3> QED BY <1>1, <1>5, <1>6, <1>7, <1>10, <3>1 DEF Bookkeeping
  <2>9. AnsweredOnce'
    <3>1. m .. m = {m}
      BY <1>2
    <3>2. Held' = (Held \ {}) \cup (metricsAdded + 1 .. metricsAdded')
      BY Zenon, <1>5, <2>6, <3>1
    <3>3. \A x \in Metric : accepted'[x] + rejected'[x] =
             accepted[x] + rejected[x] + (IF x \in {} THEN 1 ELSE 0)
      BY <1>5, <1>6, <2>1
    <3>4. metricsAdded' \in {metricsAdded, metricsAdded + 1} /\ {} \subseteq Held
      BY Zenon, <1>5
    <3> DEFINE Gone == {}
    <3> HIDE DEF Gone
    <3>5. /\ Gone \subseteq Held
          /\ Held' = (Held \ Gone) \cup (metricsAdded + 1 .. metricsAdded')
          /\ \A x \in Metric : accepted'[x] + rejected'[x] =
               accepted[x] + rejected[x] + (IF x \in Gone THEN 1 ELSE 0)
      BY Zenon, <3>2, <3>3, <3>4 DEF Gone
    <3> QED BY Zenon, <1>1, <2>5, <3>4, <3>5, AnswerLeavers
  <2> QED BY Zenon, <2>7, <2>8, <2>9
<1>11. ASSUME size = Cap
       PROVE  OldestFirst' /\ Bookkeeping' /\ AnsweredOnce'
  <2>0. /\ size \in Nat \ {0} /\ size' = size /\ 1 \in 1 .. size
        /\ Len(batch) \in Nat /\ batch' = batch
    BY <1>5, <1>6, <1>11
  <2>1. /\ Contents' = Append(Tail(Contents), m)
        /\ rejected' = Call(rejected, {Contents[1]}) /\ size' = size
    BY Zenon, <1>1, <1>2, <1>5, <1>11, AddFull DEF add
  <2>2. \A i \in 1 .. size : Contents'[i] = IF i = size THEN m ELSE Contents[i + 1]
    BY <1>1, <1>5, <1>11, <2>1 DEF ContentsOK
  <2>3. \A i \in 1 .. size : Contents[i] \in Held
    BY <1>1 DEF Held, Elements, ContentsOK
  <2>4. \A i \in 1 .. Len(batch) : batch[i] \in Held
    BY DEF Held, Elements
  <2>5. /\ Held \subseteq 1 .. metricsAdded
        /\ \A x \in Held : x \in Nat /\ x < m
    BY <1>1, <1>6 DEF Bookkeeping
  <2>6. Held' = (Held \ {Contents[1]}) \cup {m}
    <3>1. Elements(Contents') = (Elements(Contents) \ {Contents[1]}) \cup {m}
      <4>1. Len(Contents') = size /\ Len(Contents) = size
        BY Zenon, <1>1, <1>4, <2>1 DEF ContentsOK
      <4>2. \A i \in 1 .. size : i # 1 => Contents[i] # Contents[1]
        <5>1. \A i \in 1 .. size : 1 \in 1 .. size /\ Contents[i] \in Nat
          BY Zenon, <2>0, <2>3, <2>5
        <5>2. \A i, j \in 1 .. size : i < j => Contents[i] < Contents[j]
          BY Zenon, <1>1 DEF OldestFirst
        <5> QED BY <5>1, <5>2
      <4>3. \A i \in 1 .. size : i # size => i + 1 \in 1 .. size /\ i + 1 # 1
        BY <1>5
      <4>4. \A i \in 1 .. size : i # 1 => i - 1 \in 1 .. size /\ i - 1 # size /\ (i - 1) + 1 = i
        BY <1>5
      <4>5. size \in 1 .. size
        BY <1>5, <1>11
      <4>6. ASSUME NEW x \in Elements(Contents')
            PROVE  x \in (Elements(Contents) \ {Contents[1]}) \cup {m}
        BY <2>2, <4>1, <4>2, <4>3 DEF Elements
      <4>7. ASSUME NEW x \in (Elements(Contents) \ {Contents[1]}) \cup {m}
            PROVE  x \in Elements(Contents')
        <5>1. \A i \in 1 .. size : Contents'[i] \in Elements(Contents')
          BY Zenon, <4>1 DEF Elements
        <5>2. CASE x = m
          BY Zenon, <2>2, <4>5, <5>1, <5>2
        <5>3. CASE x # m
          <6>1. PICK i \in 1 .. size : x = Contents[i] /\ i # 1
            BY Zenon, <4>1, <4>7, <5>3 DEF Elements
          <6>2. i - 1 \in 1 .. size /\ i - 1 # size /\ (i - 1) + 1 = i
            BY Zenon, <4>4, <6>1
          <6>3. Contents'[i - 1] = Contents[i]
            BY Zenon, <2>2, <6>2
          <6> QED BY Zenon, <5>1, <6>1, <6>2, <6>3
        <5> QED BY Zenon, <5>2, <5>3
      <4> QED BY Zenon, <4>6, <4>7
    <3>2. \A i \in 1 .. Len(batch) : batch[i] # Contents[1]
      <4>1. 1 \in 1 .. size /\ Contents[1] \in Nat /\ \A i \in 1 .. Len(batch) : batch[i] \in Nat
        BY Zenon, <2>0, <2>3, <2>4, <2>5
      <4>2. \A i \in 1 .. Len(batch) : batch[i] < Contents[1]
        BY Zenon, <1>1, <4>1 DEF OldestFirst
      <4> QED BY <4>1, <4>2
    <3> QED BY Zenon, <1>5, <3>1, <3>2 DEF Held, Elements
  <2>7. OldestFirst'
    <3>1. /\ \A i \in 1 .. size : Contents[i] \in Nat /\ Contents[i] < m
          /\ \A i \in 1 .. Len(batch) : batch[i] \in Nat /\ batch[i] < m
      BY Zenon, <2>3, <2>4, <2>5
    <3>2. /\ \A i, j \in 1 .. size : i < j => Contents[i] < Contents[j]
          /\ \A i, j \in 1 .. Len(batch) : i < j => batch[i] < batch[j]
          /\ \A i \in 1 .. Len(batch), j \in 1 .. size : batch[i] < Contents[j]
      BY <1>1 DEF OldestFirst
    <3>3. \A i, j \in 1 .. size' : i < j => Contents'[i] < Contents'[j]
      BY SMTT(30), <2>0, <2>2, <3>1, <3>2
    <3>4. \A i \in 1 .. Len(batch), j \in 1 .. size' : batch[i] < Contents'[j]
      BY <2>0, <2>2, <3>1, <3>2
    <3> QED BY Zenon, <2>0, <3>2, <3>3, <3>4 DEF OldestFirst
  <2>8. Bookkeeping'
    <3>1. Held' \subseteq 1 .. metricsAdded'
      <4>1. metricsAdded' = m
        BY Zenon, <1>5
      <4>2. Held' \subseteq Held \cup {m}
        BY Zenon, <2>6
      <4> QED BY <1>6, <2>5, <4>1, <4>2
    <3> QED BY <1>1, <1>5, <1>6, <1>7, <1>11, <3>1 DEF Bookkeeping
  <2>9. AnsweredOnce'
    <3>1. m .. m = {m}
      BY <1>2
    <3>2. Held' = (Held \ {Contents[1]}) \cup (metricsAdded + 1 .. metricsAdded')
      BY Zenon, <1>5, <2>6, <3>1
    <3>3. \A x \in Metric : accepted'[x] + rejected'[x] =
             accepted[x] + rejected[x] + (IF x \in {Contents[1]} THEN 1 ELSE 0)
      BY SMTT(30), <1>5, <1>6, <2>1, CallCounts
    <3>4. {Contents[1]} \subseteq Held
      BY <1>5, <1>11, <2>3
    <3> QED BY Zenon, <1>1, <1>5, <2>5, <3>2, <3>3, <3>4, AnswerLeavers
  <2> QED BY <2>7, <2>8, <2>9
<1> QED
  BY Zenon, <1>3, <1>8, <1>9, <1>10, <1>11 DEF BufferInv

\* Batch takes the oldest metrics out of the ring and preserves the invariant.
LEMMA BatchInv ==
  ASSUME BufferInv, NEW n \in Nat \ {0}, Batch(n)
  PROVE  BufferInv'
<1> DEFINE k == min(size, n)
<1>1. /\ BufferTypeOK /\ Shape /\ OldestFirst /\ Bookkeeping
      /\ AnsweredOnce /\ StatisticsAgree /\ ContentsOK
  BY Zenon, ContentsType DEF BufferInv
<1>2. /\ adding' = adding /\ batch = << >>
      /\ metricsAdded' = metricsAdded /\ metricsWritten' = metricsWritten
      /\ metricsDropped' = metricsDropped /\ bufferSize' = bufferSize
      /\ accepted' = accepted /\ rejected' = rejected
  BY Zenon DEF Batch, stats, fates
<1>3. CASE k = 0
  <2>1. /\ buf' = buf /\ first' = first /\ last' = last /\ size' = size
        /\ batchFirst' = batchFirst /\ batchSize' = batchSize /\ batch' = batch
    BY <1>3 DEF Batch, ring
  <2>2. Contents' = Contents
    BY Zenon, <2>1 DEF Contents, Slot
  <2>3. Held' = Held
    BY Zenon, <2>1, <2>2 DEF Held, Elements
  <2>4. Shape'
    BY Zenon, <1>1, <2>1 DEF Shape, Slot
  <2> QED
    BY Zenon, <1>1, <1>2, <2>1, <2>2, <2>3, <2>4
    DEF BufferInv, BufferTypeOK, OldestFirst, Bookkeeping, AnsweredOnce,
        StatisticsAgree, Unlocked
<1>4. CASE k # 0
  <2>1. size \in Nat /\ Cap \in Nat \ {0} /\ size <= Cap /\ k > 0
    BY <1>1, <1>4, BufferAssumption DEF Shape, min
  <2>2. /\ Shape' /\ k \in 1 .. size
        /\ batch' = SubSeq(Contents, 1, k)
        /\ Contents' = SubSeq(Contents, k + 1, size)
    BY Zenon, <1>1, <2>1, BatchShape
  <2>3. size' = size - k /\ batchSize' = k /\ batchFirst' = first
    BY <2>1 DEF Batch
  <2> HIDE DEF k
  <2>4. ContentsOK'
    BY Zenon, <2>2, ContentsTypeNext
  <2>5. /\ batch' \in Seq(Metric) /\ Len(batch') = k
        /\ \A i \in 1 .. k : batch'[i] = Contents[i]
    BY <1>1, <2>2 DEF ContentsOK
  <2>6. \A i \in 1 .. size' : Contents'[i] = Contents[i + k]
    BY <1>1, <2>1, <2>2, <2>3 DEF ContentsOK
  <2>7. BufferTypeOK'
    BY <1>1, <1>2, <2>1, <2>2, <2>3, <2>5 DEF BufferTypeOK, Shape
  <2>8. OldestFirst'
    <3>1. \A i, j \in 1 .. size : i < j => Contents[i] < Contents[j]
      BY Zenon, <1>1 DEF OldestFirst
    <3>2. \A i, j \in 1 .. size' : i < j => Contents'[i] < Contents'[j]
      BY <2>1, <2>2, <2>3, <2>6, <3>1
    <3>3. \A i, j \in 1 .. Len(batch') : i < j => batch'[i] < batch'[j]
      BY <2>1, <2>2, <2>5, <3>1
    <3>4. ASSUME NEW i \in 1 .. Len(batch'), NEW j \in 1 .. size'
          PROVE  batch'[i] < Contents'[j]
      <4>1. i \in 1 .. size /\ j + k \in 1 .. size /\ i < j + k /\ i \in 1 .. k
        BY <2>1, <2>2, <2>3, <2>5
      <4> QED BY Zenon, <2>5, <2>6, <3>1, <4>1
    <3> QED BY Zenon, <3>2, <3>3, <3>4 DEF OldestFirst
  <2>9. Held' = Held
    <3>1. /\ Len(Contents') = size' /\ Len(Contents) = size
          /\ Elements(batch) = {}
      BY <1>1, <1>2, <2>4 DEF ContentsOK, Elements
    <3>2. ASSUME NEW x \in Held' PROVE x \in Held
      <4>1. CASE \E i \in 1 .. size' : x = Contents'[i]
        <5>1. PICK i \in 1 .. size' : x = Contents'[i]
          BY Zenon, <4>1
        <5>2. i + k \in 1 .. size
          BY <2>1, <2>2, <2>3
        <5> QED BY Zenon, <2>6, <3>1, <5>1, <5>2 DEF Held, Elements
      <4>2. CASE \E i \in 1 .. k : x = batch'[i]
        <5>1. PICK i \in 1 .. k : x = batch'[i]
          BY Zenon, <4>2
        <5>2. i \in 1 .. size
          BY <2>1, <2>2
        <5> QED BY Zenon, <2>5, <3>1, <5>1, <5>2 DEF Held, Elements
      <4> QED BY Zenon, <2>5, <3>1, <4>1, <4>2 DEF Held, Elements
    <3>3. ASSUME NEW x \in Held PROVE x \in Held'
      <4>1. PICK i \in 1 .. size : x = Contents[i]
        BY Zenon, <3>1 DEF Held, Elements
      <4>2. CASE i <= k
        <5>1. i \in 1 .. k
          BY <2>1, <2>2, <4>2
        <5> QED BY Zenon, <2>5, <4>1, <5>1 DEF Held, Elements
      <4>3. CASE i > k
        <5>1. i - k \in 1 .. size' /\ (i - k) + k = i
          BY <2>1, <2>2, <2>3, <4>3
        <5> QED BY Zenon, <2>6, <3>1, <4>1, <5>1 DEF Held, Elements
      <4> QED BY <2>1, <2>2, <4>2, <4>3
    <3> QED BY Zenon, <3>2, <3>3
  <2>10. Bookkeeping'
    BY <1>1, <1>2, <2>1, <2>3, <2>2, <2>5, <2>9 DEF Bookkeeping
  <2>11. AnsweredOnce'
    BY Zenon, <1>1, <1>2, <2>9 DEF AnsweredOnce
  <2>12. StatisticsAgree'
    <3>1. size' + Len(batch') = size + Len(batch)
      BY <1>2, <2>1, <2>2, <2>3, <2>5
    <3> QED
      BY <1>1, <1>2, <2>1, <2>2, <2>3, <2>5, <3>1
      DEF StatisticsAgree, Unlocked, BufferTypeOK
  <2> QED BY Zenon, <2>2, <2>7, <2>8, <2>10, <2>11, <2>12 DEF BufferInv
<1> QED BY Zenon, <1>3, <1>4

\* Accept answers the batch and preserves the invariant.
LEMMA AcceptInv ==
  ASSUME BufferInv, Accept
  PROVE  BufferInv'
<1>1. /\ BufferTypeOK /\ Shape /\ OldestFirst /\ Bookkeeping
      /\ AnsweredOnce /\ StatisticsAgree /\ ContentsOK
  BY Zenon, ContentsType DEF BufferInv
<1>2. /\ buf' = buf /\ first' = first /\ last' = last /\ size' = size
      /\ batchFirst' = 0 /\ batchSize' = 0 /\ batch' = << >>
      /\ adding' = adding /\ metricsAdded' = metricsAdded
      /\ metricsDropped' = metricsDropped /\ rejected' = rejected
      /\ metricsWritten' = metricsWritten + Len(batch)
      /\ accepted' = Call(accepted, Elements(batch))
      /\ bufferSize' = length'
  BY Zenon DEF Accept, resetBatch
<1>3. Contents' = Contents
  BY Zenon, <1>2 DEF Contents, Slot
<1>4. Shape'
  BY Zenon, <1>1, <1>2 DEF Shape, Slot
<1>5. size \in Nat /\ Cap \in Nat \ {0} /\ size <= Cap /\ Len(batch) \in Nat /\ length' = size
  BY <1>1, <1>2, BufferAssumption DEF Shape, BufferTypeOK, length, min
<1>6. BufferTypeOK'
  <2>1. accepted' \in [Metric -> Nat]
    BY Zenon, <1>1, <1>2, CallType DEF BufferTypeOK
  <2>2. batchFirst' \in Slots /\ batchSize' \in Nat /\ batch' \in Seq(Metric)
    BY <1>2, <1>5 DEF Slots
  <2>3. metricsWritten' \in Nat /\ bufferSize' \in Nat
    BY <1>1, <1>2, <1>5 DEF BufferTypeOK
  <2> QED BY Zenon, <1>1, <1>2, <2>1, <2>2, <2>3 DEF BufferTypeOK
<1>7. Elements(batch') = {} /\ Len(batch') = 0
  BY <1>2 DEF Elements
<1>8. OldestFirst'
  BY <1>1, <1>2, <1>3, <1>7 DEF OldestFirst
<1>9. Held' = Held \ Elements(batch)
  <2>1. Elements(Contents) \cap Elements(batch) = {}
    <3>1. ASSUME NEW i \in 1 .. Len(batch), NEW j \in 1 .. size
          PROVE  batch[i] # Contents[j]
      <4>1. batch[i] \in Metric /\ Contents[j] \in Metric
        BY SMTT(30), <1>1 DEF BufferTypeOK, ContentsOK
      <4>2. batch[i] < Contents[j]
        BY Zenon, <1>1 DEF OldestFirst
      <4> QED BY <4>1, <4>2 DEF Metric
    <3> QED BY Zenon, <1>1, <3>1 DEF Elements, ContentsOK
  <2>2. Held' = Elements(Contents)
    <3>1. Elements(Contents)' = Elements(Contents)
      BY Zenon, <1>3 DEF Elements
    <3>2. Elements(batch)' = {}
      BY <1>2 DEF Elements
    <3> QED BY Zenon, <3>1, <3>2 DEF Held
  <2> QED BY Zenon, <2>1, <2>2 DEF Held
<1>10. Bookkeeping'
  <2>1. Held' \subseteq 1 .. metricsAdded'
    BY Zenon, <1>1, <1>2, <1>9 DEF Bookkeeping
  <2> QED BY <1>2, <1>7, <2>1 DEF Bookkeeping
<1>11. AnsweredOnce'
  <2> DEFINE Gone == Elements(batch)
  <2>1. Gone \subseteq Held
    BY Zenon DEF Held
  <2>2. metricsAdded + 1 .. metricsAdded' = {} /\ metricsAdded' \in {metricsAdded, metricsAdded + 1}
    BY <1>1, <1>2 DEF BufferTypeOK
  <2>3. Held' = (Held \ Gone) \cup (metricsAdded + 1 .. metricsAdded')
    BY Zenon, <1>9, <2>2
  <2> HIDE DEF Gone
  <2>4. \A x \in Metric : accepted'[x] + rejected'[x] =
          accepted[x] + rejected[x] + (IF x \in Gone THEN 1 ELSE 0)
    <3> SUFFICES ASSUME NEW x \in Metric
                 PROVE  accepted'[x] + rejected'[x] =
                          accepted[x] + rejected[x] + (IF x \in Gone THEN 1 ELSE 0)
      OBVIOUS
    <3>1. /\ accepted \in [Metric -> Nat] /\ accepted[x] \in Nat /\ rejected[x] \in Nat
          /\ rejected'[x] = rejected[x]
      BY Zenon, <1>1, <1>2 DEF BufferTypeOK
    <3>2. accepted'[x] = accepted[x] + (IF x \in Gone THEN 1 ELSE 0)
      BY <1>2, <3>1, CallCounts DEF Gone
    <3> QED BY <3>1, <3>2
  <2>5. Held \subseteq 1 .. metricsAdded
    BY Zenon, <1>1 DEF Bookkeeping
  <2> QED BY Zenon, <1>1, <2>1, <2>2, <2>3, <2>4, <2>5, AnswerLeavers
<1>12. StatisticsAgree'
  <2>1. metricsAdded' = metricsWritten' + metricsDropped' + size' + Len(batch')
    BY <1>1, <1>2, <1>5, <1>7 DEF StatisticsAgree, BufferTypeOK
  <2>2. bufferSize' = min(size' + Len(batch'), Cap)
    BY <1>2, <1>5, <1>7 DEF min
  <2> QED BY Zenon, <2>1, <2>2 DEF StatisticsAgree
<1> QED
  BY Zenon, <1>4, <1>6, <1>8, <1>10, <1>11, <1>12 DEF BufferInv

\* Reject puts the newest metrics of the batch that fit back in front, drops the
\* others, and preserves the invariant.
LEMMA RejectInv ==
  ASSUME BufferInv, Reject
  PROVE  BufferInv'
<1> DEFINE r == Restored
           k == Skipped
           Gone == {batch[i] : i \in 1 .. k}
<1>1. /\ BufferTypeOK /\ Shape /\ OldestFirst /\ Bookkeeping
      /\ AnsweredOnce /\ StatisticsAgree /\ ContentsOK
  BY ContentsType DEF BufferInv
<1>2. /\ Cap \in Nat \ {0} /\ size \in Nat /\ size <= Cap
      /\ batch \in Seq(Metric) /\ Len(batch) \in Nat /\ Len(Contents) = size
  BY <1>1, BufferAssumption DEF BufferTypeOK, ContentsOK
<1>3. /\ Shape' /\ r \in 0 .. Len(batch) /\ k \in 0 .. Len(batch)
      /\ r + k = Len(batch) /\ size' = size + r
      /\ \A i \in 1 .. size' :
           Contents'[i] = IF i <= r THEN batch[k + i] ELSE Contents[i - r]
  BY <1>1, <1>2, RejectShape DEF Skipped
<1>4. size + r = min(size + Len(batch), Cap)
  BY <1>2 DEF Restored, min
<1>5. /\ batchFirst' = 0 /\ batchSize' = 0 /\ batch' = << >>
      /\ adding' = adding /\ metricsAdded' = metricsAdded
      /\ metricsWritten' = metricsWritten /\ accepted' = accepted
      /\ metricsDropped' = metricsDropped + k
      /\ rejected' = Call(rejected, Gone)
      /\ bufferSize' = length'
  BY Zenon DEF Reject, resetBatch, Restored, Skipped
<1>6. ContentsOK' /\ Len(Contents') = size' /\ size' \in Nat /\ size' <= Cap
  BY <1>2, <1>3, ContentsTypeNext DEF ContentsOK, Shape
<1> HIDE DEF r, k, Gone
<1>7. Elements(batch)' = {} /\ Len(batch') = 0
  BY <1>5 DEF Elements
<1>8. length' = size'
  <2>1. Cap \in Nat /\ size' \in Nat /\ size' <= Cap /\ batchSize' = 0
    BY Zenon, <1>2, <1>5, <1>6
  <2>2. length' = IF Cap < size' + batchSize' THEN Cap ELSE size' + batchSize'
    BY Zenon DEF length, min
  <2>3. \A x, y \in Nat : x <= y => x + 0 = x /\ ~(y < x)
    OBVIOUS
  <2> QED BY <2>1, <2>2, <2>3, Zenon
<1>9. BufferTypeOK'
  <2>1. rejected' \in [Metric -> Nat]
    BY Zenon, <1>1, <1>5, CallType DEF BufferTypeOK
  <2>2. batchFirst' \in Slots /\ batchSize' \in Nat /\ batch' \in Seq(Metric)
    BY <1>2, <1>5 DEF Slots
  <2>3. metricsDropped' \in Nat /\ bufferSize' \in Nat
    BY <1>1, <1>3, <1>5, <1>6, <1>8 DEF BufferTypeOK
  <2> QED BY Zenon, <1>1, <1>3, <1>5, <2>1, <2>2, <2>3 DEF BufferTypeOK, Shape
<1>10. /\ \A i, j \in 1 .. size : i < j => Contents[i] < Contents[j]
       /\ \A i, j \in 1 .. Len(batch) : i < j => batch[i] < batch[j]
       /\ \A i \in 1 .. Len(batch), j \in 1 .. size : batch[i] < Contents[j]
  BY Zenon, <1>1 DEF OldestFirst
<1>11. ASSUME NEW i \in 1 .. size'
       PROVE  \/ i <= r /\ k + i \in 1 .. Len(batch) /\ Contents'[i] = batch[k + i]
              \/ i > r /\ i - r \in 1 .. size /\ Contents'[i] = Contents[i - r]
  <2>1. i \in Nat /\ r \in Nat /\ k \in Nat
    BY <1>2, <1>3, <1>6
  <2>2. CASE i <= r
    BY SMTT(30), <1>2, <1>3, <2>1, <2>2
  <2>3. CASE i > r
    BY <1>2, <1>3, <2>1, <2>3
  <2> QED BY <2>1, <2>2, <2>3
<1>12. OldestFirst'
  <2>1. ASSUME NEW i \in 1 .. size', NEW j \in 1 .. size', i < j
        PROVE  Contents'[i] < Contents'[j]
    <3>1. CASE j <= r
      <4>1. Contents'[i] = batch[k + i] /\ Contents'[j] = batch[k + j]
        BY <1>2, <1>3, <1>11, <2>1, <3>1
      <4>2. k + i \in 1 .. Len(batch) /\ k + j \in 1 .. Len(batch) /\ k + i < k + j
        BY <1>2, <1>3, <2>1, <3>1
      <4> QED BY Zenon, <1>10, <4>1, <4>2
    <3>2. CASE i <= r /\ j > r
      BY <1>2, <1>3, <1>10, <1>11, <3>2
    <3>3. CASE i > r
      <4>1. Contents'[i] = Contents[i - r] /\ Contents'[j] = Contents[j - r]
        BY <1>2, <1>3, <1>11, <2>1, <3>3
      <4>2. i - r \in 1 .. size /\ j - r \in 1 .. size /\ i - r < j - r
        BY <1>2, <1>3, <2>1, <3>3
      <4> QED BY Zenon, <1>10, <4>1, <4>2
    <3> QED BY <1>3, <3>1, <3>2, <3>3
  <2> QED BY <1>7, <2>1 DEF OldestFirst
<1>13. Held' = Held \ Gone
  <2>1. Held' = Elements(Contents)'
    BY Zenon, <1>7 DEF Held
  <2>2. ASSUME NEW x \in Held' PROVE x \in Held /\ x \notin Gone
    <3>1. PICK i \in 1 .. size' : x = Contents'[i]
      BY Zenon, <1>6, <2>1 DEF Elements
    <3>2. CASE i <= r
      <4>1. k + i \in 1 .. Len(batch) /\ x = batch[k + i]
        BY <1>2, <1>3, <1>11, <3>1, <3>2
      <4>2. ASSUME NEW j \in 1 .. k PROVE batch[j] # x
        <5>1. j \in 1 .. Len(batch) /\ j < k + i
          BY <1>2, <1>3
        <5>2. batch[j] < batch[k + i] /\ batch[j] \in Metric /\ batch[k + i] \in Metric
          BY <1>2, <1>10, <4>1, <5>1
        <5> QED BY <4>1, <5>2 DEF Metric
      <4> QED BY Zenon, <4>1, <4>2 DEF Held, Elements, Gone
    <3>3. CASE i > r
      <4>1. i - r \in 1 .. size /\ x = Contents[i - r]
        BY <1>2, <1>3, <1>11, <3>1, <3>3
      <4>2. ASSUME NEW j \in 1 .. k PROVE batch[j] # x
        <5>1. j \in 1 .. Len(batch)
          BY <1>2, <1>3
        <5>2. batch[j] < Contents[i - r] /\ batch[j] \in Metric /\ Contents[i - r] \in Metric
          BY <1>1, <1>2, <1>10, <4>1, <5>1 DEF ContentsOK
        <5> QED BY <4>1, <5>2 DEF Metric
      <4> QED BY Zenon, <1>2, <4>1, <4>2 DEF Held, Elements, Gone
    <3> QED BY <1>3, <3>2, <3>3
  <2>3. ASSUME NEW x \in Held, x \notin Gone PROVE x \in Held'
    <3>1. CASE x \in Elements(batch)
      <4>1. PICK j \in 1 .. Len(batch) : x = batch[j]
        BY Zenon, <3>1 DEF Elements
      <4>2. j > k
        BY <1>2, <1>3, <2>3, <4>1 DEF Gone
      <4>3. j - k \in 1 .. size' /\ j - k <= r /\ k + (j - k) = j
        BY <1>2, <1>3, <4>2
      <4>4. Contents'[j - k] = x
        BY Zenon, <1>3, <4>1, <4>3
      <4> QED BY Zenon, <1>6, <2>1, <4>3, <4>4 DEF Elements
    <3>2. CASE x \in Elements(Contents)
      <4>1. PICK j \in 1 .. size : x = Contents[j]
        BY Zenon, <1>2, <3>2 DEF Elements
      <4>2. j + r \in 1 .. size' /\ ~(j + r <= r) /\ (j + r) - r = j
        BY <1>2, <1>3
      <4>3. Contents'[j + r] = x
        BY Zenon, <1>3, <4>1, <4>2
      <4> QED BY Zenon, <1>6, <2>1, <4>2, <4>3 DEF Elements
    <3> QED BY Zenon, <2>3, <3>1, <3>2 DEF Held
  <2> QED BY Zenon, <2>2, <2>3
<1>14. Bookkeeping'
  <2>1. Held' \subseteq 1 .. metricsAdded'
    BY Zenon, <1>1, <1>5, <1>13 DEF Bookkeeping
  <2> QED BY <1>5, <1>7, <2>1 DEF Bookkeeping
<1>15. AnsweredOnce'
  <2>1. Gone \subseteq Held
    BY <1>2, <1>3 DEF Held, Elements, Gone
  <2>2. metricsAdded + 1 .. metricsAdded' = {} /\ metricsAdded' \in {metricsAdded, metricsAdded + 1}
    BY <1>1, <1>5 DEF BufferTypeOK
  <2>3. Held' = (Held \ Gone) \cup (metricsAdded + 1 .. metricsAdded')
    BY Zenon, <1>13, <2>2
  <2>4. \A x \in Metric : accepted'[x] + rejected'[x] =
          accepted[x] + rejected[x] + (IF x \in Gone THEN 1 ELSE 0)
    <3> SUFFICES ASSUME NEW x \in Metric
                 PROVE  accepted'[x] + rejected'[x] =
                          accepted[x] + rejected[x] + (IF x \in Gone THEN 1 ELSE 0)
      OBVIOUS
    <3>1. /\ rejected \in [Metric -> Nat] /\ accepted[x] \in Nat /\ rejected[x] \in Nat
          /\ accepted'[x] = accepted[x]
      BY Zenon, <1>1, <1>5 DEF BufferTypeOK
    <3>2. rejected'[x] = rejected[x] + (IF x \in Gone THEN 1 ELSE 0)
      BY <1>5, <3>1, CallCounts
    <3> QED BY <3>1, <3>2
  <2>5. Held \subseteq 1 .. metricsAdded
    BY <1>1 DEF Bookkeeping
  <2> QED BY Zenon, <1>1, <2>1, <2>2, <2>3, <2>4, <2>5, AnswerLeavers
<1>16. StatisticsAgree'
  <2>1. metricsAdded' = metricsWritten' + metricsDropped' + size' + Len(batch')
    BY <1>1, <1>2, <1>3, <1>5, <1>7 DEF StatisticsAgree, BufferTypeOK
  <2>2. bufferSize' = min(size' + Len(batch'), Cap)
    <3>1. bufferSize' = size' /\ Len(batch') = 0
      BY Zenon, <1>5, <1>7, <1>8
    <3>2. Cap \in Nat /\ size' \in Nat /\ size' <= Cap
      BY Zenon, <1>2, <1>6
    <3>3. \A x, y \in Nat : x <= y => x + 0 = x /\ ~(y < x)
      OBVIOUS
    <3> QED BY <3>1, <3>2, <3>3, Zenon DEF min
  <2> QED BY <2>1, <2>2 DEF StatisticsAgree
<1> QED
  BY Zenon, <1>3, <1>9, <1>12, <1>14, <1>15, <1>16 DEF BufferInv

\* Every operation of the buffer preserves the invariant.
LEMMA BufferStepInv == BufferInv /\ [BufferNext]_bufferVars => BufferInv'
<1> SUFFICES ASSUME BufferInv, [BufferNext]_bufferVars PROVE BufferInv'
  OBVIOUS
<1>0. metricsAdded \in Nat /\ adding \in Nat /\ metricsAdded + adding <= MaxMetrics
  BY Zenon DEF BufferInv, BufferTypeOK
<1>1. ASSUME NEW n \in 1 .. MaxAdd, Add(n) PROVE BufferInv'
  <2>1. n - 1 \in Nat /\ metricsAdded + 1 + (n - 1) <= MaxMetrics
    BY <1>0, <1>1, BufferAssumption DEF Add
  <2> QED BY Zenon, <1>1, <2>1, AddInv DEF Add
<1>2. CASE AddMore
  <2>1. adding - 1 \in Nat /\ metricsAdded + 1 + (adding - 1) <= MaxMetrics
    BY <1>0, <1>2, BufferAssumption DEF AddMore, Unlocked
  <2> QED BY Zenon, <1>2, <2>1, AddInv DEF AddMore
<1>3. ASSUME NEW n \in BatchSizes, Batch(n) PROVE BufferInv'
  BY Zenon, <1>3, BatchInv, BufferAssumption
<1>4. CASE Accept
  BY Zenon, <1>4, AcceptInv
<1>5. CASE Reject
  BY <1>5, RejectInv
<1>6. CASE UNCHANGED bufferVars
  <2>1. /\ buf' = buf /\ first' = first /\ last' = last /\ size' = size
        /\ batchFirst' = batchFirst /\ batchSize' = batchSize /\ batch' = batch
        /\ adding' = adding
        /\ metricsAdded' = metricsAdded /\ metricsWritten' = metricsWritten
        /\ metricsDropped' = metricsDropped /\ bufferSize' = bufferSize
        /\ accepted' = accepted /\ rejected' = rejected
    BY Zenon, <1>6 DEF bufferVars, ring, stats, fates
  <2>2. Contents' = Contents /\ Held' = Held
    BY <2>1 DEF Contents, Slot, Held, Elements
  <2> QED
    BY Zenon, <2>1, <2>2 DEF BufferInv, BufferTypeOK, Shape, Slot, OldestFirst,
      Bookkeeping, AnsweredOnce, StatisticsAgree, Unlocked
<1> QED
  BY Zenon, <1>1, <1>2, <1>3, <1>4, <1>5, <1>6 DEF BufferNext

-----------------------------------------------------------------------------
(* The theorems. *)

\* The indices of the buffer stay inside the array, and the statistics and the
\* answers stay natural numbers, for every capacity and every batch size.
THEOREM BufferTypeCorrect == BufferSpec => []BufferTypeOK
<1>1. BufferInv => BufferTypeOK
  BY Zenon DEF BufferInv
<1> QED
  BY <1>1, BufferInitInv, BufferStepInv, PTL DEF BufferSpec

\* For every capacity: full slots are exactly the window, so that the metric a
\* full buffer drops exists.
THEOREM WindowCorrect == BufferSpec => []WindowOccupied
<1>1. BufferInv => WindowOccupied
  BY Zenon, ShapeIsWindow DEF BufferInv
<1> QED
  BY <1>1, BufferInitInv, BufferStepInv, PTL DEF BufferSpec

\* For every capacity: metrics leave in the order they came, even when batches
\* are rejected and the buffer overflows meanwhile.
THEOREM OrderCorrect == BufferSpec => []OldestFirst
<1>1. BufferInv => OldestFirst
  BY Zenon DEF BufferInv
<1> QED
  BY <1>1, BufferInitInv, BufferStepInv, PTL DEF BufferSpec

\* For every capacity: each metric is answered by exactly one Accept or Reject.
THEOREM AnswerCorrect == BufferSpec => []AnsweredOnce
<1>1. BufferInv => AnsweredOnce
  BY Zenon DEF BufferInv
<1> QED
  BY <1>1, BufferInitInv, BufferStepInv, PTL DEF BufferSpec

\* For every capacity: the statistics account for every metric.
THEOREM StatisticsCorrect == BufferSpec => []StatisticsAgree
<1>1. BufferInv => StatisticsAgree
  BY Zenon DEF BufferInv
<1> QED
  BY <1>1, BufferInitInv, BufferStepInv, PTL DEF BufferSpec

\* For every capacity: only an operation that leaves the buffer full of newer
\* metrics drops one.
THEOREM DropsCorrect == BufferSpec => DropsOnlyWhenFull
<1> DEFINE D == \A m \in Metric :
                  rejected'[m] # rejected[m] =>
                    /\ size' = Cap
                    /\ \A i \in 1 .. Cap : m < Contents'[i]
<1>1. ASSUME BufferInv, [BufferNext]_bufferVars PROVE [D]_bufferVars
  <2> SUFFICES ASSUME BufferNext, NEW m \in Metric, rejected'[m] # rejected[m]
               PROVE  size' = Cap /\ \A i \in 1 .. Cap : m < Contents'[i]
    BY Zenon, <1>1
  <2>1. /\ BufferTypeOK /\ Shape /\ OldestFirst /\ Bookkeeping /\ ContentsOK
        /\ BufferInv'
    BY Zenon, <1>1, ContentsType, BufferStepInv DEF BufferInv
  <2>2. /\ Cap \in Nat \ {0} /\ size \in Nat /\ size <= Cap /\ Len(batch) \in Nat
        /\ rejected \in [Metric -> Nat] /\ metricsAdded \in Nat /\ adding \in Nat
        /\ metricsAdded + adding <= MaxMetrics
    BY <2>1, BufferAssumption DEF BufferTypeOK
  <2>3. ASSUME add, metricsAdded + 1 <= MaxMetrics
        PROVE  size' = Cap /\ \A i \in 1 .. Cap : m < Contents'[i]
    <3>1. size = Cap
      BY Zenon, <2>3 DEF add
    <3>2. rejected' = Call(rejected, {buf[last]}) /\ size' = Cap
      BY <2>2, <2>3, <3>1 DEF add, min
    <3>3. metricsAdded + 1 \in Metric
      BY <2>2, <2>3 DEF Metric
    <3>4. buf[last] = Contents[1] /\ Contents' = Append(Tail(Contents), metricsAdded + 1)
      BY Zenon, <2>1, <2>3, <3>1, <3>3, AddFull
    <3>5. m = Contents[1]
      BY <2>2, <3>2, <3>4, CallCounts
    <3>6. /\ Len(Contents) = Cap /\ Contents \in Seq(Metric)
          /\ \A i \in 1 .. Cap : Contents'[i] =
               IF i = Cap THEN metricsAdded + 1 ELSE Contents[i + 1]
      BY <2>1, <2>2, <3>1, <3>4 DEF ContentsOK
    <3>7. m \in Held /\ m < metricsAdded + 1
      <4>1. Contents[1] \in Held
        BY <2>2, <3>6 DEF Held, Elements
      <4> QED BY <2>1, <2>2, <3>5, <4>1 DEF Bookkeeping
    <3>8. ASSUME NEW i \in 1 .. Cap PROVE m < Contents'[i]
      <4>1. CASE i = Cap
        BY Zenon, <3>6, <3>7, <4>1
      <4>2. CASE i # Cap
        <5>1. i + 1 \in 1 .. size /\ 1 \in 1 .. size /\ 1 < i + 1
          BY <2>2, <3>1, <4>2
        <5>2. Contents[1] < Contents[i + 1]
          BY Zenon, <2>1, <5>1 DEF OldestFirst
        <5> QED BY Zenon, <3>5, <3>6, <4>2, <5>2
      <4> QED BY Zenon, <4>1, <4>2
    <3> QED BY Zenon, <3>2, <3>8
  <2>4. CASE \E n \in 1 .. MaxAdd : Add(n)
    <3>1. add /\ metricsAdded + 1 <= MaxMetrics
      BY <2>2, <2>4, BufferAssumption DEF Add
    <3> QED BY Zenon, <2>3, <3>1
  <2>5. CASE AddMore
    <3>1. add /\ metricsAdded + 1 <= MaxMetrics
      BY <2>2, <2>5, BufferAssumption DEF AddMore, Unlocked
    <3> QED BY <2>3, <3>1
  <2>6. CASE \E n \in BatchSizes : Batch(n)
    BY Zenon, <2>6 DEF Batch, fates
  <2>7. CASE Accept
    BY Zenon, <2>7 DEF Accept
  <2>8. CASE Reject
    <3>1. /\ Restored \in 0 .. Len(batch) /\ Skipped \in 0 .. Len(batch)
          /\ size' = size + Restored
          /\ \A i \in 1 .. size' :
               Contents'[i] = IF i <= Restored THEN batch[Skipped + i]
                                               ELSE Contents[i - Restored]
      BY Zenon, <2>1, <2>8, RejectShape DEF BufferTypeOK
    <3>2. rejected' = Call(rejected, {batch[i] : i \in 1 .. Skipped})
      BY Zenon, <2>8 DEF Reject, Restored, Skipped
    <3>3. PICK k \in 1 .. Skipped : m = batch[k]
      BY <2>2, <3>2, CallCounts
    <3>4. Restored = Cap - size /\ Restored + Skipped = Len(batch)
      BY <2>2, <3>1, <3>3 DEF Restored, Skipped, min
    <3>5. size' = Cap
      BY <2>2, <3>1, <3>4
    <3>6. k \in 1 .. Len(batch)
      BY <2>2, <3>1
    <3>7. ASSUME NEW i \in 1 .. Cap PROVE m < Contents'[i]
      <4>1. CASE i <= Restored
        <5>1. Skipped + i \in 1 .. Len(batch) /\ k < Skipped + i
          BY <2>2, <3>1, <3>4, <4>1
        <5>2. batch[k] < batch[Skipped + i]
          BY Zenon, <2>1, <3>6, <5>1 DEF OldestFirst
        <5> QED BY Zenon, <3>1, <3>3, <3>5, <4>1, <5>2
      <4>2. CASE ~(i <= Restored)
        <5>1. i - Restored \in 1 .. size
          BY <2>2, <3>1, <3>4, <4>2
        <5>2. batch[k] < Contents[i - Restored]
          BY Zenon, <2>1, <3>6, <5>1 DEF OldestFirst
        <5> QED BY Zenon, <3>1, <3>3, <3>5, <4>2, <5>2
      <4> QED BY Zenon, <4>1, <4>2
    <3> QED BY Zenon, <3>5, <3>7
  <2> QED
    BY Zenon, <2>4, <2>5, <2>6, <2>7, <2>8 DEF BufferNext
<1>2. BufferInv /\ [BufferNext]_bufferVars => [D]_bufferVars
  BY Zenon, <1>1
<1> QED
  BY <1>2, BufferInitInv, BufferStepInv, PTL DEF BufferSpec, DropsOnlyWhenFull

-----------------------------------------------------------------------------
(* The ring implements the queue. *)

\* The metrics that some call of Accept (or Reject) has answered.
Called(f) == {m \in Metric : f[m] > 0}

\* The metrics called are those called before and those of the set.
LEMMA CalledGrows ==
  ASSUME NEW f \in [Metric -> Nat], NEW S \in SUBSET Metric
  PROVE  Called(Call(f, S)) = Called(f) \cup S
<1>1. ASSUME NEW m \in Metric
      PROVE  Call(f, S)[m] > 0 <=> f[m] > 0 \/ m \in S
  BY CallCounts
<1> QED BY Zenon, <1>1 DEF Called

\* add is a step of the abstract queue that stores a metric.
LEMMA StoreRefines ==
  ASSUME BufferInv, add, metricsAdded + 1 <= MaxMetrics
  PROVE  Queue!Store
<1>1. /\ BufferTypeOK /\ Shape /\ ContentsOK
      /\ metricsAdded + 1 \in Metric
      /\ Cap \in Nat \ {0} /\ size \in Nat /\ size <= Cap
  BY ContentsType, BufferAssumption DEF BufferInv, BufferTypeOK, Metric
<1>2. metricsAdded' = metricsAdded + 1 /\ batch' = batch /\ accepted' = accepted
  BY Zenon DEF add
<1>3. CASE size # Cap
  <2>1. Contents' = Append(Contents, metricsAdded + 1) /\ rejected' = rejected
    BY Zenon, <1>1, <1>3, AddRoom DEF add
  <2>2. Len(Contents) < Cap
    BY <1>1, <1>3 DEF ContentsOK
  <2> QED BY Zenon, <1>2, <2>1, <2>2 DEF Queue!Store
<1>4. CASE size = Cap
  <2>1. /\ Contents' = Append(Tail(Contents), metricsAdded + 1)
        /\ rejected' = Call(rejected, {Head(Contents)})
    <3>1. Len(Contents) = Cap /\ Contents # << >>
      BY Zenon, <1>1, <1>4 DEF ContentsOK
    <3>2. Head(Contents) = Contents[1]
      BY <3>1
    <3> QED BY Zenon, <1>1, <1>4, <3>2, AddFull DEF add
  <2>2. Len(Contents) = Cap /\ Head(Contents) \in Metric
    BY <1>1, <1>4 DEF ContentsOK
  <2>3. Called(rejected') = Called(rejected) \cup {Head(Contents)}
    BY Zenon, <1>1, <2>1, <2>2, CalledGrows DEF BufferTypeOK
  <2> QED BY Zenon, <1>2, <2>1, <2>2, <2>3 DEF Queue!Store, Called
<1> QED BY Zenon, <1>3, <1>4

\* Accept is the step of the abstract queue that delivers the batch.
LEMMA AcceptRefines ==
  ASSUME BufferInv, Accept
  PROVE  Queue!Written
<1>1. /\ BufferTypeOK /\ batch # << >> /\ adding = 0
      /\ accepted' = Call(accepted, Elements(batch))
      /\ batch' = << >> /\ rejected' = rejected /\ adding' = adding
      /\ metricsAdded' = metricsAdded
      /\ buf' = buf /\ first' = first /\ size' = size
  BY Zenon DEF BufferInv, Accept, Unlocked
<1>2. Contents' = Contents
  BY Zenon, <1>1 DEF Contents, Slot
<1>3. Elements(batch) \in SUBSET Metric
  BY <1>1 DEF BufferTypeOK, Elements
<1>4. Called(accepted') = Called(accepted) \cup Elements(batch)
  BY Zenon, <1>1, <1>3, CalledGrows DEF BufferTypeOK
<1> QED
  BY Zenon, <1>1, <1>2, <1>4 DEF Queue!Written, Called, Elements, Queue!Elements

\* Reject is the step of the abstract queue that puts the batch back.
LEMMA RejectRefines ==
  ASSUME BufferInv, Reject
  PROVE  Queue!PutBack
<1> DEFINE k == Skipped
<1>1. /\ BufferTypeOK /\ Shape /\ ContentsOK /\ batch \in Seq(Metric)
      /\ rejected \in [Metric -> Nat]
      /\ Cap \in Nat \ {0} /\ size \in Nat /\ size <= Cap /\ Len(batch) \in Nat
  BY ContentsType, BufferAssumption DEF BufferInv, BufferTypeOK
<1>2. /\ adding = 0 /\ batch # << >> /\ batch' = << >>
      /\ adding' = adding /\ metricsAdded' = metricsAdded /\ accepted' = accepted
      /\ rejected' = Call(rejected, {batch[i] : i \in 1 .. k})
  BY Zenon DEF Reject, Unlocked, Restored, Skipped
<1>3. k \in 0 .. Len(batch) /\ Contents' = SubSeq(batch, k + 1, Len(batch)) \o Contents
  BY Zenon, <1>1, RejectShape
<1>4. IF k = 0 THEN Len(batch) + Len(Contents) <= Cap
               ELSE Len(batch) - k + Len(Contents) = Cap
  BY <1>1 DEF Skipped, Restored, min, ContentsOK
<1> HIDE DEF k
<1>5. {batch[i] : i \in 1 .. k} \in SUBSET Metric
  BY SMTT(30), <1>1, <1>3
<1>6. Queue!Elements(SubSeq(batch, 1, k)) = {batch[i] : i \in 1 .. k}
  <2>1. /\ Len(SubSeq(batch, 1, k)) = k
        /\ \A i \in 1 .. k : SubSeq(batch, 1, k)[i] = batch[i]
    BY <1>1, <1>3
  <2> QED BY Zenon, <2>1 DEF Queue!Elements
<1>7. Called(rejected') = Called(rejected) \cup Queue!Elements(SubSeq(batch, 1, k))
  BY Zenon, <1>1, <1>2, <1>5, <1>6, CalledGrows
<1> QED
  BY Zenon, <1>2, <1>3, <1>4, <1>7 DEF Queue!PutBack, Called

\* For every capacity: the circular buffer implements the bounded queue that
\* drops its oldest metrics and puts a rejected batch back in front.
THEOREM BufferRefinesQueue == BufferSpec => ImplementsQueue
<1>1. BufferInit => Queue!Init
  BY DEF BufferInit, Queue!Init, Contents
<1>2. BufferInv /\ [BufferNext]_bufferVars => [Queue!Next]_(Queue!vars)
  <2> SUFFICES ASSUME BufferInv, [BufferNext]_bufferVars
               PROVE  [Queue!Next]_(Queue!vars)
    OBVIOUS
  <2>0. metricsAdded \in Nat /\ adding \in Nat /\ metricsAdded + adding <= MaxMetrics
    BY DEF BufferInv, BufferTypeOK
  <2>1. ASSUME NEW n \in 1 .. MaxAdd, Add(n) PROVE Queue!Next
    <3>1. add /\ adding = 0 /\ metricsAdded + n <= MaxMetrics /\ adding' = n - 1
      BY Zenon, <2>1 DEF Add, Unlocked, Release
    <3>2. metricsAdded + 1 <= MaxMetrics
      BY <2>0, <3>1, BufferAssumption
    <3> QED BY Zenon, <3>1, <3>2, StoreRefines DEF Queue!Next, Queue!Add
  <2>2. CASE AddMore
    <3>1. add /\ adding # 0 /\ adding' = adding - 1
      BY Zenon, <2>2 DEF AddMore, Unlocked, Release
    <3>2. metricsAdded + 1 <= MaxMetrics /\ adding > 0
      BY <2>0, <3>1, BufferAssumption
    <3> QED BY Zenon, <3>1, <3>2, StoreRefines DEF Queue!Next, Queue!AddMore
  <2>3. ASSUME NEW n \in BatchSizes, Batch(n) PROVE [Queue!Next]_(Queue!vars)
    <3>1. /\ adding = 0 /\ batch = << >> /\ adding' = adding
          /\ metricsAdded' = metricsAdded /\ accepted' = accepted /\ rejected' = rejected
      BY Zenon, <2>3 DEF Batch, Unlocked, stats, fates
    <3>2. CASE min(size, n) = 0
      <4>1. /\ batch' = batch /\ buf' = buf /\ first' = first /\ size' = size
        BY <2>3, <3>2 DEF Batch, ring
      <4>2. Contents' = Contents
        BY Zenon, <4>1 DEF Contents, Slot
      <4> QED BY Zenon, <3>1, <4>1, <4>2 DEF Queue!vars
    <3>3. CASE min(size, n) # 0
      <4>1. /\ Shape /\ ContentsOK /\ size \in Nat /\ n \in Nat \ {0}
        BY ContentsType, BufferAssumption DEF BufferInv, BufferTypeOK
      <4>2. min(size, n) > 0
        BY <3>3, <4>1 DEF min
      <4>3. /\ min(size, n) \in 1 .. size
            /\ batch' = SubSeq(Contents, 1, min(size, n))
            /\ Contents' = SubSeq(Contents, min(size, n) + 1, size)
        BY Zenon, <2>3, <4>1, <4>2, BatchShape
      <4>4. min(size, n) = n \/ (min(size, n) < n /\ min(size, n) = Len(Contents))
        BY <4>1 DEF min, ContentsOK
      <4>5. Len(Contents) = size
        BY Zenon, <4>1 DEF ContentsOK
      <4>6. Queue!Take(n)
        BY Zenon, <3>1, <4>3, <4>4, <4>5 DEF Queue!Take
      <4> QED BY Zenon, <2>3, <4>6 DEF Queue!Next
    <3> QED BY Zenon, <3>2, <3>3
  <2>4. CASE Accept
    BY Zenon, <2>4, AcceptRefines DEF Queue!Next
  <2>5. CASE Reject
    BY Zenon, <2>5, RejectRefines DEF Queue!Next
  <2>6. CASE UNCHANGED bufferVars
    BY Zenon, <2>6 DEF bufferVars, ring, stats, fates, Queue!vars, Contents, Slot
  <2> QED
    BY Zenon, <2>1, <2>2, <2>3, <2>4, <2>5, <2>6 DEF BufferNext
<1> QED
  BY <1>1, <1>2, BufferInitInv, BufferStepInv, PTL
  DEF BufferSpec, ImplementsQueue, Queue!Spec
=============================================================================
