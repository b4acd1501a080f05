----------------------------- MODULE MetricQueue -----------------------------
(***************************************************************************)
(* What a metric buffer promises its output, without slots and indices: a  *)
(* queue of at most Cap metrics.  A full queue makes room by dropping its  *)
(* oldest metric; a batch is a prefix of the queue; a rejected batch goes  *)
(* back in front, losing as many of its oldest metrics as do not fit.      *)
(***************************************************************************)
EXTENDS Integers, Sequences

CONSTANTS Cap, MaxMetrics, MaxAdd, BatchSizes

VARIABLES
  queue,       \* stored metrics, oldest first
  batch,       \* metrics out in a batch
  adding,      \* metrics a call of Add still has to store
  count,       \* metrics added so far; also the newest metric
  delivered,   \* metrics written
  lost         \* metrics dropped

vars == <<queue, batch, adding, count, delivered, lost>>

Init ==
  /\ queue = << >> /\ batch = << >> /\ adding = 0 /\ count = 0
  /\ delivered = {} /\ lost = {}

Elements(s) == {s[i] : i \in 1 .. Len(s)}

Store ==
  /\ count' = count + 1
  /\ \/ /\ Len(queue) < Cap
        /\ queue' = Append(queue, count + 1)
        /\ lost' = lost
     \/ /\ Len(queue) = Cap
        /\ queue' = Append(Tail(queue), count + 1)
        /\ lost' = lost \cup {Head(queue)}
  /\ UNCHANGED <<batch, delivered>>

Add(n) == adding = 0 /\ count + n <= MaxMetrics /\ Store /\ adding' = n - 1

AddMore == adding > 0 /\ Store /\ adding' = adding - 1

\* A prefix of the queue goes out, as long as the client asked for or all of it.
Take(n) ==
  /\ adding = 0 /\ batch = << >>
  /\ \E k \in 1 .. Len(queue) :
       /\ k = n \/ (k < n /\ k = Len(queue))
       /\ batch' = SubSeq(queue, 1, k)
       /\ queue' = SubSeq(queue, k + 1, Len(queue))
  /\ UNCHANGED <<adding, count, delivered, lost>>

Written ==
  /\ adding = 0 /\ batch # << >>
  /\ batch' = << >>
  /\ delivered' = delivered \cup Elements(batch)
  /\ UNCHANGED <<queue, adding, count, lost>>

\* k metrics, the oldest of the batch, do not fit.
PutBack ==
  /\ adding = 0 /\ batch # << >>
  /\ batch' = << >>
  /\ \E k \in 0 .. Len(batch) :
       /\ IF k = 0 THEN Len(batch) + Len(queue) <= Cap
                   ELSE Len(batch) - k + Len(queue) = Cap
       /\ queue' = SubSeq(batch, k + 1, Len(batch)) \o queue
       /\ lost' = lost \cup Elements(SubSeq(batch, 1, k))
  /\ UNCHANGED <<adding, count, delivered>>

Next ==
  \/ \E n \in 1 .. MaxAdd : Add(n)
  \/ AddMore
  \/ \E n \in BatchSizes : Take(n)
  \/ Written
  \/ PutBack

Spec == Init /\ [][Next]_vars
=============================================================================
