------------------------------ MODULE Tracking ------------------------------
(***************************************************************************)
(* Delivery tracking (metric/tracking.go and the tracking accumulator of   *)
(* agent/accumulator.go) on the way of a group of metrics from the input   *)
(* through processors and the fan-out of runOutputs to the outputs.        *)
(*                                                                         *)
(* The references to a group are counted by where they are; each of them   *)
(* is one trackingMetric that its owner must accept, reject or drop.       *)
(* Accept and Reject are two atomic additions, so a reference whose answer *)
(* is counted but whose count of references is not yet lowered has a place *)
(* of its own (leaving).  Some are never answered (kept): an               *)
(* AggregatingOutput takes metrics and does not answer for them, and what  *)
(* the last Write of a shutdown could not send stays in the buffer.        *)
(***************************************************************************)
EXTENDS Integers, FiniteSets

CONSTANTS
  Group,       \* groups of metrics, by TrackingID
  MaxTracked,  \* capacity of the delivery channel
  MaxGroup,    \* bound: metrics in a group
  MaxCopies,   \* bound: copies processors make of the metrics of a group
  NOutputs,    \* number of outputs
  Aggregating, \* the sets of them that may be AggregatingOutputs
  None         \* no group

ASSUME TrackingAssumption ==
  /\ MaxTracked \in Nat /\ MaxGroup \in Nat /\ MaxCopies \in Nat
  /\ NOutputs \in Nat \ {0} /\ Aggregating \subseteq SUBSET (1 .. NOutputs)
  /\ None \notin Group

VARIABLES
  rc,           \* the fields of trackingData
  acceptCount,
  rejectCount,
  undelivered,  \* groups the input waits for: added, and not read back
  aggregating,  \* the outputs that are AggregatingOutputs
  stopped,      \* the input has been stopped
  unsent,       \* references: in the loop of AddTrackingMetricGroup
  queued,       \*   in channels and processors
  copies,       \*     (copies made by processors)
  fan,          \*   the group of the metric being fanned out, and
  output,       \*     the output it goes to next
  held,         \*   in the buffers of outputs
  kept,         \*   where nobody will answer them
  leaving,      \*   answered, before decr
  notifying,    \* groups whose last decr returned 0, before notify
  notified,     \* number of notifications
  delivered,    \* the channel: groups, with
  info,         \*   the DeliveryInfo of each
  panicked      \* onDelivery found the channel full

data    == <<rc, acceptCount, rejectCount>>
setting == <<aggregating, stopped>>
places  == <<unsent, queued, copies, fan, output, held, kept, leaving>>
notes   == <<notifying, notified, delivered, info, panicked>>

vars == <<data, undelivered, setting, places, notes>>

Init ==
  /\ rc = [g \in Group |-> 0]
  /\ acceptCount = [g \in Group |-> 0] /\ rejectCount = [g \in Group |-> 0]
  /\ undelivered = {} /\ aggregating \in Aggregating /\ stopped = FALSE
  /\ unsent = [g \in Group |-> 0] /\ queued = [g \in Group |-> 0]
  /\ copies = [g \in Group |-> 0]
  /\ fan = None /\ output = 0
  /\ held = [g \in Group |-> 0] /\ kept = [g \in Group |-> 0] /\ leaving = [g \in Group |-> 0]
  /\ notifying = {} /\ notified = [g \in Group |-> 0]
  /\ delivered = {} /\ info = [g \in Group |-> [accepted |-> 0, rejected |-> 0]]
  /\ panicked = FALSE

Raise(f, g) == [f EXCEPT ![g] = @ + 1]
Lower(f, g) == [f EXCEPT ![g] = @ - 1]

\* A group that has never been handed to the accumulator.
Fresh(g) == g \notin undelivered /\ notified[g] = 0
-----------------------------------------------------------------------------
\* Mutant of AddTrackingMetricGroup: the input does not limit itself.
AddUnlimited(g, n) ==
  /\ ~stopped /\ Fresh(g)
  /\ undelivered' = undelivered \cup {g}
  /\ rc' = [rc EXCEPT ![g] = n]
  /\ unsent' = [unsent EXCEPT ![g] = n]
  /\ notifying' = IF n = 0 THEN notifying \cup {g} ELSE notifying
  /\ UNCHANGED <<acceptCount, rejectCount, setting, queued, copies, fan, output, held, kept, leaving,
                 notified, delivered, info, panicked>>

\* Mutant of AddTrackingMetricGroup: an empty group is not notified.
AddEmptySilently(g, n) ==
  /\ ~stopped /\ Fresh(g)
  /\ Cardinality(undelivered) < MaxTracked
  /\ undelivered' = undelivered \cup {g}
  /\ rc' = [rc EXCEPT ![g] = n]
  /\ unsent' = [unsent EXCEPT ![g] = n]
  /\ UNCHANGED <<acceptCount, rejectCount, setting, queued, copies, fan, output, held, kept, leaving,
                 notes>>

\* newTrackingMetricGroup for n metrics.  An input tracks no more groups at a
\* time than it has asked room for (the semaphores of the consumer inputs).  A
\* single tracked metric is a group of one.
AddTrackingMetricGroup(g, n) ==
  /\ ~stopped /\ Fresh(g)
  /\ Cardinality(undelivered) < MaxTracked
  /\ undelivered' = undelivered \cup {g}
  /\ rc' = [rc EXCEPT ![g] = n]
  /\ unsent' = [unsent EXCEPT ![g] = n]
  /\ notifying' = IF n = 0 THEN notifying \cup {g} ELSE notifying
  /\ UNCHANGED <<acceptCount, rejectCount, setting, queued, copies, fan, output, held, kept, leaving,
                 notified, delivered, info, panicked>>

\* The accumulator's AddMetric for one metric of the group: into the channel, or
\* dropped by the filter of the input.
AddMetric(g) ==
  /\ unsent[g] > 0
  /\ unsent' = Lower(unsent, g)
  /\ \/ queued' = Raise(queued, g) /\ UNCHANGED leaving
     \/ leaving' = Raise(leaving, g) /\ UNCHANGED queued
  /\ UNCHANGED <<data, undelivered, setting, copies, fan, output, held, kept, notes>>

\* A processor, or an aggregator with drop_original, drops a metric.
Discard(g) ==
  /\ queued[g] > 0
  /\ queued' = Lower(queued, g)
  /\ leaving' = Raise(leaving, g)
  /\ UNCHANGED <<data, undelivered, setting, unsent, copies, fan, output, held, kept, notes>>

\* Mutant of Copy: the copy is not counted.
CopyUncounted(g) ==
  /\ queued[g] > 0 /\ copies[g] < MaxCopies
  /\ copies' = Raise(copies, g)
  /\ queued' = Raise(queued, g)
  /\ UNCHANGED <<data, undelivered, setting, unsent, fan, output, held, kept, leaving, notes>>

\* A processor copies a metric and passes both on.
Copy(g) ==
  /\ queued[g] > 0 /\ copies[g] < MaxCopies
  /\ copies' = Raise(copies, g)
  /\ rc' = Raise(rc, g)
  /\ queued' = Raise(queued, g)
  /\ UNCHANGED <<acceptCount, rejectCount, undelivered, setting, unsent, fan, output, held, kept,
                 leaving, notes>>

\* runOutputs receives a metric ...
Receive(g) ==
  /\ fan = None /\ queued[g] > 0
  /\ queued' = Lower(queued, g)
  /\ fan' = g /\ output' = 1
  /\ UNCHANGED <<data, undelivered, setting, unsent, copies, held, kept, leaving, notes>>

\* RunningOutput.AddMetric: the filter of the output drops the metric, an
\* AggregatingOutput takes it, or it goes into the buffer.
GiveTo(o, g) ==
  \/ leaving' = Raise(leaving, g) /\ UNCHANGED <<held, kept>>
  \/ o \in aggregating /\ kept' = Raise(kept, g) /\ UNCHANGED <<held, leaving>>
  \/ o \notin aggregating /\ held' = Raise(held, g) /\ UNCHANGED <<kept, leaving>>

\* Mutant of FanOut: every output gets the metric itself.
FanOutShared ==
  /\ fan # None
  /\ GiveTo(output, fan)
  /\ IF output < NOutputs THEN output' = output + 1 /\ UNCHANGED fan
                          ELSE fan' = None /\ output' = 0
  /\ UNCHANGED <<data, undelivered, setting, unsent, queued, copies, notes>>

\* ... gives a copy to each output but the last, and the metric to the last.
FanOut ==
  /\ fan # None
  /\ GiveTo(output, fan)
  /\ \/ /\ output < NOutputs
        /\ rc' = Raise(rc, fan)
        /\ output' = output + 1
        /\ UNCHANGED fan
     \/ /\ output = NOutputs
        /\ fan' = None /\ output' = 0
        /\ UNCHANGED rc
  /\ UNCHANGED <<acceptCount, rejectCount, undelivered, setting, unsent, queued, copies, notes>>

\* A buffer answers: Accept, or Reject of a metric it drops.
Answer(g) ==
  /\ held[g] > 0
  /\ held' = Lower(held, g)
  /\ leaving' = Raise(leaving, g)
  /\ \/ acceptCount' = Raise(acceptCount, g) /\ UNCHANGED rejectCount
     \/ rejectCount' = Raise(rejectCount, g) /\ UNCHANGED acceptCount
  /\ UNCHANGED <<rc, undelivered, setting, unsent, queued, copies, fan, output, kept, notes>>

\* The input has returned from Stop: it adds and reads no more (see QuietAfterStop
\* of Consumer for inputs that still add).
Stop ==
  /\ ~stopped /\ \A g \in Group : unsent[g] = 0
  /\ stopped' = TRUE
  /\ UNCHANGED <<data, undelivered, aggregating, places, notes>>

\* The source of the outputs is closed and read, and the last Write has failed.
Abandon(g) ==
  /\ stopped /\ held[g] > 0
  /\ fan = None /\ \A h \in Group : queued[h] = 0
  /\ held' = Lower(held, g)
  /\ kept' = Raise(kept, g)
  /\ UNCHANGED <<data, undelivered, setting, unsent, queued, copies, fan, output, leaving, notes>>

\* Mutant of decr: one reference too early.
decrEarly(g) ==
  /\ leaving[g] > 0
  /\ leaving' = Lower(leaving, g)
  /\ rc' = Lower(rc, g)
  /\ notifying' = IF rc[g] <= 2 THEN notifying \cup {g} ELSE notifying
  /\ UNCHANGED <<acceptCount, rejectCount, undelivered, setting, unsent, queued, copies, fan, output,
                 held, kept, notified, delivered, info, panicked>>

decr(g) ==
  /\ leaving[g] > 0
  /\ leaving' = Lower(leaving, g)
  /\ rc' = Lower(rc, g)
  /\ notifying' = IF rc[g] = 1 THEN notifying \cup {g} ELSE notifying
  /\ UNCHANGED <<acceptCount, rejectCount, undelivered, setting, unsent, queued, copies, fan, output,
                 held, kept, notified, delivered, info, panicked>>

\* onDelivery: a send that must not block.
onDelivery(g) ==
  \/ /\ Cardinality(delivered) < MaxTracked
     /\ delivered' = delivered \cup {g}
     /\ UNCHANGED panicked
  \/ /\ Cardinality(delivered) >= MaxTracked
     /\ panicked' = TRUE
     /\ UNCHANGED delivered

notify(g) ==
  /\ g \in notifying
  /\ notifying' = notifying \ {g}
  /\ notified' = Raise(notified, g)
  /\ info' = [info EXCEPT ![g] = [accepted |-> acceptCount[g], rejected |-> rejectCount[g]]]
  /\ onDelivery(g)
  /\ UNCHANGED <<data, undelivered, setting, places>>

\* The input reads the channel and makes room for another group.
Read(g) ==
  /\ ~stopped /\ g \in delivered
  /\ delivered' = delivered \ {g}
  /\ undelivered' = undelivered \ {g}
  /\ UNCHANGED <<data, setting, places, notifying, notified, info, panicked>>

\* Nothing is under way: no goroutine has a reference it will pass on, or a
\* notification, and whether a group is still waited for is the business of
\* EventuallyRead.
Finished ==
  /\ stopped /\ notifying = {}
  /\ \A g \in Group : rc[g] = kept[g]
  /\ UNCHANGED vars

Step(g) ==
  \/ \E n \in 0 .. MaxGroup : AddTrackingMetricGroup(g, n)
  \/ AddMetric(g) \/ Discard(g) \/ Copy(g) \/ Receive(g)
  \/ (g = fan /\ FanOut)
  \/ Answer(g) \/ Abandon(g) \/ decr(g) \/ notify(g) \/ Read(g)

Next == Finished \/ Stop \/ \E g \in Group : Step(g)

Spec == Init /\ [][Next]_vars

\* Every goroutine that owns a reference goes on: channels are drained, an output
\* sends what is in its buffer or drops it until the shutdown ends it, calls
\* return, a running input reads its channel.  Nobody has to copy or to stop.
Fairness ==
  \A g \in Group :
    /\ WF_vars(AddMetric(g)) /\ SF_vars(Receive(g)) /\ WF_vars(g = fan /\ FanOut)
    /\ WF_vars(Answer(g) \/ Abandon(g)) /\ WF_vars(decr(g)) /\ WF_vars(notify(g))
    /\ WF_vars(Read(g))

FairSpec == Spec /\ Fairness
-----------------------------------------------------------------------------
\* Where the references to a group are.
References(g) ==
  unsent[g] + queued[g] + (IF fan = g THEN 1 ELSE 0) + held[g] + kept[g] + leaving[g]

\* Counters and places stay in their ranges.
TypeOK ==
  /\ rc \in [Group -> Int]
  /\ acceptCount \in [Group -> Nat] /\ rejectCount \in [Group -> Nat]
  /\ undelivered \subseteq Group /\ aggregating \subseteq 1 .. NOutputs /\ stopped \in BOOLEAN
  /\ unsent \in [Group -> Nat] /\ queued \in [Group -> Nat]
  /\ copies \in [Group -> Nat]
  /\ fan \in Group \cup {None} /\ output \in 0 .. NOutputs
  /\ held \in [Group -> Nat] /\ kept \in [Group -> Nat] /\ leaving \in [Group -> Nat]
  /\ notifying \subseteq Group /\ notified \in [Group -> Nat]
  /\ delivered \subseteq Group
  /\ info \in [Group -> [accepted : Nat, rejected : Nat]]
  /\ panicked \in BOOLEAN

\* The reference count is exact: decr never meets a count of zero (the panic
\* "negative refcount"), and no reference is left when it reaches zero.
RefcountExact == \A g \in Group : rc[g] = References(g)

\* A group is notified once, after the last of its references is answered, and
\* until then the input waits for it.
NotifiedOnce ==
  \A g \in Group :
    /\ notified[g] <= 1
    /\ notified[g] = 1 \/ g \in notifying => References(g) = 0
    /\ References(g) > 0 => g \in undelivered /\ notified[g] = 0
    /\ g \in undelivered /\ References(g) = 0 => notified[g] = 1 \/ g \in notifying

\* What the input reads counts every answer: Delivered() holds exactly when no
\* output rejected a metric of the group, and no answer comes later.
DeliveryTruthful ==
  \A g \in Group :
    notified[g] > 0 =>
      info[g].rejected = rejectCount[g] /\ info[g].accepted = acceptCount[g]

\* An input that tracks at most as many groups as it asked room for never meets
\* the panic "channel is full".
ChannelHasRoom == ~panicked

\* To an input this is the accumulator of Accumulator: a group is under way until
\* notify, then in the channel, and Delivered() says that nothing was rejected.
Acc == INSTANCE Accumulator WITH
  inflight  <- {g \in undelivered : notified[g] = 0},
  answers   <- delivered,
  delivered <- {g \in delivered : info[g].rejected = 0}

\* Counting references implements the accumulator: each group is answered once and
\* its answer, which does not change any more, put in the channel, never in vain.
ImplementsAccumulator == Acc!Spec

\* Every group an input adds is answered and read back, so that its slot is free
\* again, or the answer comes too late for an input that has stopped.  A group is
\* left without an answer only if a metric of it went to an AggregatingOutput, or
\* was not sent by the last Write.
EventuallyRead ==
  \A g \in Group :
    g \in undelivered ~>
      \/ g \notin undelivered
      \/ stopped /\ g \in delivered
      \/ kept[g] > 0
=============================================================================
