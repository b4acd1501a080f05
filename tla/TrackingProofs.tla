--------------------------- MODULE TrackingProofs ---------------------------
(* Proofs about delivery tracking, for any number of groups, sizes and outputs. *)
EXTENDS Tracking, FiniteSetTheorems, TLAPS

\* The groups the input waits for are those with references, about to be
\* notified, or in the channel; they are no more than the channel has room for.
Waiting ==
  /\ IsFiniteSet(undelivered) /\ Cardinality(undelivered) <= MaxTracked
  /\ notifying \subseteq undelivered
  /\ delivered \subseteq undelivered
  /\ \A g \in notifying : notified[g] = 0
  /\ \A g \in delivered : notified[g] = 1
  /\ fan # None => output \in 1 .. NOutputs

\* The inductive invariant.
Inv ==
  /\ TypeOK /\ RefcountExact /\ NotifiedOnce /\ DeliveryTruthful /\ ChannelHasRoom
  /\ Waiting

\* Nothing is tracked at the start.
LEMMA InitInv == Init => Inv
<1> SUFFICES ASSUME Init PROVE Inv
  OBVIOUS
<1>1. TypeOK
  <2>1. info \in [Group -> [accepted : Nat, rejected : Nat]]
    BY Zenon DEF Init
  <2>2. fan \in Group \cup {None} /\ output \in 0 .. NOutputs
    BY TrackingAssumption DEF Init
  <2>3. /\ rc \in [Group -> Int]
        /\ acceptCount \in [Group -> Nat] /\ rejectCount \in [Group -> Nat]
        /\ unsent \in [Group -> Nat] /\ queued \in [Group -> Nat]
        /\ copies \in [Group -> Nat]
        /\ held \in [Group -> Nat] /\ kept \in [Group -> Nat] /\ leaving \in [Group -> Nat]
        /\ notified \in [Group -> Nat]
    BY DEF Init
  <2>4. /\ undelivered \subseteq Group /\ notifying \subseteq Group
        /\ delivered \subseteq Group /\ panicked \in BOOLEAN
        /\ aggregating \subseteq 1 .. NOutputs /\ stopped \in BOOLEAN
    BY Zenon, TrackingAssumption DEF Init
  <2> QED BY Zenon, <2>1, <2>2, <2>3, <2>4 DEF TypeOK
<1>2. RefcountExact /\ NotifiedOnce /\ DeliveryTruthful /\ ChannelHasRoom
  BY TrackingAssumption DEF Init, RefcountExact, NotifiedOnce, DeliveryTruthful,
    ChannelHasRoom, References
<1>3. Waiting
  BY FS_EmptySet, TrackingAssumption DEF Init, Waiting
<1> QED BY Zenon, <1>1, <1>2, <1>3 DEF Inv

\* The number of references is a natural number.
LEMMA ReferencesType ==
  TypeOK => \A g \in Group : References(g) \in Nat
  BY DEF TypeOK, References

\* The references of a group are counted in Nat after a step too.
LEMMA ReferencesTypeNext ==
  TypeOK' => \A g \in Group : References(g)' \in Nat
  BY DEF TypeOK, References

\* A step that moves or copies references to a group that has some before and
\* after, and counts them right, keeps the invariant.
LEMMA BusyInv ==
  ASSUME Inv, TypeOK', NEW g \in Group,
         UNCHANGED <<undelivered, notes>>,
         References(g) > 0, References(g)' > 0,
         rc'[g] - rc[g] = References(g)' - References(g),
         \A h \in Group \ {g} :
           /\ rc'[h] = rc[h] /\ References(h)' = References(h)
           /\ acceptCount'[h] = acceptCount[h] /\ rejectCount'[h] = rejectCount[h],
         fan' # None => output' \in 1 .. NOutputs
  PROVE  Inv'
<1>1. /\ undelivered' = undelivered /\ notifying' = notifying /\ notified' = notified
      /\ delivered' = delivered /\ info' = info /\ panicked' = panicked
  BY Zenon DEF notes
<1>2. RefcountExact'
  <2> SUFFICES ASSUME NEW h \in Group PROVE rc'[h] = References(h)'
    BY Zenon DEF RefcountExact
  <2>1. CASE h = g
    <3>1. rc[g] = References(g) /\ rc[g] \in Int /\ rc'[g] \in Int
          /\ References(g) \in Nat /\ References(g)' \in Nat
      BY Zenon, ReferencesType, ReferencesTypeNext DEF Inv, RefcountExact, TypeOK
    <3> QED BY <2>1, <3>1
  <2>2. CASE h # g
    BY Zenon, <2>2 DEF Inv, RefcountExact
  <2> QED BY Zenon, <2>1, <2>2
<1>3. notified[g] = 0 /\ g \in undelivered
  BY Zenon DEF Inv, NotifiedOnce
<1>4. NotifiedOnce'
  <2> SUFFICES ASSUME NEW h \in Group
      PROVE  /\ notified'[h] <= 1
             /\ notified'[h] = 1 \/ h \in notifying' => References(h)' = 0
             /\ References(h)' > 0 => h \in undelivered' /\ notified'[h] = 0
             /\ h \in undelivered' /\ References(h)' = 0 =>
                  notified'[h] = 1 \/ h \in notifying'
    BY Zenon DEF NotifiedOnce
  <2>1. CASE h = g
    <3>1. References(g) \in Nat /\ References(g)' \in Nat
      BY Zenon, ReferencesType, ReferencesTypeNext DEF Inv
    <3>2. g \notin notifying
      BY <3>1 DEF Inv, NotifiedOnce
    <3>3. References(g)' # 0
      BY <3>1
    <3> QED BY <1>1, <1>3, <2>1, <3>2, <3>3
  <2>2. CASE h # g
    BY Zenon, <1>1, <2>2 DEF Inv, NotifiedOnce
  <2> QED BY Zenon, <2>1, <2>2
<1>5. DeliveryTruthful'
  <2> SUFFICES ASSUME NEW h \in Group, notified'[h] > 0
               PROVE  info'[h].rejected = rejectCount'[h] /\ info'[h].accepted = acceptCount'[h]
    BY Zenon DEF DeliveryTruthful
  <2>1. h # g
    BY <1>1, <1>3
  <2> QED BY Zenon, <1>1, <2>1 DEF Inv, DeliveryTruthful
<1>6. ChannelHasRoom' /\ Waiting'
  BY Zenon, <1>1 DEF Inv, ChannelHasRoom, Waiting
<1> QED BY Zenon, <1>2, <1>4, <1>5, <1>6 DEF Inv

\* newTrackingMetricGroup gives a new group its references, or notifies at once.
LEMMA AddGroupInv ==
  ASSUME Inv, NEW g \in Group, NEW n \in 0 .. MaxGroup, AddTrackingMetricGroup(g, n)
  PROVE  Inv'
<1> USE TrackingAssumption
<1>1. TypeOK'
  <2>1. /\ rc' \in [Group -> Int] /\ unsent' \in [Group -> Nat]
        /\ undelivered' \subseteq Group /\ notifying' \subseteq Group
    BY DEF AddTrackingMetricGroup, Inv, TypeOK
  <2> QED BY Zenon, <2>1 DEF AddTrackingMetricGroup, setting, Inv, TypeOK
<1>2. References(g) = 0 /\ g \notin undelivered /\ notified[g] = 0
  BY ReferencesType DEF AddTrackingMetricGroup, Fresh, Inv, NotifiedOnce
<1>3. References(g)' = n /\ rc'[g] = n /\ n \in Nat
  <2>1. /\ unsent[g] \in Nat /\ queued[g] \in Nat /\ held[g] \in Nat /\ kept[g] \in Nat
        /\ leaving[g] \in Nat
        /\ n \in Nat /\ unsent'[g] = n /\ rc'[g] = n
    BY DEF AddTrackingMetricGroup, Inv, TypeOK
  <2>2. queued[g] = 0 /\ held[g] = 0 /\ kept[g] = 0 /\ leaving[g] = 0 /\ fan # g
    <3>1. ASSUME NEW a \in Nat, NEW b \in Nat, NEW c \in Nat, NEW k \in Nat, NEW d \in Nat,
                 NEW f \in Nat, a + b + f + c + k + d = 0
          PROVE  b = 0 /\ c = 0 /\ k = 0 /\ d = 0 /\ f = 0
      BY <3>1
    <3> DEFINE e == IF fan = g THEN 1 ELSE 0
    <3>2. e \in Nat /\ (e = 0 => fan # g)
      OBVIOUS
    <3>3. unsent[g] + queued[g] + e + held[g] + kept[g] + leaving[g] = 0
      BY Zenon, <1>2 DEF References
    <3> HIDE DEF e
    <3>4. queued[g] = 0 /\ held[g] = 0 /\ kept[g] = 0 /\ leaving[g] = 0 /\ e = 0
      <4>1. /\ unsent[g] \in Nat /\ queued[g] \in Nat /\ held[g] \in Nat /\ kept[g] \in Nat
            /\ leaving[g] \in Nat
            /\ e \in Nat
        BY Zenon, <2>1, <3>2
      <4> QED BY Zenon, <3>1, <3>3, <4>1
    <3> QED BY Zenon, <3>2, <3>4
  <2>3. queued'[g] = 0 /\ held'[g] = 0 /\ kept'[g] = 0 /\ leaving'[g] = 0 /\ fan' # g
    BY Zenon, <2>2 DEF AddTrackingMetricGroup
  <2> QED BY <2>1, <2>3 DEF References
<1>4. \A h \in Group \ {g} : References(h)' = References(h) /\ rc'[h] = rc[h]
  BY Zenon DEF AddTrackingMetricGroup, References, Inv, TypeOK
<1>5. RefcountExact'
  BY Zenon, <1>3, <1>4 DEF RefcountExact, Inv
<1>6. NotifiedOnce'
  <2> SUFFICES ASSUME NEW h \in Group
      PROVE  /\ notified'[h] <= 1
             /\ notified'[h] = 1 \/ h \in notifying' => References(h)' = 0
             /\ References(h)' > 0 => h \in undelivered' /\ notified'[h] = 0
             /\ h \in undelivered' /\ References(h)' = 0 =>
                  notified'[h] = 1 \/ h \in notifying'
    BY Zenon DEF NotifiedOnce
  <2>1. CASE h = g
    <3>1. g \notin notifying
      BY Zenon, <1>2 DEF Inv, Waiting
    <3> QED BY <1>2, <1>3, <2>1, <3>1 DEF AddTrackingMetricGroup
  <2>2. CASE h # g
    BY Zenon, <1>4, <2>2 DEF AddTrackingMetricGroup, Inv, NotifiedOnce
  <2> QED BY Zenon, <2>1, <2>2
<1>7. DeliveryTruthful' /\ ChannelHasRoom'
  BY Zenon DEF AddTrackingMetricGroup, DeliveryTruthful, ChannelHasRoom, Inv
<1>8. Waiting'
  <2>1. IsFiniteSet(undelivered') /\ Cardinality(undelivered') = Cardinality(undelivered) + 1
    BY Zenon, <1>2, FS_AddElement DEF AddTrackingMetricGroup, Inv, Waiting
  <2>2. Cardinality(undelivered) \in Nat /\ Cardinality(undelivered) < MaxTracked
    BY Zenon, FS_CardinalityType DEF AddTrackingMetricGroup, Inv, Waiting
  <2>3. Cardinality(undelivered') <= MaxTracked
    BY <2>1, <2>2
  <2>4. notifying' \subseteq undelivered' /\ delivered' \subseteq undelivered'
    BY Zenon DEF AddTrackingMetricGroup, Inv, Waiting
  <2>5. \A h \in notifying' : notified'[h] = 0
    BY Zenon, <1>2 DEF AddTrackingMetricGroup, Inv, Waiting
  <2>6. \A h \in delivered' : notified'[h] = 1
    BY Zenon DEF AddTrackingMetricGroup, Inv, Waiting
  <2>7. fan' # None => output' \in 1 .. NOutputs
    BY Zenon DEF AddTrackingMetricGroup, Inv, Waiting
  <2> QED BY Zenon, <2>1, <2>3, <2>4, <2>5, <2>6, <2>7 DEF Waiting
<1> QED BY Zenon, <1>1, <1>5, <1>6, <1>7, <1>8 DEF Inv

\* AddMetric of the accumulator moves a reference into the channel, or drops it.
LEMMA AddMetricInv ==
  ASSUME Inv, NEW g \in Group, AddMetric(g)
  PROVE  Inv'
<1>1. TypeOK'
  <2>1. unsent' \in [Group -> Nat] /\ queued' \in [Group -> Nat] /\ leaving' \in [Group -> Nat]
    <3>1. \A f \in [Group -> Nat] : Raise(f, g) \in [Group -> Nat]
      BY DEF Raise
    <3>2. /\ unsent \in [Group -> Nat] /\ queued \in [Group -> Nat] /\ leaving \in [Group -> Nat]
          /\ unsent[g] > 0
      BY Zenon DEF AddMetric, Inv, TypeOK
    <3>3. Lower(unsent, g) \in [Group -> Nat]
      BY <3>2 DEF Lower
    <3> QED BY Zenon, <3>1, <3>2, <3>3 DEF AddMetric
  <2> QED BY Zenon, <2>1 DEF AddMetric, data, setting, notes, Inv, TypeOK
<1>2. References(g) > 0 /\ References(g)' = References(g)
  BY DEF AddMetric, References, Inv, TypeOK, Raise, Lower
<1>3. \A h \in Group \ {g} : References(h)' = References(h)
  BY Zenon DEF AddMetric, References, Inv, TypeOK, Raise, Lower
<1>4. rc' = rc /\ acceptCount' = acceptCount /\ rejectCount' = rejectCount
  BY Zenon DEF AddMetric, data
<1>5. rc'[g] - rc[g] = References(g)' - References(g)
  BY <1>2, <1>4, ReferencesType DEF Inv, TypeOK
<1>6. UNCHANGED <<undelivered, notes>> /\ (fan' # None => output' \in 1 .. NOutputs)
  BY Zenon DEF AddMetric, Inv, Waiting
<1> QED BY Zenon, <1>1, <1>2, <1>3, <1>4, <1>5, <1>6, BusyInv

\* A processor that drops a metric moves its reference.
LEMMA DiscardInv ==
  ASSUME Inv, NEW g \in Group, Discard(g)
  PROVE  Inv'
<1>1. TypeOK'
  <2>1. queued' \in [Group -> Nat] /\ leaving' \in [Group -> Nat]
    BY DEF Discard, Inv, TypeOK, Raise, Lower
  <2> QED BY Zenon, <2>1 DEF Discard, data, setting, notes, Inv, TypeOK
<1>2. References(g) > 0 /\ References(g)' = References(g)
  <2>1. /\ unsent[g] \in Nat /\ queued[g] \in Nat /\ held[g] \in Nat /\ kept[g] \in Nat
        /\ leaving[g] \in Nat
        /\ queued[g] > 0
    BY Zenon DEF Discard, Inv, TypeOK
  <2>2. queued'[g] = queued[g] - 1 /\ leaving'[g] = leaving[g] + 1
    BY Zenon DEF Discard, Inv, TypeOK, Raise, Lower
  <2>3. unsent' = unsent /\ held' = held /\ kept' = kept /\ fan' = fan
    BY Zenon DEF Discard
  <2> QED BY <2>1, <2>2, <2>3 DEF References
<1>3. \A h \in Group \ {g} : References(h)' = References(h)
  BY Zenon DEF Discard, References, Inv, TypeOK, Raise, Lower
<1>4. rc' = rc /\ acceptCount' = acceptCount /\ rejectCount' = rejectCount
  BY Zenon DEF Discard, data
<1>5. rc'[g] - rc[g] = References(g)' - References(g)
  BY <1>2, <1>4, ReferencesType DEF Inv, TypeOK
<1>6. UNCHANGED <<undelivered, notes>> /\ (fan' # None => output' \in 1 .. NOutputs)
  BY Zenon DEF Discard, Inv, Waiting
<1> QED BY <1>1, <1>2, <1>3, <1>4, <1>5, <1>6, BusyInv

\* A copy is one reference more.
LEMMA CopyInv ==
  ASSUME Inv, NEW g \in Group, Copy(g)
  PROVE  Inv'
<1>1. TypeOK'
  <2>1. rc' \in [Group -> Int] /\ queued' \in [Group -> Nat] /\ copies' \in [Group -> Nat]
    BY DEF Copy, Inv, TypeOK, Raise
  <2> QED BY Zenon, <2>1 DEF Copy, setting, notes, Inv, TypeOK
<1>2. References(g) > 0 /\ References(g)' = References(g) + 1
  <2>1. /\ unsent[g] \in Nat /\ queued[g] \in Nat /\ held[g] \in Nat /\ kept[g] \in Nat
        /\ leaving[g] \in Nat
        /\ queued[g] > 0
    BY Zenon DEF Copy, Inv, TypeOK
  <2>2. queued'[g] = queued[g] + 1
    BY Zenon DEF Copy, Inv, TypeOK, Raise
  <2>3. unsent' = unsent /\ held' = held /\ kept' = kept /\ fan' = fan /\ leaving' = leaving
    BY Zenon DEF Copy
  <2> QED BY <2>1, <2>2, <2>3 DEF References
<1>3. \A h \in Group \ {g} : References(h)' = References(h) /\ rc'[h] = rc[h]
  BY Zenon DEF Copy, References, Inv, TypeOK, Raise
<1>4. rc'[g] = rc[g] + 1 /\ rc[g] \in Int
  BY Zenon DEF Copy, Inv, TypeOK, Raise
<1>5. /\ rc'[g] - rc[g] = References(g)' - References(g)
      /\ References(g)' > 0
  BY <1>2, <1>4, ReferencesType DEF Inv
<1>6. /\ UNCHANGED <<undelivered, notes>> /\ (fan' # None => output' \in 1 .. NOutputs)
      /\ acceptCount' = acceptCount /\ rejectCount' = rejectCount
  BY Zenon DEF Copy, Inv, Waiting
<1> QED BY Zenon, <1>1, <1>2, <1>3, <1>5, <1>6, BusyInv

\* runOutputs takes a reference from the channel.
LEMMA ReceiveInv ==
  ASSUME Inv, NEW g \in Group, Receive(g)
  PROVE  Inv'
<1> USE TrackingAssumption
<1>1. TypeOK'
  <2>1. queued' \in [Group -> Nat] /\ fan' \in Group \cup {None} /\ output' \in 0 .. NOutputs
    BY DEF Receive, Inv, TypeOK, Lower
  <2> QED BY Zenon, <2>1 DEF Receive, data, setting, notes, Inv, TypeOK
<1>2. References(g) > 0 /\ References(g)' = References(g)
  <2>1. /\ unsent[g] \in Nat /\ queued[g] \in Nat /\ held[g] \in Nat /\ kept[g] \in Nat
        /\ leaving[g] \in Nat
        /\ queued[g] > 0 /\ fan # g
    BY Zenon DEF Receive, Inv, TypeOK
  <2>2. queued'[g] = queued[g] - 1 /\ fan' = g
    BY Zenon DEF Receive, Inv, TypeOK, Lower
  <2>3. unsent' = unsent /\ held' = held /\ kept' = kept /\ leaving' = leaving
    BY Zenon DEF Receive
  <2> QED BY <2>1, <2>2, <2>3 DEF References
<1>3. \A h \in Group \ {g} : References(h)' = References(h)
  BY Zenon DEF Receive, References, Inv, TypeOK, Lower
<1>4. rc' = rc /\ acceptCount' = acceptCount /\ rejectCount' = rejectCount
  BY Zenon DEF Receive, data
<1>5. rc'[g] - rc[g] = References(g)' - References(g)
  BY <1>2, <1>4, ReferencesType DEF Inv, TypeOK
<1>6. UNCHANGED <<undelivered, notes>> /\ (fan' # None => output' \in 1 .. NOutputs)
  BY DEF Receive
<1> QED BY Zenon, <1>1, <1>2, <1>3, <1>4, <1>5, <1>6, BusyInv

\* Wherever RunningOutput.AddMetric puts a metric, it is one reference there.
LEMMA GivenIsOne ==
  ASSUME TypeOK, NEW g \in Group, NEW o, GiveTo(o, g)
  PROVE  /\ held' \in [Group -> Nat] /\ kept' \in [Group -> Nat] /\ leaving' \in [Group -> Nat]
         /\ held'[g] + kept'[g] + leaving'[g] = held[g] + kept[g] + leaving[g] + 1
         /\ \A h \in Group \ {g} :
              held'[h] = held[h] /\ kept'[h] = kept[h] /\ leaving'[h] = leaving[h]
<1>0. held \in [Group -> Nat] /\ kept \in [Group -> Nat] /\ leaving \in [Group -> Nat]
  BY Zenon DEF TypeOK
<1>1. CASE leaving' = Raise(leaving, g) /\ UNCHANGED <<held, kept>>
  BY <1>0, <1>1 DEF Raise
<1>2. CASE kept' = Raise(kept, g) /\ UNCHANGED <<held, leaving>>
  BY <1>0, <1>2 DEF Raise
<1>3. CASE held' = Raise(held, g) /\ UNCHANGED <<kept, leaving>>
  BY <1>0, <1>3 DEF Raise
<1> QED BY Zenon, <1>1, <1>2, <1>3 DEF GiveTo

\* The fan-out copies a reference for all outputs but the last.
LEMMA FanOutInv ==
  ASSUME Inv, NEW g \in Group, g = fan, FanOut
  PROVE  Inv'
<1> USE TrackingAssumption
<1>0. /\ held' \in [Group -> Nat] /\ kept' \in [Group -> Nat] /\ leaving' \in [Group -> Nat]
      /\ held'[g] + kept'[g] + leaving'[g] = held[g] + kept[g] + leaving[g] + 1
      /\ \A h \in Group \ {g} :
           held'[h] = held[h] /\ kept'[h] = kept[h] /\ leaving'[h] = leaving[h]
  BY Zenon, GivenIsOne DEF FanOut, Inv
<1>1. TypeOK'
  <2>1. rc' \in [Group -> Int]
    BY DEF FanOut, Inv, TypeOK, Raise
  <2>2. fan' \in Group \cup {None} /\ output' \in 0 .. NOutputs
    BY DEF FanOut, Inv, TypeOK
  <2> QED BY Zenon, <1>0, <2>1, <2>2 DEF FanOut, setting, notes, Inv, TypeOK
<1>2. /\ unsent[g] \in Nat /\ queued[g] \in Nat /\ held[g] \in Nat /\ kept[g] \in Nat
      /\ leaving[g] \in Nat /\ rc[g] \in Int
      /\ held'[g] \in Nat /\ kept'[g] \in Nat /\ leaving'[g] \in Nat
      /\ unsent' = unsent /\ queued' = queued
  BY Zenon, <1>0 DEF FanOut, Inv, TypeOK
<1>3. References(g) > 0
  BY <1>2 DEF References
<1>4. /\ References(g)' > 0
      /\ rc'[g] - rc[g] = References(g)' - References(g)
  <2>1. CASE output < NOutputs
    <3>1. rc'[g] = rc[g] + 1 /\ fan' = g
      BY <2>1 DEF FanOut, Inv, TypeOK, Raise
    <3> QED BY <1>0, <1>2, <3>1 DEF References
  <2>2. CASE output = NOutputs
    <3>1. rc'[g] = rc[g] /\ fan' # g
      BY <2>2 DEF FanOut
    <3> QED BY <1>0, <1>2, <3>1 DEF References
  <2>3. output \in 0 .. NOutputs
    BY Zenon DEF Inv, TypeOK
  <2> QED BY <2>1, <2>2, <2>3
<1>5. \A h \in Group \ {g} : References(h)' = References(h) /\ rc'[h] = rc[h]
  BY Zenon, <1>0 DEF FanOut, References, Inv, TypeOK, Raise
<1>6. UNCHANGED <<undelivered, notes>> /\ acceptCount' = acceptCount /\ rejectCount' = rejectCount
  BY Zenon DEF FanOut
<1>7. fan' # None => output' \in 1 .. NOutputs
  BY DEF FanOut, Inv, Waiting
<1> QED BY Zenon, <1>1, <1>3, <1>4, <1>5, <1>6, <1>7, BusyInv

\* An answer is counted while its reference still is: nobody is notified before.
LEMMA AnswerInv ==
  ASSUME Inv, NEW g \in Group, Answer(g)
  PROVE  Inv'
<1>1. TypeOK'
  <2>1. held' \in [Group -> Nat] /\ leaving' \in [Group -> Nat]
    BY DEF Answer, Inv, TypeOK, Raise, Lower
  <2>2. acceptCount' \in [Group -> Nat] /\ rejectCount' \in [Group -> Nat]
    <3>1. \A f \in [Group -> Nat] : Raise(f, g) \in [Group -> Nat]
      BY DEF Raise
    <3>2. acceptCount \in [Group -> Nat] /\ rejectCount \in [Group -> Nat]
      BY Zenon DEF Inv, TypeOK
    <3> QED BY Zenon, <3>1, <3>2 DEF Answer
  <2> QED BY Zenon, <2>1, <2>2 DEF Answer, setting, notes, Inv, TypeOK
<1>2. References(g) > 0 /\ References(g)' = References(g)
  <2>1. /\ unsent[g] \in Nat /\ queued[g] \in Nat /\ held[g] \in Nat /\ kept[g] \in Nat
        /\ leaving[g] \in Nat
        /\ held[g] > 0
    BY Zenon DEF Answer, Inv, TypeOK
  <2>2. held'[g] = held[g] - 1 /\ leaving'[g] = leaving[g] + 1
    BY Zenon DEF Answer, Inv, TypeOK, Raise, Lower
  <2>3. unsent' = unsent /\ queued' = queued /\ fan' = fan /\ kept' = kept
    BY Zenon DEF Answer
  <2> QED BY <2>1, <2>2, <2>3 DEF References
<1>3. \A h \in Group \ {g} : References(h)' = References(h)
  BY Zenon DEF Answer, References, Inv, TypeOK, Raise, Lower
<1>4. \A h \in Group \ {g} : acceptCount'[h] = acceptCount[h] /\ rejectCount'[h] = rejectCount[h]
  BY Zenon DEF Answer, Inv, TypeOK, Raise
<1>5. rc' = rc /\ rc'[g] - rc[g] = References(g)' - References(g)
  BY <1>2, ReferencesType DEF Answer, Inv, TypeOK
<1>6. UNCHANGED <<undelivered, notes>> /\ (fan' # None => output' \in 1 .. NOutputs)
  BY Zenon DEF Answer, Inv, Waiting
<1> QED BY Zenon, <1>1, <1>2, <1>3, <1>4, <1>5, <1>6, BusyInv

\* The last Write leaves a reference behind.
LEMMA AbandonInv ==
  ASSUME Inv, NEW g \in Group, Abandon(g)
  PROVE  Inv'
<1>1. TypeOK'
  <2>1. held' \in [Group -> Nat] /\ kept' \in [Group -> Nat]
    BY DEF Abandon, Inv, TypeOK, Raise, Lower
  <2> QED BY Zenon, <2>1 DEF Abandon, data, setting, notes, Inv, TypeOK
<1>2. References(g) > 0 /\ References(g)' = References(g)
  <2>1. /\ unsent[g] \in Nat /\ queued[g] \in Nat /\ held[g] \in Nat /\ kept[g] \in Nat
        /\ leaving[g] \in Nat /\ held[g] > 0
    BY Zenon DEF Abandon, Inv, TypeOK
  <2>2. held'[g] = held[g] - 1 /\ kept'[g] = kept[g] + 1
    BY Zenon DEF Abandon, Inv, TypeOK, Raise, Lower
  <2>3. unsent' = unsent /\ queued' = queued /\ fan' = fan /\ leaving' = leaving
    BY Zenon DEF Abandon
  <2> QED BY <2>1, <2>2, <2>3 DEF References
<1>3. \A h \in Group \ {g} : References(h)' = References(h)
  BY Zenon DEF Abandon, References, Inv, TypeOK, Raise, Lower
<1>4. rc' = rc /\ acceptCount' = acceptCount /\ rejectCount' = rejectCount
  BY Zenon DEF Abandon, data
<1>5. rc'[g] - rc[g] = References(g)' - References(g)
  BY <1>2, <1>4, ReferencesType DEF Inv, TypeOK
<1>6. UNCHANGED <<undelivered, notes>> /\ (fan' # None => output' \in 1 .. NOutputs)
  BY Zenon DEF Abandon, Inv, Waiting
<1> QED BY Zenon, <1>1, <1>2, <1>3, <1>4, <1>5, <1>6, BusyInv

\* The last reference to go leaves its group to be notified.
LEMMA DecrInv ==
  ASSUME Inv, NEW g \in Group, decr(g)
  PROVE  Inv'
<1>1. TypeOK'
  <2>1. rc' \in [Group -> Int] /\ leaving' \in [Group -> Nat] /\ notifying' \subseteq Group
    BY DEF decr, Inv, TypeOK, Lower
  <2> QED BY Zenon, <2>1 DEF decr, setting, Inv, TypeOK
<1>2. References(g) > 0 /\ References(g)' = References(g) - 1
  <2>1. /\ unsent[g] \in Nat /\ queued[g] \in Nat /\ held[g] \in Nat /\ kept[g] \in Nat
        /\ leaving[g] \in Nat
        /\ leaving[g] > 0
    BY Zenon DEF decr, Inv, TypeOK
  <2>2. leaving'[g] = leaving[g] - 1
    BY Zenon DEF decr, Inv, TypeOK, Lower
  <2>3. unsent' = unsent /\ queued' = queued /\ held' = held /\ kept' = kept /\ fan' = fan
    BY Zenon DEF decr
  <2> QED BY <2>1, <2>2, <2>3 DEF References
<1>3. \A h \in Group \ {g} : References(h)' = References(h) /\ rc'[h] = rc[h]
  BY Zenon DEF decr, References, Inv, TypeOK, Lower
<1>4. rc'[g] = rc[g] - 1 /\ rc[g] = References(g) /\ References(g) \in Nat
  BY Zenon, ReferencesType DEF decr, Inv, TypeOK, Lower, RefcountExact
<1>5. RefcountExact'
  BY Zenon, <1>2, <1>3, <1>4 DEF RefcountExact, Inv
<1>6. g \in undelivered /\ notified[g] = 0 /\ g \notin notifying
  BY <1>2, <1>4 DEF Inv, NotifiedOnce
<1>7. NotifiedOnce'
  <2> SUFFICES ASSUME NEW h \in Group
      PROVE  /\ notified'[h] <= 1
             /\ notified'[h] = 1 \/ h \in notifying' => References(h)' = 0
             /\ References(h)' > 0 => h \in undelivered' /\ notified'[h] = 0
             /\ h \in undelivered' /\ References(h)' = 0 =>
                  notified'[h] = 1 \/ h \in notifying'
    BY Zenon DEF NotifiedOnce
  <2>1. CASE h = g
    <3>1. notified' = notified /\ undelivered' = undelivered
          /\ (g \in notifying' <=> rc[g] = 1)
      BY Zenon, <1>6 DEF decr
    <3>2. References(g)' = 0 <=> rc[g] = 1
      BY <1>2, <1>4
    <3> QED BY <1>6, <2>1, <3>1, <3>2
  <2>2. CASE h # g
    BY Zenon, <1>3, <2>2 DEF decr, Inv, NotifiedOnce
  <2> QED BY Zenon, <2>1, <2>2
<1>8. DeliveryTruthful' /\ ChannelHasRoom'
  BY Zenon DEF decr, DeliveryTruthful, ChannelHasRoom, Inv
<1>9. Waiting'
  BY Zenon, <1>6 DEF decr, Inv, Waiting
<1> QED BY Zenon, <1>1, <1>5, <1>7, <1>8, <1>9 DEF Inv

\* notify finds room: the group is not yet in the channel, which only holds
\* groups the input waits for.
LEMMA NotifyInv ==
  ASSUME Inv, NEW g \in Group, notify(g)
  PROVE  Inv'
<1> USE TrackingAssumption
<1>1. g \in undelivered /\ notified[g] = 0 /\ g \notin delivered /\ References(g) = 0
  BY DEF notify, onDelivery, Inv, Waiting, NotifiedOnce
<1>2. Cardinality(delivered) < MaxTracked
  <2>1. delivered \subseteq undelivered \ {g}
    BY Zenon, <1>1 DEF Inv, Waiting
  <2>2. IsFiniteSet(undelivered \ {g})
        /\ Cardinality(undelivered \ {g}) = Cardinality(undelivered) - 1
    BY Zenon, <1>1, FS_RemoveElement DEF Inv, Waiting
  <2>3. IsFiniteSet(delivered) /\ Cardinality(delivered) <= Cardinality(undelivered \ {g})
    BY Zenon, <2>1, <2>2, FS_Subset
  <2>4. Cardinality(undelivered) \in Nat /\ Cardinality(delivered) \in Nat
        /\ Cardinality(undelivered) <= MaxTracked
    BY Zenon, <2>3, FS_CardinalityType DEF Inv, Waiting
  <2> QED BY <2>2, <2>3, <2>4
<1>3. /\ delivered' = delivered \cup {g} /\ panicked' = panicked
      /\ notifying' = notifying \ {g} /\ notified' = [notified EXCEPT ![g] = 1]
      /\ info' = [info EXCEPT ![g] = [accepted |-> acceptCount[g], rejected |-> rejectCount[g]]]
      /\ undelivered' = undelivered
  <2>1. delivered' = delivered \cup {g} /\ panicked' = panicked
    <3>1. Cardinality(delivered) \in Int
      BY <1>1, FS_Subset, FS_CardinalityType DEF Inv, Waiting
    <3>2. ~(Cardinality(delivered) >= MaxTracked)
      BY <1>2, <3>1
    <3> QED BY Zenon, <3>2 DEF notify, onDelivery
  <2>2. notified' = [notified EXCEPT ![g] = 1]
    BY <1>1 DEF notify, Raise, Inv, TypeOK
  <2> QED BY Zenon, <2>1, <2>2 DEF notify, onDelivery
<1>4. TypeOK'
  <2>1. notified' \in [Group -> Nat] /\ delivered' \subseteq Group /\ notifying' \subseteq Group
    BY Zenon, <1>3 DEF Inv, TypeOK
  <2>2. info' \in [Group -> [accepted : Nat, rejected : Nat]]
    <3>1. [accepted |-> acceptCount[g], rejected |-> rejectCount[g]] \in [accepted : Nat, rejected : Nat]
      BY Zenon DEF Inv, TypeOK
    <3> QED BY Zenon, <1>3, <3>1 DEF Inv, TypeOK
  <2>3. panicked' \in BOOLEAN
    BY Zenon, <1>3 DEF Inv, TypeOK
  <2> QED BY Zenon, <1>3, <2>1, <2>2, <2>3 DEF notify, data, setting, places, Inv, TypeOK
<1>5. \A h \in Group : References(h)' = References(h) /\ rc'[h] = rc[h]
  BY Zenon DEF notify, data, places, References
<1>6. RefcountExact'
  BY Zenon, <1>5 DEF RefcountExact, Inv
<1>7. NotifiedOnce'
  <2> SUFFICES ASSUME NEW h \in Group
      PROVE  /\ notified'[h] <= 1
             /\ notified'[h] = 1 \/ h \in notifying' => References(h)' = 0
             /\ References(h)' > 0 => h \in undelivered' /\ notified'[h] = 0
             /\ h \in undelivered' /\ References(h)' = 0 =>
                  notified'[h] = 1 \/ h \in notifying'
    BY Zenon DEF NotifiedOnce
  <2>1. CASE h = g
    <3>1. notified'[h] = 1 /\ References(h)' = 0
      BY Zenon, <1>1, <1>3, <1>5, <2>1 DEF Inv, TypeOK
    <3> QED BY <3>1
  <2>2. CASE h # g
    BY Zenon, <1>3, <1>5, <2>2 DEF Inv, NotifiedOnce, TypeOK
  <2> QED BY Zenon, <2>1, <2>2
<1>8. DeliveryTruthful'
  <2>1. acceptCount' = acceptCount /\ rejectCount' = rejectCount
    BY Zenon DEF notify, data
  <2> SUFFICES ASSUME NEW h \in Group, notified'[h] > 0
               PROVE  info'[h].rejected = rejectCount[h] /\ info'[h].accepted = acceptCount[h]
    BY Zenon, <2>1 DEF DeliveryTruthful
  <2>2. CASE h = g
    BY Zenon, <1>3, <2>2 DEF Inv, TypeOK
  <2>3. CASE h # g
    BY Zenon, <1>3, <2>3 DEF Inv, TypeOK, DeliveryTruthful
  <2> QED BY Zenon, <2>2, <2>3
<1>9. ChannelHasRoom'
  BY Zenon, <1>3 DEF Inv, ChannelHasRoom
<1>10. Waiting'
  <2>1. \A h \in notifying' : notified'[h] = 0
    BY Zenon, <1>3 DEF Inv, Waiting, TypeOK
  <2>2. \A h \in delivered' : notified'[h] = 1
    BY <1>1, <1>3 DEF Inv, Waiting, TypeOK
  <2>3. fan' = fan /\ output' = output
    BY Zenon DEF notify, places
  <2> QED BY Zenon, <1>1, <1>3, <2>1, <2>2, <2>3 DEF Inv, Waiting
<1> QED BY Zenon, <1>4, <1>6, <1>7, <1>8, <1>9, <1>10 DEF Inv

\* Reading the channel frees a slot.
LEMMA ReadInv ==
  ASSUME Inv, NEW g \in Group, Read(g)
  PROVE  Inv'
<1>1. TypeOK'
  BY Zenon DEF Read, data, setting, places, Inv, TypeOK
<1>2. \A h \in Group : References(h)' = References(h) /\ rc'[h] = rc[h]
  BY Zenon DEF Read, data, places, References
<1>3. RefcountExact' /\ DeliveryTruthful' /\ ChannelHasRoom'
  BY Zenon, <1>2 DEF Read, data, RefcountExact, DeliveryTruthful, ChannelHasRoom, Inv
<1>4. notified[g] = 1 /\ References(g) = 0
  BY Zenon DEF Read, Inv, Waiting, NotifiedOnce
<1>5. NotifiedOnce'
  BY <1>2, <1>4 DEF Read, Inv, NotifiedOnce
<1>6. Waiting'
  <2>1. g \in undelivered /\ g \notin notifying
    BY <1>4 DEF Read, Inv, Waiting
  <2>2. IsFiniteSet(undelivered')
        /\ Cardinality(undelivered') = Cardinality(undelivered) - 1
    BY Zenon, <2>1, FS_RemoveElement DEF Read, Inv, Waiting
  <2>3. Cardinality(undelivered) \in Nat /\ Cardinality(undelivered) <= MaxTracked
    BY Zenon, FS_CardinalityType DEF Inv, Waiting
  <2>4. Cardinality(undelivered') <= MaxTracked
    BY <2>2, <2>3, TrackingAssumption
  <2>5. /\ notifying' \subseteq undelivered' /\ delivered' \subseteq undelivered'
        /\ \A h \in notifying' : notified'[h] = 0
        /\ \A h \in delivered' : notified'[h] = 1
        /\ fan' # None => output' \in 1 .. NOutputs
    BY Zenon, <2>1 DEF Read, places, Inv, Waiting
  <2> QED BY Zenon, <2>2, <2>4, <2>5 DEF Waiting
<1> QED BY Zenon, <1>1, <1>3, <1>5, <1>6 DEF Inv

\* Every step keeps the invariant.
LEMMA StepInv == Inv /\ [Next]_vars => Inv'
<1> SUFFICES ASSUME Inv, [Next]_vars PROVE Inv'
  OBVIOUS
<1>1. CASE UNCHANGED vars
  BY Zenon, <1>1 DEF vars, data, setting, places, notes, Inv, TypeOK, RefcountExact, References,
    NotifiedOnce, DeliveryTruthful, ChannelHasRoom, Waiting
<1>2. CASE Finished
  BY Zenon, <1>1, <1>2 DEF Finished
<1>4. CASE Stop
  <2>1. TypeOK'
    BY Zenon, <1>4 DEF Stop, data, places, notes, Inv, TypeOK
  <2> QED
    BY Zenon, <1>4, <2>1 DEF Stop, data, places, notes, Inv, RefcountExact, References, NotifiedOnce,
       DeliveryTruthful, ChannelHasRoom, Waiting
<1>3. ASSUME NEW g \in Group, Step(g) PROVE Inv'
  BY Zenon, <1>3, AddGroupInv, AddMetricInv, DiscardInv, CopyInv, ReceiveInv, FanOutInv, AnswerInv,
    AbandonInv, DecrInv, NotifyInv, ReadInv DEF Step
<1> QED BY Zenon, <1>1, <1>2, <1>3, <1>4 DEF Next

\* The inductive invariant holds of every reachable state.
LEMMA AlwaysInv == Spec => []Inv
  BY InitInv, StepInv, PTL DEF Spec

\* Counters and places keep their types.
THEOREM TrackingTypeCorrect == Spec => []TypeOK
<1>1. Inv => TypeOK
  BY Zenon DEF Inv
<1> QED BY <1>1, AlwaysInv, PTL

\* The reference count of trackingData is the number of metrics that still have
\* to be accepted, rejected or dropped, however the owners' steps interleave.
THEOREM RefcountCorrect == Spec => []RefcountExact
<1>1. Inv => RefcountExact
  BY Zenon DEF Inv
<1> QED BY <1>1, AlwaysInv, PTL

\* notify is called once for a group, when no metric of it is left.
THEOREM NotifyCorrect == Spec => []NotifiedOnce
<1>1. Inv => NotifiedOnce
  BY Zenon DEF Inv
<1> QED BY <1>1, AlwaysInv, PTL

\* The DeliveryInfo the input reads holds the final counts.
THEOREM DeliveryCorrect == Spec => []DeliveryTruthful
<1>1. Inv => DeliveryTruthful
  BY Zenon DEF Inv
<1> QED BY <1>1, AlwaysInv, PTL

\* onDelivery never panics for an input that keeps to its maximum.
THEOREM ChannelCorrect == Spec => []ChannelHasRoom
<1>1. Inv => ChannelHasRoom
  BY Zenon DEF Inv
<1> QED BY <1>1, AlwaysInv, PTL
-----------------------------------------------------------------------------
\* The groups an input waits for, as it sees them.
Under == {g \in undelivered : notified[g] = 0}

Good == {g \in delivered : info[g].rejected = 0}

\* The accumulator counts as we do.
LEMMA SameCardinality ==
  ASSUME NEW S
  PROVE  Acc!Cardinality(S) = Cardinality(S)
BY Zenon DEF Cardinality, Acc!Cardinality

\* A step that leaves the input's view of its groups alone.
LEMMA SameView ==
  ASSUME UNCHANGED <<undelivered, notified, delivered, info>>
  PROVE  UNCHANGED Acc!vars
BY Zenon DEF Acc!vars

\* A new group: the input has room for it.
LEMMA AddIsAdd ==
  ASSUME Inv, NEW g \in Group, NEW n \in 0 .. MaxGroup, AddTrackingMetricGroup(g, n)
  PROVE  Acc!Add(g)
<1>1. /\ g \notin undelivered /\ notified[g] = 0 /\ Cardinality(undelivered) < MaxTracked
      /\ undelivered' = undelivered \cup {g}
      /\ notified' = notified /\ delivered' = delivered /\ info' = info
  BY Zenon DEF AddTrackingMetricGroup, Fresh
<1>2. IsFiniteSet(undelivered) /\ delivered \subseteq undelivered
  BY Zenon DEF Inv, Waiting
<1>3. Under \cup delivered \subseteq undelivered
  BY Zenon, <1>2 DEF Under
<1>4. g \notin Under \cup delivered
  BY Zenon, <1>1, <1>3
<1>5. Cardinality(Under \cup delivered) < MaxTracked
  <2>1. /\ IsFiniteSet(Under \cup delivered)
        /\ Cardinality(Under \cup delivered) <= Cardinality(undelivered)
    BY Zenon, <1>2, <1>3, FS_Subset
  <2>2. Cardinality(undelivered) \in Nat /\ Cardinality(Under \cup delivered) \in Nat
    BY Zenon, <1>2, <2>1, FS_CardinalityType
  <2> QED BY <1>1, <2>1, <2>2, TrackingAssumption
<1>6. Under' = Under \cup {g}
  BY Zenon, <1>1 DEF Under
<1>7. Good' = Good
  BY Zenon, <1>1 DEF Good
<1>8. Acc!Cardinality(Under \cup delivered) < MaxTracked
  BY Zenon, <1>5, SameCardinality
<1> QED BY Zenon, <1>1, <1>4, <1>6, <1>7, <1>8 DEF Acc!Add, Under, Good

\* notify answers the group.
LEMMA NotifyIsDeliver ==
  ASSUME Inv, NEW g \in Group, notify(g)
  PROVE  Acc!Deliver(g)
<1>1. /\ g \in notifying /\ g \in undelivered /\ notified[g] = 0 /\ undelivered' = undelivered
      /\ g \notin delivered
  <2>1. /\ g \in notifying /\ g \in undelivered /\ notified[g] = 0 /\ undelivered' = undelivered
        /\ \A h \in delivered : notified[h] = 1
    BY Zenon DEF notify, Inv, Waiting
  <2>2. g \notin delivered
    BY <2>1
  <2> QED BY Zenon, <2>1, <2>2
<1>2. notified'[g] = 1 /\ \A h \in Group : h # g => notified'[h] = notified[h]
  BY <1>1 DEF notify, Raise, Inv, TypeOK
<1>3. \A h \in Group : h # g => info'[h] = info[h]
  BY Zenon DEF notify, Inv, TypeOK
<1>4. ~panicked'
  BY Zenon, NotifyInv DEF Inv, ChannelHasRoom
<1>5. delivered' = delivered \cup {g}
  BY Zenon, <1>4 DEF notify, onDelivery
<1>6. undelivered \subseteq Group /\ delivered \subseteq Group
  BY Zenon DEF Inv, TypeOK
<1>7. g \in Under
  BY Zenon, <1>1 DEF Under
<1>8. Under' = Under \ {g}
  <2>1. g \notin Under'
    BY <1>2 DEF Under
  <2> QED BY Zenon, <1>1, <1>2, <1>6, <2>1 DEF Under
<1>9. Good' \in {Good, Good \cup {g}}
  <2>1. \A h : h # g => (h \in Good' <=> h \in Good)
    BY Zenon, <1>3, <1>5, <1>6 DEF Good
  <2>2. g \notin Good
    BY Zenon, <1>1 DEF Good
  <2>3. CASE g \in Good'
    <3>1. Good' = Good \cup {g}
      BY Zenon, <2>1, <2>3
    <3> QED BY Zenon, <3>1
  <2>4. CASE g \notin Good'
    <3>1. \A h : h \in Good' <=> h \in Good
      BY Zenon, <2>1, <2>2, <2>4
    <3>2. Good' = Good
      BY <3>1
    <3> QED BY Zenon, <3>2
  <2> QED BY Zenon, <2>3, <2>4
<1> QED BY <1>5, <1>7, <1>8, <1>9 DEF Acc!Deliver, Under, Good

\* The input reads an answer.
LEMMA ReadIsRead ==
  ASSUME Inv, NEW g \in Group, Read(g)
  PROVE  Acc!Read(g)
<1>1. /\ g \in delivered /\ delivered' = delivered \ {g} /\ undelivered' = undelivered \ {g}
      /\ notified' = notified /\ info' = info
  BY Zenon DEF Read
<1>2. notified[g] = 1
  BY Zenon, <1>1 DEF Inv, Waiting
<1>3. notified[g] # 0
  BY <1>2
<1>4. Under' = Under
  BY Zenon, <1>1, <1>3 DEF Under
<1>5. Good' = Good \ {g}
  BY Zenon, <1>1 DEF Good
<1> QED BY Zenon, <1>1, <1>4, <1>5 DEF Acc!Read, Under, Good

\* Every step of the references is a step of the accumulator, or none.
LEMMA StepOfAccumulator == Inv /\ [Next]_vars => [Acc!Next]_(Acc!vars)
<1> SUFFICES ASSUME Inv, [Next]_vars PROVE [Acc!Next]_(Acc!vars)
  OBVIOUS
<1>1. CASE UNCHANGED vars
  BY Zenon, <1>1, SameView DEF vars, notes
<1>2. CASE Finished
  BY Zenon, <1>1, <1>2 DEF Finished
<1>3. ASSUME NEW g \in Group, Step(g) PROVE [Acc!Next]_(Acc!vars)
  <2>1. CASE \/ AddMetric(g) \/ Discard(g) \/ Copy(g) \/ Receive(g)
             \/ (g = fan /\ FanOut) \/ Answer(g) \/ Abandon(g)
    <3>1. UNCHANGED <<undelivered, notified, delivered, info>>
      BY Zenon, <2>1 DEF AddMetric, Discard, Copy, Receive, FanOut, Answer, Abandon, notes
    <3> QED BY Zenon, <3>1, SameView
  <2>2. CASE decr(g)
    <3>1. UNCHANGED <<undelivered, notified, delivered, info>>
      BY Zenon, <2>2 DEF decr
    <3> QED BY Zenon, <3>1, SameView
  <2> QED
    BY Zenon, <1>3, <2>1, <2>2, AddIsAdd, NotifyIsDeliver, ReadIsRead DEF Step, Acc!Next
<1>4. CASE Stop
  BY Zenon, <1>4, SameView DEF Stop, notes
<1> QED BY Zenon, <1>1, <1>2, <1>3, <1>4 DEF Next

\* trackingData and onDelivery implement the accumulator of the inputs: a group they
\* add within their limit is answered once, with an answer that counts every output's,
\* and the send to the channel finds room.
THEOREM TrackingImplementsAccumulator == Spec => ImplementsAccumulator
<1>1. Init => Acc!Init
  BY Zenon DEF Init, Acc!Init
<1> QED BY <1>1, AlwaysInv, StepOfAccumulator, PTL DEF Spec, ImplementsAccumulator, Acc!Spec
-----------------------------------------------------------------------------
(* Every group an input waits for can go on, and only towards its end. *)

\* Someone holds a reference of g and can pass it on or answer it, is about to notify,
\* or the running input can read the answer.  A metric in the channel waits for runOutputs, which
\* has time for it or has another at hand.
GroupGoes(g) ==
  \/ unsent[g] > 0 \/ held[g] > 0 \/ leaving[g] > 0
  \/ queued[g] > 0 /\ fan = None
  \/ fan # None
  \/ g \in notifying
  \/ ~stopped /\ g \in delivered

\* Nobody will do anything for g: an AggregatingOutput has taken a metric of it, the
\* last Write of the shutdown has left one, or the input has stopped before the answer.
GroupLeft(g) ==
  \/ kept[g] > 0 /\ (aggregating # {} \/ stopped)
  \/ stopped /\ g \in delivered

\* The outputs that have not got the metric that is fanned out.
Outputs(g) == IF fan = g THEN NOutputs + 1 - output ELSE 0

\* What is still to be done for g, stage by stage.
Way(g) ==
  << MaxCopies - copies[g], unsent[g], queued[g], Outputs(g), held[g], leaving[g],
     1 - notified[g], IF g \in undelivered THEN 1 ELSE 0 >>

\* The first stage that changes has less to do.
Closer(g) ==
  \E i \in 1 .. 8 :
    /\ Way(g)'[i] < Way(g)[i]
    /\ \A j \in 1 .. 8 : j < i => Way(g)'[j] = Way(g)[j]

\* No group is forgotten but for these: as long as the input waits for it something can
\* be done for it.  Without AggregatingOutputs this is so of every group of a running input.
NeverForgotten ==
  \A g \in undelivered :
    (GroupGoes(g) \/ GroupLeft(g)) /\ \A i \in 1 .. 8 : Way(g)[i] \in Nat

\* Every step for a group leads closer to its end, and no other touches it.
GroupsAdvance ==
  [][\A g \in undelivered : IF Step(g) THEN Closer(g) ELSE UNCHANGED Way(g)]_vars

\* A group that was answered is in the channel until it is read; processors copy
\* finitely often; only AggregatingOutputs and the shutdown keep references.
Remembered ==
  /\ \A g \in Group : kept[g] = 0 \/ aggregating # {} \/ stopped
  /\ \A g \in undelivered : notified[g] = 1 => g \in delivered
  /\ \A g \in Group : copies[g] \in 0 .. MaxCopies

\* The stages, one by one.
LEMMA Stages ==
  ASSUME NEW g
  PROVE  /\ Way(g)[1] = MaxCopies - copies[g] /\ Way(g)[2] = unsent[g]
         /\ Way(g)[3] = queued[g] /\ Way(g)[4] = Outputs(g) /\ Way(g)[5] = held[g]
         /\ Way(g)[6] = leaving[g] /\ Way(g)[7] = 1 - notified[g]
         /\ Way(g)[8] = IF g \in undelivered THEN 1 ELSE 0
BY DEF Way

\* The same after a step.
LEMMA StagesNext ==
  ASSUME NEW g
  PROVE  /\ Way(g)'[1] = MaxCopies - copies'[g] /\ Way(g)'[2] = unsent'[g]
         /\ Way(g)'[3] = queued'[g] /\ Way(g)'[4] = Outputs(g)' /\ Way(g)'[5] = held'[g]
         /\ Way(g)'[6] = leaving'[g] /\ Way(g)'[7] = 1 - notified'[g]
         /\ Way(g)'[8] = IF g \in undelivered' THEN 1 ELSE 0
BY DEF Way

\* Nothing is forgotten at the start.
LEMMA RememberedInit == Init => Remembered
BY TrackingAssumption DEF Init, Remembered

\* notify puts the group in the channel, and only the input takes it out.
LEMMA RememberedStep == Inv /\ Remembered /\ [Next]_vars => Remembered'
<1> SUFFICES ASSUME Inv, Remembered, [Next]_vars PROVE Remembered'
  OBVIOUS
<1>1. CASE UNCHANGED vars
  BY <1>1 DEF vars, setting, places, notes, Remembered
<1>2. CASE Finished
  BY <1>1, <1>2 DEF Finished
<1>3. ASSUME NEW g \in Group, Step(g) PROVE Remembered'
  <2>0. /\ copies \in [Group -> Nat] /\ notified \in [Group -> Nat] /\ undelivered \subseteq Group
    BY DEF Inv, TypeOK
  <2>1. CASE \E n \in 0 .. MaxGroup : AddTrackingMetricGroup(g, n)
    BY <2>0, <2>1 DEF AddTrackingMetricGroup, Fresh, setting, Remembered
  <2>2. CASE AddMetric(g) \/ Discard(g) \/ Receive(g)
    BY <2>2 DEF AddMetric, Discard, Receive, setting, notes, Remembered
  <2>3. CASE Copy(g)
    BY <2>0, <2>3, TrackingAssumption DEF Copy, Raise, setting, notes, Remembered
  <2>4. CASE FanOut
    <3>1. UNCHANGED <<undelivered, notified, delivered, copies, aggregating, stopped>>
      BY Zenon, <2>4 DEF FanOut, setting, notes
    <3>2. kept' = kept \/ aggregating # {}
      BY Zenon, <2>4 DEF FanOut, GiveTo
    <3> QED BY Zenon, <3>1, <3>2 DEF Remembered
  <2>5. CASE Answer(g) \/ decr(g)
    BY <2>5 DEF Answer, decr, setting, notes, Remembered
  <2>8. CASE Abandon(g)
    BY Zenon, <2>8 DEF Abandon, setting, notes, Remembered
  <2>6. CASE notify(g)
    <3>1. ~panicked'
      BY Zenon, <2>6, NotifyInv DEF Inv, ChannelHasRoom
    <3>2. delivered' = delivered \cup {g} /\ undelivered' = undelivered /\ copies' = copies
          /\ kept' = kept /\ aggregating' = aggregating /\ stopped' = stopped
          /\ \A h \in Group : h # g => notified'[h] = notified[h]
      BY <2>0, <2>6, <3>1 DEF notify, onDelivery, Raise, setting, places
    <3> QED BY <2>0, <3>2 DEF Remembered
  <2>7. CASE Read(g)
    BY <2>7 DEF Read, setting, places, Remembered
  <2> QED
    BY Zenon, <1>3, <2>1, <2>2, <2>3, <2>4, <2>5, <2>6, <2>7, <2>8 DEF Step
<1>4. CASE Stop
  BY Zenon, <1>4 DEF Stop, places, notes, Remembered
<1> QED BY Zenon, <1>1, <1>2, <1>3, <1>4 DEF Next

\* A group has a reference, is about to be notified or is in the channel.
LEMMA SomethingToDo ==
  ASSUME Inv, Remembered
  PROVE  NeverForgotten
<1> SUFFICES ASSUME NEW g \in undelivered
             PROVE  (GroupGoes(g) \/ GroupLeft(g)) /\ \A i \in 1 .. 8 : Way(g)[i] \in Nat
  BY Zenon DEF NeverForgotten
<1>0. /\ g \in Group /\ unsent[g] \in Nat /\ queued[g] \in Nat /\ held[g] \in Nat
      /\ kept[g] \in Nat /\ leaving[g] \in Nat /\ notified[g] \in Nat
  BY DEF Inv, TypeOK
<1>1. GroupGoes(g) \/ GroupLeft(g)
  <2>1. CASE References(g) = 0
    <3>1. notified[g] = 1 \/ g \in notifying
      BY Zenon, <1>0, <2>1 DEF Inv, NotifiedOnce
    <3> QED BY Zenon, <3>1 DEF Remembered, GroupGoes, GroupLeft
  <2>2. CASE References(g) # 0
    <3>1. \/ unsent[g] > 0 \/ queued[g] > 0 \/ fan = g \/ held[g] > 0 \/ leaving[g] > 0
          \/ kept[g] > 0
      BY <1>0, <2>2 DEF References
    <3>2. kept[g] > 0 => aggregating # {} \/ stopped
      BY <1>0 DEF Remembered
    <3>3. fan = g => fan # None
      BY <1>0, TrackingAssumption
    <3> QED BY Zenon, <3>1, <3>2, <3>3 DEF GroupGoes, GroupLeft
  <2> QED BY Zenon, <2>1, <2>2
<1>2. MaxCopies - copies[g] \in Nat
  BY <1>0, TrackingAssumption DEF Remembered
<1>3. 1 - notified[g] \in Nat
  BY <1>0 DEF Inv, NotifiedOnce
<1>4. Outputs(g) \in Nat
  BY <1>0, TrackingAssumption DEF Inv, Waiting, Outputs
<1> QED BY <1>0, <1>1, <1>2, <1>3, <1>4, Stages

\* Enough to see that g comes closer.
LEMMA IsCloser ==
  ASSUME NEW g, NEW i \in 1 .. 8, Way(g)'[i] < Way(g)[i],
         \A j \in 1 .. 8 : j < i => Way(g)'[j] = Way(g)[j]
  PROVE  Closer(g)
BY Zenon DEF Closer

\* A step for g.
LEMMA StepIsCloser ==
  ASSUME Inv, Remembered, NEW g \in undelivered, Step(g)
  PROVE  Closer(g)
<1>0. /\ g \in Group /\ g # None
      /\ unsent \in [Group -> Nat] /\ queued \in [Group -> Nat] /\ held \in [Group -> Nat]
      /\ leaving \in [Group -> Nat] /\ notified \in [Group -> Nat] /\ copies \in [Group -> Nat]
  BY TrackingAssumption DEF Inv, TypeOK
<1>1. CASE \E n \in 0 .. MaxGroup : AddTrackingMetricGroup(g, n)
  BY Zenon, <1>1 DEF AddTrackingMetricGroup, Fresh
<1>2. CASE AddMetric(g)
  <2>1. unsent'[g] < unsent[g] /\ copies' = copies
    BY <1>0, <1>2 DEF AddMetric, Lower
  <2> QED BY <2>1, IsCloser, Stages, StagesNext
<1>3. CASE Discard(g) \/ Receive(g)
  <2>1. queued'[g] < queued[g] /\ copies' = copies /\ unsent' = unsent
    BY <1>0, <1>3 DEF Discard, Receive, Lower
  <2> QED BY <2>1, IsCloser, Stages, StagesNext
<1>4. CASE Copy(g)
  <2>1. MaxCopies - copies'[g] < MaxCopies - copies[g]
    BY <1>0, <1>4, TrackingAssumption DEF Copy, Raise
  <2> QED BY <2>1, IsCloser, Stages, StagesNext
<1>5. CASE g = fan /\ FanOut
  <2>1. copies' = copies /\ unsent' = unsent /\ queued' = queued
    BY <1>5 DEF FanOut
  <2>2. output \in 1 .. NOutputs
    BY <1>0, <1>5 DEF Inv, Waiting
  <2>3. Outputs(g)' < Outputs(g)
    BY <1>0, <1>5, <2>2, TrackingAssumption DEF FanOut, Outputs
  <2> QED BY <2>1, <2>3, IsCloser, Stages, StagesNext
<1>6. CASE Answer(g) \/ Abandon(g)
  <2>1. held'[g] < held[g] /\ copies' = copies /\ unsent' = unsent /\ queued' = queued
    BY <1>0, <1>6 DEF Answer, Abandon, Lower
  <2>2. Outputs(g)' = Outputs(g)
    BY <1>6 DEF Answer, Abandon, Outputs
  <2> QED BY <2>1, <2>2, IsCloser, Stages, StagesNext
<1>7. CASE decr(g)
  <2>1. leaving'[g] < leaving[g] /\ copies' = copies /\ unsent' = unsent /\ queued' = queued
        /\ held' = held
    BY <1>0, <1>7 DEF decr, Lower
  <2>2. Outputs(g)' = Outputs(g)
    BY <1>7 DEF decr, Outputs
  <2> QED BY <2>1, <2>2, IsCloser, Stages, StagesNext
<1>8. CASE notify(g)
  <2>1. copies' = copies /\ unsent' = unsent /\ queued' = queued /\ held' = held
        /\ leaving' = leaving
    BY <1>8 DEF notify, places
  <2>2. Outputs(g)' = Outputs(g)
    BY <1>8 DEF notify, places, Outputs
  <2>3. 1 - notified'[g] < 1 - notified[g]
    BY <1>0, <1>8 DEF notify, Raise
  <2> QED BY <2>1, <2>2, <2>3, IsCloser, Stages, StagesNext
<1>9. CASE Read(g)
  <2>1. copies' = copies /\ unsent' = unsent /\ queued' = queued /\ held' = held
        /\ leaving' = leaving /\ notified' = notified /\ g \notin undelivered'
    BY <1>9 DEF Read, places
  <2>2. Outputs(g)' = Outputs(g)
    BY <1>9 DEF Read, places, Outputs
  <2> QED BY <2>1, <2>2, IsCloser, Stages, StagesNext
<1> QED
  BY Zenon, <1>1, <1>2, <1>3, <1>4, <1>5, <1>6, <1>7, <1>8, <1>9 DEF Step

\* A step for another group.
LEMMA OtherStepIsNone ==
  ASSUME Inv, NEW g \in Group, NEW h \in Group, h # g, Step(h)
  PROVE  UNCHANGED Way(g)
<1>0. /\ g # None /\ h # None
      /\ unsent \in [Group -> Nat] /\ queued \in [Group -> Nat] /\ held \in [Group -> Nat]
      /\ leaving \in [Group -> Nat] /\ notified \in [Group -> Nat] /\ copies \in [Group -> Nat]
  BY TrackingAssumption DEF Inv, TypeOK
<1> SUFFICES /\ copies'[g] = copies[g] /\ unsent'[g] = unsent[g] /\ queued'[g] = queued[g]
             /\ Outputs(g)' = Outputs(g) /\ held'[g] = held[g] /\ leaving'[g] = leaving[g]
             /\ notified'[g] = notified[g] /\ (g \in undelivered' <=> g \in undelivered)
  BY DEF Way
<1>1. CASE \E n \in 0 .. MaxGroup : AddTrackingMetricGroup(h, n)
  BY <1>0, <1>1 DEF AddTrackingMetricGroup, Outputs
<1>2. CASE AddMetric(h)
  BY <1>0, <1>2 DEF AddMetric, Lower, Raise, Outputs, notes
<1>3. CASE Discard(h)
  BY <1>0, <1>3 DEF Discard, Lower, Raise, Outputs, notes
<1>4. CASE Copy(h)
  BY <1>0, <1>4 DEF Copy, Raise, Outputs, notes
<1>5. CASE Receive(h)
  BY <1>0, <1>5 DEF Receive, Lower, Outputs, notes
<1>6. CASE h = fan /\ FanOut
  <2>1. held'[g] = held[g] /\ leaving'[g] = leaving[g]
    BY Zenon, <1>6, GivenIsOne DEF FanOut, Inv
  <2> QED BY <1>0, <1>6, <2>1 DEF FanOut, Outputs, notes
<1>7. CASE Answer(h) \/ Abandon(h)
  BY <1>0, <1>7 DEF Answer, Abandon, Lower, Raise, Outputs, notes
<1>8. CASE decr(h)
  BY <1>0, <1>8 DEF decr, Lower, Outputs
<1>9. CASE notify(h)
  BY <1>0, <1>9 DEF notify, Raise, Outputs, places
<1>10. CASE Read(h)
  BY <1>0, <1>10 DEF Read, Outputs, places
<1> QED
  BY Zenon, <1>1, <1>2, <1>3, <1>4, <1>5, <1>6, <1>7, <1>8, <1>9, <1>10 DEF Step

\* The groups an input has added are never forgotten, but for those of which a metric went
\* to an AggregatingOutput or was left behind by the last Write, and come to their end after
\* a finite number of steps of their owners: what EventuallyRead says short of fairness, for
\* any number of groups, metrics, copies and outputs.
THEOREM GroupsComeToAnEnd == Spec => []NeverForgotten /\ GroupsAdvance
<1>1. Spec => [](Inv /\ Remembered)
  BY AlwaysInv, RememberedInit, RememberedStep, PTL DEF Spec
<1>2. Inv /\ Remembered => NeverForgotten
  BY Zenon, SomethingToDo
<1>3. Inv /\ Remembered /\ [Next]_vars
        => [\A g \in undelivered : IF Step(g) THEN Closer(g) ELSE UNCHANGED Way(g)]_vars
  <2> SUFFICES ASSUME Inv, Remembered, Next, NEW g \in undelivered, ~Step(g)
               PROVE  UNCHANGED Way(g)
    BY Zenon, StepIsCloser
  <2>1. g \in Group
    BY Zenon DEF Inv, TypeOK
  <2>2. CASE Finished
    BY <2>2 DEF Finished, vars, places, notes, Way, Outputs
  <2>4. CASE Stop
    BY <2>4 DEF Stop, places, notes, Way, Outputs
  <2>3. ASSUME NEW h \in Group, Step(h) PROVE UNCHANGED Way(g)
    BY Zenon, <2>1, <2>3, OtherStepIsNone
  <2> QED BY Zenon, <2>2, <2>3, <2>4 DEF Next
<1> QED BY <1>1, <1>2, <1>3, PTL DEF Spec, GroupsAdvance
=============================================================================
