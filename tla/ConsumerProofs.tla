--------------------------- MODULE ConsumerProofs ---------------------------
(***************************************************************************)
(* Proofs that the consumers stay within their limit, acknowledge only     *)
(* what was delivered, know the groups whose answers they read, and that   *)
(* kafka_consumer and nsq_consumer are quiet after Stop, for any number of *)
(* messages, partitions, slots and sessions.                               *)
(***************************************************************************)
EXTENDS Consumer, FiniteSetTheorems, TLAPS

States == {"idle", "reserved", "called", "add", "record", "ended"}

Groups == inflight \cup answers

\* Handlers and what they have.
HandlersInv ==
  /\ plugin \in {"kafka", "nsq", "nats", "mqtt"}
  /\ handler \in [Handlers -> States] /\ msg \in [Handlers -> Messages \cup {None}]
  /\ plugin # "kafka" => \A h \in Handlers : h # Sole => handler[h] = "ended"
  /\ stop = "new" => \A h \in Handlers : handler[h] = "ended"

\* A message is in one place: with the broker, with one handler before it has added
\* the group, on its way, or answered.
PlacesInv ==
  /\ broker \subseteq Messages /\ inflight \subseteq Messages /\ answers \subseteq Messages
  /\ inflight \cap answers = {} /\ broker \cap Groups = {}
  /\ \A h \in Handlers : handler[h] \in {"called", "add"} =>
       msg[h] \in Messages /\ msg[h] \notin broker \cup Groups
  /\ \A h, k \in Handlers :
       handler[h] \in {"called", "add"} /\ handler[k] \in {"called", "add"} /\ msg[h] = msg[k]
         => h = k

\* A group that is not in the map is that of the handler about to put it there,
\* which has the mutex if a goroutine reads the answers.
KnownInv ==
  /\ plugin # "nats" => \A m \in Groups :
       m \in messages \/ \E h \in Handlers : handler[h] = "record" /\ msg[h] = m
  /\ plugin \in Own => \A h \in Handlers : handler[h] = "record" => mu
  /\ plugin \in Own => \A h, k \in Handlers :
       handler[h] = "record" /\ handler[k] = "record" => h = k
  /\ plugin = "mqtt" => ~mu

\* While a session lasts its answers are read, and a mutex that is locked has an owner.
ReadersInv ==
  /\ session \in Nat
  /\ deliverer = "running" => plugin \in Own
  /\ plugin \in Own /\ stop # "new" /\ ~over => deliverer = "running"
  /\ plugin \in Own /\ mu => \E h \in Handlers : handler[h] = "record"
  /\ plugin = "nats" => ~mu

\* Each group under way and each handler that has a slot without one yet has a slot
\* of its own; no other slot is taken, until handlers end with the slots they have.
SlotsInv ==
  /\ sem \in Nat /\ sem =< MaxUndelivered
  /\ Cardinality(Holding) + Cardinality(Groups) =< sem
  /\ over \/ sem = Cardinality(Holding) + Cardinality(Groups)

\* Stop of kafka and nsq returns when no handler is at work.
QuietInv ==
  stop = "stopped" =>
    /\ plugin = "kafka" => \A h \in Handlers : handler[h] = "ended"
    /\ plugin = "nsq" => handler[Sole] = "idle"

\* Messages are acknowledged on the strength of an answer in the channel.
AckedInv == AckedAfterDelivery /\ delivered \subseteq accepted

ConsumerInv ==
  HandlersInv /\ PlacesInv /\ KnownInv /\ ReadersInv /\ SlotsInv /\ AckedInv /\ QuietInv
-----------------------------------------------------------------------------
Rest == HandlersInv /\ PlacesInv /\ KnownInv /\ AckedInv /\ QuietInv

\* What Go does to the handlers, one by one.
LEMMA Moves ==
  ASSUME HandlersInv, NEW h \in Handlers, NEW pc \in States, NEW m \in Messages \cup {None},
         Go(h, pc, m)
  PROVE  /\ handler' \in [Handlers -> States] /\ msg' \in [Handlers -> Messages \cup {None}]
         /\ handler'[h] = pc /\ msg'[h] = m
         /\ \A k \in Handlers : k # h => handler'[k] = handler[k] /\ msg'[k] = msg[k]
BY DEF HandlersInv, Go

\* kafka and nats take a slot.
LEMMA ReserveRest ==
  ASSUME Rest, NEW h \in Handlers, Reserve(h)
  PROVE  Rest'
<1> USE DEF Reserve, control, groups, Groups
<1>1. /\ handler' \in [Handlers -> States] /\ msg' \in [Handlers -> Messages \cup {None}]
      /\ handler[h] = "idle" /\ handler'[h] = "reserved"
      /\ \A k \in Handlers : k # h => handler'[k] = handler[k] /\ msg'[k] = msg[k]
  BY Moves DEF Rest, States
<1>2. HandlersInv'
  BY <1>1 DEF Rest, HandlersInv
<1>3. PlacesInv'
  BY <1>1 DEF Rest, PlacesInv
<1>4. KnownInv'
  BY <1>1 DEF Rest, KnownInv
<1>5. AckedInv'
  BY DEF Rest, AckedInv, AckedAfterDelivery
<1>6. QuietInv'
  BY <1>1, ConsumerAssumption DEF Rest, QuietInv, HandlersInv
<1> QED
  BY <1>2, <1>3, <1>4, <1>5, <1>6 DEF Rest

\* kafka and nats have a message, which they add or give up.
LEMMA ReceiveRest ==
  ASSUME Rest, NEW h \in Handlers, NEW m \in Messages, Receive(h, m)
  PROVE  Rest'
<1> USE DEF Receive, control, groups, Groups
<1>1. /\ handler' \in [Handlers -> States] /\ msg' \in [Handlers -> Messages \cup {None}]
      /\ handler[h] = "reserved"
      /\ \/ handler'[h] = "idle"
         \/ handler'[h] = "add" /\ msg'[h] = m
      /\ \A k \in Handlers : k # h => handler'[k] = handler[k] /\ msg'[k] = msg[k]
  BY Moves DEF Rest, States
<1>2. HandlersInv'
  BY <1>1 DEF Rest, HandlersInv
<1>3. PlacesInv'
  BY <1>1 DEF Rest, PlacesInv, Offered
<1>4. KnownInv'
  BY <1>1 DEF Rest, KnownInv
<1>5. AckedInv'
  BY DEF Rest, AckedInv, AckedAfterDelivery
<1>6. QuietInv'
  BY <1>1, ConsumerAssumption DEF Rest, QuietInv, HandlersInv
<1> QED
  BY <1>2, <1>3, <1>4, <1>5, <1>6 DEF Rest

\* nsq and mqtt are called with a message.
LEMMA CalledRest ==
  ASSUME Rest, NEW h \in Handlers, NEW m \in Messages, Called(h, m)
  PROVE  Rest'
<1> USE DEF Called, control, groups, Groups
<1>1. /\ handler' \in [Handlers -> States] /\ msg' \in [Handlers -> Messages \cup {None}]
      /\ handler[h] = "idle"
      /\ \/ handler'[h] = "idle"
         \/ handler'[h] = "called" /\ msg'[h] = m
      /\ \A k \in Handlers : k # h => handler'[k] = handler[k] /\ msg'[k] = msg[k]
  BY Moves DEF Rest, States, HandlersInv
<1>2. HandlersInv'
  BY <1>1 DEF Rest, HandlersInv
<1>3. PlacesInv'
  BY <1>1 DEF Rest, PlacesInv
<1>4. KnownInv'
  BY <1>1 DEF Rest, KnownInv
<1>5. AckedInv'
  BY DEF Rest, AckedInv, AckedAfterDelivery
<1>6. QuietInv'
  BY <1>1, ConsumerAssumption DEF Rest, QuietInv, HandlersInv
<1> QED
  BY <1>2, <1>3, <1>4, <1>5, <1>6 DEF Rest
\* nsq and mqtt take a slot for the message they have.
LEMMA ReserveLateRest ==
  ASSUME Rest, NEW h \in Handlers, ReserveLate(h)
  PROVE  Rest'
<1> USE DEF ReserveLate, control, groups, Groups
<1>1. /\ handler' \in [Handlers -> States] /\ msg' \in [Handlers -> Messages \cup {None}]
      /\ handler[h] = "called"
      /\ handler'[h] = "idle" \/ (handler'[h] = "add" /\ msg'[h] = msg[h])
      /\ \A k \in Handlers : k # h => handler'[k] = handler[k] /\ msg'[k] = msg[k]
  BY Moves DEF Rest, States, HandlersInv
<1>2. HandlersInv'
  BY <1>1 DEF Rest, HandlersInv
<1>3. PlacesInv'
  BY <1>1 DEF Rest, PlacesInv
<1>4. KnownInv'
  BY <1>1 DEF Rest, KnownInv
<1>5. AckedInv'
  BY DEF Rest, AckedInv, AckedAfterDelivery
<1>6. QuietInv'
  BY <1>1, ConsumerAssumption DEF Rest, QuietInv, HandlersInv
<1> QED
  BY <1>2, <1>3, <1>4, <1>5, <1>6 DEF Rest

\* The group of a message is added.
LEMMA AddGroupRest ==
  ASSUME Rest, NEW h \in Handlers, AddGroup(h)
  PROVE  Rest'
<1> USE DEF AddGroup, control, groups, Groups
<1>1. /\ handler' \in [Handlers -> States] /\ msg' \in [Handlers -> Messages \cup {None}]
      /\ handler[h] = "add" /\ handler'[h] = "record" /\ msg'[h] = msg[h]
      /\ \A k \in Handlers : k # h => handler'[k] = handler[k] /\ msg'[k] = msg[k]
  BY Moves DEF Rest, States, HandlersInv
<1>2. HandlersInv'
  BY <1>1 DEF Rest, HandlersInv
<1>3. PlacesInv'
  BY <1>1 DEF Rest, PlacesInv
<1>4. KnownInv'
  BY <1>1 DEF Rest, KnownInv, Own
<1>5. AckedInv'
  BY DEF Rest, AckedInv, AckedAfterDelivery
<1>6. QuietInv'
  BY <1>1, ConsumerAssumption DEF Rest, QuietInv, HandlersInv
<1> QED
  BY <1>2, <1>3, <1>4, <1>5, <1>6 DEF Rest

\* The group is recorded, and the mutex unlocked.
LEMMA RecordRest ==
  ASSUME Rest, NEW h \in Handlers, Record(h)
  PROVE  Rest'
<1> USE DEF Record, control, groups, Groups
<1>1. /\ handler' \in [Handlers -> States] /\ msg' \in [Handlers -> Messages \cup {None}]
      /\ handler[h] = "record" /\ handler'[h] = "idle"
      /\ \A k \in Handlers : k # h => handler'[k] = handler[k] /\ msg'[k] = msg[k]
  BY Moves DEF Rest, States, HandlersInv
<1>2. HandlersInv'
  BY <1>1 DEF Rest, HandlersInv
<1>3. PlacesInv'
  BY <1>1 DEF Rest, PlacesInv
<1>4. KnownInv'
  BY <1>1 DEF Rest, KnownInv, HandlersInv, Own
<1>5. AckedInv'
  BY DEF Rest, AckedInv, AckedAfterDelivery
<1>6. QuietInv'
  BY <1>1, ConsumerAssumption DEF Rest, QuietInv, HandlersInv
<1> QED
  BY <1>2, <1>3, <1>4, <1>5, <1>6 DEF Rest

\* nats gives up a slot.
LEMMA LibraryErrorRest ==
  ASSUME Rest, NEW h \in Handlers, LibraryError(h)
  PROVE  Rest'
<1> USE DEF LibraryError, control, groups, Groups
<1>1. /\ handler' \in [Handlers -> States] /\ msg' \in [Handlers -> Messages \cup {None}]
      /\ handler[h] = "reserved" /\ handler'[h] = "idle"
      /\ \A k \in Handlers : k # h => handler'[k] = handler[k] /\ msg'[k] = msg[k]
  BY Moves DEF Rest, States, HandlersInv
<1>2. HandlersInv'
  BY <1>1 DEF Rest, HandlersInv
<1>3. PlacesInv'
  BY <1>1 DEF Rest, PlacesInv
<1>4. KnownInv'
  BY <1>1 DEF Rest, KnownInv
<1>5. AckedInv'
  BY DEF Rest, AckedInv, AckedAfterDelivery
<1>6. QuietInv'
  BY <1>1, ConsumerAssumption DEF Rest, QuietInv, HandlersInv
<1> QED
  BY <1>2, <1>3, <1>4, <1>5, <1>6 DEF Rest

\* A handler ends, or nsq gives its message back.
LEMMA QuitRest ==
  ASSUME Rest, NEW h \in Handlers, Quit(h)
  PROVE  Rest'
<1> USE DEF Quit, control, groups, Groups
<1>1. /\ handler' \in [Handlers -> States] /\ msg' \in [Handlers -> Messages \cup {None}]
      /\ \/ handler[h] \in {"idle", "reserved"} /\ handler'[h] = "ended" /\ broker' = broker
         \/ handler[h] = "called" /\ handler'[h] = "idle" /\ broker' = broker \cup {msg[h]}
      /\ \A k \in Handlers : k # h => handler'[k] = handler[k] /\ msg'[k] = msg[k]
  BY Moves DEF Rest, States, HandlersInv
<1>2. HandlersInv'
  BY <1>1 DEF Rest, HandlersInv
<1>3. PlacesInv'
  BY <1>1 DEF Rest, PlacesInv
<1>4. KnownInv'
  BY <1>1 DEF Rest, KnownInv
<1>5. AckedInv'
  BY DEF Rest, AckedInv, AckedAfterDelivery
<1>6. QuietInv'
  BY <1>1, ConsumerAssumption DEF Rest, QuietInv, HandlersInv
<1> QED
  BY <1>2, <1>3, <1>4, <1>5, <1>6 DEF Rest

\* nats and mqtt read an answer.
LEMMA ReadAnswerRest ==
  ASSUME Rest, NEW h \in Handlers, NEW m \in Messages, ReadAnswer(h, m)
  PROVE  Rest'
<1> USE DEF ReadAnswer, control, groups, Groups
<1>1. /\ handler' \in [Handlers -> States] /\ msg' \in [Handlers -> Messages \cup {None}]
      /\ handler[h] # "record" /\ handler'[h] \in {handler[h], "idle"} /\ handler[h] # "ended"
      /\ handler'[h] = "called" => msg'[h] = msg[h]
      /\ \A k \in Handlers : k # h => handler'[k] = handler[k] /\ msg'[k] = msg[k]
  BY Moves DEF Rest, States, HandlersInv
<1>2. HandlersInv'
  BY <1>1 DEF Rest, HandlersInv
<1>3. PlacesInv'
  BY <1>1 DEF Rest, PlacesInv
<1>4. KnownInv'
  <2>1. CASE plugin = "nats"
    BY <2>1, <1>2 DEF Rest, KnownInv, Own
  <2>2. CASE plugin = "mqtt"
    <3>1. h = Sole /\ \A k \in Handlers : handler[k] # "record" /\ handler'[k] # "record"
      BY <1>1, <2>2 DEF Rest, HandlersInv
    <3>2. \A n \in Groups : n \in messages
      BY <3>1, <2>2 DEF Rest, KnownInv
    <3>3. m \in messages /\ messages' = messages \ {m} /\ Groups' = Groups \ {m}
      BY <3>2, <2>2 DEF Rest, PlacesInv
    <3> QED
      BY Zenon, <3>1, <3>2, <3>3, <2>2 DEF Rest, KnownInv, Own
  <2> QED
    BY <2>1, <2>2
<1>5. AckedInv'
  BY DEF Rest, AckedInv, AckedAfterDelivery
<1>6. QuietInv'
  BY <1>1, ConsumerAssumption DEF Rest, QuietInv, HandlersInv
<1> QED
  BY <1>2, <1>3, <1>4, <1>5, <1>6 DEF Rest

\* The outputs answer for a group.
LEMMA DeliverRest ==
  ASSUME Rest, NEW m \in Messages, Deliver(m)
  PROVE  Rest'
<1> USE DEF Deliver, control, groups, Groups
<1>1. /\ handler' \in [Handlers -> States] /\ msg' \in [Handlers -> Messages \cup {None}]
      /\ \A k \in Handlers : handler'[k] = handler[k] /\ msg'[k] = msg[k]
  BY DEF Rest, HandlersInv
<1>2. HandlersInv'
  BY <1>1 DEF Rest, HandlersInv
<1>3. PlacesInv'
  BY <1>1 DEF Rest, PlacesInv
<1>4. KnownInv'
  BY <1>1 DEF Rest, KnownInv
<1>5. AckedInv'
  BY DEF Rest, AckedInv, AckedAfterDelivery
<1>6. QuietInv'
  BY <1>1, ConsumerAssumption DEF Rest, QuietInv, HandlersInv
<1> QED
  BY <1>2, <1>3, <1>4, <1>5, <1>6 DEF Rest

\* kafka and nsq read an answer.
LEMMA OnDeliveryRest ==
  ASSUME Rest, NEW m \in Messages, OnDelivery(m)
  PROVE  Rest'
<1> USE DEF OnDelivery, control, groups, Groups
<1>1. /\ handler' \in [Handlers -> States] /\ msg' \in [Handlers -> Messages \cup {None}]
      /\ \A k \in Handlers : handler'[k] = handler[k] /\ msg'[k] = msg[k]
  BY DEF Rest, HandlersInv
<1>2. HandlersInv'
  BY <1>1 DEF Rest, HandlersInv
<1>3. PlacesInv'
  BY <1>1 DEF Rest, PlacesInv
<1>4. KnownInv'
  <2>1. Groups' = Groups \ {m} /\ messages \ {m} \subseteq messages'
    BY DEF Rest, PlacesInv
  <2> QED
    BY <1>1, <2>1 DEF Rest, KnownInv
<1>5. AckedInv'
  BY DEF Rest, AckedInv, AckedAfterDelivery
<1>6. QuietInv'
  BY <1>1, ConsumerAssumption DEF Rest, QuietInv, HandlersInv
<1> QED
  BY <1>2, <1>3, <1>4, <1>5, <1>6 DEF Rest

\* A session ends.
LEMMA EndSessionRest ==
  ASSUME Rest, EndSession
  PROVE  Rest'
<1> USE DEF EndSession, control, groups, Groups
<1>1. /\ handler' \in [Handlers -> States] /\ msg' \in [Handlers -> Messages \cup {None}]
      /\ \A k \in Handlers : handler'[k] = handler[k] /\ msg'[k] = msg[k]
  BY DEF Rest, HandlersInv
<1>2. HandlersInv'
  BY <1>1 DEF Rest, HandlersInv
<1>3. PlacesInv'
  BY <1>1 DEF Rest, PlacesInv
<1>4. KnownInv'
  BY <1>1 DEF Rest, KnownInv
<1>5. AckedInv'
  BY DEF Rest, AckedInv, AckedAfterDelivery
<1>6. QuietInv'
  BY <1>1, ConsumerAssumption DEF Rest, QuietInv, HandlersInv
<1> QED
  BY <1>2, <1>3, <1>4, <1>5, <1>6 DEF Rest

\* Stop is called.
LEMMA ConsumerStopRest ==
  ASSUME Rest, ConsumerStop
  PROVE  Rest'
<1> USE DEF ConsumerStop, control, groups, Groups
<1>1. /\ handler' \in [Handlers -> States] /\ msg' \in [Handlers -> Messages \cup {None}]
      /\ \A k \in Handlers : handler'[k] = handler[k] /\ msg'[k] = msg[k]
  BY DEF Rest, HandlersInv
<1>2. HandlersInv'
  BY <1>1 DEF Rest, HandlersInv
<1>3. PlacesInv'
  BY <1>1 DEF Rest, PlacesInv
<1>4. KnownInv'
  BY <1>1 DEF Rest, KnownInv
<1>5. AckedInv'
  BY DEF Rest, AckedInv, AckedAfterDelivery
<1>6. QuietInv'
  BY <1>1, ConsumerAssumption DEF Rest, QuietInv, HandlersInv
<1> QED
  BY <1>2, <1>3, <1>4, <1>5, <1>6 DEF Rest

\* The goroutine that reads the answers ends.
LEMMA QuitDelivererRest ==
  ASSUME Rest, QuitDeliverer
  PROVE  Rest'
<1> USE DEF QuitDeliverer, control, groups, Groups
<1>1. /\ handler' \in [Handlers -> States] /\ msg' \in [Handlers -> Messages \cup {None}]
      /\ \A k \in Handlers : handler'[k] = handler[k] /\ msg'[k] = msg[k]
  BY DEF Rest, HandlersInv
<1>2. HandlersInv'
  BY <1>1 DEF Rest, HandlersInv
<1>3. PlacesInv'
  BY <1>1 DEF Rest, PlacesInv
<1>4. KnownInv'
  BY <1>1 DEF Rest, KnownInv
<1>5. AckedInv'
  BY DEF Rest, AckedInv, AckedAfterDelivery
<1>6. QuietInv'
  BY <1>1, ConsumerAssumption DEF Rest, QuietInv, HandlersInv
<1> QED
  BY <1>2, <1>3, <1>4, <1>5, <1>6 DEF Rest

\* Stop returns, of kafka and nsq when the handlers are done.
LEMMA ConsumerStoppedRest ==
  ASSUME Rest, ConsumerStopped
  PROVE  Rest'
<1> USE DEF ConsumerStopped, control, groups, Groups
<1>1. /\ handler' \in [Handlers -> States] /\ msg' \in [Handlers -> Messages \cup {None}]
      /\ \A k \in Handlers : handler'[k] = handler[k] /\ msg'[k] = msg[k]
  BY DEF Rest, HandlersInv
<1>2. HandlersInv'
  BY <1>1 DEF Rest, HandlersInv
<1>3. PlacesInv'
  BY <1>1 DEF Rest, PlacesInv
<1>4. KnownInv'
  BY <1>1 DEF Rest, KnownInv
<1>5. AckedInv'
  BY DEF Rest, AckedInv, AckedAfterDelivery
<1>6. QuietInv'
  BY <1>1, ConsumerAssumption DEF Rest, QuietInv, HandlersInv
<1> QED
  BY <1>2, <1>3, <1>4, <1>5, <1>6 DEF Rest

\* Start: there are handlers, and nothing is under way yet.
LEMMA ConsumerStartRest ==
  ASSUME Rest, ConsumerStart
  PROVE  Rest'
<1> USE DEF ConsumerStart, control, groups, Groups, Begin
<1>1. /\ handler' \in [Handlers -> States] /\ msg' \in [Handlers -> Messages \cup {None}]
      /\ \A k \in Handlers : handler[k] = "ended" /\ msg'[k] = msg[k]
      /\ \A k \in Handlers : handler'[k] \in {"idle", "ended"}
      /\ \A k \in Handlers : plugin # "kafka" /\ k # Sole => handler'[k] = "ended"
  BY DEF Rest, HandlersInv, States
<1>2. HandlersInv'
  BY <1>1 DEF Rest, HandlersInv
<1>3. PlacesInv'
  BY <1>1 DEF Rest, PlacesInv
<1>4. KnownInv'
  BY <1>1 DEF Rest, KnownInv
<1>5. AckedInv'
  BY DEF Rest, AckedInv, AckedAfterDelivery
<1>6. QuietInv'
  BY <1>1, ConsumerAssumption DEF Rest, QuietInv, HandlersInv
<1> QED
  BY <1>2, <1>3, <1>4, <1>5, <1>6 DEF Rest

\* The next session begins with handlers, map and groups of its own.
LEMMA ConsumeRest ==
  ASSUME Rest, Consume
  PROVE  Rest'
<1> USE DEF Consume, control, groups, Groups, Begin
<1>1. /\ handler' \in [Handlers -> States] /\ msg' \in [Handlers -> Messages \cup {None}]
      /\ \A k \in Handlers : handler'[k] = "idle"
  BY DEF Rest, HandlersInv, States
<1>2. HandlersInv'
  BY <1>1 DEF Rest, HandlersInv
<1>3. PlacesInv'
  BY <1>1 DEF Rest, PlacesInv
<1>4. KnownInv'
  BY <1>1 DEF Rest, KnownInv
<1>5. AckedInv'
  BY DEF Rest, AckedInv, AckedAfterDelivery
<1>6. QuietInv'
  BY <1>1, ConsumerAssumption DEF Rest, QuietInv, HandlersInv
<1> QED
  BY <1>2, <1>3, <1>4, <1>5, <1>6 DEF Rest
-----------------------------------------------------------------------------
\* One more element.
LEMMA Plus ==
  ASSUME NEW S, IsFiniteSet(S), NEW x, x \notin S
  PROVE  Cardinality(S \cup {x}) \in Nat /\ Cardinality(S \cup {x}) = Cardinality(S) + 1
BY FS_AddElement, FS_CardinalityType

\* One element less.
LEMMA Minus ==
  ASSUME NEW S, IsFiniteSet(S), NEW x \in S
  PROVE  Cardinality(S \ {x}) \in Nat /\ Cardinality(S \ {x}) = Cardinality(S) - 1
BY FS_RemoveElement, FS_CardinalityType

\* Handlers with a slot and groups are finitely many.
LEMMA Sizes ==
  ASSUME Rest
  PROVE  /\ IsFiniteSet(Holding) /\ Cardinality(Holding) \in Nat
         /\ IsFiniteSet(Groups) /\ Cardinality(Groups) \in Nat
<1>1. Holding \subseteq Handlers /\ Groups \subseteq Messages
  BY DEF Holding, Groups, Rest, PlacesInv
<1>2. IsFiniteSet(Holding) /\ IsFiniteSet(Groups)
  BY Zenon, <1>1, FS_Subset, ConsumerAssumption
<1> QED
  BY <1>2, FS_CardinalityType

\* A slot is taken by a handler that had none.
LEMMA TakesSlot ==
  ASSUME Rest, SlotsInv, NEW h, h \notin Holding, sem < MaxUndelivered, sem' = sem + 1,
         Holding' = Holding \cup {h}, Groups' = Groups, over' = over
  PROVE  SlotsInv'
<1>1. Cardinality(Holding \cup {h}) \in Nat /\ Cardinality(Holding \cup {h}) = Cardinality(Holding) + 1
  BY Zenon, Sizes, Plus
<1> QED
  BY <1>1, Sizes, ConsumerAssumption DEF SlotsInv

\* A handler gives its slot back.
LEMMA GivesSlot ==
  ASSUME Rest, SlotsInv, NEW h \in Holding, sem' = sem - 1,
         Holding' = Holding \ {h}, Groups' = Groups, over' = over
  PROVE  SlotsInv'
<1>1. Cardinality(Holding \ {h}) \in Nat /\ Cardinality(Holding \ {h}) = Cardinality(Holding) - 1
  BY Sizes, Minus
<1> QED
  BY <1>1, Sizes, ConsumerAssumption DEF SlotsInv

\* The slot of a handler becomes that of a group.
LEMMA PassesSlot ==
  ASSUME Rest, SlotsInv, NEW h \in Holding, NEW m, m \notin Groups, sem' = sem,
         Holding' = Holding \ {h}, Groups' = Groups \cup {m}, over' = over
  PROVE  SlotsInv'
<1>1. Cardinality(Groups \cup {m}) \in Nat /\ Cardinality(Groups \cup {m}) = Cardinality(Groups) + 1
  BY Zenon, Sizes, Plus
<1>2. Cardinality(Holding \ {h}) \in Nat /\ Cardinality(Holding \ {h}) = Cardinality(Holding) - 1
  BY Sizes, Minus
<1> QED
  BY <1>1, <1>2, Sizes, ConsumerAssumption DEF SlotsInv

\* A group is done with, and its slot given back.
LEMMA EndsGroup ==
  ASSUME Rest, SlotsInv, NEW m \in Groups, sem' = sem - 1,
         Holding' = Holding, Groups' = Groups \ {m}, over' = over
  PROVE  SlotsInv'
<1>1. Cardinality(Groups \ {m}) \in Nat /\ Cardinality(Groups \ {m}) = Cardinality(Groups) - 1
  BY Sizes, Minus
<1> QED
  BY <1>1, Sizes, ConsumerAssumption DEF SlotsInv

\* A group is done with while a handler gives up a slot too.
LEMMA EndsBoth ==
  ASSUME Rest, SlotsInv, NEW m \in Groups, NEW h \in Holding, sem' = sem - 2,
         Holding' = Holding \ {h}, Groups' = Groups \ {m}, over' = over
  PROVE  SlotsInv'
<1>1. Cardinality(Groups \ {m}) \in Nat /\ Cardinality(Groups \ {m}) = Cardinality(Groups) - 1
  BY Sizes, Minus
<1>2. Cardinality(Holding \ {h}) \in Nat /\ Cardinality(Holding \ {h}) = Cardinality(Holding) - 1
  BY Sizes, Minus
<1> QED
  BY <1>1, <1>2, Sizes, ConsumerAssumption DEF SlotsInv

\* A handler ends with a slot that nobody uses.
LEMMA KeepsSlot ==
  ASSUME Rest, SlotsInv, NEW h \in Holding, sem' = sem, Holding' = Holding \ {h}, Groups' = Groups,
         over'
  PROVE  SlotsInv'
<1>1. Cardinality(Holding \ {h}) \in Nat /\ Cardinality(Holding \ {h}) = Cardinality(Holding) - 1
  BY Sizes, Minus
<1> QED
  BY <1>1, Sizes, ConsumerAssumption DEF SlotsInv

\* Nothing happens to slots.
LEMMA SameSlots ==
  ASSUME Rest, SlotsInv, sem' = sem, Holding' = Holding, Groups' = Groups, over => over'
  PROVE  SlotsInv'
BY DEF SlotsInv
-----------------------------------------------------------------------------
\* Who has a slot after a handler has moved.
LEMMA HoldingAfter ==
  ASSUME HandlersInv, NEW h \in Handlers, NEW pc \in States, NEW m \in Messages \cup {None},
         Go(h, pc, m)
  PROVE  Holding' = IF pc \in {"reserved", "add"} THEN Holding \cup {h} ELSE Holding \ {h}
BY Moves DEF Holding

\* The steps of a handler keep every slot accounted for.
LEMMA HandlerSlots ==
  ASSUME Rest, SlotsInv, NEW h \in Handlers, HandlerStep(h)
  PROVE  SlotsInv'
<1> USE DEF groups, control
<1>0. HandlersInv /\ msg[h] \in Messages \cup {None} /\ None \in Messages \cup {None}
  BY DEF Rest, HandlersInv
<1>1. CASE Reserve(h)
  BY <1>0, <1>1, HoldingAfter, TakesSlot DEF Reserve, States, Groups, Holding
<1>2. CASE ReserveLate(h)
  <2>1. CASE handler'[h] = "idle"
    BY <1>0, <1>2, <2>1, HoldingAfter, Moves, SameSlots DEF ReserveLate, States, Groups, Holding
  <2>2. CASE handler'[h] # "idle"
    BY <1>0, <1>2, <2>2, HoldingAfter, Moves, TakesSlot DEF ReserveLate, States, Groups, Holding
  <2> QED
    BY <2>1, <2>2
<1>3. CASE AddGroup(h)
  <2>1. msg[h] \notin Groups
    BY <1>3 DEF AddGroup, Rest, PlacesInv
  <2> QED
    BY <1>0, <1>3, <2>1, HoldingAfter, PassesSlot DEF AddGroup, States, Groups, Holding
<1>4. CASE Record(h)
  BY <1>0, <1>4, HoldingAfter, SameSlots DEF Record, States, Groups, Holding
<1>5. CASE LibraryError(h)
  BY <1>0, <1>5, HoldingAfter, GivesSlot DEF LibraryError, States, Groups, Holding
<1>6. CASE Quit(h)
  <2>1. CASE handler[h] = "reserved"
    BY <1>0, <1>6, <2>1, HoldingAfter, KeepsSlot DEF Quit, States, Groups, Holding
  <2>2. CASE handler[h] # "reserved"
    BY <1>0, <1>6, <2>2, HoldingAfter, SameSlots DEF Quit, States, Groups, Holding
  <2> QED
    BY <2>1, <2>2
<1>7. CASE \E m \in Messages : Receive(h, m)
  <2> PICK m \in Messages : Receive(h, m)
    BY SMTT(30), <1>7
  <2>1. CASE m \in Bad \/ (plugin = "kafka" /\ m \in TooLong)
    BY <1>0, <2>1, HoldingAfter, GivesSlot DEF Receive, States, Groups, Holding
  <2>2. CASE ~(m \in Bad \/ (plugin = "kafka" /\ m \in TooLong))
    <3>1. Holding' = Holding \cup {h} /\ h \in Holding
      BY <1>0, <2>2, HoldingAfter DEF Receive, States, Holding
    <3> QED
      BY <3>1, <2>2, SameSlots DEF Receive, Groups
  <2> QED
    BY <2>1, <2>2
<1>8. CASE \E m \in Messages : Called(h, m)
  <2> PICK m \in Messages : Called(h, m)
    BY <1>8
  <2>1. Holding' = Holding
    <3>1. CASE plugin = "nsq" /\ m \in Bad
      BY <3>1 DEF Called, Holding
    <3>2. CASE ~(plugin = "nsq" /\ m \in Bad)
      BY <1>0, <3>2, HoldingAfter DEF Called, States, Holding
    <3> QED
      BY <3>1, <3>2
  <2> QED
    BY <2>1, SameSlots DEF Called, Groups
<1>9. CASE \E m \in Messages : ReadAnswer(h, m)
  <2> PICK m \in Messages : ReadAnswer(h, m)
    BY <1>9
  <2>1. m \in Groups /\ Groups' = Groups \ {m}
    BY DEF ReadAnswer, Groups, Rest, PlacesInv
  <2>2. CASE handler[h] = "reserved"
    BY <1>0, <2>1, <2>2, HoldingAfter, EndsBoth DEF ReadAnswer, States, Holding
  <2>3. CASE handler[h] # "reserved"
    BY <2>1, <2>3, EndsGroup DEF ReadAnswer, Holding
  <2> QED
    BY SMTT(30), <2>2, <2>3
<1> QED
  BY <1>1, <1>2, <1>3, <1>4, <1>5, <1>6, <1>7, <1>8, <1>9 DEF HandlerStep

\* So do the steps of the others.
LEMMA OtherSlots ==
  ASSUME Rest, ReadersInv, SlotsInv,
         \/ \E m \in Messages : Deliver(m) \/ OnDelivery(m)
         \/ ConsumerStart \/ EndSession \/ ConsumerStop \/ QuitDeliverer \/ Consume
         \/ ConsumerStopped \/ UNCHANGED consumerVars
  PROVE  SlotsInv'
<1> USE DEF groups, control
<1>1. CASE \E m \in Messages : Deliver(m)
  BY <1>1, SameSlots DEF Deliver, Groups, Holding
<1>2. CASE \E m \in Messages : OnDelivery(m)
  <2> PICK m \in Messages : OnDelivery(m)
    BY <1>2
  <2>1. m \in Groups /\ Groups' = Groups \ {m} /\ Holding' = Holding
    BY DEF OnDelivery, Groups, Holding, Rest, PlacesInv
  <2>2. m \in messages
    <3>1. plugin \in Own /\ ~mu
      BY SMTT(30) DEF OnDelivery, ReadersInv
    <3> QED
      BY <2>1, <3>1 DEF Rest, KnownInv, Own
  <2> QED
    BY <2>1, <2>2, EndsGroup DEF OnDelivery
<1>3. CASE ConsumerStart
  <2>1. \A h \in Handlers : handler[h] = "ended" /\ handler'[h] \in {"idle", "ended"}
    BY <1>3 DEF ConsumerStart, Begin, Rest, HandlersInv
  <2>2. Holding' = Holding
    BY <2>1 DEF Holding
  <2> QED
    BY <1>3, <2>2, SameSlots DEF ConsumerStart, Groups
<1>4. CASE Consume
  <2>1. Holding' = {} /\ Groups' = {}
    BY <1>4 DEF Consume, Begin, Holding, Groups
  <2> QED
    BY <1>4, <2>1, FS_EmptySet, ConsumerAssumption DEF Consume, SlotsInv
<1>5. CASE EndSession \/ ConsumerStop \/ QuitDeliverer \/ ConsumerStopped
  BY <1>5, SameSlots DEF EndSession, ConsumerStop, QuitDeliverer, ConsumerStopped, Groups, Holding
<1>6. CASE UNCHANGED consumerVars
  BY <1>6, SameSlots DEF consumerVars, Groups, Holding
<1> QED
  BY <1>1, <1>2, <1>3, <1>4, <1>5, <1>6
-----------------------------------------------------------------------------
\* The goroutine that reads the answers runs as long as the session, and a mutex is
\* locked from AddGroup to Record only.
LEMMA ReadersStep ==
  ASSUME Rest, ReadersInv, [ConsumerNext]_consumerVars
  PROVE  ReadersInv'
<1> USE DEF control
<1>1. ASSUME NEW h \in Handlers, HandlerStep(h)
      PROVE  ReadersInv'
  <2>1. UNCHANGED <<plugin, session, over, stop, deliverer>>
    BY <1>1 DEF HandlerStep, Reserve, ReserveLate, AddGroup, Record, LibraryError, Quit, Receive,
       Called, ReadAnswer
  <2>2. ASSUME plugin' \in Own, mu'
        PROVE  \E k \in Handlers : handler'[k] = "record"
    <3>1. HandlersInv /\ msg[h] \in Messages \cup {None} /\ None \in Messages \cup {None}
      BY DEF Rest, HandlersInv
    <3>2. plugin \in Own
      BY Zenon, <2>1, <2>2
    <3>3. CASE AddGroup(h)
      BY <3>1, <3>3, Moves DEF AddGroup, States
    <3>4. CASE Record(h)
      BY Zenon, <2>2, <3>2, <3>4 DEF Record
    <3>5. CASE ~AddGroup(h) /\ ~Record(h)
      <4>1. mu' = mu
        BY <1>1, <3>2, <3>5 DEF HandlerStep, Reserve, ReserveLate, LibraryError, Quit, Receive,
           Called, ReadAnswer, Own
      <4>2. PICK k \in Handlers : handler[k] = "record"
        BY Zenon, <2>2, <3>2, <4>1 DEF ReadersInv
      <4>3. handler[h] # "record"
        BY <1>1, <3>2, <3>5 DEF HandlerStep, Reserve, ReserveLate, LibraryError, Quit, Receive,
           Called, ReadAnswer, Own
      <4>4. handler' = handler \/ \E pc \in States : handler' = [handler EXCEPT ![h] = pc]
        BY <1>1, <3>5 DEF HandlerStep, Reserve, ReserveLate, LibraryError, Quit, Receive,
           Called, ReadAnswer, Go, States
      <4> QED
        BY <3>1, <4>2, <4>3, <4>4 DEF HandlersInv
    <3> QED
      BY Zenon, <3>3, <3>4, <3>5
  <2>3. ASSUME plugin' = "nats"
        PROVE  ~mu'
    <3>1. plugin = "nats" /\ ~mu
      BY Zenon, <2>1, <2>3 DEF ReadersInv
    <3>2. mu' = mu
      BY <1>1, <3>1 DEF HandlerStep, Reserve, ReserveLate, AddGroup, Record, LibraryError, Quit,
         Receive, Called, ReadAnswer, Own
    <3> QED
      BY Zenon, <3>1, <3>2
  <2> QED
    BY Zenon, <2>1, <2>2, <2>3 DEF ReadersInv
<1>2. ASSUME NEW m \in Messages, Deliver(m) \/ OnDelivery(m)
      PROVE  ReadersInv'
  BY <1>2 DEF Deliver, OnDelivery, ReadersInv
<1>3. CASE ConsumerStart
  <2>1. session' \in Nat
    BY <1>3 DEF ConsumerStart
  <2>2. plugin' \in Own /\ mu' => \E h \in Handlers : handler'[h] = "record"
    BY <1>3 DEF ConsumerStart, ReadersInv, Rest, HandlersInv
  <2> QED
    BY <1>3, <2>1, <2>2 DEF ConsumerStart, ReadersInv
<1>4. CASE Consume
  BY <1>4 DEF Consume, ReadersInv, Own
<1>5. CASE EndSession \/ ConsumerStop \/ QuitDeliverer
  BY <1>5 DEF EndSession, ConsumerStop, QuitDeliverer, ReadersInv
<1>6. CASE ConsumerStopped
  BY <1>6 DEF ConsumerStopped, ReadersInv
<1>7. CASE UNCHANGED consumerVars
  BY Zenon, <1>7 DEF consumerVars, ReadersInv
<1> QED
  BY Zenon, <1>1, <1>2, <1>3, <1>4, <1>5, <1>6, <1>7 DEF ConsumerNext

\* Before Start there is nothing under way.
LEMMA ConsumerBegins == ConsumerInit => ConsumerInv
<1> SUFFICES ASSUME ConsumerInit PROVE ConsumerInv
  OBVIOUS
<1> USE DEF ConsumerInit, Groups
<1>1. HandlersInv
  BY ConsumerAssumption DEF HandlersInv, States
<1>2. PlacesInv /\ KnownInv /\ AckedInv /\ QuietInv
  BY DEF PlacesInv, KnownInv, AckedInv, AckedAfterDelivery, QuietInv
<1>3. Holding = {} /\ Groups = {}
  BY DEF Holding
<1>4. SlotsInv
  BY <1>3, FS_EmptySet, ConsumerAssumption DEF SlotsInv
<1>5. ReadersInv
  BY SMTT(30) DEF ReadersInv
<1> QED
  BY <1>1, <1>2, <1>4, <1>5 DEF ConsumerInv

\* Every step of the handlers, the outputs, the library and Stop preserves
\* ConsumerInv.
LEMMA ConsumerStep == ConsumerInv /\ [ConsumerNext]_consumerVars => ConsumerInv'
<1> SUFFICES ASSUME ConsumerInv, [ConsumerNext]_consumerVars PROVE ConsumerInv'
  OBVIOUS
<1>0. Rest /\ ReadersInv /\ SlotsInv
  BY DEF ConsumerInv, Rest
<1>1. ReadersInv' /\ SlotsInv'
  BY <1>0, ReadersStep, HandlerSlots, OtherSlots DEF ConsumerNext
<1>2. Rest'
  <2>1. CASE \E h \in Handlers : HandlerStep(h)
    BY <1>0, <2>1, ReserveRest, ReserveLateRest, AddGroupRest, RecordRest, LibraryErrorRest,
       QuitRest, ReceiveRest, CalledRest, ReadAnswerRest DEF HandlerStep
  <2>2. CASE \E m \in Messages : Deliver(m) \/ OnDelivery(m)
    BY <1>0, <2>2, DeliverRest, OnDeliveryRest
  <2>3. CASE ConsumerStart \/ EndSession \/ ConsumerStop \/ QuitDeliverer \/ Consume \/ ConsumerStopped
    BY SMTT(30), <1>0, <2>3, ConsumerStartRest, EndSessionRest, ConsumerStopRest, QuitDelivererRest,
       ConsumeRest, ConsumerStoppedRest
  <2>4. CASE UNCHANGED consumerVars
    BY <1>0, <2>4 DEF consumerVars, control, groups, Rest, HandlersInv, PlacesInv, KnownInv,
       AckedInv, AckedAfterDelivery, QuietInv, Groups
  <2> QED
    BY <2>1, <2>2, <2>3, <2>4 DEF ConsumerNext
<1> QED
  BY <1>1, <1>2 DEF ConsumerInv, Rest

\* ConsumerInv holds throughout.
LEMMA ConsumerAlways == ConsumerSpec => []ConsumerInv
BY ConsumerBegins, ConsumerStep, PTL DEF ConsumerSpec

\* However slots are taken and given back, no more groups are under way than
\* max_undelivered_messages.
THEOREM StaysWithinLimit == ConsumerSpec => []WithinLimit
<1>1. ConsumerInv => WithinLimit
  BY Sizes, ConsumerAssumption DEF ConsumerInv, Rest, SlotsInv, WithinLimit, Groups
<1> QED
  BY <1>1, ConsumerAlways, PTL

\* A message is acknowledged only after its metrics were delivered, or if it is of
\* no use, through any number of sessions and deliveries.
THEOREM AcksAfterDelivery == ConsumerSpec => []AckedAfterDelivery
<1>1. ConsumerInv => AckedAfterDelivery
  BY DEF ConsumerInv, AckedInv
<1> QED
  BY <1>1, ConsumerAlways, PTL

\* An answer that can be read is one whose group is recorded.
THEOREM AnswersAreKnown == ConsumerSpec => []KnownWhenRead
<1>1. ConsumerInv => KnownWhenRead
  BY DEF ConsumerInv, KnownInv, KnownWhenRead, Groups, Own
<1> QED
  BY <1>1, ConsumerAlways, PTL

\* kafka and nsq add nothing to the accumulator after Stop has returned.
THEOREM OwnAreQuietAfterStop == ConsumerSpec => []OwnQuietAfterStop
<1>1. ConsumerInv => OwnQuietAfterStop
  BY ConsumerAssumption DEF ConsumerInv, QuietInv, HandlersInv, OwnQuietAfterStop, QuietAfterStop, Own
<1> QED
  BY <1>1, ConsumerAlways, PTL
-----------------------------------------------------------------------------
\* Every step of an input that concerns its groups is a step of the accumulator: a
\* handler that adds a group has a slot that no other group has.
LEMMA AddIsAdd ==
  ASSUME ConsumerInv, NEW h \in Handlers, AddGroup(h)
  PROVE  Acc!Add(msg[h]) /\ msg[h] \in Messages
<1>1. /\ handler[h] = "add" /\ inflight' = inflight \cup {msg[h]}
      /\ UNCHANGED <<answers, delivered>>
  BY Zenon DEF AddGroup
<1>2. msg[h] \in Messages /\ msg[h] \notin Groups
  BY <1>1 DEF ConsumerInv, PlacesInv
<1>3. h \in Holding
  BY <1>1 DEF Holding
<1>4. /\ IsFiniteSet(Holding) /\ Cardinality(Holding) \in Nat /\ Cardinality(Groups) \in Nat
  BY Sizes DEF ConsumerInv, Rest
<1>5. Cardinality(Holding \ {h}) \in Nat /\ Cardinality(Holding \ {h}) = Cardinality(Holding) - 1
  BY Zenon, <1>3, <1>4, Minus
<1>6. Cardinality(Groups) < MaxUndelivered
  BY <1>4, <1>5, ConsumerAssumption DEF ConsumerInv, SlotsInv
<1>7. Acc!Cardinality(Groups) = Cardinality(Groups)
  BY Zenon DEF Cardinality, Acc!Cardinality
<1>8. Acc!Cardinality(Groups) < MaxUndelivered
  BY Zenon, <1>6, <1>7
<1> QED
  BY Zenon, <1>1, <1>2, <1>8 DEF Acc!Add, Groups

\* The other steps of the handlers and the goroutines around them.
LEMMA StepUsesAccumulator ==
  ASSUME ConsumerInv, [ConsumerNext]_consumerVars
  PROVE  [Acc!Next \/ (session' # session /\ Acc!Init')]_<<inflight, answers, delivered>>
<1>1. ASSUME NEW h \in Handlers, HandlerStep(h)
      PROVE  Acc!Next \/ UNCHANGED <<inflight, answers, delivered>>
  <2>1. CASE Reserve(h) \/ ReserveLate(h) \/ Record(h) \/ LibraryError(h) \/ Quit(h)
    BY Zenon, <2>1 DEF Reserve, ReserveLate, Record, LibraryError, Quit, groups
  <2>2. CASE AddGroup(h)
    BY Zenon, <2>2, AddIsAdd DEF Acc!Next
  <2>3. ASSUME NEW m \in Messages, Receive(h, m) \/ Called(h, m)
        PROVE  UNCHANGED <<inflight, answers, delivered>>
    BY Zenon, <2>3 DEF Receive, Called, groups
  <2>4. ASSUME NEW m \in Messages, ReadAnswer(h, m)
        PROVE  Acc!Next
    BY Zenon, <2>4 DEF ReadAnswer, Acc!Next, Acc!Read
  <2> QED
    BY Zenon, <1>1, <2>1, <2>2, <2>3, <2>4 DEF HandlerStep
<1>2. ASSUME NEW m \in Messages, Deliver(m)
      PROVE  Acc!Next
  BY Zenon, <1>2 DEF Deliver, Acc!Next, Acc!Deliver
<1>3. ASSUME NEW m \in Messages, OnDelivery(m)
      PROVE  Acc!Next
  BY Zenon, <1>3 DEF OnDelivery, Acc!Next, Acc!Read
<1>4. CASE ConsumerStart \/ EndSession \/ ConsumerStop \/ QuitDeliverer \/ ConsumerStopped
           \/ UNCHANGED consumerVars
  BY Zenon, <1>4 DEF ConsumerStart, EndSession, ConsumerStop, QuitDeliverer, ConsumerStopped,
     consumerVars, groups
<1>5. CASE Consume
  <2>1. session \in Nat /\ session' = session + 1
    BY SMTT(30), <1>5 DEF Consume, ConsumerInv, ReadersInv
  <2> QED
    BY <1>5, <2>1 DEF Consume, Acc!Init
<1> QED
  BY Zenon, <1>1, <1>2, <1>3, <1>4, <1>5 DEF ConsumerNext

\* The four inputs use the accumulator as it asks to be used, so with
\* TrackingImplementsAccumulator its send to the channel never finds it full.
THEOREM ConsumersUseAccumulator == ConsumerSpec => UsesAccumulator
<1>1. ConsumerInit => Acc!Init
  BY Zenon DEF ConsumerInit, Acc!Init
<1> QED
  BY <1>1, ConsumerAlways, StepUsesAccumulator, PTL DEF ConsumerSpec, UsesAccumulator
-----------------------------------------------------------------------------
\* No slot is lost as long as a session lasts: the slots taken are those of the handlers
\* on their way to a group and of the groups that are not read back.
SlotsExact == ~over => sem = Cardinality(Holding) + Cardinality(inflight \cup answers)

\* What may go on without a message of the broker, and leads to a free slot: the outputs
\* answer, an answer can be read, a handler can add or record its group.
AnswerGoes ==
  \/ plugin \in Own /\ deliverer = "running" /\ ~mu
  \/ plugin = "nats" /\ \E h \in Handlers : handler[h] \in {"idle", "reserved"}
  \/ plugin = "mqtt" /\ ~mu /\ \E h \in Handlers : handler[h] = "called"

SlotComes ==
  \/ inflight # {}
  \/ answers # {} /\ AnswerGoes
  \/ \E h \in Handlers : handler[h] = "add" /\ (plugin \in Own => ~mu)
  \/ \E h \in Handlers : handler[h] = "record" /\ (plugin \notin Own => ~mu)

\* A handler that waits for a slot in a session can take one, or something can still
\* happen that brings one.  kafka needs as many slots as it has claims.
NeverStalled ==
  \A h \in Handlers :
    Waits(h) /\ ~over /\ (plugin = "kafka" => Cardinality(Handlers) =< MaxUndelivered)
      => sem < MaxUndelivered \/ SlotComes

\* However messages end, in whatever order answers come and are recorded, the
\* semaphores of the four inputs lose no slot and give none back twice.
THEOREM SlotsAreExact == ConsumerSpec => []SlotsExact
<1>1. ConsumerInv => SlotsExact
  BY Zenon DEF ConsumerInv, SlotsInv, SlotsExact, Groups
<1> QED
  BY <1>1, ConsumerAlways, PTL

\* If every slot is taken while a handler waits for one, there is a group or a handler
\* about to add one.
LEMMA SlotsInUse ==
  ASSUME ConsumerInv, NEW h \in Handlers, Waits(h), ~over, ~(sem < MaxUndelivered),
         plugin = "kafka" => Cardinality(Handlers) =< MaxUndelivered
  PROVE  Groups # {} \/ \E k \in Handlers : handler[k] = "add"
<1> SUFFICES ASSUME Groups = {}, \A k \in Handlers : handler[k] # "add" PROVE FALSE
  OBVIOUS
<1>1. IsFiniteSet(Holding) /\ Cardinality(Holding) \in Nat /\ Cardinality(Groups) = 0
  BY Sizes, FS_EmptySet DEF ConsumerInv, Rest
<1>2. Cardinality(Holding) >= MaxUndelivered
  BY <1>1, ConsumerAssumption DEF ConsumerInv, SlotsInv
<1>3. Holding \subseteq Handlers \ {h}
  BY DEF Holding, Waits
<1>4. CASE plugin = "kafka"
  <2>1. /\ Cardinality(Handlers \ {h}) = Cardinality(Handlers) - 1
        /\ IsFiniteSet(Handlers \ {h}) /\ Cardinality(Handlers) \in Nat
    BY FS_RemoveElement, FS_CardinalityType, ConsumerAssumption
  <2>2. Cardinality(Holding) =< Cardinality(Handlers \ {h})
    BY Zenon, <1>3, <2>1, FS_Subset
  <2> QED
    BY <1>1, <1>2, <1>4, <2>1, <2>2, ConsumerAssumption
<1>5. CASE plugin # "kafka"
  <2>1. h = Sole
    BY <1>5 DEF ConsumerInv, HandlersInv, Waits
  <2>2. Holding = {}
    BY <1>3, <1>5, <2>1 DEF ConsumerInv, HandlersInv, Holding
  <2> QED
    BY <1>2, <2>2, FS_EmptySet, ConsumerAssumption
<1> QED
  BY <1>4, <1>5

\* A handler with a group to add or to record can, or another has the mutex and can
\* record its own.
LEMMA HandlersGo ==
  ASSUME ConsumerInv, NEW h \in Handlers, handler[h] \in {"add", "record"}
  PROVE  SlotComes
<1>1. CASE plugin \in Own /\ mu
  <2>1. PICK k \in Handlers : handler[k] = "record"
    BY Zenon, <1>1 DEF ConsumerInv, ReadersInv
  <2> QED
    BY Zenon, <1>1, <2>1 DEF SlotComes
<1>2. CASE plugin \in Own /\ ~mu
  <2>1. handler[h] # "record"
    BY <1>2 DEF ConsumerInv, KnownInv
  <2> QED
    BY <1>2, <2>1 DEF SlotComes
<1>3. CASE plugin = "mqtt"
  BY <1>3 DEF ConsumerInv, KnownInv, SlotComes, Own
<1>4. CASE plugin = "nats"
  BY SMTT(30), <1>4 DEF ConsumerInv, ReadersInv, SlotComes, Own
<1> QED
  BY <1>1, <1>2, <1>3, <1>4 DEF ConsumerInv, HandlersInv, Own

\* A session does not come to rest with all slots taken and a handler waiting, for any
\* number of messages, partitions and slots: neither mutex, map nor channel is in the way.
THEOREM ConsumersNeverStall == ConsumerSpec => []NeverStalled
<1>1. ConsumerInv => NeverStalled
  <2> SUFFICES ASSUME ConsumerInv, NEW h \in Handlers, Waits(h), ~over, ~(sem < MaxUndelivered),
                      plugin = "kafka" => Cardinality(Handlers) =< MaxUndelivered
               PROVE  SlotComes
    BY Zenon DEF NeverStalled
  <2>1. CASE \E k \in Handlers : handler[k] \in {"add", "record"}
    BY Zenon, <2>1, HandlersGo
  <2>2. CASE ~ \E k \in Handlers : handler[k] \in {"add", "record"}
    <3>1. Groups # {}
      BY <2>2, SlotsInUse
    <3>2. CASE inflight # {}
      BY Zenon, <3>2 DEF SlotComes
    <3>3. CASE answers # {}
      <4>1. CASE plugin \in Own
        <5>1. stop # "new"
          BY DEF ConsumerInv, HandlersInv, Waits
        <5>2. ~mu
          BY Zenon, <2>2, <4>1 DEF ConsumerInv, ReadersInv
        <5>3. deliverer = "running"
          BY Zenon, <4>1, <5>1 DEF ConsumerInv, ReadersInv
        <5> QED
          BY Zenon, <3>3, <4>1, <5>2, <5>3 DEF SlotComes, AnswerGoes
      <4>2. CASE plugin = "nats"
        BY <3>3, <4>2 DEF Waits, SlotComes, AnswerGoes
      <4>3. CASE plugin = "mqtt"
        BY <3>3, <4>3 DEF Waits, SlotComes, AnswerGoes, ConsumerInv, KnownInv
      <4> QED
        BY <4>1, <4>2, <4>3 DEF ConsumerInv, HandlersInv, Own
    <3> QED
      BY Zenon, <3>1, <3>2, <3>3 DEF Groups
  <2> QED
    BY Zenon, <2>1, <2>2
<1> QED
  BY <1>1, ConsumerAlways, PTL
=============================================================================
