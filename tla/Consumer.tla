------------------------------ MODULE Consumer ------------------------------
(***************************************************************************)
(* The inputs that consume messages of a broker and acknowledge them when  *)
(* their metrics have been written: kafka_consumer, nsq_consumer,          *)
(* nats_consumer and mqtt_consumer.  Each limits the messages under way    *)
(* with a semaphore of MaxUndelivered slots, which is what metric tracking *)
(* relies on for room in its channel (see Tracking), and remembers the     *)
(* message of each tracked group.                                          *)
(*                                                                         *)
(* kafka and nsq read the answers in a goroutine of their own, and guard   *)
(* the map with a mutex; nats and mqtt read them in the goroutine that     *)
(* also takes the messages.  kafka has a goroutine per claimed partition,  *)
(* and a new semaphore, map and tracking accumulator for every session.    *)
(***************************************************************************)
EXTENDS Integers, FiniteSets

CONSTANTS
  Plugins,         \* which of the four, a subset of their names
  Messages,        \* messages of the broker
  Bad,             \* those that cannot be parsed
  TooLong,         \* those that exceed MaxMessageLen
  Handlers,        \* goroutines that take messages
  Claim,           \* for kafka, the handler of the partition of each message
  Sole,            \* the one that plugins other than kafka have
  MaxUndelivered,  \* slots
  MaxSessions,     \* bound: sessions of kafka
  None

ASSUME ConsumerAssumption ==
  /\ Plugins \subseteq {"kafka", "nsq", "nats", "mqtt"}
  /\ IsFiniteSet(Handlers) /\ Sole \in Handlers
  /\ Messages \subseteq Nat /\ IsFiniteSet(Messages) /\ None \notin Messages
  /\ Claim \in [Messages -> Handlers]
  /\ MaxUndelivered \in Nat \ {0} /\ MaxSessions \in Nat

VARIABLES
  plugin,
  broker,       \* messages to be had
  handler,      \* what each goroutine does ...
  msg,          \* ... and the message it has
  sem,          \* slots taken
  messages,     \* the map of tracked groups, by their message
  mu,           \* the mutex is left locked, or between Add and Record held
  inflight,     \* groups whose metrics are on their way
  answers,      \* groups in the channel Delivered()
  delivered,    \*   and those of them that were delivered
  accepted,     \* messages of which a group was delivered
  acked,        \* messages marked or finished
  deliverer,    \* the goroutine of kafka and nsq that reads the answers
  session,      \* number of the session (kafka)
  over,         \* the context of the session is done
  stop          \* the goroutine that calls Stop

groups  == <<inflight, answers, delivered, accepted>>
control == <<plugin, session, over, stop>>

consumerVars == <<control, broker, handler, msg, sem, messages, mu, groups, acked, deliverer>>

Own == {"kafka", "nsq"}    \* plugins that read answers in a goroutine of their own

Begin == [h \in Handlers |-> IF plugin = "kafka" \/ h = Sole THEN "idle" ELSE "ended"]

ConsumerInit ==
  /\ plugin \in Plugins
  /\ broker = Messages /\ accepted = {} /\ acked = {}
  /\ handler = [h \in Handlers |-> "ended"] /\ msg = [h \in Handlers |-> None]
  /\ sem = 0 /\ messages = {} /\ mu = FALSE
  /\ inflight = {} /\ answers = {} /\ delivered = {} /\ deliverer = "ended"
  /\ session = 0 /\ over = FALSE /\ stop = "new"

\* Start, and for kafka Setup of the first session.
ConsumerStart ==
  /\ stop = "new" /\ stop' = "running"
  /\ handler' = Begin /\ session' = 1
  /\ deliverer' = IF plugin \in Own THEN "running" ELSE "ended"
  /\ UNCHANGED <<plugin, over, broker, msg, sem, messages, mu, groups, acked>>

Go(h, pc, m) ==
  /\ handler' = [handler EXCEPT ![h] = pc]
  /\ msg' = [msg EXCEPT ![h] = m]
-----------------------------------------------------------------------------
\* kafka, nats: a slot first ...
Reserve(h) ==
  /\ plugin \in {"kafka", "nats"} /\ handler[h] = "idle"
  /\ sem < MaxUndelivered /\ sem' = sem + 1
  /\ Go(h, "reserved", None)
  /\ UNCHANGED <<control, broker, messages, mu, groups, acked, deliverer>>

\* A message for h: kafka's are in the order of their partition.
Offered(h, m) ==
  /\ m \in broker
  /\ plugin = "kafka" => Claim[m] = h /\ \A n \in broker : Claim[n] = h => m =< n

\* Mutant of Receive: the slot of a message that cannot be parsed is kept.
ReceiveLeaking(h, m) ==
  /\ plugin \in {"kafka", "nats"} /\ handler[h] = "reserved"
  /\ Offered(h, m) /\ broker' = broker \ {m}
  /\ IF m \in Bad \/ (plugin = "kafka" /\ m \in TooLong)
     THEN Go(h, "idle", None) /\ UNCHANGED sem
     ELSE Go(h, "add", m) /\ UNCHANGED sem
  /\ acked' = IF plugin = "kafka" /\ m \in TooLong THEN acked \cup {m} ELSE acked
  /\ UNCHANGED <<control, messages, mu, groups, deliverer>>

\* ... then a message, which gives the slot back if it is of no use.
Receive(h, m) ==
  /\ plugin \in {"kafka", "nats"} /\ handler[h] = "reserved"
  /\ Offered(h, m) /\ broker' = broker \ {m}
  /\ IF m \in Bad \/ (plugin = "kafka" /\ m \in TooLong)
     THEN Go(h, "idle", None) /\ sem' = sem - 1
     ELSE Go(h, "add", m) /\ UNCHANGED sem
  /\ acked' = IF plugin = "kafka" /\ m \in TooLong THEN acked \cup {m} ELSE acked
  /\ UNCHANGED <<control, messages, mu, groups, deliverer>>

\* nsq, mqtt: the library calls with a message; nsq parses it first.
Called(h, m) ==
  /\ plugin \in {"nsq", "mqtt"} /\ handler[h] = "idle"
  /\ stop # "stopped"
  /\ m \in broker /\ broker' = broker \ {m}
  /\ IF plugin = "nsq" /\ m \in Bad
     THEN acked' = acked \cup {m} /\ UNCHANGED <<handler, msg>>
     ELSE Go(h, "called", m) /\ UNCHANGED acked
  /\ UNCHANGED <<control, sem, messages, mu, groups, deliverer>>

\* ... and then a slot is taken; mqtt parses now.
ReserveLate(h) ==
  /\ handler[h] = "called"
  /\ sem < MaxUndelivered
  /\ IF plugin = "mqtt" /\ msg[h] \in Bad
     THEN Go(h, "idle", None) /\ UNCHANGED sem
     ELSE Go(h, "add", msg[h]) /\ sem' = sem + 1
  /\ UNCHANGED <<control, broker, messages, mu, groups, acked, deliverer>>

\* Mutant of AddGroup: kafka does not lock the mutex before AddTrackingMetricGroup.
AddGroupUnlocked(h) ==
  /\ handler[h] = "add"
  /\ inflight' = inflight \cup {msg[h]}
  /\ Go(h, "record", msg[h])
  /\ UNCHANGED <<control, broker, sem, messages, mu, answers, delivered, accepted, acked, deliverer>>

\* AddTrackingMetricGroup, with the mutex locked by kafka and nsq ...
AddGroup(h) ==
  /\ handler[h] = "add"
  /\ IF plugin \in Own THEN ~mu /\ mu' = TRUE ELSE UNCHANGED mu
  /\ inflight' = inflight \cup {msg[h]}
  /\ Go(h, "record", msg[h])
  /\ UNCHANGED <<control, broker, sem, messages, answers, delivered, accepted, acked, deliverer>>

\* Mutant of Record: the slot is given back when the message is handled.
RecordAndRelease(h) ==
  /\ handler[h] = "record"
  /\ IF plugin = "nats" THEN UNCHANGED messages ELSE messages' = messages \cup {msg[h]}
  /\ IF plugin \in Own THEN mu' = FALSE ELSE ~mu /\ UNCHANGED mu
  /\ sem' = sem - 1
  /\ Go(h, "idle", None)
  /\ UNCHANGED <<control, broker, groups, acked, deliverer>>

\* ... and the map, which nats has not.
Record(h) ==
  /\ handler[h] = "record"
  /\ IF plugin = "nats" THEN UNCHANGED messages ELSE messages' = messages \cup {msg[h]}
  /\ IF plugin \in Own THEN mu' = FALSE ELSE ~mu /\ UNCHANGED mu
  /\ Go(h, "idle", None)
  /\ UNCHANGED <<control, broker, sem, groups, acked, deliverer>>
-----------------------------------------------------------------------------
\* The outputs answer for a group: delivered, or rejected.
Deliver(m) ==
  /\ m \in inflight
  /\ inflight' = inflight \ {m} /\ answers' = answers \cup {m}
  /\ delivered' \in {delivered, delivered \cup {m}}
  /\ accepted' = accepted \cup delivered'
  /\ UNCHANGED <<control, broker, handler, msg, sem, messages, mu, acked, deliverer>>

\* Mutant of OnDelivery: a message is acknowledged whatever the answer.
OnDeliveryAlways(m) ==
  /\ deliverer = "running" /\ ~mu
  /\ m \in answers /\ answers' = answers \ {m} /\ delivered' = delivered \ {m}
  /\ IF m \in messages
     THEN /\ messages' = messages \ {m} /\ sem' = sem - 1
          /\ acked' = acked \cup {m}
     ELSE UNCHANGED <<messages, sem, acked>>
  /\ UNCHANGED <<control, broker, handler, msg, mu, inflight, accepted, deliverer>>

\* onDelivery of kafka and nsq: a group it does not know keeps its slot.
OnDelivery(m) ==
  /\ deliverer = "running" /\ ~mu
  /\ m \in answers /\ answers' = answers \ {m} /\ delivered' = delivered \ {m}
  /\ IF m \in messages
     THEN /\ messages' = messages \ {m} /\ sem' = sem - 1
          /\ acked' = IF m \in delivered THEN acked \cup {m} ELSE acked
          /\ broker' = IF plugin = "nsq" /\ m \notin delivered THEN broker \cup {m} ELSE broker
     ELSE UNCHANGED <<messages, sem, acked, broker>>
  /\ UNCHANGED <<control, handler, msg, mu, inflight, accepted, deliverer>>

\* The same in the select loops of nats, which may have reserved a slot already,
\* and of mqtt, which leaves the mutex locked for a group it does not know.
ReadAnswer(h, m) ==
  /\ m \in answers /\ answers' = answers \ {m} /\ delivered' = delivered \ {m}
  /\ \/ plugin = "nats" /\ handler[h] = "idle" /\ sem' = sem - 1
        /\ UNCHANGED <<handler, msg, messages, mu>>
     \/ plugin = "nats" /\ handler[h] = "reserved" /\ sem' = sem - 2
        /\ Go(h, "idle", None) /\ UNCHANGED <<messages, mu>>
     \/ plugin = "mqtt" /\ handler[h] = "called" /\ ~mu /\ sem' = sem - 1
        /\ messages' = messages \ {m} /\ mu' = (m \notin messages)
        /\ UNCHANGED <<handler, msg>>
  /\ UNCHANGED <<control, broker, inflight, accepted, acked, deliverer>>

\* nats: an error of the library, with a slot reserved.
LibraryError(h) ==
  /\ plugin = "nats" /\ handler[h] = "reserved"
  /\ sem' = sem - 1 /\ Go(h, "idle", None)
  /\ UNCHANGED <<control, broker, messages, mu, groups, acked, deliverer>>
-----------------------------------------------------------------------------
\* The session of kafka ends (the group is balanced anew).
EndSession ==
  /\ plugin = "kafka" /\ stop = "running" /\ ~over /\ session < MaxSessions
  /\ over' = TRUE
  /\ UNCHANGED <<plugin, session, stop, broker, handler, msg, sem, messages, mu, groups, acked, deliverer>>

\* Stop cancels the context.
ConsumerStop ==
  /\ stop = "running" /\ stop' = "cancelled"
  /\ over' = TRUE
  /\ UNCHANGED <<plugin, session, broker, handler, msg, sem, messages, mu, groups, acked, deliverer>>

\* A handler sees the context done: the slot it may have stays with the session, and
\* nsq has the message queued again.
Quit(h) ==
  /\ over
  /\ \/ plugin \in {"kafka", "nats"} /\ handler[h] \in {"idle", "reserved"}
        /\ Go(h, "ended", None) /\ UNCHANGED broker
     \/ plugin = "nsq" /\ handler[h] = "called"
        /\ Go(h, "idle", None) /\ broker' = broker \cup {msg[h]}
  /\ UNCHANGED <<control, sem, messages, mu, groups, acked, deliverer>>

\* kafka's run ends in Cleanup, after the claims; nsq's when the context is done.
QuitDeliverer ==
  /\ over /\ deliverer = "running"
  /\ plugin = "kafka" => \A h \in Handlers : handler[h] = "ended"
  /\ deliverer' = "ended"
  /\ UNCHANGED <<control, broker, handler, msg, sem, messages, mu, groups, acked>>

\* kafka: Consume is called again, with a new handler.  The broker gives out again
\* what is behind the offset that was marked last.
Consume ==
  /\ plugin = "kafka" /\ over /\ stop = "running"
  /\ deliverer = "ended"
  /\ session' = session + 1 /\ over' = FALSE
  /\ handler' = Begin /\ msg' = [h \in Handlers |-> None]
  /\ sem' = 0 /\ messages' = {} /\ mu' = FALSE
  /\ inflight' = {} /\ answers' = {} /\ delivered' = {} /\ deliverer' = "running"
  /\ broker' = {m \in Messages : \A a \in acked : Claim[a] = Claim[m] => a < m}
  /\ UNCHANGED <<plugin, stop, accepted, acked>>

\* Mutant of ConsumerStopped: kafka does not wait for the consumer.
ConsumerStoppedEarly ==
  /\ stop = "cancelled"
  /\ stop' = "stopped"
  /\ UNCHANGED <<plugin, session, over, broker, handler, msg, sem, messages, mu, groups, acked, deliverer>>

\* Stop returns: kafka waits for Consume, nsq for its goroutine and the library for
\* the handlers; the goroutine that nats waits for has only started the receiver;
\* mqtt disconnects and waits for nothing.
ConsumerStopped ==
  /\ stop = "cancelled"
  /\ deliverer = "ended"
  /\ plugin = "kafka" => \A h \in Handlers : handler[h] = "ended"
  /\ plugin = "nsq" => handler[Sole] = "idle"
  /\ stop' = "stopped"
  /\ UNCHANGED <<plugin, session, over, broker, handler, msg, sem, messages, mu, groups, acked, deliverer>>
-----------------------------------------------------------------------------
HandlerStep(h) ==
  \/ Reserve(h) \/ ReserveLate(h) \/ AddGroup(h) \/ Record(h) \/ LibraryError(h) \/ Quit(h)
  \/ \E m \in Messages : Receive(h, m) \/ Called(h, m) \/ ReadAnswer(h, m)

ConsumerNext ==
  \/ \E h \in Handlers : HandlerStep(h)
  \/ \E m \in Messages : Deliver(m) \/ OnDelivery(m)
  \/ ConsumerStart \/ EndSession \/ ConsumerStop \/ QuitDeliverer \/ Consume \/ ConsumerStopped

ConsumerSpec == ConsumerInit /\ [][ConsumerNext]_consumerVars

\* Goroutines go on, and select, semaphore and mutex pass nobody over for ever.  The
\* broker need not have messages.  That every group is answered, WF of Deliver, is
\* what an input assumes of the outputs: one that aggregates does not answer, and
\* then the slots run out (see Tracking).
ConsumerFairness ==
  /\ \A h \in Handlers :
       /\ SF_consumerVars(Reserve(h) \/ ReserveLate(h) \/ AddGroup(h))
       /\ WF_consumerVars(Record(h))
  /\ SF_consumerVars(\E h \in Handlers, m \in Messages : ReadAnswer(h, m))
  /\ SF_consumerVars(\E m \in Messages : OnDelivery(m))
  /\ \A m \in Messages : WF_consumerVars(Deliver(m))
-----------------------------------------------------------------------------
\* A handler waits for a slot: before it has a message, or after.
Waits(h) == handler[h] = IF plugin \in {"kafka", "nats"} THEN "idle" ELSE "called"

Holding == {h \in Handlers : handler[h] \in {"reserved", "add"}}

\* No more groups are under way than the channel of the tracking accumulator has
\* room for, in spite of the many places that take and give back slots: the
\* assumption on which onDelivery of the accumulator never panics.
WithinLimit == Cardinality(inflight \cup answers) =< MaxUndelivered

\* The accumulator, as the input sees it.
Acc == INSTANCE Accumulator WITH Group <- Messages, MaxTracked <- MaxUndelivered

\* The inputs keep to what the accumulator asks of them: they add a group only if one
\* more has room in the channel, and start anew only in a new session, with a new
\* accumulator.
UsesAccumulator ==
  /\ Acc!Init
  /\ [][Acc!Next \/ (session' # session /\ Acc!Init')]_<<inflight, answers, delivered>>

\* A message is acknowledged only if its metrics were delivered or it is of no use.
AckedAfterDelivery == acked \subseteq accepted \cup Bad \cup TooLong

\* An answer is read only after the handler has recorded its group: otherwise kafka
\* and nsq would lose a slot and mqtt its mutex.
KnownWhenRead ==
  /\ plugin \in Own /\ ~mu => answers \subseteq messages
  /\ plugin = "mqtt" => ~mu

\* If the outputs answer every group, a handler that waits for a slot gets one: slots
\* come back however messages end.
\* kafka's claims reserve before they have a message, so it takes a slot for each.
NotStalled == \A h \in Handlers : Waits(h) ~> over \/ ~Waits(h)

\* When Stop has returned nothing is added to the accumulator any more.
QuietAfterStop ==
  stop = "stopped" => \A h \in Handlers : handler[h] # "add"

\* kafka and nsq are quiet.
OwnQuietAfterStop == plugin \in Own => QuietAfterStop
=============================================================================
