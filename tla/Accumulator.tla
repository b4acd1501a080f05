---------------------------- MODULE Accumulator ----------------------------
(***************************************************************************)
(* What the tracking accumulator promises an input, and what it asks of    *)
(* it: an input adds a group only if fewer than MaxTracked groups wait for *)
(* their answer or to be read; every group is then answered once, after    *)
(* which the input finds it in the channel.  Tracking implements this with *)
(* counted references; Consumer is four inputs that keep to it.            *)
(***************************************************************************)
EXTENDS Integers, FiniteSets

CONSTANTS Group, MaxTracked

VARIABLES
  inflight,   \* groups that are not answered
  answers,    \* groups in the channel
  delivered   \* those of them that no output rejected

vars == <<inflight, answers, delivered>>

Init == inflight = {} /\ answers = {} /\ delivered = {}

Add(g) ==
  /\ g \notin inflight \cup answers
  /\ Cardinality(inflight \cup answers) < MaxTracked
  /\ inflight' = inflight \cup {g}
  /\ UNCHANGED <<answers, delivered>>

Deliver(g) ==
  /\ g \in inflight
  /\ inflight' = inflight \ {g} /\ answers' = answers \cup {g}
  /\ delivered' \in {delivered, delivered \cup {g}}

Read(g) ==
  /\ g \in answers
  /\ answers' = answers \ {g} /\ delivered' = delivered \ {g}
  /\ UNCHANGED inflight

Next == \E g \in Group : Add(g) \/ Deliver(g) \/ Read(g)

Spec == Init /\ [][Next]_vars
=============================================================================
