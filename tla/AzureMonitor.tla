---------------------------- MODULE AzureMonitor ----------------------------
(***************************************************************************)
(* The AggregatingOutput of the repository                                 *)
(* (plugins/outputs/azure_monitor/azure_monitor.go): it aggregates metrics *)
(* by the minute of their timestamps.  The clock counts minutes, and the   *)
(* bucket of a minute has that minute for its name.  One aggregate for     *)
(* each bucket stands for those of all its series, and its value is the    *)
(* number of metrics that are in it.  RunningOutput calls Add, Push and    *)
(* Reset, and the clock goes on meanwhile.                                 *)
(***************************************************************************)
EXTENDS Integers
LOCAL INSTANCE Functions

CONSTANTS
  Retention,      \* age at which a bucket is too old (30 minutes)
  MaxMinute,      \* bound: the last minute
  MaxAggregated   \* bound: metrics ever given to Add

ASSUME AzureAssumption ==
  /\ Retention \in Nat \ {0}
  /\ MaxMinute \in Nat /\ MaxAggregated \in Nat

VARIABLES
  minute,      \* the clock
  cache,       \* bucket -> its aggregate, 0 if there is none
  updated,     \* the buckets whose aggregate has been updated since it was pushed
  aggregated,  \* bucket -> metrics ever aggregated in it
  pushed,      \* bucket -> the aggregate that was last pushed
  pushedAt,    \* the minute of the last Push
  missed       \* the buckets that the last Push left out and Reset took for pushed

azureVars == <<minute, cache, updated, aggregated, pushed, pushedAt, missed>>

Bucket == 0 .. MaxMinute

AzureInit ==
  /\ minute = 0 /\ pushedAt = 0
  /\ cache = [b \in Bucket |-> 0]
  /\ aggregated = [b \in Bucket |-> 0] /\ pushed = [b \in Bucket |-> 0]
  /\ updated = {} /\ missed = {}

Complete(b) == b < minute

Expired(b) == b + Retention <= minute

NewMinute ==
  /\ minute < MaxMinute
  /\ minute' = minute + 1
  /\ UNCHANGED <<cache, updated, aggregated, pushed, pushedAt, missed>>

\* A metric with its timestamp in minute b, in the past or in the future.
AzureAdd(b) ==
  /\ SumFunction(aggregated) < MaxAggregated
  /\ \/ Expired(b) /\ UNCHANGED <<cache, updated, aggregated, missed>>
     \/ /\ ~Expired(b)
        /\ cache' = [cache EXCEPT ![b] = @ + 1]
        /\ aggregated' = [aggregated EXCEPT ![b] = @ + 1]
        /\ updated' = updated \cup {b}
        /\ missed' = missed \ {b}
  /\ UNCHANGED <<minute, pushed, pushedAt>>

\* What Push returns: "Do not send metrics early", and "Only send aggregates that
\* have had an update since the last push".
PushedNow == {b \in updated : Complete(b)}

AzurePush ==
  /\ pushed' = [b \in Bucket |-> IF b \in PushedNow THEN cache[b] ELSE pushed[b]]
  /\ pushedAt' = minute
  /\ UNCHANGED <<minute, cache, updated, aggregated, missed>>

\* Reset looks at the clock again: a minute that has become complete since the
\* Push loses its mark although it has not been pushed.
AzureReset ==
  /\ cache' = [b \in Bucket |-> IF Expired(b) THEN 0 ELSE cache[b]]
  /\ updated' = {b \in updated : ~Complete(b)}
  /\ missed' = missed \cup {b \in updated : pushedAt <= b /\ Complete(b)}
  /\ UNCHANGED <<minute, aggregated, pushed, pushedAt>>
=============================================================================
