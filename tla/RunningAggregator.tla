------------------------- MODULE RunningAggregator -------------------------
(***************************************************************************)
(* The window of an aggregator (models/running_aggregator.go) and the loop *)
(* that moves it (push and updateWindow in agent/agent.go), with a clock.  *)
(*                                                                         *)
(* A metric gets the time of its creation as its timestamp and reaches Add *)
(* some time later; the push loop has pushed some time after the period    *)
(* has ended.  MaxLatency and MaxLag bound these delays: the clock waits   *)
(* for a metric or a push that is as late as it may be.  Metrics that the  *)
(* filter of the aggregator passes over are left out.                      *)
(***************************************************************************)
EXTENDS Integers

CONSTANTS
  Metric,         \* the metrics
  Period, Delay, Grace,
  RoundInterval,  \* round_interval of the agent
  StartTime,      \* when the agent started
  MaxLatency,     \* longest way of a metric to Add
  MaxLag,         \* longest delay of the push loop
  MaxTime         \* bound: the end of time

ASSUME AggregatorAssumption ==
  /\ Period \in Nat \ {0} /\ Delay \in Nat /\ Grace \in Nat
  /\ RoundInterval \in BOOLEAN
  /\ StartTime \in Nat /\ MaxLatency \in Nat /\ MaxLag \in Nat /\ MaxTime \in Nat

VARIABLES
  now,          \* the clock
  periodStart, periodEnd,
  place,        \* metric -> "new", "transit", "cache", "pushed", "dropped"
  stamp,        \* metric -> its timestamp
  pusher,       \* the push loop: "wait", "push", "last", "done"; it has the
                \* lock in "push" and "last"
  pushes,       \* calls of Push
  ctxDone       \* the reader has seen its last metric

metricVars == <<place, stamp>>
windowVars == <<periodStart, periodEnd, pushes>>
vars == <<now, metricVars, windowVars, pusher, ctxDone>>

\* AlignTime of internal/internal.go.
AlignTime(tm, interval) ==
  LET truncated == tm - (tm % interval)
  IN  IF truncated = tm THEN tm ELSE truncated + interval

\* The end of the window that updateWindow computes; it starts a period before.
FirstEnd(start, period) ==
  IF RoundInterval
    THEN LET until == AlignTime(start, period)
         IN  IF until = start THEN AlignTime(start + 1, period) ELSE until
    ELSE start + period

\* The plugins have taken their time to start.
Init ==
  /\ periodEnd = FirstEnd(StartTime, Period)
  /\ periodStart = FirstEnd(StartTime, Period) - Period
  /\ now \in StartTime .. FirstEnd(StartTime, Period) + MaxLag
  /\ place = [m \in Metric |-> "new"] /\ stamp = [m \in Metric |-> 0]
  /\ pusher = "wait" /\ pushes = 0 /\ ctxDone = FALSE

In(m, p) == place[m] = p

Move(m, p) == place' = [place EXCEPT ![m] = p]

Locked == pusher \in {"push", "last"}
-----------------------------------------------------------------------------
Tick ==
  /\ now < MaxTime
  /\ \A m \in Metric : In(m, "transit") => now < stamp[m] + MaxLatency
  /\ pusher \in {"wait", "push"} => now < periodEnd + MaxLag
  /\ now' = now + 1
  /\ UNCHANGED <<metricVars, windowVars, pusher, ctxDone>>

Create(m) ==
  /\ In(m, "new") /\ ~ctxDone
  /\ Move(m, "transit")
  /\ stamp' = [stamp EXCEPT ![m] = now]
  /\ UNCHANGED <<now, windowVars, pusher, ctxDone>>

\* Mutant of Add: no grace.
AddNoGrace(m) ==
  /\ In(m, "transit") /\ ~Locked
  /\ IF stamp[m] < periodStart \/ stamp[m] > periodEnd + Delay
       THEN Move(m, "dropped")
       ELSE Move(m, "cache")
  /\ UNCHANGED <<now, stamp, windowVars, pusher, ctxDone>>

Add(m) ==
  /\ In(m, "transit") /\ ~Locked
  /\ IF stamp[m] < periodStart - Grace \/ stamp[m] > periodEnd + Delay
       THEN Move(m, "dropped")
       ELSE Move(m, "cache")
  /\ UNCHANGED <<now, stamp, windowVars, pusher, ctxDone>>

\* The source of the aggregators is closed and read.
Cancel ==
  /\ ~ctxDone /\ \A m \in Metric : ~In(m, "transit")
  /\ ctxDone' = TRUE
  /\ UNCHANGED <<now, metricVars, windowVars, pusher>>

\* Mutant of UpdateWindow: the next period starts when the push does.
UpdateFromNow == periodStart' = now /\ periodEnd' = now + Period

UpdateWindow == periodStart' = periodEnd /\ periodEnd' = periodEnd + Period

\* Mutant of Push: the loop returns without pushing when the context is done.
PushPeriodOnly ==
  /\ pusher = "wait"
  /\ \/ /\ now >= periodEnd /\ pusher' = "push"
        /\ UpdateWindow
        /\ pushes' = pushes + 1
        /\ place' = [m \in Metric |-> IF In(m, "cache") THEN "pushed" ELSE place[m]]
     \/ ctxDone /\ pusher' = "last" /\ UNCHANGED <<windowVars, place>>
  /\ UNCHANGED <<now, stamp, ctxDone>>

\* Push, up to the sending of the aggregates, in the lock.
Push ==
  /\ pusher = "wait"
  /\ \/ now >= periodEnd /\ pusher' = "push"
     \/ ctxDone /\ pusher' = "last"
  /\ UpdateWindow
  /\ pushes' = pushes + 1
  /\ place' = [m \in Metric |-> IF In(m, "cache") THEN "pushed" ELSE place[m]]
  /\ UNCHANGED <<now, stamp, ctxDone>>

PushReturn ==
  /\ Locked
  /\ pusher' = IF pusher = "push" THEN "wait" ELSE "done"
  /\ UNCHANGED <<now, metricVars, windowVars, ctxDone>>

Done == pusher = "done" /\ UNCHANGED vars

Next ==
  \/ Tick \/ Cancel \/ Push \/ PushReturn \/ Done
  \/ \E m \in Metric : Create(m) \/ Add(m)

Spec == Init /\ [][Next]_vars

\* The goroutines go on, time passes, and the agent is stopped before the end of
\* time.
Fairness ==
  /\ WF_vars(Tick) /\ WF_vars(Push) /\ WF_vars(PushReturn) /\ WF_vars(now = MaxTime /\ Cancel)
  /\ \A m \in Metric : SF_vars(Add(m))

FairSpec == Spec /\ Fairness
-----------------------------------------------------------------------------
\* The windows follow each other without gap, overlap or drift, one for each
\* push, and the first one holds the start: however late the pushes are.
WindowsMeet ==
  LET first == periodEnd - pushes * Period
  IN  /\ periodStart = periodEnd - Period
      /\ first - Period <= StartTime /\ StartTime < first
      /\ RoundInterval => periodEnd % Period = 0

\* agent.go, runAggregators: the window "ensures that any metric created after
\* start time will be aggregated".  That is so when the grace is as long as the
\* way of a metric, and the delay as long as the push loop is late.  (Refuted
\* for shorter ones, such as the default grace of 0.)
AggregatesAll == \A m \in Metric : ~In(m, "dropped")

\* What is aggregated is pushed, at the latest by the last push.
EventuallyPushed == \A m \in Metric : In(m, "cache") ~> In(m, "pushed")
=============================================================================
