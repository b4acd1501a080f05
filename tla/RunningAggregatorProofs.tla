---------------------- MODULE RunningAggregatorProofs ----------------------
(***************************************************************************)
(* What RunningAggregator.tla checks on small clocks, for every period,    *)
(* delay, grace, start time and number of metrics.                         *)
(***************************************************************************)
EXTENDS RunningAggregator, TLAPS

\* The arithmetic of AlignTime: the remainder is less than the interval, and
\* taking it off, or adding an interval, gives a multiple.
LEMMA Remainder ==
  ASSUME NEW t \in Nat, NEW p \in Nat \ {0}
  PROVE  /\ t % p \in 0 .. p - 1
         /\ (t - (t % p)) % p = 0
         /\ t % p = 0 => (t + p) % p = 0
<1>1. t % p \in 0 .. p - 1 /\ t = p * (t \div p) + (t % p)
  OBVIOUS
<1> DEFINE q == t \div p
<1>2. q \in Int
  OBVIOUS
<1>3. ASSUME NEW k \in Int PROVE (p * k) % p = 0
  OBVIOUS
<1>4. t - (t % p) = p * q
  BY <1>1, <1>2
<1>5. t % p = 0 => t + p = p * (q + 1)
  BY <1>1, <1>2
<1>6. (p * q) % p = 0 /\ (p * (q + 1)) % p = 0
  <2>1. q + 1 \in Int
    BY <1>2
  <2> HIDE DEF q
  <2>2. (p * q) % p = 0
    BY Zenon, <1>2, <1>3
  <2>3. (p * (q + 1)) % p = 0
    BY Zenon, <2>1, <1>3
  <2> QED BY Zenon, <2>2, <2>3
<1> HIDE DEF q
<1>7. (t - (t % p)) % p = 0
  BY Zenon, <1>4, <1>6
<1>8. t % p = 0 => (t + p) % p = 0
  BY Zenon, <1>5, <1>6
<1> QED BY Zenon, <1>1, <1>7, <1>8

\* AlignTime rounds up to a multiple of the interval.
LEMMA AlignTimeUp ==
  ASSUME NEW t \in Nat, NEW p \in Nat \ {0}
  PROVE  /\ AlignTime(t, p) \in Nat
         /\ t <= AlignTime(t, p) /\ AlignTime(t, p) < t + p
         /\ AlignTime(t, p) % p = 0
<1> DEFINE r == t % p
<1>1. r \in 0 .. p - 1 /\ (t - r) % p = 0 /\ t - r \in Nat
  <2>1. r \in 0 .. p - 1 /\ (t - r) % p = 0
    BY Zenon, Remainder
  <2>2. r <= t
    OBVIOUS
  <2> QED BY <2>1, <2>2
<1>2. (t - r + p) % p = 0
  BY Zenon, <1>1, Remainder
<1>3. AlignTime(t, p) = IF t - r = t THEN t ELSE t - r + p
  BY Zenon DEF AlignTime
<1> HIDE DEF r
<1> QED BY <1>1, <1>2, <1>3

\* The first window of updateWindow holds the start, also when the start is on
\* a boundary.
LEMMA FirstWindow ==
  /\ FirstEnd(StartTime, Period) \in Nat
  /\ FirstEnd(StartTime, Period) - Period <= StartTime
  /\ StartTime < FirstEnd(StartTime, Period)
  /\ FirstEnd(StartTime, Period) - Period \in Int
  /\ RoundInterval => FirstEnd(StartTime, Period) % Period = 0
<1>1. /\ AlignTime(StartTime, Period) \in Nat
      /\ StartTime <= AlignTime(StartTime, Period)
      /\ AlignTime(StartTime, Period) < StartTime + Period
      /\ AlignTime(StartTime, Period) % Period = 0
  BY Zenon, AlignTimeUp, AggregatorAssumption
<1>2. StartTime + 1 \in Nat
  BY AggregatorAssumption
<1>3. /\ AlignTime(StartTime + 1, Period) \in Nat
      /\ StartTime + 1 <= AlignTime(StartTime + 1, Period)
      /\ AlignTime(StartTime + 1, Period) < StartTime + 1 + Period
      /\ AlignTime(StartTime + 1, Period) % Period = 0
  BY Zenon, <1>2, AlignTimeUp, AggregatorAssumption
<1> QED BY <1>1, <1>3, AggregatorAssumption DEF FirstEnd

-----------------------------------------------------------------------------
(* The windows. *)

\* The window after a number of pushes.
Windows ==
  /\ now \in Nat /\ pushes \in Nat /\ periodEnd \in Nat
  /\ periodStart = periodEnd - Period
  /\ periodEnd = FirstEnd(StartTime, Period) + pushes * Period
  /\ RoundInterval => periodEnd % Period = 0

\* Only Push moves the window, by a period.
LEMMA WindowsStep == Windows /\ [Next]_vars => Windows'
<1> SUFFICES ASSUME Windows, [Next]_vars PROVE Windows'
  OBVIOUS
<1>1. CASE Push
  <2>1. /\ periodStart' = periodEnd /\ periodEnd' = periodEnd + Period
        /\ pushes' = pushes + 1 /\ now' = now
    BY Zenon, <1>1 DEF Push, UpdateWindow
  <2>2. RoundInterval => (periodEnd + Period) % Period = 0
    BY Zenon, Remainder, AggregatorAssumption DEF Windows
  <2>3. ASSUME NEW k \in Nat, NEW f \in Nat, NEW p \in Nat
        PROVE  f + k * p + p = f + (k + 1) * p
    OBVIOUS
  <2>4. periodEnd + Period = FirstEnd(StartTime, Period) + (pushes + 1) * Period
    BY <2>3, FirstWindow, AggregatorAssumption DEF Windows
  <2>5. periodEnd + Period \in Nat /\ pushes + 1 \in Nat /\ (periodEnd + Period) - Period = periodEnd
    BY AggregatorAssumption DEF Windows
  <2>6. RoundInterval => periodEnd' % Period = 0
    BY Zenon, <2>1, <2>2
  <2>7. periodEnd' = FirstEnd(StartTime, Period) + pushes' * Period
    BY Zenon, <2>1, <2>4
  <2>8. now' \in Nat /\ pushes' \in Nat /\ periodEnd' \in Nat
    BY Zenon, <2>1, <2>5 DEF Windows
  <2>9. periodStart' = periodEnd' - Period
    BY Zenon, <2>1, <2>5
  <2> QED BY Zenon, <2>6, <2>7, <2>8, <2>9 DEF Windows
<1>2. CASE Tick
  <2>1. now' \in Nat
    BY <1>2 DEF Tick, Windows
  <2> QED BY Zenon, <1>2, <2>1 DEF Tick, Windows, windowVars
<1>3. CASE Cancel \/ PushReturn \/ Done \/ UNCHANGED vars
  BY Zenon, <1>3 DEF Cancel, PushReturn, Done, vars, windowVars, Windows
<1>4. CASE \E m \in Metric : Create(m) \/ Add(m)
  BY Zenon, <1>4 DEF Create, Add, windowVars, Windows
<1> QED BY Zenon, <1>1, <1>2, <1>3, <1>4 DEF Next

\* The first window is the one updateWindow computes.
LEMMA WindowsInit == Init => Windows
<1> SUFFICES ASSUME Init PROVE Windows
  OBVIOUS
<1>1. /\ periodEnd = FirstEnd(StartTime, Period) /\ pushes = 0
      /\ periodStart = FirstEnd(StartTime, Period) - Period
      /\ now \in StartTime .. FirstEnd(StartTime, Period) + MaxLag
  BY Zenon DEF Init
<1>2. now \in Nat
  BY <1>1, FirstWindow, AggregatorAssumption
<1>3. FirstEnd(StartTime, Period) = FirstEnd(StartTime, Period) + 0 * Period
  BY FirstWindow, AggregatorAssumption
<1> QED BY Zenon, <1>1, <1>2, <1>3, FirstWindow DEF Windows

\* WindowsMeet, for every period and start: the windows of an aggregator follow
\* each other without gap or drift however late Push is called.
THEOREM WindowsCorrect == Spec => []WindowsMeet
<1>1. Windows => WindowsMeet
  <2> SUFFICES ASSUME Windows PROVE WindowsMeet
    OBVIOUS
  <2>1. pushes * Period \in Int
    BY AggregatorAssumption DEF Windows
  <2>2. periodEnd - pushes * Period = FirstEnd(StartTime, Period)
    BY <2>1, FirstWindow DEF Windows
  <2> QED BY Zenon, <2>2, FirstWindow, AggregatorAssumption DEF Windows, WindowsMeet
<1> QED BY <1>1, WindowsInit, WindowsStep, PTL DEF Spec

-----------------------------------------------------------------------------
(* Every metric is aggregated. *)

\* No metric is older than the longest way to Add, the clock is in the window or
\* at most MaxLag behind it, and nothing was dropped.
Timely ==
  /\ place \in [Metric -> {"new", "transit", "cache", "pushed", "dropped"}]
  /\ stamp \in [Metric -> Nat]
  /\ \A m \in Metric : In(m, "transit") => stamp[m] <= now /\ now <= stamp[m] + MaxLatency
  /\ \A m \in Metric : In(m, "transit") => ~ctxDone
  /\ pusher \in {"last", "done"} => ctxDone
  /\ pusher \in {"wait", "push", "last", "done"}
  /\ pusher \in {"wait", "push"} => periodStart <= now /\ now <= periodEnd + MaxLag
  /\ AggregatesAll

\* The premises: the grace is at least the longest way of a metric, the delay at
\* least the longest delay of the push loop.
Generous == Grace >= MaxLatency /\ Delay >= MaxLag

\* Add finds the metric in its window, widened by grace and delay.
LEMMA AddKeeps ==
  ASSUME Generous, Windows, Timely, NEW m \in Metric, Add(m)
  PROVE  place' = [place EXCEPT ![m] = "cache"]
<1>1. In(m, "transit") /\ pusher \in {"wait", "done"}
  BY Zenon DEF Add, Locked, Timely
<1>2. pusher = "wait"
  BY Zenon, <1>1 DEF Timely
<1>3. stamp[m] \in Nat /\ now \in Nat /\ periodStart \in Int /\ periodEnd \in Nat
  BY AggregatorAssumption DEF Timely, Windows
<1>4. /\ stamp[m] <= now /\ now <= stamp[m] + MaxLatency
      /\ periodStart <= now /\ now <= periodEnd + MaxLag
  BY Zenon, <1>1, <1>2 DEF Timely
<1>5. ~(stamp[m] < periodStart - Grace \/ stamp[m] > periodEnd + Delay)
  BY <1>3, <1>4, AggregatorAssumption DEF Generous
<1> QED BY Zenon, <1>5 DEF Add, Move

\* A step keeps Timely.
LEMMA TimelyStep ==
  ASSUME Generous, Windows, Timely, [Next]_vars
  PROVE  Timely'
<1> USE DEF In
<1>1. CASE Tick
  <2>1. /\ now' = now + 1 /\ UNCHANGED <<place, stamp, pusher, ctxDone, periodStart, periodEnd>>
        /\ \A m \in Metric : In(m, "transit") => now < stamp[m] + MaxLatency
        /\ pusher \in {"wait", "push"} => now < periodEnd + MaxLag
    BY Zenon, <1>1 DEF Tick, metricVars, windowVars
  <2>2. now \in Nat /\ periodStart \in Int /\ periodEnd \in Nat /\ stamp \in [Metric -> Nat]
    BY AggregatorAssumption DEF Windows, Timely
  <2>3. \A m \in Metric : In(m, "transit") =>
           stamp[m] <= now + 1 /\ now + 1 <= stamp[m] + MaxLatency
    BY <2>1, <2>2, AggregatorAssumption DEF Timely
  <2>4. pusher \in {"wait", "push"} => periodStart <= now + 1 /\ now + 1 <= periodEnd + MaxLag
    BY <2>1, <2>2, AggregatorAssumption DEF Timely
  <2> QED BY Zenon, <2>1, <2>3, <2>4 DEF Timely, AggregatesAll
<1>2. CASE Cancel
  BY Zenon, <1>2 DEF Cancel, Timely, metricVars, windowVars, AggregatesAll
<1>3. CASE PushReturn
  <2>1. /\ pusher \in {"push", "last"}
        /\ pusher' = IF pusher = "push" THEN "wait" ELSE "done"
        /\ UNCHANGED <<now, place, stamp, periodStart, periodEnd, ctxDone>>
    BY Zenon, <1>3 DEF PushReturn, Locked, metricVars, windowVars
  <2> QED BY Zenon, <2>1 DEF Timely, AggregatesAll
<1>4. CASE Push
  <2>1. /\ periodStart' = periodEnd /\ periodEnd' = periodEnd + Period
        /\ UNCHANGED <<now, stamp, ctxDone>>
        /\ place' = [m \in Metric |-> IF In(m, "cache") THEN "pushed" ELSE place[m]]
        /\ pusher = "wait"
        /\ \/ now >= periodEnd /\ pusher' = "push"
           \/ ctxDone /\ pusher' = "last"
    BY Zenon, <1>4 DEF Push, UpdateWindow
  <2>2. now \in Nat /\ periodEnd \in Nat /\ now <= periodEnd + MaxLag
    BY Zenon, <2>1 DEF Windows, Timely
  <2>3. now >= periodEnd => periodEnd <= now /\ now <= periodEnd + Period + MaxLag
    BY <2>2, AggregatorAssumption
  <2>4. pusher' \in {"wait", "push"} => periodStart' <= now' /\ now' <= periodEnd' + MaxLag
    BY Zenon, <2>1, <2>3
  <2>5. /\ place' \in [Metric -> {"new", "transit", "cache", "pushed", "dropped"}]
        /\ \A m \in Metric : place'[m] = "transit" => In(m, "transit")
        /\ \A m \in Metric : place'[m] # "dropped"
    BY Zenon, <2>1 DEF Timely, AggregatesAll
  <2> QED BY Zenon, <2>1, <2>4, <2>5 DEF Timely, AggregatesAll
<1>5. ASSUME NEW m \in Metric, Create(m) PROVE Timely'
  <2>1. /\ place' = [place EXCEPT ![m] = "transit"] /\ stamp' = [stamp EXCEPT ![m] = now]
        /\ ~ctxDone /\ UNCHANGED <<now, pusher, ctxDone, periodStart, periodEnd>>
    BY Zenon, <1>5 DEF Create, Move, windowVars
  <2>2. now \in Nat /\ now <= now /\ now <= now + MaxLatency
    BY AggregatorAssumption DEF Windows
  <2> QED BY Zenon, <2>1, <2>2 DEF Timely, AggregatesAll
<1>6. ASSUME NEW m \in Metric, Add(m) PROVE Timely'
  <2>1. /\ place' = [place EXCEPT ![m] = "cache"]
        /\ UNCHANGED <<now, stamp, pusher, ctxDone, periodStart, periodEnd>>
    BY Zenon, <1>6, AddKeeps DEF Add, windowVars
  <2> QED BY Zenon, <2>1 DEF Timely, AggregatesAll
<1>7. CASE Done \/ UNCHANGED vars
  BY <1>7 DEF Done, vars, metricVars, windowVars, Timely, AggregatesAll
<1> QED BY Zenon, <1>1, <1>2, <1>3, <1>4, <1>5, <1>6, <1>7 DEF Next

\* agent.go, runAggregators: "any metric created after start time will be
\* aggregated", provided that the grace covers the way of a metric to Add and
\* the delay covers the delay of the push loop.
THEOREM AggregatesAllCorrect ==
  ASSUME Generous
  PROVE  Spec => []AggregatesAll
<1>1. Init => Windows /\ Timely
  <2> SUFFICES ASSUME Init PROVE Timely
    BY Zenon, WindowsInit
  <2>1. periodStart <= now /\ now <= periodEnd + MaxLag
    BY FirstWindow, AggregatorAssumption DEF Init
  <2> QED BY Zenon, <2>1 DEF Init, Timely, AggregatesAll, In
<1>2. Windows /\ Timely /\ [Next]_vars => (Windows /\ Timely)'
  BY Zenon, WindowsStep, TimelyStep
<1>3. Timely => AggregatesAll
  BY Zenon DEF Timely
<1> QED BY <1>1, <1>2, <1>3, PTL DEF Spec
-----------------------------------------------------------------------------
\* When the push loop has returned, everything that reached the aggregator in time has
\* been pushed, and nothing is on its way.
NothingLeft ==
  pusher = "done" => \A m \in Metric : place[m] \in {"new", "pushed", "dropped"}

\* The loop makes its last push only when the reader of the aggregators is done, and no
\* metric comes after it.
LastPush ==
  /\ ctxDone => \A m \in Metric : place[m] # "transit"
  /\ pusher \in {"last", "done"} =>
       ctxDone /\ \A m \in Metric : place[m] \in {"new", "pushed", "dropped"}
  /\ place \in [Metric -> {"new", "transit", "cache", "pushed", "dropped"}]

\* The last push is the last of everything.
LEMMA LastPushStep == LastPush /\ [Next]_vars => LastPush'
<1> SUFFICES ASSUME LastPush, [Next]_vars PROVE LastPush'
  OBVIOUS
<1> USE DEF LastPush, metricVars, windowVars
<1>1. CASE Tick \/ Cancel \/ Done \/ UNCHANGED vars
  BY <1>1 DEF Tick, Cancel, Done, vars, In
<1>2. CASE Push
  BY <1>2 DEF Push, In
<1>3. CASE PushReturn
  BY <1>3 DEF PushReturn, Locked
<1>4. ASSUME NEW m \in Metric, Create(m) PROVE LastPush'
  BY <1>4 DEF Create, In, Move
<1>5. ASSUME NEW m \in Metric, Add(m) PROVE LastPush'
  BY <1>5 DEF Add, In, Move, Locked
<1> QED
  BY <1>1, <1>2, <1>3, <1>4, <1>5 DEF Next

\* What an aggregator has been given is in its last push at the latest.
THEOREM LastPushIsComplete == Spec => []NothingLeft
<1>1. Init => LastPush
  BY DEF Init, LastPush
<1>2. LastPush => NothingLeft
  BY DEF LastPush, NothingLeft
<1> QED
  BY <1>1, <1>2, LastPushStep, PTL DEF Spec
=============================================================================
