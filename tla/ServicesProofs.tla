--------------------------- MODULE ServicesProofs ---------------------------
(***************************************************************************)
(* Proofs about four small components that meet no other: the supervisor   *)
(* of an external program, the loop around the agent, the rate limiter and *)
(* the log file.                                                           *)
(***************************************************************************)
EXTENDS Process, Reload, Limiter, Logging, FiniteSetTheorems, TLAPS

-----------------------------------------------------------------------------
(* The supervisor. *)

\* A program runs only while cmdLoop waits for it with the goroutine that ends it,
\* its output is read only until cmdWait returns, and Stop returns after cmdLoop.
ProcessInv ==
  /\ loop \in {"none", "wait", "reap", "delay", "start", "launch", "ended"}
  /\ \A c \in running : c = cmd /\ loop = "wait"
  /\ loop \in {"wait", "reap"} => stopper # "none"
  /\ loop \in {"none", "delay", "start", "launch", "ended"} => output = "ended"
  /\ client = "new" <=> (loop = "none" /\ client # "failed")
  /\ client = "stopped" => loop = "ended"

\* Start leaves the supervisor with a program that is watched, or without one.
LEMMA ProcessBegins == ProcessInit => ProcessInv
BY DEF ProcessInit, ProcessInv

\* Every step of the client, of cmdLoop, of the goroutines of cmdWait and of the
\* program preserves ProcessInv.
LEMMA ProcessStep == ProcessInv /\ [ProcessNext]_processVars => ProcessInv'
<1> SUFFICES ASSUME ProcessInv, [ProcessNext]_processVars PROVE ProcessInv'
  OBVIOUS
<1> USE DEF ProcessInv, clientVars, childVars, waitVars
<1>1. CASE ProcessStart
  BY <1>1 DEF ProcessStart, WaitBegins
<1>2. CASE ExecdAdd
  BY <1>2 DEF ExecdAdd
<1>3. CASE ExecdWrite
  BY <1>3 DEF ExecdWrite
<1>4. CASE ProcessStop
  BY <1>4 DEF ProcessStop
<1>5. CASE CloseStdin
  BY <1>5 DEF CloseStdin
<1>6. CASE StopDone
  BY <1>6 DEF StopDone
<1>7. CASE CmdWait
  BY <1>7 DEF CmdWait
<1>8. CASE Reap
  BY <1>8 DEF Reap
<1>9. CASE Delay
  BY <1>9 DEF Delay
<1>10. CASE OpenPipes
  BY <1>10 DEF OpenPipes
<1>11. CASE Launch
  BY <1>11 DEF Launch, WaitBegins
<1>12. CASE GracefulStop
  BY <1>12 DEF GracefulStop
<1>13. CASE ReadEnds
  BY <1>13 DEF ReadEnds
<1>14. CASE \E c \in Cmds : ProgramReads(c) \/ ProgramExits(c)
  BY <1>14 DEF ProgramReads, ProgramExits
<1>15. CASE UNCHANGED processVars
  BY <1>15 DEF processVars
<1> QED
  BY <1>1, <1>2, <1>3, <1>4, <1>5, <1>6, <1>7, <1>8, <1>9, <1>10, <1>11, <1>12,
     <1>13, <1>14, <1>15 DEF ProcessNext

\* However the program exits, restarts and is stopped, at most one runs, it is
\* watched, and none is left when Stop has returned.
THEOREM NoProgramIsOrphaned == ProcessSpec => []NoOrphan
<1>1. ProcessInv => NoOrphan
  BY DEF ProcessInv, NoOrphan
<1> QED
  BY <1>1, ProcessBegins, ProcessStep, PTL DEF ProcessSpec
-----------------------------------------------------------------------------
(* Stop of the supervisor comes to an end. *)

\* Stop has been called and has not returned.
Stopping == client \in {"cancelled", "waiting"}

\* How far cmdLoop is from its end once the context is done, in programs started and
\* waited for, and how far gracefulStop is from SIGKILL.
LoopLeft ==
  [none |-> 0, delay |-> 5, start |-> 4, launch |-> 3, wait |-> 2, reap |-> 1, ended |-> 0][loop]

StopperLeft == [none |-> 0, watch |-> 3, term |-> 2, kill |-> 1, done |-> 0][stopper]

\* The same of the client, the reader of the output and the program.
OthersLeft ==
  (IF client = "cancelled" THEN 2 ELSE IF client = "waiting" THEN 1 ELSE 0)
    + (IF output = "reading" THEN 1 ELSE 0) + (IF running = {} THEN 0 ELSE 1)

\* A bound on the steps until Stop returns, those in which the program reads apart.
StepsLeft == 10 * LoopLeft + StopperLeft + OthersLeft

\* Someone can go on: the client, cmdLoop, gracefulStop, the reader of the output once
\* it is closed, or a program that was killed.
StopGoes ==
  \/ client = "cancelled"
  \/ loop = "ended"
  \/ loop = "wait" /\ cmd \notin running
  \/ loop = "reap" /\ stopper = "done" /\ output = "ended"
  \/ loop = "delay" /\ cancelled
  \/ loop \in {"start", "launch"}
  \/ stopper = "watch" /\ cancelled
  \/ stopper \in {"term", "kill"}
  \/ stopper = "watch" /\ loop = "reap"
  \/ loop = "reap" /\ output = "reading"
  \/ killed \in running

\* Stop never waits in vain, whatever the program does.
StopNotStuck == Stopping => StepsLeft \in Nat /\ StopGoes

\* Once the context is done every step but a program's reading leads closer to the end:
\* at most one more program is started, and the goroutines do not start over.
SupervisorAdvances ==
  [][Stopping => StepsLeft' < StepsLeft \/ \E c \in Cmds : ProgramReads(c)]_processVars

\* A program that gracefulStop has left alone was sent SIGKILL, unless it has ended.
StopInv ==
  /\ stopper \in {"none", "watch", "term", "kill", "done"}
  /\ output \in {"reading", "ended"}
  /\ loop = "wait" /\ stopper = "done" => killed = cmd
  /\ Stopping => cancelled /\ loop # "none"

\* Nothing is stopped at the beginning.
LEMMA StopBegins == ProcessInit => StopInv
BY DEF ProcessInit, StopInv, Stopping

\* Every step of the client, of cmdLoop, of the goroutines of cmdWait and of the
\* program preserves StopInv.
LEMMA StopStep == ProcessInv /\ StopInv /\ [ProcessNext]_processVars => StopInv'
<1> SUFFICES ASSUME ProcessInv, StopInv, [ProcessNext]_processVars PROVE StopInv'
  OBVIOUS
<1> USE DEF StopInv, Stopping, clientVars, childVars, waitVars
<1>1. CASE ProcessStart
  BY <1>1 DEF ProcessStart, WaitBegins
<1>2. CASE ExecdAdd \/ ExecdWrite
  BY <1>2 DEF ExecdAdd, ExecdWrite
<1>3. CASE ProcessStop
  BY <1>3 DEF ProcessStop, ProcessInv
<1>4. CASE CloseStdin \/ StopDone
  BY <1>4 DEF CloseStdin, StopDone
<1>5. CASE CmdWait \/ Reap \/ Delay
  BY <1>5 DEF CmdWait, Reap, Delay
<1>6. CASE OpenPipes
  BY <1>6 DEF OpenPipes
<1>7. CASE Launch
  BY <1>7 DEF Launch, WaitBegins
<1>8. CASE GracefulStop
  BY <1>8 DEF GracefulStop
<1>9. CASE ReadEnds
  BY <1>9 DEF ReadEnds
<1>10. CASE \E c \in Cmds : ProgramReads(c) \/ ProgramExits(c)
  BY <1>10 DEF ProgramReads, ProgramExits
<1>11. CASE UNCHANGED processVars
  BY <1>11 DEF processVars
<1> QED
  BY <1>1, <1>2, <1>3, <1>4, <1>5, <1>6, <1>7, <1>8, <1>9, <1>10, <1>11 DEF ProcessNext

\* A sum falls with its parts: with the first whatever the others do, or with one of the
\* others alone.
LEMMA SumFalls ==
  ASSUME NEW l \in Nat, NEW s \in Nat, NEW o \in 0 .. 4,
         NEW k \in Nat, NEW r \in Nat, NEW n \in 0 .. 4,
         \/ k < l /\ (r = s \/ r = 3)
         \/ k = l /\ r < s /\ n = o
         \/ k = l /\ r = s /\ n < o
  PROVE  10 * k + r + n < 10 * l + s + o
OBVIOUS

\* What is left is counted.
LEMMA CountsLeft ==
  ASSUME ProcessInv, StopInv
  PROVE  LoopLeft \in Nat /\ StopperLeft \in Nat /\ OthersLeft \in 0 .. 4 /\ StepsLeft \in Nat
<1>1. LoopLeft \in Nat
  BY DEF ProcessInv, LoopLeft
<1>2. StopperLeft \in Nat
  BY DEF StopInv, StopperLeft
<1>3. OthersLeft \in 0 .. 4
  BY DEF OthersLeft
<1> QED
  BY <1>1, <1>2, <1>3 DEF StepsLeft

\* Wherever cmdLoop and gracefulStop are, one of them, or the killed program, moves.
LEMMA StopFinds ==
  ASSUME ProcessInv, StopInv
  PROVE  StopNotStuck
<1> SUFFICES ASSUME Stopping PROVE StopGoes
  BY CountsLeft DEF StopNotStuck
<1> QED
  BY DEF ProcessInv, StopInv, StopGoes, Stopping

\* Every step that is not a reading lowers what is left.
LEMMA StopLowers ==
  ASSUME ProcessInv, StopInv, Stopping, ProcessNext
  PROVE  StepsLeft' < StepsLeft \/ \E c \in Cmds : ProgramReads(c)
<1>0. cancelled
  BY DEF StopInv
<1>1. LoopLeft \in Nat /\ StopperLeft \in Nat /\ OthersLeft \in 0 .. 4 /\ OthersLeft' \in 0 .. 4
  BY CountsLeft DEF OthersLeft
<1> USE DEF Stopping, clientVars, childVars, waitVars
<1>2. CASE ProcessStart \/ ExecdAdd \/ ExecdWrite \/ ProcessStop
  BY <1>2 DEF ProcessStart, ExecdAdd, ExecdWrite, ProcessStop
<1>3. ASSUME LoopLeft' = LoopLeft, StopperLeft' = StopperLeft, OthersLeft' < OthersLeft
      PROVE  StepsLeft' < StepsLeft
  <2>1. LoopLeft' \in Nat /\ StopperLeft' \in Nat
    BY Zenon, <1>1, <1>3
  <2> QED
    BY Zenon, <1>1, <1>3, <2>1, SumFalls DEF StepsLeft
<1>4. CASE CloseStdin
  BY <1>3, <1>4 DEF CloseStdin, LoopLeft, StopperLeft, OthersLeft
<1>5. CASE StopDone
  BY <1>3, <1>5 DEF StopDone, LoopLeft, StopperLeft, OthersLeft
<1>6. CASE ReadEnds
  BY <1>3, <1>6 DEF ReadEnds, LoopLeft, StopperLeft, OthersLeft
<1>7. ASSUME NEW c \in Cmds, ProgramExits(c)
      PROVE  StepsLeft' < StepsLeft
  <2>1. running # {} /\ running' = {}
    BY <1>7 DEF ProgramExits, ProcessInv
  <2> QED
    BY <1>3, <1>7, <2>1 DEF ProgramExits, LoopLeft, StopperLeft, OthersLeft
<1>8. ASSUME LoopLeft' \in Nat, LoopLeft' < LoopLeft, StopperLeft' = StopperLeft \/ StopperLeft' = 3
      PROVE  StepsLeft' < StepsLeft
  <2>1. StopperLeft' \in Nat
    BY <1>1, <1>8
  <2> QED
    BY Zenon, <1>1, <1>8, <2>1, SumFalls DEF StepsLeft
<1>9. CASE CmdWait
  BY <1>8, <1>9 DEF CmdWait, LoopLeft, StopperLeft
<1>10. CASE Reap
  BY <1>0, <1>8, <1>10 DEF Reap, LoopLeft, StopperLeft
<1>11. CASE Delay
  BY <1>8, <1>11 DEF Delay, LoopLeft, StopperLeft
<1>12. CASE OpenPipes
  BY <1>8, <1>12 DEF OpenPipes, LoopLeft, StopperLeft
<1>13. CASE Launch
  BY <1>8, <1>13 DEF Launch, WaitBegins, LoopLeft, StopperLeft
<1>14. CASE GracefulStop
  <2>1. LoopLeft' = LoopLeft /\ OthersLeft' = OthersLeft
    BY <1>14 DEF GracefulStop, LoopLeft, OthersLeft
  <2>2. StopperLeft' \in Nat /\ StopperLeft' < StopperLeft
    BY <1>14 DEF GracefulStop, StopperLeft
  <2>3. LoopLeft' \in Nat
    BY Zenon, <1>1, <2>1
  <2> QED
    BY Zenon, <1>1, <2>1, <2>2, <2>3, SumFalls DEF StepsLeft
<1> QED
  BY <1>2, <1>4, <1>5, <1>6, <1>7, <1>9, <1>10, <1>11, <1>12, <1>13, <1>14 DEF ProcessNext

\* Whatever the program does, a call of Stop that does not panic is never stuck, and
\* only finitely many steps, the readings of the program apart, are left to it.
THEOREM StopOfProgramEnds == ProcessSpec => []StopNotStuck /\ SupervisorAdvances
<1>1. ProcessSpec => [](ProcessInv /\ StopInv)
  BY ProcessBegins, ProcessStep, StopBegins, StopStep, PTL DEF ProcessSpec
<1>2. ProcessInv /\ StopInv => StopNotStuck
  BY Zenon, StopFinds
<1>3. ProcessInv /\ StopInv /\ [ProcessNext]_processVars
        => [Stopping => StepsLeft' < StepsLeft \/ \E c \in Cmds : ProgramReads(c)]_processVars
  BY Zenon, StopLowers
<1> QED
  BY <1>1, <1>2, <1>3, PTL DEF ProcessSpec, SupervisorAdvances
-----------------------------------------------------------------------------
(* The loop around the agent. *)

\* Where the agent does not return by itself, what the channel holds follows from
\* where the goroutine that waits for signals is and what it was told; runAgent
\* returns without an error only after the context is done, which is the last the
\* goroutine does.
LoopInv ==
  ~once /\ main # "ended" =>
    /\ signals \in {"none", "SIGHUP", "SIGTERM"}
    /\ watcher \in {"select", "receive", "send", "cancel", "done"}
    /\ watcher = "select" => taken = "none" /\ reload = "false"
    /\ watcher = "receive" => taken = "SIGHUP" /\ reload = "false"
    /\ watcher = "send" => taken = "SIGHUP" /\ reload = "empty"
    /\ watcher \in {"cancel", "done"} =>
         \/ taken = "SIGHUP" /\ reload = "true"
         \/ taken \in {"SIGTERM", "stop"} /\ reload = "false"
    /\ ctxDone => watcher = "done"
    /\ main = "loop" => ctxDone

\* The first iteration begins with false in the channel.
LEMMA LoopBegins == LoopInit => LoopInv
BY DEF LoopInit, LoopInv

\* Every step of the loop, of the goroutine and of the signals preserves LoopInv.
LEMMA LoopStep == LoopInv /\ [LoopNext]_loopVars => LoopInv'
<1> SUFFICES ASSUME LoopInv, [LoopNext]_loopVars PROVE LoopInv'
  OBVIOUS
<1> USE DEF LoopInv
<1>1. CASE \E s \in {"SIGHUP", "SIGTERM"} : Signal(s)
  BY <1>1 DEF Signal
<1>2. CASE TakeSignal
  BY <1>2 DEF TakeSignal
<1>3. CASE TakeStop
  BY <1>3 DEF TakeStop
<1>4. CASE ReceiveFalse
  BY <1>4 DEF ReceiveFalse
<1>5. CASE SendTrue
  BY <1>5 DEF SendTrue
<1>6. CASE CancelAgent
  BY <1>6 DEF CancelAgent
<1>7. CASE AgentReturns
  BY <1>7 DEF AgentReturns
<1>8. CASE Again
  BY <1>8 DEF Again
<1>9. CASE LoopEnds
  BY <1>9 DEF LoopEnds
<1>10. CASE RunAgent \/ StartOutputs \/ RetryConnect
  BY <1>10 DEF RunAgent, StartOutputs, RetryConnect
<1>11. CASE UNCHANGED loopVars
  BY <1>11 DEF loopVars
<1> QED
  BY <1>1, <1>2, <1>3, <1>4, <1>5, <1>6, <1>7, <1>8, <1>9, <1>10, <1>11 DEF LoopNext

\* For any number of reloads the loop, once the agent has ended without an error, goes
\* round again exactly when SIGHUP was what ended it.
THEOREM LoopEndsAsTold == LoopSpec => []EndsAsTold
<1>1. LoopInv => EndsAsTold
  BY DEF LoopInv, EndsAsTold
<1> QED
  BY <1>1, LoopBegins, LoopStep, PTL DEF LoopSpec
-----------------------------------------------------------------------------
(* The rate limiter. *)

\* While a tick waits to be received, only the token that was on offer has been
\* taken since; afterwards all but that one are counted.
LimiterInv ==
  /\ limiter \in {"loop", "offer", "ended"}
  /\ counter \in Nat /\ tokens \in Nat
  /\ counter =< N /\ (limiter = "offer" => counter < N)
  /\ tick => tokens =< 1 /\ (limiter = "offer" => tokens = 0)
  /\ ~tick => tokens =< counter + 1

\* The limiter begins with nothing taken.
LEMMA LimiterBegins == LimiterInit => LimiterInv
BY LimiterAssumption DEF LimiterInit, LimiterInv

\* Every step of the ticker, the goroutine and its clients preserves LimiterInv.
LEMMA LimiterStep == LimiterInv /\ [LimiterNext]_limiterVars => LimiterInv'
<1> SUFFICES ASSUME LimiterInv, [LimiterNext]_limiterVars PROVE LimiterInv'
  OBVIOUS
<1> USE LimiterAssumption DEF LimiterInv
<1>1. CASE TickerTicks
  BY <1>1 DEF TickerTicks
<1>2. CASE ReceiveTick
  BY <1>2 DEF ReceiveTick
<1>3. CASE Offer
  BY <1>3 DEF Offer
<1>4. CASE Take
  BY <1>4 DEF Take
<1>5. CASE LimiterStop \/ LimiterEnds
  BY <1>5 DEF LimiterStop, LimiterEnds
<1>6. CASE UNCHANGED limiterVars
  BY <1>6 DEF limiterVars
<1> QED
  BY <1>1, <1>2, <1>3, <1>4, <1>5, <1>6 DEF LimiterNext

\* For every N, a rate limiter gives out at most N + 1 tokens between two ticks.
THEOREM LimiterLimits == LimiterSpec => []AtMostOneMore
<1>1. LimiterInv => AtMostOneMore
  BY LimiterAssumption DEF LimiterInv, AtMostOneMore
<1> QED
  BY <1>1, LimiterBegins, LimiterStep, PTL DEF LimiterSpec
-----------------------------------------------------------------------------
(* The log file. *)

\* The writer has the file open, later archives have later lines and the file has the
\* latest, and what can still be read is closed upwards.
Orderly ==
  /\ setup = "idle" /\ fd = File /\ exists
  /\ archives \subseteq 0 .. clock
  /\ DOMAIN archive = 0 .. MaxTime
  /\ file \subseteq 1 .. logged
  /\ \A t \in archives : archive[t] \subseteq 1 .. logged
  /\ \A t \in archives : \A i \in archive[t], j \in file : i < j
  /\ \A t, u \in archives : t < u => \A i \in archive[t], j \in archive[u] : i < j
  /\ \A i, j \in 1 .. logged : i < j /\ i \in Kept => j \in Kept

\* So it is before the first reload and the first second with two rotations.
LogInv ==
  /\ logged \in Nat /\ setups \in Nat /\ clock \in 0 .. MaxTime
  /\ ~collided /\ setups = 0 => Orderly

\* The writer begins with an empty file and no archive.
LEMMA LogBegins == LogInit => LogInv
<1> SUFFICES ASSUME LogInit PROVE LogInv
  OBVIOUS
<1>1. logged = 0 /\ clock = 0 /\ setups = 0 /\ archives = {} /\ file = {}
  BY DEF LogInit
<1>2. 1 .. logged = {} /\ logged \in Nat /\ setups \in Nat /\ clock \in 0 .. MaxTime
  BY <1>1, LoggingAssumption
<1>3. setup = "idle" /\ fd = File /\ exists /\ DOMAIN archive = 0 .. MaxTime
  BY DEF LogInit
<1> QED
  BY <1>1, <1>2, <1>3, Zenon DEF LogInv, Orderly

\* Of a set of seconds purgeArchivesIfNeeded keeps some, and with one all later ones.
LEMMA PurgeKeepsNewest ==
  ASSUME NEW a \in SUBSET (0 .. MaxTime)
  PROVE  /\ purgeArchivesIfNeeded(a) \subseteq a
         /\ \A t \in purgeArchivesIfNeeded(a), u \in a : t < u => u \in purgeArchivesIfNeeded(a)
<1>1. purgeArchivesIfNeeded(a) \subseteq a
  BY DEF purgeArchivesIfNeeded
<1>2. ASSUME NEW t \in purgeArchivesIfNeeded(a), NEW u \in a, t < u
      PROVE  u \in purgeArchivesIfNeeded(a)
  <2> DEFINE Later(x) == {v \in a : v > x}
  <2>1. IsFiniteSet(a)
    <3>1. 0 \in Int /\ MaxTime \in Int
      BY LoggingAssumption
    <3>2. IsFiniteSet(0 .. MaxTime)
      BY <3>1, FS_Interval, Zenon
    <3> QED
      BY <3>2, FS_Subset, Zenon
  <2>2. Later(u) \in SUBSET Later(t) /\ Later(t) \in SUBSET a
    <3>1. \A x \in a : x \in Int
      BY LoggingAssumption
    <3>2. t \in a
      BY <1>1, <1>2, Zenon
    <3>3. \A v \in a : v > u => v > t
      BY <1>2, <3>1, <3>2
    <3> QED
      BY <3>3, Zenon
  <2>3. IsFiniteSet(Later(t)) /\ IsFiniteSet(Later(u)) /\ Cardinality(Later(u)) =< Cardinality(Later(t))
    BY <2>1, <2>2, FS_Subset, Zenon
  <2>4. Cardinality(Later(t)) \in Nat /\ Cardinality(Later(u)) \in Nat
    BY <2>3, FS_CardinalityType, Zenon
  <2>5. MaxArchives = -1 \/ Cardinality(Later(t)) < MaxArchives
    BY <1>2 DEF purgeArchivesIfNeeded
  <2>6. MaxArchives = -1 \/ Cardinality(Later(u)) < MaxArchives
    BY <2>3, <2>4, <2>5, LoggingAssumption
  <2> QED
    BY <1>2, <2>6 DEF purgeArchivesIfNeeded
<1> QED
  BY <1>1, <1>2

\* A rotation of the file, with the line l just written or without it.
LEMMA RotateStep ==
  ASSUME Orderly, logged \in Nat, clock \in 0 .. MaxTime, NEW f \in SUBSET Nat,
         logged' \in {logged, logged + 1}, f = file \cup ((logged + 1) .. logged'),
         rotate(f, archive), file' = {}, exists', clock' = clock, ~collided'
  PROVE  /\ archives' \subseteq 0 .. clock' /\ DOMAIN archive' = 0 .. MaxTime
         /\ \A t \in archives' : archive'[t] \subseteq 1 .. logged'
         /\ \A t, u \in archives' : t < u => \A i \in archive'[t], j \in archive'[u] : i < j
         /\ \A i, j \in 1 .. logged' : i < j /\ i \in Kept' => j \in Kept'
<1> DEFINE a == archives \cup {clock}
<1>1. /\ archives' = purgeArchivesIfNeeded(a) /\ clock \notin archives
      /\ archive' = [archive EXCEPT ![clock] = f]
  BY Zenon DEF rotate, Orderly
<1>2. a \in SUBSET (0 .. MaxTime) /\ \A t \in archives : t < clock
  BY <1>1, LoggingAssumption DEF Orderly
<1>3. /\ archives' \subseteq a
      /\ \A t \in archives', u \in a : t < u => u \in archives'
  BY <1>1, <1>2, PurgeKeepsNewest, Zenon
<1>4. /\ archive'[clock] = f
      /\ \A t \in archives : archive'[t] = archive[t]
      /\ DOMAIN archive' = 0 .. MaxTime
  BY <1>1, <1>2 DEF Orderly
<1>5. f \subseteq 1 .. logged' /\ \A t \in archives : archive[t] \subseteq 1 .. logged
  BY DEF Orderly
<1>6. ASSUME NEW t \in archives, NEW i \in archive[t], NEW j \in f PROVE i < j
  <2>1. logged \in Nat /\ i \in 1 .. logged
    BY <1>5, Zenon DEF Orderly
  <2>2. CASE j \in file
    BY <2>2, Zenon DEF Orderly
  <2>3. CASE j \notin file
    BY <2>1, <2>3
  <2> QED
    BY <2>2, <2>3
<1>7. ASSUME NEW t \in archives' PROVE archive'[t] \subseteq 1 .. logged'
  <2>1. 1 .. logged \subseteq 1 .. logged'
    BY DEF Orderly
  <2> QED
    BY <1>3, <1>4, <1>5, <2>1, Zenon
<1>8. \A t, u \in a : t < u => \A i \in archive'[t], j \in archive'[u] : i < j
  <2> SUFFICES ASSUME NEW t \in a, NEW u \in a, t < u, NEW i \in archive'[t], NEW j \in archive'[u]
               PROVE  i < j
    OBVIOUS
  <2>1. t \in archives
    BY <1>2, LoggingAssumption DEF Orderly
  <2>2. CASE u = clock
    BY <2>1, <2>2, <1>4, <1>6, Zenon
  <2>3. CASE u \in archives
    BY <2>1, <2>3, <1>4, Zenon DEF Orderly
  <2> QED
    BY <2>2, <2>3
<1>9. ASSUME NEW i \in 1 .. logged', NEW j \in 1 .. logged', i < j, i \in Kept'
      PROVE  j \in Kept'
  <2>1. PICK t \in archives' : i \in archive'[t]
    BY <1>9 DEF Kept
  <2>2. \E u \in a : j \in archive'[u]
    <3>1. CASE j \in f
      BY <3>1, <1>4
    <3>2. CASE j \notin f
      <4>1. i \in 1 .. logged /\ j \in 1 .. logged /\ i \in Kept
        <5>1. j # logged + 1 \/ logged' = logged
          BY <3>2 DEF Orderly
        <5>2. i \in f => i \in file \/ i = logged + 1
          BY DEF Orderly
        <5>3. i \in Kept \/ i = logged + 1
          BY <2>1, <1>3, <1>4, <5>2 DEF Kept, Orderly
        <5> QED
          BY <1>9, <5>1, <5>3 DEF Orderly
      <4>2. j \in Kept
        BY <4>1, <1>9 DEF Orderly
      <4> QED
        BY <4>2, <3>2, <1>4 DEF Kept
    <3> QED
      BY <3>1, <3>2
  <2>3. PICK u \in a : j \in archive'[u]
    BY <2>2
  <2>4. ~(u < t)
    <3> SUFFICES ASSUME u < t PROVE FALSE
      OBVIOUS
    <3>1. j < i
      BY <1>3, <1>8, <2>1, <2>3
    <3> QED
      BY <3>1, <1>9 DEF Orderly
  <2>5. u \in archives'
    BY <1>2, <1>3, <2>4
  <2> QED
    BY <2>3, <2>5 DEF Kept
<1>10. archives' \subseteq 0 .. clock'
  BY <1>3, LoggingAssumption DEF Orderly
<1> QED
  BY <1>3, <1>4, <1>7, <1>8, <1>9, <1>10

\* A line that goes to the file, without a rotation.
LEMMA LineAdded ==
  ASSUME Orderly, logged \in Nat, logged' = logged + 1, file' = file \cup {logged + 1},
         UNCHANGED <<clock, setup, exists, archives, archive, fd>>
  PROVE  Orderly'
<1>1. file' \subseteq 1 .. logged' /\ 1 .. logged \subseteq 1 .. logged'
  BY DEF Orderly
<1>2. ASSUME NEW t \in archives, NEW i \in archive[t], NEW j \in file' PROVE i < j
  <2>1. i \in 1 .. logged /\ (j \in file => i < j)
    BY Zenon DEF Orderly
  <2> QED
    BY <2>1
<1>3. ASSUME NEW i \in 1 .. logged', NEW j \in 1 .. logged', i < j, i \in Kept' PROVE j \in Kept'
  <2>1. Kept \subseteq Kept' /\ logged + 1 \in Kept'
    BY DEF Kept, Orderly
  <2>2. i \in 1 .. logged /\ (j \in 1 .. logged \/ j = logged + 1)
    BY <1>3
  <2>3. i \in Kept
    BY <1>3, <2>2 DEF Kept, Orderly
  <2> QED
    BY <1>3, <2>1, <2>2, <2>3 DEF Orderly
<1>4. \A t \in archives : archive[t] \subseteq 1 .. logged'
  BY <1>1, Zenon DEF Orderly
<1> QED
  BY <1>1, <1>2, <1>3, <1>4, Zenon DEF Orderly

\* Every step of the writer and of a reload preserves LogInv.
LEMMA LogStep == LogInv /\ [LogNext]_logVars => LogInv'
<1> SUFFICES ASSUME LogInv, [LogNext]_logVars PROVE LogInv'
  OBVIOUS
<1>1. CASE UNCHANGED logVars
  <2>1. Kept' = Kept
    BY <1>1, Zenon DEF logVars, Kept
  <2> QED
    BY <1>1, <2>1, Zenon DEF logVars, LogInv, Orderly
<1>2. CASE Tick
  <2>1. clock' \in 0 .. MaxTime /\ 0 .. clock \subseteq 0 .. clock'
    BY <1>2, LoggingAssumption DEF Tick, LogInv
  <2>2. Kept' = Kept
    BY <1>2, Zenon DEF Tick, Kept
  <2>3. ASSUME Orderly PROVE Orderly'
    <3>1. archives' \subseteq 0 .. clock'
      BY <1>2, <2>1, <2>3, Zenon DEF Tick, Orderly
    <3> QED
      BY <1>2, <2>2, <2>3, <3>1, Zenon DEF Tick, Orderly
  <2> QED
    BY <1>2, <2>1, <2>3, Zenon DEF Tick, LogInv
<1>3. ASSUME NEW expired \in BOOLEAN, WriteLine(expired) PROVE LogInv'
  <2>1. /\ logged' = logged + 1 /\ logged' \in Nat /\ clock' = clock
        /\ UNCHANGED <<setup, setups>>
    BY <1>3 DEF WriteLine, LogInv
  <2> SUFFICES ASSUME ~collided', setups' = 0 PROVE Orderly'
    BY <2>1, Zenon DEF LogInv
  <2>2. Orderly /\ setups = 0 /\ ~collided
    BY <1>3, <2>1 DEF WriteLine, rotate, LogInv
  <2> DEFINE f == file \cup {logged + 1}
  <2>3. f \in SUBSET Nat /\ f = file \cup ((logged + 1) .. logged') /\ f \subseteq 1 .. logged'
    BY <2>1, <2>2 DEF LogInv, Orderly
  <2>4. fd = File /\ fd \notin archives
    BY <2>2 DEF Orderly, File
  <2>5. CASE expired \/ bytes + 1 >= MaxSize
    <3>1. rotate(f, archive) /\ exists' /\ file' = {} /\ fd' = File
      BY <1>3, <2>4, <2>5, Zenon DEF WriteLine
    <3> HIDE DEF f
    <3>2. /\ archives' \subseteq 0 .. clock' /\ DOMAIN archive' = 0 .. MaxTime
          /\ \A t \in archives' : archive'[t] \subseteq 1 .. logged'
          /\ \A t, u \in archives' : t < u => \A i \in archive'[t], j \in archive'[u] : i < j
          /\ \A i, j \in 1 .. logged' : i < j /\ i \in Kept' => j \in Kept'
      BY <2>1, <2>2, <2>3, <3>1, RotateStep, Zenon DEF LogInv
    <3> QED
      BY <2>1, <2>2, <3>1, <3>2, Zenon DEF Orderly
  <2>6. CASE ~(expired \/ bytes + 1 >= MaxSize)
    <3>1. /\ file' = f /\ archive' = archive
          /\ UNCHANGED <<exists, archives, fd>>
      BY <1>3, <2>4, <2>6, Zenon DEF WriteLine
    <3> QED
      BY <2>1, <2>2, <3>1, LineAdded, Zenon DEF LogInv
  <2> QED
    BY <2>5, <2>6
<1>4. ASSUME NEW expired \in BOOLEAN, RotateFails(expired) PROVE LogInv'
  <2>1. /\ logged' = logged + 1 /\ logged' \in Nat /\ clock' = clock
        /\ file' = file \cup {logged + 1}
        /\ UNCHANGED <<setup, setups, collided, exists, archives, archive, fd>>
    BY <1>4 DEF RotateFails, LogInv
  <2> QED
    BY <2>1, LineAdded, Zenon DEF LogInv
<1>5. CASE WriteClosed
  <2>1. logged' \in Nat
    BY <1>5 DEF WriteClosed, LogInv
  <2>2. fd = Closed /\ Closed # File
    BY <1>5 DEF WriteClosed, Closed, File
  <2> QED
    BY <1>5, <2>1, <2>2, Zenon DEF WriteClosed, LogInv, Orderly
<1>6. CASE SetupLogging
  <2>1. setups' \in Nat /\ setups' # 0
    BY <1>6 DEF SetupLogging, LogInv
  <2> QED
    BY <1>6, <2>1, Zenon DEF SetupLogging, LogInv
<1>7. ASSUME NEW expired \in BOOLEAN, CreateLogger(expired) \/ CreateFails(expired) PROVE LogInv'
  <2>1. setup # "idle"
    BY <1>7 DEF CreateLogger, CreateFails
  <2>2. UNCHANGED <<clock, logged, setups>>
    BY <1>7, Zenon DEF CreateLogger, CreateFails
  <2>3. rotate(file, archive) \/ UNCHANGED collided
    BY <1>7, Zenon DEF CreateLogger, CreateFails
  <2>4. collided => collided'
    BY <2>3, Zenon DEF rotate
  <2> QED
    BY <2>1, <2>2, <2>4, Zenon DEF LogInv, Orderly
<1>8. CASE CloseLogger \/ SetOutput
  <2>1. setup # "idle"
    BY <1>8 DEF CloseLogger, SetOutput
  <2>2. UNCHANGED <<clock, logged, setups>>
    BY <1>8, Zenon DEF CloseLogger, SetOutput
  <2>3. rotate(file, archive) \/ UNCHANGED collided
    BY <1>8, Zenon DEF CloseLogger, SetOutput
  <2>4. collided => collided'
    BY <2>3, Zenon DEF rotate
  <2> QED
    BY <2>1, <2>2, <2>4, Zenon DEF LogInv, Orderly
<1> QED
  BY <1>1, <1>2, <1>3, <1>4, <1>5, <1>6, <1>7, <1>8 DEF LogNext

\* For every size, number of archives and order of writes, failed renames and seconds,
\* the rotation deletes the oldest lines first.
THEOREM OldestLinesGoFirst == LogSpec => []OldestGoFirst
<1>1. LogInv => OldestGoFirst
  BY Zenon DEF LogInv, Orderly, OldestGoFirst
<1> QED
  BY <1>1, LogBegins, LogStep, PTL DEF LogSpec
=============================================================================
