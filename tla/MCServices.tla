----------------------------- MODULE MCServices -----------------------------
(***************************************************************************)
(* The components that do not meet: each behaviour is one of `part' and    *)
(* leaves the variables of the others alone.                               *)
(***************************************************************************)
EXTENDS Parallel, Process, Consumer, Logging, Reload, Limiter

CONSTANTS Parts, h1, h2

VARIABLE part

MCWorkers == {1, 2}
MCClaim == [m \in Messages |-> IF m = 3 THEN h2 ELSE h1]
MCTooLong == {3}
MCBad == {2}
MCMessages == 1 .. 4

mcVars == <<part, poolVars, processVars, consumerVars, logVars, loopVars, limiterVars>>

\* Only the part of a behaviour starts in more than one state.
Init ==
  /\ part \in Parts
  /\ PoolInit /\ (part # "pool" => ordered)
  /\ ProcessInit
  /\ ConsumerInit /\ (part # "consumer" => plugin = CHOOSE p \in Plugins : TRUE)
  /\ LogInit
  /\ LoopInit /\ (part # "loop" => ~once)
  /\ LimiterInit

Next ==
  /\ UNCHANGED part
  /\ \/ /\ part = "pool" /\ PoolNext
        /\ UNCHANGED <<processVars, consumerVars, logVars, loopVars, limiterVars>>
     \/ /\ part = "process" /\ ProcessNext
        /\ UNCHANGED <<poolVars, consumerVars, logVars, loopVars, limiterVars>>
     \/ /\ part = "consumer" /\ ConsumerNext
        /\ UNCHANGED <<poolVars, processVars, logVars, loopVars, limiterVars>>
     \/ /\ part = "log" /\ LogNext
        /\ UNCHANGED <<poolVars, processVars, consumerVars, loopVars, limiterVars>>
     \/ /\ part = "loop" /\ LoopNext
        /\ UNCHANGED <<poolVars, processVars, consumerVars, logVars, limiterVars>>
     \/ /\ part = "limiter" /\ LimiterNext
        /\ UNCHANGED <<poolVars, processVars, consumerVars, logVars, loopVars>>

Safe == Init /\ [][Next]_mcVars

Spec == Safe /\ PoolFairness /\ ProcessFairness /\ ConsumerFairness
=============================================================================
