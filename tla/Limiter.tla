------------------------------ MODULE Limiter ------------------------------
(***************************************************************************)
(* The rate limiter (internal/limiter) of cloudwatch, stackdriver and      *)
(* aliyuncms: a goroutine that offers N tokens for every tick it receives. *)
(* The channel of the ticker has room for one tick.                        *)
(***************************************************************************)
EXTENDS Naturals

CONSTANT N  \* tokens per tick

ASSUME LimiterAssumption == N \in Nat

VARIABLES
  limiter,   \* the goroutine: in its loop, offering a token, or ended
  counter,   \* tokens since it last received a tick
  tick,      \* a tick is in the channel
  shutdown,  \* Stop has closed the channel
  tokens     \* tokens since the ticker last ticked

limiterVars == <<limiter, counter, tick, shutdown, tokens>>

LimiterInit ==
  /\ limiter = "loop" /\ counter = 0
  /\ tick = FALSE /\ shutdown = FALSE /\ tokens = 0

TickerTicks ==
  /\ limiter # "ended"
  /\ tick' = TRUE /\ tokens' = 0
  /\ UNCHANGED <<limiter, counter, shutdown>>

ReceiveTick ==
  /\ limiter = "loop" /\ tick
  /\ tick' = FALSE /\ counter' = 0
  /\ UNCHANGED <<limiter, shutdown, tokens>>

\* Mutant of Offer: one token too many.
OfferOneMore ==
  /\ limiter = "loop" /\ ~tick /\ ~shutdown
  /\ counter <= N
  /\ limiter' = "offer"
  /\ UNCHANGED <<counter, tick, shutdown, tokens>>

\* The default of the outer select, when no other case is ready.
Offer ==
  /\ limiter = "loop" /\ ~tick /\ ~shutdown
  /\ counter < N
  /\ limiter' = "offer"
  /\ UNCHANGED <<counter, tick, shutdown, tokens>>

\* A token is received, whatever the ticker has done since it was offered.
Take ==
  /\ limiter = "offer" /\ limiter' = "loop"
  /\ counter' = counter + 1 /\ tokens' = tokens + 1
  /\ UNCHANGED <<tick, shutdown>>

\* Stop, and the end of the goroutine in either select, after which Stop closes C.
LimiterStop ==
  /\ ~shutdown /\ shutdown' = TRUE
  /\ UNCHANGED <<limiter, counter, tick, tokens>>

LimiterEnds ==
  /\ shutdown /\ limiter # "ended"
  /\ limiter' = "ended"
  /\ UNCHANGED <<counter, tick, shutdown, tokens>>

LimiterNext ==
  \/ TickerTicks \/ ReceiveTick \/ Offer \/ Take \/ LimiterStop \/ LimiterEnds

LimiterSpec == LimiterInit /\ [][LimiterNext]_limiterVars
-----------------------------------------------------------------------------
\* Between two ticks at most N + 1 tokens are given out: N, and the one that was on
\* offer when the ticker ticked, which is not counted to them.
AtMostOneMore == tokens =< N + 1
=============================================================================
