---------------------------- MODULE RedisLimiter ----------------------------
(***************************************************************************)
(* The middleware of several instances over one Redis.  A request and its  *)
(* call of hit() move together: the middleware runs on in the same turn in *)
(* which the reply, or the error, arrives.                                 *)
(***************************************************************************)
EXTENDS RedisStore, Limiter

redisLimiterVars == <<redisVars, limiter>>

InitRedisLimiter == RedisInit /\ InitLimiter

Asks(r, i) == Send(r) /\ Call(r, i)

\* The count that r will be told is the one of its block, whenever it arrives.
RedisCount(r) ==
  /\ RunBlock(r)
  /\ Counts(r, [count |-> reply'[r].count, resetAt |-> expireAt'[KeyOf[r]]])

Judges(r) == Receive(r) /\ Decide(r)

FailsOpen(r) == Throw(r) /\ Fail(r)

RedisLate(r) == RunLate(r) /\ CountedLate(r)

NextRedisLimiter ==
  \/ \E r \in Requests, i \in Instances : Asks(r, i)
  \/ \E r \in Requests : RedisCount(r) \/ Judges(r) \/ FailsOpen(r) \/ RedisLate(r)
  \/ \E i \in Instances, n \in Limits : SetLimit(i, n) /\ UNCHANGED redisVars
  \/ RedisTick /\ UNCHANGED limiter

RedisLimiterSpec == InitRedisLimiter /\ [][NextRedisLimiter]_redisLimiterVars

-----------------------------------------------------------------------------
RedisRate == INSTANCE RateLimiter WITH window <- Counters

\* The middleware of all instances over one Redis is the middleware over the
\* contract: late replies, lost ones and blocks that outlive their connection
\* included.
RedisKeepsLimiter == RedisRate!RateSpec

\* X-RateLimit-Reset can be relied on: what comes at the time a refused request
\* was told, or later, is not counted in the window that refused it, whichever
\* instance it comes to.
ResetIsHonoured ==
  \A r, q \in Requests :
    stage[r] = "refused" /\ Counted(q) /\ at[q] >= resetAt[r] => ~SameWindow(r, q)

=============================================================================
