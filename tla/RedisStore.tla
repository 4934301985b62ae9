----------------------------- MODULE RedisStore -----------------------------
(***************************************************************************)
(* RedisRateLimiterStore: hit() sends MULTI / INCR / EXPIRE NX / PTTL and  *)
(* awaits the replies.  Redis runs the block atomically; it and the reply  *)
(* may be delayed by up to MaxDelay ticks and may be lost.  Several        *)
(* instances of the service share one Redis; a call is that of a request.  *)
(***************************************************************************)
EXTENDS Integers, Callers

CONSTANT MaxDelay  \* bound: ticks from the block to its reply

ASSUME DelayAssumption == MaxDelay \in Nat

VARIABLES
  value,     \* value[k]: the counter of key rl:k, 0 when the key is absent
  expireAt,  \* expireAt[k]: when Redis drops it, 0 when it has no expiry
  call,      \* where the call of each request stands
  reply,     \* reply[r]: the count and the PTTL of its block
  ranAt,     \* ranAt[r]: when its block ran
  resetAt    \* resetAt[r]: what hit() told the middleware

redis == <<value, expireAt>>
calls == <<call, reply, ranAt, resetAt>>
redisVars == <<now, redis, calls>>

CallStage == {"idle", "sent", "ran", "done", "lost", "failed"}

RedisInit ==
  /\ now = 0
  /\ value = [k \in Keys |-> 0]
  /\ expireAt = [k \in Keys |-> 0]
  /\ call = [r \in Requests |-> "idle"]
  /\ reply = [r \in Requests |-> [count |-> 0, pttl |-> 0]]
  /\ ranAt = [r \in Requests |-> 0]
  /\ resetAt = [r \in Requests |-> 0]

Reaches(r, to) == call' = [call EXCEPT ![r] = to]

Send(r) ==
  /\ call[r] = "idle"
  /\ Reaches(r, "sent")
  /\ UNCHANGED <<now, redis, reply, ranAt, resetAt>>

\* Slip: EXPIRE without NX.
ExpiryProlonged(k) == now + Window

\* EXPIRE NX sets an expiry only on a key that has none.
Expiry(k) == IF expireAt[k] = 0 THEN now + Window ELSE expireAt[k]

\* MULTI: nothing comes between INCR, EXPIRE and PTTL.
Block(k) ==
  /\ value' = [value EXCEPT ![k] = @ + 1]
  /\ expireAt' = [expireAt EXCEPT ![k] = Expiry(k)]

RunBlock(r) ==
  LET k == KeyOf[r]
  IN  /\ call[r] = "sent"
      /\ Reaches(r, "ran")
      /\ Block(k)
      /\ reply' = [reply EXCEPT ![r] = [count |-> value[k] + 1, pttl |-> Expiry(k) - now]]
      /\ ranAt' = [ranAt EXCEPT ![r] = now]
      /\ UNCHANGED <<now, resetAt>>

\* Slip: the time to come back is rounded down.
ReceiveEarly(r) ==
  /\ call[r] = "ran"
  /\ Reaches(r, "done")
  /\ resetAt' = [resetAt EXCEPT ![r] = now + reply[r].pttl - 1]
  /\ UNCHANGED <<now, redis, reply, ranAt>>

\* The instance adds the PTTL to its own clock when the reply arrives.
Receive(r) ==
  /\ call[r] = "ran"
  /\ Reaches(r, "done")
  /\ resetAt' = [resetAt EXCEPT ![r] =
       now + (IF reply[r].pttl > 0 THEN reply[r].pttl ELSE Window)]
  /\ UNCHANGED <<now, redis, reply, ranAt>>

\* The connection fails, or exec() yields null: hit() throws.
Throw(r) ==
  /\ \/ call[r] = "sent" /\ Reaches(r, "lost")
     \/ call[r] = "ran" /\ Reaches(r, "failed")
  /\ UNCHANGED <<now, redis, reply, ranAt, resetAt>>

\* A block that was on its way when the connection failed may still run.
RunLate(r) ==
  /\ call[r] = "lost"
  /\ Reaches(r, "failed")
  /\ Block(KeyOf[r])
  /\ UNCHANGED <<now, reply, ranAt, resetAt>>

\* Redis drops the keys whose expiry is reached.
RedisTick ==
  /\ now < MaxTime
  /\ \A r \in Requests : call[r] = "ran" => now < ranAt[r] + MaxDelay
  /\ now' = now + 1
  /\ value' = [k \in Keys |-> IF expireAt[k] <= now' THEN 0 ELSE value[k]]
  /\ expireAt' = [k \in Keys |-> IF expireAt[k] <= now' THEN 0 ELSE expireAt[k]]
  /\ UNCHANGED calls

RedisNext ==
  \/ RedisTick
  \/ \E r \in Requests : Send(r) \/ RunBlock(r) \/ Receive(r) \/ Throw(r) \/ RunLate(r)

RedisSpec == RedisInit /\ [][RedisNext]_redisVars

-----------------------------------------------------------------------------
\* Counters, expiries and replies are numbers; stages are stages.
RedisTypeOK ==
  /\ now \in Nat
  /\ value \in [Keys -> Nat] /\ expireAt \in [Keys -> Nat]
  /\ call \in [Requests -> CallStage]
  /\ reply \in [Requests -> [count : Nat, pttl : Nat]]
  /\ ranAt \in [Requests -> Nat] /\ resetAt \in [Requests -> Nat]

\* A counter with its expiry is a window.
Counters == [k \in Keys |-> [count |-> value[k], resetAt |-> expireAt[k]]]

RedisWindows == INSTANCE FixedWindow WITH window <- Counters

\* The counters in Redis keep the contract of FixedWindow, for calls of any
\* number of instances and whatever replies are lost: a later hit never
\* prolongs the window, and a counter never outlives its window.
RedisKeepsWindows == RedisWindows!Spec

\* A counter never stands in Redis without an expiry: it would limit its key
\* for ever.
NeverStuck == \A k \in Keys : value[k] > 0 <=> expireAt[k] > now

\* A caller is never told to come back before its window is over, and at most
\* the delay of the reply after that.
ResetIsNotEarly ==
  \A r \in Requests : call[r] = "done" =>
    /\ resetAt[r] >= ranAt[r] + reply[r].pttl
    /\ resetAt[r] <= ranAt[r] + reply[r].pttl + MaxDelay

=============================================================================
