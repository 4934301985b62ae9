----------------------------- MODULE StoreProofs ------------------------------
(***************************************************************************)
(* Both stores implement FixedWindow, and the middleware over either is    *)
(* the middleware over FixedWindow, for any keys, requests and instances,  *)
(* any window and whatever replies are late or lost.  What is proved of    *)
(* RateLimiter then holds over the Map and over Redis.                     *)
(***************************************************************************)
EXTENDS MapLimiter, RedisLimiter, TLAPS

(* The Map *)

None == [count |-> 0, resetAt |-> 0]

\* The window that the state shows for a key.
Shown(k) == IF IsLive(k) THEN buckets[k] ELSE None

-----------------------------------------------------------------------------
LEMMA MapInitType == MapInit => MapTypeOK
BY DEF MapInit, MapTypeOK

LEMMA HitType == ASSUME MapTypeOK, NEW k \in Keys, Hit(k) PROVE MapTypeOK'
<1>1. Current(k) \in [count : Nat, resetAt : Nat]
  BY WindowAssumption DEF MapTypeOK, Current, IsLive, Bucket
<1>2. [Current(k) EXCEPT !.count = @ + 1] \in Bucket
  BY <1>1 DEF Bucket
<1> QED BY <1>2 DEF MapTypeOK, Hit

LEMMA MapStepType == MapTypeOK /\ [MapNext]_mapVars => MapTypeOK'
<1> SUFFICES ASSUME MapTypeOK, [MapNext]_mapVars PROVE MapTypeOK'
  OBVIOUS
<1>1. CASE Sweep
  BY <1>1 DEF Sweep, MapTypeOK
<1>2. CASE MapTick
  BY <1>2 DEF MapTick, MapTypeOK
<1>3. CASE UNCHANGED mapVars
  BY <1>3 DEF mapVars, MapTypeOK
<1> QED BY <1>1, <1>2, <1>3, HitType DEF MapNext

\* The map holds counted buckets of known keys.
THEOREM MapTypeCorrect == MapSpec => []MapTypeOK
BY MapInitType, MapStepType, PTL DEF MapSpec

-----------------------------------------------------------------------------
(* What each step does to the windows that the state shows *)

LEMMA HitShows ==
  ASSUME MapTypeOK, NEW k \in Keys, Hit(k)
  PROVE  /\ \A j \in Keys \ {k} : Shown(j)' = Shown(j)
         /\ Shown(k)' = IF Shown(k).count > 0 THEN [Shown(k) EXCEPT !.count = @ + 1]
                        ELSE [count |-> 1, resetAt |-> now + Window]
         /\ Shown(k)' = buckets'[k]
<1>1. \A j \in Keys \ {k} : Shown(j)' = Shown(j)
  BY DEF Hit, Shown, IsLive
<1>2. buckets'[k] = [Current(k) EXCEPT !.count = @ + 1] /\ k \in DOMAIN buckets' /\ now' = now
  BY DEF Hit
<1>3. CASE IsLive(k)
  <2>1. buckets[k] \in Bucket /\ ~(buckets[k].resetAt <= now)
    BY <1>3 DEF MapTypeOK, IsLive
  <2>2. buckets'[k] = [buckets[k] EXCEPT !.count = @ + 1]
    BY <1>2, <1>3 DEF Current
  <2>3. IsLive(k)'
    BY <1>2, <2>1, <2>2 DEF IsLive, Bucket
  <2> QED BY <1>1, <1>3, <2>1, <2>2, <2>3 DEF Shown, Bucket
<1>4. CASE ~IsLive(k)
  <2>1. buckets'[k] = [count |-> 1, resetAt |-> now + Window]
    BY <1>2, <1>4 DEF Current
  <2>2. IsLive(k)'
    BY <1>2, <2>1, WindowAssumption DEF IsLive, MapTypeOK
  <2> QED BY <1>1, <1>4, <2>1, <2>2 DEF Shown, None
<1> QED BY <1>3, <1>4

\* The sweeper takes only what has stopped counting.
LEMMA SweepShows ==
  ASSUME MapTypeOK, Sweep
  PROVE  \A k \in Keys : Shown(k)' = Shown(k) /\ Current(k)' = Current(k)
<1> SUFFICES ASSUME NEW k \in Keys
             PROVE  Shown(k)' = Shown(k) /\ Current(k)' = Current(k)
  OBVIOUS
<1>1. IsLive(k)' <=> IsLive(k)
  BY DEF Sweep, IsLive
<1>2. IsLive(k) => buckets'[k] = buckets[k]
  BY DEF Sweep, IsLive
<1>3. now' = now
  BY DEF Sweep
<1> QED BY <1>1, <1>2, <1>3 DEF Shown, Current

LEMMA TickShows ==
  ASSUME MapTypeOK, MapTick
  PROVE  \A k \in Keys : Shown(k)' = IF Shown(k).resetAt <= now' THEN None ELSE Shown(k)
BY DEF MapTick, MapTypeOK, Shown, IsLive, None, Bucket

-----------------------------------------------------------------------------
LEMMA MapInitMaps == MapInit => MapWindows!InitWindows
BY DEF MapInit, MapWindows!InitWindows, MapWindows!Closed, Buckets, IsLive

LEMMA HitMaps ==
  ASSUME MapTypeOK, NEW k \in Keys, Hit(k)
  PROVE  MapWindows!Hit(k) /\ buckets'[k] = MapWindows!AfterHit(k)
BY HitShows DEF Hit, MapWindows!Hit, MapWindows!AfterHit, MapWindows!IsOpen, Buckets, Shown, None

LEMMA SweepMaps == ASSUME MapTypeOK, Sweep PROVE UNCHANGED MapWindows!clock
BY SweepShows DEF Sweep, MapWindows!clock, Buckets, Shown, None

LEMMA MapTickMaps == ASSUME MapTypeOK, MapTick PROVE MapWindows!Tick
BY TickShows DEF MapTick, MapWindows!Tick, MapWindows!Closed, Buckets, Shown, None

LEMMA MapStutters == ASSUME UNCHANGED mapVars PROVE UNCHANGED MapWindows!clock
BY DEF mapVars, MapWindows!clock, Buckets, IsLive

LEMMA MapStepMaps ==
  MapTypeOK /\ [MapNext]_mapVars =>
    [MapWindows!Tick \/ \E k \in Keys : MapWindows!Hit(k)]_(MapWindows!clock)
BY SweepMaps, MapTickMaps, MapStutters, HitMaps DEF MapNext

\* The in-memory store keeps the contract of RateLimiterStore: a window of
\* exactly windowMs from the first hit, whatever the sweeper does.
THEOREM MapKeepsWindowsCorrect == MapSpec => MapKeepsWindows
BY MapInitMaps, MapStepMaps, MapTypeCorrect, PTL DEF MapSpec, MapKeepsWindows, MapWindows!Spec

\* The sweeper takes no count from a key.
THEOREM SweepIsInvisibleCorrect == MapSpec => SweepIsInvisible
<1>1. MapTypeOK /\ [MapNext]_mapVars => [Sweep => \A k \in Keys : Current(k)' = Current(k)]_mapVars
  BY SweepShows
<1> QED BY <1>1, MapTypeCorrect, PTL DEF MapSpec, SweepIsInvisible

-----------------------------------------------------------------------------
(* Redis *)

LEMMA RedisInitType == RedisInit => RedisTypeOK
BY DEF RedisInit, RedisTypeOK, CallStage

\* A counter stands exactly as long as its expiry lies ahead, and by at most one
\* window; the replies under way were positive when they were sent.
RepliesArePositive == \A r \in Requests : call[r] = "ran" => reply[r].pttl > 0

ExpiryIsAhead ==
  \A k \in Keys :
    \/ value[k] = 0 /\ expireAt[k] = 0
    \/ value[k] > 0 /\ expireAt[k] > now /\ expireAt[k] <= now + Window

RInv == RedisTypeOK /\ ExpiryIsAhead /\ RepliesArePositive

LEMMA InitRInv == RedisInit => RInv
BY RedisInitType DEF RedisInit, RInv, ExpiryIsAhead, RepliesArePositive

\* A block leaves its counter with an expiry ahead.
LEMMA BlockKeeps ==
  ASSUME RInv, NEW k \in Keys, Block(k), now' = now
  PROVE  /\ value' \in [Keys -> Nat] /\ expireAt' \in [Keys -> Nat] /\ ExpiryIsAhead'
         /\ Expiry(k) - now \in Nat /\ Expiry(k) - now > 0 /\ expireAt'[k] = Expiry(k)
<1>1. now \in Nat /\ expireAt \in [Keys -> Nat] /\ value \in [Keys -> Nat]
  BY DEF RInv, RedisTypeOK
<1>2. Expiry(k) \in Nat /\ Expiry(k) > now /\ Expiry(k) <= now + Window
  BY <1>1, WindowAssumption DEF RInv, ExpiryIsAhead, Expiry
<1>3. /\ value' = [value EXCEPT ![k] = @ + 1]
      /\ expireAt' = [expireAt EXCEPT ![k] = Expiry(k)]
  BY DEF Block
<1>4. ExpiryIsAhead'
  BY <1>1, <1>2, <1>3 DEF RInv, ExpiryIsAhead
<1> QED BY <1>1, <1>2, <1>3, <1>4

LEMMA RunBlockRInv == ASSUME RInv, NEW r \in Requests, RunBlock(r) PROVE RInv'
<1> DEFINE k == KeyOf[r]
<1>1. k \in Keys /\ Block(k) /\ now' = now
  BY KeyAssumption DEF RunBlock
<1>2. /\ value' \in [Keys -> Nat] /\ expireAt' \in [Keys -> Nat] /\ ExpiryIsAhead'
      /\ Expiry(k) - now \in Nat /\ Expiry(k) - now > 0
  BY <1>1, BlockKeeps
<1>3. now \in Nat /\ value[k] \in Nat
  BY <1>1 DEF RInv, RedisTypeOK
<1>4. /\ reply' = [reply EXCEPT ![r] = [count |-> value[k] + 1, pttl |-> Expiry(k) - now]]
      /\ ranAt' = [ranAt EXCEPT ![r] = now]
      /\ call' = [call EXCEPT ![r] = "ran"]
      /\ resetAt' = resetAt
  BY DEF RunBlock, Reaches
<1> HIDE DEF k
<1>5. RedisTypeOK'
  BY <1>1, <1>2, <1>3, <1>4 DEF RInv, RedisTypeOK, CallStage
<1>6. RepliesArePositive'
  BY <1>1, <1>2, <1>4 DEF RInv, RedisTypeOK, RepliesArePositive
<1> QED BY <1>2, <1>5, <1>6 DEF RInv

LEMMA RunLateRInv == ASSUME RInv, NEW r \in Requests, RunLate(r) PROVE RInv'
<1>1. /\ value' \in [Keys -> Nat] /\ expireAt' \in [Keys -> Nat] /\ ExpiryIsAhead'
      /\ UNCHANGED <<now, reply, ranAt, resetAt>>
  BY KeyAssumption, BlockKeeps DEF RunLate
<1>2. RedisTypeOK' /\ RepliesArePositive'
  BY <1>1 DEF RunLate, Reaches, RInv, RedisTypeOK, RepliesArePositive, CallStage
<1> QED BY <1>1, <1>2 DEF RInv

LEMMA ReceiveRInv == ASSUME RInv, NEW r \in Requests, Receive(r) PROVE RInv'
<1>1. now + (IF reply[r].pttl > 0 THEN reply[r].pttl ELSE Window) \in Nat
  BY WindowAssumption DEF RInv, RedisTypeOK
<1>2. RedisTypeOK'
  BY <1>1 DEF RInv, RedisTypeOK, Receive, Reaches, redis, CallStage
<1> QED BY <1>2 DEF RInv, RedisTypeOK, ExpiryIsAhead, RepliesArePositive, Receive, Reaches, redis

LEMMA RedisTickRInv == ASSUME RInv, RedisTick PROVE RInv'
<1>1. RedisTypeOK'
  BY DEF RInv, RedisTypeOK, RedisTick, calls
<1>2. now \in Nat /\ now' = now + 1
  BY DEF RInv, RedisTypeOK, RedisTick
<1>3. ASSUME NEW k \in Keys
      PROVE  \/ value'[k] = 0 /\ expireAt'[k] = 0
             \/ value'[k] > 0 /\ expireAt'[k] > now' /\ expireAt'[k] <= now' + Window
  <2>1. value[k] \in Nat /\ expireAt[k] \in Nat
    BY DEF RInv, RedisTypeOK
  <2>2. /\ value'[k] = IF expireAt[k] <= now' THEN 0 ELSE value[k]
        /\ expireAt'[k] = IF expireAt[k] <= now' THEN 0 ELSE expireAt[k]
    BY DEF RedisTick
  <2>3. \/ value[k] = 0 /\ expireAt[k] = 0
        \/ value[k] > 0 /\ expireAt[k] > now /\ expireAt[k] <= now + Window
    BY DEF RInv, ExpiryIsAhead
  <2> QED BY <1>2, <2>1, <2>2, <2>3, WindowAssumption
<1> QED BY <1>1, <1>3 DEF RInv, ExpiryIsAhead, RepliesArePositive, RedisTick, calls

LEMMA StepRInv == RInv /\ [RedisNext]_redisVars => RInv'
<1> SUFFICES ASSUME RInv, [RedisNext]_redisVars PROVE RInv'
  OBVIOUS
<1>1. ASSUME NEW r \in Requests, Send(r) PROVE RInv'
  BY <1>1 DEF Send, Reaches, redis, RInv, RedisTypeOK, ExpiryIsAhead, RepliesArePositive, CallStage
<1>2. ASSUME NEW r \in Requests, Throw(r) PROVE RInv'
  BY <1>2 DEF Throw, Reaches, redis, RInv, RedisTypeOK, ExpiryIsAhead, RepliesArePositive, CallStage
<1>3. CASE UNCHANGED redisVars
  BY <1>3 DEF redisVars, redis, calls, RInv, RedisTypeOK, ExpiryIsAhead, RepliesArePositive
<1> QED BY <1>1, <1>2, <1>3, RunBlockRInv, RunLateRInv, ReceiveRInv, RedisTickRInv DEF RedisNext

LEMMA RInvCorrect == RedisSpec => []RInv
BY InitRInv, StepRInv, PTL DEF RedisSpec

\* Counters, expiries and replies are numbers; stages are stages.
THEOREM RedisTypeCorrect == RedisSpec => []RedisTypeOK
<1>1. RInv => RedisTypeOK
  BY DEF RInv
<1> QED BY <1>1, RInvCorrect, PTL

\* No counter ever stands in Redis without an expiry ahead of it.
THEOREM NeverStuckCorrect == RedisSpec => []NeverStuck
<1>1. ASSUME RInv, NEW k \in Keys PROVE value[k] > 0 <=> expireAt[k] > now
  <2>1. value[k] \in Nat /\ expireAt[k] \in Nat /\ now \in Nat
    BY <1>1 DEF RInv, RedisTypeOK
  <2> QED BY <1>1, <2>1 DEF RInv, ExpiryIsAhead
<1>2. RInv => NeverStuck
  BY <1>1 DEF NeverStuck
<1> QED BY <1>2, RInvCorrect, PTL

-----------------------------------------------------------------------------
(* What a caller is told: a reply is at most MaxDelay old when it arrives. *)

RepliesAreRecent ==
  \A r \in Requests : call[r] = "ran" => ranAt[r] <= now /\ now <= ranAt[r] + MaxDelay

DInv == RInv /\ RepliesAreRecent /\ ResetIsNotEarly

LEMMA InitDInv == RedisInit => DInv
BY InitRInv DEF RedisInit, DInv, RepliesAreRecent, ResetIsNotEarly

LEMMA StepDInv == DInv /\ [RedisNext]_redisVars => DInv'
<1> SUFFICES ASSUME DInv, [RedisNext]_redisVars, NEW r \in Requests
             PROVE  /\ call'[r] = "ran" => ranAt'[r] <= now' /\ now' <= ranAt'[r] + MaxDelay
                    /\ call'[r] = "done" => /\ resetAt'[r] >= ranAt'[r] + reply'[r].pttl
                                            /\ resetAt'[r] <= ranAt'[r] + reply'[r].pttl + MaxDelay
  BY StepRInv DEF DInv, RepliesAreRecent, ResetIsNotEarly
<1>1. /\ now \in Nat /\ ranAt[r] \in Nat /\ resetAt[r] \in Nat /\ reply[r].pttl \in Nat
      /\ MaxDelay \in Nat
      /\ call \in [Requests -> CallStage] /\ ranAt \in [Requests -> Nat] /\ resetAt \in [Requests -> Nat]
      /\ call[r] = "ran" => reply[r].pttl > 0
  BY DelayAssumption DEF DInv, RInv, RedisTypeOK, RepliesArePositive
<1>2. /\ call[r] = "ran" => ranAt[r] <= now /\ now <= ranAt[r] + MaxDelay
      /\ call[r] = "done" => /\ resetAt[r] >= ranAt[r] + reply[r].pttl
                             /\ resetAt[r] <= ranAt[r] + reply[r].pttl + MaxDelay
  BY DEF DInv, RepliesAreRecent, ResetIsNotEarly
<1>3. CASE RedisTick
  <2>1. now' = now + 1 /\ UNCHANGED calls
    BY <1>3 DEF RedisTick
  <2>2. call[r] = "ran" => now < ranAt[r] + MaxDelay
    BY <1>3 DEF RedisTick
  <2> QED BY <1>1, <1>2, <2>1, <2>2 DEF calls
<1>4. CASE RunBlock(r)
  <2>1. call'[r] = "ran" /\ ranAt'[r] = now /\ now' = now
    BY <1>1, <1>4 DEF RunBlock, Reaches
  <2> QED BY <1>1, <2>1
<1>5. CASE Receive(r)
  <2>1. /\ call[r] = "ran" /\ call'[r] = "done"
        /\ UNCHANGED <<now, reply, ranAt>>
        /\ resetAt'[r] = now + (IF reply[r].pttl > 0 THEN reply[r].pttl ELSE Window)
    BY <1>1, <1>5 DEF Receive, Reaches
  <2>2. resetAt'[r] = now + reply[r].pttl
    BY <1>1, <2>1
  <2> QED BY <1>1, <1>2, <2>1, <2>2
<1>6. CASE Send(r) \/ Throw(r) \/ RunLate(r)
  BY <1>1, <1>6 DEF Send, Throw, RunLate, Reaches
<1>7. ASSUME NEW q \in Requests \ {r}, Send(q) \/ RunBlock(q) \/ Receive(q) \/ Throw(q) \/ RunLate(q)
      PROVE  /\ call'[r] = call[r] /\ ranAt'[r] = ranAt[r] /\ now' = now
             /\ resetAt'[r] = resetAt[r] /\ reply'[r] = reply[r]
  BY <1>7 DEF Send, RunBlock, Receive, Throw, RunLate, Reaches, DInv, RInv, RedisTypeOK
<1>8. CASE UNCHANGED redisVars
  BY <1>2, <1>8 DEF redisVars, calls
<1> QED BY <1>2, <1>3, <1>4, <1>5, <1>6, <1>7, <1>8 DEF RedisNext

LEMMA DInvCorrect == RedisSpec => []DInv
BY InitDInv, StepDInv, PTL DEF RedisSpec

\* No caller is told to come back before its window is over, or later than the
\* delay of the reply after that.
THEOREM ResetIsNotEarlyCorrect == RedisSpec => []ResetIsNotEarly
<1>1. DInv => ResetIsNotEarly
  BY DEF DInv
<1> QED BY <1>1, DInvCorrect, PTL

-----------------------------------------------------------------------------
LEMMA RedisInitMaps == RedisInit => RedisWindows!InitWindows
BY DEF RedisInit, RedisWindows!InitWindows, RedisWindows!Closed, Counters

\* A block is a hit, and its counter is the window it returns.
LEMMA BlockMaps ==
  ASSUME RInv, NEW k \in Keys, Block(k), now' = now
  PROVE  /\ RedisWindows!Hit(k)
         /\ RedisWindows!AfterHit(k) = [count |-> value[k] + 1, resetAt |-> expireAt'[k]]
<1>1. /\ value'[k] = value[k] + 1 /\ expireAt'[k] = Expiry(k)
      /\ \A j \in Keys \ {k} : value'[j] = value[j] /\ expireAt'[j] = expireAt[j]
  BY DEF Block, RInv, RedisTypeOK
<1>2. \/ value[k] > 0 /\ Expiry(k) = expireAt[k]
      \/ value[k] = 0 /\ Expiry(k) = now + Window
  BY DEF Expiry, RInv, RedisTypeOK, ExpiryIsAhead
<1>3. RedisWindows!AfterHit(k) = [count |-> value[k] + 1, resetAt |-> expireAt'[k]]
  BY <1>1, <1>2 DEF RedisWindows!AfterHit, RedisWindows!IsOpen, Counters
<1>4. Counters' = [Counters EXCEPT ![k] = RedisWindows!AfterHit(k)]
  BY <1>1, <1>3 DEF Counters
<1> QED BY <1>3, <1>4 DEF RedisWindows!Hit

LEMMA RedisTickMaps == ASSUME RInv, RedisTick PROVE RedisWindows!Tick
BY DEF RedisTick, RedisWindows!Tick, RedisWindows!Closed, Counters, RInv, RedisTypeOK, ExpiryIsAhead

LEMMA RedisStepMaps ==
  RInv /\ [RedisNext]_redisVars =>
    [RedisWindows!Tick \/ \E k \in Keys : RedisWindows!Hit(k)]_(RedisWindows!clock)
<1> SUFFICES ASSUME RInv, [RedisNext]_redisVars
             PROVE  [RedisWindows!Tick \/ \E k \in Keys : RedisWindows!Hit(k)]_(RedisWindows!clock)
  OBVIOUS
<1>1. ASSUME NEW r \in Requests, Send(r) \/ Receive(r) \/ Throw(r)
      PROVE  UNCHANGED RedisWindows!clock
  BY <1>1 DEF Send, Receive, Throw, redis, RedisWindows!clock, Counters
<1>2. CASE UNCHANGED redisVars
  BY <1>2 DEF redisVars, redis, RedisWindows!clock, Counters
<1>3. ASSUME NEW r \in Requests, RunBlock(r) \/ RunLate(r)
      PROVE  KeyOf[r] \in Keys /\ RedisWindows!Hit(KeyOf[r])
  BY <1>3, KeyAssumption, BlockMaps DEF RunBlock, RunLate
<1> QED BY <1>1, <1>2, <1>3, RedisTickMaps DEF RedisNext

\* The Redis store keeps the contract of RateLimiterStore: a window of exactly
\* windowMs from the first hit of any instance, blocks that outlive their
\* connection included.
THEOREM RedisKeepsWindowsCorrect == RedisSpec => RedisKeepsWindows
BY RedisInitMaps, RedisStepMaps, RInvCorrect, PTL DEF RedisSpec, RedisKeepsWindows, RedisWindows!Spec

-----------------------------------------------------------------------------
(* The middleware over the Map *)

\* The middleware calls the store and does nothing else to it.
LEMMA MapLimiterUsesMap == MapLimiterSpec => MapSpec
<1>1. InitMapLimiter => MapInit
  BY DEF InitMapLimiter
<1>2. [NextMapLimiter]_mapLimiterVars => [MapNext]_mapVars
  BY KeyAssumption DEF NextMapLimiter, MapCount, MapNext, mapLimiterVars
<1> QED BY <1>1, <1>2, PTL DEF MapLimiterSpec, MapSpec

LEMMA MapLimiterInitMaps == InitMapLimiter => MapRate!Init
<1>1. MapInit => MapRate!InitWindows
  BY DEF MapInit, MapRate!InitWindows, MapRate!Closed, Buckets, IsLive
<1> QED BY <1>1 DEF InitMapLimiter, InitLimiter, NoAnswer, Never, MapRate!Init, MapRate!InitLimiter,
                    MapRate!NoAnswer, MapRate!Never

LEMMA MapCountMaps == ASSUME MapTypeOK, NEW r \in Requests, MapCount(r) PROVE MapRate!Count(r)
<1>1. MapWindows!Hit(KeyOf[r]) /\ buckets'[KeyOf[r]] = MapWindows!AfterHit(KeyOf[r])
  BY HitMaps, KeyAssumption DEF MapCount
<1>2. MapRate!Hit(KeyOf[r]) /\ buckets'[KeyOf[r]] = MapRate!AfterHit(KeyOf[r])
  BY <1>1 DEF MapWindows!Hit, MapWindows!AfterHit, MapWindows!IsOpen,
              MapRate!Hit, MapRate!AfterHit, MapRate!IsOpen
<1> QED BY <1>2 DEF MapCount, Counts, Goto, MapRate!Count, MapRate!Counts, MapRate!Goto

LEMMA MapMovesMaps == ASSUME MapMoves PROVE MapRate!Moves
BY ProcessAssumption
   DEF MapMoves, Call, Decide, SetLimit, Goto, local, MapRate!Moves, MapRate!Call, MapRate!Decide,
       MapRate!SetLimit, MapRate!Goto, MapRate!local

LEMMA MapLimiterStepMaps ==
  MapTypeOK /\ [NextMapLimiter]_mapLimiterVars => [MapRate!Next]_(MapRate!vars)
<1> SUFFICES ASSUME MapTypeOK, [NextMapLimiter]_mapLimiterVars PROVE [MapRate!Next]_(MapRate!vars)
  OBVIOUS
<1>1. UNCHANGED limiter => UNCHANGED MapRate!limiter
  BY DEF limiter, local, MapRate!limiter, MapRate!local
<1>2. UNCHANGED MapWindows!clock => UNCHANGED MapRate!clock
  BY DEF MapWindows!clock, MapRate!clock
<1>3. CASE \E r \in Requests : MapCount(r)
  BY <1>3, MapCountMaps DEF MapRate!Next
<1>4. CASE MapMoves /\ UNCHANGED mapVars
  BY <1>2, <1>4, MapMovesMaps, MapStutters DEF MapRate!Next
<1>5. CASE Sweep /\ NobodyRuns /\ UNCHANGED limiter
  BY <1>1, <1>2, <1>5, SweepMaps DEF MapRate!vars
<1>6. CASE MapTick /\ UNCHANGED limiter
  <2>1. MapRate!Tick
    BY <1>6, MapTickMaps DEF MapWindows!Tick, MapWindows!Closed, MapRate!Tick, MapRate!Closed
  <2> QED BY <1>1, <1>6, <2>1 DEF MapRate!Next
<1>7. CASE UNCHANGED mapLimiterVars
  BY <1>1, <1>2, <1>7, MapStutters DEF mapLimiterVars, MapRate!vars
<1> QED BY <1>3, <1>4, <1>5, <1>6, <1>7 DEF NextMapLimiter

\* The middleware over the Map is the middleware over the contract.
THEOREM MapKeepsLimiterCorrect == MapLimiterSpec => MapKeepsLimiter
BY MapLimiterUsesMap, MapTypeCorrect, MapLimiterInitMaps, MapLimiterStepMaps, PTL
   DEF MapLimiterSpec, MapKeepsLimiter, MapRate!RateSpec

-----------------------------------------------------------------------------
(* The middleware over Redis *)

LEMMA RedisLimiterUsesRedis == RedisLimiterSpec => RedisSpec
<1>1. InitRedisLimiter => RedisInit
  BY DEF InitRedisLimiter
<1>2. [NextRedisLimiter]_redisLimiterVars => [RedisNext]_redisVars
  BY DEF NextRedisLimiter, Asks, RedisCount, Judges, FailsOpen, RedisLate, RedisNext, redisLimiterVars
<1> QED BY <1>1, <1>2, PTL DEF RedisLimiterSpec, RedisSpec

LEMMA RedisLimiterInitMaps == InitRedisLimiter => RedisRate!Init
<1>1. RedisInit => RedisRate!InitWindows
  BY DEF RedisInit, RedisRate!InitWindows, RedisRate!Closed, Counters
<1> QED BY <1>1 DEF InitRedisLimiter, InitLimiter, NoAnswer, Never, RedisRate!Init,
                    RedisRate!InitLimiter, RedisRate!NoAnswer, RedisRate!Never

LEMMA RedisHitMaps ==
  ASSUME RInv, NEW r \in Requests, Block(KeyOf[r]), now' = now
  PROVE  /\ RedisRate!Hit(KeyOf[r])
         /\ RedisRate!AfterHit(KeyOf[r]) = [count |-> value[KeyOf[r]] + 1, resetAt |-> expireAt'[KeyOf[r]]]
BY BlockMaps, KeyAssumption DEF RedisWindows!Hit, RedisWindows!AfterHit, RedisWindows!IsOpen,
       RedisRate!Hit, RedisRate!AfterHit, RedisRate!IsOpen

\* The answer is that of the block, whenever the reply arrives.
LEMMA RedisCountMaps == ASSUME RInv, NEW r \in Requests, RedisCount(r) PROVE RedisRate!Count(r)
<1>1. Block(KeyOf[r]) /\ now' = now
  BY DEF RedisCount, RunBlock
<1>2. reply'[r].count = value[KeyOf[r]] + 1
  BY DEF RedisCount, RunBlock, RInv, RedisTypeOK
<1>3. RedisRate!Hit(KeyOf[r]) /\ Counts(r, RedisRate!AfterHit(KeyOf[r]))
  BY <1>1, <1>2, RedisHitMaps DEF RedisCount
<1> QED BY <1>3 DEF Counts, Goto, RedisRate!Count, RedisRate!Counts, RedisRate!Goto

LEMMA RedisLateMaps == ASSUME RInv, NEW r \in Requests, RedisLate(r) PROVE RedisRate!Late(r)
<1>1. RedisRate!Hit(KeyOf[r])
  BY RedisHitMaps DEF RedisLate, RunLate
<1> QED BY <1>1 DEF RedisLate, CountedLate, Never, RedisRate!Late, RedisRate!CountedLate, RedisRate!Never

LEMMA RedisMovesMaps ==
  ASSUME \/ \E r \in Requests, i \in Instances : Asks(r, i)
         \/ \E r \in Requests : Judges(r) \/ FailsOpen(r)
         \/ \E i \in Instances, n \in Limits : SetLimit(i, n) /\ UNCHANGED redisVars
  PROVE  RedisRate!Moves /\ UNCHANGED RedisRate!clock
<1>1. UNCHANGED <<now, redis>>
  BY DEF Asks, Send, Judges, Receive, FailsOpen, Throw, redisVars
<1>2. UNCHANGED RedisRate!clock
  BY <1>1 DEF redis, RedisRate!clock, Counters
<1>3. RedisRate!Moves
  BY DEF Asks, Judges, FailsOpen, Call, Decide, Fail, SetLimit, Goto, NoAnswer, local, RedisRate!Moves,
         RedisRate!Call, RedisRate!Decide, RedisRate!Fail, RedisRate!SetLimit, RedisRate!Goto,
         RedisRate!NoAnswer, RedisRate!local
<1> QED BY <1>2, <1>3

LEMMA RedisLimiterStepMaps ==
  RInv /\ [NextRedisLimiter]_redisLimiterVars => [RedisRate!Next]_(RedisRate!vars)
<1> SUFFICES ASSUME RInv, [NextRedisLimiter]_redisLimiterVars PROVE [RedisRate!Next]_(RedisRate!vars)
  OBVIOUS
<1>1. UNCHANGED limiter => UNCHANGED RedisRate!limiter
  BY DEF limiter, local, RedisRate!limiter, RedisRate!local
<1>2. CASE \E r \in Requests : RedisCount(r) \/ RedisLate(r)
  BY <1>2, RedisCountMaps, RedisLateMaps DEF RedisRate!Next
<1>3. CASE RedisTick /\ UNCHANGED limiter
  <2>1. RedisRate!Tick
    BY <1>3, RedisTickMaps DEF RedisWindows!Tick, RedisWindows!Closed, RedisRate!Tick, RedisRate!Closed
  <2> QED BY <1>1, <1>3, <2>1 DEF RedisRate!Next
<1>4. CASE UNCHANGED redisLimiterVars
  BY <1>1, <1>4 DEF redisLimiterVars, redisVars, redis, RedisRate!vars, RedisRate!clock, Counters
<1>5. CASE \/ \E r \in Requests, i \in Instances : Asks(r, i)
           \/ \E r \in Requests : Judges(r) \/ FailsOpen(r)
           \/ \E i \in Instances, n \in Limits : SetLimit(i, n) /\ UNCHANGED redisVars
  BY <1>5, RedisMovesMaps DEF RedisRate!Next
<1> QED BY <1>2, <1>3, <1>4, <1>5 DEF NextRedisLimiter

\* The middleware of all instances over one Redis is the middleware over the
\* contract: late replies, lost ones and blocks that outlive their connection
\* included.
THEOREM RedisKeepsLimiterCorrect == RedisLimiterSpec => RedisKeepsLimiter
BY RedisLimiterUsesRedis, RInvCorrect, RedisLimiterInitMaps, RedisLimiterStepMaps, PTL
   DEF RedisLimiterSpec, RedisKeepsLimiter, RedisRate!RateSpec

-----------------------------------------------------------------------------
(* What holds over the contract holds over the stores *)

OverMap == INSTANCE RateLimiterProofs WITH window <- Buckets
OverRedis == INSTANCE RateLimiterProofs WITH window <- Counters

LEMMA OverMapAssumptions == /\ OverMap!WindowAssumption /\ OverMap!TimeAssumption
                             /\ OverMap!KeyAssumption /\ OverMap!LimitAssumption
BY WindowAssumption, TimeAssumption, KeyAssumption, LimitAssumption
   DEF OverMap!WindowAssumption, OverMap!TimeAssumption, OverMap!KeyAssumption, OverMap!LimitAssumption

LEMMA OverMapSpec == MapRate!RateSpec => OverMap!RateSpec
<1>1. MapRate!Init => OverMap!Init
  BY DEF MapRate!Init, MapRate!InitWindows, MapRate!InitLimiter, MapRate!Closed, MapRate!NoAnswer,
         MapRate!Never, OverMap!Init, OverMap!InitWindows, OverMap!InitLimiter,
         OverMap!Closed, OverMap!NoAnswer, OverMap!Never
<1>2. [MapRate!Next]_(MapRate!vars) => [OverMap!Next]_(OverMap!vars)
  BY DEF MapRate!Next, MapRate!vars, MapRate!clock, MapRate!limiter, MapRate!local, MapRate!Count,
         MapRate!Counts, MapRate!Late, MapRate!CountedLate, MapRate!Hit, MapRate!AfterHit,
         MapRate!IsOpen, MapRate!Moves, MapRate!Call, MapRate!Decide, MapRate!Fail,
         MapRate!SetLimit, MapRate!Goto, MapRate!Tick, MapRate!Closed, MapRate!NoAnswer,
         MapRate!Never, OverMap!Next, OverMap!vars, OverMap!clock, OverMap!limiter,
         OverMap!local, OverMap!Count, OverMap!Counts, OverMap!Late, OverMap!CountedLate,
         OverMap!Hit, OverMap!AfterHit, OverMap!IsOpen, OverMap!Moves, OverMap!Call,
         OverMap!Decide, OverMap!Fail, OverMap!SetLimit, OverMap!Goto, OverMap!Tick,
         OverMap!Closed, OverMap!NoAnswer, OverMap!Never
<1> QED BY <1>1, <1>2, PTL DEF MapRate!RateSpec, OverMap!RateSpec

LEMMA OverMapCardinality == \A S : OverMap!Cardinality(S) = Cardinality(S)
BY DEF OverMap!Cardinality, Cardinality

\* Over the Map no two hits of a window are told the same count, a window admits
\* no more than the limit and any Window ticks in a row less than twice that, and
\* nobody is refused who did not spend the limit.
THEOREM MapLimitsCorrect ==
  MapLimiterSpec => [](CountsAreDistinct /\ WindowLimit /\ SlidingLimit /\ RefusalIsJustified)
<1>1. OverMap!RateSpec => /\ []OverMap!CountsAreDistinct /\ []OverMap!WindowLimit
                              /\ []OverMap!SlidingLimit /\ []OverMap!RefusalIsJustified
  BY OverMapAssumptions, OverMap!CountsAreDistinctCorrect, OverMap!WindowLimitCorrect,
     OverMap!SlidingLimitCorrect, OverMap!RefusalIsJustifiedCorrect
<1>2. OverMap!CountsAreDistinct <=> CountsAreDistinct
  BY DEF OverMap!CountsAreDistinct, OverMap!Counted, OverMap!SameWindow, OverMap!Judged, OverMap!NoAnswer,
         CountsAreDistinct, Counted, SameWindow, Judged, NoAnswer
<1>3. OverMap!WindowLimit <=> WindowLimit
  BY OverMapCardinality
     DEF OverMap!WindowLimit, OverMap!Admitted, OverMap!SameWindow, OverMap!Judged, OverMap!NoAnswer, OverMap!Largest,
         WindowLimit, Admitted, SameWindow, Judged, NoAnswer, Largest
<1>4. OverMap!SlidingLimit <=> SlidingLimit
  BY OverMapCardinality DEF OverMap!SlidingLimit, OverMap!Admitted, OverMap!Judged, OverMap!NoAnswer, OverMap!Largest,
         SlidingLimit, Admitted, Judged, NoAnswer, Largest
<1>5. OverMap!RefusalIsJustified <=> RefusalIsJustified
  BY OverMapCardinality DEF OverMap!RefusalIsJustified, RefusalIsJustified
<1> QED BY <1>1, <1>2, <1>3, <1>4, <1>5, MapKeepsLimiterCorrect, OverMapSpec, PTL DEF MapKeepsLimiter

LEMMA OverRedisAssumptions == /\ OverRedis!WindowAssumption /\ OverRedis!TimeAssumption
                               /\ OverRedis!KeyAssumption /\ OverRedis!LimitAssumption
BY WindowAssumption, TimeAssumption, KeyAssumption, LimitAssumption
   DEF OverRedis!WindowAssumption, OverRedis!TimeAssumption, OverRedis!KeyAssumption, OverRedis!LimitAssumption

LEMMA OverRedisSpec == RedisRate!RateSpec => OverRedis!RateSpec
<1>1. RedisRate!Init => OverRedis!Init
  BY DEF RedisRate!Init, RedisRate!InitWindows, RedisRate!InitLimiter, RedisRate!Closed,
         RedisRate!NoAnswer, RedisRate!Never, OverRedis!Init, OverRedis!InitWindows,
         OverRedis!InitLimiter, OverRedis!Closed, OverRedis!NoAnswer, OverRedis!Never
<1>2. [RedisRate!Next]_(RedisRate!vars) => [OverRedis!Next]_(OverRedis!vars)
  BY DEF RedisRate!Next, RedisRate!vars, RedisRate!clock, RedisRate!limiter, RedisRate!local,
         RedisRate!Count, RedisRate!Counts, RedisRate!Late, RedisRate!CountedLate,
         RedisRate!Hit, RedisRate!AfterHit, RedisRate!IsOpen, RedisRate!Moves,
         RedisRate!Call, RedisRate!Decide, RedisRate!Fail, RedisRate!SetLimit,
         RedisRate!Goto, RedisRate!Tick, RedisRate!Closed, RedisRate!NoAnswer,
         RedisRate!Never, OverRedis!Next, OverRedis!vars, OverRedis!clock,
         OverRedis!limiter, OverRedis!local, OverRedis!Count, OverRedis!Counts,
         OverRedis!Late, OverRedis!CountedLate, OverRedis!Hit, OverRedis!AfterHit,
         OverRedis!IsOpen, OverRedis!Moves, OverRedis!Call, OverRedis!Decide,
         OverRedis!Fail, OverRedis!SetLimit, OverRedis!Goto, OverRedis!Tick,
         OverRedis!Closed, OverRedis!NoAnswer, OverRedis!Never
<1> QED BY <1>1, <1>2, PTL DEF RedisRate!RateSpec, OverRedis!RateSpec

LEMMA OverRedisCardinality == \A S : OverRedis!Cardinality(S) = Cardinality(S)
BY DEF OverRedis!Cardinality, Cardinality

\* And so it is for all instances together over one Redis, whatever replies are
\* late or lost and whatever value each instance has of the limit.
THEOREM RedisLimitsCorrect ==
  RedisLimiterSpec => [](CountsAreDistinct /\ WindowLimit /\ SlidingLimit /\ RefusalIsJustified)
<1>1. OverRedis!RateSpec => /\ []OverRedis!CountsAreDistinct /\ []OverRedis!WindowLimit
                                /\ []OverRedis!SlidingLimit /\ []OverRedis!RefusalIsJustified
  BY OverRedisAssumptions, OverRedis!CountsAreDistinctCorrect, OverRedis!WindowLimitCorrect,
     OverRedis!SlidingLimitCorrect, OverRedis!RefusalIsJustifiedCorrect
<1>2. OverRedis!CountsAreDistinct <=> CountsAreDistinct
  BY DEF OverRedis!CountsAreDistinct, OverRedis!Counted, OverRedis!SameWindow, OverRedis!Judged, OverRedis!NoAnswer,
         CountsAreDistinct, Counted, SameWindow, Judged, NoAnswer
<1>3. OverRedis!WindowLimit <=> WindowLimit
  BY OverRedisCardinality
     DEF OverRedis!WindowLimit, OverRedis!Admitted, OverRedis!SameWindow, OverRedis!Judged, OverRedis!NoAnswer, OverRedis!Largest,
         WindowLimit, Admitted, SameWindow, Judged, NoAnswer, Largest
<1>4. OverRedis!SlidingLimit <=> SlidingLimit
  BY OverRedisCardinality DEF OverRedis!SlidingLimit, OverRedis!Admitted, OverRedis!Judged, OverRedis!NoAnswer, OverRedis!Largest,
         SlidingLimit, Admitted, Judged, NoAnswer, Largest
<1>5. OverRedis!RefusalIsJustified <=> RefusalIsJustified
  BY OverRedisCardinality DEF OverRedis!RefusalIsJustified, RefusalIsJustified
<1> QED BY <1>1, <1>2, <1>3, <1>4, <1>5, RedisKeepsLimiterCorrect, OverRedisSpec, PTL DEF RedisKeepsLimiter

-----------------------------------------------------------------------------
(* The time a refused request is told *)

\* A request stands where its call stands; what it holds as its answer is what
\* its block made of the counter, which had time left.
Linked == \A r \in Requests :
  /\ call[r] = "idle" => stage[r] = "idle"
  /\ call[r] = "sent" => stage[r] = "called"
  /\ call[r] = "ran" => stage[r] = "counted"
  /\ call[r] \in {"lost", "failed"} => stage[r] = "admitted" /\ answer[r] = NoAnswer
  /\ call[r] \in {"ran", "done"} =>
       /\ at[r] = ranAt[r] /\ answer[r].resetAt = ranAt[r] + reply[r].pttl
       /\ at[r] < answer[r].resetAt

StagesTyped == stage \in [Requests -> Stage] /\ answer \in [Requests -> [count : Nat, resetAt : Nat]]
               /\ at \in [Requests -> Nat]

LInv == StagesTyped /\ Linked

LEMMA InitLInv == InitRedisLimiter => LInv
BY TimeAssumption
   DEF InitRedisLimiter, RedisInit, InitLimiter, LInv, StagesTyped, Linked, Stage, NoAnswer, Never

LEMMA CountLInv == ASSUME RInv, LInv, NEW r \in Requests, RedisCount(r) PROVE LInv'
<1> DEFINE k == KeyOf[r]
           w == [count |-> reply'[r].count, resetAt |-> expireAt'[k]]
<1>1. /\ expireAt' \in [Keys -> Nat] /\ expireAt'[k] = Expiry(k) /\ k \in Keys
      /\ Expiry(k) - now \in Nat /\ Expiry(k) - now > 0 /\ now \in Nat /\ value[k] \in Nat
  BY KeyAssumption, BlockKeeps DEF RedisCount, RunBlock, RInv, RedisTypeOK
<1>2. /\ reply' = [reply EXCEPT ![r] = [count |-> value[k] + 1, pttl |-> Expiry(k) - now]]
      /\ ranAt' = [ranAt EXCEPT ![r] = now] /\ call' = [call EXCEPT ![r] = "ran"]
      /\ stage' = [stage EXCEPT ![r] = "counted"] /\ answer' = [answer EXCEPT ![r] = w]
      /\ at' = [at EXCEPT ![r] = now]
  BY DEF RedisCount, RunBlock, Counts, Reaches, Goto
<1>3. /\ reply'[r].pttl = Expiry(k) - now /\ reply'[r].count = value[k] + 1
      /\ ranAt'[r] = now /\ call'[r] = "ran" /\ stage'[r] = "counted" /\ answer'[r] = w /\ at'[r] = now
      /\ \A q \in Requests \ {r} :
           /\ reply'[q] = reply[q] /\ ranAt'[q] = ranAt[q] /\ call'[q] = call[q]
           /\ stage'[q] = stage[q] /\ answer'[q] = answer[q] /\ at'[q] = at[q]
  BY <1>2 DEF RInv, RedisTypeOK, LInv, StagesTyped
<1>4. w \in [count : Nat, resetAt : Nat] /\ w.resetAt = now + (Expiry(k) - now) /\ now < w.resetAt
  BY <1>1, <1>3
<1> HIDE DEF k, w
<1>5. StagesTyped'
  BY <1>1, <1>2, <1>4 DEF LInv, StagesTyped, Stage
<1>6. Linked'
  BY <1>3, <1>4 DEF LInv, Linked
<1> QED BY <1>5, <1>6 DEF LInv

LEMMA StepLInv == RInv /\ LInv /\ [NextRedisLimiter]_redisLimiterVars => LInv'
<1> SUFFICES ASSUME RInv, LInv, [NextRedisLimiter]_redisLimiterVars PROVE LInv'
  OBVIOUS
<1>1. /\ call \in [Requests -> CallStage] /\ now \in Nat
  BY DEF RInv, RedisTypeOK
<1>2. ASSUME NEW r \in Requests, NEW i \in Instances, Asks(r, i) PROVE LInv'
  BY <1>1, <1>2 DEF Asks, Send, Call, Reaches, Goto, LInv, StagesTyped, Linked, Stage
<1>3. ASSUME NEW r \in Requests, Judges(r) PROVE LInv'
  BY <1>1, <1>3 DEF Judges, Receive, Decide, Reaches, Goto, LInv, StagesTyped, Linked, Stage
<1>4. ASSUME NEW r \in Requests, FailsOpen(r) PROVE LInv'
  <2>1. /\ stage' = [stage EXCEPT ![r] = "admitted"] /\ answer' = [answer EXCEPT ![r] = NoAnswer]
        /\ \/ call' = [call EXCEPT ![r] = "lost"]
           \/ call' = [call EXCEPT ![r] = "failed"]
        /\ UNCHANGED <<at, ranAt, reply>>
    BY <1>4 DEF FailsOpen, Throw, Fail, Reaches, Goto
  <2>2. /\ stage'[r] = "admitted" /\ answer'[r] = NoAnswer /\ call'[r] \in {"lost", "failed"}
        /\ \A q \in Requests \ {r} :
             stage'[q] = stage[q] /\ answer'[q] = answer[q] /\ call'[q] = call[q]
    BY <1>1, <2>1 DEF LInv, StagesTyped
  <2>3. StagesTyped'
    BY <2>1 DEF LInv, StagesTyped, Stage, NoAnswer
  <2>4. Linked'
    BY <2>1, <2>2 DEF LInv, Linked
  <2> QED BY <2>3, <2>4 DEF LInv
<1>5. ASSUME NEW r \in Requests, RedisLate(r) PROVE LInv'
  BY <1>1, <1>5 DEF RedisLate, RunLate, CountedLate, Reaches, LInv, StagesTyped, Linked
<1>6. ASSUME UNCHANGED <<call, ranAt, reply, stage, answer, at>> PROVE LInv'
  BY <1>6 DEF LInv, StagesTyped, Linked
<1> QED BY <1>2, <1>3, <1>4, <1>5, <1>6, CountLInv
        DEF NextRedisLimiter, SetLimit, RedisTick, redisLimiterVars, redisVars, calls, limiter, local

\* What comes at the time a refused request was told, or later, is not counted
\* in the window that refused it, whichever instance it comes to.
THEOREM ResetIsHonouredCorrect == RedisLimiterSpec => []ResetIsHonoured
<1>1. ASSUME DInv, LInv, NEW r \in Requests, NEW q \in Requests,
             stage[r] = "refused", Counted(q), at[q] >= resetAt[r]
      PROVE  ~SameWindow(r, q)
  <2>1. call[r] = "done" /\ call[q] \in {"ran", "done"}
    BY <1>1 DEF DInv, RInv, RedisTypeOK, CallStage, LInv, Linked, Counted, Judged
  <2>2. answer[r].resetAt = ranAt[r] + reply[r].pttl /\ at[q] < answer[q].resetAt
    BY <1>1, <2>1 DEF LInv, Linked
  <2>3. resetAt[r] >= answer[r].resetAt
    BY <1>1, <2>1, <2>2 DEF DInv, ResetIsNotEarly
  <2>4. /\ at[q] \in Nat /\ answer[q].resetAt \in Nat /\ answer[r].resetAt \in Nat
        /\ resetAt[r] \in Nat
    BY <1>1 DEF LInv, StagesTyped, DInv, RInv, RedisTypeOK
  <2> QED BY <1>1, <2>2, <2>3, <2>4 DEF SameWindow
<1>2. DInv /\ LInv => ResetIsHonoured
  BY <1>1 DEF ResetIsHonoured
<1>3. DInv => RInv
  BY DEF DInv
<1> QED BY <1>2, <1>3, RedisLimiterUsesRedis, DInvCorrect, InitLInv, StepLInv, PTL DEF RedisLimiterSpec

=============================================================================
