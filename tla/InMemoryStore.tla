--------------------------- MODULE InMemoryStore ----------------------------
(***************************************************************************)
(* InMemoryRateLimiterStore: a Map of buckets.  hit() runs to its end      *)
(* without yielding; the sweeper may run at any time and deletes buckets   *)
(* that are over; close() clears the map at shutdown.                      *)
(***************************************************************************)
EXTENDS Clock

CONSTANT MaxCount  \* bound: hits in one bucket

ASSUME CountAssumption == MaxCount \in Nat

VARIABLE buckets  \* the Map: a function on the keys that have a bucket

mapVars == <<now, buckets>>

MapInit == now = 0 /\ buckets = [k \in {} |-> <<>>]

\* Slip: a bucket is still live at the instant it is over.
IsLiveAtReset(k) == k \in DOMAIN buckets /\ ~(buckets[k].resetAt < now)

IsLive(k) == k \in DOMAIN buckets /\ ~(buckets[k].resetAt <= now)

\* The bucket that hit() counts on: the stored one, or a new one.
Current(k) ==
  IF IsLive(k) THEN buckets[k] ELSE [count |-> 0, resetAt |-> now + Window]

Hit(k) ==
  /\ Current(k).count < MaxCount
  /\ buckets' = [j \in DOMAIN buckets \cup {k} |->
                   IF j = k THEN [Current(k) EXCEPT !.count = @ + 1] ELSE buckets[j]]
  /\ UNCHANGED now

\* Slip: the sweeper rounds up and deletes buckets that still count.
SweepEarly ==
  /\ buckets' = [k \in {j \in DOMAIN buckets : buckets[j].resetAt > now + 1} |-> buckets[k]]
  /\ UNCHANGED now

Sweep ==
  /\ buckets' = [k \in {j \in DOMAIN buckets : IsLive(j)} |-> buckets[k]]
  /\ UNCHANGED now

MapTick == now < MaxTime /\ now' = now + 1 /\ UNCHANGED buckets

MapNext == Sweep \/ MapTick \/ \E k \in Keys : Hit(k)

MapSpec == MapInit /\ [][MapNext]_mapVars

-----------------------------------------------------------------------------
Bucket == [count : Nat \ {0}, resetAt : Nat]

\* The map holds counted buckets of known keys.
MapTypeOK ==
  /\ now \in Nat
  /\ DOMAIN buckets \subseteq Keys
  /\ \A k \in DOMAIN buckets : buckets[k] \in Bucket

\* A bucket that is over, swept or never made is a closed window.
Buckets == [k \in Keys |-> IF IsLive(k) THEN buckets[k] ELSE [count |-> 0, resetAt |-> 0]]

MapWindows == INSTANCE FixedWindow WITH window <- Buckets

\* The map keeps the contract: every bucket lasts exactly one window from its
\* first hit, whenever the sweeper runs and however stale buckets pile up.
MapKeepsWindows == MapWindows!Spec

\* The sweeper frees memory and nothing else: it takes no count from a key.
SweepIsInvisible == [][Sweep => \A k \in Keys : Current(k)' = Current(k)]_mapVars

=============================================================================
