----------------------------- MODULE MapLimiter -----------------------------
(***************************************************************************)
(* The middleware over the Map, the default.  hit() settles at once: from  *)
(* the call to the decision a request keeps the event loop, and nothing    *)
(* but the clock can move in between.                                      *)
(***************************************************************************)
EXTENDS InMemoryStore, Limiter

CONSTANT Process  \* the instance: each has a Map of its own

ASSUME ProcessAssumption == Process \in Instances

mapLimiterVars == <<mapVars, limiter>>

InitMapLimiter == MapInit /\ InitLimiter

\* The event loop is free.
NobodyRuns == \A r \in Requests : stage[r] \notin {"called", "counted"}

MapCount(r) ==
  /\ Hit(KeyOf[r])
  /\ Counts(r, buckets'[KeyOf[r]])

MapMoves ==
  \/ \E r \in Requests : Decide(r)
  \/ /\ NobodyRuns
     /\ \/ \E r \in Requests : Call(r, Process)
        \/ \E n \in Limits : SetLimit(Process, n)

NextMapLimiter ==
  \/ \E r \in Requests : MapCount(r)
  \/ MapMoves /\ UNCHANGED mapVars
  \/ Sweep /\ NobodyRuns /\ UNCHANGED limiter
  \/ MapTick /\ UNCHANGED limiter

MapLimiterSpec == InitMapLimiter /\ [][NextMapLimiter]_mapLimiterVars

-----------------------------------------------------------------------------
MapRate == INSTANCE RateLimiter WITH window <- Buckets

\* The middleware over the Map is the middleware over the contract.
MapKeepsLimiter == MapRate!RateSpec

=============================================================================
