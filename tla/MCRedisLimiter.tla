--------------------------- MODULE MCRedisLimiter ---------------------------
(***************************************************************************)
(* Requests of one key to two instances.                                   *)
(***************************************************************************)
EXTENDS RedisLimiter, TLC

CONSTANT alice

MCKeyOf == [r \in Requests |-> alice]
MCSymmetry == Permutations(Requests) \cup Permutations(Instances)

=============================================================================
