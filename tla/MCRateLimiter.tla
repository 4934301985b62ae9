--------------------------- MODULE MCRateLimiter ----------------------------
(***************************************************************************)
(* Small instances of RateLimiter: requests of one key.                    *)
(***************************************************************************)
EXTENDS RateLimiter, TLC

CONSTANT alice

MCKeyOf == [r \in Requests |-> alice]
MCSymmetry == Permutations(Requests) \cup Permutations(Instances)

=============================================================================
