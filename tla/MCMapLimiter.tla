---------------------------- MODULE MCMapLimiter ----------------------------
(***************************************************************************)
(* Requests of one key, and one request of another, to one process.        *)
(***************************************************************************)
EXTENDS MapLimiter, TLC

CONSTANTS alice, bob, other, i1

MCKeyOf == [r \in Requests |-> IF r = other THEN bob ELSE alice]
MCSymmetry == Permutations(Requests \ {other})

=============================================================================
