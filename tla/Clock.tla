------------------------------- MODULE Clock --------------------------------
(***************************************************************************)
(* What the limiter, its stores and the contract between them share: the   *)
(* keys that are limited, the length of a window, and the time.            *)
(***************************************************************************)
EXTENDS Naturals

CONSTANTS
  Keys,     \* what is limited: user ids, or addresses without one
  Window,   \* WINDOW_MS, in ticks of the clock
  MaxTime   \* bound: the clock stops there

ASSUME WindowAssumption == Window \in Nat \ {0}
ASSUME TimeAssumption == MaxTime \in Nat

VARIABLE now  \* the clock: Date.now(), of Redis too

=============================================================================
