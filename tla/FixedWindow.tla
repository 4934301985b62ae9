---------------------------- MODULE FixedWindow -----------------------------
(***************************************************************************)
(* The contract of RateLimiterStore.hit: a window of exactly Window ticks  *)
(* opens for a key at its first hit and counts the hits until it is over.  *)
(* The stores implement it; the middleware relies on nothing else.         *)
(***************************************************************************)
EXTENDS Clock

VARIABLE window  \* window[k]: its count and when it is over

clock == <<now, window>>

Closed == [count |-> 0, resetAt |-> 0]
IsOpen(k) == window[k].count > 0

InitWindows == now = 0 /\ window = [k \in Keys |-> Closed]

\* Slips: a hit after the first is not counted; the window is a tick too short.
AfterHitLost(k) ==
  IF IsOpen(k) THEN window[k] ELSE [count |-> 1, resetAt |-> now + Window]
AfterHitShort(k) ==
  IF IsOpen(k) THEN [window[k] EXCEPT !.count = @ + 1]
  ELSE [count |-> 1, resetAt |-> now + Window - 1]

\* What a hit on k makes of its window, and returns to the caller.
AfterHit(k) ==
  IF IsOpen(k) THEN [window[k] EXCEPT !.count = @ + 1]
  ELSE [count |-> 1, resetAt |-> now + Window]

Hit(k) ==
  /\ window' = [window EXCEPT ![k] = AfterHit(k)]
  /\ UNCHANGED now

\* Time passes; a window whose time is up is closed.
Tick ==
  /\ now < MaxTime
  /\ now' = now + 1
  /\ window' = [k \in Keys |-> IF window[k].resetAt <= now' THEN Closed ELSE window[k]]

Spec == InitWindows /\ [][Tick \/ \E k \in Keys : Hit(k)]_clock

-----------------------------------------------------------------------------
WindowTypeOK ==
  /\ now \in Nat
  /\ window \in [Keys -> [count : Nat, resetAt : Nat]]

=============================================================================
