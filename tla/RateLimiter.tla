---------------------------- MODULE RateLimiter -----------------------------
(***************************************************************************)
(* The middleware over any store that keeps the contract of FixedWindow.   *)
(* A store behind a network counts the hit some time after the call, and   *)
(* its answer arrives some time after that.                                *)
(***************************************************************************)
EXTENDS FixedWindow, Limiter

vars == <<clock, limiter>>

Init == InitWindows /\ InitLimiter

Count(r) ==
  /\ Counts(r, AfterHit(KeyOf[r]))
  /\ Hit(KeyOf[r])

Late(r) == CountedLate(r) /\ Hit(KeyOf[r])

\* A step of the middleware, or of an operator: the store has no part in it.
Moves ==
  \/ \E r \in Requests, i \in Instances : Call(r, i)
  \/ \E r \in Requests : Decide(r) \/ Fail(r)
  \/ \E i \in Instances, n \in Limits : SetLimit(i, n)

Next ==
  \/ \E r \in Requests : Count(r) \/ Late(r)
  \/ Moves /\ UNCHANGED clock
  \/ Tick /\ UNCHANGED limiter

RateSpec == Init /\ [][Next]_vars

\* Every variable stays within its type.
TypeOK == WindowTypeOK /\ LimiterTypeOK

=============================================================================
