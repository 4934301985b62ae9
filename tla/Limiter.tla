------------------------------ MODULE Limiter -------------------------------
(***************************************************************************)
(* createRateLimiter: the middleware that admits or refuses a request.     *)
(* The function is cut at its await: Call is what comes before it, Decide  *)
(* what comes after it, Fail the catch block, and Counts what the request  *)
(* is told in between.  The store that counts is put beside it by the      *)
(* modules that extend this one.                                           *)
(***************************************************************************)
EXTENDS Callers, FiniteSets

CONSTANTS
  Instances,  \* processes of the service, with one store between them
  Limits      \* values RATE_LIMIT_PER_MINUTE takes

ASSUME LimitAssumption ==
  /\ Limits \subseteq Nat \ {0}
  /\ \E n \in Limits : \A m \in Limits : m <= n

VARIABLES
  flag,    \* flag[i]: RATE_LIMIT_PER_MINUTE in instance i
  stage,   \* where each request stands
  limit,   \* limit[r]: the flag as r read it
  answer,  \* answer[r]: the window that the hit of r made
  at       \* at[r]: when the hit of r was counted

local == <<stage, limit, answer, at>>
limiter == <<flag, local>>

Stage == {"idle", "called", "counted", "admitted", "refused"}

NoAnswer == [count |-> 0, resetAt |-> 0]
Never == MaxTime + 1

InitLimiter ==
  /\ flag \in [Instances -> Limits]
  /\ stage = [r \in Requests |-> "idle"]
  /\ limit = [r \in Requests |-> 0]
  /\ answer = [r \in Requests |-> NoAnswer]
  /\ at = [r \in Requests |-> Never]

Goto(r, to) == stage' = [stage EXCEPT ![r] = to]

\* The limit is read before the store is awaited.
Call(r, i) ==
  /\ stage[r] = "idle"
  /\ Goto(r, "called")
  /\ limit' = [limit EXCEPT ![r] = flag[i]]
  /\ UNCHANGED <<flag, answer, at>>

\* The store counts r, in a window that it makes w.
Counts(r, w) ==
  /\ stage[r] = "called"
  /\ Goto(r, "counted")
  /\ answer' = [answer EXCEPT ![r] = w]
  /\ at' = [at EXCEPT ![r] = now]
  /\ UNCHANGED <<flag, limit>>

\* Slip: compares what the count was before the hit.
DecideOnOthers(r) ==
  /\ stage[r] = "counted"
  /\ Goto(r, IF answer[r].count - 1 > limit[r] THEN "refused" ELSE "admitted")
  /\ UNCHANGED <<flag, limit, answer, at>>

\* Slip: the limit itself is one too many.
DecideAtLimit(r) ==
  /\ stage[r] = "counted"
  /\ Goto(r, IF answer[r].count >= limit[r] THEN "refused" ELSE "admitted")
  /\ UNCHANGED <<flag, limit, answer, at>>

Decide(r) ==
  /\ stage[r] = "counted"
  /\ Goto(r, IF answer[r].count > limit[r] THEN "refused" ELSE "admitted")
  /\ UNCHANGED <<flag, limit, answer, at>>

\* Fail open, before the store has counted the hit or after it.  The request
\* was not judged: it keeps no answer.
Fail(r) ==
  /\ stage[r] \in {"called", "counted"}
  /\ Goto(r, "admitted")
  /\ answer' = [answer EXCEPT ![r] = NoAnswer]
  /\ UNCHANGED <<flag, limit, at>>

\* The hit of a call that failed is counted all the same, after the request
\* was let through.
CountedLate(r) ==
  /\ stage[r] = "admitted" /\ at[r] = Never
  /\ at' = [at EXCEPT ![r] = now]
  /\ UNCHANGED <<flag, stage, limit, answer>>

\* PATCH or reload on one instance.
SetLimit(i, n) ==
  /\ flag' = [flag EXCEPT ![i] = n]
  /\ UNCHANGED local

-----------------------------------------------------------------------------
(* Properties, over any store *)

LimiterTypeOK ==
  /\ flag \in [Instances -> Limits]
  /\ stage \in [Requests -> Stage]
  /\ limit \in [Requests -> Limits \cup {0}]
  /\ answer \in [Requests -> [count : Nat, resetAt : Nat]]
  /\ at \in [Requests -> Nat]

Judged(r) == stage[r] \in {"admitted", "refused"} /\ answer[r] # NoAnswer
Admitted(r) == Judged(r) /\ stage[r] = "admitted"
SameWindow(r, q) == KeyOf[r] = KeyOf[q] /\ answer[r].resetAt = answer[q].resetAt
Counted(r) == stage[r] = "counted" \/ Judged(r)
Largest == CHOOSE n \in Limits : \A m \in Limits : m <= n

\* Two hits of one window are never told the same count, and the earlier has
\* the smaller one, in whatever order their answers arrive.
CountsAreDistinct ==
  \A r, q \in Requests :
    /\ Counted(r) /\ Counted(q) /\ r # q /\ SameWindow(r, q) => answer[r].count # answer[q].count
    /\ Counted(r) /\ Counted(q) /\ SameWindow(r, q) /\ at[r] < at[q] =>
         answer[r].count < answer[q].count

\* Within one window the store admits no more requests than the largest value
\* the flag had in any instance, although it is read before the hit is counted.
WindowLimit ==
  \A r \in Requests : Admitted(r) =>
    Cardinality({q \in Requests : Admitted(q) /\ SameWindow(q, r)}) <= Largest

\* A fixed window limits less than its name: in any Window ticks in a row up
\* to one request short of twice the limit is admitted, and never more.
SlidingLimit ==
  \A k \in Keys : \A t \in 0..MaxTime :
    Cardinality({r \in Requests : Admitted(r) /\ KeyOf[r] = k /\ at[r] \in t..(t + Window - 1)})
      <= 2 * Largest - 1

\* A refusal is justified: the store had counted at least as many other hits of
\* the key as the limit the request read, in the Window ticks before it.
RefusalIsJustified ==
  \A r \in Requests : stage[r] = "refused" =>
    Cardinality({q \in Requests : KeyOf[q] = KeyOf[r] /\ q # r
                                  /\ at[q] <= at[r] /\ at[r] < at[q] + Window}) >= limit[r]

=============================================================================
